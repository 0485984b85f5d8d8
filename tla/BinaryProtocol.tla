--------------------------- MODULE BinaryProtocol ---------------------------
(***************************************************************************)
(* The binary frame codec (src/src/binary_protocol.cpp, .hpp).  A buffer   *)
(* is a sequence of bytes.  The widths of the integer fields are constants *)
(* so that an instance stays within 32-bit integers: the code has 8, 2, 4  *)
(* and 4 bytes, and a 64-byte signature.                                   *)
(***************************************************************************)
EXTENDS Integers, SequencesExt

CONSTANTS
  SeqWidth, TopicWidth, PayloadWidth, KeyIdWidth, SIGNATURE_SIZE,
  MAX_TOPIC_LEN, MAX_PAYLOAD_LEN

BINARY_PROTOCOL_VERSION == 1

CMD_SUBSCRIBE      == 1
CMD_UNSUBSCRIBE    == 2
CMD_PUBLISH        == 3
CMD_MESSAGE        == 4
CMD_ACK            == 5
CMD_PING           == 6
CMD_PONG           == 7
CMD_ERROR          == 8
CMD_SIGNED_PUBLISH == 16
CMD_SIGNED_MESSAGE == 17

MIN_FRAME_SIZE == 2 + SeqWidth + TopicWidth + PayloadWidth

----------------------------------------------------------------------------
(* BinaryFrame and its factories. *)
BinaryFrame ==
  [version |-> BINARY_PROTOCOL_VERSION, command |-> CMD_PING, sequence |-> 0,
   topic |-> <<>>, payload |-> <<>>,
   signature |-> [i \in 1..SIGNATURE_SIZE |-> 0], key_id |-> 0, is_signed |-> FALSE]

subscribe(t, seq) ==
  [BinaryFrame EXCEPT !.command = CMD_SUBSCRIBE, !.topic = t, !.sequence = seq]
unsubscribe(t, seq) ==
  [BinaryFrame EXCEPT !.command = CMD_UNSUBSCRIBE, !.topic = t, !.sequence = seq]
publish(t, body, seq) ==
  [BinaryFrame EXCEPT !.command = CMD_PUBLISH, !.topic = t, !.payload = body, !.sequence = seq]
message(t, body, seq) ==
  [BinaryFrame EXCEPT !.command = CMD_MESSAGE, !.topic = t, !.payload = body, !.sequence = seq]
ack(seq)    == [BinaryFrame EXCEPT !.command = CMD_ACK, !.sequence = seq]
ping        == [BinaryFrame EXCEPT !.command = CMD_PING]
pong        == [BinaryFrame EXCEPT !.command = CMD_PONG]
error(text) == [BinaryFrame EXCEPT !.command = CMD_ERROR, !.payload = text]

Signed(frame, sig, key) ==
  [frame EXCEPT !.signature = sig, !.key_id = key, !.is_signed = TRUE]
signed_publish(t, body, sig, key, seq) ==
  Signed([publish(t, body, seq) EXCEPT !.command = CMD_SIGNED_PUBLISH], sig, key)
signed_message(t, body, sig, key, seq) ==
  Signed([message(t, body, seq) EXCEPT !.command = CMD_SIGNED_MESSAGE], sig, key)

----------------------------------------------------------------------------
(* Big-endian integers.  A value too large for its field loses its high    *)
(* bytes, as the casts to uint16_t and uint32_t do.                        *)
writeUint(width, value) == [i \in 1..width |-> (value \div 256^(width - i)) % 256]

readUint(buffer, offset, width) ==
  FoldLeft(LAMBDA n, byte : n * 256 + byte, 0, SubSeq(buffer, offset + 1, offset + width))

serialize(frame) ==
  <<frame.version, frame.command>>
  \o writeUint(SeqWidth, frame.sequence)
  \o writeUint(TopicWidth, Len(frame.topic))
  \o writeUint(PayloadWidth, Len(frame.payload))
  \o frame.topic \o frame.payload
  \o IF frame.is_signed
       THEN frame.signature \o writeUint(KeyIdWidth, frame.key_id) ELSE <<>>

Nullopt == [ok |-> FALSE]

(* The header is there: parse what follows it, or reject it. *)
ParseBody(buffer) ==
  LET command     == buffer[2]
      topic_len   == readUint(buffer, 2 + SeqWidth, TopicWidth)
      payload_len == readUint(buffer, 2 + SeqWidth + TopicWidth, PayloadWidth)
      is_signed   == command \in {CMD_SIGNED_PUBLISH, CMD_SIGNED_MESSAGE}
      at_payload  == MIN_FRAME_SIZE + topic_len
      at_sig      == at_payload + payload_len
      total_size  == at_sig + IF is_signed THEN SIGNATURE_SIZE + KeyIdWidth ELSE 0
      unsigned    ==
        [BinaryFrame EXCEPT
           !.command  = command,
           !.sequence = readUint(buffer, 2, SeqWidth),
           !.topic    = SubSeq(buffer, MIN_FRAME_SIZE + 1, at_payload),
           !.payload  = SubSeq(buffer, at_payload + 1, at_sig)]
  IN
  IF topic_len > MAX_TOPIC_LEN \/ payload_len > MAX_PAYLOAD_LEN \/ Len(buffer) < total_size
    THEN Nullopt
    ELSE [ok |-> TRUE, size |-> total_size,
          frame |-> IF is_signed
                      THEN Signed(unsigned, SubSeq(buffer, at_sig + 1, at_sig + SIGNATURE_SIZE),
                                  readUint(buffer, at_sig + SIGNATURE_SIZE, KeyIdWidth))
                      ELSE unsigned]

(* An incomplete frame and one that can never be accepted give the same    *)
(* result.                                                                 *)
parse(buffer) ==
  IF Len(buffer) < MIN_FRAME_SIZE \/ buffer[1] # BINARY_PROTOCOL_VERSION
    THEN Nullopt ELSE ParseBody(buffer)
============================================================================
