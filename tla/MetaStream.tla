----------------------------- MODULE MetaStream -----------------------------
(***************************************************************************)
(* How the bytes of a meta connection are cut back into the frames that    *)
(* the peer wrote, however TCP splits and joins them                       *)
(* (tinc-runtime/src/meta.rs, legacy_meta.rs, tincd/src/meta.rs and        *)
(* state.rs).  How long a frame is depends on what came before it: the     *)
(* answer of a proxy, a line, a record of SPTPS with or without            *)
(* authentication tag, a packet whose length the message before told.      *)
(*                                                                         *)
(* The stream is a script of units; a byte is the pair of its unit and of  *)
(* its place in it.  A packet is arbitrary data: some of its bytes may be  *)
(* newlines, and its first two may read as a small length.                 *)
(***************************************************************************)
EXTENDS Integers, Sequences, SequencesExt, FiniteSets

CONSTANTS
    Streams,    \* the streams to try: [mode, incoming, proxy, script]
    MaxMeta,    \* MAX_META_BUFFER_SIZE: a read, and the buffer of lines
    ReadSizes   \* how much a read may get

VARIABLES
    stream,     \* what the peer wrote
    unread,     \* its bytes that were not read yet
    input,      \* those read and not yet in the decoder (legacy: raw_buffer)
    stage,      \* "proxy", "pending" or "driver"
    buffer,     \* the buffer of the stage
    decoder,    \* what the driver expects
    delivered,  \* the units that came out
    failed      \* why the connection was closed, or "no"

streamVars == <<stream, unread, input, stage, buffer, decoder, delivered, failed>>

HeaderLen == 3      \* SPTPS_TCP_HEADER_LEN: two bytes of length, one of type
AuthOverhead == 4   \* SPTPS_TCP_AUTH_OVERHEAD: the header and the tag

Bytes(unit) == [k \in 1..stream.script[unit].len |-> <<unit, k>>]
Unit(byte) == stream.script[byte[1]]
IsNewline(byte) == byte[2] \in Unit(byte).newlines
HasLine(b) == \E k \in DOMAIN b : IsNewline(b[k])
LineEnd(b) == CHOOSE k \in DOMAIN b : IsNewline(b[k]) /\ \A j \in 1..(k - 1) : ~IsNewline(b[j])
Plain == stream.mode = "bypass" \/ decoder.state = "ExpectId"

(* A frame is good when it is just what the peer wrote as the next unit.   *)
Deliver(frame, what) ==
    LET unit == frame[1][1]
    IN  IF /\ frame = Bytes(unit) /\ stream.script[unit].what = what
        THEN delivered' = Append(delivered, unit) /\ UNCHANGED failed
        ELSE failed' = "garbled" /\ UNCHANGED delivered

(* What the driver expects after a unit: handle_meta_line,                 *)
(* handle_sptps_application, receive_id and receive_sptps_record.          *)
Expecting(unit) ==
    LET u == stream.script[unit]
    IN  CASE u.does = "id" -> [decoder EXCEPT !.state = "Connected"]
          [] u.does = "sig" -> [decoder EXCEPT !.encrypted = TRUE]
          [] u.does = "metakey" -> [decoder EXCEPT !.encrypted = TRUE]
          [] u.does = "announces" -> [decoder EXCEPT !.body = stream.script[unit + 1].len]
          [] u.does = "announces record" -> [decoder EXCEPT !.record = stream.script[unit + 1].len - AuthOverhead]
          [] OTHER -> decoder

-----------------------------------------------------------------------------
(* MetaStreamDecoder: next_body_frame, next_plaintext_frame,               *)
(* expected_sptps_frame_len, next_sptps_frame.  While a body is awaited    *)
(* and not complete, what is there of it is searched for a line or a       *)
(* record all the same.                                                    *)
NoBody == -1
BodyReady == decoder.body # NoBody /\ Len(buffer) >= decoder.body

(* What the first two bytes read as: the length of a record's payload.     *)
Payload(b) == Unit(b[1]).reads
OverheadAlwaysTag(encrypted) == AuthOverhead
Overhead(encrypted) == IF encrypted THEN AuthOverhead ELSE HeaderLen
ExpectedLen(b) == Payload(b) + Overhead(decoder.encrypted)

FrameReady ==
    \/ BodyReady
    \/ Plain /\ HasLine(buffer)
    \/ ~Plain /\ Len(buffer) >= 2 /\ Len(buffer) >= ExpectedLen(buffer)

Take(n) == buffer' = SubSeq(buffer, n + 1, Len(buffer))

NextBodyFrame ==
    /\ BodyReady
    /\ Deliver(SubSeq(buffer, 1, decoder.body), "body")
    /\ Take(decoder.body)
    /\ decoder' = [decoder EXCEPT !.body = NoBody]

NextPlaintextFrame ==
    /\ ~BodyReady /\ Plain /\ HasLine(buffer)
    /\ Deliver(SubSeq(buffer, 1, LineEnd(buffer)), "line")
    /\ Take(LineEnd(buffer))
    /\ decoder' = Expecting(buffer[1][1])

(* A packet in a record of its own must have the length that was told.     *)
NextSptpsFrame ==
    /\ ~BodyReady /\ ~Plain
    /\ Len(buffer) >= 2 /\ Len(buffer) >= ExpectedLen(buffer)
    /\ IF decoder.record # NoBody /\ Payload(buffer) # decoder.record
       THEN failed' = "garbled" /\ UNCHANGED <<delivered, buffer, decoder>>
       ELSE /\ Deliver(SubSeq(buffer, 1, ExpectedLen(buffer)), "record")
            /\ Take(ExpectedLen(buffer))
            /\ decoder' = [Expecting(buffer[1][1]) EXCEPT
                             !.record = IF decoder.record # NoBody THEN NoBody ELSE @]

(* drain_available_frames of the modern driver, and the inner loop of the  *)
(* legacy one.                                                             *)
Drain ==
    /\ stage = "driver" /\ failed = "no"
    /\ stream.mode # "legacy" \/ decoder.encrypted
    /\ \/ NextBodyFrame
       \/ stream.mode # "legacy" /\ (NextPlaintextFrame \/ NextSptpsFrame)
    /\ UNCHANGED <<stream, unread, input, stage>>

(* next_input_window: never more than the frame that is being read.        *)
Window ==
    CASE decoder.body # NoBody -> decoder.body - Len(buffer)
      [] decoder.body = NoBody /\ Plain -> MaxMeta - Len(buffer)
      [] OTHER -> IF Len(buffer) < 2 THEN 2 - Len(buffer) ELSE ExpectedLen(buffer) - Len(buffer)

(* The loop of MetaConnectionDriver::receive_bytes.                        *)
Feed ==
    /\ stage = "driver" /\ failed = "no" /\ stream.mode # "legacy"
    /\ input # <<>> /\ ~FrameReady
    /\ IF Window <= 0 \/ decoder.body > MaxMeta
       THEN failed' = "full" /\ UNCHANGED <<buffer, input>>
       ELSE LET n == IF Len(input) < Window THEN Len(input) ELSE Window
            IN  /\ buffer' = buffer \o SubSeq(input, 1, n)
                /\ input' = SubSeq(input, n + 1, Len(input))
                /\ UNCHANGED failed
    /\ UNCHANGED <<stream, unread, stage, decoder, delivered>>

(* LegacyMetaConnectionDriver::receive_bytes: lines in the clear until     *)
(* METAKEY, then everything that was read is deciphered and pushed.        *)
LegacyLine ==
    /\ stage = "driver" /\ failed = "no" /\ stream.mode = "legacy" /\ ~decoder.encrypted
    /\ HasLine(input)
    /\ Deliver(SubSeq(input, 1, LineEnd(input)), "line")
    /\ decoder' = Expecting(input[1][1])
    /\ input' = SubSeq(input, LineEnd(input) + 1, Len(input))
    /\ UNCHANGED <<stream, unread, stage, buffer>>

LegacyDecrypt ==
    /\ stage = "driver" /\ failed = "no" /\ stream.mode = "legacy" /\ decoder.encrypted
    /\ input # <<>> /\ ~BodyReady /\ ~HasLine(buffer)
    /\ IF Len(buffer) + Len(input) > MaxMeta
       THEN failed' = "full" /\ UNCHANGED <<buffer, input>>
       ELSE buffer' = buffer \o input /\ input' = <<>> /\ UNCHANGED failed
    /\ UNCHANGED <<stream, unread, stage, decoder, delivered>>

LegacyFrame ==
    /\ stage = "driver" /\ failed = "no" /\ stream.mode = "legacy" /\ decoder.encrypted
    /\ ~BodyReady /\ HasLine(buffer)
    /\ Deliver(SubSeq(buffer, 1, LineEnd(buffer)), "line")
    /\ Take(LineEnd(buffer))
    /\ decoder' = Expecting(buffer[1][1])
    /\ UNCHANGED <<stream, unread, input, stage>>

-----------------------------------------------------------------------------
(* pending_incoming_id_line: the daemon gathers the line with the ID, then *)
(* hands it and what trails it to the driver.                              *)
PendingIncoming ==
    /\ stage = "pending" /\ failed = "no" /\ input # <<>>
    /\ LET gathered == buffer \o input
       IN  IF Len(gathered) > MaxMeta
           THEN failed' = "full" /\ UNCHANGED <<stage, buffer, input>>
           ELSE IF HasLine(gathered)
           THEN stage' = "driver" /\ buffer' = <<>> /\ input' = gathered /\ UNCHANGED failed
           ELSE buffer' = gathered /\ input' = <<>> /\ UNCHANGED <<stage, failed>>
    /\ UNCHANGED <<stream, unread, decoder, delivered>>

(* socks5_response_len, with the method and the type of address that the   *)
(* bytes tell once they are there; 0 while they are not.                   *)
Socks5Len(b) ==
    LET offset == Unit(b[1]).method
    IN  IF Len(b) < 2 THEN 0
        ELSE IF offset \notin {5, 7} THEN 2
        ELSE IF Len(b) <= offset THEN 0
        ELSE offset + Unit(b[1]).address

Reject == failed' = "proxy" /\ UNCHANGED <<stage, buffer, input>>
Past(gathered, n) == /\ stage' = "driver" /\ buffer' = <<>>
                     /\ input' = SubSeq(gathered, n + 1, Len(gathered))
                     /\ UNCHANGED failed
Wait(gathered) == buffer' = gathered /\ input' = <<>> /\ UNCHANGED <<stage, failed>>

SocksAnswer(gathered, required) ==
    IF required = 0 \/ Len(gathered) < required THEN Wait(gathered)
    ELSE IF Unit(gathered[1]).ok THEN Past(gathered, required) ELSE Reject

(* Lines of an HTTP proxy up to the empty one; any other line is taken for *)
(* the first of the peer.                                                  *)
HttpAnswer(gathered) ==
    IF ~HasLine(gathered) THEN Wait(gathered)
    ELSE LET line == Unit(gathered[1])
             n == LineEnd(gathered)
         IN  IF line.does = "empty" THEN Past(gathered, n)
             ELSE IF line.does # "status" THEN Past(gathered, 0)
             ELSE IF ~line.ok THEN Reject
             ELSE /\ input' = SubSeq(gathered, n + 1, Len(gathered)) /\ buffer' = <<>>
                  /\ UNCHANGED <<stage, failed>>

(* drain_http_proxy_response_like_tinc                                     *)
ProxyAnswer ==
    /\ stage = "proxy" /\ failed = "no" /\ input # <<>>
    /\ LET gathered == buffer \o input
       IN  IF Len(gathered) > MaxMeta THEN failed' = "full" /\ UNCHANGED <<stage, buffer, input>>
           ELSE CASE stream.proxy = "socks4" -> SocksAnswer(gathered, Unit(gathered[1]).len)
                  [] stream.proxy = "socks5" -> SocksAnswer(gathered, Socks5Len(gathered))
                  [] stream.proxy = "http" -> HttpAnswer(gathered)
    /\ UNCHANGED <<stream, unread, decoder, delivered>>

-----------------------------------------------------------------------------
(* read_meta_connection_once: what there is, at most a buffer full, once   *)
(* all that was read before is handled.                                    *)
Settled ==
    CASE stage # "driver" -> input = <<>>
      [] stage = "driver" /\ stream.mode # "legacy" -> input = <<>> /\ ~FrameReady
      [] OTHER -> ~BodyReady
                  /\ IF decoder.encrypted THEN input = <<>> /\ ~HasLine(buffer) ELSE ~HasLine(input)

Read ==
    /\ failed = "no" /\ unread # <<>> /\ Settled
    /\ \E n \in ReadSizes \intersect 1..Len(unread) :
        /\ input' = input \o SubSeq(unread, 1, n)
        /\ unread' = SubSeq(unread, n + 1, Len(unread))
    /\ UNCHANGED <<stream, stage, buffer, decoder, delivered, failed>>

StreamInit ==
    /\ stream \in Streams
    /\ unread = FlattenSeq([u \in DOMAIN stream.script |-> Bytes(u)])
    /\ stage = (IF stream.incoming THEN "pending" ELSE IF stream.proxy # "none" THEN "proxy" ELSE "driver")
    /\ input = <<>> /\ buffer = <<>> /\ delivered = <<>> /\ failed = "no"
    /\ decoder = [state |-> "ExpectId", encrypted |-> FALSE, body |-> NoBody, record |-> NoBody]

StreamNext == \/ Read \/ PendingIncoming \/ ProxyAnswer \/ Feed \/ Drain
              \/ LegacyLine \/ LegacyDecrypt \/ LegacyFrame

-----------------------------------------------------------------------------
ProxyUnits == {u \in DOMAIN stream.script : stream.script[u].proxy}
Refused == \E u \in ProxyUnits : ~stream.script[u].ok
Expected == [k \in 1..(Len(stream.script) - Cardinality(ProxyUnits)) |-> k + Cardinality(ProxyUnits)]

(* A part of the packet passes for a line or for a record.                 *)
Mimics(u) ==
    /\ u.what = "body"
    /\ IF stream.mode = "modern" THEN u.reads + AuthOverhead < u.len
       ELSE \E k \in u.newlines : k < u.len

(* Invariant: whatever the sizes of the reads, the frames that come out    *)
(* are those the peer wrote, in order, none of them cut or joined; when    *)
(* everything is read all have come out; and the connection is closed only *)
(* for a proxy that refused, where a buffer is filled by whole reads (a    *)
(* pending or legacy connection, a proxy) for a full one, and for a packet *)
(* of which a part passes for a frame.                                     *)
FramesComeOut ==
    /\ IsPrefix(delivered, Expected)
    /\ unread = <<>> /\ failed = "no" /\ Settled => delivered = Expected
    /\ failed = "proxy" => Refused
    /\ failed = "full" => stream.mode = "legacy" \/ stage # "driver"
    /\ failed = "garbled" => \E u \in DOMAIN stream.script : Mimics(stream.script[u])

(* Invariant of meta_stream_decodes_split_plaintext_lines_and_packet_      *)
(* bodies: lines and packets come out of a stream however it was split.    *)
SplitBodiesComeWhole == failed # "garbled"

=============================================================================
