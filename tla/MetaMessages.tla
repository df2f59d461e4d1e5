---------------------------- MODULE MetaMessages ----------------------------
(***************************************************************************)
(* The text of the messages daemons send each other (tinc-core             *)
(* protocol.rs, subnet.rs and utils.rs): how they are written, and how a   *)
(* line is read.  A line is a sequence of words; numbers are sequences of  *)
(* digits of a radix, with a sign or a prefix, and have the widths of the  *)
(* code, made smaller.  What may be unreadable is read as a set that is    *)
(* empty or has what was read.                                             *)
(***************************************************************************)
EXTENDS Integers, Sequences, SequencesExt, FiniteSets

CONSTANTS
    Radix, HexRadix,        \* 10 and 16
    I32Max, U32Max, U64Max, \* the widths of the numbers
    LengthMax,              \* i16::MAX, the longest packet announced
    MinMtu, DefaultMtu,     \* MIN_MTU and DEFAULT_MTU
    AddressBits,            \* 32: the longest prefix of a subnet
    DefaultWeight,          \* DEFAULT_WEIGHT of subnets
    ByteValues, DigitValues,\* 256 and 64: three bytes are four base64 digits
    Letters                 \* what is to be written and read

VARIABLES
    letter,     \* a message, a line, bytes or a subnet
    reading     \* what the other end makes of it
letterVars == <<letter, reading>>

-----------------------------------------------------------------------------
(* Words.                                                                  *)
Text(text) == [form |-> "text", text |-> text]
Number(sign, prefix, digits) == [form |-> "number", sign |-> sign, prefix |-> prefix, digits |-> digits]

DigitsOf(n, radix) ==
    LET digits[k \in 0 .. n] == IF k < radix THEN <<k>> ELSE Append(digits[k \div radix], k % radix)
    IN  digits[n]
ValueOf(digits, radix) == FoldLeft(LAMBDA v, d : v * radix + d, 0, digits)
IsIn(digits, radix) == digits # <<>> /\ \A d \in ToSet(digits) : d < radix

Decimal(n) == Number(IF n < 0 THEN "-" ELSE "", FALSE, DigitsOf(IF n < 0 THEN -n ELSE n, Radix))
Hexadecimal(n) == Number("", FALSE, DigitsOf(n, HexRadix))

Signed(w, n) == IF w.sign = "-" THEN -n ELSE n
IsDecimal(w) == w.form = "number" /\ ~ w.prefix /\ IsIn(w.digits, Radix)

(* parse_i32_field, parse_hex_u32; parse_u64_field saturates, and wraps    *)
(* around below zero.                                                      *)
ParseI32(w) ==
    {n \in -I32Max - 1 .. I32Max : IsDecimal(w) /\ n = Signed(w, ValueOf(w.digits, Radix))}
ParseHexU32(w) ==
    {n \in 0 .. U32Max : /\ w.form = "number" /\ w.sign # "-"
                         /\ IsIn(w.digits, HexRadix) /\ n = ValueOf(w.digits, HexRadix)}
ParseU64(w) ==
    IF ~ IsDecimal(w) THEN {}
    ELSE LET v == ValueOf(w.digits, Radix)
             n == IF v > U64Max THEN U64Max ELSE v
         IN  {IF w.sign = "-" THEN (U64Max + 1 - n) % (U64Max + 1) ELSE n}

(* atoi_dispatch_prefix: of no number, and of 0 unless the line begins     *)
(* with it, nothing is made; the rest is kept within the width.            *)
AtoiDispatchPrefix(w) ==
    IF w.form # "number" \/ w.prefix \/ ~ IsIn(w.digits, Radix) THEN {}
    ELSE LET n == Signed(w, ValueOf(w.digits, Radix))
         IN  IF n = 0 /\ (w.sign # "" \/ Head(w.digits) # 0) THEN {}
             ELSE {IF n > I32Max THEN I32Max ELSE IF n < -I32Max - 1 THEN -I32Max - 1 ELSE n}

-----------------------------------------------------------------------------
(* Request: the messages that have a text, their numbers, and the fields   *)
(* each of them has.                                                       *)
NumberOf ==
    [id |-> 0, metakey |-> 1, challenge |-> 2, reply |-> 3, ack |-> 4, term |-> 7, ping |-> 8,
     pong |-> 9, add_subnet |-> 10, del_subnet |-> 11, add_edge |-> 12, del_edge |-> 13,
     key_changed |-> 14, req_key |-> 15, ans_key |-> 16, packet |-> 17, sptps_packet |-> 21,
     udp_info |-> 22, mtu_info |-> 23]
Kinds == DOMAIN NumberOf

Fields(kind) ==
    CASE kind = "id" -> <<"id", "version">>
      [] kind = "metakey" -> <<"i32", "i32", "i32", "i32", "word">>
      [] kind \in {"challenge", "reply"} -> <<"word">>
      [] kind \in {"term", "ping", "pong"} -> <<>>
      [] kind \in {"add_subnet", "del_subnet"} -> <<"hex", "name", "subnet">>
      [] kind = "add_edge" -> <<"hex", "name", "name", "word", "word", "hex", "i32">>
      [] kind = "del_edge" -> <<"hex", "name", "name">>
      [] kind = "key_changed" -> <<"hex", "name">>
      [] kind = "req_key" -> <<"name", "name">>
      [] kind = "ans_key" -> <<"name", "name", "word", "i32", "i32", "u64", "i32">>
      [] kind \in {"packet", "sptps_packet"} -> <<"length">>
      [] kind = "udp_info" -> <<"name", "name", "word", "word">>
      [] kind = "mtu_info" -> <<"name", "name", "mtu">>
      [] kind = "ack" -> <<"word", "i32", "hex">>

(* check_id, is_special_id_name: what a node may be called.                *)
BadNames == {"bad-name", "^control", "?invited"}
CheckId(w) ==
    CASE w.form = "number" -> w.sign = "" [] w.form = "text" -> w.text \notin BadNames [] OTHER -> FALSE
IsSpecialIdName(w) == w.form = "text" /\ w.text \in {"^control", "?invited"}

(* parse_protocol_version: a major and perhaps a minor number.             *)
ParseVersion(w) ==
    IF w.form # "version" THEN {<<n, -1>> : n \in ParseI32(w)}
    ELSE {<<a, b>> : a \in ParseI32(w.major), b \in ParseI32(w.minor)}

-----------------------------------------------------------------------------
(* Subnets: parse_subnet and its Display; a MAC address has no prefix, and *)
(* what is usual is not written.                                           *)
SubnetWord(family, prefix, weight) ==
    [form |-> "subnet", family |-> family, prefix |-> prefix, weight |-> weight]
ParseSubnet(w) ==
    IF w.form # "subnet" THEN {}
    ELSE {[family |-> w.family, prefix |-> p, weight |-> v] :
             p \in IF w.prefix = <<>> THEN {AddressBits}
                   ELSE {q \in ParseI32(w.prefix[1]) : w.family = "ip" /\ q \in 0 .. AddressBits},
             v \in IF w.weight = <<>> THEN {DefaultWeight} ELSE ParseI32(w.weight[1])}

Unless(usual, n) == IF n = usual THEN <<>> ELSE <<Decimal(n)>>
WriteSubnet(s) == SubnetWord(s.family, Unless(AddressBits, s.prefix), Unless(DefaultWeight, s.weight))

-----------------------------------------------------------------------------
(* MetaMessage's Display: numbers are written in the radix they are read   *)
(* in.                                                                     *)
WriteFieldDecimal(type, v) ==
    CASE type \in {"i32", "hex", "u64", "length", "mtu"} -> Decimal(v)
      [] type = "version" -> [form |-> "version", major |-> Decimal(v[1]),
                              minor |-> Decimal(IF v[2] = -1 THEN 0 ELSE v[2])]
      [] type = "subnet" -> WriteSubnet(v)
      [] OTHER -> v
WriteField(type, v) ==
    CASE type \in {"i32", "u64", "length", "mtu"} -> Decimal(v)
      [] type = "hex" -> Hexadecimal(v)
      [] type = "version" -> [form |-> "version", major |-> Decimal(v[1]),
                              minor |-> Decimal(IF v[2] = -1 THEN 0 ELSE v[2])]
      [] type = "subnet" -> WriteSubnet(v)
      [] OTHER -> v

Message(kind, fields, tail) == [kind |-> kind, fields |-> fields, tail |-> tail]
Write(m) ==
    <<Decimal(NumberOf[m.kind])>>
    \o [i \in DOMAIN m.fields |-> WriteField(Fields(m.kind)[i], m.fields[i])]
    \o (IF m.kind = "req_key" /\ m.tail # <<>> THEN <<Decimal(m.tail[1])>> \o Tail(m.tail) ELSE m.tail)

-----------------------------------------------------------------------------
(* parse_meta_message.                                                     *)
ReadField(type, w) ==
    CASE type = "i32" -> ParseI32(w)
      [] type = "hex" -> ParseHexU32(w)
      [] type = "u64" -> ParseU64(w)
      [] type = "length" -> {n \in ParseI32(w) : n \in 0 .. LengthMax}
      [] type = "mtu" -> {IF n > DefaultMtu THEN DefaultMtu ELSE n : n \in {m \in ParseI32(w) : m >= MinMtu}}
      [] type = "name" -> {v \in {w} : CheckId(w)}
      [] type = "id" -> {v \in {w} : CheckId(w) \/ IsSpecialIdName(w)}
      [] type = "version" -> ParseVersion(w)
      [] type = "subnet" -> ParseSubnet(w)
      [] type = "word" -> {w}

(* What follows the fields: an address of two words or nothing, where one  *)
(* word alone is an error; a request and perhaps its payload, where what   *)
(* is no number counts as nothing; elsewhere the rest is ignored.          *)
ReadTail(kind, rest) ==
    CASE kind \in {"add_edge", "ans_key"} ->
            IF Len(rest) = 1 THEN {} ELSE {SubSeq(rest, 1, IF rest = <<>> THEN 0 ELSE 2)}
      [] kind = "req_key" ->
            IF rest = <<>> \/ ParseI32(rest[1]) = {} THEN {<<>>}
            ELSE {<<n>> \o SubSeq(rest, 2, IF Len(rest) = 1 THEN 1 ELSE 2) : n \in ParseI32(rest[1])}
      [] OTHER -> {<<>>}

ReadFields(kind, words) ==
    LET types == Fields(kind)
        values == [i \in DOMAIN types |-> ReadField(types[i], words[i])]
    IN  IF Len(words) < Len(types) \/ \E i \in DOMAIN types : values[i] = {} THEN {}
        ELSE {Message(kind, [i \in DOMAIN types |-> CHOOSE v \in values[i] : TRUE], t)
                 : t \in ReadTail(kind, SubSeq(words, Len(types) + 1, Len(words)))}

(* parse_ack_message: one word is a payload, two numbers are for a control *)
(* connection, three or more words for a meta connection.                  *)
ReadAck(words) ==
    CASE words = <<>> -> {}
      [] Len(words) = 1 -> {Message("ack", <<>>, words)}
      [] Len(words) = 2 ->
            IF ParseI32(words[1]) = {} \/ ParseI32(words[2]) = {}
            THEN {Message("ack", <<>>, SubSeq(words, 1, 1))}
            ELSE {Message("ack", <<>>, <<Decimal(a), Decimal(b)>>) : a \in ParseI32(words[1]), b \in ParseI32(words[2])}
      [] OTHER -> ReadFields("ack", words)

NoSelfEdge(m) == m.kind \in {"add_edge", "del_edge"} => m.fields[2] # m.fields[3]
Read(line) ==
    LET words == Tail(line)
        kinds == {k \in Kinds : NumberOf[k] \in AtoiDispatchPrefix(Head(line))}
    IN  {m \in UNION {IF k = "ack" THEN ReadAck(words) ELSE ReadFields(k, words) : k \in kinds} : NoSelfEdge(m)}

-----------------------------------------------------------------------------
(* b64encode_tinc, b64decode_tinc: three bytes are four digits, the least  *)
(* significant first; one or two bytes at the end are two or three digits. *)
Group(s, values) == FoldRight(LAMBDA digit, n : digit + values * n, s, 0)
Ungroup(n, values, len) ==
    LET rest[i \in 0 .. len] == IF i = 0 THEN n ELSE rest[i - 1] \div values
    IN  [i \in 1 .. len |-> rest[i - 1] % values]
Chunk(s, len, i) == SubSeq(s, (i - 1) * len + 1, IF i * len > Len(s) THEN Len(s) ELSE i * len)
InChunks(s, len, Op(_)) ==
    FoldLeft(LAMBDA acc, i : acc \o Op(Chunk(s, len, i)), <<>>, [i \in 1 .. (Len(s) + len - 1) \div len |-> i])

Encode(bytes) ==
    LET digits(chunk) == Ungroup(Group(chunk, ByteValues), DigitValues, Len(chunk) + 1)
    IN  InChunks(bytes, 3, digits)
Decode(digits) ==
    LET bytes(chunk) == Ungroup(Group(chunk, DigitValues), ByteValues, Len(chunk) - 1)
    IN  IF Len(digits) % 4 = 1 THEN {} ELSE {InChunks(digits, 4, bytes)}

-----------------------------------------------------------------------------
LetterInit == letter \in Letters /\ reading = {}

(* The other end reads; that it has is told by an empty sequence, beside   *)
(* which there is what it made of the letter, if anything.                 *)
Arrives(kind) == letter.kind = kind /\ reading = {} /\ UNCHANGED letter
ReadMessage == Arrives("message") /\ reading' = {<<m>> : m \in Read(Write(letter.message))} \union {<<>>}
ReadLine == Arrives("line") /\ reading' = {<<m>> : m \in Read(letter.line)} \union {<<>>}
ReadBytes == Arrives("bytes") /\ reading' = {<<b>> : b \in Decode(Encode(letter.bytes))} \union {<<>>}
LetterNext == ReadMessage \/ ReadLine \/ ReadBytes

-----------------------------------------------------------------------------
(* The minor number an ID lacks is read back as 0.                         *)
Plain(m) == IF m.kind = "id" /\ m.fields[2][2] = -1 THEN [m EXCEPT !.fields[2][2] = 0] ELSE m
Reads(what) == reading = {<<>>, <<what>>}

(* What one daemon writes the other reads, whatever the numbers and the    *)
(* parts that may be left out; and a line that is read, whoever wrote it,  *)
(* means the same when the message is written anew.                        *)
WrittenIsRead ==
    reading # {} =>
        CASE letter.kind = "message" -> Reads(letter.message)
          [] letter.kind = "bytes" -> Reads(letter.bytes)
          [] letter.kind = "line" -> \A m \in UNION {ToSet(r) : r \in reading} : Read(Write(m)) = {Plain(m)}
=============================================================================
