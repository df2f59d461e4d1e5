-------------------------- MODULE RouteAlgorithms --------------------------
(***************************************************************************)
(* The computations on packets and subnets that routing rests on: masks,   *)
(* the lookup of a subnet, fragments, the MSS option of a TCP header, the  *)
(* incremental checksums (tinc-core/src/route.rs, subnet.rs).  A behaviour *)
(* takes one task and computes its outcome; the invariants compare it with *)
(* what the computation is for.                                            *)
(*                                                                         *)
(* Bytes have ByteBits bits and checksum words WordBits, 8 and 16 in the   *)
(* code.                                                                   *)
(***************************************************************************)
EXTENDS Integers, Sequences, FiniteSets, SequencesExt

CONSTANTS
    ByteBits,       \* bits in a byte of an address
    WordBits,       \* bits in a word of a checksum
    Tasks           \* the inputs to look at

VARIABLES task, outcome

routeVars == <<task, outcome>>

Pending == [kind |-> "pending"]

-----------------------------------------------------------------------------
(* Masks.  An address is a sequence of bytes.                              *)
FullBytes(len) == len \div ByteBits
PartialBits(len) == len % ByteBits

(* a byte with all but its first bits cleared: byte & partial_mask(bits)   *)
PartialMask(byte, bits) ==
    LET unit == 2 ^ (ByteBits - bits) IN (byte \div unit) * unit

MaskCmpZero(a, b, len) ==
    /\ \A i \in 1 .. FullBytes(len) : a[i] = b[i]
    /\ PartialBits(len) # 0 =>
          LET i == FullBytes(len) + 1
          IN  PartialMask(a[i], PartialBits(len)) = PartialMask(b[i], PartialBits(len))

MaskBytes(a, len) ==
    LET kept == FullBytes(len) + (IF PartialBits(len) # 0 THEN 1 ELSE 0)
    IN  [i \in 1 .. Len(a) |->
            IF i <= FullBytes(len) THEN a[i]
            ELSE IF i <= kept THEN PartialMask(a[i], PartialBits(len))
            ELSE 0]

MaskCheck(a, len) ==
    LET rest == FullBytes(len) + 1
    IN  /\ PartialBits(len) # 0 => PartialMask(a[rest], PartialBits(len)) = a[rest]
        /\ \A i \in (IF PartialBits(len) # 0 THEN rest + 1 ELSE rest) .. Len(a) : a[i] = 0

-----------------------------------------------------------------------------
(* Subnets in the order of the table: longest prefix first, then address,  *)
(* weight and owner.                                                       *)
CompareTinc(s, t) ==
    LET address(r) == FoldLeft(LAMBDA n, byte : n * 2 ^ ByteBits + byte, 0, r.address)
    IN  \/ s.prefix > t.prefix
        \/ /\ s.prefix = t.prefix
           /\ \/ address(s) < address(t)
              \/ /\ address(s) = address(t)
                 /\ \/ s.weight < t.weight
                    \/ s.weight = t.weight /\ s.owner < t.owner

(* SubnetTable::add keeps the table sorted.                                *)
SubnetTable(subnets) == SetToSortSeq(subnets, CompareTinc)

Matches(s, address) == MaskCmpZero(address, s.address, s.prefix)

NoSubnet == [prefix |-> -1]

(* The first with a reachable owner, else the last.                        *)
LookupReachable(table, address, reachable) ==
    LET matching == SelectSeq(table, LAMBDA s : Matches(s, address))
        usable == SelectSeq(matching, LAMBDA s : s.owner \in reachable)
    IN  IF matching = <<>> THEN NoSubnet
        ELSE IF usable = <<>> THEN Last(matching)
        ELSE usable[1]

-----------------------------------------------------------------------------
(* Fragments of an IPv4 packet: lengths, offsets in units of 8 octets.     *)
IpHeaderLen == 20
MinimumMtu == 590

(* Mutant: the payload is not rounded to whole units of 8 octets.          *)
MaxFragmentPayloadLenUnaligned(mtu, etherLen) ==
    (IF mtu < MinimumMtu THEN MinimumMtu ELSE mtu) - etherLen - IpHeaderLen

MaxFragmentPayloadLen(mtu, etherLen) ==
    LET room == (IF mtu < MinimumMtu THEN MinimumMtu ELSE mtu) - etherLen - IpHeaderLen
    IN  (room \div 8) * 8

FragmentIpv4(packet, mtu) ==
    LET most == MaxFragmentPayloadLen(mtu, packet.etherLen)
        count == (packet.payload + most - 1) \div most
        len(i) == IF i < count THEN most ELSE packet.payload - (count - 1) * most
    IN  [i \in 1 .. count |->
            [start |-> (i - 1) * most,
             payload |-> len(i),
             offset |-> packet.offset + (i - 1) * (most \div 8),
             more |-> packet.more \/ i < count]]

-----------------------------------------------------------------------------
(* clamp_tcp_mss: the scan of the options of a TCP header, given as bytes; *)
(* an MSS option is <<2, 4, high, low>>.                                   *)
EndOption == 0
NopOption == 1
MssOption == 2

NotFound == 0

(* where the MSS value starts, when the scan is at offset o (from 0)       *)
ScanOptions(options) ==
    LET n == Len(options)
        scan[o \in 0 .. n] ==
            IF o = n \/ options[o + 1] = EndOption THEN NotFound
            ELSE IF options[o + 1] = NopOption THEN scan[o + 1]
            ELSE IF o + 1 >= n THEN NotFound
            ELSE LET len == options[o + 2]
                 IN  IF options[o + 1] = MssOption
                     THEN IF len # 4 \/ o + len > n THEN NotFound ELSE o + 3
                     ELSE IF len < 2 \/ o + len > n THEN NotFound ELSE scan[o + len]
    IN  scan[0]

MaximumMss(mtu, tcpStart) == mtu - tcpStart - 20

ClampTcpMss(options, maximum) ==
    LET at == ScanOptions(options)
    IN  IF at = NotFound \/ options[at] * 256 + options[at + 1] <= maximum THEN options
        ELSE [options EXCEPT ![at] = maximum \div 256, ![at + 1] = maximum % 256]

-----------------------------------------------------------------------------
(* Checksums: one's complement sums of words.                              *)
Radix == 2 ^ WordBits

Complement(word) == Radix - 1 - word

Fold(sum) ==
    LET fold[n \in 0 .. sum] ==
            IF n < Radix THEN n ELSE fold[(n % Radix) + n \div Radix]
    IN  fold[sum]

(* internet_checksum with previous_sum = 0xffff                            *)
InternetChecksum(words) == Complement(Fold(FoldLeft(LAMBDA s, w : s + w, 0, words)))

(* decrement_ipv4_ttl: the word with the time to live changes              *)
IncrementalChecksum(checksum, old, new) == Fold(checksum + old + Complement(new))

(* clamp_tcp_mss: the word with the MSS changes                            *)
IncrementalTransportChecksum(checksum, old, new) ==
    LET sum == Complement(checksum) + Complement(old) + new
        once == (sum % Radix) + sum \div Radix
    IN  Complement((once + once \div Radix) % Radix)

-----------------------------------------------------------------------------
Init == task \in Tasks /\ outcome = Pending

Finish(result) ==
    /\ outcome = Pending
    /\ outcome' = result
    /\ UNCHANGED task

CompareMasked ==
    /\ task.kind = "mask"
    /\ Finish([kind |-> "mask",
               equal |-> MaskCmpZero(task.a, task.b, task.len),
               masked |-> MaskBytes(task.a, task.len),
               canonical |-> MaskCheck(task.a, task.len)])

Lookup ==
    /\ task.kind = "lookup"
    /\ Finish([kind |-> "lookup",
               found |-> LookupReachable(SubnetTable(task.subnets), task.address,
                                         task.reachable)])

Fragment ==
    /\ task.kind = "fragment"
    /\ Finish([kind |-> "fragment", fragments |-> FragmentIpv4(task.packet, task.mtu)])

(* Bytes of an option list: each option, and what follows the end.         *)
OptionBytes(option) ==
    CASE option.kind = "nop" -> <<NopOption>>
      [] option.kind = "end" -> <<EndOption>>
      [] option.kind = "mss" -> <<MssOption, 4, option.mss \div 256, option.mss % 256>>
      [] option.kind = "other" -> <<3, 2 + Len(option.data)>> \o option.data

Clamp ==
    /\ task.kind = "clamp"
    /\ Finish([kind |-> "clamp",
               options |-> ClampTcpMss(FlattenSeq([i \in 1 .. Len(task.options) |->
                                                     OptionBytes(task.options[i])]),
                                       MaximumMss(task.mtu, task.tcpStart))])

UpdateChecksums ==
    /\ task.kind = "checksum"
    /\ LET checksum == InternetChecksum(<<task.old, task.other>>)
       IN  Finish([kind |-> "checksum",
                   header |-> IncrementalChecksum(checksum, task.old, task.new),
                   transport |-> IncrementalTransportChecksum(checksum, task.old, task.new)])

Next == CompareMasked \/ Lookup \/ Fragment \/ Clamp \/ UpdateChecksums

-----------------------------------------------------------------------------
(* Addresses are equal under a mask exactly when their first len bits are; *)
(* masking leaves the canonical address, and only that (mask_cmp,          *)
(* mask_bytes, mask_check).                                                *)
MasksAgree ==
    LET bit(a, i) == (a[i \div ByteBits + 1] \div 2 ^ (ByteBits - 1 - (i % ByteBits))) % 2
        bits(a, from, to) == {i \in from .. to : bit(a, i) = 1}
        all == ByteBits * Len(task.a) - 1
    IN  outcome.kind = "mask" =>
            /\ outcome.equal <=> bits(task.a, 0, task.len - 1) = bits(task.b, 0, task.len - 1)
            /\ bits(outcome.masked, 0, all) = bits(task.a, 0, task.len - 1)
            /\ outcome.canonical <=> outcome.masked = task.a

(* A packet goes to an owner that can be reached if any subnet that holds  *)
(* its address has one, and then along the longest prefix and, of those,   *)
(* the smallest weight (lookup_reachable_subnet_like_tinc and the order of *)
(* SubnetTable).                                                           *)
LookupIsBest ==
    LET covering == {s \in task.subnets : Matches(s, task.address)}
        usable == {s \in covering : s.owner \in task.reachable}
    IN  outcome.kind = "lookup" =>
            LET s == outcome.found
            IN  IF usable # {}
                THEN /\ s \in usable
                     /\ \A t \in usable : \/ s.prefix > t.prefix
                                          \/ s.prefix = t.prefix /\ s.weight <= t.weight
                ELSE IF covering # {} THEN s \in covering ELSE s = NoSubnet

(* The fragments fit the path, follow each other without a gap in units of *)
(* 8 octets, and only the last may end the packet: the receiver can put    *)
(* the payload together again (fragment_ipv4_packet).                      *)
FragmentsReassemble ==
    outcome.kind = "fragment" =>
        LET f == outcome.fragments
            p == task.packet
            n == Len(f)
        IN  /\ \A i \in 1 .. n :
                /\ p.etherLen + IpHeaderLen + f[i].payload
                        <= IF task.mtu < MinimumMtu THEN MinimumMtu ELSE task.mtu
                /\ f[i].payload > 0
                /\ 8 * (f[i].offset - p.offset) = f[i].start
                /\ f[i].more <=> (p.more \/ i < n)
                /\ i < n => f[i].start + f[i].payload = f[i + 1].start
            /\ f[1].start = 0
            /\ f[n].start + f[n].payload = p.payload

(* The first MSS option before the end of the list is lowered to what the  *)
(* path carries, never raised, and no other byte changes (clamp_tcp_mss).  *)
MssIsClamped ==
    LET ends == {i \in 1 .. Len(task.options) : task.options[i].kind = "end"}
        mss == {i \in 1 .. Len(task.options) :
                    /\ task.options[i].kind = "mss"
                    /\ \A e \in ends : i < e}
        maximum == MaximumMss(task.mtu, task.tcpStart)
        lowered == [i \in 1 .. Len(task.options) |->
                        IF i \in mss /\ (\A j \in mss : i <= j)
                                     /\ task.options[i].mss > maximum
                        THEN [task.options[i] EXCEPT !.mss = maximum]
                        ELSE task.options[i]]
    IN  outcome.kind = "clamp" =>
            outcome.options = FlattenSeq([i \in 1 .. Len(lowered) |-> OptionBytes(lowered[i])])

(* A checksum updated for one changed word still verifies over the whole   *)
(* packet (incremental_checksum_update, incremental_transport_checksum_    *)
(* update), although it may be the other of the two zeros.                 *)
ChecksumsVerify ==
    outcome.kind = "checksum" /\ (task.new # 0 \/ task.other # 0) =>
        /\ Fold(task.new + task.other + outcome.header) = Radix - 1
        /\ Fold(task.new + task.other + outcome.transport) = Radix - 1

=============================================================================
