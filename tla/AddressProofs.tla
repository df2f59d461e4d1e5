--------------------------- MODULE AddressProofs ---------------------------
(***************************************************************************)
(* Addresses, for any number of daemons and all configurations.  A daemon  *)
(* does not try those of a peer over and over again, whatever moves,       *)
(* losses, incoming connections and commands interfere (Outgoing).  It     *)
(* remembers for each daemon one that is its own, takes packets from       *)
(* wherever they come, and tells sizes that fit (PeerAddresses).           *)
(***************************************************************************)
EXTENDS Outgoing, PeerAddresses, BasicLemmas, FiniteSetTheorems

-----------------------------------------------------------------------------
(* Sequences that repeat nothing.                                          *)

(* They are no longer than the set they are over.                          *)
LEMMA DistinctLen ==
    ASSUME NEW T, IsFiniteSet(T), NEW seq \in Seq(T), Distinct(seq)
    PROVE  Len(seq) <= Cardinality(T)
<1>1. Len(seq) \in Nat /\ seq \in [1 .. Len(seq) -> T] /\ DOMAIN seq = 1 .. Len(seq)
  BY LenProperties
<1>2. seq \in Injection(1 .. Len(seq), T)
  BY <1>1 DEF Injection, IsInjective, Distinct
<1>3. Cardinality(1 .. Len(seq)) <= Cardinality(T)
  BY <1>2, FS_Injection
<1>4. Cardinality(1 .. Len(seq)) = Len(seq)
  BY <1>1, FS_Interval
<1> QED BY <1>3, <1>4

(* Two of them with nothing in common make a third.                        *)
LEMMA ConcatDistinct ==
    ASSUME NEW T, NEW a \in Seq(T), NEW b \in Seq(T), Distinct(a), Distinct(b),
           \A i \in DOMAIN b : b[i] \notin ToSet(a)
    PROVE  a \o b \in Seq(T) /\ Distinct(a \o b)
<1>1. PICK c : c = a \o b
  OBVIOUS
<1>2. PICK la : la = Len(a)
  OBVIOUS
<1>3. PICK lb : lb = Len(b)
  OBVIOUS
<1>4. /\ c \in Seq(T) /\ Len(c) = la + lb
      /\ \A i \in 1 .. la + lb : c[i] = IF i <= la THEN a[i] ELSE b[i - la]
  BY <1>1, <1>2, <1>3, ConcatProperties
<1>5. la \in Nat /\ lb \in Nat /\ DOMAIN a = 1 .. la /\ DOMAIN b = 1 .. lb /\ DOMAIN c = 1 .. la + lb
  BY <1>2, <1>3, <1>4, LenProperties
<1>6. ASSUME NEW i \in 1 .. la + lb, NEW j \in 1 .. la + lb, i < j PROVE c[i] # c[j]
  <2>1. CASE j <= la
    <3>1. i \in 1 .. la /\ j \in 1 .. la /\ c[i] = a[i] /\ c[j] = a[j] /\ i # j
      BY <1>4, <1>5, <1>6, <2>1
    <3> QED BY <1>5, <3>1 DEF Distinct
  <2>2. CASE i > la
    <3>1. i - la \in 1 .. lb /\ j - la \in 1 .. lb /\ i - la # j - la
      BY <1>5, <1>6, <2>2
    <3>2. c[i] = b[i - la] /\ c[j] = b[j - la]
      BY <1>4, <1>5, <1>6, <2>2
    <3> QED BY <1>5, <3>1, <3>2 DEF Distinct
  <2>3. CASE i <= la /\ j > la
    <3>1. i \in 1 .. la /\ j - la \in 1 .. lb
      BY <1>5, <1>6, <2>3
    <3>2. c[i] = a[i] /\ c[j] = b[j - la]
      BY <1>4, <1>5, <1>6, <2>3
    <3>3. a[i] \in ToSet(a)
      BY <1>5, <3>1 DEF ToSet
    <3> QED BY <1>5, <3>1, <3>2, <3>3
  <2> QED BY <1>5, <2>1, <2>2, <2>3
<1>7. Distinct(c)
  <2>1. SUFFICES ASSUME NEW i \in DOMAIN c, NEW j \in DOMAIN c, i # j PROVE c[i] # c[j]
    BY DEF Distinct
  <2>2. i < j \/ j < i
    BY <1>5, <2>1
  <2> QED BY <1>5, <1>6, <2>2
<1> QED BY <1>1, <1>4, <1>7

(* The first elements of one are one too.                                  *)
LEMMA PrefixDistinct ==
    ASSUME NEW T, NEW seq \in Seq(T), Distinct(seq), NEW n \in Nat, n <= Len(seq)
    PROVE  /\ SubSeq(seq, 1, n) \in Seq(T)
           /\ Distinct(SubSeq(seq, 1, n))
           /\ \A i \in DOMAIN SubSeq(seq, 1, n) : i \in DOMAIN seq /\ SubSeq(seq, 1, n)[i] = seq[i]
<1>1. Len(seq) \in Nat /\ DOMAIN seq = 1 .. Len(seq) /\ \A i \in 1 .. Len(seq) : seq[i] \in T
  BY LenProperties, ElementOfSeq
<1>2. PICK w : w = SubSeq(seq, 1, n)
  OBVIOUS
<1>3. \A i \in 1 .. n : i \in 1 .. Len(seq) /\ seq[i] \in T
  BY <1>1
<1>4. /\ w \in Seq(T) /\ Len(w) = (IF 1 <= n THEN n - 1 + 1 ELSE 0)
      /\ \A i \in 1 .. n - 1 + 1 : w[i] = seq[1 + i - 1]
  <2>1. 1 \in Int /\ n \in Int
    OBVIOUS
  <2> QED BY <1>2, <1>3, <2>1, SubSeqProperties
<1>5. Len(w) = n /\ \A i \in 1 .. n : w[i] = seq[i]
  BY <1>4
<1>6. DOMAIN w = 1 .. n
  BY <1>4, <1>5, LenProperties
<1>7. Distinct(w)
  BY <1>1, <1>3, <1>5, <1>6 DEF Distinct
<1> QED BY <1>1, <1>2, <1>3, <1>4, <1>5, <1>6, <1>7

(* The smaller of two, and the least of several numbers.                   *)
LEMMA MinOfTwo ==
    ASSUME NEW a \in Int, NEW b \in Int
    PROVE  Min({a, b}) \in {a, b} /\ Min({a, b}) <= a /\ Min({a, b}) <= b
<1>1. \E x \in {a, b} : \A y \in {a, b} : x <= y
  OBVIOUS
<1> QED BY <1>1 DEF Min

LEMMA MinOfNats ==
    ASSUME NEW S \in SUBSET Nat, S # {}
    PROVE  Min(S) \in S /\ \A n \in S : Min(S) <= n
<1>1. \E x \in S : \A y \in S : x <= y
  BY LeastNat
<1> QED BY <1>1 DEF Min

LEMMA MaxOfTwo ==
    ASSUME NEW a \in Int, NEW b \in Int
    PROVE  Max({a, b}) \in {a, b}
<1>1. \E x \in {a, b} : \A y \in {a, b} : x >= y
  OBVIOUS
<1> QED BY <1>1 DEF Max
-----------------------------------------------------------------------------
(* What holds of a peer all the time. The cursor stands behind the         *)
(* addresses that were tried; every address is a candidate once.           *)
LinkType == [via : Known, outgoing : BOOLEAN, auto : BOOLEAN, up : BOOLEAN]
RetryType == [on : BOOLEAN, timeout : Int, wait : Int]
PeerType == [links : Seq(LinkType), cursor : Nat, cache : Seq(Known), tries : Nat,
             auto : RetryType, retry : RetryType]

HasUp(links) == \E k \in DOMAIN links : links[k].up

Sound(p, s) ==
    /\ s \in PeerType
    /\ Distinct(s.cache)
    /\ HasUp(s.links) => s.tries = 0
    /\ s.tries <= s.cursor
    /\ s.cursor <= Len(Candidates(p, s))

AllSound(peers) == peers \in [Peers -> PeerType] /\ \A p \in Peers : Sound(p, peers[p])

DialIInv == out \in OutWorlds /\ AllSound(peer)

Given(p) == KnownAddresses /\ out \in OutWorlds /\ p \in Peers

-----------------------------------------------------------------------------
(* The candidates: each address once.                                      *)
LEMMA CandidatesOK ==
    ASSUME NEW p, Given(p), NEW s, s.cache \in Seq(Known), Distinct(s.cache)
    PROVE  /\ Candidates(p, s) \in Seq(Known) /\ Len(Candidates(p, s)) \in Nat
           /\ Len(Candidates(p, s)) <= Cardinality(Addresses) + 1
<1>1. PICK a : a = out.addresses[p]
  OBVIOUS
<1>2. PICK w : w = AllBut(a, ToSet(s.cache))
  OBVIOUS
<1>3. PICK cache : cache = s.cache
  OBVIOUS
<1>4. a \in Seq(Addresses) /\ Distinct(a)
  BY <1>1 DEF Given, KnownAddresses
<1>5. a \in Seq(Known)
  BY <1>4, SeqMonotonic DEF Known
<1>6. w \in Seq(Known) /\ Distinct(w) /\ \A i \in DOMAIN w : w[i] \notin ToSet(cache)
  BY <1>2, <1>3, <1>4, <1>5, AllButFacts
<1>7. Candidates(p, s) = cache \o w
  BY <1>1, <1>2, <1>3 DEF Candidates
<1>8. cache \o w \in Seq(Known) /\ Distinct(cache \o w)
  BY <1>3, <1>6, ConcatDistinct
<1>9. IsFiniteSet(Known) /\ Cardinality(Known) <= Cardinality(Addresses) + 1
  <2>1. IsFiniteSet(Addresses)
    BY DEF Given, KnownAddresses
  <2>2. Cardinality(Addresses) \in Nat
    BY <2>1, FS_CardinalityType
  <2>3. PICK k : k = Cardinality(Addresses \union {Ephemeral})
    OBVIOUS
  <2>4. /\ IsFiniteSet(Addresses \union {Ephemeral})
        /\ k = IF Ephemeral \in Addresses THEN Cardinality(Addresses) ELSE Cardinality(Addresses) + 1
    BY <2>1, <2>3, FS_AddElement
  <2>5. k <= Cardinality(Addresses) + 1
    BY <2>2, <2>4
  <2> QED BY <2>3, <2>4, <2>5 DEF Known
<1>10. Len(cache \o w) <= Cardinality(Known)
  BY <1>8, <1>9, DistinctLen
<1>11. Len(cache \o w) \in Nat /\ Cardinality(Known) \in Nat /\ Cardinality(Addresses) \in Nat
  <2>1. IsFiniteSet(Addresses)
    BY DEF Given, KnownAddresses
  <2> QED BY <1>8, <1>9, <2>1, LenProperties, FS_CardinalityType
<1> QED BY <1>7, <1>8, <1>9, <1>10, <1>11

LEMMA FewTries ==
    ASSUME NEW p, Given(p), NEW s, Sound(p, s)
    PROVE  s.tries <= Cardinality(Addresses) + 1
<1>1. s.cache \in Seq(Known) /\ s.tries \in Nat /\ s.cursor \in Nat
  BY DEF Sound, PeerType
<1>2. Len(Candidates(p, s)) <= Cardinality(Addresses) + 1 /\ Len(Candidates(p, s)) \in Nat
  BY <1>1, CandidatesOK DEF Sound
<1>3. Cardinality(Addresses) \in Nat
  BY FS_CardinalityType DEF Given, KnownAddresses
<1> QED BY <1>1, <1>2, <1>3 DEF Sound

(* A peer stays sound when one of its fields changes as it may.            *)
LEMMA SetRetry ==
    ASSUME NEW p, NEW s, Sound(p, s), NEW r \in RetryType
    PROVE  Sound(p, [s EXCEPT !.retry = r]) /\ Sound(p, [s EXCEPT !.auto = r])
<1>1. s \in PeerType
  BY DEF Sound
<1>2. ASSUME NEW t \in PeerType, t.cache = s.cache, t.links = s.links, t.tries = s.tries, t.cursor = s.cursor
      PROVE  Sound(p, t)
  <2>1. Candidates(p, t) = Candidates(p, s)
    BY <1>2 DEF Candidates
  <2> QED BY <1>2, <2>1 DEF Sound
<1>3. [s EXCEPT !.retry = r] \in PeerType /\ [s EXCEPT !.auto = r] \in PeerType
  BY <1>1 DEF PeerType
<1>4. PICK t : t = [s EXCEPT !.retry = r]
  OBVIOUS
<1>5. PICK u : u = [s EXCEPT !.auto = r]
  OBVIOUS
<1>6. Sound(p, t)
  <2>1. t \in PeerType /\ t.cache = s.cache /\ t.links = s.links /\ t.tries = s.tries /\ t.cursor = s.cursor
    BY <1>1, <1>3, <1>4 DEF PeerType
  <2> QED BY <1>2, <2>1
<1>7. Sound(p, u)
  <2>1. u \in PeerType /\ u.cache = s.cache /\ u.links = s.links /\ u.tries = s.tries /\ u.cursor = s.cursor
    BY <1>1, <1>3, <1>5 DEF PeerType
  <2> QED BY <1>2, <2>1
<1> QED BY <1>4, <1>5, <1>6, <1>7

LEMMA SetLinks ==
    ASSUME NEW p, NEW s, Sound(p, s), NEW l \in Seq(LinkType), HasUp(l) => s.tries = 0
    PROVE  Sound(p, [s EXCEPT !.links = l])
<1>1. PICK t : t = [s EXCEPT !.links = l]
  OBVIOUS
<1>2. s \in PeerType
  BY DEF Sound
<1>3. t \in PeerType /\ t.cache = s.cache /\ t.links = l /\ t.tries = s.tries /\ t.cursor = s.cursor
  BY <1>1, <1>2 DEF PeerType
<1>4. Candidates(p, t) = Candidates(p, s)
  BY <1>3 DEF Candidates
<1>5. Sound(p, t)
  BY <1>3, <1>4 DEF Sound
<1> QED BY <1>1, <1>5

LEMMA NoTries ==
    ASSUME NEW p, NEW s, Sound(p, s)
    PROVE  Sound(p, [s EXCEPT !.tries = 0]) /\ [s EXCEPT !.tries = 0].tries = 0
<1>1. PICK t : t = [s EXCEPT !.tries = 0]
  OBVIOUS
<1>2. s \in PeerType
  BY DEF Sound
<1>3. t \in PeerType /\ t.cache = s.cache /\ t.links = s.links /\ t.tries = 0 /\ t.cursor = s.cursor
  BY <1>1, <1>2 DEF PeerType
<1>4. Candidates(p, t) = Candidates(p, s)
  BY <1>3 DEF Candidates
<1>5. s.cursor \in Nat
  BY <1>2 DEF PeerType
<1>6. Sound(p, t)
  BY <1>3, <1>4, <1>5 DEF Sound
<1> QED BY <1>1, <1>3, <1>6

(* The cursor at the start, perhaps with another cache.                    *)
LEMMA Restarted ==
    ASSUME NEW p, Given(p), NEW s, Sound(p, s), s.tries = 0,
           NEW c \in Seq(Known), Distinct(c)
    PROVE  Sound(p, [s EXCEPT !.cursor = 0]) /\ Sound(p, [s EXCEPT !.cursor = 0, !.cache = c])
<1>1. s \in PeerType
  BY DEF Sound
<1>2. ASSUME NEW t \in PeerType, Distinct(t.cache), t.tries = 0, t.cursor = 0
      PROVE  Sound(p, t)
  <2>1. t.cache \in Seq(Known)
    BY DEF PeerType
  <2>2. Len(Candidates(p, t)) \in Nat
    BY <1>2, <2>1, CandidatesOK
  <2> QED BY <1>2, <2>2 DEF Sound
<1>3. PICK t : t = [s EXCEPT !.cursor = 0]
  OBVIOUS
<1>4. PICK u : u = [s EXCEPT !.cursor = 0, !.cache = c]
  OBVIOUS
<1>5. Sound(p, t)
  <2>1. t \in PeerType /\ t.cache = s.cache /\ t.tries = 0 /\ t.cursor = 0
    BY <1>1, <1>3 DEF PeerType
  <2> QED BY <1>2, <2>1 DEF Sound
<1>6. Sound(p, u)
  <2>1. u \in PeerType /\ u.cache = c /\ u.tries = 0 /\ u.cursor = 0
    BY <1>1, <1>4 DEF PeerType
  <2> QED BY <1>2, <2>1
<1> QED BY <1>3, <1>4, <1>5, <1>6

-----------------------------------------------------------------------------
(* The operators, one after the other.                                     *)
LEMMA Marked ==
    ASSUME KnownAddresses, NEW r \in RetryType
    PROVE  /\ Ready \in RetryType /\ NoRetry \in RetryType /\ MarkFailed(r) \in RetryType
           /\ \A ok : Outcome(r, ok) \in RetryType
<1>1. Ready \in RetryType /\ NoRetry \in RetryType
  BY DEF Ready, NoRetry, RetryType
<1>2. r.timeout + 1 \in Int /\ MaxTimeout \in Int
  BY DEF RetryType, KnownAddresses
<1>3. PICK t : t = Min({r.timeout + 1, MaxTimeout})
  OBVIOUS
<1>4. t \in Int
  BY <1>2, <1>3, MinOfTwo
<1>5. MarkFailed(r) = [on |-> TRUE, timeout |-> t, wait |-> t]
  BY <1>3 DEF MarkFailed
<1>6. MarkFailed(r) \in RetryType
  BY <1>4, <1>5 DEF RetryType
<1>7. ASSUME NEW ok PROVE Outcome(r, ok) \in RetryType
  BY <1>1, <1>6, Zenon DEF Outcome
<1> QED BY <1>1, <1>6, <1>7

(* connect_peer, with the end of a round of tries.                         *)
LEMMA Connects ==
    ASSUME NEW p, Given(p), NEW s, Sound(p, s)
    PROVE  /\ Sound(p, Tired(ConnectPeer(p, s)))
           /\ ConnectPeer(p, s).ok => Tired(ConnectPeer(p, s)) = ConnectPeer(p, s).s
           /\ ConnectPeer(p, s).ok => ConnectPeer(p, s).s.links # <<>>
<1>1. PICK c : c = ConnectPeer(p, s)
  OBVIOUS
<1>2. PICK e : e = <<>>
  OBVIOUS
<1>3. s \in PeerType
  BY DEF Sound
<1>4. CASE s.links # e
  <2>1. c = [ok |-> TRUE, s |-> s]
    BY <1>1, <1>2, <1>4, Zenon DEF ConnectPeer
  <2>2. c.ok = TRUE /\ c.s = s
    BY <2>1
  <2>3. Tired(c) = s
    BY <2>2 DEF Tired
  <2> QED BY <1>1, <1>2, <1>4, <2>2, <2>3
<1>5. CASE s.links = e /\ NextAddress(p, s) = {}
  <2>1. c = [ok |-> FALSE, s |-> [s EXCEPT !.cursor = 0]]
    BY <1>1, <1>2, <1>5, Zenon DEF ConnectPeer
  <2>2. c.ok = FALSE /\ c.s = [s EXCEPT !.cursor = 0]
    BY <2>1
  <2>3. PICK t : t = [s EXCEPT !.tries = 0]
    OBVIOUS
  <2>4. Sound(p, t) /\ t.tries = 0
    BY <2>3, NoTries
  <2>5. Sound(p, [t EXCEPT !.cursor = 0])
    <3>1. t.cache \in Seq(Known) /\ Distinct(t.cache)
      BY <2>4 DEF Sound, PeerType
    <3> QED BY <2>4, <3>1, Restarted
  <2>6. [[s EXCEPT !.cursor = 0] EXCEPT !.tries = 0] = [t EXCEPT !.cursor = 0]
    BY <1>3, <2>3 DEF PeerType
  <2>7. Tired(c) = [t EXCEPT !.cursor = 0]
    BY <2>2, <2>6 DEF Tired
  <2> QED BY <1>1, <2>2, <2>5, <2>7
<1>6. CASE s.links = e /\ NextAddress(p, s) # {}
  <2>1. PICK k : k = Min(NextAddress(p, s))
    OBVIOUS
  <2>2. PICK n : n = Len(Candidates(p, s))
    OBVIOUS
  <2>3. PICK a : a = Candidates(p, s)[k]
    OBVIOUS
  <2>4. Candidates(p, s) \in Seq(Known) /\ n \in Nat
    BY <1>3, <2>2, CandidatesOK DEF Sound, PeerType
  <2>5. k \in 1 .. n /\ k > s.cursor /\ a \in Known
    <3>1. DOMAIN Candidates(p, s) = 1 .. n
      BY <2>2, <2>4, LenProperties
    <3>2. NextAddress(p, s) \in SUBSET Nat
      BY <2>4, <3>1 DEF NextAddress
    <3>3. k \in NextAddress(p, s)
      BY <1>6, <2>1, <3>2, MinOfNats
    <3>4. k \in 1 .. n /\ k > s.cursor
      BY <3>1, <3>3 DEF NextAddress
    <3> QED BY <2>2, <2>3, <2>4, <3>4, ElementOfSeq
  <2>6. PICK l : l = <<Link(a, TRUE)>>
    OBVIOUS
  <2>7. l \in Seq(LinkType) /\ ~HasUp(l) /\ l # e
    <3>1. PICK one : one = Link(a, TRUE)
      OBVIOUS
    <3>2. one \in LinkType /\ one.up = FALSE
      BY <2>5, <3>1 DEF Link, LinkType
    <3>3. l = <<one>>
      BY <2>6, <3>1
    <3>4. l \in Seq(LinkType) /\ DOMAIN l = 1 .. 1 /\ l[1] = one
      BY <3>2, <3>3
    <3>5. l # e
      <4>1. DOMAIN e = {}
        BY <1>2
      <4> QED BY <3>4, <4>1
    <3>6. \A j \in DOMAIN l : l[j] = one
      BY <3>4
    <3> QED BY <3>2, <3>4, <3>5, <3>6 DEF HasUp
  <2>8. PICK t : t = [s EXCEPT !.links = l, !.cursor = k, !.tries = @ + 1]
    OBVIOUS
  <2>9. c = [ok |-> TRUE, s |-> t]
    BY <1>1, <1>2, <1>6, <2>1, <2>3, <2>6, <2>8, Zenon DEF ConnectPeer
  <2>10. c.ok = TRUE /\ c.s = t
    BY <2>9
  <2>11. s.tries \in Nat /\ s.cursor \in Nat /\ s.tries <= s.cursor
    BY <1>3 DEF Sound, PeerType
  <2>12. /\ t \in PeerType /\ t.cache = s.cache /\ t.links = l
         /\ t.tries = s.tries + 1 /\ t.cursor = k
    <3>1. k \in Nat /\ s.tries + 1 \in Nat
      BY <2>4, <2>5, <2>11
    <3>2. t = [[[s EXCEPT !.links = l] EXCEPT !.cursor = k] EXCEPT !.tries = s.tries + 1]
      BY <1>3, <2>8 DEF PeerType
    <3> QED BY <1>3, <2>7, <3>1, <3>2 DEF PeerType
  <2>13. Candidates(p, t) = Candidates(p, s)
    BY <2>12 DEF Candidates
  <2>14. Sound(p, t)
    <3>1. Distinct(t.cache)
      BY <2>12 DEF Sound
    <3>2. t.tries <= t.cursor /\ t.cursor <= Len(Candidates(p, t))
      BY <2>2, <2>4, <2>5, <2>11, <2>12, <2>13
    <3> QED BY <2>7, <2>12, <3>1, <3>2 DEF Sound
  <2>15. Tired(c) = t
    BY <2>10 DEF Tired
  <2> QED BY <1>1, <1>2, <2>7, <2>10, <2>12, <2>14, <2>15
<1> QED BY <1>4, <1>5, <1>6

LEMMA Starts ==
    ASSUME NEW p, Given(p), NEW s, Sound(p, s)
    PROVE  Sound(p, StartConfigured(p, s)) /\ Sound(p, RestartConfigured(p, s))
<1>1. PICK c : c = ConnectPeer(p, s)
  OBVIOUS
<1>2. PICK t : t = Tired(c)
  OBVIOUS
<1>3. Sound(p, t) /\ (c.ok => t = c.s)
  BY <1>1, <1>2, Connects
<1>4. KnownAddresses /\ t.retry \in RetryType
  BY <1>3 DEF Given, Sound, PeerType
<1>5. MarkFailed(t.retry) \in RetryType /\ Outcome(t.retry, c.ok) \in RetryType
  BY <1>4, Marked
<1>6. /\ Sound(p, [t EXCEPT !.retry = MarkFailed(t.retry)])
      /\ Sound(p, [t EXCEPT !.retry = Outcome(t.retry, c.ok)])
  BY <1>3, <1>5, SetRetry
<1>7. StartConfigured(p, s) = IF c.ok THEN c.s ELSE [t EXCEPT !.retry = MarkFailed(@)]
  BY <1>1, <1>2, Zenon DEF StartConfigured
<1>8. RestartConfigured(p, s) = [t EXCEPT !.retry = Outcome(@, c.ok)]
  BY <1>1, <1>2, Zenon DEF RestartConfigured
<1>9. Sound(p, StartConfigured(p, s))
  <2>1. CASE c.ok
    BY <1>3, <1>7, <2>1
  <2>2. CASE ~c.ok
    BY <1>6, <1>7, <2>2
  <2> QED BY <2>1, <2>2
<1>10. Sound(p, RestartConfigured(p, s))
  BY <1>6, <1>8
<1> QED BY <1>9, <1>10

(* A connection is marked as one of AutoConnect.                           *)
LEMMA MarkLast ==
    ASSUME NEW l \in Seq(LinkType), l # <<>>
    PROVE  /\ [l EXCEPT ![Len(l)].auto = TRUE] \in Seq(LinkType)
           /\ HasUp([l EXCEPT ![Len(l)].auto = TRUE]) => HasUp(l)
<1>1. PICK n : n = Len(l)
  OBVIOUS
<1>2. n \in Nat \ {0}
  BY <1>1, EmptySeq
<1>3. PICK x : x = [l[n] EXCEPT !.auto = TRUE]
  OBVIOUS
<1>4. l[n] \in LinkType
  BY <1>1, <1>2, ElementOfSeq
<1>5. x \in LinkType /\ x.up = l[n].up
  BY <1>3, <1>4 DEF LinkType
<1>6. PICK m : m = [l EXCEPT ![n] = x]
  OBVIOUS
<1>7. /\ m \in Seq(LinkType) /\ Len(m) = Len(l)
      /\ \A j \in 1 .. Len(l) : m[j] = IF j = n THEN x ELSE l[j]
  <2>1. n \in 1 .. Len(l)
    BY <1>1, <1>2
  <2> QED BY <1>5, <1>6, <2>1, ExceptSeq
<1>8. DOMAIN m = 1 .. n /\ DOMAIN l = 1 .. n
  BY <1>1, <1>7, LenProperties
<1>9. HasUp(m) => HasUp(l)
  BY <1>1, <1>5, <1>7, <1>8 DEF HasUp
<1>10. [l EXCEPT ![Len(l)].auto = TRUE] = m
  BY <1>1, <1>3, <1>6
<1> QED BY <1>7, <1>9, <1>10

LEMMA StartsAuto ==
    ASSUME NEW p, Given(p), NEW s, Sound(p, s)
    PROVE  Sound(p, StartAuto(p, s))
<1>1. PICK c : c = ConnectPeer(p, s)
  OBVIOUS
<1>2. PICK t : t = Tired(c)
  OBVIOUS
<1>3. Sound(p, t) /\ (c.ok => t.links # <<>>)
  BY <1>1, <1>2, Connects
<1>4. KnownAddresses /\ t \in PeerType /\ t.auto \in RetryType /\ t.links \in Seq(LinkType)
  BY <1>3 DEF Given, Sound, PeerType
<1>5. PICK r : r = Outcome(t.auto, c.ok)
  OBVIOUS
<1>6. PICK u : u = [t EXCEPT !.auto = r]
  OBVIOUS
<1>7. Sound(p, u) /\ u.links = t.links /\ u.tries = t.tries
  <2>1. r \in RetryType
    BY <1>4, <1>5, Marked
  <2>2. Sound(p, u)
    BY <1>3, <1>6, <2>1, SetRetry
  <2> QED BY <1>4, <1>6, <2>2 DEF PeerType
<1>8. PICK l : l = IF c.ok THEN [t.links EXCEPT ![Len(t.links)].auto = TRUE] ELSE t.links
  OBVIOUS
<1>9. l \in Seq(LinkType) /\ (HasUp(l) => HasUp(t.links))
  <2>1. CASE c.ok
    <3>1. l = [t.links EXCEPT ![Len(t.links)].auto = TRUE]
      BY <1>8, <2>1
    <3> QED BY <1>3, <1>4, <2>1, <3>1, MarkLast
  <2>2. CASE ~c.ok
    BY <1>4, <1>8, <2>2
  <2> QED BY <2>1, <2>2
<1>10. Sound(p, [u EXCEPT !.links = l])
  BY <1>3, <1>7, <1>9, SetLinks DEF Sound
<1>11. StartAuto(p, s) = [t EXCEPT !.auto = Outcome(@, c.ok),
                                  !.links = IF c.ok THEN [@ EXCEPT ![Len(@)].auto = TRUE] ELSE @]
  BY <1>1, <1>2, Zenon DEF StartAuto
<1>12. StartAuto(p, s) = [u EXCEPT !.links = l]
  BY <1>4, <1>5, <1>6, <1>8, <1>11 DEF PeerType
<1> QED BY <1>10, <1>12

(* A connection is taken out.                                              *)
LEMMA Removes ==
    ASSUME NEW l \in Seq(LinkType), NEW k \in DOMAIN l
    PROVE  RemoveAt(l, k) \in Seq(LinkType) /\ (HasUp(RemoveAt(l, k)) => HasUp(l))
<1>1. PICK n : n = Len(l)
  OBVIOUS
<1>2. n \in Nat /\ DOMAIN l = 1 .. n /\ \A i \in 1 .. n : l[i] \in LinkType
  BY <1>1, LenProperties, ElementOfSeq
<1>3. k \in 1 .. n /\ k - 1 \in Int /\ k + 1 \in Int /\ 1 \in Int /\ n \in Int
  BY <1>2
<1>4. PICK a : a = SubSeq(l, 1, k - 1)
  OBVIOUS
<1>5. PICK b : b = SubSeq(l, k + 1, n)
  OBVIOUS
<1>6. RemoveAt(l, k) = a \o b
  BY <1>1, <1>4, <1>5 DEF RemoveAt
<1>7. /\ a \in Seq(LinkType) /\ Len(a) = (IF 1 <= k - 1 THEN (k - 1) - 1 + 1 ELSE 0)
      /\ \A i \in 1 .. (k - 1) - 1 + 1 : a[i] = l[1 + i - 1]
  <2>1. \A i \in 1 .. k - 1 : l[i] \in LinkType
    BY <1>2, <1>3
  <2> QED BY <1>3, <1>4, <2>1, SubSeqProperties
<1>8. /\ b \in Seq(LinkType) /\ Len(b) = (IF k + 1 <= n THEN n - (k + 1) + 1 ELSE 0)
      /\ \A i \in 1 .. n - (k + 1) + 1 : b[i] = l[k + 1 + i - 1]
  <2>1. \A i \in k + 1 .. n : l[i] \in LinkType
    BY <1>2, <1>3
  <2> QED BY <1>3, <1>5, <2>1, SubSeqProperties
<1>9. PICK c : c = a \o b
  OBVIOUS
<1>10. PICK la : la = Len(a)
  OBVIOUS
<1>11. PICK lb : lb = Len(b)
  OBVIOUS
<1>12. la = k - 1 /\ lb = n - k
  BY <1>2, <1>3, <1>7, <1>8, <1>10, <1>11
<1>13. /\ c \in Seq(LinkType) /\ Len(c) = la + lb
       /\ \A i \in 1 .. la + lb : c[i] = IF i <= la THEN a[i] ELSE b[i - la]
  BY <1>7, <1>8, <1>9, <1>10, <1>11, ConcatProperties, ZenonT(60)
<1>14. DOMAIN c = 1 .. la + lb
  BY <1>13, LenProperties
<1>15. ASSUME NEW i \in DOMAIN c PROVE \E j \in DOMAIN l : c[i] = l[j]
  <2>1. i \in 1 .. la + lb
    BY <1>14
  <2>2. CASE i <= la
    <3>1. i \in 1 .. (k - 1) - 1 + 1 /\ 1 + i - 1 = i /\ i \in DOMAIN l
      BY <1>2, <1>3, <1>12, <2>1, <2>2
    <3>2. c[i] = a[i]
      BY <1>13, <2>1, <2>2
    <3>3. a[i] = l[i]
      BY <1>7, <3>1
    <3> QED BY <3>1, <3>2, <3>3
  <2>3. CASE i > la
    <3>1. PICK j : j = i - la
      OBVIOUS
    <3>2. j \in 1 .. n - (k + 1) + 1 /\ k + 1 + j - 1 \in DOMAIN l
      <4>1. la \in Int /\ lb \in Int /\ i \in Int /\ n \in Int /\ k \in Int /\ i <= la + lb /\ 1 <= k
        BY <1>2, <1>3, <1>12, <2>1
      <4>2. j \in Int /\ j >= 1 /\ j <= n - k
        <5>1. i = la + j /\ j \in Int
          BY <3>1, <4>1
        <5>2. la + j > la /\ la + j <= la + (n - k)
          BY <1>12, <2>3, <4>1, <5>1
        <5> QED BY <4>1, <5>1, <5>2
      <4>3. j <= n - (k + 1) + 1 /\ 1 <= k + 1 + j - 1 /\ k + 1 + j - 1 <= n
        BY <4>1, <4>2
      <4> QED BY <1>2, <4>1, <4>2, <4>3
    <3>3. c[i] = b[j]
      <4>1. ~(i <= la)
        BY <1>3, <1>12, <2>1, <2>3
      <4> QED BY <1>13, <2>1, <3>1, <4>1
    <3> QED BY <1>8, <3>2, <3>3
  <2> QED BY <1>3, <1>12, <2>1, <2>2, <2>3
<1>16. HasUp(c) => HasUp(l)
  BY <1>15 DEF HasUp
<1> QED BY <1>6, <1>9, <1>13, <1>16

LEMMA Closes ==
    ASSUME NEW p, Given(p), NEW s, Sound(p, s), NEW k \in DOMAIN s.links
    PROVE  Sound(p, Close(p, s, k))
<1>1. PICK l : l = RemoveAt(s.links, k)
  OBVIOUS
<1>2. PICK rest : rest = [s EXCEPT !.links = l]
  OBVIOUS
<1>3. s \in PeerType /\ s.links \in Seq(LinkType)
  BY DEF Sound, PeerType
<1>4. Sound(p, rest)
  <2>1. l \in Seq(LinkType) /\ (HasUp(l) => HasUp(s.links))
    BY <1>1, <1>3, Removes
  <2> QED BY <1>2, <2>1, SetLinks DEF Sound
<1>5. Sound(p, RestartConfigured(p, rest)) /\ Sound(p, StartAuto(p, rest))
  BY <1>4, Starts, StartsAuto
<1>6. rest = [s EXCEPT !.links = RemoveAt(@, k)]
  BY <1>1, <1>2, <1>3 DEF PeerType
<1>7. Close(p, s, k) \in {rest, RestartConfigured(p, rest), StartAuto(p, rest)}
  BY <1>6, Zenon DEF Close
<1> QED BY <1>4, <1>5, <1>7

(* disconnect_peer, with the end of the round of tries.                    *)
LEMMA Disconnects ==
    ASSUME NEW p, Given(p), NEW s, Sound(p, s)
    PROVE  Sound(p, [Disconnected(p, s) EXCEPT !.tries = 0])
<1>1. PICK e : e = <<>>
  OBVIOUS
<1>2. PICK closed : closed = [s EXCEPT !.links = e]
  OBVIOUS
<1>3. s \in PeerType /\ KnownAddresses
  BY DEF Sound, Given
<1>4. Sound(p, closed)
  <2>1. e \in Seq(LinkType) /\ DOMAIN e = {}
    BY <1>1, EmptySeq
  <2> QED BY <1>2, <2>1, SetLinks DEF HasUp
<1>5. PICK t : t = [closed EXCEPT !.tries = 0]
  OBVIOUS
<1>6. Sound(p, t) /\ t.tries = 0 /\ closed \in PeerType
  BY <1>4, <1>5, NoTries DEF Sound
<1>7. PICK u : u = [t EXCEPT !.cursor = 0]
  OBVIOUS
<1>8. Sound(p, u) /\ u \in PeerType
  <2>1. t.cache \in Seq(Known) /\ Distinct(t.cache)
    BY <1>6 DEF Sound, PeerType
  <2>2. Sound(p, u)
    BY <1>6, <1>7, <2>1, Restarted
  <2> QED BY <2>2 DEF Sound
<1>9. /\ closed.retry \in RetryType /\ closed.auto \in RetryType /\ Ready \in RetryType
      /\ closed.retry = s.retry /\ closed.auto = s.auto
  BY <1>2, <1>3, <1>6, Marked DEF PeerType
<1>10. ASSUME NEW r \in RetryType
       PROVE  /\ Sound(p, [[closed EXCEPT !.cursor = 0, !.retry = r] EXCEPT !.tries = 0])
              /\ Sound(p, [[closed EXCEPT !.cursor = 0, !.auto = r] EXCEPT !.tries = 0])
  <2>1. Sound(p, [u EXCEPT !.retry = r]) /\ Sound(p, [u EXCEPT !.auto = r])
    BY <1>8, SetRetry
  <2>2. [[closed EXCEPT !.cursor = 0, !.retry = r] EXCEPT !.tries = 0] = [u EXCEPT !.retry = r]
    BY <1>5, <1>6, <1>7 DEF PeerType
  <2>3. [[closed EXCEPT !.cursor = 0, !.auto = r] EXCEPT !.tries = 0] = [u EXCEPT !.auto = r]
    BY <1>5, <1>6, <1>7 DEF PeerType
  <2> QED BY <2>1, <2>2, <2>3
<1> DEFINE Gives(r) == MarkFailed(IF NextAddress(p, s) = {} THEN r ELSE Ready)
<1>11. Gives(closed.retry) \in RetryType /\ Gives(closed.auto) \in RetryType
  <2>1. ASSUME NEW r \in RetryType PROVE Gives(r) \in RetryType
    <3>1. PICK q : q = IF NextAddress(p, s) = {} THEN r ELSE Ready
      OBVIOUS
    <3>2. q \in RetryType
      BY <1>9, <3>1
    <3> QED BY <1>3, <3>1, <3>2, Marked
  <2> HIDE DEF Gives
  <2> QED BY <1>9, <2>1
<1>12. Disconnected(p, s) \in {closed,
                               [closed EXCEPT !.cursor = 0, !.retry = Gives(@)],
                               [closed EXCEPT !.cursor = 0, !.auto = Gives(@)]}
  BY <1>1, <1>2, Zenon DEF Disconnected
<1>13. /\ [closed EXCEPT !.cursor = 0, !.retry = Gives(@)]
            = [closed EXCEPT !.cursor = 0, !.retry = Gives(closed.retry)]
       /\ [closed EXCEPT !.cursor = 0, !.auto = Gives(@)]
            = [closed EXCEPT !.cursor = 0, !.auto = Gives(closed.auto)]
  <2> HIDE DEF Gives
  <2> QED BY <1>6 DEF PeerType
<1> HIDE DEF Gives
<1> QED BY <1>5, <1>6, <1>10, <1>11, <1>12, <1>13

(* The cache with an address put first.                                    *)
LEMMA Promotes ==
    ASSUME KnownAddresses, NEW c \in Seq(Known), Distinct(c), NEW a \in Known
    PROVE  Promote(c, a) \in Seq(Known) /\ Distinct(Promote(c, a))
<1>1. PICK others : others = AllBut(c, {a})
  OBVIOUS
<1>2. /\ others \in Seq(Known) /\ Distinct(others)
      /\ \A i \in DOMAIN others : others[i] \notin {a}
  BY <1>1, AllButFacts
<1>3. PICK n : n = Min({Len(others), MaxCached - 1})
  OBVIOUS
<1>4. n \in Nat /\ n <= Len(others)
  <2>1. Len(others) \in Nat /\ MaxCached - 1 \in Nat
    BY <1>2, LenProperties DEF KnownAddresses
  <2>2. PICK b : b = MaxCached - 1
    OBVIOUS
  <2>3. PICK l : l = Len(others)
    OBVIOUS
  <2>4. n = Min({l, b}) /\ l \in Int /\ b \in Int
    BY <1>3, <2>1, <2>2, <2>3
  <2>5. n \in {l, b} /\ n <= l
    BY <2>4, MinOfTwo
  <2> QED BY <2>1, <2>2, <2>3, <2>5
<1>5. PICK w : w = SubSeq(others, 1, n)
  OBVIOUS
<1>6. /\ w \in Seq(Known) /\ Distinct(w)
      /\ \A i \in DOMAIN w : w[i] \notin {a}
  BY <1>2, <1>4, <1>5, PrefixDistinct
<1>7. PICK one : one = <<a>>
  OBVIOUS
<1>8. one \in Seq(Known) /\ DOMAIN one = 1 .. 1 /\ one[1] = a
  BY <1>7
<1>9. Distinct(one) /\ ToSet(one) = {a}
  BY <1>8 DEF Distinct, ToSet
<1>10. one \o w \in Seq(Known) /\ Distinct(one \o w)
  BY <1>6, <1>8, <1>9, ConcatDistinct
<1>11. Promote(c, a) = one \o w
  BY <1>1, <1>3, <1>5, <1>7 DEF Promote
<1> QED BY <1>10, <1>11

LEMMA Activates ==
    ASSUME NEW p, Given(p), NEW s, Sound(p, s), NEW k \in DOMAIN s.links
    PROVE  Sound(p, Activated(p, s, k))
<1>1. s \in PeerType /\ s.links \in Seq(LinkType) /\ KnownAddresses
  BY DEF Sound, PeerType, Given
<1>2. s.links[k] \in LinkType /\ k \in 1 .. Len(s.links)
  BY <1>1, LenProperties, ElementOfSeq
<1> DEFINE old == {j \in DOMAIN s.links : s.links[j].up}
           wasOutgoing == \E j \in old : s.links[j].outgoing
           wasAuto == \E j \in old : s.links[j].auto
           link == s.links[k]
           gone == {s.links[j] : j \in old}
<1>3. PICK heir : heir = [link EXCEPT !.up = TRUE,
                                     !.outgoing = @ \/ wasOutgoing,
                                     !.auto = IF wasOutgoing THEN wasAuto ELSE @]
  OBVIOUS
<1>4. heir \in LinkType
  <2>1. PICK o : o = (link.outgoing \/ wasOutgoing)
    OBVIOUS
  <2>2. PICK a : a = IF wasOutgoing THEN wasAuto ELSE link.auto
    OBVIOUS
  <2>3. o \in BOOLEAN
    BY <2>1, Zenon
  <2>4. link.auto \in BOOLEAN
    BY <1>2 DEF LinkType
  <2>5. a \in BOOLEAN
    BY <2>2, <2>4, Zenon
  <2>6. heir = [[[link EXCEPT !.up = TRUE] EXCEPT !.outgoing = o] EXCEPT !.auto = a]
    <3> HIDE DEF wasOutgoing, wasAuto
    <3> QED BY <1>2, <1>3, <2>1, <2>2 DEF LinkType
  <2> HIDE DEF link
  <2>7. link \in LinkType
    BY <1>2 DEF link
  <2> QED BY <2>3, <2>5, <2>6, <2>7 DEF LinkType
<1>5. PICK l : l = AllBut([s.links EXCEPT ![k] = heir], gone \ {heir})
  OBVIOUS
<1>6. l \in Seq(LinkType)
  <2>1. [s.links EXCEPT ![k] = heir] \in Seq(LinkType)
    BY <1>1, <1>2, <1>4, ExceptSeq
  <2> HIDE DEF gone
  <2> QED BY <1>5, <2>1, AllButFacts
<1>7. PICK t : t = [s EXCEPT !.tries = 0]
  OBVIOUS
<1>8. Sound(p, t) /\ t.tries = 0
  BY <1>7, NoTries
<1>9. PICK kept : kept = [t EXCEPT !.links = l]
  OBVIOUS
<1>10. Sound(p, kept) /\ kept.tries = 0 /\ kept.cache = s.cache /\ kept \in PeerType
  <2>1. Sound(p, kept)
    BY <1>6, <1>8, <1>9, SetLinks
  <2>2. t \in PeerType
    BY <1>8 DEF Sound
  <2> QED BY <1>1, <1>7, <1>8, <1>9, <2>1, <2>2 DEF PeerType, Sound
<1>11. kept = [s EXCEPT !.links = AllBut([@ EXCEPT ![k] = heir], gone \ {heir}), !.tries = 0]
  <2> HIDE DEF gone
  <2> QED BY <1>1, <1>5, <1>7, <1>9 DEF PeerType
<1>12. PICK c : c = Promote(kept.cache, link.via)
  OBVIOUS
<1>13. Sound(p, [kept EXCEPT !.cursor = 0, !.cache = c])
  <2>1. link.via \in Known /\ s.cache \in Seq(Known) /\ Distinct(s.cache)
    BY <1>1, <1>2 DEF LinkType, PeerType, Sound
  <2>2. c \in Seq(Known) /\ Distinct(c)
    BY <1>1, <1>10, <1>12, <2>1, Promotes
  <2> QED BY <1>10, <2>2, Restarted
<1>14. Activated(p, s, k) \in {kept, [kept EXCEPT !.cursor = 0, !.cache = Promote(@, link.via)]}
  BY <1>3, <1>11, Zenon DEF Activated
<1>15. [kept EXCEPT !.cursor = 0, !.cache = Promote(@, link.via)] = [kept EXCEPT !.cursor = 0, !.cache = c]
  <2> HIDE DEF link
  <2> QED BY <1>10, <1>12 DEF PeerType
<1> QED BY <1>10, <1>13, <1>14, <1>15

(* handle_pong_address_cache_like_tinc                                     *)
LEMMA Pongs ==
    ASSUME NEW p, Given(p), NEW s, Sound(p, s), NEW k \in DOMAIN s.links, s.links[k].up
    PROVE  Sound(p, [s EXCEPT !.cursor = 0, !.cache = Promote(@, s.links[k].via), !.retry = Ready])
<1>1. s \in PeerType /\ s.links \in Seq(LinkType) /\ s.cache \in Seq(Known) /\ KnownAddresses
  BY DEF Sound, PeerType, Given
<1>2. s.links[k] \in LinkType
  BY <1>1, LenProperties, ElementOfSeq
<1>3. s.links[k].via \in Known
  BY <1>2 DEF LinkType
<1>4. PICK via : via = s.links[k].via
  OBVIOUS
<1>5. PICK c : c = Promote(s.cache, via)
  OBVIOUS
<1>6. c \in Seq(Known) /\ Distinct(c)
  BY <1>1, <1>3, <1>4, <1>5, Promotes DEF Sound
<1>7. s.tries = 0
  BY DEF Sound, HasUp
<1>8. PICK t : t = [s EXCEPT !.cursor = 0, !.cache = c]
  OBVIOUS
<1>9. Sound(p, t)
  BY <1>6, <1>7, <1>8, Restarted
<1>10. Ready \in RetryType
  BY DEF Ready, RetryType
<1>11. Sound(p, [t EXCEPT !.retry = Ready])
  BY <1>9, <1>10, SetRetry
<1>12. [s EXCEPT !.cursor = 0, !.cache = Promote(@, s.links[k].via), !.retry = Ready] = [t EXCEPT !.retry = Ready]
  BY <1>1, <1>4, <1>5, <1>8 DEF PeerType
<1> QED BY <1>11, <1>12

-----------------------------------------------------------------------------
(* All peers.                                                              *)
LEMMA SetOne ==
    ASSUME NEW f, AllSound(f), NEW p \in Peers, NEW t, Sound(p, t)
    PROVE  AllSound([f EXCEPT ![p] = t])
<1>1. PICK g : g = [f EXCEPT ![p] = t]
  OBVIOUS
<1>2. t \in PeerType /\ f \in [Peers -> PeerType]
  BY DEF Sound, AllSound
<1>3. g \in [Peers -> PeerType] /\ \A q \in Peers : g[q] = IF q = p THEN t ELSE f[q]
  BY <1>1, <1>2
<1>4. AllSound(g)
  BY <1>3 DEF AllSound
<1> QED BY <1>1, <1>4

LEMMA SetAll ==
    ASSUME NEW e, e \in [Peers -> PeerType], \A p \in Peers : Sound(p, e[p])
    PROVE  AllSound(e)
BY DEF AllSound

LEMMA Trims ==
    ASSUME KnownAddresses, out \in OutWorlds, NEW now, AllSound(now), NEW pick \in Peers
    PROVE  AllSound(Trim(now, pick))
<1>0. Given(pick)
  BY DEF Given
<1>1. PICK e : e = <<>>
  OBVIOUS
<1>2. PICK cancelled : cancelled = [p \in Peers |-> IF now[p].links = e THEN [now[p] EXCEPT !.auto = NoRetry] ELSE now[p]]
  OBVIOUS
<1>3. AllSound(cancelled)
  <2>1. ASSUME NEW p \in Peers PROVE Sound(p, cancelled[p])
    <3>1. Sound(p, now[p])
      BY DEF AllSound
    <3>2. Sound(p, [now[p] EXCEPT !.auto = NoRetry])
      <4>1. NoRetry \in RetryType
        BY DEF NoRetry, RetryType
      <4> QED BY <3>1, <4>1, SetRetry
    <3>3. cancelled[p] = IF now[p].links = e THEN [now[p] EXCEPT !.auto = NoRetry] ELSE now[p]
      BY <1>2
    <3> QED BY <3>1, <3>2, <3>3
  <2>2. cancelled \in [Peers -> PeerType]
    <3>1. \A p \in Peers : cancelled[p] \in PeerType
      BY <2>1 DEF Sound
    <3>2. cancelled = [p \in Peers |-> cancelled[p]]
      BY <1>2
    <3> QED BY <3>1, <3>2
  <2> QED BY <2>1, <2>2, SetAll
<1>4. PICK s : s = cancelled[pick]
  OBVIOUS
<1>5. Sound(pick, s) /\ Sound(pick, StartAuto(pick, s))
  BY <1>0, <1>3, <1>4, StartsAuto DEF AllSound
<1>6. Trim(now, pick) \in {[cancelled EXCEPT ![pick] = StartAuto(pick, @)], [cancelled EXCEPT ![pick] = @]}
  BY <1>1, <1>2, Zenon DEF Trim
<1>7. /\ [cancelled EXCEPT ![pick] = StartAuto(pick, @)] = [cancelled EXCEPT ![pick] = StartAuto(pick, s)]
      /\ [cancelled EXCEPT ![pick] = @] = [cancelled EXCEPT ![pick] = s]
  BY <1>3, <1>4 DEF AllSound
<1>8. /\ AllSound([cancelled EXCEPT ![pick] = StartAuto(pick, s)])
      /\ AllSound([cancelled EXCEPT ![pick] = s])
  BY <1>3, <1>5, SetOne
<1> QED BY <1>6, <1>7, <1>8

LEMMA RetriesNow ==
    ASSUME KnownAddresses, out \in OutWorlds, NEW now, AllSound(now)
    PROVE  AllSound(RetriedNow(now))
<1>1. PICK e : e = <<>>
  OBVIOUS
<1>2. ASSUME NEW p \in Peers
      PROVE  Sound(p, Fresh(now[p])) /\ Sound(p, StartConfigured(p, Fresh(now[p])))
  <2>0. Given(p)
    BY DEF Given
  <2>1. PICK s : s = now[p]
    OBVIOUS
  <2>2. Sound(p, s) /\ s \in PeerType /\ s.retry \in RetryType
    BY <2>1 DEF AllSound, Sound, PeerType
  <2>3. PICK r : r = IF s.retry.on THEN Ready ELSE s.retry
    OBVIOUS
  <2>4. r \in RetryType
    BY <2>2, <2>3, Marked
  <2>5. PICK t : t = [s EXCEPT !.retry = r]
    OBVIOUS
  <2>6. Sound(p, t) /\ Sound(p, [t EXCEPT !.tries = 0])
    BY <2>2, <2>4, <2>5, SetRetry, NoTries
  <2>7. Fresh(s) = [t EXCEPT !.tries = 0]
    BY <2>2, <2>3, <2>5 DEF Fresh, PeerType
  <2> QED BY <2>0, <2>1, <2>6, <2>7, Starts
<1>3. PICK g : g = RetriedNow(now)
  OBVIOUS
<1>4. g = [p \in Peers |-> IF now[p].retry.on /\ now[p].links = e THEN StartConfigured(p, Fresh(now[p])) ELSE Fresh(now[p])]
  BY <1>1, <1>3, Zenon DEF RetriedNow
<1>5. ASSUME NEW p \in Peers PROVE Sound(p, g[p])
  <2>1. g[p] = IF now[p].retry.on /\ now[p].links = e THEN StartConfigured(p, Fresh(now[p])) ELSE Fresh(now[p])
    BY <1>4
  <2> QED BY <1>2, <2>1
<1>6. g \in [Peers -> PeerType]
  <2>1. \A p \in Peers : g[p] \in PeerType
    BY <1>5 DEF Sound
  <2>2. g = [p \in Peers |-> g[p]]
    BY <1>4
  <2> QED BY <2>1, <2>2
<1> QED BY <1>3, <1>5, <1>6, SetAll

-----------------------------------------------------------------------------
(* The invariant.                                                          *)
LEMMA DialInit ==
    ASSUME KnownAddresses, OutInit
    PROVE  DialIInv
<1>1. out \in OutWorlds
  BY DEF OutInit
<1>2. PICK e : e = <<>>
  OBVIOUS
<1>3. peer = [p \in Peers |-> [links |-> e, cursor |-> 0, cache |-> out.cache[p], tries |-> 0, auto |-> NoRetry,
                               retry |-> IF p \in out.configured THEN Ready ELSE NoRetry]]
  BY <1>2 DEF OutInit
<1>4. ASSUME NEW p \in Peers PROVE Sound(p, peer[p])
  <2>1. PICK r : r = IF p \in out.configured THEN Ready ELSE NoRetry
    OBVIOUS
  <2>2. r \in RetryType /\ NoRetry \in RetryType
    BY <2>1 DEF Ready, NoRetry, RetryType
  <2>3. PICK s : s = peer[p]
    OBVIOUS
  <2>4. PICK c : c = out.cache[p]
    OBVIOUS
  <2>5. s = [links |-> e, cursor |-> 0, cache |-> c, tries |-> 0, auto |-> NoRetry, retry |-> r]
    BY <1>3, <2>1, <2>3, <2>4
  <2>6. c \in Seq(Known) /\ Distinct(c) /\ Given(p)
    BY <1>1, <2>4 DEF KnownAddresses, Given
  <2>7. e \in Seq(LinkType) /\ DOMAIN e = {}
    BY <1>2, EmptySeq
  <2>8. s \in PeerType /\ s.cache = c /\ s.links = e /\ s.tries = 0 /\ s.cursor = 0
    BY <2>2, <2>5, <2>6, <2>7 DEF PeerType
  <2>9. Len(Candidates(p, s)) \in Nat
    BY <2>6, <2>8, CandidatesOK
  <2>10. Sound(p, s)
    BY <2>6, <2>8, <2>9 DEF Sound
  <2> QED BY <2>3, <2>10
<1>5. peer \in [Peers -> PeerType]
  <2>1. \A p \in Peers : peer[p] \in PeerType
    BY <1>4 DEF Sound
  <2>2. peer = [p \in Peers |-> peer[p]]
    BY <1>3
  <2> QED BY <2>1, <2>2
<1> QED BY <1>1, <1>4, <1>5, SetAll DEF DialIInv

LEMMA PeersStep ==
    ASSUME DialIInv, UNCHANGED out, AllSound(peer')
    PROVE  DialIInv'
BY DEF DialIInv, AllSound, Sound, Candidates

LEMMA DialNext ==
    ASSUME KnownAddresses, DialIInv, [OutNext]_outVars
    PROVE  DialIInv'
<1>1. out \in OutWorlds /\ AllSound(peer)
  BY DEF DialIInv
<1>2. \A p \in Peers : Given(p) /\ Sound(p, peer[p]) /\ peer[p] \in PeerType
  BY <1>1 DEF Given, AllSound
<1>3. ASSUME NEW p \in Peers, NEW t, Set(p, t), Sound(p, t) PROVE AllSound(peer')
  <2>1. AllSound([peer EXCEPT ![p] = t])
    BY <1>1, <1>3, SetOne
  <2> QED BY <1>3, <2>1 DEF Set
<1>4. CASE UNCHANGED outVars
  <2>1. UNCHANGED <<out, peer>>
    BY <1>4 DEF outVars
  <2> QED BY <1>1, <2>1, PeersStep
<1>5. CASE Tick
  <2>1. UNCHANGED out
    BY <1>5 DEF Tick
  <2> DEFINE Later(r) == [r EXCEPT !.wait = Max({@ - 1, 0})]
             Passed(s) == [s EXCEPT !.retry = Later(@), !.auto = Later(@)]
  <2>2. peer' = [p \in Peers |-> Passed(peer[p])]
    BY <1>5 DEF Tick
  <2>3. ASSUME NEW r \in RetryType PROVE Later(r) \in RetryType
    <3>1. PICK w : w = Max({r.wait - 1, 0})
      OBVIOUS
    <3>2. r.wait - 1 \in Int
      BY <2>3 DEF RetryType
    <3>3. PICK v : v = r.wait - 1
      OBVIOUS
    <3>4. w \in Int
      BY <3>1, <3>2, <3>3, MaxOfTwo
    <3>5. Later(r) = [r EXCEPT !.wait = w]
      BY <2>3, <3>1 DEF RetryType
    <3> HIDE DEF Later
    <3> QED BY <2>3, <3>4, <3>5 DEF RetryType
  <2>4. ASSUME NEW p \in Peers PROVE Sound(p, Passed(peer[p]))
    <3>1. PICK s : s = peer[p]
      OBVIOUS
    <3>2. Sound(p, s) /\ s \in PeerType /\ s.retry \in RetryType /\ s.auto \in RetryType
      BY <1>2, <3>1 DEF PeerType
    <3>3. PICK r : r = Later(s.retry)
      OBVIOUS
    <3>4. PICK a : a = Later(s.auto)
      OBVIOUS
    <3>5. r \in RetryType /\ a \in RetryType
      <4> HIDE DEF Later
      <4> QED BY <2>3, <3>2, <3>3, <3>4
    <3>6. PICK t : t = [s EXCEPT !.retry = r]
      OBVIOUS
    <3>7. Sound(p, t) /\ t \in PeerType
      BY <3>2, <3>5, <3>6, SetRetry DEF Sound
    <3>8. Sound(p, [t EXCEPT !.auto = a])
      BY <3>5, <3>7, SetRetry
    <3>9. Passed(s) = [t EXCEPT !.auto = a]
      <4> HIDE DEF Later
      <4> QED BY <3>2, <3>3, <3>4, <3>6 DEF PeerType
    <3> HIDE DEF Passed
    <3> QED BY <3>1, <3>8, <3>9
  <2>5. AllSound(peer')
    <3> HIDE DEF Passed
    <3>1. PICK g : g = peer'
      OBVIOUS
    <3>2. \A p \in Peers : Sound(p, g[p])
      BY <2>2, <2>4, <3>1
    <3>3. g \in [Peers -> PeerType]
      <4>1. \A p \in Peers : g[p] \in PeerType
        BY <3>2 DEF Sound
      <4>2. g = [p \in Peers |-> g[p]]
        BY <2>2, <3>1
      <4> QED BY <4>1, <4>2
    <3>4. AllSound(g)
      BY <3>2, <3>3, SetAll
    <3> QED BY <3>1, <3>4
  <2> QED BY <2>1, <2>5, PeersStep
<1>6. CASE RetryNow
  <2>1. UNCHANGED out /\ peer' = RetriedNow(peer)
    BY <1>6 DEF RetryNow
  <2> QED BY <1>1, <2>1, RetriesNow, PeersStep
<1>7. ASSUME NEW p \in Peers, RetryPeer(p) \/ RetryAuto(p) \/ MakeNew(p) PROVE DialIInv'
  <2>1. UNCHANGED out /\ (Set(p, StartConfigured(p, peer[p])) \/ Set(p, StartAuto(p, peer[p])))
    BY <1>7 DEF RetryPeer, RetryAuto, MakeNew
  <2>2. Sound(p, StartConfigured(p, peer[p])) /\ Sound(p, StartAuto(p, peer[p]))
    BY <1>2, Starts, StartsAuto
  <2> QED BY <1>3, <2>1, <2>2, PeersStep
<1>8. ASSUME NEW pick \in Peers, KeepEnough(pick) PROVE DialIInv'
  <2> DEFINE Dropped(p) == Close(p, [peer[p] EXCEPT !.auto = NoRetry], CHOOSE k \in UpLink(p) : TRUE)
  <2>1. UNCHANGED out
    BY <1>8 DEF KeepEnough
  <2>2. \/ peer' = Trim(peer, pick)
        \/ \E p \in Peers : TooMany /\ Superfluous(p) /\ peer' = Trim([peer EXCEPT ![p] = Dropped(p)], pick)
    BY <1>8, Zenon DEF KeepEnough
  <2>3. CASE peer' = Trim(peer, pick)
    BY <1>1, <2>1, <2>3, Trims, PeersStep
  <2>4. ASSUME NEW p \in Peers, Superfluous(p), peer' = Trim([peer EXCEPT ![p] = Dropped(p)], pick)
        PROVE  DialIInv'
    <3>1. PICK k : k = CHOOSE j \in UpLink(p) : TRUE
      OBVIOUS
    <3>2. k \in UpLink(p)
      BY <2>4, <3>1 DEF Superfluous
    <3>3. PICK s : s = [peer[p] EXCEPT !.auto = NoRetry]
      OBVIOUS
    <3>4. Sound(p, s) /\ s.links = peer[p].links
      <4>1. NoRetry \in RetryType
        BY DEF NoRetry, RetryType
      <4>2. Sound(p, s)
        BY <1>2, <3>3, <4>1, SetRetry
      <4> QED BY <1>2, <3>3, <4>2 DEF PeerType
    <3>5. k \in DOMAIN s.links
      BY <3>2, <3>4 DEF UpLink
    <3>6. Sound(p, Close(p, s, k))
      BY <1>2, <3>4, <3>5, Closes
    <3>7. AllSound([peer EXCEPT ![p] = Close(p, s, k)])
      BY <1>1, <3>6, SetOne
    <3>8. peer' = Trim([peer EXCEPT ![p] = Close(p, s, k)], pick)
      BY <2>4, <3>1, <3>3
    <3>9. AllSound(peer')
      BY <1>1, <3>7, <3>8, Trims
    <3> QED BY <2>1, <3>9, PeersStep
  <2> QED BY <2>2, <2>3, <2>4
<1>9. ASSUME NEW p \in Peers, Incoming(p) PROVE DialIInv'
  <2>1. PICK s : s = peer[p]
    OBVIOUS
  <2>2. PICK one : one = Link(Ephemeral, FALSE)
    OBVIOUS
  <2>3. PICK l : l = Append(s.links, one)
    OBVIOUS
  <2>4. one \in LinkType /\ one.up = FALSE
    BY <2>2 DEF Link, LinkType, Known
  <2>5. Sound(p, s) /\ s \in PeerType /\ s.links \in Seq(LinkType)
    BY <1>2, <2>1 DEF PeerType
  <2>6. /\ l \in Seq(LinkType) /\ Len(l) = Len(s.links) + 1
        /\ \A i \in 1 .. Len(s.links) : l[i] = s.links[i]
        /\ l[Len(s.links) + 1] = one
    BY <2>3, <2>4, <2>5, AppendProperties
  <2>7. DOMAIN l = 1 .. Len(s.links) + 1 /\ DOMAIN s.links = 1 .. Len(s.links) /\ Len(s.links) \in Nat
    BY <2>5, <2>6, LenProperties
  <2>8. HasUp(l) => HasUp(s.links)
    <3>1. ASSUME NEW i \in DOMAIN l, i \notin DOMAIN s.links PROVE i = Len(s.links) + 1
      BY <2>7, <3>1
    <3> QED BY <2>4, <2>6, <2>7, <3>1 DEF HasUp
  <2>9. Sound(p, [s EXCEPT !.links = l])
    BY <2>5, <2>6, <2>8, SetLinks DEF Sound
  <2>10. Set(p, [s EXCEPT !.links = l]) /\ UNCHANGED out
    <3>1. Set(p, [peer[p] EXCEPT !.links = Append(@, one)]) /\ UNCHANGED out
      BY <1>9, <2>2 DEF Incoming
    <3>2. [peer[p] EXCEPT !.links = Append(@, one)] = [s EXCEPT !.links = l]
      BY <2>1, <2>3, <2>5 DEF PeerType
    <3> QED BY <3>1, <3>2
  <2> QED BY <1>3, <2>9, <2>10, PeersStep
<1>10. ASSUME NEW p \in Peers, Move(p) PROVE DialIInv'
  <2>1. UNCHANGED <<out, peer>>
    BY <1>10 DEF Move
  <2> QED BY <1>1, <2>1, PeersStep
<1>11. ASSUME NEW p \in Peers, Disconnect(p) PROVE DialIInv'
  <2>1. UNCHANGED out /\ Set(p, [Disconnected(p, peer[p]) EXCEPT !.tries = 0])
    BY <1>11 DEF Disconnect
  <2>2. Sound(p, [Disconnected(p, peer[p]) EXCEPT !.tries = 0])
    BY <1>2, Disconnects
  <2> QED BY <1>3, <2>1, <2>2, PeersStep
<1>12. ASSUME NEW p \in Peers, Reload(p) PROVE DialIInv'
  <2>1. UNCHANGED out /\ peer' = RetriedNow([peer EXCEPT ![p].retry = IF @.on THEN NoRetry ELSE Ready])
    BY <1>12 DEF Reload
  <2>2. PICK s : s = peer[p]
    OBVIOUS
  <2>3. PICK r : r = IF s.retry.on THEN NoRetry ELSE Ready
    OBVIOUS
  <2>4. r \in RetryType
    BY <2>3 DEF NoRetry, Ready, RetryType
  <2>5. Sound(p, [s EXCEPT !.retry = r])
    BY <1>2, <2>2, <2>4, SetRetry
  <2>6. AllSound([peer EXCEPT ![p] = [s EXCEPT !.retry = r]])
    BY <1>1, <2>5, SetOne
  <2>7. [peer EXCEPT ![p].retry = IF @.on THEN NoRetry ELSE Ready] = [peer EXCEPT ![p] = [s EXCEPT !.retry = r]]
    BY <1>2, <2>2, <2>3 DEF PeerType
  <2>8. AllSound(peer')
    BY <1>1, <2>1, <2>6, <2>7, RetriesNow
  <2> QED BY <2>1, <2>8, PeersStep
<1>13. ASSUME NEW p \in Peers, NEW k \in DOMAIN peer[p].links, Answer(p, k) PROVE DialIInv'
  <2>1. UNCHANGED out /\ Set(p, Activated(p, peer[p], k))
    BY <1>13 DEF Answer
  <2>2. Sound(p, Activated(p, peer[p], k))
    BY <1>2, Activates
  <2> QED BY <1>3, <2>1, <2>2, PeersStep
<1>14. ASSUME NEW p \in Peers, NEW k \in DOMAIN peer[p].links, Refused(p, k) \/ Lost(p, k) PROVE DialIInv'
  <2>1. UNCHANGED out /\ Set(p, Close(p, peer[p], k))
    BY <1>14 DEF Refused, Lost
  <2>2. Sound(p, Close(p, peer[p], k))
    BY <1>2, Closes
  <2> QED BY <1>3, <2>1, <2>2, PeersStep
<1>15. ASSUME NEW p \in Peers, NEW k \in DOMAIN peer[p].links, Pong(p, k) PROVE DialIInv'
  <2>1. PICK s : s = peer[p]
    OBVIOUS
  <2>2. /\ UNCHANGED out /\ s.links[k].up
        /\ Set(p, [s EXCEPT !.cursor = 0, !.cache = Promote(@, s.links[k].via), !.retry = Ready])
    BY <1>15, <2>1 DEF Pong
  <2>3. Sound(p, [s EXCEPT !.cursor = 0, !.cache = Promote(@, s.links[k].via), !.retry = Ready])
    BY <1>2, <2>1, <2>2, Pongs
  <2> QED BY <1>3, <2>2, <2>3, PeersStep
<1> QED BY <1>4, <1>5, <1>6, <1>7, <1>8, <1>9, <1>10, <1>11, <1>12, <1>13, <1>14, <1>15 DEF OutNext

(* The addresses of a peer are tried once each, the one it was heard from  *)
(* included, until it answers, a wait has passed or the operator asks.     *)
THEOREM TriesAreBounded == OutInit /\ [][OutNext]_outVars => []NoHammering
<1>1. OutInit => DialIInv
  BY OutAssumption, DialInit
<1>2. DialIInv /\ [OutNext]_outVars => DialIInv'
  BY OutAssumption, DialNext
<1>3. DialIInv => NoHammering
  <2>1. SUFFICES ASSUME DialIInv, NEW p \in Peers PROVE peer[p].tries <= Cardinality(Addresses) + 1
    BY DEF NoHammering
  <2>2. Given(p) /\ Sound(p, peer[p])
    BY <2>1, OutAssumption DEF Given, DialIInv, AllSound
  <2> QED BY <2>2, FewTries
<1> QED BY <1>1, <1>2, <1>3, PTL

-----------------------------------------------------------------------------
(* Where the daemons are (PeerAddresses).                                  *)

(* The addresses that may be remembered for e                              *)
Own(e) == had[e] \union {setting.edge[e]}

MemType(d) ==
    [latest : [Others(d) -> Int], confirmed : [Others(d) -> BOOLEAN], first : [Others(d) -> Int],
     byAddress : SUBSET (Int \X Others(d)), session : [Others(d) -> Nat], mtu : [Others(d) -> Int],
     told : SUBSET ({"udp", "mtu", "key"} \X Node), hard : BOOLEAN]
GoodMem(d) == {m \in MemType(d) : \A e \in Others(d) : m.latest[e] \in Own(e)}

UdpInfo == [kind : {"udp_info"}, by : Node, hop : Node, from : Node, to : Node, endpoint : Int]
MtuInfo == [kind : {"mtu_info"}, by : Node, hop : Node, from : Node, to : Node, mtu : Int]
KeyRequest == [kind : {"request"}, by : Node, hop : Node, src : Node, dst : Node]
KeyAnswer == [kind : {"answer"}, by : Node, hop : Node, src : Node, dst : Node, key : Nat, address : Int]
Record == [kind : {"sptps"}, by : Node, hop : Node, src : Node, dst : Node, key : Nat \ {0}]

SizeOK(i) ==
    /\ i.mtu <= DefaultMtu
    /\ i.by # i.from /\ NextHop(i.by, i.from) = i.from /\ Fixed(i.by, i.from)
          => i.mtu <= setting.fixed[i.by][i.from]

(* A daemon tells its own end of a connection only to the other end of it. *)
GoodLetter ==
    {i \in UdpInfo : i.endpoint \in Own(i.from) \/ Adjacent(i.hop, i.from)}
    \union {i \in MtuInfo : SizeOK(i)}
    \union {i \in KeyRequest : i.src # i.dst}
    \union {i \in KeyAnswer : i.src # i.dst /\ (i.address = NoAddress \/ i.address \in Own(i.src))}
    \union {i \in Record : i.src # i.dst}
Inbox(d) == {i \in GoodLetter : i.hop = d}

AirType ==
    [by : Node, form : {"modern", "legacy"}, src : Node, dst : Node \union {Null}, key : Nat \ {0},
     kind : {"packet", "request", "reply"}, from : Int, to : Int]

(* A datagram for the one that gets it was sent by the one that made it.   *)
GoodAir ==
    {g \in AirType : /\ g.from \in had[g.by] /\ g.src # g.dst
                     /\ g.dst = Null => g.by = g.src
                     /\ g.form = "legacy" => g.dst = Null}

Ground ==
    /\ setting \in Settings
    /\ where \in [Node -> Int] /\ had \in [Node -> SUBSET Int]
    /\ \A d \in Node : where[d] \in had[d]

Counted ==
    /\ chances \in [moves : Nat, keys : Nat, restarts : Nat, seconds : Nat]
    /\ chances.keys <= setting.chances.keys

AddressIInv ==
    /\ Ground
    /\ mem = [d \in Node |-> mem[d]] /\ \A d \in Node : mem[d] \in GoodMem(d)
    /\ mail = [d \in Node |-> mail[d]] /\ \A d \in Node : mail[d] \in Seq(Inbox(d))
    /\ air \subseteq GoodAir
    /\ Counted

(* What the settings say of the routes.                                    *)
Roads ==
    /\ Node \subseteq Nat \ {Null} /\ DefaultMtu \in Nat
    /\ \A d, e \in Node : NextHop(d, e) \in Node /\ ViaOf(d, e) \in Node
    /\ \A d, e \in Node : d # e =>
          /\ NextHop(d, e) # d /\ Adjacent(NextHop(d, e), d)
          /\ setting.fixed[d][e] \in 0 .. DefaultMtu /\ setting.config[d][e] \in Int
          /\ NextHop(d, e) = e => ViaOf(d, e) \in {d, e}
    /\ \A d \in Node : ViaOf(d, d) = d /\ NextHop(d, d) = d /\ setting.edge[d] \in Int
    /\ \A d \in Node : where[d] \in Int /\ setting.places[d] \subseteq Int
    /\ setting.chances \in [moves : Nat, keys : Nat, restarts : Nat, seconds : Nat]

LEMMA KnownRoads == ASSUME Ground PROVE Roads
<1>1. PICK s \in Settings : s = setting
  BY DEF Ground
<1>2. /\ Node \subseteq Nat \ {Null} /\ DefaultMtu \in Nat
      /\ \A d, e \in Node : d # e =>
            /\ s.nextHop[d][e] \in Node \ {d} /\ {d, s.nextHop[d][e]} \in s.links
            /\ s.via[d][e] \in Node /\ (s.nextHop[d][e] = e => s.via[d][e] \in {d, e})
            /\ s.fixed[d][e] \in 0 .. DefaultMtu /\ s.config[d][e] \in Int
      /\ \A d \in Node : s.edge[d] \in Int /\ s.places[d] \subseteq Int
      /\ s.chances \in [moves : Nat, keys : Nat, restarts : Nat, seconds : Nat]
  BY <1>1, AddressAssumption DEF KnownSettings
<1>3. \A d, e \in Node : /\ NextHop(d, e) = IF d = e THEN d ELSE s.nextHop[d][e]
                         /\ ViaOf(d, e) = IF d = e THEN d ELSE s.via[d][e]
  BY <1>1 DEF NextHop, ViaOf
<1>4. \A d, e \in Node : d # e => Adjacent(NextHop(d, e), d)
  <2>1. SUFFICES ASSUME NEW d \in Node, NEW e \in Node, d # e PROVE {NextHop(d, e), d} \in s.links
    BY <1>1 DEF Adjacent
  <2>2. {NextHop(d, e), d} = {d, s.nextHop[d][e]}
    BY <1>3, <2>1
  <2> QED BY <1>2, <2>1, <2>2
<1>5. \A d \in Node : where[d] \in Int
  BY DEF Ground
<1>6. ASSUME NEW d \in Node, NEW e \in Node
      PROVE  /\ NextHop(d, e) \in Node /\ ViaOf(d, e) \in Node
             /\ d # e => NextHop(d, e) # d
             /\ d # e => (NextHop(d, e) = e => ViaOf(d, e) \in {d, e})
  <2>1. CASE d = e
    BY <1>3, <2>1
  <2>2. CASE d # e
    <3>1. NextHop(d, e) = s.nextHop[d][e] /\ ViaOf(d, e) = s.via[d][e]
      BY <1>3, <2>2
    <3>2. /\ s.nextHop[d][e] \in Node \ {d}
          /\ s.via[d][e] \in Node /\ (s.nextHop[d][e] = e => s.via[d][e] \in {d, e})
      BY <1>2, <2>2
    <3> QED BY <3>1, <3>2
  <2> QED BY <2>1, <2>2
<1>7. \A d \in Node : ViaOf(d, d) = d /\ NextHop(d, d) = d
  BY <1>3
<1> QED BY <1>1, <1>2, <1>4, <1>5, <1>6, <1>7 DEF Roads

(* What is good stays good while daemons move.                             *)
Moves == setting' = setting /\ \A e \in Node : had[e] \subseteq had'[e]

LEMMA Frame ==
    ASSUME Moves
    PROVE  /\ \A d \in Node : GoodMem(d) \subseteq GoodMem(d)'
           /\ GoodLetter \subseteq GoodLetter'
           /\ \A d \in Node : Inbox(d) \subseteq Inbox(d)'
           /\ GoodAir \subseteq GoodAir'
<1>1. \A e \in Node : Own(e) \subseteq Own(e)'
  BY DEF Moves, Own
<1>2. ASSUME NEW d \in Node PROVE GoodMem(d) \subseteq GoodMem(d)'
  <2>1. MemType(d)' = MemType(d)
    BY DEF MemType, Others
  <2> QED BY <1>1, <2>1 DEF GoodMem, Others
<1>3. \A d, e \in Node : Adjacent(d, e)' = Adjacent(d, e)
  BY DEF Moves, Adjacent
<1>4. \A i \in MtuInfo : SizeOK(i)' = SizeOK(i)
  BY DEF Moves, SizeOK, NextHop, Fixed, MtuInfo
<1>5. GoodLetter \subseteq GoodLetter'
  BY <1>1, <1>3, <1>4 DEF GoodLetter, UdpInfo, MtuInfo, KeyRequest, KeyAnswer, Record
<1>6. \A d \in Node : Inbox(d) \subseteq Inbox(d)'
  BY <1>5 DEF Inbox
<1>7. GoodAir \subseteq GoodAir'
  BY DEF GoodAir, AirType, Moves
<1> QED BY <1>2, <1>5, <1>6, <1>7

(* What a daemon may make of what it gets                                  *)
Deeds(d) == [m : GoodMem(d), mail : Seq(GoodLetter), air : SUBSET GoodAir]

LEMMA StartsWell ==
    ASSUME AddressIInv, NEW d \in Node
    PROVE  Start(d) \in Deeds(d)
<1>1. <<>> \in Seq(GoodLetter)
  BY EmptySeq
<1> QED BY <1>1 DEF AddressIInv, Start, Deeds

LEMMA Remembers ==
    ASSUME NEW d \in Node, NEW o \in Deeds(d), NEW m \in GoodMem(d)
    PROVE  [o EXCEPT !.m = m] \in Deeds(d)
BY DEF Deeds

LEMMA Mails ==
    ASSUME NEW d \in Node, NEW o \in Deeds(d), NEW i \in GoodLetter
    PROVE  [o EXCEPT !.mail = Append(@, i)] \in Deeds(d)
<1>1. Append(o.mail, i) \in Seq(GoodLetter)
  BY AppendProperties DEF Deeds
<1> QED BY <1>1 DEF Deeds

LEMMA SendsAir ==
    ASSUME NEW d \in Node, NEW o \in Deeds(d), NEW g, g.to < 0 \/ g \in GoodAir
    PROVE  SendAir(o, g) \in Deeds(d)
BY DEF Deeds, SendAir

(* One field of what is remembered.                                        *)
LEMMA SetLatest ==
    ASSUME NEW d \in Node, NEW m \in GoodMem(d), NEW e \in Others(d), NEW a \in Own(e) \intersect Int
    PROVE  [m EXCEPT !.latest[e] = a] \in GoodMem(d)
BY DEF GoodMem, MemType

LEMMA SetConfirmed ==
    ASSUME NEW d \in Node, NEW m \in GoodMem(d), NEW e \in Others(d), NEW b \in BOOLEAN
    PROVE  [m EXCEPT !.confirmed[e] = b] \in GoodMem(d)
BY DEF GoodMem, MemType

LEMMA SetSession ==
    ASSUME NEW d \in Node, NEW m \in GoodMem(d), NEW e \in Others(d), NEW k \in Nat
    PROVE  [m EXCEPT !.session[e] = k] \in GoodMem(d)
BY DEF GoodMem, MemType

LEMMA SetMtu ==
    ASSUME NEW d \in Node, NEW m \in GoodMem(d), NEW e \in Others(d), NEW k \in Int
    PROVE  [m EXCEPT !.mtu[e] = k] \in GoodMem(d)
BY DEF GoodMem, MemType

LEMMA SetTold ==
    ASSUME NEW d \in Node, NEW m \in GoodMem(d), NEW t \in SUBSET ({"udp", "mtu", "key"} \X Node)
    PROVE  [m EXCEPT !.told = t] \in GoodMem(d)
BY DEF GoodMem, MemType

LEMMA SetHard ==
    ASSUME NEW d \in Node, NEW m \in GoodMem(d), NEW b \in BOOLEAN
    PROVE  [m EXCEPT !.hard = b] \in GoodMem(d)
BY DEF GoodMem, MemType

LEMMA Updates ==
    ASSUME Roads, NEW d \in Node, NEW o \in Deeds(d), NEW e \in Others(d), NEW a \in Own(e) \intersect Int
    PROVE  UpdateNodeUdp(o, e, a) \in Deeds(d) /\ UpdateNodeUdp(o, e, a).m.latest[e] = a
<1>1. o.m \in GoodMem(d)
  BY DEF Deeds
<1>2. PICK m : m = [o.m EXCEPT !.latest[e] = a]
  OBVIOUS
<1>3. m \in GoodMem(d) /\ m.latest[e] = a
  <2>1. m.latest[e] = a
    BY <1>1, <1>2 DEF GoodMem, MemType
  <2> QED BY <1>1, <1>2, <2>1, SetLatest
<1>4. PICK n : n = [m EXCEPT !.confirmed[e] = FALSE]
  OBVIOUS
<1>5. n \in GoodMem(d) /\ n.latest[e] = a
  <2>1. n.latest[e] = a
    BY <1>3, <1>4 DEF GoodMem, MemType
  <2>2. PICK b \in BOOLEAN : b = FALSE
    OBVIOUS
  <2> QED BY <1>3, <1>4, <2>1, <2>2, SetConfirmed
<1>6. [o EXCEPT !.m.latest[e] = a, !.m.confirmed[e] = FALSE] = [o EXCEPT !.m = n]
  BY <1>2, <1>4 DEF Deeds, GoodMem, MemType
<1>7. [o EXCEPT !.m = n] \in Deeds(d) /\ [o EXCEPT !.m = n].m = n
  BY <1>5, Remembers DEF Deeds
<1> QED BY <1>5, <1>6, <1>7 DEF UpdateNodeUdp

LEMMA Replies ==
    ASSUME Roads, NEW d \in Node, NEW o \in Deeds(d), NEW e \in Others(d)
    PROVE  ApplyProbeReply(d, o, e) \in Deeds(d)
<1>1. PICK m : m = [o.m EXCEPT !.confirmed[e] = TRUE]
  OBVIOUS
<1>2. m \in GoodMem(d)
  <2>1. PICK b \in BOOLEAN : b = TRUE
    OBVIOUS
  <2> QED BY <1>1, <2>1, SetConfirmed DEF Deeds
<1>3. PICK heard : heard = [o EXCEPT !.m = m]
  OBVIOUS
<1>4. [o EXCEPT !.m.confirmed[e] = TRUE] = heard
  BY <1>1, <1>3 DEF Deeds
<1>5. heard \in Deeds(d) /\ heard.m = m
  BY <1>2, <1>3, Remembers DEF Deeds
<1>6. PromoteAddress(m, e) \in GoodMem(d)
  <2>1. setting.edge[e] \in Int
    BY DEF Roads, Others
  <2>2. PICK f : f = [m.first EXCEPT ![e] = setting.edge[e]]
    OBVIOUS
  <2>3. PICK t : t = {p \in m.byAddress : p[1] # setting.edge[e]} \union {<<setting.edge[e], e>>}
    OBVIOUS
  <2>4. f \in [Others(d) -> Int] /\ t \in SUBSET (Int \X Others(d))
    BY <1>2, <2>1, <2>2, <2>3 DEF GoodMem, MemType
  <2>5. PromoteAddress(m, e) = [m EXCEPT !.first = f, !.byAddress = t]
    BY <1>2, <2>2, <2>3 DEF PromoteAddress, GoodMem, MemType
  <2> QED BY <1>2, <2>4, <2>5 DEF GoodMem, MemType
<1>7. [heard EXCEPT !.m = PromoteAddress(@, e)] \in Deeds(d)
  BY <1>5, <1>6, Remembers
<1> QED BY <1>4, <1>5, <1>7 DEF ApplyProbeReply

(* Messages about addresses and sizes                                      *)
LEMMA Targeted ==
    ASSUME Roads, NEW d \in Node, NEW e \in Node
    PROVE  InfoTarget(d, e) \in Node
BY DEF Roads, InfoTarget

LEMMA TellsAddresses ==
    ASSUME Roads, NEW d \in Node, NEW o \in Deeds(d), NEW from \in Node, NEW to \in Node
    PROVE  /\ SendUdpInfo(d, o, from, to) \in Deeds(d)
           /\ \A k \in {"latest", "confirmed", "first", "session"} :
                 SendUdpInfo(d, o, from, to).m[k] = o.m[k]
<1> DEFINE target == InfoTarget(d, to)
           info == [kind |-> "udp_info", by |-> d, hop |-> NextHop(d, target), from |-> from,
                    to |-> target, endpoint |-> UdpInfoEndpoint(d, o.m, from)]
           told == IF from = d THEN o.m.told \union {<<"udp", target>>} ELSE o.m.told
<1>1. CASE ~ShouldSendUdpInfo(d, o.m, from, target)
  BY <1>1 DEF SendUdpInfo
<1>2. CASE ShouldSendUdpInfo(d, o.m, from, target)
  <2>1. target \in Node /\ target # d
    BY <1>2, Targeted DEF ShouldSendUdpInfo
  <2>2. NextHop(d, target) \in Node /\ Adjacent(NextHop(d, target), d)
    BY <2>1 DEF Roads
  <2>3. o.m \in GoodMem(d)
    BY DEF Deeds
  <2>4. info \in UdpInfo /\ (info.endpoint \in Own(info.from) \/ Adjacent(info.hop, info.from))
    <3>1. CASE from = d
      BY <2>1, <2>2, <3>1 DEF UdpInfo, UdpInfoEndpoint, Private, Roads
    <3>2. CASE from # d
      <4>1. o.m.latest[from] \in Own(from) /\ o.m.latest[from] \in Int
        BY <2>3, <3>2 DEF GoodMem, MemType, Others
      <4> QED BY <2>1, <2>2, <3>2, <4>1 DEF UdpInfo, UdpInfoEndpoint
    <3> QED BY <3>1, <3>2
  <2>5. info \in GoodLetter
    BY <2>4 DEF GoodLetter
  <2>6. PICK p : p = [o EXCEPT !.mail = Append(@, info)]
    OBVIOUS
  <2>7. p \in Deeds(d) /\ p.m = o.m
    BY <2>5, <2>6, Mails DEF Deeds
  <2>8. told \in SUBSET ({"udp", "mtu", "key"} \X Node)
    BY <2>1, <2>3 DEF GoodMem, MemType
  <2>9. PICK m : m = [o.m EXCEPT !.told = told]
    OBVIOUS
  <2>10. m \in GoodMem(d) /\ \A k \in {"latest", "confirmed", "first", "session"} : m[k] = o.m[k]
    BY <2>3, <2>8, <2>9, SetTold DEF GoodMem, MemType
  <2>11. SendUdpInfo(d, o, from, to) = [p EXCEPT !.m = m]
    BY <1>2, <2>3, <2>6, <2>9 DEF SendUdpInfo, Deeds, GoodMem, MemType
  <2> QED BY <2>7, <2>10, <2>11, Remembers DEF Deeds
<1> QED BY <1>1, <1>2

(* The size that is passed on is no larger than the one that came, nor     *)
(* than what is known of the way back.                                     *)
LEMMA BestIsBound ==
    ASSUME Roads, NEW d \in Node, NEW from \in Node, NEW mtu \in Int, mtu <= DefaultMtu
    PROVE  /\ BestMtu(d, from, mtu) \in Int /\ BestMtu(d, from, mtu) <= DefaultMtu
           /\ (d # from /\ NextHop(d, from) = from /\ Fixed(d, from))
                 => BestMtu(d, from, mtu) <= setting.fixed[d][from]
<1>1. PICK via : via = InfoTarget(d, from)
  OBVIOUS
<1>2. PICK hop : hop = NextHop(d, via)
  OBVIOUS
<1>3. via \in Node /\ hop \in Node
  BY <1>1, <1>2, Targeted DEF Roads
<1>4. \A e \in Node : Fixed(d, e) =>
          setting.fixed[d][e] \in Int /\ setting.fixed[d][e] <= DefaultMtu
  BY DEF Roads, Fixed
<1>5. BestMtu(d, from, mtu) =
        IF from = d THEN mtu
        ELSE IF Fixed(d, from) /\ ViaOf(d, from) = d THEN setting.fixed[d][from]
        ELSE IF Fixed(d, via) THEN Smaller(mtu, setting.fixed[d][via])
        ELSE IF Fixed(d, hop) THEN Smaller(mtu, setting.fixed[d][hop])
        ELSE mtu
  BY <1>1, <1>2 DEF BestMtu
<1>6. \A b \in Int : Smaller(mtu, b) \in Int /\ Smaller(mtu, b) <= mtu /\ Smaller(mtu, b) <= b
  BY DEF Smaller
<1>7. DefaultMtu \in Int
  BY DEF Roads
<1>8. BestMtu(d, from, mtu) \in Int /\ BestMtu(d, from, mtu) <= DefaultMtu
  <2>1. \A b \in Int : Smaller(mtu, b) <= DefaultMtu
    BY <1>6, <1>7
  <2> QED BY <1>3, <1>4, <1>5, <1>6, <2>1
<1>9. ASSUME d # from, NextHop(d, from) = from, Fixed(d, from)
      PROVE  BestMtu(d, from, mtu) <= setting.fixed[d][from]
  <2>1. ViaOf(d, from) \in {d, from}
    BY <1>9 DEF Roads
  <2>2. CASE ViaOf(d, from) = d
    BY <1>4, <1>5, <1>9, <2>2
  <2>3. CASE ViaOf(d, from) # d
    <3>1. via = from
      BY <1>1, <2>1, <2>3 DEF InfoTarget
    <3> QED BY <1>4, <1>5, <1>6, <1>9, <2>3, <3>1
  <2> QED BY <2>2, <2>3
<1> QED BY <1>8, <1>9

LEMMA TellsSizes ==
    ASSUME Roads, NEW d \in Node, NEW o \in Deeds(d), NEW from \in Node, NEW to \in Node,
           NEW mtu \in Int, mtu <= DefaultMtu
    PROVE  /\ SendMtuInfo(d, o, from, to, mtu) \in Deeds(d)
           /\ SendMtuInfo(d, o, from, to, mtu).m.latest = o.m.latest
<1> DEFINE info == [kind |-> "mtu_info", by |-> d, hop |-> NextHop(d, to), from |-> from,
                    to |-> to, mtu |-> BestMtu(d, from, mtu)]
           told == IF from = d THEN o.m.told \union {<<"mtu", to>>} ELSE o.m.told
<1>1. PICK silent \in BOOLEAN :
          silent <=> (to = d \/ (from = d /\ (Adjacent(d, to) \/ <<"mtu", to>> \in o.m.told)))
  OBVIOUS
<1>2. CASE silent
  BY <1>1, <1>2 DEF SendMtuInfo
<1>3. CASE ~silent
  <2>1. NextHop(d, to) \in Node
    BY DEF Roads
  <2>2. o.m \in GoodMem(d)
    BY DEF Deeds
  <2>3. info \in MtuInfo
    BY <2>1, BestIsBound DEF MtuInfo
  <2>4. SizeOK(info)
    BY BestIsBound DEF SizeOK
  <2>5. info \in GoodLetter
    BY <2>3, <2>4 DEF GoodLetter
  <2>6. PICK p : p = [o EXCEPT !.mail = Append(@, info)]
    OBVIOUS
  <2>7. p \in Deeds(d) /\ p.m = o.m
    BY <2>5, <2>6, Mails DEF Deeds
  <2>8. told \in SUBSET ({"udp", "mtu", "key"} \X Node)
    BY <2>2 DEF GoodMem, MemType
  <2>9. PICK m : m = [o.m EXCEPT !.told = told]
    OBVIOUS
  <2>10. m \in GoodMem(d) /\ m.latest = o.m.latest
    BY <2>2, <2>8, <2>9, SetTold DEF GoodMem, MemType
  <2>11. SendMtuInfo(d, o, from, to, mtu) = [p EXCEPT !.m = m]
    BY <1>1, <1>3, <2>2, <2>6, <2>9 DEF SendMtuInfo, Deeds, GoodMem, MemType
  <2> QED BY <2>7, <2>10, <2>11, Remembers DEF Deeds
<1> QED BY <1>2, <1>3

(* What a letter is, by its kind                                           *)
LEMMA Kinds ==
    ASSUME NEW i \in GoodLetter
    PROVE  /\ i.kind = "udp_info" => i \in UdpInfo /\ (i.endpoint \in Own(i.from) \/ Adjacent(i.hop, i.from))
           /\ i.kind = "mtu_info" => i \in MtuInfo /\ SizeOK(i)
           /\ i.kind = "request" => i \in KeyRequest /\ i.src # i.dst
           /\ i.kind = "answer" => /\ i \in KeyAnswer /\ i.src # i.dst
                                   /\ i.address = NoAddress \/ i.address \in Own(i.src)
           /\ i.kind = "sptps" => i \in Record /\ i.src # i.dst
           /\ i.kind \in {"udp_info", "mtu_info", "request", "answer", "sptps"}
<1>1. \A j \in UdpInfo : j.kind = "udp_info"
  BY DEF UdpInfo
<1>2. \A j \in MtuInfo : j.kind = "mtu_info"
  BY DEF MtuInfo
<1>3. \A j \in KeyRequest : j.kind = "request"
  BY DEF KeyRequest
<1>4. \A j \in KeyAnswer : j.kind = "answer"
  BY DEF KeyAnswer
<1>5. \A j \in Record : j.kind = "sptps"
  BY DEF Record
<1> QED BY <1>1, <1>2, <1>3, <1>4, <1>5 DEF GoodLetter

LEMMA TakesUdpInfo ==
    ASSUME Roads, NEW d \in Node, NEW o \in Deeds(d), NEW i \in Inbox(d), i.kind = "udp_info"
    PROVE  TakeUdpInfo(d, o, i) \in Deeds(d)
<1>1. i \in UdpInfo /\ (i.endpoint \in Own(i.from) \/ Adjacent(i.hop, i.from)) /\ i.hop = d
  BY Kinds DEF Inbox
<1>2. i.from \in Node /\ i.to \in Node /\ i.endpoint \in Int
  BY <1>1 DEF UdpInfo
<1>3. PICK learn \in BOOLEAN : learn <=> i.from # d /\ ~Adjacent(d, i.from) /\ ~o.m.confirmed[i.from]
  OBVIOUS
<1>4. PICK p : p = IF learn THEN UpdateNodeUdp(o, i.from, i.endpoint) ELSE o
  OBVIOUS
<1>5. p \in Deeds(d)
  <2>1. CASE learn
    <3>1. i.from \in Others(d) /\ i.endpoint \in Own(i.from) \intersect Int
      BY <1>1, <1>2, <1>3, <2>1 DEF Others
    <3> QED BY <1>4, <2>1, <3>1, Updates
  <2>2. CASE ~learn
    BY <1>4, <2>2
  <2> QED BY <2>1, <2>2
<1>6. SendUdpInfo(d, p, i.from, i.to) \in Deeds(d)
  BY <1>2, <1>5, TellsAddresses
<1>7. TakeUdpInfo(d, o, i) = IF ViaOf(d, i.from) # i.from THEN o ELSE SendUdpInfo(d, p, i.from, i.to)
  BY <1>3, <1>4 DEF TakeUdpInfo
<1> QED BY <1>6, <1>7

LEMMA TakesMtuInfo ==
    ASSUME Roads, NEW d \in Node, NEW o \in Deeds(d), NEW i \in Inbox(d), i.kind = "mtu_info"
    PROVE  TakeMtuInfo(d, o, i) \in Deeds(d)
<1>1. i \in MtuInfo /\ SizeOK(i)
  BY Kinds DEF Inbox
<1>2. i.from \in Node /\ i.to \in Node /\ i.mtu \in Int /\ i.mtu <= DefaultMtu
  BY <1>1 DEF MtuInfo, SizeOK
<1>3. PICK learn \in BOOLEAN : learn <=> i.from # d /\ ~Fixed(d, i.from)
  OBVIOUS
<1>4. PICK p : p = IF learn THEN [o EXCEPT !.m.mtu[i.from] = i.mtu] ELSE o
  OBVIOUS
<1>5. p \in Deeds(d)
  <2>1. CASE learn
    <3>1. i.from \in Others(d)
      BY <1>2, <1>3, <2>1 DEF Others
    <3>2. PICK m : m = [o.m EXCEPT !.mtu[i.from] = i.mtu]
      OBVIOUS
    <3>3. m \in GoodMem(d)
      BY <1>2, <3>1, <3>2, SetMtu DEF Deeds
    <3>4. p = [o EXCEPT !.m = m]
      BY <1>4, <2>1, <3>2 DEF Deeds
    <3> QED BY <3>3, <3>4, Remembers
  <2>2. CASE ~learn
    BY <1>4, <2>2
  <2> QED BY <2>1, <2>2
<1>6. SendMtuInfo(d, p, i.from, i.to, i.mtu) \in Deeds(d)
  BY <1>2, <1>5, TellsSizes
<1>7. TakeMtuInfo(d, o, i) = SendMtuInfo(d, p, i.from, i.to, i.mtu)
  BY <1>3, <1>4 DEF TakeMtuInfo
<1> QED BY <1>6, <1>7

(* What a daemon puts in the air                                           *)
LEMMA Flies ==
    ASSUME Ground, Roads, NEW d \in Node, NEW o \in Deeds(d), NEW src \in Node,
           NEW dst \in Node \union {Null}, NEW key \in Nat \ {0}, NEW form \in {"modern", "legacy"},
           NEW kind \in {"packet", "request", "reply"}, NEW to \in Int,
           src # dst, dst = Null => d = src, form = "legacy" => dst = Null
    PROVE  SendAir(o, Datagram(d, form, src, dst, key, kind, to)) \in Deeds(d)
<1>1. PICK g : g = Datagram(d, form, src, dst, key, kind, to)
  OBVIOUS
<1>2. g \in AirType
  BY <1>1 DEF Datagram, AirType, Roads
<1>3. g \in GoodAir
  BY <1>1, <1>2 DEF Datagram, GoodAir, Ground
<1> QED BY <1>1, <1>3, SendsAir

LEMMA Asks ==
    ASSUME Roads, NEW d \in Node, NEW o \in Deeds(d), NEW e \in Others(d)
    PROVE  Ask(d, o, e) \in Deeds(d)
<1> DEFINE question == [kind |-> "request", by |-> d, hop |-> NextHop(d, e), src |-> d, dst |-> e]
           told == o.m.told \union {<<"key", e>>}
<1>1. PICK silent \in BOOLEAN : silent <=> (<<"key", e>> \in o.m.told \/ ~Modern(d, e))
  OBVIOUS
<1>2. CASE silent
  BY <1>1, <1>2 DEF Ask
<1>3. CASE ~silent
  <2>1. o.m \in GoodMem(d) /\ e \in Node /\ e # d
    BY DEF Deeds, Others
  <2>2. question \in GoodLetter
    <3>1. question \in KeyRequest /\ question.src # question.dst
      BY <2>1 DEF KeyRequest, Roads
    <3> QED BY <3>1 DEF GoodLetter
  <2>3. PICK p : p = [o EXCEPT !.mail = Append(@, question)]
    OBVIOUS
  <2>4. p \in Deeds(d) /\ p.m = o.m
    BY <2>2, <2>3, Mails DEF Deeds
  <2>5. told \in SUBSET ({"udp", "mtu", "key"} \X Node)
    BY <2>1 DEF GoodMem, MemType
  <2>6. PICK m : m = [o.m EXCEPT !.told = told]
    OBVIOUS
  <2>7. m \in GoodMem(d)
    BY <2>1, <2>5, <2>6, SetTold
  <2>8. Ask(d, o, e) = [p EXCEPT !.m = m]
    BY <1>1, <1>3, <2>1, <2>3, <2>6 DEF Ask, Deeds, GoodMem, MemType
  <2> QED BY <2>4, <2>7, <2>8, Remembers
<1> QED BY <1>2, <1>3

(* Carrying a record over a meta connection                                *)
LEMMA Carries ==
    ASSUME Roads, NEW d \in Node, NEW o \in Deeds(d), NEW src \in Node, NEW dst \in Node,
           NEW key \in Nat \ {0}, src # dst, NEW hop \in Node
    PROVE  [o EXCEPT !.mail = Append(@, Carried(d, src, dst, key, hop))] \in Deeds(d)
<1>1. PICK i : i = Carried(d, src, dst, key, hop)
  OBVIOUS
<1>2. i \in Record /\ i.src # i.dst
  BY <1>1 DEF Carried, Record
<1>3. i \in GoodLetter
  BY <1>2 DEF GoodLetter
<1> QED BY <1>1, <1>3, Mails

LEMMA Relays ==
    ASSUME Roads, NEW d \in Node, NEW m \in GoodMem(d), NEW owner \in Others(d), NEW probe
    PROVE  UdpRelay(d, m, owner, probe) \in Others(d)
<1>1. NextHop(d, owner) \in Others(d) /\ ViaOf(d, owner) \in Node
  BY DEF Roads, Others
<1> QED BY <1>1 DEF UdpRelay, Others

LEMMA SendsOwn ==
    ASSUME Ground, Roads, NEW d \in Node, NEW o \in Deeds(d), NEW e \in Others(d),
           NEW kind \in {"packet", "request", "reply"}
    PROVE  OwnRecord(d, o, e, kind) \subseteq Deeds(d)
<1>1. PICK isProbe : isProbe = (kind # "packet")
  OBVIOUS
<1>2. PICK relay : relay = UdpRelay(d, o.m, e, isProbe)
  OBVIOUS
<1>3. PICK dst : dst = IF relay = e THEN Null ELSE e
  OBVIOUS
<1>4. PICK carried : carried = [o EXCEPT !.mail = Append(@, Carried(d, d, e, o.m.session[e], NextHop(d, e)))]
  OBVIOUS
<1>5. OwnRecord(d, o, e, kind) =
        IF o.m.session[e] = 0 THEN {IF isProbe THEN o ELSE Ask(d, o, e)}
        ELSE IF isProbe /\ TcpOnly({d, relay}) THEN {o}
        ELSE IF ~isProbe /\ NeedsTcp(d, o.m, relay) THEN {IF Adjacent(d, e) THEN o ELSE carried}
        ELSE {SendAir(o, Datagram(d, "modern", d, dst, o.m.session[e], kind, a)) : a \in Targets(o.m, relay)}
  BY <1>1, <1>2, <1>3, <1>4 DEF OwnRecord
<1>6. o.m \in GoodMem(d) /\ o.m.session[e] \in Nat /\ e \in Node /\ e # d
  BY DEF Deeds, GoodMem, MemType, Others
<1>7. relay \in Others(d)
  BY <1>2, <1>6, Relays
<1>8. CASE o.m.session[e] = 0
  <2>1. Ask(d, o, e) \in Deeds(d)
    BY Asks
  <2> QED BY <1>5, <1>8, <2>1
<1>9. CASE o.m.session[e] # 0
  <2>1. carried \in Deeds(d)
    BY <1>4, <1>6, <1>9, Carries DEF Roads
  <2>2. ASSUME NEW a \in Targets(o.m, relay)
        PROVE  SendAir(o, Datagram(d, "modern", d, dst, o.m.session[e], kind, a)) \in Deeds(d)
    <3>1. a \in Int
      BY <1>6, <1>7, <2>2 DEF Targets, Roads, GoodMem, MemType, Others
    <3>2. dst \in Node \union {Null} /\ d # dst
      BY <1>3, <1>6 DEF Roads
    <3>3. PICK form \in {"modern", "legacy"} : form = "modern"
      OBVIOUS
    <3> QED BY <1>6, <1>9, <3>1, <3>2, <3>3, Flies
  <2> QED BY <1>5, <1>9, <2>1, <2>2
<1> QED BY <1>8, <1>9

LEMMA SendsLegacy ==
    ASSUME Ground, Roads, NEW d \in Node, NEW o \in Deeds(d), NEW e \in Others(d),
           NEW kind \in {"packet", "request", "reply"}
    PROVE  OwnLegacy(d, o, e, kind) \subseteq Deeds(d)
<1>1. o.m \in GoodMem(d) /\ o.m.session[e] \in Nat
  BY DEF Deeds, GoodMem, MemType
<1>2. CASE o.m.session[e] = 0
  BY <1>2 DEF OwnLegacy
<1>3. CASE o.m.session[e] # 0
  <2>1. ASSUME NEW a \in Targets(o.m, e)
        PROVE  SendAir(o, Datagram(d, "legacy", d, Null, o.m.session[e], kind, a)) \in Deeds(d)
    <3>1. a \in Int
      BY <1>1, <2>1 DEF Targets, Roads, GoodMem, MemType, Others
    <3>2. PICK dst \in Node \union {Null} : dst = Null
      OBVIOUS
    <3>3. d # dst
      BY <3>2 DEF Roads
    <3>4. PICK form \in {"modern", "legacy"} : form = "legacy"
      OBVIOUS
    <3> QED BY <1>1, <1>3, <3>1, <3>2, <3>3, <3>4, Flies
  <2> QED BY <1>3, <2>1 DEF OwnLegacy
<1> QED BY <1>2, <1>3

LEMMA Forwards ==
    ASSUME Ground, Roads, NEW d \in Node, NEW o \in Deeds(d), NEW src \in Node, NEW dst \in Others(d),
           src # dst, NEW key \in Nat \ {0}, NEW kind \in {"packet", "request", "reply"}
    PROVE  ForwardRecord(d, o, src, dst, key, kind) \in Deeds(d)
<1>1. PICK relay : relay = UdpRelay(d, o.m, dst, FALSE)
  OBVIOUS
<1>2. o.m \in GoodMem(d) /\ dst \in Node /\ dst # d /\ dst # Null
  BY DEF Deeds, Others, Roads
<1>3. relay \in Others(d)
  BY <1>1, <1>2, Relays
<1>4. o.m.first[relay] \in Int
  BY <1>2, <1>3 DEF GoodMem, MemType
<1>5. [o EXCEPT !.mail = Append(@, Carried(d, src, dst, key, NextHop(d, dst)))] \in Deeds(d)
  BY <1>2, Carries DEF Roads
<1>6. SendAir(o, Datagram(d, "modern", src, dst, key, kind, o.m.first[relay])) \in Deeds(d)
  <2>1. PICK form \in {"modern", "legacy"} : form = "modern"
    OBVIOUS
  <2> QED BY <1>2, <1>4, <2>1, Flies
<1> QED BY <1>1, <1>5, <1>6 DEF ForwardRecord

(* The least of some daemons is one of them.                               *)
LEMMA LeastIsOne ==
    ASSUME Roads, NEW S \in SUBSET Node, S # {}
    PROVE  Least(S) \in S
<1>1. S \in SUBSET Nat
  BY DEF Roads
<1>2. PICK x \in S : \A y \in S : x <= y
  BY <1>1, LeastNat
<1> QED BY <1>2 DEF Least

LEMMA SeenSource ==
    ASSUME Roads, NEW d \in Node, NEW m \in GoodMem(d), NEW a
    PROVE  UdpSourceNode(m, d, a) \in Others(d) \union {Null}
<1>1. PICK named : named = {p[2] : p \in {q \in m.byAddress : q[1] = a}}
  OBVIOUS
<1>2. PICK latest : latest = {e \in Others(d) : m.latest[e] = a}
  OBVIOUS
<1>3. named \in SUBSET Others(d) /\ latest \in SUBSET Others(d) /\ Others(d) \subseteq Node
  BY <1>1, <1>2 DEF GoodMem, MemType, Others
<1>4. named # {} => Least(named) \in Others(d)
  <2>1. named \in SUBSET Node
    BY <1>3
  <2> QED BY <1>3, <2>1, LeastIsOne
<1>5. latest # {} => Least(latest) \in Others(d)
  <2>1. latest \in SUBSET Node
    BY <1>3
  <2> QED BY <1>3, <2>1, LeastIsOne
<1> QED BY <1>1, <1>2, <1>4, <1>5 DEF UdpSourceNode

LEMMA Keyed ==
    ASSUME NEW d \in Node, NEW m \in GoodMem(d), NEW e
    PROVE  HasSession(m, e) => e \in Others(d) /\ m.session[e] \in Nat \ {0}
BY DEF HasSession, GoodMem, MemType

LEMMA NamedSource ==
    ASSUME NEW d \in Node, NEW m \in GoodMem(d), NEW g
    PROVE  VerifyDirect(m, g) \in Others(d) \union {Null}
BY Keyed DEF VerifyDirect, Opens

LEMMA TriedSource ==
    ASSUME Roads, NEW d \in Node, NEW m \in GoodMem(d), NEW g
    PROVE  /\ TryHarder(d, m, g).source \in Others(d) \union {Null}
           /\ TryHarder(d, m, g).hard \in BOOLEAN
           /\ TryHarder(d, m, g).source # Null => g.form = "legacy"
<1> DEFINE candidates == {e \in Others(d) : ~Modern(d, e) /\ m.session[e] # 0
                                            /\ (setting.edge[e] = g.from \/ ~m.hard)}
           found == {e \in candidates : g.form = "legacy" /\ e = g.src /\ Opens(m, e, g.key)}
           tried == {e \in candidates : \A f \in found : e <= f}
           hard == m.hard \/ \E e \in tried : setting.edge[e] # g.from
<1>1. TryHarder(d, m, g) = [source |-> IF found = {} THEN Null ELSE Least(found), hard |-> hard]
  BY DEF TryHarder
<1>2. found \in SUBSET Others(d) /\ found \in SUBSET Node
  BY DEF Others
<1>3. found # {} => Least(found) \in found
  <2> HIDE DEF found
  <2> QED BY <1>2, LeastIsOne
<1>4. found # {} => Least(found) \in Others(d) /\ g.form = "legacy"
  BY <1>2, <1>3
<1>5. m.hard \in BOOLEAN
  BY DEF GoodMem, MemType
<1>6. hard \in BOOLEAN
  <2> HIDE DEF tried
  <2> QED BY <1>5
<1> HIDE DEF found, hard
<1> QED BY <1>1, <1>4, <1>6

(* Telling changes neither keys nor addresses.                             *)
LEMMA Tells ==
    ASSUME Roads, NEW d \in Node, NEW o \in Deeds(d), NEW g \in GoodAir, NEW source
    PROVE  /\ Tell(d, o, g, source) \in Deeds(d)
           /\ Tell(d, o, g, source).m.session = o.m.session
           /\ g.dst = Null => Tell(d, o, g, source) = o
<1>1. g.src \in Node
  BY DEF GoodAir, AirType
<1>2. SendUdpInfo(d, o, d, g.src) \in Deeds(d) /\ SendUdpInfo(d, o, d, g.src).m.session = o.m.session
  BY <1>1, TellsAddresses
<1> QED BY <1>2 DEF Tell

LEMMA Probes ==
    ASSUME Ground, Roads, NEW d \in Node, NEW o \in Deeds(d), NEW g \in GoodAir, NEW e \in Others(d),
           o.m.session[e] # 0
    PROVE  Probe(d, o, g, e) \subseteq Deeds(d)
<1>1. PICK reply \in {"packet", "request", "reply"} : reply = "reply"
  OBVIOUS
<1>2. ApplyProbeReply(d, o, e) \in Deeds(d)
  BY Replies
<1>3. OwnRecord(d, o, e, reply) \subseteq Deeds(d)
  BY SendsOwn
<1>4. SendAir(o, Datagram(d, g.form, d, Null, o.m.session[e], reply, g.from)) \in Deeds(d)
  <2>1. g.form \in {"modern", "legacy"} /\ g.from \in Int
    BY DEF GoodAir, AirType
  <2>2. o.m.session[e] \in Nat \ {0}
    BY DEF Deeds, GoodMem, MemType
  <2>3. PICK dst \in Node \union {Null} : dst = Null
    OBVIOUS
  <2>4. d # dst
    BY <2>3 DEF Roads
  <2> QED BY <2>1, <2>2, <2>3, <2>4, Flies
<1> QED BY <1>1, <1>2, <1>3, <1>4 DEF Probe

(* A datagram that was made for this daemon was sent by its maker.         *)
LEMMA FromMaker ==
    ASSUME NEW g \in GoodAir, g.dst = Null
    PROVE  g.from \in Own(g.src) \intersect Int
BY DEF GoodAir, AirType, Own

LEMMA AfterPackets ==
    ASSUME Roads, NEW d \in Node, NEW o \in Deeds(d), NEW g \in GoodAir, g.src \in Others(d)
    PROVE  /\ AfterPacket(d, o, g) \in Deeds(d)
           /\ g.dst = Null => AfterPacket(d, o, g).m.latest[g.src] = g.from
<1>1. CASE g.dst = Null
  BY <1>1, FromMaker, Updates DEF AfterPacket
<1>2. CASE g.dst # Null
  <2>1. PICK sender : sender = UdpSourceNode(o.m, d, g.from)
    OBVIOUS
  <2>2. o.m \in GoodMem(d)
    BY DEF Deeds
  <2>3. sender = Null \/ sender \in Node
    BY <2>1, <2>2, SeenSource DEF Others
  <2>4. sender \in Node => SendMtuInfo(d, o, d, sender, DefaultMtu) \in Deeds(d)
    <3>1. DefaultMtu \in Int /\ DefaultMtu <= DefaultMtu
      BY DEF Roads
    <3> QED BY <3>1, TellsSizes
  <2> QED BY <1>2, <2>1, <2>3, <2>4 DEF AfterPacket
<1> QED BY <1>1, <1>2

LEMMA AsksUnkeyed ==
    ASSUME Roads, NEW d \in Node, NEW o \in Deeds(d), NEW g \in GoodAir, NEW source \in Others(d)
    PROVE  AskWhenUnkeyed(d, o, g, source) \in Deeds(d)
<1>1. Ask(d, o, source) \in Deeds(d)
  BY Asks
<1>2. g.src # d => Ask(d, o, g.src) \in Deeds(d)
  <2>1. g.src \in Node
    BY DEF GoodAir, AirType
  <2> QED BY <2>1, Asks DEF Others
<1> QED BY <1>1, <1>2 DEF AskWhenUnkeyed

LEMMA HandlesEnvelope ==
    ASSUME Ground, Roads, NEW d \in Node, NEW o \in Deeds(d), NEW g \in GoodAir, NEW source \in Others(d)
    PROVE  HandleEnvelope(d, o, g, source) \subseteq Deeds(d)
<1>1. PICK told : told = Tell(d, o, g, source)
  OBVIOUS
<1>2. told \in Deeds(d) /\ told.m.session = o.m.session
  BY <1>1, Tells
<1>3. /\ g.src \in Node /\ g.dst \in Node \union {Null} /\ g.src # g.dst /\ g.key \in Nat \ {0}
      /\ g.kind \in {"packet", "request", "reply"}
  BY DEF GoodAir, AirType
<1>4. o.m \in GoodMem(d)
  BY DEF Deeds
<1>5. CASE g.dst \notin {Null, d}
  <2>1. g.dst \in Others(d)
    BY <1>3, <1>5 DEF Others
  <2>2. ForwardRecord(d, told, g.src, g.dst, g.key, g.kind) \in Deeds(d)
    BY <1>2, <1>3, <2>1, Forwards
  <2> QED BY <1>1, <1>5, <2>2 DEF HandleEnvelope
<1>6. CASE g.dst \in {Null, d}
  <2>1. CASE ~HasSession(o.m, g.src)
    <3>1. AskWhenUnkeyed(d, told, g, source) \in Deeds(d)
      BY <1>2, AsksUnkeyed
    <3> QED BY <1>1, <1>6, <2>1, <3>1 DEF HandleEnvelope
  <2>2. CASE HasSession(o.m, g.src)
    <3>1. g.src \in Others(d) /\ told.m.session[g.src] # 0
      BY <1>2, <1>4, <2>2, Keyed
    <3>2. Probe(d, told, g, g.src) \subseteq Deeds(d)
      BY <1>2, <3>1, Probes
    <3>3. AfterPacket(d, told, g) \in Deeds(d)
      BY <1>2, <3>1, AfterPackets
    <3> QED BY <1>1, <1>2, <1>6, <2>2, <3>2, <3>3 DEF HandleEnvelope
  <2> QED BY <2>1, <2>2
<1> QED BY <1>5, <1>6

LEMMA HandlesLegacy ==
    ASSUME Ground, Roads, NEW d \in Node, NEW o \in Deeds(d), NEW g \in GoodAir, g.dst = Null,
           NEW source \in Others(d)
    PROVE  HandleLegacy(d, o, g, source) \subseteq Deeds(d)
<1>1. CASE g.src # source \/ ~Opens(o.m, source, g.key)
  BY <1>1 DEF HandleLegacy
<1>2. CASE ~(g.src # source \/ ~Opens(o.m, source, g.key))
  <2>1. g.from \in Own(source) \intersect Int
    BY <1>2, FromMaker
  <2>2. o.m.session[source] # 0
    BY <1>2 DEF Opens, HasSession
  <2>3. Probe(d, o, g, source) \subseteq Deeds(d)
    BY <2>2, Probes
  <2>4. \A p \in Deeds(d) : UpdateNodeUdp(p, source, g.from) \in Deeds(d)
    BY <2>1, Updates
  <2> QED BY <1>2, <2>3, <2>4 DEF HandleLegacy
<1> QED BY <1>1, <1>2

LEMMA HandlesDatagram ==
    ASSUME AddressIInv, NEW d \in Node, NEW g \in GoodAir
    PROVE  HandleDatagram(d, g) \subseteq Deeds(d)
<1>1. Ground /\ Roads
  BY KnownRoads DEF AddressIInv
<1>2. PICK o : o = Start(d)
  OBVIOUS
<1>3. o \in Deeds(d) /\ o.m \in GoodMem(d)
  BY <1>2, StartsWell DEF Deeds
<1>4. PICK named : named = IF UdpSourceNode(o.m, d, g.from) # Null THEN UdpSourceNode(o.m, d, g.from)
                           ELSE VerifyDirect(o.m, g)
  OBVIOUS
<1>5. named \in Others(d) \union {Null}
  BY <1>1, <1>3, <1>4, SeenSource, NamedSource
<1>6. PICK harder : harder = TryHarder(d, o.m, g)
  OBVIOUS
<1>7. /\ harder.source \in Others(d) \union {Null} /\ harder.hard \in BOOLEAN
      /\ harder.source # Null => g.form = "legacy"
  BY <1>1, <1>3, <1>6, TriedSource
<1>8. PICK p : p = IF named # Null THEN o ELSE [o EXCEPT !.m.hard = harder.hard]
  OBVIOUS
<1>9. p \in Deeds(d)
  <2>1. PICK m : m = [o.m EXCEPT !.hard = harder.hard]
    OBVIOUS
  <2>2. m \in GoodMem(d)
    BY <1>3, <1>7, <2>1, SetHard
  <2>3. [o EXCEPT !.m.hard = harder.hard] = [o EXCEPT !.m = m]
    BY <1>3, <2>1 DEF Deeds
  <2> QED BY <1>3, <1>8, <2>2, <2>3, Remembers
<1>10. PICK source : source = IF named # Null THEN named ELSE harder.source
  OBVIOUS
<1>11. source \in Others(d) \union {Null}
  BY <1>5, <1>7, <1>10
<1>12. HandleDatagram(d, g) = IF source = Null THEN {p}
                              ELSE IF g.form = "modern" THEN HandleEnvelope(d, p, g, source)
                              ELSE HandleLegacy(d, p, g, source)
  BY <1>2, <1>4, <1>6, <1>8, <1>10 DEF HandleDatagram
<1>13. source # Null => HandleEnvelope(d, p, g, source) \subseteq Deeds(d)
  BY <1>1, <1>9, <1>11, HandlesEnvelope
<1>14. source # Null /\ g.form # "modern" => HandleLegacy(d, p, g, source) \subseteq Deeds(d)
  <2>1. g.form # "modern" => g.dst = Null
    BY DEF GoodAir, AirType
  <2> QED BY <1>1, <1>9, <1>11, <2>1, HandlesLegacy
<1> QED BY <1>9, <1>12, <1>13, <1>14

(* A packet from a daemon with which there are keys                        *)
LEMMA TakesFresh ==
    ASSUME AddressIInv, NEW d \in Node, NEW g \in GoodAir, g.form = "modern", g.dst = Null,
           g.kind = "packet", g.src # d, g.key = mem[d].session[g.src], NEW o \in HandleDatagram(d, g)
    PROVE  o.m.latest[g.src] = g.from
<1>1. Ground /\ Roads
  BY KnownRoads DEF AddressIInv
<1>2. PICK start : start = Start(d)
  OBVIOUS
<1>3. start \in Deeds(d) /\ start.m \in GoodMem(d) /\ start.m = mem[d]
  BY <1>2, StartsWell DEF Deeds, Start
<1>4. g.src \in Others(d) /\ g.key # 0 /\ g.src # Null
  BY <1>1 DEF GoodAir, AirType, Others, Roads
<1>5. Opens(start.m, g.src, g.key) /\ HasSession(start.m, g.src)
  BY <1>3, <1>4 DEF Opens, HasSession, GoodMem, MemType
<1>6. PICK named : named = IF UdpSourceNode(start.m, d, g.from) # Null THEN UdpSourceNode(start.m, d, g.from)
                           ELSE VerifyDirect(start.m, g)
  OBVIOUS
<1>7. named # Null
  BY <1>4, <1>5, <1>6 DEF VerifyDirect
<1>8. HandleDatagram(d, g) = HandleEnvelope(d, start, g, named)
  BY <1>2, <1>6, <1>7 DEF HandleDatagram
<1>9. Tell(d, start, g, named) = start
  BY <1>1, <1>3, Tells
<1>10. HandleEnvelope(d, start, g, named) = {AfterPacket(d, start, g)}
  BY <1>5, <1>9 DEF HandleEnvelope
<1>11. AfterPacket(d, start, g).m.latest[g.src] = g.from
  BY <1>1, <1>3, <1>4, AfterPackets
<1> QED BY <1>8, <1>10, <1>11

LEMMA TakesCarried ==
    ASSUME Ground, Roads, NEW d \in Node, NEW o \in Deeds(d), NEW c \in Inbox(d), c.kind = "sptps"
    PROVE  TakeCarried(d, o, c) \in Deeds(d)
<1>1. c.src \in Node /\ c.dst \in Node /\ c.src # c.dst /\ c.key \in Nat \ {0}
  BY Kinds DEF Inbox, Record
<1>2. PICK told : told = SendUdpInfo(d, o, d, c.src)
  OBVIOUS
<1>3. told \in Deeds(d)
  BY <1>1, <1>2, TellsAddresses
<1>4. CASE c.dst # d
  <2>1. PICK kind \in {"packet", "request", "reply"} : kind = "packet"
    OBVIOUS
  <2>2. c.dst \in Others(d)
    BY <1>1, <1>4 DEF Others
  <2>3. PICK p : p = IF ViaOf(d, c.dst) = d THEN told ELSE o
    OBVIOUS
  <2>4. p \in Deeds(d)
    BY <1>3, <2>3
  <2>5. ForwardRecord(d, p, c.src, c.dst, c.key, kind) \in Deeds(d)
    BY <1>1, <2>2, <2>4, Forwards
  <2> QED BY <1>2, <1>4, <2>1, <2>3, <2>5 DEF TakeCarried
<1>5. CASE c.dst = d
  <2>1. c.src \in Others(d)
    BY <1>1, <1>5 DEF Others
  <2>2. Ask(d, told, c.src) \in Deeds(d)
    BY <1>3, <2>1, Asks
  <2>3. SendMtuInfo(d, told, d, c.src, DefaultMtu) \in Deeds(d)
    <3>1. DefaultMtu \in Int /\ DefaultMtu <= DefaultMtu
      BY DEF Roads
    <3> QED BY <1>1, <1>3, <3>1, TellsSizes
  <2> QED BY <1>2, <1>5, <2>2, <2>3 DEF TakeCarried
<1> QED BY <1>4, <1>5

(* A new key for e and a letter                                            *)
LEMMA Rekeys ==
    ASSUME NEW d \in Node, NEW o \in Deeds(d), NEW e \in Others(d), NEW k \in Nat
    PROVE  [o EXCEPT !.m.session[e] = k] \in Deeds(d)
<1>1. PICK m : m = [o.m EXCEPT !.session[e] = k]
  OBVIOUS
<1>2. m \in GoodMem(d)
  BY <1>1, SetSession DEF Deeds
<1>3. [o EXCEPT !.m.session[e] = k] = [o EXCEPT !.m = m]
  BY <1>1 DEF Deeds
<1> QED BY <1>2, <1>3, Remembers

LEMMA TakesRequest ==
    ASSUME Roads, NEW d \in Node, NEW o \in Deeds(d), NEW q \in Inbox(d), q.kind = "request",
           q.dst = d => NewKey \in Nat
    PROVE  TakeRequest(d, o, q) \in Deeds(d)
<1>1. q \in KeyRequest /\ q.src \in Node /\ q.dst \in Node /\ q.src # q.dst
  BY Kinds DEF Inbox, KeyRequest
<1>2. PICK told : told = IF q.dst = d \/ ViaOf(d, q.dst) = d THEN SendUdpInfo(d, o, d, q.src) ELSE o
  OBVIOUS
<1>3. told \in Deeds(d)
  BY <1>1, <1>2, TellsAddresses
<1>4. CASE q.dst # d
  <2>1. PICK i : i = [q EXCEPT !.by = d, !.hop = NextHop(d, q.dst)]
    OBVIOUS
  <2>2. i \in KeyRequest /\ i.src # i.dst
    BY <1>1, <2>1 DEF KeyRequest, Roads
  <2>3. i \in GoodLetter
    BY <2>2 DEF GoodLetter
  <2>4. [told EXCEPT !.mail = Append(@, i)] \in Deeds(d)
    BY <1>3, <2>3, Mails
  <2> QED BY <1>2, <1>4, <2>1, <2>4 DEF TakeRequest
<1>5. CASE q.dst = d
  <2>1. PICK k \in Nat : k = NewKey
    BY <1>5
  <2>2. PICK i : i = [kind |-> "answer", by |-> d, hop |-> NextHop(d, q.src), src |-> d, dst |-> q.src,
                      key |-> k, address |-> NoAddress]
    OBVIOUS
  <2>3. i \in KeyAnswer /\ i.src # i.dst /\ i.address = NoAddress
    <3>1. NextHop(d, q.src) \in Node
      BY <1>1 DEF Roads
    <3>2. NoAddress \in Int
      BY DEF NoAddress
    <3> QED BY <1>1, <1>5, <2>2, <3>1, <3>2 DEF KeyAnswer
  <2>4. i \in GoodLetter
    BY <2>3 DEF GoodLetter
  <2>5. PICK p : p = [told EXCEPT !.mail = Append(@, i)]
    OBVIOUS
  <2>6. p \in Deeds(d)
    BY <1>3, <2>4, <2>5, Mails
  <2>7. q.src \in Others(d)
    BY <1>1, <1>5 DEF Others
  <2>8. [p EXCEPT !.m.session[q.src] = k] \in Deeds(d)
    BY <2>6, <2>7, Rekeys
  <2>9. TakeRequest(d, o, q) = [told EXCEPT !.mail = Append(@, i), !.m.session[q.src] = k]
    BY <1>2, <1>5, <2>1, <2>2 DEF TakeRequest
  <2>10. [told EXCEPT !.mail = Append(@, i), !.m.session[q.src] = k] = [p EXCEPT !.m.session[q.src] = k]
    BY <1>3, <2>5 DEF Deeds
  <2> QED BY <2>8, <2>9, <2>10
<1> QED BY <1>4, <1>5

LEMMA TakesAnswer ==
    ASSUME Roads, NEW d \in Node, NEW o \in Deeds(d), NEW q \in Inbox(d), q.kind = "answer"
    PROVE  TakeAnswer(d, o, q) \in Deeds(d)
<1>1. /\ q \in KeyAnswer /\ q.src \in Node /\ q.dst \in Node /\ q.src # q.dst
      /\ q.key \in Nat /\ q.address \in Int
  BY Kinds DEF Inbox, KeyAnswer
<1>2. q.address = NoAddress \/ q.address \in Own(q.src)
  BY Kinds DEF Inbox
<1>3. o.m \in GoodMem(d)
  BY DEF Deeds
<1>4. CASE q.dst # d
  <2>1. PICK address : address =
          IF q.address = NoAddress /\ d \notin {q.src, q.dst} /\ o.m.confirmed[q.dst]
          THEN o.m.latest[q.src] ELSE q.address
    OBVIOUS
  <2>2. address \in Int /\ (address = NoAddress \/ address \in Own(q.src))
    <3>1. d # q.src => o.m.latest[q.src] \in Int /\ o.m.latest[q.src] \in Own(q.src)
      BY <1>1, <1>3 DEF GoodMem, MemType, Others
    <3> QED BY <1>1, <1>2, <2>1, <3>1
  <2>3. PICK i : i = [q EXCEPT !.by = d, !.hop = NextHop(d, q.dst), !.address = address]
    OBVIOUS
  <2>4. i \in KeyAnswer /\ i.src # i.dst /\ (i.address = NoAddress \/ i.address \in Own(i.src))
    BY <1>1, <2>2, <2>3 DEF KeyAnswer, Roads
  <2>5. i \in GoodLetter
    BY <2>4 DEF GoodLetter
  <2>6. [o EXCEPT !.mail = Append(@, i)] \in Deeds(d)
    BY <2>5, Mails
  <2> QED BY <1>4, <2>1, <2>3, <2>6 DEF TakeAnswer
<1>5. CASE q.dst = d
  <2>1. q.src \in Others(d)
    BY <1>1, <1>5 DEF Others
  <2>2. PICK keyed : keyed = [o EXCEPT !.m.session[q.src] = q.key, !.m.told = @ \ {<<"key", q.src>>}]
    OBVIOUS
  <2>3. keyed \in Deeds(d)
    <3>1. PICK p : p = [o EXCEPT !.m.session[q.src] = q.key]
      OBVIOUS
    <3>2. p \in Deeds(d) /\ p.m \in GoodMem(d)
      BY <1>1, <2>1, <3>1, Rekeys DEF Deeds
    <3>3. PICK told : told = p.m.told \ {<<"key", q.src>>}
      OBVIOUS
    <3>4. told \in SUBSET ({"udp", "mtu", "key"} \X Node)
      BY <3>2, <3>3 DEF GoodMem, MemType
    <3>5. PICK m : m = [p.m EXCEPT !.told = told]
      OBVIOUS
    <3>6. m \in GoodMem(d)
      BY <3>2, <3>4, <3>5, SetTold
    <3>7. keyed = [p EXCEPT !.m = m]
      BY <1>3, <2>2, <3>1, <3>3, <3>5 DEF Deeds, GoodMem, MemType
    <3> QED BY <3>2, <3>6, <3>7, Remembers
  <2>4. PICK moved : moved = IF q.address = NoAddress THEN keyed ELSE UpdateNodeUdp(keyed, q.src, q.address)
    OBVIOUS
  <2>5. moved \in Deeds(d)
    BY <1>1, <1>2, <2>1, <2>3, <2>4, Updates
  <2>6. SendMtuInfo(d, moved, d, q.src, DefaultMtu) \in Deeds(d)
    <3>1. DefaultMtu \in Int /\ DefaultMtu <= DefaultMtu
      BY DEF Roads
    <3> QED BY <1>1, <2>5, <3>1, TellsSizes
  <2> QED BY <1>5, <2>2, <2>4, <2>6 DEF TakeAnswer
<1> QED BY <1>4, <1>5

-----------------------------------------------------------------------------
(* Every step leads to a good state.                                       *)

(* A sequence over T whose elements are in U                               *)
LEMMA SeqInto ==
    ASSUME NEW T, NEW U, NEW s \in Seq(T), \A i \in DOMAIN s : s[i] \in U
    PROVE  s \in Seq(U)
<1>1. Len(s) \in Nat /\ s \in [1 .. Len(s) -> T] /\ DOMAIN s = 1 .. Len(s)
  BY LenProperties
<1>2. PICK n \in Nat : n = Len(s)
  BY <1>1
<1>3. s \in [1 .. n -> U]
  BY <1>1, <1>2
<1> QED BY <1>3, SeqDef

LEMMA Delivered ==
    ASSUME NEW e \in Node, NEW letters \in Seq(GoodLetter)
    PROVE  LettersTo(e, letters) \in Seq(Inbox(e))
<1>1. PICK S : S = {i \in ToSet(letters) : i.hop # e}
  OBVIOUS
<1>2. PICK s : s = AllBut(letters, S)
  OBVIOUS
<1>3. s \in Seq(GoodLetter) /\ \A i \in DOMAIN s : s[i] \notin S /\ \E j \in DOMAIN letters : s[i] = letters[j]
  BY <1>2, AllButFacts
<1>4. LettersTo(e, letters) = s
  BY <1>1, <1>2 DEF LettersTo
<1>5. ASSUME NEW i \in DOMAIN s PROVE s[i] \in Inbox(e)
  <2>1. s[i] \in GoodLetter
    BY <1>3, LenProperties, ElementOfSeq
  <2>2. s[i] \in ToSet(letters)
    BY <1>3 DEF ToSet
  <2> QED BY <1>1, <1>3, <2>1, <2>2 DEF Inbox
<1> QED BY <1>3, <1>4, <1>5, SeqInto

LEMMA Becoming ==
    ASSUME AddressIInv, NEW d \in Node, NEW o \in Deeds(d), NEW rest, NEW restOfAir,
           \A e \in Node : rest[e] \in Seq(Inbox(e)), restOfAir \subseteq GoodAir,
           Becomes(d, o, rest, restOfAir), Counted'
    PROVE  AddressIInv'
<1>1. setting' = setting /\ where' = where /\ had' = had
  BY DEF Becomes
<1>2. Moves
  BY <1>1 DEF Moves
<1>3. Ground'
  BY <1>1 DEF AddressIInv, Ground
<1>4. mem' = [e \in Node |-> IF e = d THEN o.m ELSE mem[e]]
  BY DEF Becomes, AddressIInv
<1>5. ASSUME NEW e \in Node PROVE mem'[e] \in GoodMem(e)'
  <2>1. mem'[e] \in GoodMem(e)
    BY <1>4 DEF Deeds, AddressIInv
  <2> QED BY <1>2, <2>1, Frame
<1>6. mail' = [e \in Node |-> rest[e] \o LettersTo(e, o.mail)]
  BY DEF Becomes, Carry
<1>7. ASSUME NEW e \in Node PROVE mail'[e] \in Seq(Inbox(e)')
  <2>1. LettersTo(e, o.mail) \in Seq(Inbox(e))
    BY Delivered DEF Deeds
  <2>2. rest[e] \o LettersTo(e, o.mail) \in Seq(Inbox(e))
    BY <2>1, ConcatProperties
  <2>3. Inbox(e) \subseteq Inbox(e)'
    BY <1>2, Frame
  <2> QED BY <1>6, <2>2, <2>3, SeqMonotonic
<1>8. air' \subseteq GoodAir'
  <2>1. air' \subseteq GoodAir
    BY DEF Becomes, Deeds
  <2> QED BY <1>2, <2>1, Frame
<1>9. mem' = [e \in Node |-> mem'[e]] /\ mail' = [e \in Node |-> mail'[e]]
  BY <1>4, <1>6
<1> QED BY <1>3, <1>5, <1>7, <1>8, <1>9 DEF AddressIInv

LEMMA Unspent == ASSUME AddressIInv, setting' = setting, UNCHANGED chances PROVE Counted'
BY DEF AddressIInv, Counted

LEMMA Spent ==
    ASSUME AddressIInv, setting' = setting, NEW what \in {"moves", "keys", "restarts", "seconds"}, Happens(what)
    PROVE  Counted' /\ NewKey \in Nat
<1>1. chances \in [moves : Nat, keys : Nat, restarts : Nat, seconds : Nat] /\ chances.keys <= setting.chances.keys
  BY DEF AddressIInv, Counted
<1>2. setting.chances.keys \in Nat
  BY KnownRoads DEF AddressIInv, Roads
<1>3. PICK n \in Nat : n = chances[what] /\ n > 0
  BY <1>1 DEF Happens
<1>4. chances' = [chances EXCEPT ![what] = n - 1]
  BY <1>1, <1>3 DEF Happens
<1>5. n - 1 \in Nat /\ n - 1 <= n
  BY <1>3
<1>6. chances' \in [moves : Nat, keys : Nat, restarts : Nat, seconds : Nat]
  BY <1>1, <1>4, <1>5
<1>7. chances'.keys \in Nat /\ chances'.keys <= chances.keys
  BY <1>1, <1>3, <1>4, <1>5
<1>8. chances'.keys <= setting.chances.keys
  BY <1>1, <1>2, <1>7
<1>9. Counted'
  BY <1>6, <1>8 DEF Counted
<1>10. 1 + setting.chances.keys - chances'.keys \in Nat
  BY <1>2, <1>7, <1>8
<1> QED BY <1>9, <1>10 DEF NewKey

LEMMA SendStep ==
    ASSUME AddressIInv, NEW d \in Node, NEW e \in Others(d), NEW kind \in {"packet", "request", "reply"},
           Send(d, e, kind)
    PROVE  AddressIInv'
<1>1. Ground /\ Roads /\ \A n \in Node : mail[n] \in Seq(Inbox(n))
  BY KnownRoads DEF AddressIInv
<1>2. PICK o \in IF Modern(d, e) THEN OwnRecord(d, Start(d), e, kind) ELSE OwnLegacy(d, Start(d), e, kind) :
          Becomes(d, o, mail, air)
  BY DEF Send
<1>3. OwnRecord(d, Start(d), e, kind) \subseteq Deeds(d) /\ OwnLegacy(d, Start(d), e, kind) \subseteq Deeds(d)
  BY <1>1, StartsWell, SendsOwn, SendsLegacy
<1>4. o \in Deeds(d)
  BY <1>2, <1>3
<1>5. setting' = setting /\ UNCHANGED chances
  BY <1>2 DEF Becomes, Send
<1> QED BY <1>1, <1>2, <1>4, <1>5, Unspent, Becoming DEF AddressIInv

(* Nothing but datagrams goes, and perhaps chances.                        *)
LEMMA LoseStep ==
    ASSUME AddressIInv, NEW S, air' = air \ S, UNCHANGED <<setting, where, had, mem, mail, chances>>
    PROVE  AddressIInv'
<1>1. Moves
  BY DEF Moves
<1>2. Ground' /\ Counted'
  BY DEF AddressIInv, Ground, Counted
<1>3. \A d \in Node : mem'[d] \in GoodMem(d)'
  BY <1>1, Frame DEF AddressIInv
<1>4. ASSUME NEW d \in Node PROVE mail'[d] \in Seq(Inbox(d)')
  <2>1. Inbox(d) \subseteq Inbox(d)' /\ mail'[d] \in Seq(Inbox(d))
    BY <1>1, Frame DEF AddressIInv
  <2> QED BY <2>1, SeqMonotonic
<1>5. air' \subseteq GoodAir'
  BY <1>1, Frame DEF AddressIInv
<1>6. mem' = [d \in Node |-> mem'[d]] /\ mail' = [d \in Node |-> mail'[d]]
  BY DEF AddressIInv
<1> QED BY <1>2, <1>3, <1>4, <1>5, <1>6 DEF AddressIInv

LEMMA ReceiveStep ==
    ASSUME AddressIInv, NEW g \in air, ReceiveDatagram(g)
    PROVE  AddressIInv'
<1>1. g \in GoodAir /\ Roads
  BY KnownRoads DEF AddressIInv
<1>2. CASE \E d \in Node : where[d] = g.to
  <2>1. PICK d : d = Least({x \in Node : where[x] = g.to})
    OBVIOUS
  <2>2. d \in Node
    <3>1. PICK S \in SUBSET Node : S = {x \in Node : where[x] = g.to}
      OBVIOUS
    <3> QED BY <1>1, <1>2, <2>1, <3>1, LeastIsOne
  <2>3. PICK o \in HandleDatagram(d, g) : Becomes(d, o, mail, air \ {g})
    BY <1>2, <2>1 DEF ReceiveDatagram
  <2>4. o \in Deeds(d)
    BY <1>1, <2>2, <2>3, HandlesDatagram
  <2>5. setting' = setting /\ UNCHANGED chances
    BY <1>2, <2>3 DEF Becomes, ReceiveDatagram
  <2>6. air \ {g} \subseteq GoodAir /\ \A n \in Node : mail[n] \in Seq(Inbox(n))
    BY DEF AddressIInv
  <2> QED BY <2>2, <2>3, <2>4, <2>5, <2>6, Unspent, Becoming
<1>3. CASE ~ \E d \in Node : where[d] = g.to
  BY <1>3, LoseStep DEF ReceiveDatagram
<1> QED BY <1>2, <1>3

LEMMA MailStep ==
    ASSUME AddressIInv, NEW d \in Node, ReceiveMail(d)
    PROVE  AddressIInv'
<1>1. Ground /\ Roads /\ Start(d) \in Deeds(d)
  BY KnownRoads, StartsWell DEF AddressIInv
<1>2. mail[d] \in Seq(Inbox(d)) /\ mail[d] # <<>>
  BY DEF AddressIInv, ReceiveMail
<1>3. PICK i : i = Head(mail[d])
  OBVIOUS
<1>4. i \in Inbox(d) /\ Tail(mail[d]) \in Seq(Inbox(d))
  BY <1>2, <1>3, HeadTailProperties
<1>5. PICK o : o = CASE i.kind = "udp_info" -> TakeUdpInfo(d, Start(d), i)
                     [] i.kind = "mtu_info" -> TakeMtuInfo(d, Start(d), i)
                     [] i.kind = "request" -> TakeRequest(d, Start(d), i)
                     [] i.kind = "answer" -> TakeAnswer(d, Start(d), i)
                     [] OTHER -> TakeCarried(d, Start(d), i)
  OBVIOUS
<1>6. PICK rest : rest = [mail EXCEPT ![d] = Tail(@)]
  OBVIOUS
<1>7. /\ IF i.kind = "request" /\ i.dst = d THEN Happens("keys") ELSE UNCHANGED chances
      /\ Becomes(d, o, rest, air)
  BY <1>3, <1>5, <1>6, Zenon DEF ReceiveMail
<1>8. setting' = setting
  BY <1>7 DEF Becomes
<1>9. Counted' /\ (i.kind = "request" /\ i.dst = d => NewKey \in Nat)
  <2>1. CASE i.kind = "request" /\ i.dst = d
    <3>1. PICK what \in {"moves", "keys", "restarts", "seconds"} : what = "keys"
      OBVIOUS
    <3>2. Happens(what)
      BY <1>7, <2>1, <3>1
    <3> QED BY <1>8, <3>2, Spent
  <2>2. CASE ~(i.kind = "request" /\ i.dst = d)
    BY <1>7, <1>8, <2>2, Unspent
  <2> QED BY <2>1, <2>2
<1>10. o \in Deeds(d)
  <2>1. i.kind \in {"udp_info", "mtu_info", "request", "answer", "sptps"}
    BY <1>4, Kinds DEF Inbox
  <2>2. CASE i.kind = "udp_info"
    <3>1. o = TakeUdpInfo(d, Start(d), i)
      BY <1>5, <2>2, Zenon
    <3> QED BY <1>1, <1>4, <2>2, <3>1, TakesUdpInfo
  <2>3. CASE i.kind = "mtu_info"
    <3>1. o = TakeMtuInfo(d, Start(d), i)
      BY <1>5, <2>3
    <3> QED BY <1>1, <1>4, <2>3, <3>1, TakesMtuInfo
  <2>4. CASE i.kind = "request"
    <3>1. o = TakeRequest(d, Start(d), i)
      BY <1>5, <2>4
    <3> QED BY <1>1, <1>4, <1>9, <2>4, <3>1, TakesRequest
  <2>5. CASE i.kind = "answer"
    <3>1. o = TakeAnswer(d, Start(d), i)
      BY <1>5, <2>5
    <3> QED BY <1>1, <1>4, <2>5, <3>1, TakesAnswer
  <2>6. CASE i.kind = "sptps"
    <3>1. o = TakeCarried(d, Start(d), i)
      BY <1>5, <2>6
    <3> QED BY <1>1, <1>4, <2>6, <3>1, TakesCarried
  <2> QED BY <2>1, <2>2, <2>3, <2>4, <2>5, <2>6
<1>11. \A e \in Node : rest[e] \in Seq(Inbox(e))
  BY <1>4, <1>6 DEF AddressIInv
<1> QED BY <1>7, <1>9, <1>10, <1>11, Becoming DEF AddressIInv

(* The daemons remember other things, or have other mail.                  *)
LEMMA Remembering ==
    ASSUME AddressIInv, Moves, Ground', Counted', air' = air,
           mem' = [d \in Node |-> mem'[d]], \A d \in Node : mem'[d] \in GoodMem(d)',
           mail' = [d \in Node |-> mail'[d]], \A d \in Node : mail'[d] \in Seq(Inbox(d))
    PROVE  AddressIInv'
<1>1. ASSUME NEW d \in Node PROVE mail'[d] \in Seq(Inbox(d)')
  <2>1. Inbox(d) \subseteq Inbox(d)'
    BY Frame
  <2> QED BY <2>1, SeqMonotonic
<1>2. air' \subseteq GoodAir'
  BY Frame DEF AddressIInv
<1> QED BY <1>1, <1>2 DEF AddressIInv

LEMMA RelocateStep ==
    ASSUME AddressIInv, NEW d \in Node, Relocate(d)
    PROVE  AddressIInv'
<1>1. PICK a \in setting.places[d] :
          where' = [where EXCEPT ![d] = a] /\ had' = [had EXCEPT ![d] = @ \union {a}]
  BY DEF Relocate
<1>2. a \in Int
  BY <1>1, KnownRoads DEF AddressIInv, Roads
<1>3. setting' = setting /\ UNCHANGED <<mem, mail, air>>
  BY DEF Relocate
<1>4. where \in [Node -> Int] /\ had \in [Node -> SUBSET Int] /\ \A e \in Node : where[e] \in had[e]
  BY DEF AddressIInv, Ground
<1>5. \A e \in Node : had'[e] = IF e = d THEN had[e] \union {a} ELSE had[e]
  BY <1>1, <1>4
<1>6. Moves
  BY <1>3, <1>5 DEF Moves
<1>7. Ground'
  <2>1. where' \in [Node -> Int] /\ had' \in [Node -> SUBSET Int]
    BY <1>1, <1>2, <1>4
  <2>2. \A e \in Node : where'[e] \in had'[e]
    BY <1>1, <1>4, <1>5
  <2> QED BY <1>3, <2>1, <2>2 DEF AddressIInv, Ground
<1>8. Counted'
  <2>1. PICK what \in {"moves", "keys", "restarts", "seconds"} : what = "moves"
    OBVIOUS
  <2> QED BY <1>3, <2>1, Spent DEF Relocate
<1>9. \A e \in Node : mem'[e] \in GoodMem(e)'
  BY <1>3, <1>6, Frame DEF AddressIInv
<1> QED BY <1>3, <1>6, <1>7, <1>8, <1>9, Remembering DEF AddressIInv

LEMMA AgreeStep ==
    ASSUME AddressIInv, NEW d \in Node, NEW e \in Node, AgreeOnKeys(d, e)
    PROVE  AddressIInv'
<1>1. d # e /\ e \in Others(d) /\ d \in Others(e)
  BY KnownRoads DEF AgreeOnKeys, AddressIInv, Roads, Others
<1>2. setting' = setting /\ where' = where /\ had' = had /\ mail' = mail /\ air' = air
  BY DEF AgreeOnKeys
<1>3. Moves /\ Ground'
  BY <1>2 DEF Moves, AddressIInv, Ground
<1>4. Counted' /\ NewKey \in Nat
  <2>1. PICK what \in {"moves", "keys", "restarts", "seconds"} : what = "keys"
    OBVIOUS
  <2> QED BY <1>2, <2>1, Spent DEF AgreeOnKeys
<1>5. PICK k \in Nat : k = NewKey
  BY <1>4
<1>6. PICK m : m = [mem[d] EXCEPT !.session[e] = k]
  OBVIOUS
<1>7. PICK n : n = [mem[e] EXCEPT !.session[d] = k]
  OBVIOUS
<1>8. m \in GoodMem(d) /\ n \in GoodMem(e)
  BY <1>1, <1>6, <1>7, SetSession DEF AddressIInv
<1>9. mem' = [x \in Node |-> IF x = d THEN m ELSE IF x = e THEN n ELSE mem[x]]
  BY <1>1, <1>5, <1>6, <1>7 DEF AgreeOnKeys, AddressIInv
<1>10. ASSUME NEW x \in Node PROVE mem'[x] \in GoodMem(x)'
  <2>1. mem'[x] \in GoodMem(x)
    BY <1>8, <1>9 DEF AddressIInv
  <2> QED BY <1>3, <2>1, Frame
<1>11. mem' = [x \in Node |-> mem'[x]]
  BY <1>9
<1> QED BY <1>2, <1>3, <1>4, <1>10, <1>11, Remembering DEF AddressIInv

LEMMA FirstMemory ==
    ASSUME Roads, NEW d \in Node
    PROVE  Memory(d) \in GoodMem(d)
<1>1. \A e \in Others(d) : setting.edge[e] \in Int /\ setting.config[d][e] \in Int
  BY DEF Roads, Others
<1>2. Memory(d).byAddress \in SUBSET (Int \X Others(d))
  BY <1>1 DEF Memory
<1>3. Memory(d) \in MemType(d)
  BY <1>1, <1>2 DEF Memory, MemType, Roads
<1>4. \A e \in Others(d) : Memory(d).latest[e] \in Own(e)
  BY DEF Memory, Own
<1> QED BY <1>3, <1>4 DEF GoodMem

LEMMA Forgetting ==
    ASSUME Roads, NEW d \in Node, NEW m \in GoodMem(d), NEW gone
    PROVE  ForgetGone(m, gone) \in GoodMem(d)
<1>1. \A e \in Others(d) : setting.edge[e] \in Int /\ setting.edge[e] \in Own(e)
  BY DEF Roads, Others, Own
<1>2. PICK latest : latest = [e \in Others(d) |-> IF e \in gone THEN setting.edge[e] ELSE m.latest[e]]
  OBVIOUS
<1>3. PICK confirmed : confirmed = [e \in Others(d) |-> m.confirmed[e] /\ e \notin gone]
  OBVIOUS
<1>4. PICK session : session = [e \in Others(d) |-> IF e \in gone THEN 0 ELSE m.session[e]]
  OBVIOUS
<1>5. PICK told : told = {t \in m.told : t[2] \notin gone}
  OBVIOUS
<1>6. m \in MemType(d) /\ \A e \in Others(d) : m.latest[e] \in Own(e)
  BY DEF GoodMem
<1>7. latest \in [Others(d) -> Int] /\ \A e \in Others(d) : latest[e] \in Own(e)
  BY <1>1, <1>2, <1>6 DEF MemType
<1>8. confirmed \in [Others(d) -> BOOLEAN]
  <2>1. \A e \in Others(d) : m.confirmed[e] \in BOOLEAN
    BY <1>6 DEF MemType
  <2>2. \A e \in Others(d) : (m.confirmed[e] /\ e \notin gone) \in BOOLEAN
    BY <2>1
  <2> QED BY <1>3, <2>2
<1>9. session \in [Others(d) -> Nat]
  BY <1>4, <1>6 DEF MemType
<1>10. told \in SUBSET ({"udp", "mtu", "key"} \X Node)
  BY <1>5, <1>6 DEF MemType
<1>11. ForgetGone(m, gone) = [m EXCEPT !.latest = latest, !.confirmed = confirmed,
                                       !.session = session, !.told = told]
  BY <1>2, <1>3, <1>4, <1>5, <1>6 DEF ForgetGone, MemType
<1> QED BY <1>6, <1>7, <1>8, <1>9, <1>10, <1>11 DEF GoodMem, MemType

LEMMA RestartStep ==
    ASSUME AddressIInv, NEW c \in Node, Restart(c)
    PROVE  AddressIInv'
<1>1. setting' = setting /\ where' = where /\ had' = had /\ air' = air
  BY DEF Restart
<1>2. Moves /\ Ground' /\ Roads
  BY <1>1, KnownRoads DEF Moves, AddressIInv, Ground
<1>3. Counted'
  <2>1. PICK what \in {"moves", "keys", "restarts", "seconds"} : what = "restarts"
    OBVIOUS
  <2> QED BY <1>1, <2>1, Spent DEF Restart
<1>4. mem' = [d \in Node |-> IF d = c THEN Memory(d)
                             ELSE ForgetGone(mem[d], {e \in Others(d) : e = c \/ NextHop(d, e) = c})]
  BY DEF Restart
<1>5. ASSUME NEW d \in Node PROVE mem'[d] \in GoodMem(d)'
  <2>1. Memory(d) \in GoodMem(d)
    BY <1>2, FirstMemory
  <2>2. \A gone : ForgetGone(mem[d], gone) \in GoodMem(d)
    BY <1>2, Forgetting DEF AddressIInv
  <2>3. mem'[d] \in GoodMem(d)
    BY <1>4, <2>1, <2>2
  <2> QED BY <1>2, <2>3, Frame
<1>6. mail' = [d \in Node |-> IF d = c THEN <<>> ELSE AllBut(mail[d], {i \in ToSet(mail[d]) : i.by = c})]
  BY DEF Restart
<1>7. ASSUME NEW d \in Node PROVE mail'[d] \in Seq(Inbox(d))
  <2>1. PICK e : e = <<>>
    OBVIOUS
  <2>2. e \in Seq(Inbox(d))
    BY <2>1, EmptySeq
  <2>3. PICK S : S = {i \in ToSet(mail[d]) : i.by = c}
    OBVIOUS
  <2>4. AllBut(mail[d], S) \in Seq(Inbox(d))
    BY AllButFacts DEF AddressIInv
  <2>5. mail'[d] = IF d = c THEN e ELSE AllBut(mail[d], S)
    BY <1>6, <2>1, <2>3
  <2> QED BY <2>2, <2>4, <2>5
<1>8. mem' = [d \in Node |-> mem'[d]] /\ mail' = [d \in Node |-> mail'[d]]
  BY <1>4, <1>6, Zenon
<1> QED BY <1>1, <1>2, <1>3, <1>5, <1>7, <1>8, Remembering

LEMMA WaitStep ==
    ASSUME AddressIInv, Wait
    PROVE  AddressIInv'
<1>1. setting' = setting /\ where' = where /\ had' = had /\ mail' = mail /\ air' = air
  BY DEF Wait
<1>2. Moves /\ Ground'
  BY <1>1 DEF Moves, AddressIInv, Ground
<1>3. Counted'
  <2>1. PICK what \in {"moves", "keys", "restarts", "seconds"} : what = "seconds"
    OBVIOUS
  <2> QED BY <1>1, <2>1, Spent DEF Wait
<1>4. mem' = [d \in Node |-> [mem[d] EXCEPT !.told = {}, !.hard = FALSE]]
  BY DEF Wait
<1>5. ASSUME NEW d \in Node PROVE mem'[d] \in GoodMem(d)'
  <2>1. mem[d] \in GoodMem(d)
    BY DEF AddressIInv
  <2>2. [mem[d] EXCEPT !.told = {}, !.hard = FALSE] \in GoodMem(d)
    BY <2>1 DEF GoodMem, MemType
  <2>3. mem'[d] \in GoodMem(d)
    BY <1>4, <2>2
  <2> QED BY <1>2, <2>3, Frame
<1>6. mem' = [d \in Node |-> mem'[d]]
  BY <1>4
<1> QED BY <1>1, <1>2, <1>3, <1>5, <1>6, Remembering DEF AddressIInv

LEMMA FirstState == ASSUME AddressInit PROVE AddressIInv
<1>1. /\ setting \in Settings /\ where \in [Node -> UNION {setting.places[d] : d \in Node}]
      /\ had = [d \in Node |-> {where[d]}]
  BY DEF AddressInit
<1>2. \A d \in Node : setting.places[d] \subseteq Int
  BY <1>1, AddressAssumption DEF KnownSettings
<1>3. where \in [Node -> Int]
  BY <1>1, <1>2
<1>4. Ground /\ \A d \in Node : where[d] \in Own(d)
  BY <1>1, <1>3 DEF Ground, Own
<1>5. Roads
  BY <1>4, KnownRoads
<1>6. mem = [d \in Node |-> Initially(d)] /\ air = {} /\ chances = setting.chances
  BY DEF AddressInit
<1>7. ASSUME NEW d \in Node PROVE Initially(d) \in GoodMem(d)
  <2>1. PICK proven : proven = {e \in Others(d) : <<d, e>> \in setting.proven}
    OBVIOUS
  <2>2. PICK byEdge : byEdge = {e \in proven : Adjacent(d, e)}
    OBVIOUS
  <2>3. PICK m : m = Memory(d)
    OBVIOUS
  <2>4. m \in GoodMem(d) /\ m \in MemType(d)
    BY <1>5, <2>3, FirstMemory DEF GoodMem
  <2>5. \A e \in Others(d) : setting.edge[e] \in Int /\ where[e] \in Int /\ where[e] \in Own(e)
    BY <1>3, <1>4, <1>5 DEF Roads, Others
  <2>6. PICK latest : latest = [e \in Others(d) |-> IF e \in proven THEN where[e] ELSE m.latest[e]]
    OBVIOUS
  <2>7. latest \in [Others(d) -> Int] /\ \A e \in Others(d) : latest[e] \in Own(e)
    BY <2>4, <2>5, <2>6 DEF GoodMem, MemType
  <2>8. PICK confirmed : confirmed = [e \in Others(d) |-> e \in proven]
    OBVIOUS
  <2>9. confirmed \in [Others(d) -> BOOLEAN]
    BY <2>8
  <2>10. PICK session : session = [e \in Others(d) |-> IF {d, e} \in setting.keyed THEN 1 ELSE 0]
    OBVIOUS
  <2>11. session \in [Others(d) -> Nat]
    BY <2>10
  <2>12. PICK first : first = [e \in Others(d) |-> IF e \in byEdge THEN setting.edge[e] ELSE m.first[e]]
    OBVIOUS
  <2>13. first \in [Others(d) -> Int]
    BY <2>4, <2>5, <2>12 DEF MemType
  <2>14. PICK byAddress : byAddress = m.byAddress \union {<<setting.edge[e], e>> : e \in byEdge}
    OBVIOUS
  <2>15. byAddress \in SUBSET (Int \X Others(d))
    <3>1. byEdge \subseteq Others(d) /\ m.byAddress \subseteq Int \X Others(d)
      BY <2>1, <2>2, <2>4 DEF MemType
    <3>2. \A e \in byEdge : <<setting.edge[e], e>> \in Int \X Others(d)
      BY <2>5, <3>1
    <3> QED BY <2>14, <3>1, <3>2
  <2>16. Initially(d) = [m EXCEPT !.latest = latest, !.confirmed = confirmed, !.session = session,
                                  !.first = first, !.byAddress = byAddress]
    BY <2>1, <2>2, <2>3, <2>4, <2>6, <2>8, <2>10, <2>12, <2>14 DEF Initially, MemType
  <2> QED BY <2>4, <2>7, <2>9, <2>11, <2>13, <2>15, <2>16 DEF GoodMem, MemType
<1>8. mail = [d \in Node |-> mail[d]] /\ \A d \in Node : mail[d] \in Seq(Inbox(d))
  <2>1. PICK e : e = <<>>
    OBVIOUS
  <2>2. mail = [d \in Node |-> e]
    BY <2>1 DEF AddressInit
  <2>3. \A d \in Node : e \in Seq(Inbox(d))
    BY <2>1, EmptySeq
  <2> QED BY <2>2, <2>3
<1>9. Counted
  <2>1. chances \in [moves : Nat, keys : Nat, restarts : Nat, seconds : Nat]
    BY <1>5, <1>6 DEF Roads
  <2> QED BY <1>6, <2>1 DEF Counted
<1>10. mem = [d \in Node |-> mem[d]] /\ \A d \in Node : mem[d] \in GoodMem(d)
  BY <1>6, <1>7
<1> QED BY <1>4, <1>6, <1>8, <1>9, <1>10 DEF AddressIInv

LEMMA NextState ==
    ASSUME AddressIInv, [AddressNext]_addressVars
    PROVE  AddressIInv'
<1>1. CASE UNCHANGED addressVars
  <2>1. air' = air \ {} /\ UNCHANGED <<setting, where, had, mem, mail, chances>>
    BY <1>1 DEF addressVars
  <2> QED BY <2>1, LoseStep
<1>2. ASSUME NEW t \in setting.talk, Send(t[1], t[2], "packet") \/ Send(t[1], t[2], "request")
      PROVE  AddressIInv'
  <2>1. PICK d : d = t[1]
    OBVIOUS
  <2>2. PICK e : e = t[2]
    OBVIOUS
  <2>3. PICK kind \in {"packet", "request", "reply"} : Send(d, e, kind)
    BY <1>2, <2>1, <2>2
  <2>4. d \in Node /\ e \in Others(d)
    BY <2>1, <2>2, AddressAssumption DEF AddressIInv, Ground, KnownSettings, Others
  <2> QED BY <2>3, <2>4, SendStep
<1>3. ASSUME NEW d \in Node, NEW e \in Node, AgreeOnKeys(d, e) PROVE AddressIInv'
  BY <1>3, AgreeStep
<1>4. ASSUME NEW g \in air, ReceiveDatagram(g) PROVE AddressIInv'
  BY <1>4, ReceiveStep
<1>5. ASSUME NEW g \in air, Lose(g) PROVE AddressIInv'
  BY <1>5, LoseStep DEF Lose
<1>6. ASSUME NEW d \in Node, ReceiveMail(d) PROVE AddressIInv'
  BY <1>6, MailStep
<1>7. ASSUME NEW d \in Node, Relocate(d) PROVE AddressIInv'
  BY <1>7, RelocateStep
<1>8. ASSUME NEW d \in Node, Restart(d) PROVE AddressIInv'
  BY <1>8, RestartStep
<1>9. CASE Wait
  BY <1>9, WaitStep
<1> QED BY <1>1, <1>2, <1>3, <1>4, <1>5, <1>6, <1>7, <1>8, <1>9 DEF AddressNext

-----------------------------------------------------------------------------
(* The invariant contains what is promised.                                *)
LEMMA GoodAddresses == ASSUME AddressIInv PROVE AddressesHold
<1>1. AddressesAreOwn
  BY DEF AddressIInv, GoodMem, Own, AddressesAreOwn
<1>2. FreshIsTaken
  BY TakesFresh DEF AddressIInv, FreshIsTaken
<1>3. SizesAreBounds
  <2>1. SUFFICES ASSUME NEW d \in Node, NEW i \in ToSet(mail[d]), i.kind = "mtu_info"
                 PROVE  SizeOK(i)
    BY DEF SizesAreBounds, SizeOK
  <2>2. mail[d] \in Seq(Inbox(d))
    BY DEF AddressIInv
  <2>3. i \in Inbox(d)
    BY <2>1, <2>2, LenProperties, ElementOfSeq DEF ToSet
  <2> QED BY <2>1, <2>3, Kinds DEF Inbox
<1> QED BY <1>1, <1>2, <1>3 DEF AddressesHold

(* However daemons move, restart, lose datagrams and pass on what they     *)
(* hear, on any routes and with any settings: an address that is           *)
(* remembered is one that the daemon has had or its edges tell, a packet   *)
(* with good keys is taken from anywhere, and a size that is told is no    *)
(* more than a relay knows (update_node_udp_like_tinc,                     *)
(* handle_udp_datagram, best_mtu_info_value).                              *)
THEOREM AddressesAlwaysHold == AddressInit /\ [][AddressNext]_addressVars => []AddressesHold
<1>1. AddressInit => AddressIInv
  BY FirstState
<1>2. AddressIInv /\ [AddressNext]_addressVars => AddressIInv'
  BY NextState
<1>3. AddressIInv => AddressesHold
  BY GoodAddresses
<1> QED BY <1>1, <1>2, <1>3, PTL
=============================================================================
