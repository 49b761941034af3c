------------------------- MODULE Interfaces_proofs -------------------------
(***************************************************************************)
(* What the daemon shares with others, proved for every number of clients, *)
(* lines, hosts and prefixes: the socket serves and its log loses nothing, *)
(* the lists hold what they learned and what they were given, the switch   *)
(* of the ipset files keeps the real list, a patched file keeps the lines  *)
(* of others.                                                              *)
(***************************************************************************)
EXTENDS Interfaces, TLAPS, SequenceTheorems, FiniteSetTheorems, FunctionTheorems, WellFoundedInduction

(***************************************************************************)
(* Sequences.                                                              *)
(***************************************************************************)
(* A set of numbers has a least one: the induction of what follows. *)
LEMMA Least == ASSUME NEW T \in SUBSET Nat, T # {} PROVE \E m \in T : \A k \in T : m <= k
  <1>1. PICK x \in T : \A y \in T : ~(<<y, x>> \in OpToRel(<, Nat))
    BY NatLessThanWellFounded, WFMin, Zenon
  <1>2. \A y \in T : ~(y < x)
    <2>1. \A y \in T : <<y, x>> \in OpToRel(<, Nat) <=> y < x
      BY DEF OpToRel
    <2>. QED BY <1>1, <2>1
  <1>. QED BY <1>2

(* A line is in a sequence when it is at some place of it. *)
LEMMA InSeq ==
    ASSUME NEW S, NEW s \in Seq(S), NEW x
    PROVE  x \in ToSet(s) <=> \E i \in 1 .. Len(s) : s[i] = x
  BY DEF ToSet

(* What the emptying, appending and joining of sequences do to their elements. *)
LEMMA ToSetFacts ==
    ASSUME NEW S
    PROVE  /\ ToSet(<<>>) = {}
           /\ \A s \in Seq(S), x \in S : ToSet(Append(s, x)) = ToSet(s) \cup {x}
           /\ \A s, t \in Seq(S) : ToSet(s \o t) = ToSet(s) \cup ToSet(t)
           /\ \A s \in Seq(S) : s # <<>> =>
                  Head(s) \in S /\ Tail(s) \in Seq(S) /\ ToSet(s) = {Head(s)} \cup ToSet(Tail(s))
           /\ \A s \in Seq(S) : ToSet(s) = {} <=> s = <<>>
           /\ \A s \in Seq(S) : ToSet(s) \subseteq S
  <1>1. ToSet(<<>>) = {}
    BY DEF ToSet
  <1>2. ASSUME NEW s \in Seq(S), NEW x \in S PROVE ToSet(Append(s, x)) = ToSet(s) \cup {x}
    <2>. DEFINE t == Append(s, x)
    <2>1. t \in Seq(S) /\ Len(t) = Len(s) + 1 /\ t[Len(s) + 1] = x /\ \A i \in 1 .. Len(s) : t[i] = s[i]
      OBVIOUS
    <2>. HIDE DEF t
    <2>2. ASSUME NEW y PROVE y \in ToSet(t) <=> y \in ToSet(s) \cup {x}
      <3>1. y \in ToSet(t) <=> \E i \in 1 .. Len(s) + 1 : t[i] = y
        BY <2>1, InSeq
      <3>2. y \in ToSet(s) <=> \E i \in 1 .. Len(s) : s[i] = y
        BY InSeq
      <3>3. Len(s) + 1 \in 1 .. Len(s) + 1 /\ \A i \in 1 .. Len(s) + 1 : i = Len(s) + 1 \/ i \in 1 .. Len(s)
        OBVIOUS
      <3>4. y = x => y \in ToSet(t)
        BY <2>1, <3>1, <3>3
      <3>5. ASSUME NEW i \in 1 .. Len(s), s[i] = y PROVE y \in ToSet(t)
        BY <2>1, <3>1, <3>3, <3>5
      <3>6. ASSUME NEW i \in 1 .. Len(s) + 1, t[i] = y PROVE y = x \/ y \in ToSet(s)
        BY <2>1, <3>2, <3>3, <3>6
      <3>. QED BY <3>1, <3>2, <3>4, <3>5, <3>6
    <2>. QED BY <2>2 DEF t
  <1>3. ASSUME NEW s \in Seq(S), NEW t \in Seq(S) PROVE ToSet(s \o t) = ToSet(s) \cup ToSet(t)
    <2>1. s \o t \in Seq(S) /\ Len(s \o t) = Len(s) + Len(t)
          /\ \A i \in 1 .. Len(s) + Len(t) : (s \o t)[i] = IF i <= Len(s) THEN s[i] ELSE t[i - Len(s)]
      OBVIOUS
    <2>2. ASSUME NEW y PROVE y \in ToSet(s \o t) <=> y \in ToSet(s) \cup ToSet(t)
      <3>1. y \in ToSet(s \o t) <=> \E i \in 1 .. Len(s) + Len(t) : (s \o t)[i] = y
        BY <2>1, InSeq
      <3>2. (y \in ToSet(s) <=> \E i \in 1 .. Len(s) : s[i] = y) /\ (y \in ToSet(t) <=> \E i \in 1 .. Len(t) : t[i] = y)
        BY InSeq
      <3>3. ASSUME NEW i \in 1 .. Len(t), t[i] = y PROVE Len(s) + i \in 1 .. Len(s) + Len(t) /\ (s \o t)[Len(s) + i] = y
        BY <2>1, <3>3
      <3>4. ASSUME NEW i \in 1 .. Len(s), s[i] = y PROVE i \in 1 .. Len(s) + Len(t) /\ (s \o t)[i] = y
        BY <2>1, <3>4
      <3>5. ASSUME NEW i \in 1 .. Len(s) + Len(t), (s \o t)[i] = y PROVE y \in ToSet(s) \cup ToSet(t)
        <4>1. CASE i <= Len(s)
          BY <4>1, <3>5, <3>2, <2>1
        <4>2. CASE i > Len(s)
          <5>1. i - Len(s) \in 1 .. Len(t) /\ t[i - Len(s)] = y
            BY <4>2, <3>5, <2>1
          <5>. QED BY <5>1, <3>2
        <4>. QED BY <4>1, <4>2
      <3>. QED BY <3>1, <3>2, <3>3, <3>4, <3>5
    <2>. QED BY <2>2
  <1>4. ASSUME NEW s \in Seq(S), s # <<>>
        PROVE  Head(s) \in S /\ Tail(s) \in Seq(S) /\ ToSet(s) = {Head(s)} \cup ToSet(Tail(s))
    <2>1. Tail(s) \in Seq(S) /\ Len(Tail(s)) = Len(s) - 1 /\ Head(s) = s[1] /\ Len(s) >= 1
          /\ \A i \in 1 .. Len(s) - 1 : Tail(s)[i] = s[i + 1]
      BY <1>4
    <2>2. ASSUME NEW y PROVE y \in ToSet(s) <=> y \in {Head(s)} \cup ToSet(Tail(s))
      <3>1. (y \in ToSet(s) <=> \E i \in 1 .. Len(s) : s[i] = y)
            /\ (y \in ToSet(Tail(s)) <=> \E i \in 1 .. Len(Tail(s)) : Tail(s)[i] = y)
        <4>1. \A u \in Seq(S) : y \in ToSet(u) <=> \E i \in 1 .. Len(u) : u[i] = y
          BY InSeq
        <4>. QED BY <2>1, <4>1
      <3>2. ASSUME NEW i \in 1 .. Len(s), s[i] = y PROVE y = Head(s) \/ y \in ToSet(Tail(s))
        <4>1. CASE i # 1
          <5>1. i - 1 \in 1 .. Len(Tail(s)) /\ Tail(s)[i - 1] = y
            BY <2>1, <3>2, <4>1
          <5>. QED BY <5>1, <3>1
        <4>. QED BY <4>1, <2>1, <3>2
      <3>. QED BY <2>1, <3>1, <3>2
    <2>. QED BY <2>1, <2>2
  <1>5. ASSUME NEW s \in Seq(S) PROVE ToSet(s) = {} <=> s = <<>>
    BY <1>1, <1>4
  <1>6. ASSUME NEW s \in Seq(S) PROVE ToSet(s) \subseteq S
    BY DEF ToSet
  <1>. QED BY <1>1, <1>2, <1>3, <1>4, <1>5, <1>6

(* A part of a sequence. *)
LEMMA SubSeqFacts ==
    ASSUME NEW S, NEW s \in Seq(S), NEW m \in 1 .. Len(s) + 1, NEW n \in m - 1 .. Len(s)
    PROVE  /\ SubSeq(s, m, n) \in Seq(S) /\ Len(SubSeq(s, m, n)) = n - m + 1
           /\ \A i \in 1 .. n - m + 1 : SubSeq(s, m, n)[i] = s[m + i - 1]
  <1>1. m \in Int /\ n \in Int /\ \A i \in m .. n : s[i] \in S
    OBVIOUS
  <1>2. m <= n => n - m + 1 = n - m + 1
    OBVIOUS
  <1>. QED BY <1>1, SubSeqProperties

(***************************************************************************)
(* LogTail.                                                                *)
(***************************************************************************)

\* The ring holds the latest lines, all of them until it was first trimmed.
RingRecent ==
    /\ ring \in Seq(Nat) /\ Len(ring) <= logged /\ Len(ring) <= RingCap
    /\ \A i \in 1 .. Len(ring) : ring[i] = logged - Len(ring) + i
    /\ Len(ring) = logged \/ Len(ring) >= (RingCap * 3) \div 4

\* The channel of a subscriber holds lines that were logged, in their order.
Promised ==
    /\ chan \in Seq(Nat) /\ missed \in SUBSET Nat
    /\ \A i \in 1 .. Len(chan) : chan[i] \in 1 .. logged
    /\ \A i, j \in 1 .. Len(chan) : i < j => chan[i] < chan[j]

\* While the history is sent, e is its last line: what was sent is its
\* beginning, what waits its end, and what came later is in the channel.
InHistory(e) ==
    /\ pending = <<>> /\ e \in Nat /\ from >= 1
    /\ e <= logged /\ from <= e - Len(hist) + 1
    /\ \A i \in 1 .. Len(hist) : hist[i] = e - Len(hist) + i
    /\ \A k \in Nat : k \in ToSet(sent) <=> (from <= k /\ k <= e - Len(hist))
    /\ sent = <<>> => Len(hist) = Want \/ from = 1
    /\ Follow => sub = "active" /\ \A k \in e + 1 .. logged : k \in ToSet(chan) \cup missed

\* Then a follower is sent what comes, in its order: every line since the
\* history is sent, waits for its chunk, is in the channel, or was lost.
Following(e) ==
    /\ e \in Nat /\ from >= 1 /\ e <= logged /\ sub = "active"
    /\ \A k \in from .. e : k \in ToSet(sent)
    /\ \A k \in e + 1 .. logged : k \in ToSet(sent) \cup ToSet(pending) \cup ToSet(chan) \cup missed
    /\ \A k \in ToSet(sent) \cup ToSet(pending) : k <= logged
    /\ \A k \in ToSet(sent) : \A c \in ToSet(pending) \cup ToSet(chan) : k <= e \/ k < c
    /\ \A k \in ToSet(pending) : \A c \in ToSet(chan) : k <= e \/ k < c

Sequential == hist \in Seq(Nat) /\ pending \in Seq(Nat) /\ sent \in Seq(Nat)

Delivery(e) ==
    /\ tpc \in {"start", "snapshot"} =>
           hist = <<>> /\ pending = <<>> /\ sent = <<>> /\ (tpc = "snapshot" /\ Follow => sub = "active")
    /\ tpc = "history" => InHistory(e)
    /\ tpc = "follow" => Following(e)

TailInv ==
    /\ LogTailTypeOK /\ RingRecent /\ Sequential /\ Promised /\ NothingSkipped
    /\ \E e \in Nat : Delivery(e)


(* The parameters of logger and LogTail as the proofs use them. *)
LEMMA TailParameters ==
    /\ Follow \in BOOLEAN /\ MaxLogged \in Nat
    /\ Want \in Nat \ {0} /\ RingCap \in Nat \ {0} /\ SubCap \in Nat \ {0} /\ ChunkLines \in Nat \ {0}
    /\ (RingCap * 3) \div 4 \in Nat /\ (RingCap * 3) \div 4 <= RingCap /\ Want <= (RingCap * 3) \div 4
  <1>1. /\ Follow \in BOOLEAN /\ MaxLogged \in Nat /\ Want <= (RingCap * 3) \div 4
        /\ Want \in Nat \ {0} /\ RingCap \in Nat \ {0} /\ SubCap \in Nat \ {0} /\ ChunkLines \in Nat \ {0}
    BY LogTailAssumption DEF LogTailAssumption
  <1>. QED BY <1>1

(* A chunk is the beginning of what is to be sent, and not empty. *)
LEMMA ChunkFacts ==
    ASSUME NEW s \in Seq(Nat), s # <<>>
    PROVE  \E c \in 1 .. Len(s) :
               /\ Chunk(s) \in Seq(Nat) /\ Len(Chunk(s)) = c
               /\ \A i \in 1 .. c : Chunk(s)[i] = s[i]
               /\ SubSeq(s, Len(Chunk(s)) + 1, Len(s)) \in Seq(Nat)
               /\ Len(SubSeq(s, Len(Chunk(s)) + 1, Len(s))) = Len(s) - c
               /\ \A i \in 1 .. Len(s) - c : SubSeq(s, Len(Chunk(s)) + 1, Len(s))[i] = s[i + c]
  <1>. DEFINE c == IF Len(s) < ChunkLines THEN Len(s) ELSE ChunkLines
  <1>1. c \in 1 .. Len(s)
    BY TailParameters
  <1>2. Chunk(s) = SubSeq(s, 1, c)
    BY DEF Chunk
  <1>. HIDE DEF c
  <1>. DEFINE t == Chunk(s)
              r == SubSeq(s, c + 1, Len(s))
  <1>3. t \in Seq(Nat) /\ Len(t) = c /\ \A i \in 1 .. c : t[i] = s[i]
    <2>1. 1 \in 1 .. Len(s) + 1 /\ c \in 1 - 1 .. Len(s)
      BY <1>1
    <2>. HIDE DEF t
    <2>2. /\ t \in Seq(Nat) /\ Len(t) = c - 1 + 1
          /\ \A i \in 1 .. c - 1 + 1 : t[i] = s[1 + i - 1]
      BY <2>1, <1>2, SubSeqFacts DEF t
    <2>. QED BY <1>1, <2>2
  <1>4. r \in Seq(Nat) /\ Len(r) = Len(s) - c /\ \A i \in 1 .. Len(s) - c : r[i] = s[i + c]
    <2>1. c + 1 \in 1 .. Len(s) + 1 /\ Len(s) \in (c + 1) - 1 .. Len(s)
      BY <1>1
    <2>. HIDE DEF r
    <2>2. /\ r \in Seq(Nat) /\ Len(r) = Len(s) - (c + 1) + 1
          /\ \A i \in 1 .. Len(s) - (c + 1) + 1 : r[i] = s[(c + 1) + i - 1]
      BY <2>1, SubSeqFacts DEF r
    <2>. QED BY <1>1, <2>2
  <1>. QED BY <1>1, <1>3, <1>4

(* The latest n lines of the ring end with the last one logged. *)
LEMMA LatestFacts ==
    ASSUME NEW s \in Seq(Nat), NEW n \in Nat, NEW l \in Nat, Len(s) <= l,
           \A i \in 1 .. Len(s) : s[i] = l - Len(s) + i
    PROVE  /\ Latest(s, n) \in Seq(Nat) /\ Len(Latest(s, n)) <= Len(s)
           /\ Len(Latest(s, n)) = IF n >= Len(s) THEN Len(s) ELSE n
           /\ \A i \in 1 .. Len(Latest(s, n)) : Latest(s, n)[i] = l - Len(Latest(s, n)) + i
  <1>1. CASE n >= Len(s)
    BY <1>1 DEF Latest
  <1>2. CASE n < Len(s)
    <2>. DEFINE t == SubSeq(s, Len(s) - n + 1, Len(s))
    <2>1. t \in Seq(Nat) /\ Len(t) = n /\ \A i \in 1 .. n : t[i] = s[Len(s) - n + i]
      <3>1. Len(s) - n + 1 \in 1 .. Len(s) + 1 /\ Len(s) \in (Len(s) - n + 1) - 1 .. Len(s)
        BY <1>2
      <3>. HIDE DEF t
      <3>2. /\ t \in Seq(Nat) /\ Len(t) = Len(s) - (Len(s) - n + 1) + 1
            /\ \A i \in 1 .. Len(s) - (Len(s) - n + 1) + 1 : t[i] = s[(Len(s) - n + 1) + i - 1]
        BY <3>1, SubSeqFacts DEF t
      <3>. QED BY <1>2, <3>2
    <2>2. Latest(s, n) = t
      <3>1. ~(n >= Len(s))
        BY <1>2
      <3>. QED BY <3>1, Zenon DEF Latest
    <2>. HIDE DEF t
    <2>3. ASSUME NEW i \in 1 .. n PROVE t[i] = l - n + i
      <3>1. Len(s) - n + i \in 1 .. Len(s)
        BY <1>2
      <3>2. t[i] = l - Len(s) + (Len(s) - n + i)
        BY <3>1, <2>1
      <3>. QED BY <3>2
    <2>4. /\ t \in Seq(Nat) /\ Len(t) <= Len(s) /\ Len(t) = IF n >= Len(s) THEN Len(s) ELSE n
          /\ \A i \in 1 .. Len(t) : t[i] = l - Len(t) + i
      BY <1>2, <2>1, <2>3
    <2>. QED BY <2>2, <2>4, Zenon
  <1>. QED BY <1>1, <1>2

(* emit keeps the ring recent: trimming drops the oldest lines. *)
LEMMA RingStep ==
    ASSUME RingRecent, logged \in Nat, Log
    PROVE  RingRecent'
  <1>. DEFINE q == (RingCap * 3) \div 4
              r == Append(ring, logged + 1)
  <1>1. q \in Nat /\ q <= RingCap /\ RingCap \in Nat
    BY TailParameters
  <1>2. /\ r \in Seq(Nat) /\ Len(r) = Len(ring) + 1 /\ Len(r) <= logged + 1
        /\ \A i \in 1 .. Len(r) : r[i] = (logged + 1) - Len(r) + i
    <2>1. /\ r \in Seq(Nat) /\ Len(r) = Len(ring) + 1 /\ Len(r) <= logged + 1
          /\ r[Len(ring) + 1] = logged + 1 /\ \A i \in 1 .. Len(ring) : r[i] = ring[i]
      BY DEF RingRecent
    <2>. HIDE DEF r
    <2>2. Len(ring) \in Nat /\ \A i \in 1 .. Len(ring) : ring[i] = logged - Len(ring) + i
      BY DEF RingRecent
    <2>. QED BY <2>1, <2>2
  <1>3. Len(ring) = logged \/ Len(ring) >= q
    BY DEF RingRecent
  <1>4. ring' = (IF Len(r) > RingCap THEN Latest(r, q) ELSE r) /\ logged' = logged + 1
    BY DEF Log, Trim
  <1>. HIDE DEF q, r
  <1>5. CASE Len(r) > RingCap
    <2>1. q < Len(r)
      BY <1>1, <1>2, <1>5
    <2>. DEFINE l == logged + 1
                t == Latest(r, q)
    <2>0. l \in Nat /\ Len(r) <= l /\ \A i \in 1 .. Len(r) : r[i] = l - Len(r) + i
      BY <1>2
    <2>. HIDE DEF l, t
    <2>2. t \in Seq(Nat) /\ Len(t) = q /\ \A i \in 1 .. q : t[i] = l - q + i
      <3>1. t \in Seq(Nat) /\ Len(t) = (IF q >= Len(r) THEN Len(r) ELSE q)
            /\ \A i \in 1 .. Len(t) : t[i] = l - Len(t) + i
        BY ZenonT(40), <2>0, <1>1, <1>2, LatestFacts DEF t
      <3>. QED BY <3>1, <2>1, <1>1, <1>2
    <2>3. ring' = t /\ logged' = l
      BY <1>4, <1>5 DEF t, l
    <2>4. Len(t) <= l /\ Len(t) <= RingCap /\ Len(t) >= q
      BY <2>0, <2>1, <2>2, <1>1, <1>2
    <2>5. \A i \in 1 .. Len(t) : t[i] = l - Len(t) + i
      BY <2>2
    <2>. QED BY <2>2, <2>3, <2>4, <2>5 DEF RingRecent, q
  <1>6. CASE ~(Len(r) > RingCap)
    <2>1. ring' = r
      BY <1>4, <1>6
    <2>2. Len(r) = logged + 1 \/ Len(r) >= q
      BY <1>1, <1>2, <1>3
    <2>. QED BY <2>1, <2>2, <1>1, <1>2, <1>4, <1>6 DEF RingRecent, q
  <1>. QED BY <1>5, <1>6


(* What was sent is sent without gap, up to e and, since what still waits comes *)
(* later, above it.                                                             *)
LEMMA SkipsNothing ==
  ASSUME NEW S \in SUBSET Nat, NEW W \in SUBSET Nat, NEW M \in SUBSET Nat, NEW f \in Nat, NEW e \in Nat, NEW l \in Nat,
         \A k \in f .. e : k \in S, \A k \in e + 1 .. l : k \in S \cup W \cup M,
         \A k \in S : k <= l, \A k \in S : \A c \in W : k <= e \/ k < c
  PROVE  \A k \in S : \A i \in f .. k : i \in S \cup M
  <1>. SUFFICES ASSUME NEW k \in S, NEW i \in f .. k PROVE i \in S \cup M
    OBVIOUS
  <1>1. k \in Nat /\ i \in Nat /\ i <= k /\ k <= l /\ f <= i
    OBVIOUS
  <1>2. CASE i <= e
    BY <1>1, <1>2
  <1>3. CASE i > e
    <2>1. i \in e + 1 .. l /\ ~(k <= e) /\ ~(k < i)
      BY <1>1, <1>3
    <2>. QED BY <2>1
  <1>. QED BY <1>1, <1>2, <1>3


(* The handler starts with nothing sent. *)
LEMMA TailStarts == LogTailInit => TailInv
  <1>. SUFFICES ASSUME LogTailInit PROVE TailInv
    OBVIOUS
  <1>1. LogTailTypeOK
    BY TailParameters DEF LogTailInit, LogTailTypeOK
  <1>2. RingRecent /\ Sequential /\ Promised
    BY TailParameters DEF LogTailInit, RingRecent, Sequential, Promised
  <1>3. NothingSkipped
    BY ToSetFacts DEF LogTailInit, NothingSkipped
  <1>4. Delivery(0)
    BY DEF LogTailInit, Delivery
  <1>. QED BY <1>1, <1>2, <1>3, <1>4 DEF TailInv

(* emit, in the goroutine that logs, at any moment of the reader. *)
LEMMA LogStep == ASSUME TailInv, Log PROVE TailInv'
  <1>1. LogTailTypeOK /\ RingRecent /\ Sequential /\ Promised /\ NothingSkipped
    BY DEF TailInv
  <1>2. logged \in Nat /\ logged' = logged + 1 /\ logged < MaxLogged /\ MaxLogged \in Nat /\ logged' \in Nat
    BY <1>1, TailParameters DEF Log, LogTailTypeOK
  <1>3. UNCHANGED <<sub, tpc, hist, pending, from, sent>>
    BY DEF Log
  <1>4. PICK e \in Nat : Delivery(e)
    BY DEF TailInv
  <1>5. RingRecent'
    BY <1>1, <1>2, RingStep
  <1>6. \/ sub # "active" /\ chan' = chan /\ missed' = missed
        \/ sub = "active" /\ Len(chan) < SubCap /\ chan' = Append(chan, logged + 1) /\ missed' = missed
        \/ sub = "active" /\ chan' = chan /\ missed' = missed \cup {logged + 1}
    BY DEF Log
  <1>7. Promised' /\ Len(chan') <= SubCap
    <2>1. CASE chan' = chan
      <3>1. missed' \in SUBSET Nat
        BY <1>1, <1>2, <1>6 DEF Promised
      <3>2. \A i \in 1 .. Len(chan') : chan'[i] \in 1 .. logged'
        BY <2>1, <1>1, <1>2 DEF Promised
      <3>. QED BY <2>1, <3>1, <3>2, <1>1 DEF Promised, LogTailTypeOK
    <2>2. CASE chan' = Append(chan, logged + 1) /\ missed' = missed /\ Len(chan) < SubCap
      <3>1. /\ chan' \in Seq(Nat) /\ Len(chan') = Len(chan) + 1 /\ chan'[Len(chan) + 1] = logged + 1
            /\ \A i \in 1 .. Len(chan) : chan'[i] = chan[i]
        BY <2>2, <1>1, <1>2 DEF Promised
      <3>2. Len(chan) \in Nat /\ \A i \in 1 .. Len(chan) : chan[i] \in 1 .. logged
        BY <1>1 DEF Promised
      <3>3. \A i \in 1 .. Len(chan') : chan'[i] \in 1 .. logged'
        BY <3>1, <3>2, <1>2
      <3>4. ASSUME NEW i \in 1 .. Len(chan'), NEW j \in 1 .. Len(chan'), i < j PROVE chan'[i] < chan'[j]
        <4>1. i \in 1 .. Len(chan) /\ chan'[i] = chan[i] /\ chan[i] \in 1 .. logged
          BY <3>1, <3>2, <3>4
        <4>2. CASE j \in 1 .. Len(chan)
          BY <3>1, <4>1, <4>2, <3>4, <1>1 DEF Promised
        <4>3. CASE j = Len(chan) + 1
          BY <3>1, <4>1, <4>3, <1>2
        <4>. QED BY <4>2, <4>3, <3>1, <3>2
      <3>5. Len(chan') <= SubCap
        BY <3>1, <3>2, <2>2, TailParameters
      <3>. QED BY <3>1, <3>3, <3>4, <3>5, <2>2, <1>1 DEF Promised
    <2>. QED BY <1>6, <2>1, <2>2
  <1>8. LogTailTypeOK' /\ Sequential'
    <2>1. logged' \in 0 .. MaxLogged
      BY <1>2
    <2>2. missed' \subseteq 1 .. MaxLogged
      <3>1. logged + 1 \in 1 .. MaxLogged /\ missed \subseteq 1 .. MaxLogged
        BY <1>1, <1>2 DEF LogTailTypeOK
      <3>. QED BY <3>1, <1>6
    <2>3. Len(ring') <= RingCap
      BY <1>5 DEF RingRecent
    <2>. QED BY <2>1, <2>2, <2>3, <1>1, <1>3, <1>7 DEF LogTailTypeOK, Sequential
  <1>9. NothingSkipped'
    BY <1>1, <1>3, <1>6 DEF NothingSkipped
  <1>a. /\ chan \in Seq(Nat) /\ ToSet(chan) \subseteq ToSet(chan') /\ missed \subseteq missed'
        /\ sub = "active" => logged + 1 \in ToSet(chan') \cup missed'
        /\ \A c \in ToSet(chan') : c \in ToSet(chan) \/ c = logged + 1
    <2>1. chan \in Seq(Nat) /\ logged + 1 \in Nat
      BY <1>1, <1>2 DEF Promised
    <2>2. ToSet(Append(chan, logged + 1)) = ToSet(chan) \cup {logged + 1}
      BY <2>1, ToSetFacts
    <2>. QED BY <1>6, <2>1, <2>2
  <1>b. Delivery(e)'
    <2>1. CASE tpc = "history"
      <3>1. InHistory(e)
        BY <1>4, <2>1 DEF Delivery
      <3>2. Follow => sub' = "active" /\ \A k \in e + 1 .. logged' : k \in ToSet(chan') \cup missed'
        <4>. SUFFICES ASSUME Follow
                      PROVE  sub' = "active" /\ \A k \in e + 1 .. logged' : k \in ToSet(chan') \cup missed'
          OBVIOUS
        <4>1. sub = "active" /\ \A k \in e + 1 .. logged : k \in ToSet(chan) \cup missed
          BY <3>1 DEF InHistory
        <4>2. \A k \in e + 1 .. logged' : k = logged + 1 \/ k \in e + 1 .. logged
          BY <1>2
        <4>. QED BY <4>1, <4>2, <1>3, <1>a
      <3>3. InHistory(e)'
        BY <3>1, <3>2, <1>2, <1>3, <1>1 DEF InHistory, Sequential
      <3>. QED BY <3>3, <2>1, <1>3 DEF Delivery
    <2>2. CASE tpc = "follow"
      <3>1. Following(e)
        BY <1>4, <2>2 DEF Delivery
      <3>2. \A k \in e + 1 .. logged' : k \in ToSet(sent') \cup ToSet(pending') \cup ToSet(chan') \cup missed'
        BY <3>1, <1>2, <1>3, <1>a DEF Following
      <3>3. ToSet(sent) \subseteq Nat /\ ToSet(pending) \subseteq Nat
        BY <1>1, ToSetFacts DEF Sequential
      <3>4. \A k \in ToSet(sent') \cup ToSet(pending') : k <= logged'
        BY <3>1, <3>3, <1>2, <1>3 DEF Following
      <3>5. \A k \in ToSet(sent) \cup ToSet(pending) : k < logged + 1
        BY <3>1, <3>3, <1>2 DEF Following
      <3>6. \A k \in ToSet(sent') : \A c \in ToSet(pending') \cup ToSet(chan') : k <= e \/ k < c
        BY <3>1, <3>5, <1>3, <1>a DEF Following
      <3>7. \A k \in ToSet(pending') : \A c \in ToSet(chan') : k <= e \/ k < c
        BY <3>1, <3>5, <1>3, <1>a DEF Following
      <3>8. e \in Nat /\ from' >= 1 /\ e <= logged' /\ sub' = "active" /\ \A k \in from' .. e : k \in ToSet(sent')
        BY <3>1, <1>2, <1>3 DEF Following
      <3>9. Following(e)'
        BY <3>2, <3>4, <3>6, <3>7, <3>8 DEF Following
      <3>. QED BY <3>9, <2>2, <1>3 DEF Delivery
    <2>3. CASE tpc \notin {"history", "follow"}
      BY <2>3, <1>3, <1>4 DEF Delivery
    <2>. QED BY <2>1, <2>2, <2>3
  <1>. QED BY <1>5, <1>7, <1>8, <1>9, <1>b, <1>4 DEF TailInv


(* The reader's steps before it sends: it subscribes, then copies the history. *)
LEMMA OpeningStep == ASSUME TailInv, Subscribe \/ Snapshot PROVE TailInv'
  <1>1. LogTailTypeOK /\ RingRecent /\ Sequential /\ Promised /\ NothingSkipped
    BY DEF TailInv
  <1>2. PICK e \in Nat : Delivery(e)
    BY DEF TailInv
  <1>3. CASE Subscribe
    <2>1. UNCHANGED <<logged, ring, chan, missed, hist, pending, from, sent>> /\ tpc = "start" /\ tpc' = "snapshot"
          /\ sub' = IF Follow THEN "active" ELSE sub
      BY <1>3 DEF Subscribe
    <2>2. hist = <<>> /\ pending = <<>> /\ sent = <<>>
      BY <1>2, <2>1 DEF Delivery
    <2>3. Delivery(e)'
      BY <2>1, <2>2 DEF Delivery
    <2>4. LogTailTypeOK' /\ RingRecent' /\ Sequential' /\ Promised' /\ NothingSkipped'
      BY <2>1, <1>1 DEF LogTailTypeOK, RingRecent, Sequential, Promised, NothingSkipped
    <2>. QED BY <2>3, <2>4 DEF TailInv
  <1>4. CASE Snapshot
    <2>1. /\ UNCHANGED <<logged, ring, sub, chan, missed, pending, sent>> /\ tpc = "snapshot" /\ tpc' = "history"
          /\ hist' = Latest(ring, Want) /\ from' = logged + 1 - Len(hist')
      BY <1>4 DEF Snapshot
    <2>2. hist = <<>> /\ pending = <<>> /\ sent = <<>> /\ (Follow => sub = "active")
      BY <1>2, <2>1 DEF Delivery
    <2>3. logged \in Nat /\ logged <= MaxLogged /\ MaxLogged \in Nat /\ Want \in Nat
      BY <1>1, TailParameters DEF LogTailTypeOK
    <2>. PICK l \in Nat : l = logged
      BY <2>3
    <2>. DEFINE t == Latest(ring, Want)
    <2>r. ring \in Seq(Nat) /\ Len(ring) <= l /\ \A i \in 1 .. Len(ring) : ring[i] = l - Len(ring) + i
      BY <1>1 DEF RingRecent
    <2>t. /\ t \in Seq(Nat) /\ Len(t) <= Len(ring) /\ Len(t) = (IF Want >= Len(ring) THEN Len(ring) ELSE Want)
          /\ \A i \in 1 .. Len(t) : t[i] = l - Len(t) + i
      <3>. HIDE DEF t
      <3>. QED BY <2>r, <2>3, LatestFacts DEF t
    <2>4. /\ hist' \in Seq(Nat) /\ Len(hist') <= Len(ring) /\ Len(hist') = (IF Want >= Len(ring) THEN Len(ring) ELSE Want)
          /\ \A i \in 1 .. Len(hist') : hist'[i] = l - Len(hist') + i
      BY <2>1, <2>t, Zenon
    <2>. HIDE DEF t
    <2>5. Len(hist') \in Nat /\ Len(hist') <= logged /\ from' \in 1 .. MaxLogged + 1
      <3>1. Len(hist') \in Nat /\ Len(ring) \in Nat
        BY <2>4, <2>r
      <3>2. Len(hist') <= logged
        BY <3>1, <2>4, <2>r
      <3>. QED BY <3>1, <3>2, <2>1, <2>3
    <2>6. Len(hist') = Want \/ from' = 1
      BY <2>1, <2>3, <2>4, <1>1, TailParameters DEF RingRecent
    <2>7. ToSet(sent') = {}
      BY <2>1, <2>2, ToSetFacts
    <2>8. InHistory(l)'
      <3>1. \A k \in Nat : ~(from' <= k /\ k <= l - Len(hist'))
        BY <2>1, <2>3, <2>5
      <3>2. \A k \in l + 1 .. logged' : FALSE
        BY <2>1
      <3>3. from' >= 1 /\ from' <= l - Len(hist') + 1 /\ l <= logged'
        BY <2>1, <2>3, <2>5
      <3>5. \A k \in Nat : k \in ToSet(sent') <=> (from' <= k /\ k <= l - Len(hist'))
        BY <2>1, <2>7, <3>1
      <3>. QED BY <2>1, <2>2, <2>4, <2>6, <3>2, <3>3, <3>5 DEF InHistory
    <2>9. Delivery(l)'
      BY <2>1, <2>8 DEF Delivery
    <2>10. LogTailTypeOK' /\ RingRecent' /\ Sequential' /\ Promised'
      BY <2>1, <2>4, <2>5, <1>1 DEF LogTailTypeOK, RingRecent, Sequential, Promised
    <2>11. NothingSkipped'
      BY <2>7 DEF NothingSkipped
    <2>. QED BY <2>9, <2>10, <2>11 DEF TailInv
  <1>. QED BY <1>3, <1>4


(* A chunk of history is sent: its lines move from what waits to what was sent. *)
LEMMA EmitHistoryStep == ASSUME TailInv, EmitHistory PROVE TailInv'
  <1>1. LogTailTypeOK /\ RingRecent /\ Sequential /\ Promised
    BY DEF TailInv
  <1>2. PICK e \in Nat : Delivery(e)
    BY DEF TailInv
  <1>3. /\ UNCHANGED <<logged, ring, sub, chan, missed, tpc, pending, from>> /\ tpc = "history" /\ hist # <<>>
        /\ sent' = sent \o Chunk(hist) /\ hist' = SubSeq(hist, Len(Chunk(hist)) + 1, Len(hist))
    BY DEF EmitHistory
  <1>4. hist \in Seq(Nat) /\ sent \in Seq(Nat) /\ pending \in Seq(Nat) /\ from \in Nat /\ MaxLogged \in Nat
    BY <1>1, TailParameters DEF Sequential, LogTailTypeOK
  <1>5. InHistory(e)
    BY <1>2, <1>3 DEF Delivery
  <1>. DEFINE n == Len(hist)
              u == Chunk(hist)
  <1>6. PICK c \in 1 .. n :
            /\ u \in Seq(Nat) /\ Len(u) = c /\ \A i \in 1 .. c : u[i] = hist[i]
            /\ hist' \in Seq(Nat) /\ Len(hist') = n - c /\ \A i \in 1 .. n - c : hist'[i] = hist[i + c]
    <2>1. \E c \in 1 .. Len(hist) :
              /\ Chunk(hist) \in Seq(Nat) /\ Len(Chunk(hist)) = c
              /\ \A i \in 1 .. c : Chunk(hist)[i] = hist[i]
              /\ SubSeq(hist, Len(Chunk(hist)) + 1, Len(hist)) \in Seq(Nat)
              /\ Len(SubSeq(hist, Len(Chunk(hist)) + 1, Len(hist))) = Len(hist) - c
              /\ \A i \in 1 .. Len(hist) - c : SubSeq(hist, Len(Chunk(hist)) + 1, Len(hist))[i] = hist[i + c]
      BY <1>3, <1>4, ChunkFacts
    <2>. QED BY <2>1, <1>3
  <1>7. sent' = sent \o u
    BY <1>3
  <1>. HIDE DEF u
  <1>8. n \in Nat /\ e \in Nat /\ n >= 1 /\ from <= e - n + 1 /\ \A i \in 1 .. n : hist[i] = e - n + i
    BY <1>4, <1>5, <1>6 DEF InHistory
  <1>9. sent' \in Seq(Nat) /\ ToSet(sent') = ToSet(sent) \cup ToSet(u)
    BY <1>4, <1>6, <1>7, ToSetFacts
  <1>10. \A k \in Nat : k \in ToSet(u) <=> (e - n < k /\ k <= e - n + c)
    <2>1. ASSUME NEW k \in ToSet(u) PROVE e - n < k /\ k <= e - n + c
      <3>1. PICK i \in 1 .. c : u[i] = k
        BY <1>6, InSeq
      <3>2. k = e - n + i
        BY <3>1, <1>6, <1>8
      <3>. QED BY <3>2, <1>8
    <2>2. ASSUME NEW k \in Nat, e - n < k, k <= e - n + c PROVE k \in ToSet(u)
      <3>1. k - (e - n) \in 1 .. c
        BY <2>2, <1>8
      <3>2. u[k - (e - n)] = k
        BY SMTT(30), <3>1, <1>6, <1>8
      <3>. QED BY <3>1, <3>2, <1>6, InSeq
    <2>. QED BY <2>1, <2>2
  <1>11. InHistory(e)'
    <2>1. \A k \in Nat : k \in ToSet(sent') <=> (from' <= k /\ k <= e - Len(hist'))
      <3>1. \A k \in Nat : k \in ToSet(sent) <=> (from <= k /\ k <= e - n)
        BY <1>5 DEF InHistory
      <3>2. Len(hist') = n - c /\ from' = from
        BY <1>3, <1>6
      <3>. QED BY SMTT(30), <3>1, <3>2, <1>4, <1>8, <1>9, <1>10
    <2>2. \A i \in 1 .. Len(hist') : hist'[i] = e - Len(hist') + i
      BY <1>6, <1>8
    <2>3. from' <= e - Len(hist') + 1
      <3>1. Len(hist') = n - c /\ from' = from
        BY <1>3, <1>6
      <3>2. c \in Nat
        BY <1>6, <1>8
      <3>. HIDE DEF n
      <3>. QED BY <3>1, <3>2, <1>4, <1>8
    <2>4. sent' # <<>>
      <3>1. e - n + 1 \in Nat
        BY <1>4, <1>8
      <3>2. e - n + 1 \in ToSet(u)
        BY <3>1, <1>8, <1>10
      <3>. QED BY <3>2, <1>9, ToSetFacts
    <2>. QED BY <2>1, <2>2, <2>3, <2>4, <1>3, <1>5 DEF InHistory
  <1>12. LogTailTypeOK' /\ RingRecent' /\ Sequential' /\ Promised'
    BY <1>1, <1>3, <1>6, <1>9 DEF LogTailTypeOK, RingRecent, Sequential, Promised
  <1>13. NothingSkipped'
    <2>. SUFFICES ASSUME NEW k \in ToSet(sent'), NEW i \in from .. k PROVE i \in ToSet(sent')
      BY <1>3 DEF NothingSkipped
    <2>1. k \in Nat /\ i \in Nat /\ from <= i /\ i <= k
      BY <1>4, <1>9, ToSetFacts
    <2>2. \A m \in Nat : m \in ToSet(sent') <=> (from <= m /\ m <= e - Len(hist'))
      BY <1>3, <1>11 DEF InHistory
    <2>3. Len(hist') \in Nat
      BY <1>6
    <2>. QED BY <2>1, <2>2, <2>3, <1>4, <1>8
  <1>14. Delivery(e)'
    BY <1>3, <1>11 DEF Delivery
  <1>. QED BY <1>12, <1>13, <1>14 DEF TailInv


(* The history is sent: a follower goes on with its channel. *)
LEMMA HistorySentStep == ASSUME TailInv, HistorySent PROVE TailInv'
  <1>1. LogTailTypeOK /\ RingRecent /\ Sequential /\ Promised /\ NothingSkipped
    BY DEF TailInv
  <1>2. PICK e \in Nat : Delivery(e)
    BY DEF TailInv
  <1>3. /\ UNCHANGED <<logged, ring, sub, chan, missed, hist, pending, from, sent>>
        /\ tpc = "history" /\ hist = <<>> /\ tpc' = IF Follow THEN "follow" ELSE "done"
    BY DEF HistorySent
  <1>4. InHistory(e)
    BY <1>2, <1>3 DEF Delivery
  <1>5. LogTailTypeOK' /\ RingRecent' /\ Sequential' /\ Promised' /\ NothingSkipped'
    BY <1>1, <1>3 DEF LogTailTypeOK, RingRecent, Sequential, Promised, NothingSkipped
  <1>6. ASSUME Follow PROVE Following(e)'
    <2>1. Len(hist) = 0 /\ ToSet(pending) = {} /\ from \in Nat /\ e \in Nat /\ logged \in Nat
      BY <1>1, <1>3, <1>4, ToSetFacts DEF InHistory, LogTailTypeOK
    <2>2. /\ e <= logged /\ sub = "active" /\ from >= 1 /\ \A k \in Nat : k \in ToSet(sent) <=> (from <= k /\ k <= e)
          /\ \A k \in e + 1 .. logged : k \in ToSet(chan) \cup missed
      BY <2>1, <1>4, <1>6 DEF InHistory
    <2>3. \A k \in ToSet(sent) : k <= e /\ k <= logged
      <3>1. ToSet(sent) \subseteq Nat
        BY <1>1, ToSetFacts DEF Sequential
      <3>. QED BY <3>1, <2>1, <2>2
    <2>4. \A k \in from .. e : k \in ToSet(sent)
      BY <2>1, <2>2
    <2>. QED BY <2>1, <2>2, <2>3, <2>4, <1>3 DEF Following
  <1>7. Delivery(e)'
    BY <1>3, <1>6 DEF Delivery
  <1>. QED BY <1>5, <1>7 DEF TailInv

(* A follower takes the next line of its channel, which comes after all it has had *)
(* since the history; a full chunk is sent.                                        *)
LEMMA CollectStep == ASSUME TailInv, Collect PROVE TailInv'
  <1>1. LogTailTypeOK /\ RingRecent /\ Sequential /\ Promised /\ NothingSkipped
    BY DEF TailInv
  <1>2. PICK e \in Nat : Delivery(e)
    BY DEF TailInv
  <1>. DEFINE x == Head(chan)
              batch == Append(pending, x)
  <1>3. /\ UNCHANGED <<logged, ring, sub, missed, tpc, hist, from>>
        /\ tpc = "follow" /\ chan # <<>> /\ chan' = Tail(chan)
        /\ \/ Len(batch) >= ChunkLines /\ sent' = sent \o batch /\ pending' = <<>>
           \/ ~(Len(batch) >= ChunkLines) /\ pending' = batch /\ sent' = sent
    BY DEF Collect
  <1>4. /\ chan \in Seq(Nat) /\ pending \in Seq(Nat) /\ sent \in Seq(Nat) /\ hist \in Seq(Nat)
        /\ logged \in Nat /\ from \in Nat /\ ChunkLines \in Nat
    BY <1>1, TailParameters DEF Promised, Sequential, LogTailTypeOK
  <1>5. Following(e)
    BY <1>2, <1>3 DEF Delivery
  <1>6. x \in Nat /\ chan' \in Seq(Nat) /\ ToSet(chan) = {x} \cup ToSet(chan')
    BY <1>3, <1>4, ToSetFacts
  <1>7. /\ Len(chan) \in Nat /\ Len(chan) >= 1 /\ Len(chan') = Len(chan) - 1 /\ x = chan[1]
        /\ \A i \in 1 .. Len(chan) - 1 : chan'[i] = chan[i + 1]
    BY <1>3, <1>4
  <1>8. \A i, j \in 1 .. Len(chan) : i < j => chan[i] < chan[j]
    BY <1>1 DEF Promised
  <1>9. \A i \in 1 .. Len(chan) : chan[i] \in 1 .. logged
    BY <1>1 DEF Promised
  <1>10. \A c \in ToSet(chan') : x < c
    <2>1. ASSUME NEW c \in ToSet(chan') PROVE x < c
      <3>1. PICK i \in 1 .. Len(chan') : chan'[i] = c
        BY <1>6, InSeq
      <3>2. i + 1 \in 1 .. Len(chan) /\ c = chan[i + 1] /\ 1 \in 1 .. Len(chan) /\ 1 < i + 1
        BY <3>1, <1>7
      <3>. QED BY <3>2, <1>7, <1>8
    <2>. QED BY <2>1
  <1>11. x <= logged
    BY <1>4, <1>7, <1>9
  <1>12. batch \in Seq(Nat) /\ ToSet(batch) = ToSet(pending) \cup {x}
    BY <1>4, <1>6, ToSetFacts
  <1>13. Promised'
    <2>1. \A i \in 1 .. Len(chan') : chan'[i] \in 1 .. logged
      BY <1>7, <1>9
    <2>2. ASSUME NEW i \in 1 .. Len(chan'), NEW j \in 1 .. Len(chan'), i < j PROVE chan'[i] < chan'[j]
      <3>1. i + 1 \in 1 .. Len(chan) /\ j + 1 \in 1 .. Len(chan) /\ i + 1 < j + 1
        BY <2>2, <1>7
      <3>2. chan'[i] = chan[i + 1] /\ chan'[j] = chan[j + 1]
        BY <2>2, <1>7
      <3>. QED BY <3>1, <3>2, <1>8
    <2>. QED BY <2>1, <2>2, <1>1, <1>3, <1>6 DEF Promised
  <1>. HIDE DEF x, batch
  <1>14. /\ sent' \in Seq(Nat) /\ pending' \in Seq(Nat) /\ Len(pending') < ChunkLines
         /\ \/ ToSet(sent') = ToSet(sent) \cup ToSet(pending) \cup {x} /\ ToSet(pending') = {}
            \/ ToSet(sent') = ToSet(sent) /\ ToSet(pending') = ToSet(pending) \cup {x}
    <2>1. CASE sent' = sent \o batch /\ pending' = <<>>
      <3>1. sent' \in Seq(Nat) /\ ToSet(sent') = ToSet(sent) \cup ToSet(batch)
        BY <2>1, <1>4, <1>12, ToSetFacts
      <3>2. pending' \in Seq(Nat) /\ ToSet(pending') = {} /\ Len(pending') = 0
        BY <2>1, ToSetFacts
      <3>. QED BY <3>1, <3>2, <1>12, TailParameters
    <2>2. CASE ~(Len(batch) >= ChunkLines) /\ pending' = batch /\ sent' = sent
      BY <2>2, <1>4, <1>12
    <2>. QED BY <1>3, <2>1, <2>2
  <1>15. Following(e)'
    <2>1. /\ e \in Nat /\ from >= 1 /\ e <= logged /\ sub = "active"
          /\ \A k \in from .. e : k \in ToSet(sent)
          /\ \A k \in e + 1 .. logged : k \in ToSet(sent) \cup ToSet(pending) \cup ToSet(chan) \cup missed
          /\ \A k \in ToSet(sent) \cup ToSet(pending) : k <= logged
          /\ \A k \in ToSet(sent) : \A c \in ToSet(pending) \cup ToSet(chan) : k <= e \/ k < c
          /\ \A k \in ToSet(pending) : \A c \in ToSet(chan) : k <= e \/ k < c
      BY <1>5 DEF Following
    <2>2. \A k \in from .. e : k \in ToSet(sent')
      BY <2>1, <1>14
    <2>3. \A k \in e + 1 .. logged : k \in ToSet(sent') \cup ToSet(pending') \cup ToSet(chan') \cup missed
      BY <2>1, <1>6, <1>14
    <2>4. \A k \in ToSet(sent') \cup ToSet(pending') : k <= logged
      BY <2>1, <1>11, <1>14
    <2>5. \A k \in ToSet(sent') : \A c \in ToSet(pending') \cup ToSet(chan') : k <= e \/ k < c
      BY <2>1, <1>6, <1>10, <1>14
    <2>6. \A k \in ToSet(pending') : \A c \in ToSet(chan') : k <= e \/ k < c
      BY <2>1, <1>6, <1>10, <1>14
    <2>. QED BY <2>1, <2>2, <2>3, <2>4, <2>5, <2>6, <1>3 DEF Following
  <1>16. Sequential' /\ RingRecent' /\ LogTailTypeOK'
    <2>1. Len(chan') <= SubCap
      BY <1>1, <1>7, TailParameters DEF LogTailTypeOK
    <2>. QED BY <2>1, <1>1, <1>3, <1>14 DEF Sequential, RingRecent, LogTailTypeOK
  <1>17. NothingSkipped'
    <2>. DEFINE S == ToSet(sent')
                W == ToSet(pending') \cup ToSet(chan')
    <2>1. S \in SUBSET Nat /\ W \in SUBSET Nat /\ missed \in SUBSET Nat
      BY <1>1, <1>6, <1>14, ToSetFacts DEF Promised
    <2>2. /\ e \in Nat /\ \A k \in from .. e : k \in S
          /\ \A k \in e + 1 .. logged : k \in S \cup W \cup missed
          /\ \A k \in S : k <= logged
          /\ \A k \in S : \A c \in W : k <= e \/ k < c
      BY <1>3, <1>15 DEF Following
    <2>. HIDE DEF S, W
    <2>3. \A k \in S : \A i \in from .. k : i \in S \cup missed
      BY <2>1, <2>2, <1>4, SkipsNothing
    <2>. QED BY <2>3, <1>3 DEF NothingSkipped, S
  <1>18. Delivery(e)'
    BY <1>3, <1>15 DEF Delivery
  <1>. QED BY <1>13, <1>16, <1>17, <1>18 DEF TailInv

(* The ticker, or the end of the stream, sends what waits. *)
LEMMA SendPendingStep == ASSUME TailInv, Flush \/ CancelTail PROVE TailInv'
  <1>1. LogTailTypeOK /\ RingRecent /\ Sequential /\ Promised /\ NothingSkipped
    BY DEF TailInv
  <1>2. PICK e \in Nat : Delivery(e)
    BY DEF TailInv
  <1>3. /\ UNCHANGED <<logged, ring, missed, hist, from>> /\ tpc = "follow"
        /\ sent' = sent \o pending /\ pending' = <<>>
        /\ \/ chan' = chan /\ tpc' = tpc /\ sub' = sub
           \/ chan' = <<>> /\ tpc' = "done" /\ sub' = "released"
    BY DEF Flush, CancelTail
  <1>4. Following(e)
    BY <1>2, <1>3 DEF Delivery
  <1>5. /\ sent' \in Seq(Nat) /\ ToSet(sent') = ToSet(sent) \cup ToSet(pending)
        /\ pending' \in Seq(Nat) /\ ToSet(pending') = {} /\ Len(pending') = 0
    BY <1>1, <1>3, ToSetFacts DEF Sequential
  <1>6. Sequential' /\ RingRecent' /\ LogTailTypeOK' /\ Promised'
    <2>1. Sequential' /\ RingRecent'
      BY <1>1, <1>3, <1>5 DEF Sequential, RingRecent
    <2>2. Len(pending') < ChunkLines
      BY <1>5, TailParameters
    <2>3. CASE chan' = chan /\ tpc' = tpc /\ sub' = sub
      BY <2>1, <2>2, <2>3, <1>1, <1>3 DEF LogTailTypeOK, Promised
    <2>4. CASE chan' = <<>> /\ tpc' = "done" /\ sub' = "released"
      <3>1. chan' \in Seq(Nat) /\ Len(chan') = 0 /\ SubCap \in Nat
        BY <2>4, TailParameters
      <3>2. Promised'
        BY <3>1, <1>1, <1>3 DEF Promised
      <3>3. LogTailTypeOK'
        BY <3>1, <2>2, <2>4, <1>1, <1>3 DEF LogTailTypeOK
      <3>. QED BY <3>2, <3>3, <2>1
    <2>. QED BY <2>1, <2>3, <2>4, <1>3
  <1>7. logged \in Nat /\ from \in Nat
    BY <1>1, TailParameters DEF LogTailTypeOK
  <1>8. /\ e \in Nat /\ from >= 1 /\ e <= logged /\ sub = "active"
        /\ \A k \in from .. e : k \in ToSet(sent')
        /\ \A k \in e + 1 .. logged : k \in ToSet(sent') \cup ToSet(pending') \cup ToSet(chan) \cup missed
        /\ \A k \in ToSet(sent') \cup ToSet(pending') : k <= logged
        /\ \A k \in ToSet(sent') : \A c \in ToSet(pending') \cup ToSet(chan) : k <= e \/ k < c
        /\ \A k \in ToSet(pending') : \A c \in ToSet(chan) : k <= e \/ k < c
    BY <1>4, <1>5 DEF Following
  <1>9. NothingSkipped'
    <2>. SUFFICES ASSUME NEW k \in ToSet(sent'), NEW i \in from .. k
                  PROVE  i \in ToSet(sent') \cup missed
      BY <1>3 DEF NothingSkipped
    <2>1. k \in Nat /\ i \in Nat /\ i <= k /\ k <= logged /\ from <= i
      BY <1>5, <1>7, <1>8, ToSetFacts
    <2>2. CASE i <= e
      BY <2>1, <2>2, <1>7, <1>8
    <2>3. CASE i > e
      <3>1. i \in e + 1 .. logged /\ ~(k <= e)
        BY <2>1, <2>3, <1>7, <1>8
      <3>2. i \notin ToSet(chan)
        BY <2>1, <3>1, <1>8
      <3>. QED BY <3>1, <3>2, <1>5, <1>8
    <2>. QED BY <2>1, <2>2, <2>3, <1>8
  <1>10. Delivery(e)'
    <2>1. CASE chan' = chan /\ tpc' = tpc /\ sub' = sub
      BY <2>1, <1>3, <1>8 DEF Delivery, Following
    <2>2. CASE tpc' = "done"
      BY <2>2 DEF Delivery
    <2>. QED BY <1>3, <2>1, <2>2
  <1>. QED BY <1>6, <1>9, <1>10 DEF TailInv

(* A write to the client fails: what was sent before stays as it was. *)
LEMMA EmitFailsStep == ASSUME TailInv, EmitFails PROVE TailInv'
  <1>1. LogTailTypeOK /\ RingRecent /\ Sequential /\ Promised /\ NothingSkipped
    BY DEF TailInv
  <1>2. /\ UNCHANGED <<logged, ring, missed, from, sent>> /\ tpc' = "done"
        /\ sub' = (IF Follow THEN "released" ELSE sub) /\ hist' = <<>> /\ pending' = <<>> /\ chan' = <<>>
    BY DEF EmitFails
  <1>3. LogTailTypeOK' /\ RingRecent' /\ Sequential' /\ Promised' /\ NothingSkipped'
    BY <1>1, <1>2, TailParameters DEF LogTailTypeOK, RingRecent, Sequential, Promised, NothingSkipped
  <1>4. Delivery(0)'
    BY <1>2 DEF Delivery
  <1>. QED BY <1>3, <1>4 DEF TailInv

(* Every step of the log and of its reader keeps what was delivered in order. *)
LEMMA TailStep == TailInv /\ [LogTailNext]_tail => TailInv'
  <1>. SUFFICES ASSUME TailInv, [LogTailNext]_tail PROVE TailInv'
    OBVIOUS
  <1>1. CASE UNCHANGED tail
    <2>1. PICK e \in Nat : Delivery(e)
      BY DEF TailInv
    <2>2. Delivery(e)'
      BY <2>1, <1>1 DEF Delivery, InHistory, Following, tail
    <2>. QED BY <2>2, <1>1 DEF TailInv, LogTailTypeOK, RingRecent, Sequential, Promised, NothingSkipped, tail
  <1>. QED
    BY <1>1, LogStep, OpeningStep, EmitHistoryStep, HistorySentStep, CollectStep, SendPendingStep, EmitFailsStep
       DEF LogTailNext, Tailing

(* While nothing of the history was sent it is the latest lines, in their order. *)
LEMMA TailMeans == TailInv => HistoryIsLatest
  <1>. SUFFICES ASSUME TailInv, tpc = "history", sent = <<>>
                PROVE  (Len(hist) = Want \/ from = 1) /\ \A i \in 1 .. Len(hist) : hist[i] = from + i - 1
    BY DEF HistoryIsLatest
  <1>1. PICK e \in Nat : InHistory(e)
    BY DEF TailInv, Delivery
  <1>2. Len(hist) \in Nat /\ from \in Nat
    BY TailParameters DEF TailInv, Sequential, LogTailTypeOK
  <1>3. \A k \in Nat : ~(from <= k /\ k <= e - Len(hist))
    BY <1>1, ToSetFacts DEF InHistory
  <1>4. from = e - Len(hist) + 1
    <2>1. from <= e - Len(hist) + 1
      BY <1>1 DEF InHistory
    <2>2. ~(from <= e - Len(hist))
      BY <1>2, <1>3
    <2>. QED BY <2>1, <2>2, <1>2
  <1>. QED BY <1>1, <1>2, <1>4 DEF InHistory

(***************************************************************************)
(* Control.                                                                *)
(***************************************************************************)

Gone == {"draining", "unlinked", "exited", "failed", "killed"}

\* One daemon runs with the data directory's lock; its listener is open from Bind
\* to Close, and a file that is no socket keeps its path.
DaemonsInv ==
    /\ \A s \in Server : s \in open <=> life[s] \in {"place", "up"}
    /\ \A s \in Server : life[s] \in {"stale", "bind", "place", "up", "draining"} => path # Foreign
    /\ OneDataDir =>
        /\ \A s, q \in Server : life[s] \in Running /\ life[q] \in Running => s = q
        /\ \A s \in Server :
            /\ life[s] = "place" => tmp = s
            /\ life[s] = "up" => path = s
            /\ life[s] = "refused" => path = Foreign

\* What is written to a connection: chunks, then one last response.
WrittenInOrder(c) ==
    /\ read[c] <= Len(lines[c])
    /\ sv[c] \in {"none", "queued", "accepted", "reading", "dispatch"} => lines[c] = <<>>
    /\ \A i \in 1 .. Len(lines[c]) : lines[c][i] # "more" => i = Len(lines[c]) /\ sv[c] = "closed"
    /\ \A i \in 1 .. Len(lines[c]) : lines[c][i] = "ok" /\ ask[c] = "command" => job[c] = "ok"

\* What the client has made of it.
ReadInOrder(c) ==
    /\ cl[c] = "idle" => sv[c] = "none" /\ got[c] = "none"
    /\ cl[c] = "sent" => got[c] = "none" /\ \A i \in 1 .. read[c] : lines[c][i] = "more"
    /\ got[c] = "ok" => read[c] > 0 /\ read[c] = Len(lines[c]) /\ lines[c][read[c]] = "ok"
    /\ got[c] \in {"ok", "eof"} => sv[c] = "closed"

\* A connection is closed with a last response, the whole history in front of it,
\* unless its client gave up or its daemon went down.
ClosedWell(c) ==
    /\ sv[c] # "none" => to[c] \in Server /\ life[to[c]] \in {"place", "up"} \cup Gone
    /\ sv[c] = "dispatch" => ask[c] = "command"
    /\ sv[c] = "stream" => ask[c] \in {"logs", "follow"}
    /\ sv[c] \notin {"none", "closed"} /\ cl[c] = "over" => got[c] = "gaveUp"
    /\ sv[c] = "closed" /\ ask[c] # "none" =>
           life[to[c]] \in Gone \/ (Len(lines[c]) > 0 /\ lines[c][Len(lines[c])] # "more")
    /\ sv[c] = "closed" /\ ask[c] = "logs" /\ Len(lines[c]) > 0 /\ lines[c][Len(lines[c])] = "ok" =>
           life[to[c]] \in Gone \/ Len(lines[c]) = History + 1 \/ got[c] = "gaveUp"
    /\ got[c] = "eof" => ask[c] = "none" \/ life[to[c]] \in Gone

CallInv(c) == WrittenInOrder(c) /\ ReadInOrder(c) /\ ClosedWell(c)

ControlInv == ControlTypeOK /\ DaemonsInv /\ \A c \in Client : CallInv(c)

(* What the invariant is for. *)
LEMMA ControlMeans ==
  ControlInv => /\ ControlTypeOK /\ OkMeansDone /\ OneAnswer /\ Answered /\ HistoryDelivered
                /\ OneDataDir => RestartListens /\ ServedIsReachable
  <1>. SUFFICES ASSUME ControlInv
                PROVE  /\ ControlTypeOK /\ OkMeansDone /\ OneAnswer /\ Answered /\ HistoryDelivered
                       /\ OneDataDir => RestartListens /\ ServedIsReachable
    OBVIOUS
  <1>1. ASSUME NEW c \in Client PROVE WrittenInOrder(c) /\ ReadInOrder(c) /\ ClosedWell(c)
    BY DEF ControlInv, CallInv
  <1>2. ASSUME NEW c \in Client PROVE lines[c] \in Seq(Responses) /\ Len(lines[c]) \in Nat /\ read[c] \in Nat
    BY DEF ControlInv, ControlTypeOK
  <1>3. OkMeansDone
    BY <1>1, <1>2 DEF OkMeansDone, WrittenInOrder, ReadInOrder
  <1>4. OneAnswer
    BY <1>1, <1>2 DEF OneAnswer, WrittenInOrder
  <1>5. Answered
    BY <1>1 DEF Answered, ClosedWell, Gone
  <1>6. HistoryDelivered
    BY <1>1, <1>2 DEF HistoryDelivered, ReadInOrder, ClosedWell, Gone
  <1>7. ASSUME OneDataDir PROVE RestartListens /\ ServedIsReachable
    BY <1>7 DEF ControlInv, DaemonsInv, RestartListens, ServedIsReachable
  <1>. QED BY <1>3, <1>4, <1>5, <1>6, <1>7 DEF ControlInv

(* Daemons that are off serve nobody, and no call was made. *)
LEMMA ControlStarts == ControlInit => ControlInv
  <1>. SUFFICES ASSUME ControlInit PROVE ControlInv
    OBVIOUS
  <1>1. ControlTypeOK
    BY ControlAssumption DEF ControlInit, ControlTypeOK
  <1>2. DaemonsInv
    BY ControlAssumption DEF ControlInit, DaemonsInv, Running
  <1>3. ASSUME NEW c \in Client PROVE CallInv(c)
    <2>1. lines[c] = <<>> /\ Len(lines[c]) = 0 /\ read[c] = 0
      BY DEF ControlInit
    <2>. QED BY <2>1 DEF ControlInit, CallInv, WrittenInOrder, ReadInOrder, ClosedWell
  <1>. QED BY <1>1, <1>2, <1>3 DEF ControlInv

(* A step that leaves a call alone, and takes its daemon at most from starting to *)
(* serving or out of service, keeps what is known of it.                          *)
SameCall(c) ==
    /\ to'[c] = to[c] /\ ask'[c] = ask[c] /\ cl'[c] = cl[c] /\ got'[c] = got[c]
    /\ sv'[c] = sv[c] /\ (job[c] = "ok" => job'[c] = "ok") /\ lines'[c] = lines[c] /\ read'[c] = read[c]

LifeGoesOn(s) ==
    \/ life'[s] = life[s]
    \/ life'[s] \in Gone
    \/ life[s] = "place" /\ life'[s] = "up"
    \/ life[s] \notin {"place", "up"} \cup Gone

(* A call that a step leaves alone keeps what was promised of it. *)
LEMMA Bystander ==
  ASSUME NEW c \in Client, CallInv(c), SameCall(c), \A s \in Server : LifeGoesOn(s) PROVE CallInv(c)'
  <1>1. WrittenInOrder(c)'
    BY DEF CallInv, WrittenInOrder, SameCall
  <1>2. ReadInOrder(c)'
    BY DEF CallInv, ReadInOrder, SameCall
  <1>3. ClosedWell(c)'
    BY DEF CallInv, ClosedWell, ReadInOrder, SameCall, LifeGoesOn, Gone
  <1>. QED BY <1>1, <1>2, <1>3 DEF CallInv


\* The daemons' steps that touch no call, and those of a call that touch no daemon.
DaemonAlone(s) ==
    Launch(s) \/ RefuseDirectory(s) \/ LookAtSocket(s) \/ ClearStaleSocket(s) \/ Bind(s) \/ ListenFails(s)
        \/ Place(s) \/ FinishClose(s)

CallAlone(c) ==
    \/ \E r \in Asks[c] : Dial(c, r)
    \/ Receive(c) \/ EndOfFile(c) \/ GiveUp(c) \/ Conn(c) \/ HandlerEnds(c) \/ StreamFails(c)

(* A daemon starts and stops only as the one that holds the lock. *)
LEMMA DaemonsStep ==
  ASSUME ControlTypeOK, DaemonsInv, NEW s \in Server, DaemonAlone(s) \/ BeginClose(s) \/ Exit(s) \/ Kill(s)
  PROVE  DaemonsInv' /\ (\A q \in Server : LifeGoesOn(q))
         /\ life' \in [Server -> {"off", "look", "stale", "bind", "place", "up", "draining", "unlinked",
                                  "exited", "refused", "failed", "killed"}]
         /\ path' \in Server \cup {NoOne, Foreign} /\ tmp' \in Server \cup {NoOne} /\ open' \in SUBSET Server
  <1>. DEFINE Lives == {"off", "look", "stale", "bind", "place", "up", "draining", "unlinked",
                        "exited", "refused", "failed", "killed"}
  <1>1. /\ life \in [Server -> Lives] /\ path \in Server \cup {NoOne, Foreign} /\ tmp \in Server \cup {NoOne}
        /\ open \in SUBSET Server
        /\ NoOne \notin Server /\ Foreign \notin Server /\ NoOne # Foreign
    BY ControlAssumption DEF ControlTypeOK
  <1>2. PICK b \in Lives : life' = [life EXCEPT ![s] = b] /\ b = life'[s]
    BY <1>1 DEF DaemonAlone, Launch, RefuseDirectory, LookAtSocket, ClearStaleSocket, Bind, ListenFails, Place,
                FinishClose, BeginClose, Exit, Kill, Goes
  <1>3. \A q \in Server : life'[q] = IF q = s THEN b ELSE life[q]
    BY <1>1, <1>2
  <1>4. life' \in [Server -> Lives]
    BY <1>1, <1>2
  <1>5. /\ \A q \in Server : q \in open <=> life[q] \in {"place", "up"}
        /\ \A q \in Server : life[q] \in {"stale", "bind", "place", "up", "draining"} => path # Foreign
    BY DEF DaemonsInv
  <1>6. ASSUME OneDataDir
        PROVE  /\ \A p, q \in Server : life[p] \in Running /\ life[q] \in Running => p = q
               /\ \A q \in Server :
                   /\ life[q] = "place" => tmp = q
                   /\ life[q] = "up" => path = q
                   /\ life[q] = "refused" => path = Foreign
    BY <1>6 DEF DaemonsInv
  <1>. SUFFICES /\ \A q \in Server : LifeGoesOn(q)
                /\ path' \in Server \cup {NoOne, Foreign} /\ tmp' \in Server \cup {NoOne} /\ open' \in SUBSET Server
                /\ \A q \in Server : q \in open' <=> life'[q] \in {"place", "up"}
                /\ \A q \in Server : life'[q] \in {"stale", "bind", "place", "up", "draining"} => path' # Foreign
                /\ OneDataDir => \A p, q \in Server : life'[p] \in Running /\ life'[q] \in Running => p = q
                /\ OneDataDir => \A q \in Server :
                      /\ life'[q] = "place" => tmp' = q
                      /\ life'[q] = "up" => path' = q
                      /\ life'[q] = "refused" => path' = Foreign
    BY <1>4 DEF DaemonsInv
  <1>. HIDE DEF Lives
  <1>7. CASE Launch(s)
    <2>1. life[s] = "off" /\ b = "look" /\ path' = path /\ tmp' = tmp /\ open' = open /\ LockFree(s)
      BY <1>1, <1>2, <1>7 DEF Launch, Goes, Lives
    <2>. QED BY <2>1, <1>1, <1>3, <1>5, <1>6 DEF LifeGoesOn, Gone, Running, LockFree
  <1>8. CASE RefuseDirectory(s)
    <2>1. life[s] = "look" /\ b = "failed" /\ path' = path /\ tmp' = tmp /\ open' = open
      BY <1>1, <1>2, <1>8 DEF RefuseDirectory, Goes, Lives
    <2>. QED BY <2>1, <1>1, <1>3, <1>5, <1>6 DEF LifeGoesOn, Gone, Running
  <1>9. CASE LookAtSocket(s)
    <2>1. /\ life[s] = "look" /\ path' = path /\ tmp' = tmp /\ open' = open
          /\ \/ b = "bind" /\ path = NoOne
             \/ b = "refused" /\ (path = Foreign \/ path \in open)
             \/ b = "stale" /\ path # Foreign
      BY <1>1, <1>2, <1>9 DEF LookAtSocket, Goes, Lives
    <2>2. OneDataDir /\ b = "refused" => path = Foreign
      <3>1. path \in open /\ OneDataDir => life[path] \in Running /\ path \in Server /\ path # s /\ life[s] \in Running
        BY <2>1, <1>1, <1>5 DEF Running
      <3>. QED BY <3>1, <2>1, <1>6
    <2>. QED BY <2>1, <2>2, <1>1, <1>3, <1>5, <1>6 DEF LifeGoesOn, Gone, Running
  <1>10. CASE ClearStaleSocket(s)
    <2>1. life[s] = "stale" /\ b = "bind" /\ path' = NoOne /\ tmp' = tmp /\ open' = open
      BY <1>1, <1>2, <1>10 DEF ClearStaleSocket, Goes, Lives
    <2>. QED BY <2>1, <1>1, <1>3, <1>5, <1>6 DEF LifeGoesOn, Gone, Running
  <1>11. CASE Bind(s)
    <2>1. life[s] = "bind" /\ b = "place" /\ path' = path /\ tmp' = s /\ open' = open \cup {s}
      BY <1>1, <1>2, <1>11 DEF Bind, Goes, Lives
    <2>. QED BY <2>1, <1>1, <1>3, <1>5, <1>6 DEF LifeGoesOn, Gone, Running
  <1>12. CASE ListenFails(s)
    <2>1. life[s] = "place" /\ b = "failed" /\ path' = path /\ tmp' = NoOne /\ open' = open \ {s}
      BY <1>1, <1>2, <1>12 DEF ListenFails, Goes, Lives
    <2>. QED BY <2>1, <1>1, <1>3, <1>5, <1>6 DEF LifeGoesOn, Gone, Running
  <1>13. CASE Place(s)
    <2>1. life[s] = "place" /\ b = "up" /\ path' = tmp /\ tmp' = NoOne /\ open' = open
      BY <1>1, <1>2, <1>13 DEF Place, Goes, Lives
    <2>. QED BY <2>1, <1>1, <1>3, <1>5, <1>6 DEF LifeGoesOn, Gone, Running
  <1>14. CASE BeginClose(s)
    <2>1. life[s] = "up" /\ b = "draining" /\ path' = path /\ tmp' = tmp /\ open' = open \ {s}
      BY <1>1, <1>2, <1>14 DEF BeginClose, Goes, Lives
    <2>. QED BY <2>1, <1>1, <1>3, <1>5, <1>6 DEF LifeGoesOn, Gone, Running
  <1>15. CASE FinishClose(s)
    <2>1. life[s] = "draining" /\ b = "unlinked" /\ path' = NoOne /\ tmp' = tmp /\ open' = open
      BY <1>1, <1>2, <1>15 DEF FinishClose, Goes, Lives
    <2>. QED BY <2>1, <1>1, <1>3, <1>5, <1>6 DEF LifeGoesOn, Gone, Running
  <1>16. CASE Exit(s)
    <2>1. life[s] = "unlinked" /\ b = "exited" /\ path' = path /\ tmp' = tmp /\ open' = open
      BY <1>1, <1>2, <1>16 DEF Exit, Goes, Lives
    <2>. QED BY <2>1, <1>1, <1>3, <1>5, <1>6 DEF LifeGoesOn, Gone, Running
  <1>17. CASE Kill(s)
    <2>1. life[s] \in Running /\ b = "killed" /\ path' = path /\ tmp' = tmp /\ open' = open \ {s}
      BY <1>1, <1>2, <1>17 DEF Kill, Goes, Lives
    <2>. QED BY <2>1, <1>1, <1>3, <1>5, <1>6 DEF LifeGoesOn, Gone, Running
  <1>. QED BY <1>7, <1>8, <1>9, <1>10, <1>11, <1>12, <1>13, <1>14, <1>15, <1>16, <1>17 DEF DaemonAlone

(* A daemon that stops closes connections without an answer, and is gone then. *)
LEMMA ServerStep == ASSUME ControlInv, NEW s \in Server, DaemonAlone(s) \/ BeginClose(s) \/ Exit(s) \/ Kill(s) PROVE ControlInv'
  <1>1. ControlTypeOK /\ DaemonsInv /\ \A c \in Client : CallInv(c)
    BY DEF ControlInv
  <1>2. DaemonsInv' /\ \A q \in Server : LifeGoesOn(q)
    BY <1>1, DaemonsStep
  <1>3. CASE DaemonAlone(s)
    <2>1. UNCHANGED calls
      BY <1>3 DEF DaemonAlone, Launch, RefuseDirectory, LookAtSocket, ClearStaleSocket, Bind, ListenFails, Place, FinishClose
    <2>2. \A c \in Client : SameCall(c)
      BY <2>1 DEF calls, SameCall
    <2>3. ControlTypeOK'
      BY <1>1, <2>1, DaemonsStep DEF calls, ControlTypeOK
    <2>. QED BY <1>1, <1>2, <2>2, <2>3, Bystander DEF ControlInv
  <1>4. CASE BeginClose(s) \/ Exit(s) \/ Kill(s)
    <2>1. /\ UNCHANGED <<to, ask, cl, got, lines, read>>
          /\ sv' = [c \in Client |-> IF to[c] = s /\ sv'[c] = "closed" THEN "closed" ELSE sv[c]]
          /\ \A c \in Client : sv'[c] = sv[c] \/ (to[c] = s /\ sv[c] # "none" /\ sv'[c] = "closed")
          /\ \A c \in Client : job'[c] = job[c] \/ (job[c] = "running" /\ job'[c] = "none")
          /\ job' \in [Client -> {"none", "running", "ok", "failed"}]
      <3>1. CASE BeginClose(s)
        BY <3>1, <1>1 DEF BeginClose, ControlTypeOK
      <3>2. CASE Exit(s) \/ Kill(s)
        BY <3>2, <1>1 DEF Exit, Kill, Cut, ControlTypeOK
      <3>. QED BY <3>1, <3>2, <1>4
    <2>2. life'[s] \in Gone
      BY <1>1, <1>4 DEF BeginClose, Exit, Kill, Goes, Gone, ControlTypeOK
    <2>3. sv' \in [Client -> {"none", "queued", "accepted", "reading", "dispatch", "stream", "closed"}]
      BY <2>1, <1>1 DEF ControlTypeOK
    <2>4. ControlTypeOK'
      BY <1>1, <1>4, <2>1, <2>3, DaemonsStep DEF ControlTypeOK
    <2>5. ASSUME NEW c \in Client PROVE CallInv(c)'
      <3>1. WrittenInOrder(c) /\ ReadInOrder(c) /\ ClosedWell(c)
        BY <1>1 DEF CallInv
      <3>2. WrittenInOrder(c)'
        BY <3>1, <2>1 DEF WrittenInOrder
      <3>3. ReadInOrder(c)'
        BY <3>1, <2>1 DEF ReadInOrder
      <3>4. ClosedWell(c)'
        <4>1. CASE sv'[c] = sv[c]
          <5>1. SameCall(c)
            BY <4>1, <3>1, <2>1 DEF SameCall, ReadInOrder
          <5>. QED BY <5>1, <1>1, <1>2, Bystander DEF CallInv
        <4>2. CASE to[c] = s /\ sv[c] # "none" /\ sv'[c] = "closed"
          <5>1. to'[c] = s /\ s \in Server /\ life'[to'[c]] \in Gone
            BY <4>2, <2>1, <2>2
          <5>. QED BY <4>2, <5>1 DEF ClosedWell
        <4>. QED BY <4>1, <4>2, <2>1
      <3>. QED BY <3>2, <3>3, <3>4 DEF CallInv
    <2>. QED BY <2>4, <2>5, <1>2 DEF ControlInv
  <1>. QED BY <1>3, <1>4


(* Dialling, or a step of a call that exists: the other calls and the daemons stay. *)
LEMMA CallKeepsRest ==
  ASSUME ControlInv, NEW c \in Client, CallAlone(c), CallInv(c)', ControlTypeOK' PROVE ControlInv'
  <1>1. UNCHANGED <<path, tmp, open, life>>
    BY DEF CallAlone, Dial, Receive, EndOfFile, GiveUp, Conn, HandlerEnds, StreamFails, Accept, ServeConn, Refuse,
           ReadDeadline, Dispatch, Reply, HandlerTimeout, ShuttingDown, ServeLogtail, Emit, StreamEnds
  <1>2. ASSUME NEW d \in Client, d # c PROVE SameCall(d)
    <2>. USE <1>2 DEF ControlInv, ControlTypeOK
    <2>1. CASE \E r \in Asks[c] : Dial(c, r)
      BY <2>1 DEF Dial, SameCall
    <2>2. CASE Receive(c) \/ EndOfFile(c) \/ GiveUp(c)
      BY <2>2 DEF Receive, EndOfFile, GiveUp, Return, SameCall
    <2>3. CASE Accept(c) \/ ServeConn(c) \/ ReadDeadline(c) \/ Dispatch(c) \/ ServeLogtail(c)
      BY <2>3 DEF Accept, ServeConn, ReadDeadline, Dispatch, ServeLogtail, Turns, SameCall
    <2>4. CASE Refuse(c) \/ Reply(c) \/ HandlerTimeout(c) \/ ShuttingDown(c)
      BY <2>4 DEF Refuse, Reply, HandlerTimeout, ShuttingDown, Finish, Turns, SameCall
    <2>5. CASE Emit(c) \/ HandlerEnds(c)
      BY <2>5 DEF Emit, HandlerEnds, SameCall
    <2>6. CASE StreamEnds(c) \/ StreamFails(c)
      BY <2>6 DEF StreamEnds, StreamFails, Finish, Turns, SameCall
    <2>. QED BY <2>1, <2>2, <2>3, <2>4, <2>5, <2>6 DEF CallAlone, Conn
  <1>3. ASSUME NEW d \in Client PROVE CallInv(d)'
    BY <1>1, <1>2, Bystander DEF ControlInv, LifeGoesOn
  <1>4. DaemonsInv'
    BY <1>1 DEF ControlInv, DaemonsInv
  <1>. QED BY <1>3, <1>4 DEF ControlInv

(* The last response closes the connection. *)
LEMMA FinishStep ==
  ASSUME ControlTypeOK, NEW c \in Client, CallInv(c), NEW r \in {"ok", "err"},
         NEW f \in {"reading", "dispatch", "stream"}, Finish(c, f, r),
         UNCHANGED <<path, tmp, open, life, to, ask, cl, got, job, read>>,
         ask[c] = "command" /\ r = "ok" => job[c] = "ok",
         ask[c] = "logs" /\ r = "ok" => f = "stream" /\ (GoingDown(c) \/ cl[c] = "over" \/ Len(lines[c]) = History)
  PROVE  ControlTypeOK' /\ CallInv(c)'
  <1>1. /\ sv[c] = f /\ sv' = [sv EXCEPT ![c] = "closed"] /\ sv'[c] = "closed"
        /\ sv \in [Client -> {"none", "queued", "accepted", "reading", "dispatch", "stream", "closed"}]
    BY DEF Finish, Turns, ControlTypeOK
  <1>2. lines \in [Client -> Seq(Responses)] /\ lines' = [lines EXCEPT ![c] = Append(lines[c], r)] /\ r \in Responses
    BY DEF Finish, Responses, ControlTypeOK
  <1>3. lines' \in [Client -> Seq(Responses)] /\ lines'[c] = Append(lines[c], r) /\ lines[c] \in Seq(Responses)
    BY <1>2
  <1>. DEFINE n == Len(lines[c])
  <1>4. /\ n \in Nat /\ Len(lines'[c]) = n + 1 /\ lines'[c][n + 1] = r
        /\ \A i \in 1 .. n : lines'[c][i] = lines[c][i]
    BY <1>3
  <1>5. ControlTypeOK'
    BY <1>1, <1>3 DEF ControlTypeOK
  <1>6. WrittenInOrder(c) /\ ReadInOrder(c) /\ ClosedWell(c) /\ read[c] \in Nat /\ to[c] \in Server
    BY <1>1 DEF CallInv, ControlTypeOK, ClosedWell
  <1>7. \A i \in 1 .. n : lines[c][i] = "more"
    BY <1>1, <1>6 DEF WrittenInOrder
  <1>8. WrittenInOrder(c)'
    <2>1. read'[c] <= n + 1
      BY <1>4, <1>6 DEF WrittenInOrder
    <2>2. \A i \in 1 .. n + 1 : i \in 1 .. n \/ i = n + 1
      BY <1>4
    <2>. QED BY <2>1, <2>2, <1>1, <1>4, <1>7 DEF WrittenInOrder
  <1>9. ReadInOrder(c)'
    <2>1. got[c] \notin {"ok", "eof"}
      BY <1>1, <1>6 DEF ReadInOrder
    <2>2. \A i \in 1 .. read[c] : i \in 1 .. n
      BY <1>4, <1>6 DEF WrittenInOrder
    <2>. QED BY <2>1, <2>2, <1>1, <1>4, <1>6 DEF ReadInOrder
  <1>10. ClosedWell(c)'
    <2>1. got[c] # "eof"
      BY <1>1, <1>6 DEF ReadInOrder
    <2>2. ask[c] = "logs" /\ r = "ok" => life[to[c]] \in Gone \/ got[c] = "gaveUp" \/ n = History
      BY <1>1, <1>6 DEF ClosedWell, GoingDown, Gone
    <2>3. life'[to'[c]] = life[to[c]] /\ life[to[c]] \in {"place", "up"} \cup Gone /\ to'[c] \in Server
      BY <1>1, <1>6 DEF ClosedWell
    <2>4. Len(lines'[c]) > 0 /\ lines'[c][Len(lines'[c])] = r /\ Len(lines'[c]) = n + 1 /\ r # "more"
      BY <1>4
    <2>5. n = History => Len(lines'[c]) = History + 1
      BY <2>4
    <2>. QED BY <2>1, <2>2, <2>3, <2>4, <2>5, <1>1 DEF ClosedWell
  <1>. QED BY <1>5, <1>8, <1>9, <1>10 DEF CallInv


(* The client: it dials, reads what was written and stops when it is answered. *)
LEMMA ClientStep ==
  ASSUME ControlInv, NEW c \in Client, (\E r \in Asks[c] : Dial(c, r)) \/ Receive(c) \/ EndOfFile(c) \/ GiveUp(c)
  PROVE  ControlTypeOK' /\ CallInv(c)'
  <1>1. ControlTypeOK /\ DaemonsInv /\ WrittenInOrder(c) /\ ReadInOrder(c) /\ ClosedWell(c)
    BY DEF ControlInv, CallInv
  <1>2. /\ lines[c] \in Seq(Responses) /\ read[c] \in Nat /\ Len(lines[c]) \in Nat /\ to[c] \in Server \cup {NoOne}
        /\ cl \in [Client -> {"idle", "sent", "over"}]
        /\ got \in [Client -> {"none", "ok", "err", "notRunning", "eof", "gaveUp"}]
        /\ sv \in [Client -> {"none", "queued", "accepted", "reading", "dispatch", "stream", "closed"}]
    BY <1>1 DEF ControlTypeOK
  <1>3. ASSUME NEW r \in Asks[c], Dial(c, r) PROVE ControlTypeOK' /\ CallInv(c)'
    <2>1. /\ cl[c] = "idle" /\ r \in {"command", "logs", "follow", "bad", "none"} /\ sv[c] = "none" /\ got[c] = "none"
          /\ UNCHANGED <<path, tmp, open, life, job, lines, read>>
          /\ ask' = [ask EXCEPT ![c] = r]
          /\ \/ /\ path \in Server /\ life[path] \in {"place", "up"} /\ cl' = [cl EXCEPT ![c] = "sent"]
                /\ to' = [to EXCEPT ![c] = path] /\ sv' = [sv EXCEPT ![c] = "queued"] /\ got' = got
             \/ /\ cl' = [cl EXCEPT ![c] = "over"] /\ got' = [got EXCEPT ![c] = "notRunning"] /\ to' = to /\ sv' = sv
      <3>1. path \in open => path \in Server /\ life[path] \in {"place", "up"}
        BY <1>1 DEF ControlTypeOK, DaemonsInv
      <3>. QED BY <3>1, <1>1, <1>3, ControlAssumption DEF Dial, ReadInOrder
    <2>2. ControlTypeOK'
      BY ZenonT(40), <2>1, <1>1 DEF ControlTypeOK
    <2>3. lines[c] = <<>> /\ Len(lines[c]) = 0 /\ read[c] = 0
      BY <2>1, <1>1, <1>2 DEF WrittenInOrder
    <2>4. WrittenInOrder(c)'
      BY <2>1, <2>3, <1>2 DEF WrittenInOrder
    <2>5. ReadInOrder(c)'
      BY <2>1, <2>3, <1>2 DEF ReadInOrder
    <2>6. ClosedWell(c)'
      <3>1. sv'[c] = "queued" => to'[c] \in Server /\ life'[to'[c]] \in {"place", "up"}
        BY <2>1, <1>1, <1>2 DEF ControlTypeOK
      <3>2. sv'[c] \in {"none", "queued"} /\ got'[c] # "eof"
        BY <2>1, <1>2
      <3>3. sv'[c] = "queued" => cl'[c] = "sent"
        BY <2>1, <1>2
      <3>. QED BY <3>1, <3>2, <3>3 DEF ClosedWell
    <2>. QED BY <2>2, <2>4, <2>5, <2>6 DEF CallInv
  <1>4. CASE Receive(c)
    <2>. DEFINE k == read[c] + 1
                x == lines[c][k]
    <2>1. /\ cl[c] = "sent" /\ k \in 1 .. Len(lines[c]) /\ read' = [read EXCEPT ![c] = k]
          /\ UNCHANGED <<path, tmp, open, life, to, ask, sv, job, lines>>
          /\ \/ x = "more" /\ cl' = cl /\ got' = got
             \/ x # "more" /\ cl' = [cl EXCEPT ![c] = "over"] /\ got' = [got EXCEPT ![c] = x]
      BY <1>2, <1>4 DEF Receive, Return
    <2>2. x \in Responses
      BY <2>1, <1>2
    <2>3. read'[c] = k /\ read' \in [Client -> Nat]
      BY <2>1, <1>1, <1>2 DEF ControlTypeOK
    <2>4. ControlTypeOK'
      <3>1. x # "more" => x \in {"ok", "err"}
        BY <2>2 DEF Responses
      <3>2. /\ cl' \in [Client -> {"idle", "sent", "over"}]
            /\ got' \in [Client -> {"none", "ok", "err", "notRunning", "eof", "gaveUp"}]
        <4>. HIDE DEF x
        <4>. QED BY <2>1, <3>1, <1>2
      <3>. QED BY <2>1, <2>3, <3>2, <1>1 DEF ControlTypeOK
    <2>5. x # "more" => k = Len(lines[c]) /\ sv[c] = "closed"
      BY <2>1, <1>1 DEF WrittenInOrder
    <2>6. WrittenInOrder(c)'
      BY <2>1, <2>3, <1>1, <1>2 DEF WrittenInOrder
    <2>7. ReadInOrder(c)'
      <3>1. CASE x = "more" /\ cl' = cl /\ got' = got
        <4>1. got[c] = "none"
          BY <2>1, <1>1 DEF ReadInOrder
        <4>2. \A i \in 1 .. k : lines[c][i] = "more"
          <5>1. \A i \in 1 .. read[c] : lines[c][i] = "more"
            BY <2>1, <1>1 DEF ReadInOrder
          <5>2. \A i \in 1 .. k : i \in 1 .. read[c] \/ i = k
            BY <1>2
          <5>. QED BY <5>1, <5>2, <3>1
        <4>. HIDE DEF k
        <4>. QED BY <4>1, <4>2, <3>1, <2>1, <2>3 DEF ReadInOrder
      <3>2. CASE x # "more" /\ cl' = [cl EXCEPT ![c] = "over"] /\ got' = [got EXCEPT ![c] = x]
        <4>1. cl'[c] = "over" /\ got'[c] = x /\ lines'[c][read'[c]] = x /\ read'[c] = Len(lines'[c]) /\ read'[c] > 0
          BY <3>2, <2>1, <2>3, <2>5, <1>2
        <4>2. sv'[c] = "closed"
          BY <3>2, <2>1, <2>5
        <4>. HIDE DEF x, k
        <4>. QED BY <4>1, <4>2 DEF ReadInOrder
      <3>. QED BY <3>1, <3>2, <2>1
    <2>8. ClosedWell(c)'
      <3>1. got[c] = "none"
        BY <2>1, <1>1 DEF ReadInOrder
      <3>2. x # "more" => sv'[c] = "closed" /\ got'[c] # "eof"
        BY <2>1, <2>2, <2>5, <1>2 DEF Responses
      <3>. QED BY <3>1, <3>2, <2>1, <1>1 DEF ClosedWell
    <2>. QED BY <2>4, <2>6, <2>7, <2>8 DEF CallInv
  <1>5. CASE EndOfFile(c) \/ GiveUp(c)
    <2>1. PICK g \in {"eof", "gaveUp"} :
              /\ cl[c] = "sent" /\ cl' = [cl EXCEPT ![c] = "over"] /\ got' = [got EXCEPT ![c] = g]
              /\ UNCHANGED <<path, tmp, open, life, to, ask, sv, job, lines, read>>
              /\ g = "eof" => sv[c] = "closed" /\ read[c] = Len(lines[c])
      BY <1>5 DEF EndOfFile, GiveUp, Return
    <2>2. cl'[c] = "over" /\ got'[c] = g /\ got[c] = "none"
      BY <2>1, <1>1, <1>2 DEF ReadInOrder
    <2>3. ControlTypeOK'
      BY <2>1, <1>1 DEF ControlTypeOK
    <2>4. WrittenInOrder(c)' /\ ReadInOrder(c)'
      BY <2>1, <2>2, <1>1 DEF WrittenInOrder, ReadInOrder
    <2>5. g = "eof" => ask[c] = "none" \/ life[to[c]] \in Gone
      BY <2>1, <1>1, <1>2 DEF ReadInOrder, ClosedWell
    <2>6. ClosedWell(c)'
      BY <2>1, <2>2, <2>5, <1>1 DEF ClosedWell, WrittenInOrder
    <2>. QED BY <2>3, <2>4, <2>6 DEF CallInv
  <1>. QED BY <1>3, <1>4, <1>5

(* The goroutines of the server, on a connection that is open. *)
LEMMA ConnStep ==
  ASSUME ControlInv, NEW c \in Client, Conn(c) \/ HandlerEnds(c) \/ StreamFails(c) PROVE ControlTypeOK' /\ CallInv(c)'
  <1>1. ControlTypeOK /\ CallInv(c) /\ WrittenInOrder(c) /\ ReadInOrder(c) /\ ClosedWell(c)
    BY DEF ControlInv, CallInv
  <1>2. /\ lines[c] \in Seq(Responses) /\ read[c] \in Nat /\ Len(lines[c]) \in Nat
        /\ sv \in [Client -> {"none", "queued", "accepted", "reading", "dispatch", "stream", "closed"}]
    BY <1>1 DEF ControlTypeOK
  <1>3. CASE Accept(c) \/ ServeConn(c) \/ ReadDeadline(c) \/ Dispatch(c) \/ ServeLogtail(c)
    <2>. DEFINE Turn(t) == /\ sv[c] \in {"queued", "accepted", "reading"} /\ sv' = [sv EXCEPT ![c] = t]
                           /\ UNCHANGED <<path, tmp, open, life, to, ask, cl, got, lines, read>>
                           /\ job' \in [Client -> {"none", "running", "ok", "failed"}]
                           /\ t = "dispatch" => ask[c] = "command"
                           /\ t = "stream" => ask[c] \in {"logs", "follow"}
                           /\ t = "closed" => ask[c] = "none"
    <2>1. job \in [Client -> {"none", "running", "ok", "failed"}]
      BY <1>1 DEF ControlTypeOK
    <2>2. PICK t \in {"accepted", "reading", "dispatch", "stream", "closed"} : Turn(t)
      <3>1. CASE Accept(c)
        <4>. Turn("accepted")
          BY <3>1, <2>1 DEF Accept, Turns
        <4>. QED OBVIOUS
      <3>2. CASE ServeConn(c)
        <4>. Turn("reading")
          BY <3>2, <2>1 DEF ServeConn, Turns
        <4>. QED OBVIOUS
      <3>3. CASE ReadDeadline(c)
        <4>. Turn("closed")
          BY <3>3, <2>1 DEF ReadDeadline, Turns
        <4>. QED OBVIOUS
      <3>4. CASE Dispatch(c)
        <4>. Turn("dispatch")
          BY <3>4, <2>1 DEF Dispatch, Turns
        <4>. QED OBVIOUS
      <3>5. CASE ServeLogtail(c)
        <4>. Turn("stream")
          BY <3>5, <2>1 DEF ServeLogtail, Turns
        <4>. QED OBVIOUS
      <3>. QED BY <3>1, <3>2, <3>3, <3>4, <3>5, <1>3
    <2>3. sv'[c] = t
      BY <2>2, <1>2
    <2>4. ControlTypeOK'
      BY <2>2, <1>1 DEF ControlTypeOK
    <2>5. lines[c] = <<>> /\ Len(lines[c]) = 0 /\ read[c] = 0
      BY <2>2, <1>1, <1>2 DEF WrittenInOrder
    <2>6. WrittenInOrder(c)' /\ ReadInOrder(c)' /\ got[c] \notin {"ok", "eof"}
      BY <2>2, <2>3, <2>5, <1>1 DEF WrittenInOrder, ReadInOrder
    <2>7. ClosedWell(c)'
      BY <2>2, <2>3, <2>5, <2>6, <1>1 DEF ClosedWell
    <2>. QED BY <2>4, <2>6, <2>7 DEF CallInv
  <1>4. CASE HandlerEnds(c)
    <2>1. /\ UNCHANGED <<path, tmp, open, life, to, ask, cl, got, sv, lines, read>>
          /\ job[c] = "running" /\ job' \in [Client -> {"none", "running", "ok", "failed"}]
      BY <1>1, <1>4 DEF HandlerEnds, ControlTypeOK
    <2>2. ControlTypeOK'
      BY <2>1, <1>1 DEF ControlTypeOK
    <2>3. WrittenInOrder(c)' /\ ReadInOrder(c)' /\ ClosedWell(c)'
      BY <2>1, <1>1 DEF WrittenInOrder, ReadInOrder, ClosedWell
    <2>. QED BY <2>2, <2>3 DEF CallInv
  <1>5. CASE Refuse(c) \/ HandlerTimeout(c) \/ ShuttingDown(c) \/ Reply(c) \/ StreamFails(c)
    <2>1. /\ UNCHANGED <<path, tmp, open, life, to, ask, cl, got, job, read>>
          /\ \E r \in {"ok", "err"}, f \in {"reading", "dispatch", "stream"} :
                Finish(c, f, r) /\ (r = "ok" => f = "dispatch" /\ job[c] = "ok")
      BY <1>5 DEF Refuse, HandlerTimeout, ShuttingDown, Reply, StreamFails
    <2>2. PICK r \in {"ok", "err"}, f \in {"reading", "dispatch", "stream"} :
              Finish(c, f, r) /\ (r = "ok" => f = "dispatch" /\ job[c] = "ok")
      BY <2>1
    <2>3. ask[c] = "logs" => r = "err"
      BY <2>2, <1>1 DEF Finish, Turns, ClosedWell
    <2>. QED BY <2>1, <2>2, <2>3, <1>1, FinishStep
  <1>6. CASE StreamEnds(c)
    <2>1. /\ UNCHANGED <<path, tmp, open, life, to, ask, cl, got, job, read>> /\ Finish(c, "stream", "ok")
          /\ ask[c] = "logs" => GoingDown(c) \/ cl[c] = "over" \/ Len(lines[c]) = History
      BY <1>6 DEF StreamEnds, Cancelled, Chunks
    <2>2. ask[c] # "command"
      BY <2>1, <1>1 DEF Finish, Turns, ClosedWell
    <2>. QED BY <2>1, <2>2, <1>1, FinishStep
  <1>7. CASE Emit(c)
    <2>. DEFINE n == Len(lines[c])
    <2>1. /\ sv[c] = "stream" /\ cl[c] = "sent" /\ lines' = [lines EXCEPT ![c] = Append(lines[c], "more")]
          /\ UNCHANGED <<path, tmp, open, life, to, ask, cl, got, sv, job, read>>
      BY <1>7 DEF Emit
    <2>2. /\ lines'[c] = Append(lines[c], "more") /\ lines' \in [Client -> Seq(Responses)]
          /\ n \in Nat /\ Len(lines'[c]) = n + 1 /\ lines'[c][n + 1] = "more"
          /\ \A i \in 1 .. n : lines'[c][i] = lines[c][i]
      BY <2>1, <1>1, <1>2 DEF ControlTypeOK, Responses
    <2>3. ControlTypeOK'
      BY <2>1, <2>2, <1>1 DEF ControlTypeOK
    <2>4. \A i \in 1 .. n : lines[c][i] = "more"
      BY <2>1, <1>1 DEF WrittenInOrder
    <2>5. \A i \in 1 .. n + 1 : lines'[c][i] = "more"
      <3>1. \A i \in 1 .. n + 1 : i \in 1 .. n \/ i = n + 1
        BY <2>2
      <3>. QED BY <3>1, <2>2, <2>4
    <2>6. WrittenInOrder(c)'
      <3>1. read'[c] <= n + 1
        BY <2>1, <2>2, <1>1, <1>2 DEF WrittenInOrder
      <3>. QED BY <3>1, <2>1, <2>2, <2>5 DEF WrittenInOrder
    <2>7. ReadInOrder(c)'
      <3>1. \A i \in 1 .. read[c] : i \in 1 .. n
        BY <1>1, <1>2 DEF WrittenInOrder
      <3>. QED BY <3>1, <2>1, <2>2, <2>4, <1>1 DEF ReadInOrder
    <2>8. ClosedWell(c)'
      BY <2>1, <1>1 DEF ClosedWell, ReadInOrder
    <2>. QED BY <2>3, <2>6, <2>7, <2>8 DEF CallInv
  <1>. QED BY <1>3, <1>4, <1>5, <1>6, <1>7 DEF Conn

(* Every step of a daemon, of a connection or of its client keeps the invariant. *)
LEMMA ControlStep == ControlInv /\ [ControlNext]_control => ControlInv'
  <1>. SUFFICES ASSUME ControlInv, [ControlNext]_control PROVE ControlInv'
    OBVIOUS
  <1>1. CASE UNCHANGED control
    <2>1. ASSUME NEW c \in Client PROVE CallInv(c)'
      BY <1>1, Bystander DEF ControlInv, control, calls, SameCall, LifeGoesOn
    <2>2. ControlTypeOK' /\ DaemonsInv'
      BY <1>1 DEF ControlInv, control, ControlTypeOK, DaemonsInv
    <2>. QED BY <2>1, <2>2 DEF ControlInv
  <1>2. ASSUME NEW s \in Server, DaemonAlone(s) \/ BeginClose(s) \/ Exit(s) \/ Kill(s) PROVE ControlInv'
    BY <1>2, ServerStep
  <1>3. ASSUME NEW c \in Client, CallAlone(c) PROVE ControlInv'
    BY <1>3, ClientStep, ConnStep, CallKeepsRest DEF CallAlone
  <1>. QED BY <1>1, <1>2, <1>3 DEF ControlNext, Listening, DaemonAlone, CallAlone

(* The control socket keeps it, through crashes and restarts (control.Server). *)
LEMMA ControlAlways == ControlSpec => []ControlInv
  BY ControlStarts, ControlStep, PTL DEF ControlSpec

(***************************************************************************)
(* AutoList.                                                               *)
(***************************************************************************)

(* The thresholds of AutoList as the proofs use them. *)
LEMMA AutoListParameters ==
  /\ Host \subseteq Seq(STRING) /\ \A h \in Host : Len(h) \in Nat /\ Len(h) >= 1
  /\ FailThreshold \in Nat /\ FailThreshold >= 1 /\ RetransThreshold \in Nat /\ RetransThreshold >= 1
  /\ MaxTracked \in Nat /\ MaxTracked >= 1
  /\ FailTime \in Nat /\ MaxTime \in Nat /\ MaxReports \in Nat /\ MaxTurns \in Nat
  <1>1. \A h \in Seq(STRING) : h # <<>> => Len(h) \in Nat /\ Len(h) >= 1
    OBVIOUS
  <1>. QED BY <1>1, AutoListAssumption DEF AutoListAssumption

\* The entries of the tree are what was learned, every name above them a node.
TreeInv ==
    /\ tree = [nodes |-> tree.nodes, entries |-> tree.entries]
    /\ tree.entries = learned /\ learned \subseteq Host
    /\ \A h \in learned : Sound(h) /\ \A n \in 1 .. Len(h) : SubSeq(h, 1, n) \in tree.nodes

\* What the file holds is in the tree, but for what an operator edited.
FileInv == onDisk \subseteq Host /\ edited \subseteq Host /\ (\A h \in onDisk : Sound(h)) /\ onDisk \subseteq learned \cup edited

\* The failures an entry counts are the newest of its host, none of them from
\* before its window.
Backed(e, f) ==
    /\ e.first <= now /\ e.fails <= Len(f)
    /\ \A i \in 1 .. Len(f) : i > Len(f) - e.fails => f[i] >= e.first

Fits(e, f) == e \in Entry /\ e.fails < FailThreshold /\ Backed(e, f)

\* The table of pending hosts keeps its bound.
Bounded(rows) ==
    /\ DOMAIN rows \subseteq Host /\ IsFiniteSet(DOMAIN rows) /\ Cardinality(DOMAIN rows) <= MaxTracked

TableInv == Bounded(hosts) /\ \A h \in DOMAIN hosts : Fits(hosts[h], failures[h])

AutoListInv == AutoListTypeOK /\ TreeInv /\ FileInv /\ TableInv

(* The names above a host of the list, and above those. *)
LEMMA DomainsFacts ==
  ASSUME NEW h \in Host PROVE
    /\ SubSeq(h, 1, Len(h)) = h
    /\ \A n \in 1 .. Len(h) : \A i \in 1 .. n : SubSeq(SubSeq(h, 1, n), 1, i) = SubSeq(h, 1, i)
    /\ Sound(h) => \A n \in 1 .. Len(h) : Sound(SubSeq(h, 1, n)) /\ SubSeq(h, 1, n) \in DomainsOf(h)
  <1>1. h \in Seq(STRING) /\ Len(h) \in Nat
    BY AutoListParameters
  <1>2. SubSeq(h, 1, Len(h)) = h
    BY <1>1, SubSeqFull
  <1>3. ASSUME NEW n \in 1 .. Len(h)
        PROVE  /\ SubSeq(h, 1, n) \in Seq(STRING) /\ Len(SubSeq(h, 1, n)) = n
               /\ \A j \in 1 .. n : SubSeq(h, 1, n)[j] = h[j]
    BY <1>1, SubSeqProperties
  <1>4. ASSUME NEW n \in 1 .. Len(h), NEW i \in 1 .. n PROVE SubSeq(SubSeq(h, 1, n), 1, i) = SubSeq(h, 1, i)
    <2>. DEFINE t == SubSeq(h, 1, n)
    <2>1. t \in Seq(STRING) /\ Len(t) = n /\ i \in 1 .. Len(h) /\ i \in Nat /\ \A j \in 1 .. n : t[j] = h[j]
      BY <1>1, <1>3
    <2>. HIDE DEF t
    <2>2. SubSeq(t, 1, i) \in Seq(STRING) /\ Len(SubSeq(t, 1, i)) = i /\ \A j \in 1 .. i : SubSeq(t, 1, i)[j] = t[j]
      BY <2>1, SubSeqProperties
    <2>3. SubSeq(h, 1, i) \in Seq(STRING) /\ Len(SubSeq(h, 1, i)) = i /\ \A j \in 1 .. i : SubSeq(h, 1, i)[j] = h[j]
      BY <2>1, <1>3
    <2>4. \A j \in 1 .. i : SubSeq(t, 1, i)[j] = SubSeq(h, 1, i)[j]
      BY <2>1, <2>2, <2>3
    <2>5. SubSeq(t, 1, i) = SubSeq(h, 1, i)
      BY <2>2, <2>3, <2>4, SeqEqual
    <2>. QED BY <2>5 DEF t
  <1>5. ASSUME Sound(h), NEW n \in 1 .. Len(h) PROVE Sound(SubSeq(h, 1, n)) /\ SubSeq(h, 1, n) \in DomainsOf(h)
    <2>1. \A j \in 1 .. n : j \in 1 .. Len(h)
      BY <1>1
    <2>. QED BY <2>1, <1>3, <1>5 DEF Sound, DomainsOf
  <1>. QED BY <1>2, <1>4, <1>5


(* What joins a tree is found there, with every name above it, and nothing else is. *)
LEMMA GrownFacts ==
  ASSUME NEW t, NEW hs \in SUBSET Host, t = [nodes |-> t.nodes, entries |-> t.entries]
  PROVE  /\ Grown(t, hs) = [nodes |-> Grown(t, hs).nodes, entries |-> Grown(t, hs).entries]
         /\ Grown(t, hs).entries = t.entries \cup {h \in hs : Sound(h)}
         /\ t.nodes \subseteq Grown(t, hs).nodes
         /\ \A h \in hs : Sound(h) => \A n \in 1 .. Len(h) : SubSeq(h, 1, n) \in Grown(t, hs).nodes
  <1>1. ASSUME NEW h \in hs, Sound(h), NEW n \in 1 .. Len(h)
        PROVE  SubSeq(h, 1, n) \in {p \in UNION {DomainsOf(g) : g \in hs} : Sound(p)}
    BY <1>1, DomainsFacts
  <1>2. /\ Grown(t, hs).nodes = t.nodes \cup {p \in UNION {DomainsOf(g) : g \in hs} : Sound(p)}
        /\ Grown(t, hs).entries = t.entries \cup {h \in hs : Sound(h)}
        /\ Grown(t, hs) = [nodes |-> Grown(t, hs).nodes, entries |-> Grown(t, hs).entries]
    BY DEF Grown
  <1>. QED BY <1>1, <1>2

(* What NewEngine reads from the file is a tree of its lines. *)
LEMMA LoadedFacts ==
  ASSUME NEW hs \in SUBSET Host, \A h \in hs : Sound(h)
  PROVE  /\ Loaded(hs) = [nodes |-> Loaded(hs).nodes, entries |-> Loaded(hs).entries]
         /\ Loaded(hs).entries = hs
         /\ \A h \in hs : \A n \in 1 .. Len(h) : SubSeq(h, 1, n) \in Loaded(hs).nodes
  <1>. DEFINE t == [nodes |-> {}, entries |-> {}]
  <1>1. t = [nodes |-> t.nodes, entries |-> t.entries] /\ t.entries = {}
    OBVIOUS
  <1>2. Loaded(hs) = Grown(t, hs)
    BY DEF Loaded
  <1>. HIDE DEF t
  <1>. QED BY <1>1, <1>2, GrownFacts

(* A lookup in the tree finds a host or the longest suffix above it. *)
LEMMA CoverMeans == TreeInv => CoversSuffixes
  <1>. SUFFICES ASSUME TreeInv, NEW h \in Host
                PROVE  Match(tree, h) <=> \E n \in 1 .. Len(h) : SubSeq(h, 1, n) \in learned
    BY DEF CoversSuffixes
  <1>1. Match(tree, h) => \E n \in 1 .. Len(h) : SubSeq(h, 1, n) \in learned
    BY DEF Match, TreeInv
  <1>2. ASSUME NEW n \in 1 .. Len(h), SubSeq(h, 1, n) \in learned PROVE Match(tree, h)
    <2>1. h \in Seq(STRING) /\ Len(h) \in Nat /\ n \in Nat
      BY AutoListParameters
    <2>2. Len(SubSeq(h, 1, n)) = n
      BY <2>1, SubSeqFacts
    <2>3. ASSUME NEW i \in 1 .. n - 1 PROVE SubSeq(h, 1, i) \in tree.nodes
      <3>1. i \in 1 .. n
        BY <2>1
      <3>2. SubSeq(SubSeq(h, 1, n), 1, i) \in tree.nodes
        BY <3>1, <2>2, <1>2 DEF TreeInv
      <3>. QED BY <3>1, <3>2, DomainsFacts
    <2>. QED BY <2>3, <1>2 DEF Match, TreeInv
  <1>. QED BY <1>1, <1>2

(* The newest failures of a host, once one more was seen. *)
LEMMA RecentFacts ==
  ASSUME NEW S, NEW s \in Seq(S), NEW x \in S
  PROVE  \E d \in {0, 1} :
           /\ d = 1 <=> Len(s) + 1 > FailThreshold
           /\ Recent(Append(s, x)) \in Seq(S) /\ Len(Recent(Append(s, x))) = Len(s) + 1 - d
           /\ \A i \in 1 .. Len(s) + 1 - d : Recent(Append(s, x))[i] = IF i + d = Len(s) + 1 THEN x ELSE s[i + d]
  <1>. DEFINE t == Append(s, x)
              d == IF Len(t) > FailThreshold THEN 1 ELSE 0
  <1>1. /\ t \in Seq(S) /\ Len(t) = Len(s) + 1 /\ Len(s) \in Nat
        /\ \A i \in 1 .. Len(s) + 1 : t[i] = IF i = Len(s) + 1 THEN x ELSE s[i]
    OBVIOUS
  <1>. HIDE DEF t
  <1>2. Recent(t) = SubSeq(t, d + 1, Len(t))
    BY DEF Recent
  <1>3. d \in {0, 1} /\ d + 1 \in 1 .. Len(t) + 1 /\ Len(t) \in d .. Len(t) /\ d + 1 - 1 = d
    BY <1>1
  <1>4. d = 1 <=> Len(s) + 1 > FailThreshold
    BY <1>1
  <1>. HIDE DEF d
  <1>5. /\ SubSeq(t, d + 1, Len(t)) \in Seq(S) /\ Len(SubSeq(t, d + 1, Len(t))) = Len(t) - (d + 1) + 1
        /\ \A i \in 1 .. Len(t) - (d + 1) + 1 : SubSeq(t, d + 1, Len(t))[i] = t[d + 1 + i - 1]
    BY <1>1, <1>3, SubSeqFacts
  <1>6. \A i \in 1 .. Len(s) + 1 - d : SubSeq(t, d + 1, Len(t))[i] = IF i + d = Len(s) + 1 THEN x ELSE s[i + d]
    <2>. TAKE i \in 1 .. Len(s) + 1 - d
    <2>1. i \in 1 .. Len(t) - (d + 1) + 1 /\ d + 1 + i - 1 = i + d /\ i + d \in 1 .. Len(s) + 1
      BY <1>1, <1>3
    <2>. QED BY <2>1, <1>1, <1>5
  <1>7. Len(SubSeq(t, d + 1, Len(t))) = Len(s) + 1 - d
    BY <1>1, <1>3, <1>5
  <1>8. /\ d \in {0, 1} /\ (d = 1 <=> Len(s) + 1 > FailThreshold)
        /\ Recent(t) \in Seq(S) /\ Len(Recent(t)) = Len(s) + 1 - d
        /\ \A i \in 1 .. Len(s) + 1 - d : Recent(t)[i] = IF i + d = Len(s) + 1 THEN x ELSE s[i + d]
    <2>. DEFINE u == SubSeq(t, d + 1, Len(t))
    <2>1. u = Recent(t) /\ u \in Seq(S) /\ Len(u) = Len(s) + 1 - d
          /\ \A i \in 1 .. Len(s) + 1 - d : u[i] = IF i + d = Len(s) + 1 THEN x ELSE s[i + d]
      BY <1>2, <1>5, <1>6, <1>7
    <2>. HIDE DEF u
    <2>. QED BY <2>1, <1>3, <1>4
  <1>. QED BY <1>8, Zenon DEF t


(* The table has room for a host that is not in it. *)
LEMMA TrackedFacts ==
  ASSUME AutoListInv, NEW h \in Host
  PROVE  /\ Bounded(Tracked(h)) /\ h \in DOMAIN Tracked(h)
         /\ \A g \in DOMAIN Tracked(h) : Fits(Tracked(h)[g], failures[g])
  <1>1. /\ IsFiniteSet(DOMAIN hosts) /\ Cardinality(DOMAIN hosts) <= MaxTracked /\ DOMAIN hosts \subseteq Host
        /\ \A g \in DOMAIN hosts : Fits(hosts[g], failures[g])
    BY DEF AutoListInv, TableInv, Bounded
  <1>2. CASE h \in DOMAIN hosts
    BY <1>1, <1>2 DEF Tracked, Bounded
  <1>3. CASE h \notin DOMAIN hosts
    <2>. DEFINE live == {g \in DOMAIN hosts : now - hosts[g].first <= FailTime}
                stay == IF Cardinality(DOMAIN hosts) < MaxTracked THEN DOMAIN hosts
                        ELSE IF Cardinality(live) < MaxTracked THEN live ELSE {}
    <2>1. Tracked(h) = [g \in stay \cup {h} |-> IF g = h THEN Fresh ELSE hosts[g]]
      BY <1>3 DEF Tracked
    <2>2. IsFiniteSet(live) /\ live \subseteq DOMAIN hosts
      BY <1>1, FS_Subset
    <2>3. IsFiniteSet(stay) /\ stay \subseteq DOMAIN hosts /\ Cardinality(stay) < MaxTracked
      BY <1>1, <2>2, FS_EmptySet, AutoListParameters
    <2>. HIDE DEF live, stay
    <2>4. IsFiniteSet(stay \cup {h}) /\ Cardinality(stay \cup {h}) <= MaxTracked
      <3>1. Cardinality(stay) \in Nat /\ MaxTracked \in Nat
        BY <2>3, FS_CardinalityType, AutoListParameters
      <3>2. h \notin stay
        BY <2>3, <1>3
      <3>3. IsFiniteSet(stay \cup {h}) /\ Cardinality(stay \cup {h}) = Cardinality(stay) + 1
        BY <2>3, <3>2, FS_AddElement
      <3>. QED BY <3>1, <3>3, <2>3
    <2>5. Fits(Fresh, failures[h])
      <3>1. now \in 0 .. MaxTime /\ failures[h] \in Seq(0 .. MaxTime)
        BY DEF AutoListInv, AutoListTypeOK
      <3>2. Len(failures[h]) \in Nat
        BY <3>1
      <3>. QED BY <3>1, <3>2, AutoListParameters DEF Fits, Fresh, Entry, Backed
    <2>6. DOMAIN Tracked(h) = stay \cup {h}
      BY <2>1
    <2>7. ASSUME NEW g \in stay \cup {h} PROVE Fits(Tracked(h)[g], failures[g])
      <3>1. Tracked(h)[g] = IF g = h THEN Fresh ELSE hosts[g]
        BY <2>1
      <3>. QED BY <3>1, <2>3, <2>5, <1>1
    <2>. QED BY <2>3, <2>4, <2>6, <2>7, <1>1 DEF Bounded
  <1>. QED BY <1>2, <1>3

(* The domains of the hosts in a tree are its nodes. *)
LEMMA EntriesAreNodes ==
  ASSUME NEW N, NEW E \in SUBSET Host, \A h \in E : \A n \in 1 .. Len(h) : SubSeq(h, 1, n) \in N
  PROVE  E \subseteq N
  <1>. SUFFICES ASSUME NEW h \in E PROVE h \in N
    OBVIOUS
  <1>1. Len(h) \in 1 .. Len(h)
    BY AutoListParameters
  <1>2. SubSeq(h, 1, Len(h)) \in N
    BY <1>1
  <1>. QED BY <1>2, DomainsFacts

(* A host whose tree entry is new. *)
LEMMA PromoteStep ==
  ASSUME AutoListInv, NEW h \in Host, NEW rows, Promote(h, rows), UNCHANGED <<onDisk, edited>>
  PROVE  TreeInv' /\ FileInv' /\ tree'.entries \subseteq tree'.nodes /\ learned' \subseteq Host /\ dirty' \in BOOLEAN
  <1>1. /\ tree' = Grown(tree, {h}) /\ dirty' = TRUE /\ learned' = learned \cup {g \in {h} : Sound(g)}
        /\ TreeInv /\ FileInv /\ {h} \in SUBSET Host
    BY DEF Promote, AutoListInv
  <1>2. /\ tree' = [nodes |-> tree'.nodes, entries |-> tree'.entries]
        /\ tree'.entries = tree.entries \cup {g \in {h} : Sound(g)} /\ tree.nodes \subseteq tree'.nodes
        /\ \A g \in {h} : Sound(g) => \A n \in 1 .. Len(g) : SubSeq(g, 1, n) \in tree'.nodes
    BY <1>1, GrownFacts DEF TreeInv
  <1>3. TreeInv'
    BY <1>1, <1>2 DEF TreeInv
  <1>4. tree'.entries \subseteq tree'.nodes
    BY <1>3, EntriesAreNodes DEF TreeInv
  <1>. QED BY <1>1, <1>3, <1>4 DEF FileInv, TreeInv


(* The newest failure counts for the window of its entry. *)
LEMMA CountedIsBacked ==
  ASSUME NEW e \in Entry, NEW s \in Seq(0 .. MaxTime), now \in 0 .. MaxTime, e.fails < FailThreshold, Backed(e, s)
  PROVE  LET f == Recent(Append(s, now))
         IN  /\ f \in Seq(0 .. MaxTime) /\ e.fails + 1 <= Len(f)
             /\ \A i \in 1 .. Len(f) : i > Len(f) - (e.fails + 1) => f[i] >= e.first
             /\ Backed(e, f)
  <1>. DEFINE f == Recent(Append(s, now))
  <1>1. PICK d \in {0, 1} :
           /\ d = 1 <=> Len(s) + 1 > FailThreshold
           /\ f \in Seq(0 .. MaxTime) /\ Len(f) = Len(s) + 1 - d
           /\ \A i \in 1 .. Len(s) + 1 - d : f[i] = IF i + d = Len(s) + 1 THEN now ELSE s[i + d]
    <2>. DEFINE T == 0 .. MaxTime
    <2>1. s \in Seq(T) /\ now \in T
      OBVIOUS
    <2>. HIDE DEF T
    <2>2. \E d \in {0, 1} :
           /\ d = 1 <=> Len(s) + 1 > FailThreshold
           /\ Recent(Append(s, now)) \in Seq(T) /\ Len(Recent(Append(s, now))) = Len(s) + 1 - d
           /\ \A i \in 1 .. Len(s) + 1 - d : Recent(Append(s, now))[i] = IF i + d = Len(s) + 1 THEN now ELSE s[i + d]
      BY <2>1, RecentFacts
    <2>. QED BY <2>2, Zenon DEF T
  <1>. HIDE DEF f
  <1>2. Len(s) \in Nat /\ e.fails \in Nat /\ e.first \in Nat /\ now \in Nat /\ FailThreshold \in Nat
    BY AutoListParameters DEF Entry
  <1>3. /\ e.first <= now /\ e.fails <= Len(s)
        /\ \A i \in 1 .. Len(s) : i > Len(s) - e.fails => s[i] >= e.first
    BY DEF Backed
  <1>4. e.fails + 1 <= Len(f)
    BY <1>1, <1>2, <1>3
  <1>5. ASSUME NEW i \in 1 .. Len(f), i > Len(f) - (e.fails + 1) PROVE f[i] >= e.first
    <2>1. i \in 1 .. Len(s) + 1 - d /\ i + d > Len(s) - e.fails /\ i + d <= Len(s) + 1 /\ i + d >= 1
      BY <1>1, <1>2, <1>5
    <2>2. CASE i + d = Len(s) + 1
      BY <2>1, <2>2, <1>1, <1>2, <1>3
    <2>3. CASE i + d # Len(s) + 1
      <3>1. i + d \in 1 .. Len(s)
        BY <2>1, <2>3, <1>2
      <3>. QED BY <3>1, <2>1, <2>3, <1>1, <1>3
    <2>. QED BY <2>2, <2>3
  <1>6. Backed(e, f)
    <2>1. e.fails <= Len(f) /\ \A i \in 1 .. Len(f) : i > Len(f) - e.fails => i > Len(f) - (e.fails + 1)
      BY <1>1, <1>2, <1>4
    <2>2. \A i \in 1 .. Len(f) : i > Len(f) - e.fails => f[i] >= e.first
      BY <2>1, <1>5
    <2>. HIDE DEF f
    <2>. QED BY <2>1, <2>2, <1>3 DEF Backed
  <1>. QED BY <1>1, <1>4, <1>5, <1>6 DEF f

(* The failures that still count are the latest of those reported. *)
LEMMA WindowedFacts ==
  ASSUME NEW h \in Host, NEW e, Fits(e, failures[h]), now \in 0 .. MaxTime, failures[h] \in Seq(0 .. MaxTime)
  PROVE  Fits(Windowed(e), failures[h]) /\ now - Windowed(e).first <= FailTime
  <1>1. e \in Entry /\ e.fails < FailThreshold /\ Backed(e, failures[h]) /\ Len(failures[h]) \in Nat
    BY DEF Fits
  <1>2. CASE now - e.first > FailTime
    <2>1. PICK w : w = Windowed(e)
      OBVIOUS
    <2>2. w = [first |-> now, fails |-> 0, retrans |-> e.retrans]
      BY <2>1, <1>1, <1>2 DEF Windowed, Entry
    <2>3. w \in Entry /\ w.first = now /\ w.fails = 0
      BY <2>2, <1>1, AutoListParameters DEF Entry
    <2>4. Backed(w, failures[h])
      <3>1. \A i \in 1 .. Len(failures[h]) : ~(i > Len(failures[h]) - w.fails)
        BY <1>1, <2>3
      <3>. QED BY <3>1, <2>3, <1>1 DEF Backed
    <2>5. now - w.first <= FailTime
      BY <2>3, AutoListParameters
    <2>. QED BY <2>1, <2>3, <2>4, <2>5, AutoListParameters DEF Fits
  <1>3. CASE ~(now - e.first > FailTime)
    BY <1>1, <1>3, AutoListParameters DEF Windowed, Fits, Entry
  <1>. QED BY <1>2, <1>3


(* A host failed: its entry counts it, or it joins the list, after as many failures *)
(* within its window as the threshold asks for.                                     *)
LEMMA FailStep ==
  ASSUME AutoListInv, NEW h \in Host, Fail(h)
  PROVE  /\ AutoListInv'
         /\ tree' # tree => LET f == failures'[h] IN Len(f) >= FailThreshold /\ now - f[Len(f) - FailThreshold + 1] <= FailTime
  <1>. DEFINE rows == Tracked(h)
              e == Windowed(rows[h])
              f == Recent(Append(failures[h], now))
              c == [e EXCEPT !.fails = e.fails + 1]
              counted == [rows EXCEPT ![h] = c]
  <1>1. /\ UNCHANGED <<onDisk, now, edited, turns>> /\ reports' \in 0 .. MaxReports
        /\ failures' = [failures EXCEPT ![h] = f]
    BY AutoListParameters DEF Fail, Report, AutoListInv, AutoListTypeOK
  <1>2. \/ UNCHANGED <<tree, hosts, dirty, learned>>
        \/ e.fails + 1 >= FailThreshold /\ Promote(h, counted)
        \/ ~(e.fails + 1 >= FailThreshold) /\ hosts' = counted /\ UNCHANGED <<tree, dirty, learned>>
    BY DEF Fail, Count
  <1>3. /\ AutoListTypeOK /\ TreeInv /\ FileInv /\ TableInv
        /\ now \in 0 .. MaxTime /\ failures \in [Host -> Seq(0 .. MaxTime)] /\ failures[h] \in Seq(0 .. MaxTime)
    BY DEF AutoListInv, AutoListTypeOK
  <1>4. Bounded(rows) /\ h \in DOMAIN rows /\ \A g \in DOMAIN rows : Fits(rows[g], failures[g])
    BY TrackedFacts
  <1>5. Fits(e, failures[h]) /\ now - e.first <= FailTime
    BY <1>3, <1>4, WindowedFacts
  <1>. HIDE DEF rows, e
  <1>6. e \in Entry /\ e.fails < FailThreshold /\ Backed(e, failures[h])
    BY <1>5 DEF Fits
  <1>7. /\ f \in Seq(0 .. MaxTime) /\ e.fails + 1 <= Len(f)
        /\ \A i \in 1 .. Len(f) : i > Len(f) - (e.fails + 1) => f[i] >= e.first
        /\ Backed(e, f)
    BY <1>3, <1>6, CountedIsBacked
  <1>9. ASSUME NEW d, Fits(d, failures[h]) PROVE Backed(d, f)
    BY <1>3, <1>9, CountedIsBacked DEF Fits
  <1>10. c \in Entry /\ c.first = e.first /\ (e.fails + 1 < FailThreshold => c.fails < FailThreshold) /\ Backed(c, f)
    <2>1. e.fails \in Nat /\ e.fails + 1 \in 0 .. FailThreshold /\ e.fails + 1 <= FailThreshold
      BY <1>6, AutoListParameters DEF Entry
    <2>2. c \in Entry /\ c.first = e.first /\ c.fails = e.fails + 1
      BY <1>6, <2>1 DEF Entry
    <2>. HIDE DEF f, c
    <2>. QED BY <2>1, <2>2, <1>6, <1>7 DEF Backed
  <1>. HIDE DEF f, c
  <1>11. failures' \in [Host -> Seq(0 .. MaxTime)] /\ failures'[h] = f /\ \A g \in Host : g # h => failures'[g] = failures[g]
    BY <1>1, <1>3, <1>7
  <1>12. ASSUME NEW g \in Host, NEW d, Fits(d, failures[g]) PROVE Fits(d, failures'[g])
    BY <1>9, <1>11, <1>12 DEF Fits
  <1>13. CASE UNCHANGED <<tree, hosts, dirty, learned>>
    <2>1. \A g \in DOMAIN hosts : g \in Host /\ Fits(hosts[g], failures[g])
      BY <1>3 DEF Bounded, TableInv
    <2>2. \A g \in DOMAIN hosts' : Fits(hosts'[g], failures'[g])
      BY <2>1, <1>12, <1>13
    <2>3. TableInv'
      BY <2>2, <1>1, <1>3, <1>13 DEF TableInv, Bounded, Fits, Backed
    <2>4. AutoListTypeOK' /\ TreeInv' /\ FileInv'
      BY <1>1, <1>3, <1>11, <1>13 DEF AutoListTypeOK, TreeInv, FileInv
    <2>. QED BY <2>3, <2>4, <1>13 DEF AutoListInv
  <1>14. /\ DOMAIN counted = DOMAIN rows /\ counted[h] = c
         /\ \A g \in DOMAIN rows : g # h => counted[g] = rows[g]
    BY <1>4
  <1>. HIDE DEF counted
  <1>15. CASE e.fails + 1 >= FailThreshold /\ Promote(h, counted)
    <2>1. TreeInv' /\ FileInv' /\ tree'.entries \subseteq tree'.nodes /\ learned' \subseteq Host /\ dirty' \in BOOLEAN
      BY <1>1, <1>15, PromoteStep
    <2>2. hosts' = [g \in DOMAIN rows \ {h} |-> counted[g]]
      BY <1>14, <1>15 DEF Promote
    <2>3. DOMAIN hosts' = DOMAIN rows \ {h} /\ \A g \in DOMAIN hosts' : g \in Host /\ hosts'[g] = rows[g]
      BY <2>2, <1>4, <1>14 DEF Bounded
    <2>4. IsFiniteSet(DOMAIN hosts') /\ Cardinality(DOMAIN hosts') <= MaxTracked
      <3>1. IsFiniteSet(DOMAIN rows) /\ Cardinality(DOMAIN rows) <= MaxTracked /\ h \in DOMAIN rows
        BY <1>4 DEF Bounded
      <3>2. IsFiniteSet(DOMAIN rows \ {h}) /\ Cardinality(DOMAIN rows \ {h}) = Cardinality(DOMAIN rows) - 1
        BY <3>1, FS_RemoveElement
      <3>3. Cardinality(DOMAIN rows) \in Nat
        BY <3>1, FS_CardinalityType
      <3>. QED BY <3>1, <3>2, <3>3, <2>3, AutoListParameters
    <2>5. \A g \in DOMAIN hosts' : Fits(hosts'[g], failures'[g])
      BY <2>3, <1>4, <1>12
    <2>6. TableInv' /\ \A g \in DOMAIN hosts' : hosts'[g] \in Entry
      BY <1>1, <2>3, <2>4, <2>5 DEF TableInv, Bounded, Fits, Backed
    <2>7. AutoListTypeOK'
      BY <1>1, <1>3, <1>11, <2>1, <2>3, <2>6 DEF AutoListTypeOK, FileInv
    <2>8. Len(f) >= FailThreshold /\ now - f[Len(f) - FailThreshold + 1] <= FailTime
      <3>1. e.fails \in Nat /\ e.first \in Nat /\ now \in Nat /\ FailThreshold \in Nat /\ FailThreshold >= 1 /\ FailTime \in Nat
            /\ Len(f) \in Nat /\ e.fails + 1 = FailThreshold
        <4>1. Len(f) \in Nat
          BY <1>7
        <4>2. e.fails \in Nat /\ e.first \in Nat /\ now \in Nat
          BY <1>3, <1>6, AutoListParameters DEF Entry
        <4>. QED BY <4>1, <4>2, <1>6, <1>15, AutoListParameters
      <3>2. Len(f) - FailThreshold + 1 \in 1 .. Len(f) /\ Len(f) - FailThreshold + 1 > Len(f) - (e.fails + 1)
        <4>1. e.fails + 1 <= Len(f)
          BY <1>7
        <4>. QED BY <4>1, <3>1
      <3>3. f[Len(f) - FailThreshold + 1] \in 0 .. MaxTime
        <4>. DEFINE T == 0 .. MaxTime
        <4>1. f \in Seq(T)
          BY <1>7
        <4>. HIDE DEF T
        <4>2. \A k \in 1 .. Len(f) : f[k] \in T
          BY <4>1
        <4>. QED BY <4>2, <3>2, Zenon DEF T
      <3>4. f[Len(f) - FailThreshold + 1] >= e.first
        BY <3>2, <1>7
      <3>. QED BY <3>1, <3>2, <3>3, <3>4, <1>5, AutoListParameters
    <2>. QED BY <2>1, <2>6, <2>7, <2>8, <1>11 DEF AutoListInv
  <1>16. CASE ~(e.fails + 1 >= FailThreshold) /\ hosts' = counted /\ UNCHANGED <<tree, dirty, learned>>
    <2>1. c.fails < FailThreshold
      BY <1>6, <1>10, <1>16, AutoListParameters DEF Entry
    <2>2. Fits(c, failures'[h])
      BY <2>1, <1>10, <1>11 DEF Fits
    <2>3. \A g \in DOMAIN hosts' : g \in Host /\ Fits(hosts'[g], failures'[g])
      BY <2>2, <1>4, <1>12, <1>14, <1>16 DEF Bounded
    <2>4. IsFiniteSet(DOMAIN hosts') /\ Cardinality(DOMAIN hosts') <= MaxTracked
      BY <1>4, <1>14, <1>16 DEF Bounded
    <2>5. TableInv' /\ \A g \in DOMAIN hosts' : hosts'[g] \in Entry
      BY <1>1, <2>3, <2>4 DEF TableInv, Bounded, Fits, Backed
    <2>6. AutoListTypeOK' /\ TreeInv' /\ FileInv'
      BY <1>1, <1>3, <1>11, <1>16, <2>3, <2>5 DEF AutoListTypeOK, TreeInv, FileInv
    <2>. QED BY <2>5, <2>6, <1>16 DEF AutoListInv
  <1>. QED BY <1>2, <1>13, <1>15, <1>16


(* A host's client repeated a packet: its entry counts it, or it joins the list. *)
LEMMA RetransStep == ASSUME AutoListInv, NEW h \in Host, Retrans(h) PROVE AutoListInv'
  <1>. DEFINE rows == Tracked(h)
              e == rows[h]
              c == [e EXCEPT !.retrans = e.retrans + 1]
              counted == [rows EXCEPT ![h] = c]
  <1>1. UNCHANGED <<onDisk, now, edited, turns, failures>> /\ reports' \in 0 .. MaxReports
    BY AutoListParameters DEF Retrans, Report, AutoListInv, AutoListTypeOK
  <1>2. Bounded(rows) /\ h \in DOMAIN rows /\ \A g \in DOMAIN rows : Fits(rows[g], failures[g])
    BY TrackedFacts
  <1>3. counted = [Tracked(h) EXCEPT ![h].retrans = @ + 1] /\ counted[h] = c
    BY <1>2
  <1>4. \/ UNCHANGED <<tree, hosts, dirty, learned>>
        \/ Promote(h, counted)
        \/ ~(c.retrans >= RetransThreshold) /\ hosts' = counted /\ UNCHANGED <<tree, dirty, learned>>
    BY <1>3 DEF Retrans, Count
  <1>5. AutoListTypeOK /\ TreeInv /\ FileInv /\ TableInv
    BY DEF AutoListInv
  <1>6. CASE UNCHANGED <<tree, hosts, dirty, learned>>
    BY <1>1, <1>5, <1>6
       DEF AutoListInv, AutoListTypeOK, TreeInv, FileInv, TableInv, Bounded, Fits, Backed
  <1>. HIDE DEF rows
  <1>7. /\ DOMAIN counted = DOMAIN rows /\ \A g \in DOMAIN rows : g # h => counted[g] = rows[g]
    BY <1>2
  <1>8. e \in Entry /\ Fits(e, failures[h])
    BY <1>2 DEF Fits
  <1>9. ~(c.retrans >= RetransThreshold) => Fits(c, failures[h])
    <2>. HIDE DEF e
    <2>1. e.retrans \in Nat /\ c.retrans = e.retrans + 1 /\ c.first = e.first /\ c.fails = e.fails
      BY <1>8 DEF Entry
    <2>2. ~(c.retrans >= RetransThreshold) => c \in Entry
      BY SMTT(30), <2>1, <1>8, AutoListParameters DEF Entry
    <2>. HIDE DEF c
    <2>. QED BY <2>1, <2>2, <1>8 DEF Fits, Backed
  <1>. HIDE DEF counted, c
  <1>10. CASE Promote(h, counted)
    <2>1. TreeInv' /\ FileInv' /\ tree'.entries \subseteq tree'.nodes /\ learned' \subseteq Host /\ dirty' \in BOOLEAN
      BY <1>1, <1>10, PromoteStep
    <2>2. hosts' = [g \in DOMAIN rows \ {h} |-> counted[g]]
      BY <1>7, <1>10 DEF Promote
    <2>3. DOMAIN hosts' = DOMAIN rows \ {h} /\ \A g \in DOMAIN hosts' : g \in Host /\ hosts'[g] = rows[g]
      BY <2>2, <1>2, <1>7 DEF Bounded
    <2>4. IsFiniteSet(DOMAIN hosts') /\ Cardinality(DOMAIN hosts') <= MaxTracked
      <3>1. IsFiniteSet(DOMAIN rows) /\ Cardinality(DOMAIN rows) <= MaxTracked /\ h \in DOMAIN rows
        BY <1>2 DEF Bounded
      <3>2. IsFiniteSet(DOMAIN rows \ {h}) /\ Cardinality(DOMAIN rows \ {h}) = Cardinality(DOMAIN rows) - 1
        BY <3>1, FS_RemoveElement
      <3>3. Cardinality(DOMAIN rows) \in Nat
        BY <3>1, FS_CardinalityType
      <3>. QED BY <3>1, <3>2, <3>3, <2>3, AutoListParameters
    <2>5. \A g \in DOMAIN hosts' : Fits(hosts'[g], failures'[g])
      BY <2>3, <1>1, <1>2
    <2>6. TableInv' /\ \A g \in DOMAIN hosts' : hosts'[g] \in Entry
      BY <1>1, <2>3, <2>4, <2>5 DEF TableInv, Bounded, Fits, Backed
    <2>7. AutoListTypeOK'
      BY <1>1, <1>5, <2>1, <2>3, <2>6 DEF AutoListTypeOK, FileInv
    <2>. QED BY <2>1, <2>6, <2>7 DEF AutoListInv
  <1>11. CASE ~(c.retrans >= RetransThreshold) /\ hosts' = counted /\ UNCHANGED <<tree, dirty, learned>>
    <2>1. \A g \in DOMAIN hosts' : g \in Host /\ Fits(hosts'[g], failures'[g])
      BY <1>1, <1>2, <1>3, <1>7, <1>9, <1>11 DEF Bounded
    <2>2. IsFiniteSet(DOMAIN hosts') /\ Cardinality(DOMAIN hosts') <= MaxTracked
      BY <1>2, <1>7, <1>11 DEF Bounded
    <2>3. TableInv' /\ \A g \in DOMAIN hosts' : hosts'[g] \in Entry
      BY <1>1, <2>1, <2>2 DEF TableInv, Bounded, Fits, Backed
    <2>4. AutoListTypeOK' /\ TreeInv' /\ FileInv'
      BY <1>1, <1>5, <1>11, <2>1, <2>3 DEF AutoListTypeOK, TreeInv, FileInv
    <2>. QED BY <2>3, <2>4 DEF AutoListInv
  <1>. QED BY <1>4, <1>6, <1>10, <1>11

(* The list is written, a new engine opens the file, an operator edits it, time passes. *)
LEMMA OthersStep == ASSUME AutoListInv, FlushList \/ NewEngine \/ EditFile \/ Tick PROVE AutoListInv'
  <1>1. AutoListTypeOK /\ TreeInv /\ FileInv /\ TableInv
    BY DEF AutoListInv
  <1>2. CASE FlushList
    <2>1. /\ UNCHANGED <<tree, hosts, now, failures, learned, edited, reports>>
          /\ turns' \in 0 .. MaxTurns /\ dirty' \in BOOLEAN
          /\ onDisk' = onDisk \/ onDisk' = tree.entries
      <3>1. turns \in 0 .. MaxTurns /\ dirty \in BOOLEAN /\ MaxTurns \in Nat
        BY <1>1, AutoListParameters DEF AutoListTypeOK
      <3>2. CASE Written(TRUE) /\ UNCHANGED turns
        BY <1>2, <3>1, <3>2 DEF FlushList, Written
      <3>3. CASE turns < MaxTurns /\ Written(FALSE) /\ turns' = turns + 1
        BY <1>2, <3>1, <3>3 DEF FlushList, Written
      <3>. QED BY <1>2, <3>2, <3>3 DEF FlushList
    <2>2. FileInv'
      BY <2>1, <1>1 DEF FileInv, TreeInv
    <2>3. TreeInv' /\ TableInv'
      BY <2>1, <1>1 DEF TreeInv, TableInv, Bounded, Fits, Backed
    <2>. QED BY <2>1, <2>2, <2>3, <1>1 DEF AutoListInv, AutoListTypeOK, FileInv
  <1>3. CASE NewEngine
    <2>1. /\ UNCHANGED <<now, edited, reports>> /\ turns' \in 0 .. MaxTurns
          /\ (onDisk' = onDisk \/ onDisk' = tree.entries)
          /\ tree' = Loaded(onDisk') /\ hosts' = <<>> /\ dirty' = FALSE
          /\ learned' = onDisk' /\ failures' = [h \in Host |-> <<>>]
      BY <1>1, <1>3, AutoListParameters DEF NewEngine, Open, AutoListTypeOK
    <2>2. onDisk' \in SUBSET Host /\ \A h \in onDisk' : Sound(h)
      BY <2>1, <1>1 DEF FileInv, TreeInv
    <2>3. /\ tree' = [nodes |-> tree'.nodes, entries |-> tree'.entries] /\ tree'.entries = onDisk'
          /\ \A h \in onDisk' : \A n \in 1 .. Len(h) : SubSeq(h, 1, n) \in tree'.nodes
      BY <2>1, <2>2, LoadedFacts
    <2>4. TreeInv'
      BY <2>1, <2>2, <2>3 DEF TreeInv
    <2>5. tree'.entries \subseteq tree'.nodes
      BY <2>2, <2>3, EntriesAreNodes
    <2>6. FileInv'
      BY <2>1, <2>2, <1>1 DEF FileInv
    <2>7. DOMAIN hosts' = {} /\ TableInv'
      <3>1. DOMAIN hosts' = {}
        BY <2>1
      <3>2. IsFiniteSet({}) /\ Cardinality({}) = 0 /\ 0 <= MaxTracked
        BY FS_EmptySet, AutoListParameters
      <3>. QED BY <3>1, <3>2 DEF TableInv, Bounded
    <2>8. failures' \in [Host -> Seq(0 .. MaxTime)]
      BY <2>1
    <2>. QED BY <2>1, <2>2, <2>4, <2>5, <2>6, <2>7, <2>8, <1>1 DEF AutoListInv, AutoListTypeOK, FileInv
  <1>4. CASE EditFile
    <2>1. /\ UNCHANGED <<tree, hosts, dirty, now, failures, learned, reports>> /\ turns' \in 0 .. MaxTurns
          /\ \E h \in Host : Sound(h) /\ edited' = edited \cup {h} /\ onDisk' \subseteq onDisk \cup {h}
      BY <1>1, <1>4, AutoListParameters DEF EditFile, AutoListTypeOK
    <2>2. FileInv'
      BY <2>1, <1>1 DEF FileInv
    <2>3. TreeInv' /\ TableInv'
      BY <2>1, <1>1 DEF TreeInv, TableInv, Bounded, Fits, Backed
    <2>. QED BY <2>1, <2>2, <2>3, <1>1 DEF AutoListInv, AutoListTypeOK, FileInv
  <1>5. CASE Tick
    <2>1. /\ UNCHANGED <<onDisk, tree, hosts, dirty, failures, learned, edited, reports, turns>>
          /\ now \in Nat /\ now' = now + 1 /\ now' \in 0 .. MaxTime
      BY <1>1, <1>5, AutoListParameters DEF Tick, AutoListTypeOK
    <2>2. TableInv'
      <3>1. \A h \in DOMAIN hosts : hosts[h] \in Entry /\ hosts[h].first \in Nat
        BY <1>1, AutoListParameters DEF TableInv, Fits, Entry
      <3>. QED BY <3>1, <2>1, <1>1 DEF TableInv, Bounded, Fits, Backed
    <2>. QED BY <2>1, <2>2, <1>1 DEF AutoListInv, AutoListTypeOK, FileInv, TreeInv
  <1>. QED BY <1>2, <1>3, <1>4, <1>5

(* An empty file, an empty list. *)
LEMMA AutoListStarts == AutoListInit => AutoListInv
  <1>. SUFFICES ASSUME AutoListInit PROVE AutoListInv
    OBVIOUS
  <1>1. /\ tree = [nodes |-> tree.nodes, entries |-> tree.entries] /\ tree.entries = {}
    BY LoadedFacts DEF AutoListInit
  <1>2. TreeInv /\ FileInv
    BY <1>1 DEF AutoListInit, TreeInv, FileInv
  <1>3. DOMAIN hosts = {} /\ TableInv
    <2>1. DOMAIN hosts = {}
      BY DEF AutoListInit
    <2>2. IsFiniteSet({}) /\ Cardinality({}) = 0 /\ 0 <= MaxTracked
      BY FS_EmptySet, AutoListParameters
    <2>. QED BY <2>1, <2>2 DEF TableInv, Bounded
  <1>4. failures \in [Host -> Seq(0 .. MaxTime)]
    BY DEF AutoListInit
  <1>5. now \in 0 .. MaxTime /\ turns \in 0 .. MaxTurns /\ reports \in 0 .. MaxReports
    BY AutoListParameters DEF AutoListInit
  <1>6. AutoListTypeOK
    BY <1>1, <1>3, <1>4, <1>5 DEF AutoListInit, AutoListTypeOK
  <1>. QED BY <1>2, <1>3, <1>6 DEF AutoListInv

(* A failure, a success, a flush, an edit of the file or a restart keeps the lists. *)
LEMMA AutoListStep == AutoListInv /\ [AutoListNext]_autoListVars => AutoListInv'
  <1>. SUFFICES ASSUME AutoListInv, [AutoListNext]_autoListVars PROVE AutoListInv'
    OBVIOUS
  <1>1. CASE UNCHANGED autoListVars
    BY <1>1 DEF autoListVars, AutoListInv, AutoListTypeOK, TreeInv, FileInv, TableInv, Bounded, Fits, Backed
  <1>. QED BY <1>1, FailStep, RetransStep, OthersStep DEF AutoListNext

(* AutoList keeps it (lists.AutoList under the calls of the engine). *)
LEMMA AutoListAlways == AutoListSpec => []AutoListInv
  BY AutoListStarts, AutoListStep, PTL DEF AutoListSpec

(* A lookup covers the suffixes, and the table of pending hosts is bounded. *)
LEMMA AutoListMeans == AutoListInv => AutoListTypeOK /\ CoversSuffixes /\ TrackedBounded
  BY CoverMeans DEF AutoListInv, TableInv, Bounded, TrackedBounded

(* Steps that concern the file, and failures that put a host on the list. *)
LEMMA LearnedStep ==
  ASSUME AutoListInv, [AutoListNext]_autoListVars
  PROVE  /\ [\A h \in onDisk : h \in onDisk' \cup edited']_autoListVars
         /\ [\A h \in Host : (Fail(h) /\ tree' # tree) =>
                LET f == failures'[h] IN Len(f) >= FailThreshold /\ now - f[Len(f) - FailThreshold + 1] <= FailTime]_autoListVars
  <1>1. \A h \in Host : (Fail(h) /\ tree' # tree) =>
            LET f == failures'[h] IN Len(f) >= FailThreshold /\ now - f[Len(f) - FailThreshold + 1] <= FailTime
    BY FailStep
  <1>2. AutoListInv /\ FileInv /\ tree.entries = learned
    BY DEF AutoListInv, TreeInv
  <1>3. ASSUME AutoListNext, NEW h \in onDisk PROVE h \in onDisk' \cup edited'
    <2>1. CASE \E g \in Host : Fail(g) \/ Retrans(g)
      BY <2>1 DEF Fail, Retrans, Report
    <2>2. CASE FlushList
      BY <2>2, <1>2 DEF FlushList, Written, FileInv
    <2>3. CASE NewEngine
      BY <2>3, <1>2 DEF NewEngine, FileInv
    <2>4. CASE EditFile
      BY <2>4 DEF EditFile
    <2>5. CASE Tick
      BY <2>5 DEF Tick
    <2>. QED BY <1>3, <2>1, <2>2, <2>3, <2>4, <2>5 DEF AutoListNext
  <1>. QED BY <1>1, <1>3

(* Only failures close in time put a host on the list, and what the file holds *)
(* stays in it (AutoList.recordFail, the flush, a restart of the engine).        *)
THEOREM ListsLearnAlways == AutoListSpec => ListsLearn
  <1>1. AutoListInv /\ [AutoListNext]_autoListVars
        => [\A h \in onDisk : h \in onDisk' \cup edited']_autoListVars
    BY LearnedStep
  <1>2. AutoListInv /\ [AutoListNext]_autoListVars
        => [\A h \in Host : (Fail(h) /\ tree' # tree) =>
                LET f == failures'[h] IN Len(f) >= FailThreshold /\ now - f[Len(f) - FailThreshold + 1] <= FailTime]_autoListVars
    BY LearnedStep
  <1>. QED BY <1>1, <1>2, AutoListAlways, PTL DEF AutoListSpec, ListsLearn, TricklesForgotten, WrittenStays

(***************************************************************************)
(* CidrSet.                                                                *)
(***************************************************************************)

(* Functions that agree on their domain are the same. *)
LEMMA SameFunction ==
  ASSUME NEW S, NEW T, NEW f \in [S -> T], NEW g \in [S -> T], \A i \in S : f[i] = g[i] PROVE f = g
  OBVIOUS

(* Prefixes are ordered: by their length, then by the first bit that differs. *)
LEMMA AddressOrder ==
  /\ \A x, y \in Address : x = y \/ Lower(x, y) \/ Lower(y, x)
  /\ \A x, y \in Address : Lower(x, y) => x # y /\ ~Lower(y, x)
  /\ \A x, y, z \in Address : Lower(x, y) /\ Lower(y, z) => Lower(x, z)
  <1>1. ASSUME NEW x \in Address, NEW y \in Address, x # y PROVE Lower(x, y) \/ Lower(y, x)
    <2>. DEFINE D == {i \in 1 .. Width : x[i] # y[i]}
    <2>1. D \in SUBSET Nat /\ D # {}
      <3>1. x \in [1 .. Width -> {0, 1}] /\ y \in [1 .. Width -> {0, 1}]
        BY DEF Address
      <3>2. ASSUME \A i \in 1 .. Width : x[i] = y[i] PROVE x = y
        <4>. DEFINE T == {0, 1}
                    S == 1 .. Width
        <4>1. x \in [S -> T] /\ y \in [S -> T] /\ \A i \in S : x[i] = y[i]
          BY <3>1, <3>2
        <4>. HIDE DEF S, T
        <4>. QED BY <4>1, SameFunction
      <3>. QED BY <3>2, <1>1
    <2>2. PICK m \in D : \A k \in D : m <= k
      BY <2>1, Least
    <2>3. m \in 1 .. Width /\ x[m] # y[m] /\ m \in Nat
      OBVIOUS
    <2>4. \A j \in 1 .. m - 1 : x[j] = y[j]
      <3>1. ASSUME NEW j \in 1 .. m - 1, x[j] # y[j] PROVE FALSE
        <4>1. j \in D
          BY <2>3, <3>1, CidrAssumption
        <4>. QED BY <4>1, <2>2, <2>3
      <3>. QED BY <3>1
    <2>5. x[m] \in {0, 1} /\ y[m] \in {0, 1}
      BY <2>3 DEF Address
    <2>. QED BY <2>3, <2>4, <2>5 DEF Lower
  <1>2. ASSUME NEW x \in Address, NEW y \in Address, NEW z \in Address, Lower(x, y), Lower(y, z) PROVE Lower(x, z)
    <2>1. PICK i \in 1 .. Width : x[i] < y[i] /\ \A j \in 1 .. i - 1 : x[j] = y[j]
      BY <1>2 DEF Lower
    <2>2. PICK k \in 1 .. Width : y[k] < z[k] /\ \A j \in 1 .. k - 1 : y[j] = z[j]
      BY <1>2 DEF Lower
    <2>3. /\ x[i] \in {0, 1} /\ y[i] \in {0, 1} /\ z[i] \in {0, 1}
          /\ x[k] \in {0, 1} /\ y[k] \in {0, 1} /\ z[k] \in {0, 1}
      BY DEF Address
    <2>4. CASE i < k
      <3>1. y[i] = z[i]
        BY <2>2, <2>4
      <3>2. \A j \in 1 .. i - 1 : x[j] = z[j]
        BY <2>1, <2>2, <2>4
      <3>. QED BY <2>1, <3>1, <3>2 DEF Lower
    <2>5. CASE k < i
      <3>1. x[k] = y[k]
        BY <2>1, <2>5
      <3>2. \A j \in 1 .. k - 1 : x[j] = z[j]
        BY <2>1, <2>2, <2>5
      <3>. QED BY <2>2, <3>1, <3>2 DEF Lower
    <2>6. CASE i = k
      BY <2>1, <2>2, <2>3, <2>6
    <2>. QED BY <2>4, <2>5, <2>6
  <1>3. ASSUME NEW x \in Address, NEW y \in Address, Lower(x, y) PROVE x # y /\ ~Lower(y, x)
    <2>1. \A z \in Address : ~Lower(z, z)
      BY DEF Lower, Address
    <2>. QED BY <2>1, <1>2, <1>3
  <1>. QED BY <1>1, <1>2, <1>3

(* The fields of a prefix; masking an address gives the network of a prefix. *)
LEMMA PrefixFacts ==
  /\ \A a \in Address, b \in 0 .. Width : Masked(a, b) \in Address /\ [bits |-> b, net |-> Masked(a, b)] \in Prefix
  /\ \A p \in Prefix : p = [bits |-> p.bits, net |-> p.net] /\ p.bits \in 0 .. Width /\ p.net \in Address
  <1>1. \A a \in Address, b \in 0 .. Width : Masked(a, b) \in Address
    BY DEF Masked, Address
  <1>. QED BY <1>1 DEF Prefix

(* comparePrefix is a total order. *)
LEMMA PrefixOrder ==
  /\ \A p, q \in Prefix : p = q \/ Before(p, q) \/ Before(q, p)
  /\ \A p, q \in Prefix : Before(p, q) => p # q /\ ~Before(q, p)
  /\ \A p, q, r \in Prefix : Before(p, q) /\ Before(q, r) => Before(p, r)
  <1>1. \A p \in Prefix : p = [bits |-> p.bits, net |-> p.net] /\ p.bits \in Nat /\ p.net \in Address
    BY PrefixFacts, CidrAssumption
  <1>2. ASSUME NEW p \in Prefix, NEW q \in Prefix, p # q PROVE Before(p, q) \/ Before(q, p)
    BY <1>1, <1>2, AddressOrder DEF Before
  <1>3. ASSUME NEW p \in Prefix, NEW q \in Prefix, Before(p, q) PROVE p # q /\ ~Before(q, p)
    BY <1>1, <1>3, AddressOrder DEF Before
  <1>4. ASSUME NEW p \in Prefix, NEW q \in Prefix, NEW r \in Prefix, Before(p, q), Before(q, r) PROVE Before(p, r)
    BY <1>1, <1>4, AddressOrder DEF Before
  <1>. QED BY <1>2, <1>3, <1>4


(* A finite set of prefixes that is not empty has a last one, ... *)
LEMMA LastPrefix ==
  ASSUME NEW P \in SUBSET Prefix, IsFiniteSet(P), P # {} PROVE \E p \in P : \A q \in P : q = p \/ Before(q, p)
  <1>. DEFINE HasLast(Q) == \E p \in Q : \A q \in Q : q = p \/ Before(q, p)
              Bad == {n \in Nat : \E Q \in SUBSET Prefix : IsFiniteSet(Q) /\ Q # {} /\ Cardinality(Q) = n /\ ~HasLast(Q)}
  <1>1. SUFFICES ASSUME ~HasLast(P) PROVE FALSE
    OBVIOUS
  <1>2. Bad \in SUBSET Nat /\ Bad # {}
    <2>1. Cardinality(P) \in Nat
      BY FS_CardinalityType
    <2>. QED BY <1>1, <2>1
  <1>3. PICK m \in Bad : \A k \in Bad : m <= k
    BY <1>2, Least
  <1>4. PICK Q \in SUBSET Prefix : IsFiniteSet(Q) /\ Q # {} /\ Cardinality(Q) = m /\ ~HasLast(Q)
    OBVIOUS
  <1>5. PICK y \in Q : TRUE
    BY <1>4
  <1>6. /\ IsFiniteSet(Q \ {y}) /\ Cardinality(Q \ {y}) = m - 1 /\ Q \ {y} \in SUBSET Prefix
        /\ m \in Nat /\ Cardinality(Q \ {y}) \in Nat
    <2>1. IsFiniteSet(Q \ {y}) /\ Cardinality(Q \ {y}) = m - 1
      BY <1>4, <1>5, FS_RemoveElement
    <2>. QED BY <2>1, FS_CardinalityType
  <1>7. CASE Q \ {y} = {}
    BY <1>4, <1>7
  <1>8. CASE Q \ {y} # {}
    <2>1. m - 1 \notin Bad
      BY <1>3, <1>6
    <2>2. HasLast(Q \ {y})
      BY <2>1, <1>6, <1>8
    <2>3. PICK z \in Q \ {y} : \A q \in Q \ {y} : q = z \/ Before(q, z)
      BY <2>2
    <2>. HIDE DEF Bad
    <2>4. CASE Before(y, z)
      BY <2>3, <2>4, <1>4
    <2>5. CASE Before(z, y)
      <3>1. \A q \in Q : q = y \/ Before(q, y)
        BY <2>3, <2>5, <1>4, PrefixOrder
      <3>. QED BY <3>1, <1>4
    <2>. QED BY <2>3, <2>4, <2>5, <1>4, PrefixOrder
  <1>. QED BY <1>7, <1>8

\* The slice as sortPrefixes leaves it.
InOrderOf(t, n) == \A i, j \in 1 .. n : i < j => Before(t[i], t[j])

(* ... so that it can be sorted. *)
LEMMA CanBeSorted ==
  ASSUME NEW P \in SUBSET Prefix, IsFiniteSet(P)
  PROVE  \E t \in [1 .. Cardinality(P) -> P] : InOrderOf(t, Cardinality(P)) /\ \A p \in P : \E i \in 1 .. Cardinality(P) : t[i] = p
  <1>. DEFINE Sortable(Q, n) ==
                \E t \in [1 .. n -> Q] : InOrderOf(t, n) /\ \A p \in Q : \E i \in 1 .. n : t[i] = p
              Bad == {n \in Nat : \E Q \in SUBSET Prefix : IsFiniteSet(Q) /\ Cardinality(Q) = n /\ ~Sortable(Q, n)}
  <1>1. SUFFICES ASSUME ~Sortable(P, Cardinality(P)) PROVE FALSE
    OBVIOUS
  <1>2. Bad \in SUBSET Nat /\ Bad # {}
    <2>1. Cardinality(P) \in Nat
      BY FS_CardinalityType
    <2>. QED BY <1>1, <2>1
  <1>3. PICK m \in Bad : \A k \in Bad : m <= k
    BY <1>2, Least
  <1>4. PICK Q \in SUBSET Prefix : IsFiniteSet(Q) /\ Cardinality(Q) = m /\ ~Sortable(Q, m)
    OBVIOUS
  <1>. HIDE DEF Sortable
  <1>5. m \in Nat
    OBVIOUS
  <1>6. CASE m = 0
    <2>1. Q = {}
      BY <1>4, <1>6, FS_EmptySet
    <2>2. [i \in 1 .. 0 |-> 0] \in [1 .. 0 -> Q]
      OBVIOUS
    <2>3. Sortable(Q, m)
      BY <2>1, <2>2, <1>6 DEF Sortable, InOrderOf
    <2>. QED BY <2>3, <1>4
  <1>7. CASE m > 0
    <2>1. Q # {}
      BY <1>4, <1>7, FS_EmptySet
    <2>2. PICK x \in Q : \A q \in Q : q = x \/ Before(q, x)
      BY <2>1, <1>4, LastPrefix
    <2>3. IsFiniteSet(Q \ {x}) /\ Cardinality(Q \ {x}) = m - 1 /\ Q \ {x} \in SUBSET Prefix /\ m - 1 \in Nat
      BY <1>4, <1>5, <1>7, FS_RemoveElement
    <2>4. Sortable(Q \ {x}, m - 1)
      <3>1. m - 1 \notin Bad
        BY <1>3, <1>5
      <3>. QED BY <3>1, <2>3
    <2>5. PICK t \in [1 .. m - 1 -> Q \ {x}] :
              InOrderOf(t, m - 1) /\ \A p \in Q \ {x} : \E i \in 1 .. m - 1 : t[i] = p
      BY <2>4 DEF Sortable
    <2>. HIDE DEF Bad
    <2>. DEFINE u == [i \in 1 .. m |-> IF i = m THEN x ELSE t[i]]
    <2>6. \A i \in 1 .. m : i = m \/ i \in 1 .. m - 1
      BY <1>5
    <2>7. u \in [1 .. m -> Q] /\ u[m] = x /\ \A i \in 1 .. m - 1 : u[i] = t[i] /\ t[i] \in Q \ {x}
      BY <2>5, <2>6, <1>5, <1>7
    <2>. HIDE DEF u
    <2>8. InOrderOf(u, m)
      <3>. SUFFICES ASSUME NEW i \in 1 .. m, NEW j \in 1 .. m, i < j PROVE Before(u[i], u[j])
        BY DEF InOrderOf
      <3>1. i \in 1 .. m - 1
        BY <1>5
      <3>2. CASE j = m
        BY <3>1, <3>2, <2>2, <2>7
      <3>3. CASE j \in 1 .. m - 1
        BY <3>1, <3>3, <2>5, <2>7 DEF InOrderOf
      <3>. QED BY <3>2, <3>3, <2>6
    <2>9. \A p \in Q : \E i \in 1 .. m : u[i] = p
      <3>1. m \in 1 .. m /\ \A i \in 1 .. m - 1 : i \in 1 .. m
        BY <1>5, <1>7
      <3>. QED BY <3>1, <2>5, <2>7
    <2>10. Sortable(Q, m)
      BY <2>7, <2>8, <2>9 DEF Sortable
    <2>. QED BY <2>10, <1>4
  <1>. QED BY <1>5, <1>6, <1>7


(* What sortPrefixes makes of a slice: its prefixes, in order. *)
LEMMA SortedFacts ==
  ASSUME NEW s \in Seq(Prefix)
  PROVE  /\ Sorted(s) \in Seq(Prefix) /\ InOrderOf(Sorted(s), Len(Sorted(s)))
         /\ {Sorted(s)[i] : i \in 1 .. Len(Sorted(s))} = {s[i] : i \in 1 .. Len(s)}
  <1>. DEFINE set == {s[i] : i \in 1 .. Len(s)}
              n == Cardinality(set)
              Right(t) == \A i, j \in 1 .. n : i < j => t[i] # t[j] /\ ~Before(t[j], t[i])
  <1>1. set \in SUBSET Prefix /\ IsFiniteSet(set)
    <2>1. IsFiniteSet(1 .. Len(s))
      BY FS_Interval
    <2>. DEFINE f == [i \in 1 .. Len(s) |-> s[i]]
    <2>2. f \in Surjection(1 .. Len(s), set)
      BY DEF Surjection
    <2>3. set \in SUBSET Prefix
      OBVIOUS
    <2>. HIDE DEF f, set
    <2>. QED BY <2>1, <2>2, <2>3, FS_Surjection
  <1>2. n \in Nat
    BY <1>1, FS_CardinalityType
  <1>3. PICK t \in [1 .. n -> set] : InOrderOf(t, n) /\ \A p \in set : \E i \in 1 .. n : t[i] = p
    BY <1>1, CanBeSorted
  <1>4. Sorted(s) = CHOOSE u \in [1 .. n -> set] : Right(u)
    BY DEF Sorted
  <1>. HIDE DEF set
  <1>5. Right(t)
    BY <1>1, <1>3, PrefixOrder DEF InOrderOf
  <1>. PICK u : u = Sorted(s)
    OBVIOUS
  <1>6. u \in [1 .. n -> set] /\ Right(u)
    BY <1>4, <1>5
  <1>. HIDE DEF n
  <1>7. InOrderOf(u, n)
    BY <1>1, <1>6, PrefixOrder DEF InOrderOf
  <1>8. u \in Seq(set) /\ Len(u) = n
    BY <1>2, <1>6
  <1>9. u \in Seq(Prefix)
    BY <1>1, <1>2, <1>6
  <1>10. {u[i] : i \in 1 .. n} = set
    <2>1. u \in Injection(1 .. n, set)
      <3>1. \A i, j \in 1 .. n : u[i] = u[j] => i = j
        BY <1>2, <1>6
      <3>. QED BY <3>1, <1>6 DEF Injection, IsInjective
    <2>2. IsFiniteSet(1 .. n) /\ Cardinality(1 .. n) = n
      BY <1>2, FS_Interval
    <2>3. u \in Surjection(1 .. n, set)
      BY <2>1, <2>2, <1>1, FS_Injection DEF n
    <2>. QED BY <2>3 DEF Surjection
  <1>. QED BY <1>7, <1>8, <1>9, <1>10 DEF set


(* The lines of a file are its prefixes, each of them once. *)
LEMMA LinesFacts ==
  ASSUME NEW P \in SUBSET Prefix, IsFiniteSet(P)
  PROVE  Lines(P) \in Seq(Prefix) /\ {Lines(P)[i] : i \in 1 .. Len(Lines(P))} = P
  <1>. DEFINE n == Cardinality(P)
              Once(s) == \A i, j \in DOMAIN s : i # j => s[i] # s[j]
  <1>1. n \in Nat
    BY FS_CardinalityType
  <1>2. PICK t \in [1 .. n -> P] : InOrderOf(t, n) /\ \A p \in P : \E i \in 1 .. n : t[i] = p
    BY CanBeSorted
  <1>3. Once(t)
    <2>1. DOMAIN t = 1 .. n
      OBVIOUS
    <2>2. \A i, j \in 1 .. n : i < j => t[i] # t[j]
      BY <1>2, PrefixOrder DEF InOrderOf
    <2>. QED BY <2>1, <2>2, <1>1
  <1>4. Lines(P) = CHOOSE s \in [1 .. n -> P] : Once(s)
    BY DEF Lines
  <1>. PICK u : u = Lines(P)
    OBVIOUS
  <1>5. u \in [1 .. n -> P] /\ Once(u)
    <2>. HIDE DEF Once, n
    <2>1. \E s \in [1 .. n -> P] : Once(s)
      BY <1>3
    <2>. QED BY <2>1, <1>4
  <1>. HIDE DEF n
  <1>6. u \in Seq(Prefix) /\ Len(u) = n
    BY <1>1, <1>5
  <1>7. {u[i] : i \in 1 .. n} = P
    <2>1. u \in Injection(1 .. n, P)
      BY <1>5 DEF Injection, IsInjective
    <2>2. IsFiniteSet(1 .. n) /\ Cardinality(1 .. n) = n
      BY <1>1, FS_Interval
    <2>3. u \in Surjection(1 .. n, P)
      BY <2>1, <2>2, FS_Injection DEF n
    <2>. QED BY <2>3 DEF Surjection
  <1>. QED BY <1>6, <1>7

\* The place a binary search is after: below m everything is low, from m on nothing.
IsFirst(low, l, h, m) == m \in l .. h /\ (\A j \in l .. m - 1 : low[j]) /\ \A j \in m .. h - 1 : ~low[j]

(* Of what is low first and not low then, there is one such place; halving finds it. *)
LEMMA FirstFacts ==
  ASSUME NEW l \in Nat, NEW h \in Nat, l <= h, NEW low,
         \A i, j \in l .. h - 1 : i <= j /\ low[j] => low[i]
  PROVE  /\ \E m \in l .. h : IsFirst(low, l, h, m)
         /\ \A m, k : IsFirst(low, l, h, m) /\ IsFirst(low, l, h, k) => m = k
  <1>1. \E m \in l .. h : IsFirst(low, l, h, m)
    <2>. DEFINE T == {m \in l .. h : \A j \in m .. h - 1 : ~low[j]}
    <2>1. h \in T /\ T \in SUBSET Nat
      OBVIOUS
    <2>2. PICK m \in T : \A k \in T : m <= k
      BY <2>1, Least
    <2>3. m \in l .. h /\ \A j \in m .. h - 1 : ~low[j]
      OBVIOUS
    <2>4. ASSUME NEW j \in l .. m - 1 PROVE low[j]
      <3>1. j \in l .. h /\ j \notin T
        BY <2>2, <2>3
      <3>2. PICK i \in j .. h - 1 : low[i]
        BY <3>1
      <3>3. j \in l .. h - 1 /\ i \in l .. h - 1 /\ j <= i
        BY <3>2
      <3>. QED BY <3>2, <3>3
    <2>. QED BY <2>3, <2>4 DEF IsFirst
  <1>2. ASSUME NEW m, NEW k, IsFirst(low, l, h, m), IsFirst(low, l, h, k) PROVE m = k
    <2>1. m \in l .. h /\ k \in l .. h /\ m \in Nat /\ k \in Nat
      BY <1>2 DEF IsFirst
    <2>2. ~(m < k)
      BY <2>1, <1>2 DEF IsFirst
    <2>3. ~(k < m)
      BY <2>1, <1>2 DEF IsFirst
    <2>. QED BY <2>1, <2>2, <2>3
  <1>. QED BY <1>1, <1>2

(* The halving of lowerBoundBits and lowerBoundAddr keeps the place it is after. *)
LEMMA Halving ==
  ASSUME NEW l \in Nat, NEW h \in Nat, l < h, NEW low,
         \A i, j \in l .. h - 1 : i <= j /\ low[j] => low[i], NEW m
  PROVE  LET mid == (l + h) \div 2
         IN  /\ mid \in l .. h - 1
             /\ low[mid] /\ IsFirst(low, mid + 1, h, m) => IsFirst(low, l, h, m)
             /\ ~low[mid] /\ IsFirst(low, l, mid, m) => IsFirst(low, l, h, m)
  <1>. DEFINE mid == (l + h) \div 2
  <1>1. mid \in l .. h - 1
    OBVIOUS
  <1>. HIDE DEF mid
  <1>2. ASSUME low[mid], IsFirst(low, mid + 1, h, m) PROVE IsFirst(low, l, h, m)
    <2>1. m \in mid + 1 .. h /\ (\A j \in mid + 1 .. m - 1 : low[j]) /\ \A j \in m .. h - 1 : ~low[j]
      BY <1>2 DEF IsFirst
    <2>2. ASSUME NEW j \in l .. m - 1 PROVE low[j]
      <3>1. j \in l .. h - 1 /\ (j <= mid \/ j \in mid + 1 .. m - 1)
        BY <1>1, <2>1
      <3>. QED BY <3>1, <2>1, <1>1, <1>2
    <2>. QED BY <2>1, <2>2, <1>1 DEF IsFirst
  <1>3. ASSUME ~low[mid], IsFirst(low, l, mid, m) PROVE IsFirst(low, l, h, m)
    <2>1. m \in l .. mid /\ (\A j \in l .. m - 1 : low[j]) /\ \A j \in m .. mid - 1 : ~low[j]
      BY <1>3 DEF IsFirst
    <2>2. ASSUME NEW j \in m .. h - 1 PROVE ~low[j]
      <3>1. j \in l .. h - 1 /\ (mid <= j \/ j \in m .. mid - 1)
        BY <1>1, <2>1
      <3>. QED BY <3>1, <2>1, <1>1, <1>3
    <2>. QED BY <2>1, <2>2, <1>1 DEF IsFirst
  <1>. QED BY <1>1, <1>2, <1>3 DEF mid


(* lowerBoundBits and lowerBoundAddr find that place. *)
LEMMA LowerBoundFacts ==
  ASSUME NEW lo \in Nat, NEW hi \in Nat, lo <= hi, NEW low,
         \A i, j \in lo .. hi - 1 : i <= j /\ low[j] => low[i]
  PROVE  IsFirst(low, lo, hi, LowerBound(lo, hi, low))
  <1>. DEFINE I == lo .. hi
              II == I \X I
              Halve(f, l, h) ==
                LET mid == (l + h) \div 2
                IN IF l >= h THEN l ELSE IF low[mid] THEN f[<<mid + 1, h>>] ELSE f[<<l, mid>>]
              First(l, h) == IF l >= h THEN l ELSE CHOOSE m \in l .. h : IsFirst(low, l, h, m)
              g == [r \in II |-> First(r[1], r[2])]
              search == CHOOSE f : f = [r \in II |-> Halve(f, r[1], r[2])]
  <1>1. LowerBound(lo, hi, low) = search[<<lo, hi>>]
    BY DEF LowerBound
  <1>2. ASSUME NEW l \in I, NEW h \in I, l <= h
        PROVE  /\ l \in Nat /\ h \in Nat /\ \A i, j \in l .. h - 1 : i <= j /\ low[j] => low[i]
               /\ IsFirst(low, l, h, First(l, h))
    <2>1. l \in Nat /\ h \in Nat /\ \A i \in l .. h - 1 : i \in lo .. hi - 1
      OBVIOUS
    <2>2. \A i, j \in l .. h - 1 : i <= j /\ low[j] => low[i]
      BY <2>1
    <2>3. CASE l = h
      BY <2>1, <2>3 DEF IsFirst
    <2>4. CASE l < h
      <3>1. \E m \in l .. h : IsFirst(low, l, h, m)
        BY <2>1, <2>2, <1>2, FirstFacts
      <3>2. First(l, h) = CHOOSE m \in l .. h : IsFirst(low, l, h, m)
        BY <2>1, <2>4
      <3>. QED BY <2>1, <2>2, <3>1, <3>2
    <2>. QED BY <2>1, <2>2, <2>3, <2>4, <1>2
  <1>3. ASSUME NEW l \in I, NEW h \in I PROVE g[<<l, h>>] = First(l, h)
    <2>1. <<l, h>> \in II /\ <<l, h>>[1] = l /\ <<l, h>>[2] = h
      OBVIOUS
    <2>. HIDE DEF First, II
    <2>. QED BY <2>1
  <1>4. ASSUME NEW l \in I, NEW h \in I, l < h
        PROVE  LET mid == (l + h) \div 2
               IN  /\ mid \in l .. h - 1 /\ mid + 1 \in I /\ mid \in I
                   /\ \A m : low[mid] /\ IsFirst(low, mid + 1, h, m) => IsFirst(low, l, h, m)
                   /\ \A m : ~low[mid] /\ IsFirst(low, l, mid, m) => IsFirst(low, l, h, m)
    <2>1. l \in Nat /\ h \in Nat /\ l <= h /\ \A i, j \in l .. h - 1 : i <= j /\ low[j] => low[i]
      BY <1>2, <1>4
    <2>2. (l + h) \div 2 \in l .. h - 1
      BY <2>1, <1>4
    <2>3. (l + h) \div 2 + 1 \in I /\ (l + h) \div 2 \in I
      BY <2>1, <2>2
    <2>. QED BY <2>1, <2>2, <2>3, <1>4, Halving
  <1>5. ASSUME NEW l \in I, NEW h \in I PROVE First(l, h) = Halve(g, l, h)
    <2>1. CASE l >= h
      BY <2>1
    <2>2. CASE ~(l >= h)
      <3>. PICK mid \in I : /\ mid = (l + h) \div 2 /\ mid \in l .. h - 1 /\ mid + 1 \in I
                            /\ \A m : low[mid] /\ IsFirst(low, mid + 1, h, m) => IsFirst(low, l, h, m)
                            /\ \A m : ~low[mid] /\ IsFirst(low, l, mid, m) => IsFirst(low, l, h, m)
        BY <1>4, <2>2
      <3>1. IsFirst(low, l, h, First(l, h)) /\ \A m, k : IsFirst(low, l, h, m) /\ IsFirst(low, l, h, k) => m = k
        BY <1>2, <2>2, FirstFacts
      <3>2. mid + 1 <= h /\ l <= mid
        OBVIOUS
      <3>3. CASE low[mid]
        <4>1. Halve(g, l, h) = First(mid + 1, h)
          <5>. HIDE DEF g
          <5>1. Halve(g, l, h) = g[<<mid + 1, h>>]
            BY <2>2, <3>3
          <5>. HIDE DEF First, Halve
          <5>. QED BY <5>1, <1>3
        <4>2. IsFirst(low, mid + 1, h, First(mid + 1, h))
          BY <3>2, <1>2
        <4>. HIDE DEF First, Halve, g
        <4>. QED BY <4>1, <4>2, <3>1, <3>3
      <3>4. CASE ~low[mid]
        <4>1. Halve(g, l, h) = First(l, mid)
          <5>. HIDE DEF g
          <5>1. Halve(g, l, h) = g[<<l, mid>>]
            BY <2>2, <3>4
          <5>. HIDE DEF First, Halve
          <5>. QED BY <5>1, <1>3
        <4>2. IsFirst(low, l, mid, First(l, mid))
          BY <3>2, <1>2
        <4>. HIDE DEF First, Halve, g
        <4>. QED BY <4>1, <4>2, <3>1, <3>4
      <3>. QED BY <3>3, <3>4
    <2>. QED BY <2>1, <2>2
  <1>6. g = [r \in II |-> Halve(g, r[1], r[2])]
    <2>. HIDE DEF First, Halve
    <2>. QED BY <1>5
  <1>7. search = [r \in II |-> Halve(search, r[1], r[2])]
    <2>. HIDE DEF g, Halve
    <2>. QED BY <1>6
  <1>. HIDE DEF search, g
  <1>8. \A l, h \in I : search[<<l, h>>] = Halve(search, l, h)
    <2>. HIDE DEF Halve
    <2>. QED BY <1>7
  <1>9. \A l, h \in I : l <= h => IsFirst(low, l, h, search[<<l, h>>])
    <2>. DEFINE Bad == {n \in Nat : \E l, h \in I : l <= h /\ n = h - l /\ ~IsFirst(low, l, h, search[<<l, h>>])}
    <2>. SUFFICES ASSUME NEW x \in I, NEW y \in I, x <= y, ~IsFirst(low, x, y, search[<<x, y>>]) PROVE FALSE
      OBVIOUS
    <2>1. y - x \in Bad
      <3>1. y - x \in Nat
        OBVIOUS
      <3>. DEFINE d == y - x
      <3>2. x <= y /\ d = y - x
        OBVIOUS
      <3>. HIDE DEF d, I
      <3>3. \E l, h \in I : l <= h /\ d = h - l /\ ~IsFirst(low, l, h, search[<<l, h>>])
        BY <3>2
      <3>. QED BY <3>1, <3>3 DEF d
    <2>2. PICK n \in Bad : \A k \in Bad : n <= k
      <3>1. Bad \in SUBSET Nat /\ Bad # {}
        BY <2>1
      <3>. HIDE DEF Bad
      <3>. QED BY <3>1, Least
    <2>3. PICK l \in I, h \in I : l <= h /\ n = h - l /\ ~IsFirst(low, l, h, search[<<l, h>>])
      OBVIOUS
    <2>4. ASSUME NEW a \in I, NEW b \in I, a <= b, b - a < h - l PROVE IsFirst(low, a, b, search[<<a, b>>])
      <3>1. b - a \in Nat /\ ~(n <= b - a)
        BY <2>3, <2>4
      <3>2. b - a \notin Bad
        <4>. HIDE DEF Bad
        <4>. QED BY <2>2, <3>1
      <3>. QED BY <2>4, <3>1, <3>2
    <2>. HIDE DEF Bad
    <2>5. CASE l = h
      <3>1. search[<<l, h>>] = l
        <4>1. search[<<l, h>>] = Halve(search, l, h)
          BY <1>8
        <4>. QED BY <4>1, <2>5
      <3>. QED BY <2>3, <2>5, <3>1 DEF IsFirst
    <2>6. CASE l < h
      <3>. PICK mid \in I : /\ mid = (l + h) \div 2 /\ mid \in l .. h - 1 /\ mid + 1 \in I
                            /\ \A m : low[mid] /\ IsFirst(low, mid + 1, h, m) => IsFirst(low, l, h, m)
                            /\ \A m : ~low[mid] /\ IsFirst(low, l, mid, m) => IsFirst(low, l, h, m)
        BY <1>4, <2>6
      <3>1. search[<<l, h>>] = IF low[mid] THEN search[<<mid + 1, h>>] ELSE search[<<l, mid>>]
        <4>1. search[<<l, h>>] = Halve(search, l, h)
          BY <1>8
        <4>. QED BY <4>1, <2>6
      <3>2. IsFirst(low, mid + 1, h, search[<<mid + 1, h>>])
        BY <2>4
      <3>3. IsFirst(low, l, mid, search[<<l, mid>>])
        BY <2>4
      <3>. QED BY <2>3, <3>1, <3>2, <3>3
    <2>. QED BY <2>3, <2>5, <2>6
  <1>. QED BY <1>1, <1>9


(* The search of one run of equally long prefixes, and what is left to search. *)
LEMMA OneRun ==
  ASSUME NEW s \in Seq(Prefix), InOrderOf(s, Len(s)), NEW a \in Address, NEW hi \in 2 .. Len(s) + 1
  PROVE  LET bits == s[hi - 1].bits
             shorter == [j \in 1 .. hi - 1 |-> s[j].bits < bits]
             below == [j \in 1 .. hi - 1 |-> Lower(s[j].net, Masked(a, bits))]
             lo == LowerBound(1, hi, shorter)
             i == LowerBound(lo, hi, below)
         IN  /\ lo \in 1 .. hi - 1
             /\ ((i < hi /\ s[i].net = Masked(a, bits)) \/ \E j \in 1 .. lo - 1 : Covers(s[j], a))
                    <=> \E j \in 1 .. hi - 1 : Covers(s[j], a)
  <1>. DEFINE bits == s[hi - 1].bits
              m == Masked(a, bits)
              shorter == [j \in 1 .. hi - 1 |-> s[j].bits < bits]
              below == [j \in 1 .. hi - 1 |-> Lower(s[j].net, m)]
              lo == LowerBound(1, hi, shorter)
              i == LowerBound(lo, hi, below)
  <1>1. /\ Len(s) \in Nat /\ hi \in Nat /\ hi >= 2 /\ hi - 1 \in 1 .. Len(s)
        /\ \A j \in 1 .. hi - 1 : j \in 1 .. Len(s)
    OBVIOUS
  <1>2. \A j \in 1 .. hi - 1 : s[j] \in Prefix /\ s[j].bits \in Nat /\ s[j].net \in Address
    <2>1. \A j \in 1 .. Len(s) : s[j] \in Prefix
      OBVIOUS
    <2>. QED BY <1>1, <2>1, PrefixFacts, CidrAssumption
  <1>3. bits \in Nat /\ m \in Address
    <2>1. s[hi - 1] \in Prefix
      BY <1>1, <1>2
    <2>2. bits \in 0 .. Width
      BY <2>1, PrefixFacts
    <2>. HIDE DEF bits
    <2>3. bits \in Nat
      BY <2>2, CidrAssumption
    <2>4. m \in Address
      BY <2>2, PrefixFacts, Zenon
    <2>. QED BY <2>3, <2>4
  <1>4. \A j, k \in 1 .. hi - 1 : j < k => Before(s[j], s[k])
    BY <1>1 DEF InOrderOf
  <1>5. \A j, k \in 1 .. hi - 1 : j <= k => s[j].bits <= s[k].bits
    <2>1. ASSUME NEW j \in 1 .. hi - 1, NEW k \in 1 .. hi - 1, j < k PROVE s[j].bits <= s[k].bits
      BY <2>1, <1>2, <1>4 DEF Before
    <2>2. \A j \in 1 .. hi - 1 : s[j].bits <= s[j].bits
      BY <1>2
    <2>. QED BY <2>1, <2>2
  <1>. HIDE DEF bits, m
  <1>6. \A j \in 1 .. hi - 1 : (shorter[j] <=> s[j].bits < bits) /\ (below[j] <=> Lower(s[j].net, m))
    OBVIOUS
  <1>7. IsFirst(shorter, 1, hi, lo)
    <2>1. \A j, k \in 1 .. hi - 1 : j <= k /\ shorter[k] => shorter[j]
      BY <1>2, <1>3, <1>5, <1>6
    <2>. HIDE DEF shorter
    <2>. QED BY <2>1, <1>1, LowerBoundFacts
  <1>. HIDE DEF shorter, below, lo
  <1>8. /\ lo \in 1 .. hi - 1
        /\ \A j \in 1 .. lo - 1 : j \in 1 .. hi - 1
        /\ \A j \in lo .. hi - 1 : j \in 1 .. hi - 1 /\ s[j].bits = bits
    <2>1. lo \in 1 .. hi /\ (\A j \in 1 .. lo - 1 : shorter[j]) /\ \A j \in lo .. hi - 1 : ~shorter[j]
      BY <1>7 DEF IsFirst
    <2>2. hi - 1 \in 1 .. hi - 1 /\ ~shorter[hi - 1]
      BY <1>1, <1>3, <1>6 DEF bits
    <2>3. lo \in 1 .. hi - 1
      BY <2>1, <2>2, <1>1
    <2>4. ASSUME NEW j \in lo .. hi - 1 PROVE j \in 1 .. hi - 1 /\ s[j].bits = bits
      <3>1. j \in 1 .. hi - 1
        BY <2>3, <1>1
      <3>2. s[j].bits <= bits
        BY <3>1, <2>2, <1>1, <1>5 DEF bits
      <3>. QED BY <3>1, <3>2, <2>1, <1>2, <1>3, <1>6
    <2>. QED BY <2>3, <2>4, <1>1
  <1>9. \A j, k \in lo .. hi - 1 : j < k => Lower(s[j].net, s[k].net)
    BY <1>2, <1>3, <1>4, <1>8 DEF Before
  <1>10. IsFirst(below, lo, hi, i)
    <2>1. lo \in Nat /\ lo <= hi
      BY <1>1, <1>8
    <2>2. ASSUME NEW j \in lo .. hi - 1, NEW k \in lo .. hi - 1, j <= k, below[k] PROVE below[j]
      <3>1. CASE j = k
        BY <3>1, <2>2
      <3>2. CASE j < k
        <4>1. Lower(s[j].net, s[k].net) /\ Lower(s[k].net, m)
          BY <3>2, <2>2, <1>6, <1>8, <1>9
        <4>2. Lower(s[j].net, m)
          BY <4>1, <1>2, <1>3, <1>8, AddressOrder
        <4>. QED BY <4>2, <1>6, <1>8
      <3>. QED BY <3>1, <3>2, <2>1, <2>2
    <2>. QED BY <2>1, <2>2, <1>1, LowerBoundFacts
  <1>. HIDE DEF i
  <1>11. i \in lo .. hi /\ (\A j \in lo .. i - 1 : below[j]) /\ \A j \in i .. hi - 1 : ~below[j]
    BY <1>10 DEF IsFirst
  <1>12. ASSUME NEW j \in lo .. hi - 1, Covers(s[j], a) PROVE i < hi /\ s[i].net = m
    <2>1. s[j].net = m
      BY <1>8, <1>12 DEF Covers, m
    <2>2. ~below[j]
      BY <2>1, <1>3, <1>6, <1>8, AddressOrder
    <2>3. i <= j /\ i \in lo .. hi - 1 /\ i \in Nat
      BY <2>2, <1>1, <1>8, <1>11
    <2>4. ~(i < j)
      <3>1. ~below[i]
        BY <2>3, <1>8, <1>11
      <3>. QED BY <3>1, <2>1, <2>3, <1>6, <1>8, <1>9
    <2>. QED BY <2>1, <2>3, <2>4
  <1>13. ASSUME i < hi, s[i].net = m PROVE i \in 1 .. hi - 1 /\ Covers(s[i], a)
    <2>1. i \in lo .. hi - 1
      BY <1>11, <1>13, <1>8, <1>1
    <2>. QED BY <2>1, <1>8, <1>13 DEF Covers, m
  <1>14. \A j \in 1 .. hi - 1 : j \in 1 .. lo - 1 \/ j \in lo .. hi - 1
    BY <1>1, <1>8
  <1>15. (i < hi /\ s[i].net = m) \/ (\E j \in 1 .. lo - 1 : Covers(s[j], a)) <=> \E j \in 1 .. hi - 1 : Covers(s[j], a)
    BY <1>8, <1>12, <1>13, <1>14
  <1>. QED BY <1>8, <1>15 DEF i, lo, shorter, below, m, bits

(* The search of a sorted slice finds what a scan of it finds. *)
LEMMA ContainsFacts ==
  ASSUME NEW s \in Seq(Prefix), InOrderOf(s, Len(s)), NEW a \in Address
  PROVE  ContainsSorted(s, a) <=> ContainsLinear(s, a)
  <1>. DEFINE R == 1 .. Len(s) + 1
              Step(f, hi) ==
                IF hi = 1 THEN FALSE
                ELSE LET bits == s[hi - 1].bits
                         shorter == [j \in 1 .. hi - 1 |-> s[j].bits < bits]
                         below == [j \in 1 .. hi - 1 |-> Lower(s[j].net, Masked(a, bits))]
                         lo == LowerBound(1, hi, shorter)
                         i == LowerBound(lo, hi, below)
                     IN (i < hi /\ s[i].net = Masked(a, bits)) \/ f[lo]
              Some(hi) == \E j \in 1 .. hi - 1 : Covers(s[j], a)
              g == [hi \in R |-> Some(hi)]
              run == CHOOSE f : f = [hi \in R |-> Step(f, hi)]
  <1>1. ContainsSorted(s, a) = run[Len(s) + 1]
    BY DEF ContainsSorted
  <1>2. \A hi \in R : hi \in Nat /\ (hi = 1 \/ hi \in 2 .. Len(s) + 1)
    OBVIOUS
  <1>3. ASSUME NEW f, NEW hi \in 2 .. Len(s) + 1, \A k \in 1 .. hi - 1 : f[k] = Some(k) PROVE Step(f, hi) = Some(hi)
    <2>. DEFINE bits == s[hi - 1].bits
                shorter == [j \in 1 .. hi - 1 |-> s[j].bits < bits]
                below == [j \in 1 .. hi - 1 |-> Lower(s[j].net, Masked(a, bits))]
                lo == LowerBound(1, hi, shorter)
                i == LowerBound(lo, hi, below)
    <2>1. lo \in 1 .. hi - 1 /\ (((i < hi /\ s[i].net = Masked(a, bits)) \/ Some(lo)) <=> Some(hi))
      BY OneRun
    <2>2. Step(f, hi) = ((i < hi /\ s[i].net = Masked(a, bits)) \/ f[lo])
      <3>1. hi # 1
        OBVIOUS
      <3>. HIDE DEF lo, i, shorter, below, bits
      <3>. QED BY <3>1 DEF lo, i, shorter, below, bits
    <2>. HIDE DEF lo, i, shorter, below, bits, Step, Some
    <2>3. f[lo] = Some(lo)
      BY <2>1, <1>3
    <2>4. Step(f, hi) = ((i < hi /\ s[i].net = Masked(a, bits)) \/ Some(lo))
      BY <2>2, <2>3, Zenon
    <2>. QED BY <2>1, <2>4 DEF Some
  <1>4. \A hi \in R : g[hi] = Some(hi)
    OBVIOUS
  <1>5. ~Some(1)
    OBVIOUS
  <1>6. g = [hi \in R |-> Step(g, hi)]
    <2>1. ASSUME NEW hi \in R PROVE Some(hi) = Step(g, hi)
      <3>1. CASE hi = 1
        BY <3>1, <1>5
      <3>2. CASE hi \in 2 .. Len(s) + 1
        <4>1. \A k \in 1 .. hi - 1 : g[k] = Some(k)
          <5>1. \A k \in 1 .. hi - 1 : k \in R
            BY <3>2
          <5>. HIDE DEF R, g, Some
          <5>. QED BY <5>1, <1>4
        <4>. HIDE DEF g, Step, Some
        <4>. QED BY <3>2, <4>1, <1>3
      <3>. QED BY <3>1, <3>2, <1>2
    <2>. HIDE DEF Step, Some
    <2>. QED BY <2>1
  <1>7. run = [hi \in R |-> Step(run, hi)]
    <2>. HIDE DEF g, Step
    <2>. QED BY <1>6
  <1>. HIDE DEF run, g
  <1>8. \A hi \in R : run[hi] = Step(run, hi)
    <2>. HIDE DEF Step
    <2>. QED BY <1>7
  <1>9. \A hi \in R : run[hi] = Some(hi)
    <2>. DEFINE Bad == {hi \in R : run[hi] # Some(hi)}
    <2>. HIDE DEF Step, Some
    <2>1. SUFFICES ASSUME Bad # {} PROVE FALSE
      OBVIOUS
    <2>2. PICK hi \in Bad : \A k \in Bad : hi <= k
      BY <2>1, <1>2, Least
    <2>3. \A k \in 1 .. hi - 1 : run[k] = Some(k)
      <3>1. \A k \in 1 .. hi - 1 : k \in R /\ ~(hi <= k)
        BY <2>2
      <3>. QED BY <3>1, <2>2
    <2>4. CASE hi = 1
      <3>1. ~Step(run, 1)
        BY DEF Step
      <3>2. Some(1) = FALSE /\ Step(run, 1) = FALSE
        BY <3>1, <1>5 DEF Some, Step
      <3>. QED BY <2>2, <2>4, <3>2, <1>8
    <2>5. CASE hi \in 2 .. Len(s) + 1
      BY <2>2, <2>3, <2>5, <1>3, <1>8
    <2>. QED BY <2>2, <2>4, <2>5, <1>2
  <1>10. Len(s) + 1 \in R /\ Len(s) + 1 - 1 = Len(s)
    OBVIOUS
  <1>11. run[Len(s) + 1] <=> \E j \in 1 .. Len(s) : Covers(s[j], a)
    <2>1. run[Len(s) + 1] = Some(Len(s) + 1)
      <3>. HIDE DEF Some, R
      <3>. QED BY <1>9, <1>10
    <2>2. Some(Len(s) + 1) = \E j \in 1 .. Len(s) : Covers(s[j], a)
      BY <1>10
    <2>. HIDE DEF Some
    <2>. QED BY <2>1, <2>2
  <1>. QED BY <1>1, <1>11 DEF ContainsLinear


\* What the slice is between two steps, and what the readers were told.
CidrInv ==
    /\ CidrTypeOK /\ loads <= adds
    /\ {ps[i] : i \in 1 .. Len(ps)} = members
    /\ sorted => InOrderOf(ps, Len(ps))
    /\ MatchIsMembership

(* The scan of the slice is membership in what was added or loaded. *)
LEMMA FoundFacts == ASSUME CidrInv, NEW a \in Address PROVE Found(a) <=> any \/ \E p \in members : Covers(p, a)
  <1>1. ps \in Seq(Prefix) /\ (sorted => InOrderOf(ps, Len(ps))) /\ {ps[i] : i \in 1 .. Len(ps)} = members
    BY DEF CidrInv, CidrTypeOK
  <1>2. ContainsLinear(ps, a) <=> \E p \in members : Covers(p, a)
    BY <1>1 DEF ContainsLinear
  <1>3. sorted => (ContainsSorted(ps, a) <=> ContainsLinear(ps, a))
    BY <1>1, ContainsFacts
  <1>. QED BY <1>2, <1>3 DEF Found

(* An empty set is sorted. *)
LEMMA CidrStarts == CidrInit => CidrInv
  <1>. SUFFICES ASSUME CidrInit PROVE CidrInv
    OBVIOUS
  <1>. DEFINE zero == [i \in 1 .. Width |-> 0]
  <1>1. zero \in Address
    BY DEF Address
  <1>2. asked = [r \in Reader |-> zero]
    BY DEF CidrInit
  <1>. HIDE DEF zero
  <1>3. MaxAdds \in Nat /\ MaxLooks \in Nat
    BY CidrAssumption
  <1>4. asked \in [Reader -> Address]
    BY <1>1, <1>2
  <1>5. CidrTypeOK /\ loads <= adds
    <2>1. ps \in Seq(Prefix) /\ cidrFile \in Contents /\ members \subseteq Prefix
      BY DEF CidrInit
    <2>4. sorted \in BOOLEAN /\ any \in BOOLEAN
      BY DEF CidrInit
    <2>2. /\ rpc \in [Reader -> {"idle", "ensured", "told"}]
          /\ answer \in [Reader -> BOOLEAN] /\ truth \in [Reader -> BOOLEAN]
      BY DEF CidrInit
    <2>3. loads \in 0 .. MaxAdds /\ adds \in 0 .. MaxAdds /\ looks \in 0 .. MaxLooks /\ loads <= adds
      BY <1>3 DEF CidrInit
    <2>. QED BY <1>4, <2>1, <2>2, <2>3, <2>4 DEF CidrTypeOK
  <1>. QED BY <1>5 DEF CidrInit, CidrInv, InOrderOf, MatchIsMembership

\* The prefixes in a slice.
PrefixesOf(t) == {t[i] : i \in 1 .. Len(t)}

(* Sorting a slice leaves its prefixes what they are. *)
LEMMA Resorted ==
  ASSUME NEW s \in Seq(Prefix)
  PROVE  Sorted(s) \in Seq(Prefix) /\ InOrderOf(Sorted(s), Len(Sorted(s))) /\ PrefixesOf(Sorted(s)) = PrefixesOf(s)
  BY SortedFacts DEF PrefixesOf

(* The prefixes of two slices put together. *)
LEMMA Joined ==
  \A u, v \in Seq(Prefix) : /\ u \o v \in Seq(Prefix)
                            /\ {u[i] : i \in 1 .. Len(u)} \cup {v[i] : i \in 1 .. Len(v)}
                                   = {(u \o v)[i] : i \in 1 .. Len(u \o v)}
  <1>. SUFFICES ASSUME NEW u \in Seq(Prefix), NEW v \in Seq(Prefix)
                PROVE  /\ u \o v \in Seq(Prefix)
                       /\ {u[i] : i \in 1 .. Len(u)} \cup {v[i] : i \in 1 .. Len(v)}
                              = {(u \o v)[i] : i \in 1 .. Len(u \o v)}
    OBVIOUS
  <1>1. Len(u) \in Nat /\ Len(v) \in Nat /\ Len(u \o v) = Len(u) + Len(v) /\ u \o v \in Seq(Prefix)
    OBVIOUS
  <1>2. \A i \in 1 .. Len(u \o v) : (u \o v)[i] = IF i <= Len(u) THEN u[i] ELSE v[i - Len(u)]
    OBVIOUS
  <1>. DEFINE w == u \o v
  <1>. HIDE DEF w
  <1>3. ASSUME NEW i \in 1 .. Len(u) PROVE \E j \in 1 .. Len(w) : w[j] = u[i]
    <2>1. i \in 1 .. Len(w) /\ w[i] = u[i]
      BY <1>1, <1>2 DEF w
    <2>. QED BY <2>1
  <1>4. ASSUME NEW i \in 1 .. Len(v) PROVE \E j \in 1 .. Len(w) : w[j] = v[i]
    <2>1. Len(u) + i \in 1 .. Len(w) /\ w[Len(u) + i] = v[i]
      BY <1>1, <1>2 DEF w
    <2>. QED BY <2>1
  <1>5. ASSUME NEW j \in 1 .. Len(w) PROVE (\E i \in 1 .. Len(u) : w[j] = u[i]) \/ \E i \in 1 .. Len(v) : w[j] = v[i]
    <2>1. CASE j <= Len(u)
      <3>1. j \in 1 .. Len(u) /\ w[j] = u[j]
        BY <2>1, <1>1, <1>2 DEF w
      <3>. QED BY <3>1
    <2>2. CASE ~(j <= Len(u))
      <3>1. j - Len(u) \in 1 .. Len(v) /\ w[j] = v[j - Len(u)]
        BY <2>2, <1>1, <1>2 DEF w
      <3>. QED BY <3>1
    <2>. QED BY <2>1, <2>2
  <1>6. {u[i] : i \in 1 .. Len(u)} \cup {v[i] : i \in 1 .. Len(v)} = {w[i] : i \in 1 .. Len(w)}
    <2>1. {u[i] : i \in 1 .. Len(u)} \cup {v[i] : i \in 1 .. Len(v)} \subseteq {w[i] : i \in 1 .. Len(w)}
      BY <1>3, <1>4
    <2>2. {w[i] : i \in 1 .. Len(w)} \subseteq {u[i] : i \in 1 .. Len(u)} \cup {v[i] : i \in 1 .. Len(v)}
      BY <1>5
    <2>. QED BY <2>1, <2>2
  <1>. QED BY <1>1, <1>6 DEF w

(* Adding, loading, reloading, sorting and looking keep the slice what was put in. *)
LEMMA CidrStep == CidrInv /\ [CidrNext]_cidrVars => CidrInv'
  <1>. SUFFICES ASSUME CidrInv, [CidrNext]_cidrVars PROVE CidrInv'
    OBVIOUS
  <1>1. /\ ps \in Seq(Prefix) /\ members = PrefixesOf(ps)
        /\ members \subseteq Prefix /\ cidrFile \in Contents /\ cidrFile \subseteq Prefix /\ IsFiniteSet(cidrFile)
    BY CidrAssumption DEF CidrInv, CidrTypeOK, PrefixesOf
  <1>2. /\ MaxAdds \in Nat /\ MaxLooks \in Nat
        /\ loads \in 0 .. MaxAdds /\ adds \in 0 .. MaxAdds /\ looks \in 0 .. MaxLooks /\ loads <= adds
    BY CidrAssumption DEF CidrInv, CidrTypeOK
  <1>3. sorted \in BOOLEAN /\ any \in BOOLEAN
    BY DEF CidrInv, CidrTypeOK
  <1>4. /\ rpc \in [Reader -> {"idle", "ensured", "told"}] /\ asked \in [Reader -> Address]
        /\ answer \in [Reader -> BOOLEAN] /\ truth \in [Reader -> BOOLEAN]
    BY DEF CidrInv, CidrTypeOK
  <1>5. (sorted => InOrderOf(ps, Len(ps))) /\ MatchIsMembership
    BY DEF CidrInv
  <1>. DEFINE s == ps \o Lines(cidrFile)
              Numbers == loads \in 0 .. MaxAdds /\ adds \in 0 .. MaxAdds /\ looks \in 0 .. MaxLooks /\ loads <= adds
              Flags == sorted \in BOOLEAN /\ any \in BOOLEAN
              Readers == /\ rpc \in [Reader -> {"idle", "ensured", "told"}] /\ asked \in [Reader -> Address]
                         /\ answer \in [Reader -> BOOLEAN] /\ truth \in [Reader -> BOOLEAN]
              Slice == ps \in Seq(Prefix) /\ members = PrefixesOf(ps)
  <1>6. /\ Lines(cidrFile) \in Seq(Prefix) /\ cidrFile = PrefixesOf(Lines(cidrFile))
        /\ s \in Seq(Prefix) /\ members \cup cidrFile = PrefixesOf(s)
    <2>1. Lines(cidrFile) \in Seq(Prefix) /\ cidrFile = PrefixesOf(Lines(cidrFile))
      BY <1>1, LinesFacts DEF PrefixesOf
    <2>2. \A u, v \in Seq(Prefix) : u \o v \in Seq(Prefix) /\ PrefixesOf(u) \cup PrefixesOf(v) = PrefixesOf(u \o v)
      BY Joined DEF PrefixesOf
    <2>. QED BY <2>1, <2>2, <1>1
  <1>. HIDE DEF s
  <1>. DEFINE Fine == /\ Slice /\ cidrFile \in Contents /\ Numbers /\ Flags /\ Readers
                      /\ (sorted => InOrderOf(ps, Len(ps))) /\ MatchIsMembership
  <1>7. SUFFICES Fine'
    <2>1. ASSUME Slice' PROVE members' \subseteq Prefix
      BY <2>1 DEF PrefixesOf
    <2>. QED BY <2>1 DEF CidrInv, CidrTypeOK, PrefixesOf
  <1>8. ASSUME NEW p \in Prefix, Add(p) PROVE Fine'
    <2>1. Slice'
      <3>1. ps' = Append(ps, p) /\ members' = members \cup {p}
        BY <1>8 DEF Add
      <3>. QED BY <3>1, <1>1 DEF PrefixesOf
    <2>2. Numbers' /\ cidrFile' \in Contents
      BY <1>1, <1>2, <1>8 DEF Add
    <2>3. Flags' /\ ~sorted'
      BY <1>3, <1>8 DEF Add
    <2>4. Readers' /\ MatchIsMembership'
      BY <1>4, <1>5, <1>8 DEF Add, MatchIsMembership
    <2>. HIDE DEF Slice, Numbers, Flags, Readers
    <2>. QED BY <2>1, <2>2, <2>3, <2>4
  <1>9. CASE LoadFile
    <2>1. Slice' /\ InOrderOf(ps', Len(ps'))
      <3>1. ps' = Sorted(s) /\ members' = members \cup cidrFile
        BY <1>9 DEF LoadFile, s
      <3>. QED BY <3>1, <1>6, Resorted
    <2>2. Numbers' /\ cidrFile' \in Contents
      BY <1>1, <1>2, <1>9 DEF LoadFile
    <2>3. Flags'
      BY <1>3, <1>9 DEF LoadFile
    <2>4. Readers' /\ MatchIsMembership'
      BY <1>4, <1>5, <1>9 DEF LoadFile, MatchIsMembership
    <2>. HIDE DEF Slice, Numbers, Flags, Readers
    <2>. QED BY <2>1, <2>2, <2>3, <2>4
  <1>10. CASE ReloadSet
    <2>1. Slice' /\ InOrderOf(ps', Len(ps'))
      <3>1. ps' = Sorted(Lines(cidrFile)) /\ members' = cidrFile
        BY <1>10 DEF ReloadSet
      <3>. QED BY <3>1, <1>6, Resorted
    <2>2. Numbers' /\ cidrFile' \in Contents
      BY <1>1, <1>2, <1>10 DEF ReloadSet
    <2>3. Flags'
      BY <1>10 DEF ReloadSet
    <2>4. Readers' /\ MatchIsMembership'
      BY <1>4, <1>5, <1>10 DEF ReloadSet, MatchIsMembership
    <2>. HIDE DEF Slice, Numbers, Flags, Readers
    <2>. QED BY <2>1, <2>2, <2>3, <2>4
  <1>11. CASE Rewrite
    <2>1. Slice' /\ (sorted' => InOrderOf(ps', Len(ps')))
      BY <1>1, <1>5, <1>11 DEF Rewrite
    <2>2. Numbers' /\ cidrFile' \in Contents
      BY <1>2, <1>11 DEF Rewrite
    <2>3. Flags'
      BY <1>3, <1>11 DEF Rewrite
    <2>4. Readers' /\ MatchIsMembership'
      BY <1>4, <1>5, <1>11 DEF Rewrite, MatchIsMembership
    <2>. HIDE DEF Slice, Numbers, Flags, Readers
    <2>. QED BY <2>1, <2>2, <2>3, <2>4
  <1>12. ASSUME NEW r \in Reader, EnsureSorted(r) PROVE Fine'
    <2>1. Slice' /\ InOrderOf(ps', Len(ps')) /\ sorted' = TRUE
      <3>1. CASE sorted
        BY <1>1, <1>3, <1>5, <1>12, <3>1 DEF EnsureSorted
      <3>2. CASE ~sorted
        <4>1. ps' = Sorted(ps) /\ sorted' = TRUE /\ members' = members
          BY <1>12, <3>2 DEF EnsureSorted
        <4>. QED BY <4>1, <1>1, Resorted
      <3>. QED BY <3>1, <3>2
    <2>2. Numbers' /\ cidrFile' \in Contents
      BY <1>1, <1>2, <1>12 DEF EnsureSorted
    <2>3. Flags'
      BY <2>1, <1>3, <1>12 DEF EnsureSorted
    <2>4. Readers' /\ MatchIsMembership'
      BY <1>4, <1>5, <1>12 DEF EnsureSorted, MatchIsMembership
    <2>. HIDE DEF Slice, Numbers, Flags, Readers
    <2>. QED BY <2>1, <2>2, <2>3, <2>4
  <1>13. ASSUME NEW r \in Reader, Look(r) PROVE Fine'
    <2>. DEFINE found == Found(asked[r])
                right == any \/ \E p \in members : Covers(p, asked[r])
    <2>1. found \in BOOLEAN /\ found = right
      <3>1. asked[r] \in Address
        BY <1>4
      <3>2. found <=> right
        BY <3>1, FoundFacts
      <3>. QED BY <3>2 DEF Found
    <2>2. /\ answer' = [answer EXCEPT ![r] = found] /\ truth' = [truth EXCEPT ![r] = right]
          /\ rpc' = [rpc EXCEPT ![r] = "told"]
          /\ UNCHANGED <<ps, sorted, any, loads, cidrFile, asked, members, adds, looks>>
      BY <1>13 DEF Look
    <2>. HIDE DEF found, right
    <2>3. Slice' /\ (sorted' => InOrderOf(ps', Len(ps')))
      BY <1>1, <1>5, <2>2
    <2>4. Numbers' /\ cidrFile' \in Contents
      BY <1>1, <1>2, <2>2
    <2>5. Flags'
      BY <1>3, <2>2
    <2>6. Readers'
      BY <1>4, <2>1, <2>2
    <2>7. MatchIsMembership'
      BY <1>4, <1>5, <2>1, <2>2 DEF MatchIsMembership
    <2>. HIDE DEF Slice, Numbers, Flags, Readers
    <2>. QED BY <2>3, <2>4, <2>5, <2>6, <2>7
  <1>14. ASSUME NEW r \in Reader, Again(r) PROVE Fine'
    <2>1. Slice' /\ (sorted' => InOrderOf(ps', Len(ps')))
      BY <1>1, <1>5, <1>14 DEF Again
    <2>2. Numbers' /\ cidrFile' \in Contents
      BY <1>1, <1>2, <1>14 DEF Again
    <2>3. Flags'
      BY <1>3, <1>14 DEF Again
    <2>4. Readers' /\ MatchIsMembership'
      BY <1>4, <1>5, <1>14 DEF Again, MatchIsMembership
    <2>. HIDE DEF Slice, Numbers, Flags, Readers
    <2>. QED BY <2>1, <2>2, <2>3, <2>4
  <1>15. CASE UNCHANGED cidrVars
    <2>1. Slice' /\ (sorted' => InOrderOf(ps', Len(ps')))
      BY <1>1, <1>5, <1>15 DEF cidrVars
    <2>2. Numbers' /\ cidrFile' \in Contents
      BY <1>1, <1>2, <1>15 DEF cidrVars
    <2>3. Flags'
      BY <1>3, <1>15 DEF cidrVars
    <2>4. Readers' /\ MatchIsMembership'
      BY <1>4, <1>5, <1>15 DEF cidrVars, MatchIsMembership
    <2>. HIDE DEF Slice, Numbers, Flags, Readers
    <2>. QED BY <2>1, <2>2, <2>3, <2>4
  <1>. HIDE DEF Fine
  <1>. QED BY <1>8, <1>9, <1>10, <1>11, <1>12, <1>13, <1>14, <1>15 DEF CidrNext

(* What a reader of a list of prefixes is told is what the list says: whatever
   was added or reloaded in between (CIDRSet.Match, containsSorted). *)
THEOREM CidrAlways == CidrSpec => []CidrInv
  <1>. QED BY CidrStarts, CidrStep, PTL DEF CidrSpec

(***************************************************************************)
(* IpsetSwitch: with one command at a time. The run ipset_race shows what  *)
(* two at once do.                                                         *)
(***************************************************************************)

\* No two connections have a command under way.
OneCaller == \A c, d \in Caller : c = d

\* What a command that has read the state may still rely on when it acts, and
\* what holds of its answer and of the strategy that runs.
Informed(c) ==
    /\ ipc[c] = "read" => cur[c] = ModeOf(list)
    /\ ipc[c] \in {"remove", "keep"} => list = "real"
    /\ ipc[c] \in {"write", "restore"} => backup = "real"
    /\ ipc[c] \in {"remove", "keep", "write"} => mode[c] # "loaded"
    /\ ipc[c] = "restore" => mode[c] = "loaded"
    /\ ipc[c] = "reload" => ModeOf(list) = mode[c]
    /\ ipc[c] # "reload" => list = "absent" \/ compiled = list
    /\ told[c] = "ok" => ipc[c] = "idle" /\ ModeOf(list) = mode[c]

SwitchInv == IpsetTypeOK /\ RealListKept /\ \A c \in Caller : Informed(c)

(* The modes of the files (ipsetState): only the real list is "loaded", and a *)
(* missing one has no mode that a command could ask for.                      *)
LEMMA ModeFacts ==
    /\ ModeOf("real") = "loaded" /\ ModeOf("sentinel") = "none"
    /\ ModeOf("empty") = "any" /\ ModeOf("absent") = "unknown"
  BY DEF ModeOf

(* The invariant holds of the files an installation starts with: the real list *)
(* is in place, or it is the backup of a switched one (ipsetState).            *)
LEMMA StartsKept == IpsetInit => SwitchInv
  BY IpsetAssumption DEF IpsetAssumption, IpsetInit, SwitchInv, IpsetTypeOK, RealListKept, Informed, FileState, Mode

(* A step of IPSet, of any command, keeps every variable in its type. *)
LEMMA IpsetTypeStep ==
    ASSUME IpsetTypeOK, [IpsetNext]_ipsetVars
    PROVE  IpsetTypeOK'
  <1> USE IpsetAssumption DEF IpsetTypeOK, FileState, Mode, Go, Tell
  <1>1. ASSUME NEW c \in Caller, NEW m \in Mode, Arrive(c, m) PROVE IpsetTypeOK'
    <2>1. ModeOf(list) \in Mode \cup {"unknown"}
      BY DEF ModeOf
    <2>2. (list # "absent" /\ backup # "absent") \in BOOLEAN
      OBVIOUS
    <2>3. hadBackup' \in [Caller -> BOOLEAN]
      BY <1>1, <2>2, Zenon DEF Arrive
    <2>. QED BY <1>1, <2>1, <2>3 DEF Arrive, IpsetAssumption
  <1>2. ASSUME NEW c \in Caller, Choose(c) PROVE IpsetTypeOK'
    BY <1>2 DEF Choose
  <1>3. ASSUME NEW c \in Caller, RemoveBackup(c) PROVE IpsetTypeOK'
    BY <1>3 DEF RemoveBackup
  <1>4. ASSUME NEW c \in Caller, KeepList(c) PROVE IpsetTypeOK'
    BY <1>4 DEF KeepList
  <1>5. ASSUME NEW c \in Caller, WriteList(c) PROVE IpsetTypeOK'
    BY <1>5 DEF WriteList, Body, IpsetAssumption
  <1>6. ASSUME NEW c \in Caller, RestoreList(c) PROVE IpsetTypeOK'
    BY <1>6 DEF RestoreList
  <1>7. ASSUME NEW c \in Caller, Recompile(c) PROVE IpsetTypeOK'
    BY <1>7 DEF Recompile
  <1>8. CASE Die
    BY <1>8 DEF Die, IpsetAssumption
  <1>9. CASE UNCHANGED ipsetVars
    BY <1>9 DEF ipsetVars
  <1>. QED
    BY <1>1, <1>2, <1>3, <1>4, <1>5, <1>6, <1>7, <1>8, <1>9 DEF IpsetNext, Serving

(* A step of the only command, a crash of the daemon between two of its steps or *)
(* a failed write keeps the real list and what the command relies on.            *)
LEMMA SwitchStep ==
    ASSUME OneCaller, SwitchInv, [IpsetNext]_ipsetVars
    PROVE  SwitchInv'
  <1>. USE DEF Go, Tell
  <1>t. IpsetTypeOK'
    BY IpsetTypeStep DEF SwitchInv
  <1>. SUFFICES RealListKept' /\ \A c \in Caller : Informed(c)'
    BY <1>t DEF SwitchInv
  <1>a. IpsetTypeOK /\ RealListKept /\ \A c \in Caller : Informed(c)
    BY DEF SwitchInv
  <1>b. ASSUME NEW c \in Caller, RealListKept', Informed(c)'
        PROVE  RealListKept' /\ \A d \in Caller : Informed(d)'
    BY <1>b DEF OneCaller
  <1>p. /\ ipc' \in [Caller -> {"idle", "read", "remove", "keep", "write", "restore", "reload"}]
        /\ told' \in [Caller -> {"none", "ok", "error"}] /\ mode' \in [Caller -> Mode]
    BY <1>t DEF IpsetTypeOK
  <1>1. ASSUME NEW c \in Caller, NEW m \in Mode, Arrive(c, m)
        PROVE  RealListKept' /\ Informed(c)'
    <2>1. ipc[c] = "idle" /\ ipc'[c] = "read" /\ cur'[c] = ModeOf(list) /\ told'[c] = "none"
      BY <1>1, <1>a DEF Arrive, IpsetTypeOK
    <2>2. list' = list /\ backup' = backup /\ compiled' = compiled
      BY <1>1 DEF Arrive
    <2>. QED BY <1>a, <2>1, <2>2 DEF Informed, RealListKept, ModeOf
  <1>2. ASSUME NEW c \in Caller, Choose(c) PROVE RealListKept' /\ Informed(c)'
    <2>1. RealListKept'
      BY <1>2, <1>a DEF Choose, RealListKept
    <2>2. cur[c] = ModeOf(list)
      BY <1>2, <1>a DEF Choose, Informed
    <2>3. cur[c] = "loaded" => list = "real"
      BY <2>2, <1>a DEF ModeOf, IpsetTypeOK, FileState
    <2>4. cur[c] # "loaded" => backup = "real"
      BY <2>2, <1>a DEF ModeOf, RealListKept
    <2>5. list' = list /\ backup' = backup /\ compiled' = compiled /\ mode' = mode /\ cur' = cur
      BY <1>2 DEF Choose
    <2>6. ModeOf(list)' = ModeOf(list)
      BY <2>5 DEF ModeOf
    <2>7. (list = "absent" \/ compiled = list) /\ told[c] # "ok"
      BY <1>2, <1>a DEF Choose, Informed
    <2>8. \/ ipc'[c] = "idle" /\ (told'[c] = "ok" => mode[c] = cur[c])
          \/ ipc'[c] = "restore" /\ mode[c] = "loaded" /\ mode[c] # cur[c] /\ told'[c] # "ok"
          \/ ipc'[c] = "remove" /\ mode[c] # "loaded" /\ cur[c] = "loaded" /\ told'[c] # "ok"
          \/ ipc'[c] = "write" /\ mode[c] # "loaded" /\ cur[c] # "loaded" /\ told'[c] # "ok"
      BY <1>2, <1>a, <2>7 DEF Choose, IpsetTypeOK
    <2>. QED
      BY <2>1, <2>2, <2>3, <2>4, <2>5, <2>6, <2>7, <2>8 DEF Informed
  <1>3. ASSUME NEW c \in Caller, RemoveBackup(c) PROVE RealListKept' /\ Informed(c)'
    <2>1. ipc[c] = "remove" /\ ipc'[c] = "keep" /\ told' = told
      BY <1>3, <1>a DEF RemoveBackup, IpsetTypeOK
    <2>2. list' = list /\ compiled' = compiled /\ mode' = mode
      BY <1>3 DEF RemoveBackup
    <2>. QED BY <2>1, <2>2, <1>a DEF Informed, RealListKept
  <1>4. ASSUME NEW c \in Caller, KeepList(c) PROVE RealListKept' /\ Informed(c)'
    <2>1. ipc[c] = "keep" /\ list = "real" /\ mode[c] # "loaded" /\ told[c] # "ok"
      BY <1>4, <1>a DEF KeepList, Informed
    <2>2. ipc'[c] = "write" /\ told' = told /\ backup' = "real" /\ list' = "absent" /\ mode' = mode
      BY <1>4, <2>1, <1>a DEF KeepList, IpsetTypeOK
    <2>. QED BY <2>1, <2>2 DEF Informed, RealListKept
  <1>5. ASSUME NEW c \in Caller, WriteList(c) PROVE RealListKept' /\ Informed(c)'
    <2>1. ipc[c] = "write" /\ backup = "real" /\ mode[c] \in Mode \ {"loaded"} /\ told[c] # "ok"
      BY <1>5, <1>a DEF WriteList, Informed, IpsetTypeOK
    <2>2. backup' = backup /\ mode' = mode /\ compiled' = compiled
      BY <1>5 DEF WriteList
    <2>3. CASE list' = Body(mode[c]) /\ Go(c, "reload") /\ UNCHANGED told
      <3>1. ipc'[c] = "reload" /\ told'[c] # "ok"
        BY <2>3, <2>1, <1>a DEF IpsetTypeOK
      <3>2. ModeOf(list)' = mode'[c]
        BY <2>1, <2>2, <2>3 DEF ModeOf, Body, Mode
      <3>. QED BY <2>1, <2>2, <3>1, <3>2 DEF Informed, RealListKept
    <2>4. CASE Tell(c, "error") /\ UNCHANGED list
      <3>1. ipc'[c] = "idle" /\ told'[c] = "error"
        BY <2>4, <1>a DEF IpsetTypeOK
      <3>. QED BY <2>1, <2>2, <2>4, <3>1, <1>a DEF Informed, RealListKept
    <2>. QED BY <1>5, <2>3, <2>4 DEF WriteList
  <1>6. ASSUME NEW c \in Caller, RestoreList(c) PROVE RealListKept' /\ Informed(c)'
    <2>1. ipc[c] = "restore" /\ backup = "real" /\ mode[c] = "loaded" /\ told[c] # "ok"
      BY <1>6, <1>a DEF RestoreList, Informed
    <2>2. ipc'[c] = "reload" /\ told' = told /\ list' = "real" /\ mode' = mode
      BY <1>6, <2>1, <1>a DEF RestoreList, IpsetTypeOK
    <2>. QED BY <2>1, <2>2, ModeFacts DEF Informed, RealListKept, ModeOf
  <1>7. ASSUME NEW c \in Caller, Recompile(c) PROVE RealListKept' /\ Informed(c)'
    <2>1. list' = list /\ backup' = backup /\ mode' = mode /\ ipc[c] = "reload"
      BY <1>7 DEF Recompile
    <2>2. ipc'[c] = "idle" /\ (list = "absent" \/ compiled' = list)
      BY <1>7, <1>a DEF Recompile, IpsetTypeOK
    <2>3. ModeOf(list)' = mode'[c]
      BY <2>1, <1>a DEF Informed, ModeOf
    <2>. QED BY <2>1, <2>2, <2>3, <1>a DEF Informed, RealListKept
  <1>8. CASE Die
    <2>1. \A c \in Caller : ipc'[c] = "idle" /\ told'[c] = "none"
      BY <1>8 DEF Die
    <2>. QED BY <1>8, <2>1, <1>a DEF Die, Informed, RealListKept
  <1>9. CASE UNCHANGED ipsetVars
    BY <1>9, <1>a DEF ipsetVars, Informed, RealListKept, ModeOf
  <1>. QED
    BY <1>b, <1>1, <1>2, <1>3, <1>4, <1>5, <1>6, <1>7, <1>8, <1>9 DEF IpsetNext, Serving

(* What a command was told "ok" for is on the disk, hence not missing, and in *)
(* the strategy that runs.                                                    *)
LEMMA SwitchMeans == SwitchInv => OkMeansSwitched
  <1>. SUFFICES ASSUME SwitchInv, NEW c \in Caller, told[c] = "ok"
                PROVE  ModeOf(list) = mode[c] /\ ModeOf(compiled) = mode[c]
    BY DEF OkMeansSwitched
  <1>1. ipc[c] = "idle" /\ ModeOf(list) = mode[c] /\ (list = "absent" \/ compiled = list)
    BY DEF SwitchInv, Informed
  <1>2. mode[c] # "unknown"
    BY DEF SwitchInv, IpsetTypeOK, Mode
  <1>. QED BY <1>1, <1>2, ModeFacts

(***************************************************************************)
(* PfRules.                                                                *)
(***************************************************************************)

(* The rules that mergeRulesets keeps of a ruleset are those it is to keep. *)
LEMMA KeptFacts ==
  ASSUME NEW S, NEW s \in Seq(S), NEW W
  PROVE  Kept(s, W) \in Seq(S) /\ ToSet(Kept(s, W)) = ToSet(s) \cap W
  <1>. DEFINE N == Len(s)
              Step(f, n) == IF n = 0 THEN <<>> ELSE IF s[n] \in W THEN Append(f[n - 1], s[n]) ELSE f[n - 1]
              Works(f, m) == f = [n \in 0 .. m |-> Step(f, n)]
              kept == CHOOSE f : f = [n \in 0 .. N |-> Step(f, n)]
  <1>1. Kept(s, W) = kept[N]
    BY DEF Kept
  <1>2. N \in Nat /\ \A n \in 1 .. N : s[n] \in S
    OBVIOUS
  <1>. HIDE DEF N
  <1>3. \A m \in Nat : \E f : Works(f, m)
    <2>. DEFINE Bad == {m \in Nat : \A f : ~Works(f, m)}
    <2>1. SUFFICES ASSUME Bad # {} PROVE FALSE
      OBVIOUS
    <2>2. PICK m \in Bad : \A k \in Bad : m <= k
      <3>1. Bad \in SUBSET Nat
        OBVIOUS
      <3>. HIDE DEF Bad
      <3>. QED BY <2>1, <3>1, Least
    <2>3. m \in Nat /\ \A f : ~Works(f, m)
      OBVIOUS
    <2>4. CASE m = 0
      <3>. DEFINE f == [n \in 0 .. 0 |-> <<>>]
      <3>1. \A n \in 0 .. 0 : Step(f, n) = <<>>
        OBVIOUS
      <3>2. f = [n \in 0 .. 0 |-> Step(f, n)]
        <4>. HIDE DEF Step
        <4>. QED BY <3>1
      <3>. HIDE DEF f, Step
      <3>. QED BY <2>3, <2>4, <3>2
    <2>5. CASE m > 0
      <3>1. m - 1 \in Nat /\ m - 1 \notin Bad
        <4>1. m - 1 \in Nat /\ ~(m <= m - 1)
          BY <2>3, <2>5
        <4>. HIDE DEF Bad
        <4>. QED BY <4>1, <2>2
      <3>2. PICK f : Works(f, m - 1)
        BY <3>1
      <3>3. \A n \in 0 .. m - 1 : f[n] = Step(f, n)
        <4>. HIDE DEF Step
        <4>. QED BY <3>2
      <3>. DEFINE g == [n \in 0 .. m |-> IF n = m THEN Step(f, m) ELSE f[n]]
      <3>4. g[m] = Step(f, m) /\ \A n \in 0 .. m - 1 : g[n] = f[n]
        <4>. HIDE DEF Step
        <4>. QED BY <2>3, <2>5
      <3>. HIDE DEF g
      <3>5. ASSUME NEW n \in 0 .. m PROVE Step(g, n) = Step(f, n)
        <4>1. CASE n = 0
          BY <4>1
        <4>2. CASE n # 0
          <5>1. n - 1 \in 0 .. m - 1
            BY <2>3, <4>2
          <5>2. g[n - 1] = f[n - 1]
            BY <5>1, <3>4
          <5>. QED BY <5>2
        <4>. QED BY <4>1, <4>2
      <3>6. \A n \in 0 .. m : IF n = m THEN Step(f, m) = Step(g, n) ELSE f[n] = Step(g, n)
        <4>. HIDE DEF Step
        <4>1. \A n \in 0 .. m : n = m \/ n \in 0 .. m - 1
          BY <2>3
        <4>. QED BY <3>3, <3>5, <4>1
      <3>7. Works(g, m)
        <4>. HIDE DEF Step
        <4>. QED BY <3>6 DEF g
      <3>. HIDE DEF Works
      <3>. QED BY <2>3, <3>7
    <2>. QED BY <2>3, <2>4, <2>5
  <1>4. Works(kept, N)
    <2>1. PICK f : f = [n \in 0 .. N |-> Step(f, n)]
      BY <1>2, <1>3
    <2>. HIDE DEF Step
    <2>. QED BY <2>1
  <1>. HIDE DEF kept
  <1>5. \A n \in 0 .. N : kept[n] = Step(kept, n)
    <2>. HIDE DEF Step
    <2>. QED BY <1>4
  <1>. DEFINE Of(n) == {s[i] : i \in 1 .. n} \cap W
              Good(n) == kept[n] \in Seq(S) /\ ToSet(kept[n]) = Of(n)
  <1>6. \A n \in 0 .. N : Good(n)
    <2>. DEFINE Bad == {n \in 0 .. N : ~Good(n)}
    <2>1. SUFFICES ASSUME Bad # {} PROVE FALSE
      OBVIOUS
    <2>2. PICK m \in Bad : \A k \in Bad : m <= k
      <3>1. Bad \in SUBSET Nat
        BY <1>2
      <3>. HIDE DEF Bad
      <3>. QED BY <2>1, <3>1, Least
    <2>3. m \in 0 .. N /\ ~Good(m) /\ m \in Nat
      BY <1>2
    <2>4. CASE m = 0
      <3>1. kept[0] = <<>>
        BY <1>5, <2>3, <2>4
      <3>2. Of(0) = {}
        OBVIOUS
      <3>. QED BY <2>3, <2>4, <3>1, <3>2, ToSetFacts
    <2>5. CASE m > 0
      <3>1. m - 1 \in 0 .. N /\ m \in 1 .. N /\ ~(m <= m - 1)
        BY <1>2, <2>3, <2>5
      <3>2. Good(m - 1)
        <4>1. m - 1 \notin Bad
          <5>. HIDE DEF Bad
          <5>. QED BY <3>1, <2>2
        <4>. HIDE DEF Good
        <4>. QED BY <4>1, <3>1
      <3>3. kept[m] = IF s[m] \in W THEN Append(kept[m - 1], s[m]) ELSE kept[m - 1]
        BY <1>5, <2>3, <2>5
      <3>4. Of(m) = IF s[m] \in W THEN Of(m - 1) \cup {s[m]} ELSE Of(m - 1)
        <4>1. \A i \in 1 .. m : i = m \/ i \in 1 .. m - 1
          BY <2>3
        <4>2. \A i \in 1 .. m - 1 : i \in 1 .. m
          BY <2>3
        <4>. QED BY <3>1, <4>1, <4>2
      <3>5. s[m] \in S
        BY <1>2, <3>1
      <3>6. CASE s[m] \in W
        <4>. HIDE DEF Of
        <4>. QED BY <2>3, <3>2, <3>3, <3>4, <3>5, <3>6, ToSetFacts
      <3>7. CASE s[m] \notin W
        <4>. HIDE DEF Of
        <4>. QED BY <2>3, <3>2, <3>3, <3>4, <3>7
      <3>. QED BY <3>6, <3>7
    <2>. QED BY <2>3, <2>4, <2>5
  <1>7. {s[i] : i \in 1 .. N} = ToSet(s)
    BY InSeq DEF N
  <1>8. Good(N)
    <2>. HIDE DEF Good
    <2>. QED BY <1>2, <1>6
  <1>. QED BY <1>1, <1>7, <1>8


RuleSet == [does: {"pass", "divert", "rdr", "relay"}, ifaces: SUBSET Iface, loops: SUBSET BOOLEAN, v6: SUBSET BOOLEAN,
            proto: SUBSET {"tcp", "udp"}, ports: SUBSET Ports, unless: BOOLEAN, roots: SUBSET BOOLEAN]

Hits(p) == {i \in 1 .. Len(kernel) : kernel[i].does # "rdr" /\ Matches(kernel[i], p)}
FirstHit(p) == CHOOSE i \in Hits(p) : \A j \in Hits(p) : i <= j

(* The first rule that matches decides on the way out. *)
LEMMA OutwardFacts ==
  ASSUME NEW p
  PROVE  /\ Hits(p) = {} => Outward(p) = "pass"
         /\ Hits(p) # {} =>
                /\ FirstHit(p) \in Hits(p) /\ \A j \in Hits(p) : FirstHit(p) <= j
                /\ Outward(p) = kernel[FirstHit(p)].does
  <1>1. Outward(p) = IF Hits(p) = {} THEN "pass" ELSE kernel[FirstHit(p)].does
    BY Zenon DEF Outward, Hits, FirstHit
  <1>2. ASSUME Hits(p) # {} PROVE FirstHit(p) \in Hits(p) /\ \A j \in Hits(p) : FirstHit(p) <= j
    <2>1. Hits(p) \in SUBSET Nat
      BY DEF Hits
    <2>2. \E i \in Hits(p) : \A j \in Hits(p) : i <= j
      BY <1>2, <2>1, Least
    <2>. QED BY <2>2, Zenon DEF FirstHit
  <1>3. ASSUME Hits(p) # {} PROVE Outward(p) = kernel[FirstHit(p)].does
    BY <1>1, <1>3, Zenon
  <1>. QED BY <1>1, <1>2, <1>3

(* Under the rules of the divert transport: what is on lo0 passes, of the rest what *)
(* a rule matches is diverted.                                                      *)
LEMMA DivertVerdict ==
  ASSUME kernel \in Seq(RuleSet), Len(kernel) >= 1, kernel[1] = Loopback,
         \A r \in ToSet(kernel) : r = Loopback \/ r.does = "divert", NEW p \in Packet
  PROVE  Verdict(p) = IF p.iface # "lo0" /\ \E r \in ToSet(kernel) : r.does = "divert" /\ Matches(r, p)
                      THEN "divert" ELSE "pass"
  <1>1. \A i \in 1 .. Len(kernel) : kernel[i] \in ToSet(kernel)
    BY InSeq
  <1>2. \A r \in ToSet(kernel) : \E i \in 1 .. Len(kernel) : kernel[i] = r
    BY InSeq
  <1>3. Loopback.does = "pass" /\ (Matches(Loopback, p) <=> p.iface = "lo0")
    <2>1. /\ p.iface \in Iface /\ p.loop \in BOOLEAN /\ p.v6 \in BOOLEAN /\ p.proto \in {"tcp", "udp"} /\ p.port \in Ports
          /\ p.root \in BOOLEAN
      BY DEF Packet
    <2>. QED BY <2>1 DEF Loopback, Rule, Matches
  <1>4. \A i \in 1 .. Len(kernel) : kernel[i].does \in {"pass", "divert"} /\ (kernel[i].does = "pass" => kernel[i] = Loopback)
    BY <1>1, <1>3
  <1>9. ~Redirected(p)
    BY <1>4 DEF Redirected
  <1>5. CASE p.iface = "lo0"
    <2>1. 1 \in Hits(p)
      BY <1>3, <1>5 DEF Hits
    <2>2. FirstHit(p) \in Nat /\ FirstHit(p) = 1
      <3>1. FirstHit(p) \in Hits(p) /\ FirstHit(p) <= 1
        BY <2>1, OutwardFacts
      <3>. QED BY <3>1 DEF Hits
    <2>3. Outward(p) = "pass"
      BY <2>1, <2>2, <1>3, OutwardFacts
    <2>. QED BY <2>3, <1>5, <1>9 DEF Verdict
  <1>6. CASE p.iface # "lo0"
    <2>1. \A i \in Hits(p) : kernel[i].does = "divert"
      BY <1>3, <1>4, <1>6 DEF Hits
    <2>2. Hits(p) # {} <=> \E r \in ToSet(kernel) : r.does = "divert" /\ Matches(r, p)
      <3>1. ASSUME NEW i \in Hits(p) PROVE \E r \in ToSet(kernel) : r.does = "divert" /\ Matches(r, p)
        BY <1>1, <2>1 DEF Hits
      <3>2. ASSUME NEW r \in ToSet(kernel), r.does = "divert", Matches(r, p) PROVE Hits(p) # {}
        BY <1>2, <3>2 DEF Hits
      <3>. QED BY <3>1, <3>2
    <2>3. CASE Hits(p) = {}
      <3>1. Outward(p) = "pass"
        BY <2>3, OutwardFacts
      <3>. QED BY <2>2, <2>3, <3>1, <1>6 DEF Verdict
    <2>4. CASE Hits(p) # {}
      <3>1. kernel[FirstHit(p)].does = "divert"
        BY <2>1, <2>4, OutwardFacts
      <3>2. Verdict(p) = "divert"
        <4>1. Outward(p) = "divert"
          BY <2>4, <3>1, OutwardFacts
        <4>. QED BY <4>1 DEF Verdict
      <3>. QED BY <2>2, <2>4, <3>2, <1>6
    <2>. QED BY <2>3, <2>4
  <1>. QED BY <1>5, <1>6

(* Under the rules of the proxy: what is on lo0, where a rule may have routed it, is *)
(* relayed if it is redirected there.                                                *)
LEMMA ProxyVerdict ==
  ASSUME kernel \in Seq(RuleSet), \A r \in ToSet(kernel) : r.does \in {"rdr", "relay"}, NEW p \in Packet
  PROVE  Verdict(p) = IF p.iface = "lo0" \/ \E r \in ToSet(kernel) : r.does = "relay" /\ Matches(r, p)
                      THEN IF \E r \in ToSet(kernel) : r.does = "rdr" /\ Matches(r, [p EXCEPT !.iface = "lo0"])
                           THEN "relay" ELSE IF p.iface = "lo0" THEN "pass" ELSE "lost"
                      ELSE "pass"
  <1>1. \A i \in 1 .. Len(kernel) : kernel[i] \in ToSet(kernel) /\ kernel[i].does \in {"rdr", "relay"}
    BY InSeq
  <1>2. \A r \in ToSet(kernel) : \E i \in 1 .. Len(kernel) : kernel[i] = r
    BY InSeq
  <1>3. Hits(p) # {} <=> \E r \in ToSet(kernel) : r.does = "relay" /\ Matches(r, p)
    <2>1. ASSUME NEW i \in Hits(p) PROVE \E r \in ToSet(kernel) : r.does = "relay" /\ Matches(r, p)
      BY <1>1 DEF Hits
    <2>2. ASSUME NEW r \in ToSet(kernel), r.does = "relay", Matches(r, p) PROVE Hits(p) # {}
      BY <1>2, <2>2 DEF Hits
    <2>. QED BY <2>1, <2>2
  <1>4. Redirected(p) <=> \E r \in ToSet(kernel) : r.does = "rdr" /\ Matches(r, [p EXCEPT !.iface = "lo0"])
    BY <1>1, <1>2 DEF Redirected
  <1>5. Outward(p) = IF Hits(p) = {} THEN "pass" ELSE "relay"
    <2>1. ASSUME Hits(p) # {} PROVE kernel[FirstHit(p)].does = "relay"
      <3>1. FirstHit(p) \in Hits(p)
        BY <2>1, OutwardFacts
      <3>. QED BY <3>1, <1>1 DEF Hits
    <2>. QED BY <2>1, OutwardFacts
  <1>. DEFINE routed == \E r \in ToSet(kernel) : r.does = "relay" /\ Matches(r, p)
              caught == \E r \in ToSet(kernel) : r.does = "rdr" /\ Matches(r, [p EXCEPT !.iface = "lo0"])
  <1>6. Outward(p) = (IF routed THEN "relay" ELSE "pass") /\ (Redirected(p) <=> caught)
    BY <1>3, <1>4, <1>5
  <1>. HIDE DEF routed, caught
  <1>7. Verdict(p) = IF p.iface = "lo0" \/ routed
                     THEN IF caught THEN "relay" ELSE IF p.iface = "lo0" THEN "pass" ELSE "lost"
                     ELSE "pass"
    BY <1>6 DEF Verdict
  <1>. QED BY <1>7 DEF routed, caught


Families == IF opts.ipv6 THEN BOOLEAN ELSE {FALSE}
Diverting(proto, ports, v6) == Rule("divert", {Uplink}, BOOLEAN, {v6}, {proto}, ports, TRUE, Exempt)
Redirecting(w, v6) == Rule("rdr", {"lo0"}, {FALSE}, {v6}, {"tcp"}, w.tcp, FALSE, BOOLEAN)
Relaying(w, v6) == Rule("relay", Iface, BOOLEAN, {v6}, {"tcp"}, w.tcp, FALSE, Exempt)

(* The rules are rules, and which of the two families they are of tells them apart. *)
LEMMA RuleFacts ==
  ASSUME NEW w \in Windows, NEW v \in BOOLEAN
  PROVE  /\ Loopback \in RuleSet /\ Loopback.does = "pass" /\ Loopback.v6 = BOOLEAN
         /\ Diverting("tcp", w.tcp, v) \in RuleSet /\ Diverting("udp", w.udp, v) \in RuleSet
         /\ Diverting("tcp", w.tcp, v).does = "divert" /\ Diverting("udp", w.udp, v).does = "divert"
         /\ Redirecting(w, v) \in RuleSet /\ Redirecting(w, v).does = "rdr" /\ Redirecting(w, v).v6 = {v}
         /\ Relaying(w, v) \in RuleSet /\ Relaying(w, v).does = "relay" /\ Relaying(w, v).v6 = {v}
  <1>1. w.tcp \subseteq Ports /\ w.udp \subseteq Ports
    BY PfRulesAssumption
  <1>2. Exempt \in SUBSET BOOLEAN
    BY DEF Exempt
  <1>3. Loopback \in RuleSet /\ Loopback.does = "pass" /\ Loopback.v6 = BOOLEAN
    BY DEF Loopback, Rule, RuleSet, Iface
  <1>4. /\ Diverting("tcp", w.tcp, v) \in RuleSet /\ Diverting("udp", w.udp, v) \in RuleSet
        /\ Diverting("tcp", w.tcp, v).does = "divert" /\ Diverting("udp", w.udp, v).does = "divert"
    BY <1>1, <1>2 DEF Diverting, Rule, RuleSet, Iface
  <1>5. Redirecting(w, v) \in RuleSet /\ Redirecting(w, v).does = "rdr" /\ Redirecting(w, v).v6 = {v}
    BY <1>1 DEF Redirecting, Rule, RuleSet, Iface
  <1>6. Relaying(w, v) \in RuleSet /\ Relaying(w, v).does = "relay" /\ Relaying(w, v).v6 = {v}
    BY <1>1, <1>2 DEF Relaying, Rule, RuleSet, Iface
  <1>. QED BY <1>3, <1>4, <1>5, <1>6

(* LogDropRules begins with the loopback rule and has one more for every window. *)
LEMMA LogDropFacts ==
  ASSUME NEW w \in Windows, NEW v \in BOOLEAN
  PROVE  /\ LogDropRules(w, v) \in Seq(RuleSet) /\ Len(LogDropRules(w, v)) >= 1 /\ LogDropRules(w, v)[1] = Loopback
         /\ \A r : r \in ToSet(LogDropRules(w, v)) <=>
                       \/ r = Loopback
                       \/ w.tcp # {} /\ r = Diverting("tcp", w.tcp, v)
                       \/ w.udp # {} /\ r = Diverting("udp", w.udp, v)
  <1>. DEFINE t == IF w.tcp = {} THEN <<>> ELSE <<Diverting("tcp", w.tcp, v)>>
              u == IF w.udp = {} THEN <<>> ELSE <<Diverting("udp", w.udp, v)>>
  <1>1. LogDropRules(w, v) = <<Loopback>> \o t \o u
    BY DEF LogDropRules, When, Diverting
  <1>2. /\ Loopback \in RuleSet /\ Diverting("tcp", w.tcp, v) \in RuleSet /\ Diverting("udp", w.udp, v) \in RuleSet
    BY RuleFacts
  <1>3. /\ t \in Seq(RuleSet) /\ u \in Seq(RuleSet) /\ <<Loopback>> \in Seq(RuleSet)
        /\ Len(<<Loopback>>) = 1 /\ <<Loopback>>[1] = Loopback
    BY <1>2
  <1>4. /\ \A r : r \in ToSet(t) <=> w.tcp # {} /\ r = Diverting("tcp", w.tcp, v)
        /\ \A r : r \in ToSet(u) <=> w.udp # {} /\ r = Diverting("udp", w.udp, v)
        /\ \A r : r \in ToSet(<<Loopback>>) <=> r = Loopback
    BY DEF ToSet
  <1>. HIDE DEF t, u
  <1>5. /\ <<Loopback>> \o t \o u \in Seq(RuleSet)
        /\ ToSet(<<Loopback>> \o t \o u) = ToSet(<<Loopback>>) \cup ToSet(t) \cup ToSet(u)
    <2>1. <<Loopback>> \o t \in Seq(RuleSet) /\ <<Loopback>> \o t \o u \in Seq(RuleSet)
      BY <1>3
    <2>2. \A x, y \in Seq(RuleSet) : ToSet(x \o y) = ToSet(x) \cup ToSet(y)
      BY ToSetFacts
    <2>3. ToSet(<<Loopback>> \o t) = ToSet(<<Loopback>>) \cup ToSet(t)
      BY <2>2, <1>3
    <2>4. ToSet((<<Loopback>> \o t) \o u) = ToSet(<<Loopback>> \o t) \cup ToSet(u)
      BY <2>1, <2>2, <1>3
    <2>. QED BY <2>1, <2>3, <2>4
  <1>6. Len(<<Loopback>> \o t \o u) >= 1 /\ (<<Loopback>> \o t \o u)[1] = Loopback
    BY <1>3
  <1>. QED BY <1>1, <1>4, <1>5, <1>6

(* The two families together: the loopback rule first and once, and one rule for every *)
(* window and family.                                                                  *)
LEMMA DivertRules ==
  ASSUME opts \in Options, opts.dp = "divert", NEW w \in Windows
  PROVE  /\ Accepted(w) \in Seq(RuleSet) /\ Len(Accepted(w)) >= 1 /\ Accepted(w)[1] = Loopback
         /\ \A r : r \in ToSet(Accepted(w)) <=>
                       \/ r = Loopback
                       \/ \E v \in Families : \/ w.tcp # {} /\ r = Diverting("tcp", w.tcp, v)
                                              \/ w.udp # {} /\ r = Diverting("udp", w.udp, v)
  <1>. DEFINE a == LogDropRules(w, FALSE)
              b == LogDropRules(w, TRUE)
              k == Kept(b, ToSet(b) \ ToSet(a))
  <1>1. Rendered(w) = IF opts.ipv6 THEN a \o k ELSE a
    BY DEF Rendered, Merged
  <1>2. /\ a \in Seq(RuleSet) /\ b \in Seq(RuleSet) /\ Len(a) >= 1 /\ a[1] = Loopback
        /\ \A r : r \in ToSet(a) <=> \/ r = Loopback
                                     \/ w.tcp # {} /\ r = Diverting("tcp", w.tcp, FALSE)
                                     \/ w.udp # {} /\ r = Diverting("udp", w.udp, FALSE)
        /\ \A r : r \in ToSet(b) <=> \/ r = Loopback
                                     \/ w.tcp # {} /\ r = Diverting("tcp", w.tcp, TRUE)
                                     \/ w.udp # {} /\ r = Diverting("udp", w.udp, TRUE)
    BY LogDropFacts
  <1>. HIDE DEF a, b
  <1>3. k \in Seq(RuleSet) /\ ToSet(k) = ToSet(b) \ ToSet(a)
    <2>1. k \in Seq(RuleSet) /\ ToSet(k) = ToSet(b) \cap (ToSet(b) \ ToSet(a))
      BY <1>2, KeptFacts
    <2>. QED BY <2>1
  <1>. HIDE DEF k
  <1>4. /\ a \o k \in Seq(RuleSet) /\ Len(a \o k) >= 1 /\ (a \o k)[1] = a[1]
        /\ ToSet(a \o k) = ToSet(a) \cup ToSet(b)
    <2>1. ToSet(a \o k) = ToSet(a) \cup ToSet(k)
      BY <1>2, <1>3, ToSetFacts
    <2>2. a \o k \in Seq(RuleSet) /\ Len(a \o k) >= 1 /\ (a \o k)[1] = a[1]
      BY <1>2, <1>3
    <2>. QED BY <2>1, <2>2, <1>3
  <1>5. /\ Rendered(w) \in Seq(RuleSet) /\ Len(Rendered(w)) >= 1 /\ Rendered(w)[1] = Loopback
        /\ \A r : r \in ToSet(Rendered(w)) <=>
                      \/ r = Loopback
                      \/ \E v \in Families : \/ w.tcp # {} /\ r = Diverting("tcp", w.tcp, v)
                                             \/ w.udp # {} /\ r = Diverting("udp", w.udp, v)
    <2>1. opts.ipv6 \in BOOLEAN
      BY DEF Options
    <2>2. CASE opts.ipv6
      <3>1. Rendered(w) = a \o k /\ Families = {FALSE, TRUE}
        BY <1>1, <2>2 DEF Families
      <3>. QED BY <3>1, <1>2, <1>4
    <2>3. CASE ~opts.ipv6
      <3>1. Rendered(w) = a /\ Families = {FALSE}
        BY <1>1, <2>3 DEF Families
      <3>. QED BY <3>1, <1>2
    <2>. QED BY <2>1, <2>2, <2>3
  <1>6. InOrder(Rendered(w))
    <2>1. \A r \in ToSet(Rendered(w)) : r.does # "rdr"
      <3>1. Loopback.does # "rdr"
        BY RuleFacts
      <3>2. \A v \in Families : Diverting("tcp", w.tcp, v).does # "rdr" /\ Diverting("udp", w.udp, v).does # "rdr"
        <4>1. \A v \in Families : v \in BOOLEAN
          BY DEF Families
        <4>2. \A v \in BOOLEAN : Diverting("tcp", w.tcp, v).does = "divert" /\ Diverting("udp", w.udp, v).does = "divert"
          BY RuleFacts
        <4>. QED BY <4>1, <4>2
      <3>. QED BY <3>1, <3>2, <1>5
    <2>2. \A i \in 1 .. Len(Rendered(w)) : Rendered(w)[i] \in ToSet(Rendered(w))
      BY <1>5, InSeq
    <2>. QED BY <2>1, <2>2 DEF InOrder
  <1>7. Accepted(w) = Rendered(w)
    BY <1>6 DEF Accepted
  <1>. QED BY <1>5, <1>7

(* Of the proxy's rules pf takes one redirection and one relay rule, those of IPv4. *)
LEMMA ProxyRules ==
  ASSUME opts \in Options, opts.dp = "proxy", NEW w \in Windows, w.tcp # {}
  PROVE  /\ Accepted(w) \in Seq(RuleSet)
         /\ \A r : r \in ToSet(Accepted(w)) <=> r = Redirecting(w, FALSE) \/ r = Relaying(w, FALSE)
  <1>. DEFINE a == RedirectRules(w, FALSE)
              b == RedirectRules(w, TRUE)
              k == Kept(b, ToSet(b) \ ToSet(a))
              four == {r \in ToSet(Rendered(w)) : r.v6 # {TRUE}}
  <1>1. Rendered(w) = IF opts.ipv6 THEN a \o k ELSE a
    BY DEF Rendered, Merged
  <1>2. \A v \in BOOLEAN : RedirectRules(w, v) = <<Redirecting(w, v)>> \o <<Relaying(w, v)>>
    BY DEF RedirectRules, When, Redirecting, Relaying
  <1>3. /\ a \in Seq(RuleSet) /\ b \in Seq(RuleSet) /\ Len(a) = 2 /\ a[2].does = "relay"
        /\ \A r : r \in ToSet(a) <=> r = Redirecting(w, FALSE) \/ r = Relaying(w, FALSE)
        /\ \A r : r \in ToSet(b) <=> r = Redirecting(w, TRUE) \/ r = Relaying(w, TRUE)
    <2>1. \A v \in BOOLEAN : LET s == <<Redirecting(w, v)>> \o <<Relaying(w, v)>>
                             IN  /\ s \in Seq(RuleSet) /\ Len(s) = 2 /\ s[2].does = "relay"
                                 /\ \A r : r \in ToSet(s) <=> r = Redirecting(w, v) \/ r = Relaying(w, v)
      <3>. SUFFICES ASSUME NEW v \in BOOLEAN
                    PROVE  LET s == <<Redirecting(w, v)>> \o <<Relaying(w, v)>>
                           IN  /\ s \in Seq(RuleSet) /\ Len(s) = 2 /\ s[2].does = "relay"
                               /\ \A r : r \in ToSet(s) <=> r = Redirecting(w, v) \/ r = Relaying(w, v)
        OBVIOUS
      <3>1. Redirecting(w, v) \in RuleSet /\ Relaying(w, v) \in RuleSet /\ Relaying(w, v).does = "relay"
        BY RuleFacts
      <3>2. \A x, y \in RuleSet : /\ <<x>> \in Seq(RuleSet) /\ ToSet(<<x>>) = {x}
                                  /\ <<x>> \o <<y>> \in Seq(RuleSet) /\ Len(<<x>> \o <<y>>) = 2
                                  /\ (<<x>> \o <<y>>)[2] = y
        BY DEF ToSet
      <3>3. \A x, y \in RuleSet : ToSet(<<x>> \o <<y>>) = {x, y}
        <4>1. \A u, t \in Seq(RuleSet) : ToSet(u \o t) = ToSet(u) \cup ToSet(t)
          BY ToSetFacts
        <4>2. ASSUME NEW x \in RuleSet, NEW y \in RuleSet PROVE ToSet(<<x>> \o <<y>>) = {x, y}
          <5>1. ToSet(<<x>> \o <<y>>) = ToSet(<<x>>) \cup ToSet(<<y>>)
            BY <4>1, <3>2
          <5>. QED BY <5>1, <3>2
        <4>. QED BY <4>2
      <3>. QED BY <3>1, <3>2, <3>3
    <2>. QED BY <1>2, <2>1
  <1>. HIDE DEF a, b
  <1>4. k \in Seq(RuleSet) /\ ToSet(k) = ToSet(b) \ ToSet(a)
    <2>1. k \in Seq(RuleSet) /\ ToSet(k) = ToSet(b) \cap (ToSet(b) \ ToSet(a))
      BY <1>3, KeptFacts
    <2>. QED BY <2>1
  <1>. HIDE DEF k
  <1>5. /\ Redirecting(w, FALSE).v6 = {FALSE} /\ Relaying(w, FALSE).v6 = {FALSE}
        /\ Redirecting(w, TRUE).v6 = {TRUE} /\ Relaying(w, TRUE).v6 = {TRUE} /\ Redirecting(w, TRUE).does = "rdr"
        /\ {FALSE} # {TRUE}
    BY RuleFacts
  <1>6. a \o k \in Seq(RuleSet) /\ ToSet(a \o k) = ToSet(a) \cup ToSet(k)
    BY <1>3, <1>4, ToSetFacts
  <1>7. Rendered(w) \in Seq(RuleSet) /\ four = ToSet(a)
    <2>1. CASE opts.ipv6
      <3>1. Rendered(w) \in Seq(RuleSet) /\ ToSet(Rendered(w)) = ToSet(a) \cup (ToSet(b) \ ToSet(a))
        BY <1>1, <1>4, <1>6, <2>1
      <3>. QED BY <3>1, <1>3, <1>5
    <2>2. CASE ~opts.ipv6
      <3>1. Rendered(w) = a
        BY <1>1, <2>2
      <3>. QED BY <3>1, <1>3, <1>5
    <2>. QED BY <2>1, <2>2
  <1>8. InOrder(Rendered(w)) => Rendered(w) = a
    <2>. SUFFICES ASSUME opts.ipv6, InOrder(Rendered(w)) PROVE FALSE
      BY <1>1
    <2>1. Redirecting(w, TRUE) \in ToSet(k)
      BY <1>3, <1>4, <1>5
    <2>2. PICK j \in 1 .. Len(k) : k[j] = Redirecting(w, TRUE)
      BY <2>1, <1>4, InSeq
    <2>3. 2 + j \in 1 .. Len(a \o k) /\ (a \o k)[2 + j] = k[j] /\ 2 \in 1 .. Len(a \o k) /\ (a \o k)[2] = a[2] /\ 2 < 2 + j
      <3>1. a \in Seq(RuleSet) /\ Len(a) = 2 /\ k \in Seq(RuleSet) /\ j \in 1 .. Len(k) /\ Len(k) \in Nat
        BY <1>3, <1>4
      <3>2. Len(a \o k) = Len(a) + Len(k)
            /\ \A i \in 1 .. Len(a) + Len(k) : (a \o k)[i] = IF i <= Len(a) THEN a[i] ELSE k[i - Len(a)]
        <4>1. \A t, u \in Seq(RuleSet) :
                  /\ Len(t \o u) = Len(t) + Len(u)
                  /\ \A i \in 1 .. Len(t) + Len(u) : (t \o u)[i] = IF i <= Len(t) THEN t[i] ELSE u[i - Len(t)]
          OBVIOUS
        <4>. QED BY <4>1, <3>1
      <3>3. 2 + j \in 1 .. Len(a) + Len(k) /\ 2 \in 1 .. Len(a) + Len(k) /\ ~(2 + j <= Len(a)) /\ 2 + j - Len(a) = j
        BY <3>1
      <3>. QED BY <3>1, <3>2, <3>3
    <2>. QED BY <1>1, <1>3, <1>5, <2>2, <2>3 DEF InOrder
  <1>9. /\ Kept(Rendered(w), four) \in Seq(RuleSet)
        /\ ToSet(Kept(Rendered(w), four)) = ToSet(Rendered(w)) \cap four
    <2>. HIDE DEF four
    <2>. QED BY <1>7, KeptFacts
  <1>10. Accepted(w) = IF InOrder(Rendered(w)) THEN Rendered(w) ELSE Kept(Rendered(w), four)
    BY DEF Accepted
  <1>11. ToSet(Rendered(w)) \cap four = ToSet(a)
    BY <1>7
  <1>. HIDE DEF four
  <1>12. Accepted(w) \in Seq(RuleSet) /\ ToSet(Accepted(w)) = ToSet(a)
    BY <1>7, <1>8, <1>9, <1>10, <1>11
  <1>. QED BY <1>3, <1>12


\* What pf holds between two steps: nothing, or the rules of a strategy; of the one
\* the transport has when nothing failed, of the one believed loaded for divert.
RulesInv ==
    /\ PfRulesTypeOK
    /\ opts.dp = "proxy" => opts.exemptRoot /\ window.tcp # {}
    /\ \/ kernel = <<>>
       \/ \E w \in Windows : (opts.dp = "proxy" => w.tcp # {}) /\ kernel = Accepted(w)
    /\ (phase # "down" /\ fails = 0) => kernel = Accepted(window)
    /\ (phase = "up" /\ fails = 0 /\ opts.dp = "divert") => table = Excluded
    /\ (phase # "down" /\ opts.dp = "divert") => \E w \in Windows : believed = Rendered(w) /\ kernel = Accepted(w)
    /\ (opts.dp = "divert" /\ (phase = "fill" \/ (phase = "up" /\ reply = "ok"))) => believed = Rendered(window)

(* Before the start pf holds nothing of ours. *)
LEMMA RulesStart == PfRulesInit => RulesInv
  <1>1. MaxFails \in Nat /\ MaxReloads \in Nat
    BY PfRulesAssumption
  <1>. QED BY <1>1 DEF PfRulesInit, RulesInv, PfRulesTypeOK

(* What pf accepts depends on what is rendered. *)
LEMMA SameRendered == ASSUME NEW v, NEW w, Rendered(v) = Rendered(w) PROVE Accepted(v) = Accepted(w)
  BY DEF Accepted

(* The options of a transport are those it was started with, and so are its rules. *)
LEMMA SameRules == ASSUME opts' = opts, NEW w PROVE Rendered(w)' = Rendered(w) /\ Accepted(w)' = Accepted(w)
  <1>1. Rendered(w)' = Rendered(w)
    BY DEF Rendered, LogDropRules, RedirectRules, Exempt
  <1>. QED BY <1>1 DEF Accepted

(* Every step of a transport, a failed pfctl call included, keeps it. *)
LEMMA RulesStep == RulesInv /\ [PfRulesNext]_pfRulesVars => RulesInv'
  <1>. SUFFICES ASSUME RulesInv, [PfRulesNext]_pfRulesVars PROVE RulesInv'
    OBVIOUS
  <1>0. /\ MaxFails \in Nat /\ MaxReloads \in Nat
        /\ opts \in Options /\ opts.dp \in {"divert", "proxy"} /\ window \in Windows /\ table \in SUBSET Excluded
        /\ phase \in {"down", "fill", "up"} /\ reply \in {"none", "ok", "error"}
        /\ fails \in 0 .. MaxFails /\ reloads \in 0 .. MaxReloads
    BY PfRulesAssumption DEF RulesInv, PfRulesTypeOK, Options
  <1>1. /\ opts.dp = "proxy" => opts.exemptRoot /\ window.tcp # {}
        /\ \/ kernel = <<>>
           \/ \E w \in Windows : (opts.dp = "proxy" => w.tcp # {}) /\ kernel = Accepted(w)
        /\ (phase # "down" /\ fails = 0) => kernel = Accepted(window)
        /\ (phase = "up" /\ fails = 0 /\ opts.dp = "divert") => table = Excluded
        /\ (phase # "down" /\ opts.dp = "divert") => \E w \in Windows : believed = Rendered(w) /\ kernel = Accepted(w)
        /\ (opts.dp = "divert" /\ (phase = "fill" \/ (phase = "up" /\ reply = "ok"))) => believed = Rendered(window)
    BY DEF RulesInv
  <1>2. opts' = opts
    BY DEF PfRulesNext, Start, FillTable, Reload, Stop, pfRulesVars
  <1>3. \A w : Rendered(w)' = Rendered(w) /\ Accepted(w)' = Accepted(w)
    BY <1>2, SameRules
  <1>4. Rendered(window)' = Rendered(window') /\ Accepted(window)' = Accepted(window')
    BY <1>2, <1>3 DEF Rendered, Accepted, LogDropRules, RedirectRules, Exempt
  <1>5. SUFFICES /\ PfRulesTypeOK'
                 /\ opts.dp = "proxy" => window'.tcp # {}
                 /\ \/ kernel' = <<>>
                    \/ \E w \in Windows : (opts.dp = "proxy" => w.tcp # {}) /\ kernel' = Accepted(w)
                 /\ (phase' # "down" /\ fails' = 0) => kernel' = Accepted(window')
                 /\ (phase' = "up" /\ fails' = 0 /\ opts.dp = "divert") => table' = Excluded
                 /\ (phase' # "down" /\ opts.dp = "divert") => \E w \in Windows : believed' = Rendered(w) /\ kernel' = Accepted(w)
                 /\ (opts.dp = "divert" /\ (phase' = "fill" \/ (phase' = "up" /\ reply' = "ok"))) => believed' = Rendered(window')
    BY <1>1, <1>2, <1>3, <1>4, Zenon DEF RulesInv
  <1>. USE DEF PfRulesTypeOK
  <1>6. CASE Start
    <2>1. CASE Loads(window) /\ believed' = Rendered(window)
      BY <1>0, <1>1, <1>6, <2>1 DEF Start, Loads
    <2>2. CASE Fails /\ reply' = "error" /\ UNCHANGED <<believed, kernel, table, phase>>
      BY <1>0, <1>1, <1>6, <2>2 DEF Start, Fails
    <2>. QED BY <1>6, <2>1, <2>2 DEF Start
  <1>7. CASE FillTable
    <2>1. CASE Filled /\ UNCHANGED fails
      BY <1>0, <1>1, <1>7, <2>1 DEF FillTable, Filled
    <2>2. CASE Fails /\ UNCHANGED table
      BY <1>0, <1>1, <1>7, <2>2 DEF FillTable, Fails
    <2>. QED BY <1>7, <2>1, <2>2 DEF FillTable
  <1>8. ASSUME NEW w \in Windows, Reload(w)
        PROVE  /\ PfRulesTypeOK'
               /\ opts.dp = "proxy" => window'.tcp # {}
               /\ \/ kernel' = <<>>
                  \/ \E v \in Windows : (opts.dp = "proxy" => v.tcp # {}) /\ kernel' = Accepted(v)
               /\ (phase' # "down" /\ fails' = 0) => kernel' = Accepted(window')
               /\ (phase' = "up" /\ fails' = 0 /\ opts.dp = "divert") => table' = Excluded
               /\ (phase' # "down" /\ opts.dp = "divert") => \E v \in Windows : believed' = Rendered(v) /\ kernel' = Accepted(v)
               /\ (opts.dp = "divert" /\ (phase' = "fill" \/ (phase' = "up" /\ reply' = "ok"))) => believed' = Rendered(window')
    <2>0. phase = "up" /\ reloads' \in 0 .. MaxReloads /\ opts' = opts
      BY <1>0, <1>8 DEF Reload
    <2>1. CASE opts.dp = "proxy" /\ w.tcp = {}
      BY <1>0, <1>1, <1>8, <2>0, <2>1 DEF Reload
    <2>2. CASE ~(opts.dp = "proxy" /\ w.tcp = {})
      <3>1. window' = w
        BY <1>8, <2>2 DEF Reload
      <3>2. CASE Unchanged(w) /\ reply' = "ok" /\ UNCHANGED <<believed, kernel, table, phase, fails>>
        <4>1. fails = 0 => kernel = Accepted(w)
          <5>1. CASE opts.dp = "divert"
            <6>1. PICK v \in Windows : believed = Rendered(v) /\ kernel = Accepted(v)
              BY <1>1, <2>0, <5>1
            <6>2. Rendered(w) = Rendered(v)
              BY <3>2, <5>1, <6>1 DEF Unchanged
            <6>. QED BY <6>1, <6>2, SameRendered
          <5>2. CASE opts.dp = "proxy"
            <6>1. Rendered(w) = Rendered(window)
              BY <3>2, <5>2 DEF Unchanged
            <6>2. Accepted(w) = Accepted(window)
              BY <6>1, SameRendered
            <6>. QED BY <6>2, <1>1, <2>0
          <5>. QED BY <5>1, <5>2, <1>0
        <4>2. opts.dp = "divert" => believed = Rendered(w)
          BY <3>2 DEF Unchanged
        <4>. QED BY <1>0, <1>1, <2>0, <2>2, <3>1, <3>2, <4>1, <4>2
      <3>3. CASE ~Unchanged(w) /\ Loads(w) /\ believed' = Rendered(w)
        BY <1>0, <1>1, <2>0, <2>2, <3>1, <3>3 DEF Loads
      <3>4. CASE ~Unchanged(w) /\ Fails /\ reply' = "error" /\ UNCHANGED <<believed, kernel, table, phase>>
        BY <1>0, <1>1, <2>0, <2>2, <3>1, <3>4 DEF Fails
      <3>. QED BY <1>8, <2>2, <3>2, <3>3, <3>4 DEF Reload
    <2>. QED BY <2>1, <2>2
  <1>9. CASE Stop
    BY <1>0, <1>1, <1>9 DEF Stop
  <1>10. CASE UNCHANGED pfRulesVars
    BY <1>0, <1>1, <1>10 DEF pfRulesVars
  <1>. HIDE DEF PfRulesTypeOK
  <1>. QED BY <1>6, <1>7, <1>8, <1>9, <1>10 DEF PfRulesNext

(* What pf makes of a packet under the rules of a strategy. *)
LEMMA AcceptedVerdict ==
  ASSUME opts \in Options, NEW w \in Windows, kernel = Accepted(w), opts.dp = "proxy" => w.tcp # {}, NEW p \in Packet
  PROVE  /\ opts.dp = "divert" =>
                Verdict(p) = IF /\ p.iface # "lo0" /\ p.iface = Uplink /\ p.dst \notin table /\ p.v6 \in Families
                                /\ p.port \in (IF p.proto = "tcp" THEN w.tcp ELSE w.udp) /\ p.root \in Exempt
                             THEN "divert" ELSE "pass"
         /\ opts.dp = "proxy" =>
                Verdict(p) = IF /\ ~p.v6 /\ p.proto = "tcp" /\ p.port \in w.tcp
                                /\ IF p.iface = "lo0" THEN ~p.loop ELSE p.root \in Exempt
                             THEN "relay" ELSE "pass"
  <1>1. /\ p.iface \in Iface /\ p.loop \in BOOLEAN /\ (p.loop => p.iface = "lo0") /\ p.v6 \in BOOLEAN /\ p.proto \in {"tcp", "udp"} /\ p.port \in Ports
        /\ p.root \in BOOLEAN
    BY DEF Packet
  <1>2. ASSUME opts.dp = "divert"
        PROVE  Verdict(p) = IF /\ p.iface # "lo0" /\ p.iface = Uplink /\ p.dst \notin table /\ p.v6 \in Families
                               /\ p.port \in (IF p.proto = "tcp" THEN w.tcp ELSE w.udp) /\ p.root \in Exempt
                            THEN "divert" ELSE "pass"
    <2>. DEFINE Listed(r) == \E v \in Families : \/ w.tcp # {} /\ r = Diverting("tcp", w.tcp, v)
                                                 \/ w.udp # {} /\ r = Diverting("udp", w.udp, v)
    <2>1. /\ kernel \in Seq(RuleSet) /\ Len(kernel) >= 1 /\ kernel[1] = Loopback
          /\ \A r : r \in ToSet(kernel) <=> r = Loopback \/ Listed(r)
      BY <1>2, DivertRules
    <2>2. Loopback.does = "pass" /\ \A v \in Families : /\ Diverting("tcp", w.tcp, v).does = "divert"
                                                       /\ Diverting("udp", w.udp, v).does = "divert"
      BY DEF Loopback, Diverting, Rule
    <2>3. Verdict(p) = IF p.iface # "lo0" /\ \E r \in ToSet(kernel) : r.does = "divert" /\ Matches(r, p)
                       THEN "divert" ELSE "pass"
      <3>1. \A r \in ToSet(kernel) : r = Loopback \/ r.does = "divert"
        BY <2>1, <2>2
      <3>. HIDE DEF Listed
      <3>. QED BY <2>1, <3>1, DivertVerdict
    <2>4. \A v \in Families :
              /\ Matches(Diverting("tcp", w.tcp, v), p)
                     <=> /\ p.iface = Uplink /\ p.v6 = v /\ p.proto = "tcp" /\ p.port \in w.tcp
                         /\ p.root \in Exempt /\ p.dst \notin table
              /\ Matches(Diverting("udp", w.udp, v), p)
                     <=> /\ p.iface = Uplink /\ p.v6 = v /\ p.proto = "udp" /\ p.port \in w.udp
                         /\ p.root \in Exempt /\ p.dst \notin table
      BY <1>1 DEF Diverting, Rule, Matches
    <2>5. (\E r \in ToSet(kernel) : r.does = "divert" /\ Matches(r, p))
          <=> /\ p.iface = Uplink /\ p.dst \notin table /\ p.v6 \in Families
              /\ p.port \in (IF p.proto = "tcp" THEN w.tcp ELSE w.udp) /\ p.root \in Exempt
      <3>1. (\E r \in ToSet(kernel) : r.does = "divert" /\ Matches(r, p))
            <=> \E v \in Families : \/ w.tcp # {} /\ Matches(Diverting("tcp", w.tcp, v), p)
                                    \/ w.udp # {} /\ Matches(Diverting("udp", w.udp, v), p)
        BY <2>1, <2>2
      <3>. QED BY <3>1, <2>4, <1>1
    <2>. QED BY <2>3, <2>5
  <1>3. ASSUME opts.dp = "proxy"
        PROVE  Verdict(p) = IF /\ ~p.v6 /\ p.proto = "tcp" /\ p.port \in w.tcp
                               /\ IF p.iface = "lo0" THEN ~p.loop ELSE p.root \in Exempt
                            THEN "relay" ELSE "pass"
    <2>. DEFINE q == [p EXCEPT !.iface = "lo0"]
    <2>1. /\ kernel \in Seq(RuleSet)
          /\ \A r : r \in ToSet(kernel) <=> r = Redirecting(w, FALSE) \/ r = Relaying(w, FALSE)
      BY <1>3, ProxyRules
    <2>2. Redirecting(w, FALSE).does = "rdr" /\ Relaying(w, FALSE).does = "relay"
      BY DEF Redirecting, Relaying, Rule
    <2>3. Verdict(p) = IF p.iface = "lo0" \/ Matches(Relaying(w, FALSE), p)
                       THEN IF Matches(Redirecting(w, FALSE), q) THEN "relay" ELSE IF p.iface = "lo0" THEN "pass" ELSE "lost"
                       ELSE "pass"
      <3>1. \A r \in ToSet(kernel) : r.does \in {"rdr", "relay"}
        BY <2>1, <2>2
      <3>2. Verdict(p) = IF p.iface = "lo0" \/ \E r \in ToSet(kernel) : r.does = "relay" /\ Matches(r, p)
                         THEN IF \E r \in ToSet(kernel) : r.does = "rdr" /\ Matches(r, q)
                              THEN "relay" ELSE IF p.iface = "lo0" THEN "pass" ELSE "lost"
                         ELSE "pass"
        BY <2>1, <3>1, ProxyVerdict
      <3>3. (\E r \in ToSet(kernel) : r.does = "relay" /\ Matches(r, p)) <=> Matches(Relaying(w, FALSE), p)
        BY <2>1, <2>2
      <3>4. (\E r \in ToSet(kernel) : r.does = "rdr" /\ Matches(r, q)) <=> Matches(Redirecting(w, FALSE), q)
        <4>. HIDE DEF q
        <4>. QED BY <2>1, <2>2
      <3>. QED BY <3>2, <3>3, <3>4, Zenon
    <2>4. Matches(Relaying(w, FALSE), p)
          <=> ~p.v6 /\ p.proto = "tcp" /\ p.port \in w.tcp /\ p.root \in Exempt
      BY <1>1 DEF Relaying, Rule, Matches
    <2>5. q.iface = "lo0" /\ q.loop = p.loop /\ q.v6 = p.v6 /\ q.proto = p.proto /\ q.port = p.port /\ q.root = p.root
      BY DEF Packet
    <2>6. Matches(Redirecting(w, FALSE), q) <=> ~p.loop /\ ~p.v6 /\ p.proto = "tcp" /\ p.port \in w.tcp
      <3>. HIDE DEF q
      <3>. QED BY <1>1, <2>5 DEF Redirecting, Rule, Matches
    <2>. QED BY <1>1, <2>3, <2>4, <2>6
  <1>. QED BY <1>2, <1>3

(* A transport that is up gets what its strategy wants and nothing comes back. *)
LEMMA RulesMean == RulesInv => RulesSteer
  <1>. SUFFICES ASSUME RulesInv PROVE RulesSteer
    OBVIOUS
  <1>1. /\ opts \in Options /\ opts.dp \in {"divert", "proxy"} /\ opts.injector \in {"bpf", "raw"}
        /\ opts.exemptRoot \in BOOLEAN /\ opts.ipv6 \in BOOLEAN /\ window \in Windows /\ PfRulesTypeOK
    BY DEF RulesInv, PfRulesTypeOK, Options
  <1>2. opts.dp = "proxy" => opts.exemptRoot /\ window.tcp # {}
    BY DEF RulesInv
  <1>3. RetryLoads
    <2>. SUFFICES ASSUME opts.dp = "divert", phase = "up", reply = "ok" PROVE kernel = Accepted(window)
      BY DEF RetryLoads
    <2>1. PICK w \in Windows : believed = Rendered(w) /\ kernel = Accepted(w)
      BY DEF RulesInv
    <2>2. Rendered(w) = Rendered(window)
      BY <2>1 DEF RulesInv
    <2>. QED BY <2>1, <2>2, SameRendered
  <1>4. SteersExactly
    <2>. SUFFICES ASSUME phase = "up", fails = 0, NEW p \in Packet, ~OwnAddress(p)
                  PROVE  Verdict(p) = (IF Wanted(p) THEN IF opts.dp = "divert" THEN "divert" ELSE "relay" ELSE "pass")
      BY DEF SteersExactly
    <2>1. kernel = Accepted(window) /\ (opts.dp = "divert" => table = Excluded)
      BY DEF RulesInv
    <2>2. p.v6 \in BOOLEAN /\ p.proto \in {"tcp", "udp"} /\ p.root \in BOOLEAN /\ "lo0" # Uplink
      BY PfRulesAssumption DEF Packet
    <2>3. CASE opts.dp = "divert"
      <3>1. Verdict(p) = IF /\ p.iface # "lo0" /\ p.iface = Uplink /\ p.dst \notin table /\ p.v6 \in Families
                            /\ p.port \in (IF p.proto = "tcp" THEN window.tcp ELSE window.udp) /\ p.root \in Exempt
                         THEN "divert" ELSE "pass"
        BY <1>1, <1>2, <2>1, <2>3, AcceptedVerdict
      <3>2. p.v6 \in Families <=> (p.v6 => opts.ipv6)
        BY <1>1, <2>2 DEF Families
      <3>3. p.root \in Exempt <=> (p.root => ~opts.exemptRoot /\ opts.injector = "bpf")
        BY <1>1, <2>2, <2>3 DEF Exempt
      <3>4. Wanted(p) <=> /\ p.iface = Uplink /\ p.dst \notin Excluded
                          /\ p.port \in (IF p.proto = "tcp" THEN window.tcp ELSE window.udp)
                          /\ (p.v6 => opts.ipv6) /\ (p.root => ~opts.exemptRoot /\ opts.injector = "bpf")
        BY <2>3 DEF Wanted
      <3>. QED BY <2>1, <2>2, <2>3, <3>1, <3>2, <3>3, <3>4
    <2>4. CASE opts.dp = "proxy"
      <3>1. Verdict(p) = IF /\ ~p.v6 /\ p.proto = "tcp" /\ p.port \in window.tcp
                            /\ IF p.iface = "lo0" THEN ~p.loop ELSE p.root \in Exempt
                         THEN "relay" ELSE "pass"
        BY <1>1, <1>2, <2>1, <2>4, AcceptedVerdict
      <3>2. p.root \in Exempt <=> ~p.root
        BY <1>1, <2>2, <2>4 DEF Exempt
      <3>3. Wanted(p) <=> p.iface # "lo0" /\ p.port \in (IF p.proto = "tcp" THEN window.tcp ELSE {}) /\ ~p.v6 /\ ~p.root
        BY <2>2, <2>4 DEF Wanted
      <3>4. p.iface = "lo0" => p.loop
        BY <2>4 DEF OwnAddress
      <3>. QED BY <2>2, <2>4, <3>1, <3>2, <3>3, <3>4
    <2>. QED BY <1>1, <2>3, <2>4
  <1>5. NoLoop
    <2>. SUFFICES ASSUME NEW p \in Packet, ~OwnAddress(p), opts.dp = "proxy" \/ opts.injector = "raw"
                  PROVE  Verdict([p EXCEPT !.root = TRUE]) = "pass"
      BY DEF NoLoop, Loops
    <2>. DEFINE q == [p EXCEPT !.root = TRUE]
    <2>1. q \in Packet /\ q.root = TRUE /\ (opts.dp = "proxy" => (q.iface = "lo0" => q.loop))
      BY DEF Packet, OwnAddress
    <2>. HIDE DEF q
    <2>2. TRUE \notin Exempt
      BY DEF Exempt
    <2>3. CASE kernel = <<>>
      <3>1. Hits(q) = {} /\ ~Redirected(q)
        BY <2>3 DEF Hits, Redirected
      <3>2. Verdict(q) = "pass"
        BY <3>1, OutwardFacts DEF Verdict
      <3>. QED BY <3>2 DEF q
    <2>4. CASE kernel # <<>>
      <3>1. PICK w \in Windows : (opts.dp = "proxy" => w.tcp # {}) /\ kernel = Accepted(w)
        BY <2>4 DEF RulesInv
      <3>2. Verdict(q) = "pass"
        BY <1>1, <2>1, <2>2, <3>1, AcceptedVerdict
      <3>. QED BY <3>2 DEF q
    <2>. QED BY <2>3, <2>4
  <1>. QED BY <1>1, <1>3, <1>4, <1>5 DEF RulesSteer

(* For every set of strategies, ports and excluded destinations, over every start,  *)
(* reload, stop and failed pfctl call: a transport that is up and had no failure    *)
(* gets the packets of its strategy's window and no other, nothing that the daemon  *)
(* sends is intercepted again (both but for what goes to an address of this machine *)
(* outside the loopback network, under the proxy), and a reload of the divert       *)
(* transport that reports success has its rules in pf (steerRules,                  *)
(* Transport.Reload, PF.LoadRules).                                                 *)
THEOREM RulesSteerAlways == PfRulesSpec => []RulesSteer
  BY RulesStart, RulesStep, RulesMean, PTL DEF PfRulesSpec


(* The switch keeps its invariant, with one command at a time (Daemon.IPSet). *)
LEMMA SwitchAlways == ASSUME OneCaller PROVE IpsetSpec => []SwitchInv
  <1>1. IpsetInit => SwitchInv
    BY StartsKept, IpsetAssumption
  <1>2. SwitchInv /\ [IpsetNext]_ipsetVars => SwitchInv'
    BY SwitchStep, IpsetAssumption
  <1>. QED BY <1>1, <1>2, PTL DEF IpsetSpec

(* With one command at a time, whatever the number of switches, crashes and failed *)
(* writes, the list or its backup is the real one: "Keep the real list: it is 32k  *)
(* prefixes nobody wants to re-download" (Daemon.IPSet).                           *)
THEOREM ListSurvives == ASSUME OneCaller PROVE IpsetSpec => []RealListKept
  <1>1. SwitchInv => RealListKept
    BY DEF SwitchInv
  <1>. QED BY <1>1, SwitchAlways, PTL

(* logger and LogTail keep the invariant of what was sent. *)
LEMMA TailAlways == LogTailSpec => []TailInv
  BY TailStarts, TailStep, PTL DEF LogTailSpec

(***************************************************************************)
(* The parts together. They share no variable.                             *)
(***************************************************************************)

(* The control socket and its log, for every number of clients, requests and lines *)
(* and through every crash: when the daemons use one data directory, as one label  *)
(* of launchd makes them, each request has one answer, "ok" is said of what ended   *)
(* well, the path leads to the daemon that serves, and the history a reader gets    *)
(* is the latest there is, without a gap before the lines that follow it            *)
(* (Server.handle, Server.Close, Listen, Daemon.streamLogs).                        *)
THEOREM SocketServesAlways == ASSUME OneDataDir PROVE ControlSpec /\ LogTailSpec => []SocketServes
  <1>1. ControlInv /\ TailInv => SocketServes
    <2>1. TailInv => LogTailTypeOK /\ NothingSkipped
      BY DEF TailInv
    <2>. QED BY <2>1, ControlMeans, TailMeans DEF SocketServes
  <1>. QED BY <1>1, ControlAlways, TailAlways, PTL

(* The lists, for every set of hosts and of prefixes: a lookup in the list that     *)
(* learns finds every suffix it holds, its table keeps its bound, a lookup of an    *)
(* address by bisection finds what the prefixes that were put in contain, whatever  *)
(* was added or reloaded in between, and, with one command at a time, the real      *)
(* ipset list is in one of the two files and "ok" is said of the list that runs     *)
(* (HostSet.Match, AutoList.recordFail, CIDRSet.Match, Daemon.IPSet).               *)
THEOREM ListsHoldAlways == ASSUME OneCaller PROVE AutoListSpec /\ CidrSpec /\ IpsetSpec => []ListsHold
  <1>1. AutoListInv /\ CidrInv /\ SwitchInv => ListsHold
    <2>1. CidrInv => CidrTypeOK /\ MatchIsMembership
      BY DEF CidrInv
    <2>2. SwitchInv => IpsetTypeOK /\ RealListKept
      BY DEF SwitchInv
    <2>. QED BY <2>1, <2>2, AutoListMeans, SwitchMeans DEF ListsHold
  <1>. QED BY <1>1, AutoListAlways, CidrAlways, SwitchAlways, PTL


(***************************************************************************)
(* The patch of a system file.                                             *)
(***************************************************************************)
(* What holds of zero and of every successor up to N holds of all of them. *)
LEMMA Counting ==
  ASSUME NEW N \in Nat, NEW T, 0 \in T, \A n \in 1 .. N : n - 1 \in T => n \in T
  PROVE  \A n \in 0 .. N : n \in T
  <1>. DEFINE Bad == {n \in 0 .. N : n \notin T}
  <1>1. SUFFICES ASSUME Bad # {} PROVE FALSE
    OBVIOUS
  <1>2. PICK m \in Bad : \A k \in Bad : m <= k
    <2>1. Bad \in SUBSET Nat
      OBVIOUS
    <2>. HIDE DEF Bad
    <2>. QED BY <1>1, <2>1, Least
  <1>3. m \in 1 .. N /\ m - 1 \in 0 .. N /\ ~(m <= m - 1)
    OBVIOUS
  <1>4. m - 1 \in T
    BY <1>2, <1>3
  <1>. QED BY <1>3, <1>4

\* f has value a at zero, and G gives its value at n from the one before.
Follows(f, N, V, a, G) ==
    f \in [0 .. N -> V] /\ f[0] = a /\ \A n \in 1 .. N : f[n] = G[n][f[n - 1]]

(* A function of 0 .. N defined from its value at zero and its steps exists. *)
LEMMA Recursion ==
  ASSUME NEW N \in Nat, NEW V, NEW a \in V, NEW G \in [1 .. N -> [V -> V]]
  PROVE  \E f : Follows(f, N, V, a, G)
  <1>. DEFINE Steps(f, m) == f[0] = a /\ \A n \in 1 .. m : f[n] = G[n][f[n - 1]]
              T == {m \in 0 .. N : \E f \in [0 .. m -> V] : Steps(f, m)}
  <1>1. 0 \in T
    <2>. DEFINE f == [n \in 0 .. 0 |-> a]
    <2>1. f \in [0 .. 0 -> V] /\ f[0] = a
      OBVIOUS
    <2>. HIDE DEF f
    <2>2. Steps(f, 0)
      BY <2>1
    <2>. HIDE DEF Steps
    <2>. QED BY <2>1, <2>2
  <1>2. ASSUME NEW m \in 1 .. N, m - 1 \in T PROVE m \in T
    <2>1. PICK f \in [0 .. m - 1 -> V] : Steps(f, m - 1)
      BY <1>2
    <2>. DEFINE g == [n \in 0 .. m |-> IF n = m THEN G[m][f[m - 1]] ELSE f[n]]
    <2>2. m - 1 \in 0 .. m - 1 /\ f[m - 1] \in V /\ G[m][f[m - 1]] \in V
      OBVIOUS
    <2>3. \A n \in 0 .. m : n = m \/ n \in 0 .. m - 1
      OBVIOUS
    <2>4. g \in [0 .. m -> V]
      BY <2>2, <2>3
    <2>5. g[m] = G[m][f[m - 1]] /\ \A n \in 0 .. m - 1 : g[n] = f[n]
      OBVIOUS
    <2>. HIDE DEF g
    <2>6. g[0] = a
      BY <2>1, <2>5
    <2>7. ASSUME NEW n \in 1 .. m PROVE g[n] = G[n][g[n - 1]]
      <3>1. n - 1 \in 0 .. m - 1
        OBVIOUS
      <3>2. CASE n = m
        BY <3>1, <3>2, <2>5
      <3>3. CASE n # m
        <4>1. n \in 1 .. m - 1 /\ n \in 0 .. m - 1
          BY <3>3
        <4>. QED BY <3>1, <4>1, <2>1, <2>5
      <3>. QED BY <3>2, <3>3
    <2>8. Steps(g, m)
      BY <2>6, <2>7
    <2>. HIDE DEF Steps
    <2>. QED BY <2>4, <2>8
  <1>. HIDE DEF T
  <1>3. N \in T
    <2>1. \A n \in 0 .. N : n \in T
      BY <1>1, <1>2, Counting
    <2>. QED BY <2>1
  <1>4. PICK f \in [0 .. N -> V] : Steps(f, N)
    BY <1>3 DEF T
  <1>. QED BY <1>4 DEF Follows

\* k holds the lines at the places of P, collected one by one.
Collects(k, S, s, P) ==
    /\ k \in [0 .. Len(s) -> Seq(S)] /\ k[0] = <<>>
    /\ \A n \in 1 .. Len(s) : k[n] = IF n \in P THEN Append(k[n - 1], s[n]) ELSE k[n - 1]

(* The lines at some places are collected by one function only. *)
LEMMA LinesAtFacts ==
  ASSUME NEW S, NEW s \in Seq(S), NEW P
  PROVE  /\ \E k : Collects(k, S, s, P)
         /\ \A k : Collects(k, S, s, P) => LinesAt(s, P) = k[Len(s)]
  <1>. DEFINE N == Len(s)
              Step(f, n) == IF n = 0 THEN <<>> ELSE IF n \in P THEN Append(f[n - 1], s[n]) ELSE f[n - 1]
              kept == CHOOSE f : f = [n \in 0 .. N |-> Step(f, n)]
              G == [n \in 1 .. N |-> [v \in Seq(S) |-> IF n \in P THEN Append(v, s[n]) ELSE v]]
  <1>1. LinesAt(s, P) = kept[N]
    BY DEF LinesAt
  <1>2. N \in Nat /\ \A n \in 1 .. N : s[n] \in S
    OBVIOUS
  <1>3. G \in [1 .. N -> [Seq(S) -> Seq(S)]]
    <2>1. ASSUME NEW n \in 1 .. N, NEW v \in Seq(S) PROVE (IF n \in P THEN Append(v, s[n]) ELSE v) \in Seq(S)
      OBVIOUS
    <2>. QED BY <2>1
  <1>4. PICK f \in [0 .. N -> Seq(S)] : f[0] = <<>> /\ \A n \in 1 .. N : f[n] = G[n][f[n - 1]]
    <2>1. \E f : Follows(f, N, Seq(S), <<>>, G)
      <3>1. <<>> \in Seq(S)
        OBVIOUS
      <3>. HIDE DEF G, N
      <3>. QED BY <1>2, <1>3, <3>1, Recursion
    <2>. HIDE DEF G, N
    <2>. QED BY <2>1 DEF Follows
  <1>5. ASSUME NEW n \in 1 .. N PROVE f[n] = IF n \in P THEN Append(f[n - 1], s[n]) ELSE f[n - 1]
    <2>1. n - 1 \in 0 .. N /\ f[n - 1] \in Seq(S)
      OBVIOUS
    <2>2. G[n][f[n - 1]] = IF n \in P THEN Append(f[n - 1], s[n]) ELSE f[n - 1]
      BY <2>1
    <2>. QED BY <2>2, <1>4
  <1>6. \A n \in 0 .. N : f[n] = Step(f, n)
    <2>1. \A n \in 0 .. N : n = 0 \/ n \in 1 .. N
      OBVIOUS
    <2>. HIDE DEF N
    <2>. QED BY <1>4, <1>5, <2>1
  <1>7. f = [n \in 0 .. N |-> Step(f, n)]
    <2>. HIDE DEF Step, N
    <2>. QED BY <1>6
  <1>8. kept = [n \in 0 .. N |-> Step(kept, n)]
    <2>. HIDE DEF Step
    <2>. QED BY <1>7
  <1>. HIDE DEF kept
  <1>9. \A n \in 0 .. N : kept[n] = Step(kept, n)
    <2>. HIDE DEF Step
    <2>. QED BY <1>8
  <1>10. ASSUME NEW k, Collects(k, S, s, P) PROVE LinesAt(s, P) = k[N]
    <2>. DEFINE T == {n \in 0 .. N : kept[n] = k[n]}
    <2>1. 0 \in T
      BY <1>2, <1>9, <1>10 DEF Collects
    <2>2. ASSUME NEW n \in 1 .. N, n - 1 \in T PROVE n \in T
      <3>1. n \in 0 .. N /\ n # 0
        OBVIOUS
      <3>2. kept[n] = IF n \in P THEN Append(kept[n - 1], s[n]) ELSE kept[n - 1]
        BY <3>1, <1>9
      <3>. QED BY <3>1, <3>2, <2>2, <1>10 DEF Collects
    <2>3. \A n \in 0 .. N : n \in T
      <3>. HIDE DEF T
      <3>. QED BY <2>1, <2>2, <1>2, Counting
    <2>. QED BY <1>1, <1>2, <2>3
  <1>11. Collects(f, S, s, P)
    <2>. HIDE DEF Step, G
    <2>. QED BY <1>4, <1>5 DEF Collects
  <1>. QED BY <1>10, <1>11

\* From line m + 1 to line n all lines were collected, or none.
Between(k, S, s, P, m, n) ==
    /\ k[n] \in Seq(S)
    /\ (\A i \in m + 1 .. n : i \in P) => k[n] = k[m] \o SubSeq(s, m + 1, n)
    /\ (\A i \in m + 1 .. n : i \notin P) => k[n] = k[m]

(* Lines that are all collected are appended, lines that are not leave no trace. *)
LEMMA CollectsParts ==
  ASSUME NEW S, NEW s \in Seq(S), NEW P, NEW k, Collects(k, S, s, P),
         NEW m \in 0 .. Len(s), NEW n \in m .. Len(s)
  PROVE  Between(k, S, s, P, m, n)
  <1>. DEFINE N == n - m
              All == {d \in 0 .. N : k[m + d] = k[m] \o SubSeq(s, m + 1, m + d)}
              None == {d \in 0 .. N : k[m + d] = k[m]}
  <1>1. N \in Nat /\ \A d \in 0 .. N : m + d \in 0 .. Len(s) /\ k[m + d] \in Seq(S)
    <2>1. N \in Nat /\ \A d \in 0 .. N : m + d \in 0 .. Len(s)
      OBVIOUS
    <2>2. \A i \in 0 .. Len(s) : k[i] \in Seq(S)
      BY DEF Collects
    <2>. HIDE DEF N
    <2>. QED BY <2>1, <2>2
  <1>2. ASSUME NEW d \in 1 .. N
        PROVE  /\ k[m + d] = IF m + d \in P THEN Append(k[m + (d - 1)], s[m + d]) ELSE k[m + (d - 1)]
               /\ d - 1 \in 0 .. N /\ d \in 0 .. N /\ m + d \in m + 1 .. n /\ m + d \in 1 .. Len(s)
               /\ m + 1 \in 1 .. Len(s) /\ m + d \in m + 1 .. Len(s) /\ m + (d - 1) = m + d - 1
    <2>1. m + d \in 1 .. Len(s) /\ (m + d) - 1 = m + (d - 1)
      OBVIOUS
    <2>2. k[m + d] = IF m + d \in P THEN Append(k[m + (d - 1)], s[m + d]) ELSE k[m + (d - 1)]
      BY <2>1 DEF Collects
    <2>. QED BY <2>1, <2>2
  <1>3. ASSUME \A i \in m + 1 .. n : i \in P PROVE k[n] = k[m] \o SubSeq(s, m + 1, n)
    <2>1. 0 \in All
      <3>1. SubSeq(s, m + 1, m) = <<>>
        BY SubSeqEmpty
      <3>2. k[m] \in Seq(S)
        BY DEF Collects
      <3>3. k[m] \o <<>> = k[m]
        BY <3>2, ConcatEmptySeq
      <3>4. m + 0 = m /\ 0 \in 0 .. N
        BY <1>1
      <3>. QED BY <3>1, <3>3, <3>4
    <2>2. ASSUME NEW d \in 1 .. N, d - 1 \in All PROVE d \in All
      <3>. DEFINE a == k[m]
                  b == SubSeq(s, m + 1, m + d - 1)
                  x == s[m + d]
      <3>1. k[m + d] = Append(k[m + (d - 1)], x)
        BY <1>2, <1>3
      <3>2. k[m + (d - 1)] = a \o b
        BY <2>2, <1>2
      <3>3. SubSeq(s, m + 1, m + d) = b \o <<x>>
        BY <1>2, SubSeqRecursiveSecond
      <3>4. a \in Seq(S) /\ b \in Seq(S) /\ x \in S
        BY <1>1, <1>2
      <3>. HIDE DEF a, b, x
      <3>5. <<x>> \in Seq(S) /\ a \o b \in Seq(S)
        BY <3>4
      <3>6. Append(a \o b, x) = (a \o b) \o <<x>>
        BY <3>4, <3>5, AppendIsConcat
      <3>7. (a \o b) \o <<x>> = a \o (b \o <<x>>)
        BY SMTT(30), <3>4, <3>5, ConcatAssociative
      <3>. QED BY <3>1, <3>2, <3>3, <3>6, <3>7, <1>2 DEF a
    <2>3. \A d \in 0 .. N : d \in All
      <3>. HIDE DEF All, N
      <3>. QED BY <1>1, <2>1, <2>2, Counting
    <2>4. N \in 0 .. N /\ m + N = n
      OBVIOUS
    <2>. QED BY <2>3, <2>4
  <1>4. ASSUME \A i \in m + 1 .. n : i \notin P PROVE k[n] = k[m]
    <2>1. 0 \in None
      BY <1>1
    <2>2. ASSUME NEW d \in 1 .. N, d - 1 \in None PROVE d \in None
      BY <2>2, <1>2, <1>4
    <2>3. \A d \in 0 .. N : d \in None
      <3>. HIDE DEF None, N
      <3>. QED BY <1>1, <2>1, <2>2, Counting
    <2>4. N \in 0 .. N /\ m + N = n
      OBVIOUS
    <2>. QED BY <2>3, <2>4
  <1>5. k[n] \in Seq(S)
    <2>1. N \in 0 .. N /\ m + N = n
      BY <1>1
    <2>. QED BY <1>1, <2>1
  <1>. QED BY <1>3, <1>4, <1>5 DEF Between

\* The lines of r are lines of s, in their order.
Within(r, s, P) ==
    /\ \A i \in 1 .. Len(r) : \E a \in 1 .. Len(s) : a \in P /\ r[i] = s[a]
    /\ \A i, j \in 1 .. Len(r) : i < j => \E a, b \in 1 .. Len(s) : a < b /\ r[i] = s[a] /\ r[j] = s[b]

(* The lines at some places are lines, at those places, in their order. *)
LEMMA PlacesFacts ==
  ASSUME NEW S, NEW s \in Seq(S), NEW P
  PROVE  LinesAt(s, P) \in Seq(S) /\ Within(LinesAt(s, P), s, P)
  <1>a. PICK k : Collects(k, S, s, P)
    BY LinesAtFacts
  <1>. DEFINE One(m) == \A i \in 1 .. Len(k[m]) : \E a \in 1 .. m : a \in P /\ k[m][i] = s[a]
              Two(m) == \A i, j \in 1 .. Len(k[m]) : i < j =>
                            \E a, b \in 1 .. m : a < b /\ k[m][i] = s[a] /\ k[m][j] = s[b]
              T == {m \in 0 .. Len(s) : One(m) /\ Two(m)}
  <1>1. k[0] = <<>> /\ \A m \in 0 .. Len(s) : k[m] \in Seq(S)
    BY <1>a DEF Collects
  <1>2. 0 \in T
    <2>1. Len(k[0]) = 0 /\ 0 \in 0 .. Len(s)
      BY <1>1
    <2>2. One(0) /\ Two(0)
      BY <2>1
    <2>. HIDE DEF One, Two
    <2>. QED BY <2>1, <2>2
  <1>3. ASSUME NEW m \in 1 .. Len(s), m - 1 \in T PROVE m \in T
    <2>1. m - 1 \in 0 .. Len(s) /\ m \in 0 .. Len(s) /\ m \in 1 .. m /\ \A a \in 1 .. m - 1 : a \in 1 .. m /\ a < m
      OBVIOUS
    <2>2. One(m - 1) /\ Two(m - 1)
      BY <1>3
    <2>3. CASE m \notin P
      <3>1. k[m] = k[m - 1]
        BY <2>3, <1>a DEF Collects
      <3>2. One(m)
        BY <3>1, <2>1, <2>2
      <3>3. Two(m)
        <4>1. SUFFICES ASSUME NEW i \in 1 .. Len(k[m]), NEW j \in 1 .. Len(k[m]), i < j
                       PROVE  \E a, b \in 1 .. m : a < b /\ k[m][i] = s[a] /\ k[m][j] = s[b]
          OBVIOUS
        <4>2. PICK a \in 1 .. m - 1, b \in 1 .. m - 1 : a < b /\ k[m - 1][i] = s[a] /\ k[m - 1][j] = s[b]
          BY <2>2, <3>1, <4>1
        <4>. QED BY <2>1, <3>1, <4>2
      <3>. HIDE DEF One, Two
      <3>. QED BY <3>2, <3>3, <2>1
    <2>4. CASE m \in P
      <3>. DEFINE r == k[m - 1]
      <3>1. r \in Seq(S) /\ s[m] \in S
        BY <1>1, <2>1
      <3>2. k[m] = Append(r, s[m])
        BY <2>4, <1>a DEF Collects
      <3>3. /\ Len(k[m]) = Len(r) + 1 /\ k[m][Len(r) + 1] = s[m] /\ \A i \in 1 .. Len(r) : k[m][i] = r[i]
            /\ Len(r) \in Nat
        BY <3>1, <3>2
      <3>. HIDE DEF r
      <3>4. \A i \in 1 .. Len(k[m]) : i = Len(r) + 1 \/ i \in 1 .. Len(r)
        BY <3>3
      <3>5. \A i \in 1 .. Len(r) : \E a \in 1 .. m - 1 : a \in P /\ r[i] = s[a]
        BY <2>2 DEF r
      <3>6. One(m)
        <4>1. SUFFICES ASSUME NEW i \in 1 .. Len(k[m]) PROVE \E a \in 1 .. m : a \in P /\ k[m][i] = s[a]
          OBVIOUS
        <4>2. CASE i = Len(r) + 1
          BY <4>2, <3>3, <2>1, <2>4
        <4>3. CASE i \in 1 .. Len(r)
          BY <4>3, <3>3, <3>5, <2>1
        <4>. QED BY <4>2, <4>3, <3>4
      <3>7. Two(m)
        <4>1. SUFFICES ASSUME NEW i \in 1 .. Len(k[m]), NEW j \in 1 .. Len(k[m]), i < j
                       PROVE  \E a, b \in 1 .. m : a < b /\ k[m][i] = s[a] /\ k[m][j] = s[b]
          OBVIOUS
        <4>2. i \in 1 .. Len(r)
          BY <4>1, <3>3
        <4>3. CASE j = Len(r) + 1
          <5>1. PICK a \in 1 .. m - 1 : r[i] = s[a]
            BY <4>2, <3>5
          <5>2. a \in 1 .. m /\ m \in 1 .. m /\ a < m /\ k[m][i] = s[a] /\ k[m][j] = s[m]
            BY <5>1, <4>2, <4>3, <3>3, <2>1
          <5>. QED BY <5>2
        <4>4. CASE j \in 1 .. Len(r)
          <5>1. PICK a \in 1 .. m - 1, b \in 1 .. m - 1 : a < b /\ r[i] = s[a] /\ r[j] = s[b]
            BY <2>2, <4>1, <4>2, <4>4 DEF r
          <5>. QED BY <5>1, <4>2, <4>4, <3>3, <2>1
        <4>. QED BY <4>3, <4>4, <3>4
      <3>. HIDE DEF One, Two
      <3>. QED BY <3>6, <3>7, <2>1
    <2>. QED BY <2>3, <2>4
  <1>4. \A m \in 0 .. Len(s) : m \in T
    <2>1. Len(s) \in Nat
      OBVIOUS
    <2>. HIDE DEF T
    <2>. QED BY <2>1, <1>2, <1>3, Counting
  <1>5. Len(s) \in 0 .. Len(s) /\ LinesAt(s, P) = k[Len(s)]
    BY <1>a, LinesAtFacts
  <1>6. One(Len(s)) /\ Two(Len(s)) /\ k[Len(s)] \in Seq(S)
    BY <1>1, <1>4, <1>5
  <1>. QED BY <1>5, <1>6 DEF Within

(* The least of a set of numbers. *)
LEMMA MinFacts == ASSUME NEW T \in SUBSET Nat, T # {} PROVE Min(T) \in T /\ \A k \in T : Min(T) <= k
  BY Least DEF Min

(* A block ends at the first closing marker within reach, or where it begins. *)
LEMMA ClosingFacts ==
  ASSUME NEW p, NEW s \in Seq(Line), NEW n \in 1 .. Len(s)
  PROVE  /\ Closing(p, s, n) \in n .. Len(s)
         /\ Closing(p, s, n) # n =>
               /\ s[Closing(p, s, n)].kind = "end" /\ Closing(p, s, n) <= n + Reach(p, s)
               /\ \A j \in n + 1 .. Closing(p, s, n) - 1 : s[j].kind # "end"
         /\ \A e \in n + 1 .. Len(s) :
               (e <= n + Reach(p, s) /\ s[e].kind = "end" /\ \A j \in n + 1 .. e - 1 : s[j].kind # "end") =>
                   Closing(p, s, n) = e
  <1>. DEFINE R == Reach(p, s)
              ends == {j \in n + 1 .. Len(s) : j <= n + R /\ s[j].kind = "end"}
  <1>1. R \in Nat
    BY PfConfAssumption DEF Reach
  <1>2. Closing(p, s, n) = IF ends = {} THEN n ELSE Min(ends)
    BY DEF Closing
  <1>. HIDE DEF R
  <1>3. ends # {} => Min(ends) \in ends /\ \A k \in ends : Min(ends) <= k
    <2>1. ends \in SUBSET Nat
      OBVIOUS
    <2>. HIDE DEF ends
    <2>. QED BY <2>1, MinFacts
  <1>4. ASSUME ends # {} PROVE \A j \in n + 1 .. Min(ends) - 1 : s[j].kind # "end"
    <2>1. SUFFICES ASSUME NEW j \in n + 1 .. Min(ends) - 1, s[j].kind = "end" PROVE FALSE
      OBVIOUS
    <2>2. Min(ends) \in n + 1 .. Len(s) /\ Min(ends) <= n + R
      BY <1>3, <1>4
    <2>3. j \in ends
      BY <2>1, <2>2, <1>1
    <2>. HIDE DEF ends
    <2>4. Min(ends) <= j
      BY <1>3, <1>4, <2>3
    <2>. QED BY <2>2, <2>4
  <1>5. ASSUME NEW e \in n + 1 .. Len(s), e <= n + R, s[e].kind = "end", \A j \in n + 1 .. e - 1 : s[j].kind # "end"
        PROVE  ends # {} /\ Min(ends) = e
    <2>1. e \in ends /\ \A j \in ends : e <= j
      BY <1>5
    <2>2. Min(ends) <= e /\ e <= Min(ends) /\ Min(ends) \in n + 1 .. Len(s)
      BY <2>1, <1>3
    <2>. HIDE DEF ends
    <2>. QED BY <2>1, <2>2
  <1>6. ends # {} => Min(ends) \in n .. Len(s) /\ s[Min(ends)].kind = "end" /\ Min(ends) <= n + R
    BY <1>3
  <1>7. n \in n .. Len(s)
    OBVIOUS
  <1>. HIDE DEF ends
  <1>. QED BY <1>2, <1>4, <1>5, <1>6, <1>7 DEF R

\* u[n] is where the last block opened up to line n ends.
Ends(u, p, s) ==
    /\ u \in [0 .. Len(s) -> Nat] /\ u[0] = 0
    /\ \A n \in 1 .. Len(s) :
          u[n] = IF u[n - 1] < n /\ s[n].kind = "begin" THEN Closing(p, s, n) ELSE u[n - 1]

(* One function tells where the last block ends, hence what blocks enclose. *)
LEMMA EnclosedFacts ==
  ASSUME NEW p, NEW s \in Seq(Line)
  PROVE  /\ \E u : Ends(u, p, s)
         /\ \A u : Ends(u, p, s) => Enclosed(p, s) = {n \in 1 .. Len(s) : n <= u[n]}
  <1>. DEFINE N == Len(s)
              C(n) == Closing(p, s, n)
              Opens(n) == s[n].kind = "begin"
              Step(f, n) == IF n = 0 THEN 0 ELSE IF f[n - 1] < n /\ Opens(n) THEN C(n) ELSE f[n - 1]
              upto == CHOOSE f : f = [n \in 0 .. N |-> Step(f, n)]
              G == [n \in 1 .. N |-> [v \in Nat |-> IF v < n /\ Opens(n) THEN C(n) ELSE v]]
  <1>1. Enclosed(p, s) = {n \in 1 .. N : n <= upto[n]}
    BY DEF Enclosed
  <1>2. N \in Nat /\ \A n \in 1 .. N : C(n) \in Nat
    <2>1. \A n \in 1 .. N : C(n) \in n .. N
      BY ClosingFacts
    <2>. QED BY <2>1
  <1>. HIDE DEF C, Opens
  <1>3. G \in [1 .. N -> [Nat -> Nat]]
    <2>1. ASSUME NEW n \in 1 .. N, NEW v \in Nat PROVE (IF v < n /\ Opens(n) THEN C(n) ELSE v) \in Nat
      BY <1>2
    <2>. HIDE DEF N
    <2>. QED BY <2>1
  <1>4. PICK f \in [0 .. N -> Nat] : f[0] = 0 /\ \A n \in 1 .. N : f[n] = G[n][f[n - 1]]
    <2>1. \E f : Follows(f, N, Nat, 0, G)
      <3>1. 0 \in Nat
        OBVIOUS
      <3>. HIDE DEF G, N
      <3>. QED BY <1>2, <1>3, <3>1, Recursion
    <2>. HIDE DEF G, N
    <2>. QED BY <2>1 DEF Follows
  <1>5. ASSUME NEW n \in 1 .. N PROVE f[n] = IF f[n - 1] < n /\ Opens(n) THEN C(n) ELSE f[n - 1]
    <2>1. n - 1 \in 0 .. N /\ f[n - 1] \in Nat
      OBVIOUS
    <2>2. G[n][f[n - 1]] = IF f[n - 1] < n /\ Opens(n) THEN C(n) ELSE f[n - 1]
      BY <2>1
    <2>. QED BY <2>2, <1>4
  <1>6. \A n \in 0 .. N : f[n] = Step(f, n)
    <2>1. \A n \in 0 .. N : n = 0 \/ n \in 1 .. N
      OBVIOUS
    <2>. HIDE DEF N
    <2>. QED BY <1>4, <1>5, <2>1
  <1>7. f = [n \in 0 .. N |-> Step(f, n)]
    <2>. HIDE DEF Step, N
    <2>. QED BY <1>6
  <1>8. upto = [n \in 0 .. N |-> Step(upto, n)]
    <2>. HIDE DEF Step
    <2>. QED BY <1>7
  <1>. HIDE DEF upto
  <1>9. \A n \in 0 .. N : upto[n] = Step(upto, n)
    <2>. HIDE DEF Step
    <2>. QED BY <1>8
  <1>10. ASSUME NEW u, Ends(u, p, s) PROVE Enclosed(p, s) = {n \in 1 .. N : n <= u[n]}
    <2>. DEFINE T == {n \in 0 .. N : upto[n] = u[n]}
    <2>1. 0 \in T
      BY <1>2, <1>9, <1>10 DEF Ends
    <2>2. ASSUME NEW n \in 1 .. N, n - 1 \in T PROVE n \in T
      <3>1. n \in 0 .. N /\ n # 0
        OBVIOUS
      <3>2. upto[n] = IF upto[n - 1] < n /\ Opens(n) THEN C(n) ELSE upto[n - 1]
        BY <3>1, <1>9
      <3>3. u[n] = IF u[n - 1] < n /\ Opens(n) THEN C(n) ELSE u[n - 1]
        BY <1>10 DEF Ends, Opens, C
      <3>. QED BY <3>1, <3>2, <3>3, <2>2
    <2>3. \A n \in 0 .. N : n \in T
      <3>. HIDE DEF T
      <3>. QED BY <2>1, <2>2, <1>2, Counting
    <2>4. \A n \in 1 .. N : upto[n] = u[n]
      BY <2>3
    <2>. QED BY <1>1, <2>4
  <1>11. Ends(f, p, s)
    <2>. HIDE DEF Step, G
    <2>. QED BY <1>4, <1>5 DEF Ends, Opens, C
  <1>. QED BY <1>10, <1>11

Clean(l) == l.kind \notin Marker \cup Statement
AllClean(s) == \A i \in 1 .. Len(s) : Clean(s[i])

(* Every opening marker is enclosed, and what is enclosed follows one. *)
LEMMA EnclosedLines ==
  ASSUME NEW p, NEW s \in Seq(Line), NEW n \in 1 .. Len(s)
  PROVE  /\ s[n].kind = "begin" => n \in Enclosed(p, s)
         /\ n \in Enclosed(p, s) => \E i \in 1 .. n : s[i].kind = "begin" /\ n <= Closing(p, s, i)
  <1>1. PICK u : Ends(u, p, s)
    BY EnclosedFacts
  <1>2. Enclosed(p, s) = {m \in 1 .. Len(s) : m <= u[m]}
    BY <1>1, EnclosedFacts
  <1>3. ASSUME NEW m \in 1 .. Len(s)
        PROVE  u[m] = IF u[m - 1] < m /\ s[m].kind = "begin" THEN Closing(p, s, m) ELSE u[m - 1]
    BY <1>1 DEF Ends
  <1>4. u[0] = 0 /\ \A m \in 0 .. Len(s) : u[m] \in Nat
    BY <1>1 DEF Ends
  <1>5. \A m \in 1 .. Len(s) : Closing(p, s, m) \in m .. Len(s)
    BY ClosingFacts
  <1>6. ASSUME s[n].kind = "begin" PROVE n <= u[n]
    <2>1. n - 1 \in 0 .. Len(s) /\ u[n - 1] \in Nat /\ n \in Nat
      BY <1>4
    <2>2. n <= Closing(p, s, n)
      BY <1>5
    <2>. QED BY <2>1, <2>2, <1>3, <1>6
  <1>. DEFINE Opened(m) == u[m] = 0 \/ \E i \in 1 .. m : s[i].kind = "begin" /\ u[m] = Closing(p, s, i)
              T == {m \in 0 .. Len(s) : Opened(m)}
  <1>7. \A m \in 0 .. Len(s) : m \in T
    <2>1. 0 \in T
      BY <1>4
    <2>2. ASSUME NEW m \in 1 .. Len(s), m - 1 \in T PROVE m \in T
      <3>1. m \in 1 .. m /\ m \in 0 .. Len(s) /\ \A i \in 1 .. m - 1 : i \in 1 .. m
        OBVIOUS
      <3>2. CASE u[m] = Closing(p, s, m) /\ s[m].kind = "begin"
        BY <3>1, <3>2
      <3>3. CASE u[m] = u[m - 1]
        BY <3>1, <3>3, <2>2
      <3>. HIDE DEF T
      <3>. QED BY <3>2, <3>3, <1>3
    <2>3. Len(s) \in Nat
      OBVIOUS
    <2>. HIDE DEF T
    <2>. QED BY <2>1, <2>2, <2>3, Counting
  <1>8. ASSUME n <= u[n] PROVE \E i \in 1 .. n : s[i].kind = "begin" /\ n <= Closing(p, s, i)
    <2>1. n \in 0 .. Len(s) /\ u[n] # 0
      BY <1>8
    <2>2. Opened(n)
      BY <2>1, <1>7
    <2>. QED BY <2>1, <2>2, <1>8
  <1>. QED BY <1>2, <1>6, <1>8

(* What stripping leaves: lines of the file, in their order, none of them ours *)
(* by its kind.                                                               *)
LEMMA StripFacts ==
  ASSUME NEW p, NEW s \in Seq(Line)
  PROVE  /\ Strip(p, s) \in Seq(Line)
         /\ \A i \in 1 .. Len(Strip(p, s)) :
                Clean(Strip(p, s)[i]) /\ \E a \in 1 .. Len(s) : Strip(p, s)[i] = s[a]
         /\ \A i, j \in 1 .. Len(Strip(p, s)) : i < j =>
                \E a, b \in 1 .. Len(s) : a < b /\ Strip(p, s)[i] = s[a] /\ Strip(p, s)[j] = s[b]
  <1>. DEFINE P == {n \in (1 .. Len(s)) \ Enclosed(p, s) : s[n].kind \notin {"end"} \cup Statement}
              r == Strip(p, s)
  <1>1. r = LinesAt(s, P)
    BY DEF Strip
  <1>2. \A a \in P : Clean(s[a])
    BY EnclosedLines DEF Clean, Marker
  <1>. HIDE DEF P, r
  <1>3. r \in Seq(Line) /\ Within(r, s, P)
    BY <1>1, PlacesFacts
  <1>4. ASSUME NEW i \in 1 .. Len(r) PROVE Clean(r[i]) /\ \E a \in 1 .. Len(s) : r[i] = s[a]
    BY <1>2, <1>3 DEF Within
  <1>. QED BY <1>3, <1>4 DEF Within, r

\* A block of s: opened at line a + 1, ended by its closing marker at line e.
Framed(p, s, a, e) ==
    /\ s[a + 1].kind = "begin" /\ s[e].kind = "end" /\ e <= a + 1 + Reach(p, s)
    /\ \A j \in a + 2 .. e - 1 : s[j].kind # "end"

(* Of a file whose lines of ours are in one or two whole blocks stripping      *)
(* leaves exactly the rest.                                                    *)
LEMMA StripWhole ==
  ASSUME NEW p, NEW s \in Seq(Line), NEW a \in 0 .. Len(s), NEW e \in a .. Len(s),
         NEW b \in e .. Len(s), NEW d \in b .. Len(s),
         e = a \/ (e >= a + 2 /\ Framed(p, s, a, e)), d = b \/ (d >= b + 2 /\ e # a /\ Framed(p, s, b, d)),
         \A i \in 1 .. Len(s) : i \in a + 1 .. e \/ i \in b + 1 .. d \/ Clean(s[i])
  PROVE  Strip(p, s) = (SubSeq(s, 1, a) \o SubSeq(s, e + 1, b)) \o SubSeq(s, d + 1, Len(s))
  <1>. DEFINE N == Len(s)
              w(n) == IF n <= a \/ e = a THEN 0 ELSE IF n <= b \/ b = d THEN e ELSE d
              u == [n \in 0 .. N |-> w(n)]
  <1>1. N \in Nat /\ u \in [0 .. N -> Nat] /\ \A n \in 0 .. N : u[n] = w(n)
    OBVIOUS
  <1>2. e = a \/ (a + 1 \in 1 .. N /\ Closing(p, s, a + 1) = e /\ s[a + 1].kind = "begin")
    <2>1. SUFFICES ASSUME e # a PROVE a + 1 \in 1 .. N /\ Closing(p, s, a + 1) = e /\ s[a + 1].kind = "begin"
      OBVIOUS
    <2>2. a + 1 \in 1 .. N /\ e \in (a + 1) + 1 .. N /\ a + 2 = (a + 1) + 1 /\ Framed(p, s, a, e)
      BY <2>1
    <2>. QED BY <2>2, ClosingFacts DEF Framed
  <1>3. b = d \/ (b + 1 \in 1 .. N /\ Closing(p, s, b + 1) = d /\ s[b + 1].kind = "begin")
    <2>1. SUFFICES ASSUME b # d PROVE b + 1 \in 1 .. N /\ Closing(p, s, b + 1) = d /\ s[b + 1].kind = "begin"
      OBVIOUS
    <2>2. b + 1 \in 1 .. N /\ d \in (b + 1) + 1 .. N /\ b + 2 = (b + 1) + 1 /\ Framed(p, s, b, d)
      BY <2>1
    <2>. QED BY <2>2, ClosingFacts DEF Framed
  <1>4. \A n \in 1 .. N : s[n].kind = "begin" => n \in a + 1 .. e \/ n \in b + 1 .. d
    BY DEF Clean, Marker
  <1>5. ASSUME NEW n \in 1 .. N
        PROVE  w(n) = IF w(n - 1) < n /\ s[n].kind = "begin" THEN Closing(p, s, n) ELSE w(n - 1)
    <2>1. CASE n \in a + 1 .. e
      <3>1. CASE n = a + 1
        BY <3>1, <2>1, <1>2
      <3>2. CASE n # a + 1
        BY <3>2, <2>1
      <3>. QED BY <3>1, <3>2
    <2>2. CASE n \in b + 1 .. d
      <3>1. CASE n = b + 1
        BY <3>1, <2>2, <1>3
      <3>2. CASE n # b + 1
        BY <3>2, <2>2
      <3>. QED BY <3>1, <3>2
    <2>3. CASE n \notin a + 1 .. e /\ n \notin b + 1 .. d
      <3>1. s[n].kind # "begin"
        BY <2>3, <1>4
      <3>2. w(n) = w(n - 1)
        BY <2>3
      <3>. QED BY <3>1, <3>2
    <2>. QED BY <2>1, <2>2, <2>3
  <1>6. Ends(u, p, s)
    <2>1. u[0] = 0
      BY <1>1
    <2>2. ASSUME NEW n \in 1 .. N
          PROVE u[n] = IF u[n - 1] < n /\ s[n].kind = "begin" THEN Closing(p, s, n) ELSE u[n - 1]
      <3>1. n \in 0 .. N /\ n - 1 \in 0 .. N
        OBVIOUS
      <3>. HIDE DEF u, w
      <3>. QED BY <3>1, <1>1, <1>5
    <2>. HIDE DEF u
    <2>. QED BY <2>1, <2>2, <1>1 DEF Ends
  <1>7. Enclosed(p, s) = {n \in 1 .. N : n <= u[n]}
    BY <1>6, EnclosedFacts
  <1>8. \A n \in 1 .. N : n \in Enclosed(p, s) <=> (n \in a + 1 .. e \/ n \in b + 1 .. d)
    <2>1. ASSUME NEW n \in 1 .. N PROVE n <= w(n) <=> (n \in a + 1 .. e \/ n \in b + 1 .. d)
      OBVIOUS
    <2>2. \A n \in 1 .. N : u[n] = w(n)
      BY <1>1
    <2>. HIDE DEF u, w
    <2>. QED BY <2>1, <2>2, <1>7
  <1>. DEFINE P == {n \in (1 .. Len(s)) \ Enclosed(p, s) : s[n].kind \notin {"end"} \cup Statement}
  <1>9. \A n \in 1 .. N : n \in P <=> ~(n \in a + 1 .. e \/ n \in b + 1 .. d)
    BY <1>8 DEF Clean, Marker
  <1>10. PICK k : Collects(k, Line, s, P)
    BY LinesAtFacts
  <1>11. Strip(p, s) = k[N]
    BY <1>10, LinesAtFacts DEF Strip
  <1>. HIDE DEF P, u, w
  <1>12. /\ a \in 0 .. N /\ e \in a .. N /\ b \in e .. N /\ d \in b .. N /\ N \in d .. N
         /\ 0 \in 0 .. N /\ a \in 0 .. N /\ e \in 0 .. N /\ b \in 0 .. N /\ d \in 0 .. N
    OBVIOUS
  <1>13. /\ \A n \in 0 + 1 .. a : n \in P
         /\ \A n \in a + 1 .. e : n \notin P
         /\ \A n \in e + 1 .. b : n \in P
         /\ \A n \in b + 1 .. d : n \notin P
         /\ \A n \in d + 1 .. N : n \in P
    BY <1>9
  <1>14. Between(k, Line, s, P, 0, a) /\ Between(k, Line, s, P, a, e) /\ Between(k, Line, s, P, e, b)
         /\ Between(k, Line, s, P, b, d) /\ Between(k, Line, s, P, d, N)
    BY <1>10, <1>12, CollectsParts
  <1>15. k[a] = k[0] \o SubSeq(s, 0 + 1, a)
    BY <1>13, <1>14 DEF Between
  <1>16. k[e] = k[a] /\ k[d] = k[b]
    BY <1>13, <1>14 DEF Between
  <1>17. k[b] = k[e] \o SubSeq(s, e + 1, b)
    BY <1>13, <1>14 DEF Between
  <1>18. k[N] = k[d] \o SubSeq(s, d + 1, N)
    BY <1>13, <1>14 DEF Between
  <1>19. k[0] \o SubSeq(s, 0 + 1, a) = SubSeq(s, 1, a)
    <2>1. k[0] = <<>> /\ SubSeq(s, 1, a) \in Seq(Line) /\ 0 + 1 = 1
      BY <1>10 DEF Collects
    <2>. QED BY <2>1, ConcatEmptySeq
  <1>. QED BY <1>11, <1>15, <1>16, <1>17, <1>18, <1>19

(* A file without lines of ours is left as it is. *)
LEMMA StripNothing ==
  ASSUME NEW p, NEW s \in Seq(Line), AllClean(s)
  PROVE  Strip(p, s) = s
  <1>1. 0 \in 0 .. Len(s) /\ 0 \in 0 .. 0 /\ Len(s) \in Nat
    OBVIOUS
  <1>2. Strip(p, s) = (SubSeq(s, 1, 0) \o SubSeq(s, 0 + 1, 0)) \o SubSeq(s, 0 + 1, Len(s))
    BY <1>1, StripWhole DEF AllClean
  <1>3. SubSeq(s, 1, 0) = <<>> /\ SubSeq(s, 0 + 1, 0) = <<>> /\ SubSeq(s, 0 + 1, Len(s)) = s
    <2>1. SubSeq(s, 1, 0) = <<>>
      BY SubSeqEmpty
    <2>2. SubSeq(s, 1, Len(s)) = s
      BY SubSeqFull
    <2>. QED BY <2>1, <2>2
  <1>4. <<>> \o <<>> = <<>> /\ <<>> \o s = s
    BY ConcatEmptySeq
  <1>. QED BY <1>2, <1>3, <1>4

\* r is A, B, C, E and D; up to line a it is A, then B up to line e, and so on.
Laid(r, S, A, a, B, e, C, b, E, d, D) ==
    /\ r \in Seq(S) /\ Len(r) = d + Len(D)
    /\ a = Len(A) /\ e = a + Len(B) /\ b = e + Len(C) /\ d = b + Len(E)
    /\ \A i \in 1 .. Len(A) : r[i] = A[i]
    /\ \A i \in 1 .. Len(B) : r[a + i] = B[i]
    /\ \A i \in 1 .. Len(C) : r[e + i] = C[i]
    /\ \A i \in 1 .. Len(E) : r[b + i] = E[i]
    /\ \A i \in 1 .. Len(D) : r[d + i] = D[i]

(* The lines of a sequence put together from five. *)
LEMMA FiveParts ==
  ASSUME NEW S, NEW A \in Seq(S), NEW B \in Seq(S), NEW C \in Seq(S), NEW E \in Seq(S), NEW D \in Seq(S),
         NEW r, r = (((A \o B) \o C) \o E) \o D, NEW a, a = Len(A), NEW e, e = a + Len(B),
         NEW b, b = e + Len(C), NEW d, d = b + Len(E)
  PROVE  Laid(r, S, A, a, B, e, C, b, E, d, D)
  <1>. DEFINE AB == A \o B
              ABC == AB \o C
              ABCE == ABC \o E
  <1>1. AB \in Seq(S) /\ Len(AB) = e /\ \A i \in 1 .. e : AB[i] = IF i <= a THEN A[i] ELSE B[i - a]
    BY ConcatProperties
  <1>. HIDE DEF AB
  <1>2. ABC \in Seq(S) /\ Len(ABC) = b /\ \A i \in 1 .. b : ABC[i] = IF i <= e THEN AB[i] ELSE C[i - e]
    <2>1. Len(AB) + Len(C) = b
      BY <1>1
    <2>2. /\ AB \o C \in Seq(S) /\ Len(AB \o C) = Len(AB) + Len(C)
          /\ \A i \in 1 .. Len(AB) + Len(C) : (AB \o C)[i] = IF i <= Len(AB) THEN AB[i] ELSE C[i - Len(AB)]
      <3>1. AB \in Seq(S)
        BY <1>1
      <3>. QED BY <3>1, ConcatProperties
    <2>3. ABC = AB \o C
      OBVIOUS
    <2>. HIDE DEF ABC
    <2>. QED BY <1>1, <2>1, <2>2, <2>3
  <1>. HIDE DEF ABC
  <1>3. ABCE \in Seq(S) /\ Len(ABCE) = d /\ \A i \in 1 .. d : ABCE[i] = IF i <= b THEN ABC[i] ELSE E[i - b]
    <2>1. Len(ABC) + Len(E) = d
      BY <1>2
    <2>2. /\ ABCE \in Seq(S) /\ Len(ABCE) = Len(ABC) + Len(E)
          /\ \A i \in 1 .. Len(ABC) + Len(E) : ABCE[i] = IF i <= Len(ABC) THEN ABC[i] ELSE E[i - Len(ABC)]
      BY SMTT(30), <1>2, ConcatProperties
    <2>. HIDE DEF ABCE
    <2>. QED BY <1>2, <2>1, <2>2
  <1>. HIDE DEF ABCE
  <1>4. r = ABCE \o D
    BY DEF AB, ABC, ABCE
  <1>5. r \in Seq(S) /\ Len(r) = d + Len(D) /\ \A i \in 1 .. d + Len(D) : r[i] = IF i <= d THEN ABCE[i] ELSE D[i - d]
    <2>1. Len(ABCE) + Len(D) = d + Len(D)
      BY <1>3
    <2>2. /\ r \in Seq(S) /\ Len(r) = Len(ABCE) + Len(D)
          /\ \A i \in 1 .. Len(ABCE) + Len(D) : r[i] = IF i <= Len(ABCE) THEN ABCE[i] ELSE D[i - Len(ABCE)]
      BY SMTT(30), <1>3, <1>4, ConcatProperties
    <2>. QED BY <1>3, <2>1, <2>2
  <1>6. Len(A) \in Nat /\ Len(B) \in Nat /\ Len(C) \in Nat /\ Len(E) \in Nat /\ Len(D) \in Nat
    OBVIOUS
  <1>. HIDE <1>4
  <1>7. ASSUME NEW i \in 1 .. Len(A) PROVE r[i] = A[i]
    BY <1>1, <1>2, <1>3, <1>5, <1>6
  <1>8. ASSUME NEW i \in 1 .. Len(B) PROVE r[a + i] = B[i]
    <2>1. a + i \in 1 .. e /\ ~(a + i <= a) /\ (a + i) - a = i /\ a + i <= b /\ a + i <= d
      BY <1>6
    <2>. QED BY <2>1, <1>1, <1>2, <1>3, <1>5, <1>6
  <1>9. ASSUME NEW i \in 1 .. Len(C) PROVE r[e + i] = C[i]
    <2>1. e + i \in 1 .. b /\ ~(e + i <= e) /\ (e + i) - e = i /\ e + i <= d
      BY <1>6
    <2>. QED BY <2>1, <1>2, <1>3, <1>5, <1>6
  <1>10. ASSUME NEW i \in 1 .. Len(E) PROVE r[b + i] = E[i]
    <2>1. b + i \in 1 .. d /\ ~(b + i <= b) /\ (b + i) - b = i
      BY <1>6
    <2>. QED BY SMTT(30), <2>1, <1>3, <1>5, <1>6
  <1>11. ASSUME NEW i \in 1 .. Len(D) PROVE r[d + i] = D[i]
    <2>1. d + i \in 1 .. d + Len(D) /\ ~(d + i <= d) /\ (d + i) - d = i
      BY <1>6
    <2>. QED BY <2>1, <1>5, <1>6
  <1>. QED BY <1>5, <1>7, <1>8, <1>9, <1>10, <1>11 DEF Laid

\* A block as the program writes it, between its markers.
Whole(p, B) ==
    /\ Len(B) >= 2 /\ (p = "pf.conf" => Len(B) <= 4)
    /\ B[1].kind = "begin" /\ B[Len(B)].kind = "end"
    /\ \A i \in 2 .. Len(B) - 1 : B[i].kind \notin Marker

Rejoined(s, A, C, D) == s = (A \o C) \o D

(* Stripping takes out what was put in, wherever it was put. *)
LEMMA StripPut ==
  ASSUME NEW p, NEW A \in Seq(Line), NEW B \in Seq(Line), NEW C \in Seq(Line), NEW E \in Seq(Line), NEW D \in Seq(Line),
         Whole(p, B), E = <<>> \/ Whole(p, E),
         AllClean(A), AllClean(C), AllClean(D),
         NEW r, NEW a, NEW e, NEW b, NEW d, Laid(r, Line, A, a, B, e, C, b, E, d, D)
  PROVE  Rejoined(Strip(p, r), A, C, D)
  <1>2. /\ Len(A) \in Nat /\ Len(B) \in Nat /\ Len(C) \in Nat /\ Len(E) \in Nat /\ Len(D) \in Nat
        /\ a = Len(A) /\ e = a + Len(B) /\ b = e + Len(C) /\ d = b + Len(E)
    BY DEF Laid
  <1>1. /\ r \in Seq(Line) /\ Len(r) = d + Len(D)
        /\ a \in Nat /\ e \in Nat /\ b \in Nat /\ d \in Nat /\ a <= e /\ e <= b /\ b <= d /\ d <= Len(r)
        /\ \A i \in 1 .. Len(A) : r[i] = A[i]
        /\ \A i \in 1 .. Len(B) : r[a + i] = B[i]
        /\ \A i \in 1 .. Len(C) : r[e + i] = C[i]
        /\ \A i \in 1 .. Len(E) : r[b + i] = E[i]
        /\ \A i \in 1 .. Len(D) : r[d + i] = D[i]
    BY <1>2 DEF Laid
  <1>3. ASSUME NEW X \in Seq(Line), Whole(p, X), NEW m \in Nat, m + Len(X) <= Len(r),
               \A i \in 1 .. Len(X) : r[m + i] = X[i]
        PROVE  m + Len(X) >= m + 2 /\ Framed(p, r, m, m + Len(X))
    <2>1. Len(X) \in Nat /\ Len(X) >= 2 /\ 1 \in 1 .. Len(X) /\ Len(X) \in 1 .. Len(X)
      BY <1>3 DEF Whole
    <2>2. r[m + 1].kind = "begin" /\ r[m + Len(X)].kind = "end"
      BY <2>1, <1>3 DEF Whole
    <2>3. m + Len(X) <= m + 1 + Reach(p, r)
      <3>1. Len(r) \in Nat /\ MaxBlockLines \in Nat /\ MaxBlockLines >= 3
        BY <1>1, PfConfAssumption
      <3>2. CASE p = "pf.conf"
        <4>1. Reach(p, r) = MaxBlockLines /\ Len(X) <= 4
          BY <3>2, <1>3 DEF Whole, Reach
        <4>. QED BY <4>1, <3>1, <2>1
      <3>3. CASE p # "pf.conf"
        <4>1. Reach(p, r) = Len(r)
          BY <3>3 DEF Reach
        <4>. QED BY <4>1, <3>1, <2>1, <1>3
      <3>. QED BY <3>2, <3>3
    <2>4. ASSUME NEW j \in m + 2 .. m + Len(X) - 1 PROVE r[j].kind # "end"
      <3>1. j - m \in 2 .. Len(X) - 1 /\ j - m \in 1 .. Len(X) /\ m + (j - m) = j
        BY <2>1
      <3>. QED BY <3>1, <1>3 DEF Whole, Marker
    <2>. QED BY <2>1, <2>2, <2>3, <2>4 DEF Framed
  <1>4. e >= a + 2 /\ Framed(p, r, a, e)
    <2>1. a \in Nat /\ e = a + Len(B) /\ a + Len(B) <= Len(r) /\ \A i \in 1 .. Len(B) : r[a + i] = B[i]
      BY <1>1, <1>2
    <2>. QED BY <2>1, <1>3
  <1>5. d = b \/ (d >= b + 2 /\ e # a /\ Framed(p, r, b, d))
    <2>1. CASE E = <<>>
      BY <2>1, <1>2
    <2>2. CASE Whole(p, E)
      <3>1. d >= b + 2 /\ Framed(p, r, b, d)
        <4>1. b \in Nat /\ d = b + Len(E) /\ b + Len(E) <= Len(r) /\ \A i \in 1 .. Len(E) : r[b + i] = E[i]
          BY <1>1, <1>2
        <4>. QED BY <4>1, <2>2, <1>3
      <3>. QED BY <3>1, <1>4, <1>1
    <2>. QED BY <2>1, <2>2
  <1>6. ASSUME NEW i \in 1 .. Len(r), i \notin a + 1 .. e, i \notin b + 1 .. d PROVE Clean(r[i])
    <2>1. CASE i <= a
      BY <2>1, <1>1, <1>2 DEF AllClean
    <2>2. CASE i > e /\ i <= b
      <3>1. i - e \in 1 .. Len(C) /\ e + (i - e) = i
        BY <2>2, <1>1, <1>2
      <3>. QED BY <3>1, <1>1 DEF AllClean
    <2>3. CASE i > d
      <3>1. i - d \in 1 .. Len(D) /\ d + (i - d) = i
        BY <2>3, <1>1, <1>2
      <3>. QED BY <3>1, <1>1 DEF AllClean
    <2>. QED BY <2>1, <2>2, <2>3, <1>1, <1>6
  <1>7. Strip(p, r) = (SubSeq(r, 1, a) \o SubSeq(r, e + 1, b)) \o SubSeq(r, d + 1, Len(r))
    <2>1. a \in 0 .. Len(r) /\ e \in a .. Len(r) /\ b \in e .. Len(r) /\ d \in b .. Len(r)
      BY <1>1
    <2>2. \A i \in 1 .. Len(r) : i \in a + 1 .. e \/ i \in b + 1 .. d \/ Clean(r[i])
      BY <1>6
    <2>. QED BY <2>1, <2>2, <1>1, <1>4, <1>5, StripWhole
  <1>8. ASSUME NEW X \in Seq(Line), NEW m \in Nat, m + Len(X) <= Len(r), \A i \in 1 .. Len(X) : r[m + i] = X[i]
        PROVE  SubSeq(r, m + 1, m + Len(X)) = X
    <2>. DEFINE f == m + 1
                n == m + Len(X)
                y == SubSeq(r, f, n)
    <2>1. Len(X) \in Nat /\ f \in 1 .. Len(r) + 1 /\ n \in f - 1 .. Len(r)
      BY <1>8, <1>1
    <2>3. n - f + 1 = Len(X) /\ \A i \in 1 .. Len(X) : f + i - 1 = m + i
      BY <2>1
    <2>. HIDE DEF f, n
    <2>2. y \in Seq(Line) /\ Len(y) = n - f + 1 /\ \A i \in 1 .. n - f + 1 : y[i] = r[f + i - 1]
      BY <2>1, <1>1, SubSeqFacts
    <2>4. Len(y) = Len(X) /\ \A i \in 1 .. Len(y) : y[i] = X[i]
      BY <2>2, <2>3, <1>8
    <2>. HIDE DEF y
    <2>5. y = X
      BY <2>2, <2>4, SeqEqual
    <2>. QED BY <2>5 DEF y, f, n
  <1>9. SubSeq(r, 1, a) = A
    <2>1. 0 \in Nat /\ 0 + Len(A) = a /\ 0 + 1 = 1 /\ 0 + Len(A) <= Len(r) /\ \A i \in 1 .. Len(A) : 0 + i = i
      BY <1>1, <1>2
    <2>2. \A i \in 1 .. Len(A) : r[0 + i] = A[i]
      BY <2>1, <1>1
    <2>3. SubSeq(r, 0 + 1, 0 + Len(A)) = A
      BY <2>1, <2>2, <1>8
    <2>. QED BY <2>1, <2>3
  <1>10. SubSeq(r, e + 1, b) = C
    <2>1. e + Len(C) <= Len(r) /\ b = e + Len(C) /\ e \in Nat /\ \A i \in 1 .. Len(C) : r[e + i] = C[i]
      BY <1>1, <1>2
    <2>. QED BY <2>1, <1>8
  <1>11. SubSeq(r, d + 1, Len(r)) = D
    <2>1. d + Len(D) <= Len(r) /\ Len(r) = d + Len(D) /\ d \in Nat /\ \A i \in 1 .. Len(D) : r[d + i] = D[i]
      BY <1>1, <1>2
    <2>. QED BY <2>1, <1>8
  <1>. QED BY <1>7, <1>9, <1>10, <1>11 DEF Rejoined

(* The block of some statements or entries. *)
LEMMA BlockFacts ==
  ASSUME NEW kinds \in Seq(Statement \cup {"e1", "e2"})
  PROVE  /\ Block(kinds) \in Seq(Line) /\ Len(Block(kinds)) = Len(kinds) + 2
         /\ Block(kinds)[1] = Mine("begin") /\ Block(kinds)[Len(kinds) + 2] = Mine("end")
         /\ \A i \in 1 .. Len(kinds) : Block(kinds)[i + 1] = Mine(kinds[i])
         /\ \A p : (p = "pf.conf" => Len(kinds) <= 2) => Whole(p, Block(kinds))
  <1>. DEFINE n == Len(kinds)
              m == [i \in 1 .. n |-> Mine(kinds[i])]
              x == <<Mine("begin")>>
              z == <<Mine("end")>>
              xm == x \o m
              B == xm \o z
  <1>1. n \in Nat /\ \A i \in 1 .. n : kinds[i] \in Statement \cup {"e1", "e2"}
    OBVIOUS
  <1>2. Mine("begin") \in Line /\ Mine("end") \in Line /\ \A k \in Statement \cup {"e1", "e2"} : Mine(k) \in Line
    BY DEF Line, Mine, Marker
  <1>3. x \in Seq(Line) /\ Len(x) = 1 /\ x[1] = Mine("begin") /\ z \in Seq(Line) /\ Len(z) = 1 /\ z[1] = Mine("end")
    BY <1>2
  <1>4. m \in Seq(Line) /\ Len(m) = n /\ \A i \in 1 .. n : m[i] = Mine(kinds[i])
    <2>1. \A i \in 1 .. n : Mine(kinds[i]) \in Line
      BY <1>1, <1>2
    <2>. HIDE DEF n
    <2>. QED BY <1>1, <2>1
  <1>5. B = Block(kinds)
    BY DEF Block
  <1>. HIDE DEF m, x, z, n
  <1>6. xm \in Seq(Line) /\ Len(xm) = 1 + n /\ \A i \in 1 .. 1 + n : xm[i] = IF i <= 1 THEN x[i] ELSE m[i - 1]
    <2>1. xm \in Seq(Line) /\ Len(xm) = Len(x) + Len(m)
          /\ \A i \in 1 .. Len(x) + Len(m) : xm[i] = IF i <= Len(x) THEN x[i] ELSE m[i - Len(x)]
      BY <1>3, <1>4, ConcatProperties
    <2>. HIDE DEF xm
    <2>. QED BY <2>1, <1>3, <1>4
  <1>. HIDE DEF xm
  <1>7. B \in Seq(Line) /\ Len(B) = n + 2 /\ \A i \in 1 .. n + 2 : B[i] = IF i <= n + 1 THEN xm[i] ELSE z[i - (n + 1)]
    <2>1. B \in Seq(Line) /\ Len(B) = Len(xm) + Len(z)
          /\ \A i \in 1 .. Len(xm) + Len(z) : B[i] = IF i <= Len(xm) THEN xm[i] ELSE z[i - Len(xm)]
      <3>1. xm \in Seq(Line) /\ z \in Seq(Line)
        BY <1>3, <1>6
      <3>. QED BY <3>1, ConcatProperties
    <2>. HIDE DEF B
    <2>. QED BY <2>1, <1>1, <1>3, <1>6
  <1>. HIDE DEF B
  <1>8. B[1] = Mine("begin")
    BY <1>1, <1>3, <1>6, <1>7
  <1>9. B[n + 2] = Mine("end")
    <2>1. n + 2 \in 1 .. n + 2 /\ ~(n + 2 <= n + 1) /\ (n + 2) - (n + 1) = 1
      BY <1>1
    <2>. QED BY <2>1, <1>3, <1>7
  <1>10. ASSUME NEW i \in 1 .. n PROVE B[i + 1] = Mine(kinds[i])
    <2>1. i + 1 \in 1 .. n + 2 /\ i + 1 <= n + 1 /\ i + 1 \in 1 .. 1 + n /\ ~(i + 1 <= 1) /\ (i + 1) - 1 = i
      BY <1>1
    <2>. QED BY <2>1, <1>4, <1>6, <1>7
  <1>11. ASSUME NEW p, p = "pf.conf" => n <= 2 PROVE Whole(p, B)
    <2>1. Len(B) >= 2 /\ (p = "pf.conf" => Len(B) <= 4)
      BY <1>1, <1>7, <1>11
    <2>2. B[1].kind = "begin" /\ B[Len(B)].kind = "end"
      BY <1>7, <1>8, <1>9 DEF Mine
    <2>3. ASSUME NEW i \in 2 .. Len(B) - 1 PROVE B[i].kind \notin Marker
      <3>1. i - 1 \in 1 .. n /\ (i - 1) + 1 = i
        BY <1>1, <1>7
      <3>2. B[i] = Mine(kinds[i - 1]) /\ kinds[i - 1] \in Statement \cup {"e1", "e2"}
        <4>1. kinds[i - 1] \in Statement \cup {"e1", "e2"}
          BY <3>1, <1>1
        <4>. QED BY <3>1, <4>1, <1>10
      <3>. QED BY <3>2 DEF Mine, Marker, Statement
    <2>. QED BY <2>1, <2>2, <2>3 DEF Whole
  <1>. QED BY <1>5, <1>7, <1>8, <1>9, <1>10, <1>11 DEF n

(* The first line of a section is in it, and no line before. *)
LEMMA FirstOfFacts ==
  ASSUME NEW s \in Seq(Line), NEW K
  PROVE  /\ FirstOf(s, K) \in 0 .. Len(s)
         /\ FirstOf(s, K) = 0 => \A i \in 1 .. Len(s) : s[i].kind \notin K
         /\ FirstOf(s, K) # 0 => s[FirstOf(s, K)].kind \in K
                                 /\ \A i \in 1 .. FirstOf(s, K) - 1 : s[i].kind \notin K
  <1>. DEFINE at == {i \in 1 .. Len(s) : s[i].kind \in K}
  <1>1. FirstOf(s, K) = IF at = {} THEN 0 ELSE Min(at)
    BY DEF FirstOf
  <1>2. at # {} => Min(at) \in at /\ \A i \in at : Min(at) <= i
    <2>1. at \in SUBSET Nat
      OBVIOUS
    <2>. HIDE DEF at
    <2>. QED BY <2>1, MinFacts
  <1>3. CASE at = {}
    BY <1>1, <1>3
  <1>4. CASE at # {}
    <2>1. Min(at) \in 1 .. Len(s) /\ s[Min(at)].kind \in K /\ FirstOf(s, K) = Min(at)
      BY <1>1, <1>2, <1>4
    <2>2. ASSUME NEW i \in 1 .. Min(at) - 1, s[i].kind \in K PROVE FALSE
      <3>1. i \in at
        BY <2>1, <2>2
      <3>2. Min(at) <= i
        BY <3>1, <1>2
      <3>. QED BY <3>2, <2>1, <2>2
    <2>. HIDE DEF at
    <2>. QED BY <2>1, <2>2
  <1>. QED BY <1>3, <1>4

\* r is base with our statements put in after its line a, or the first of them
\* there and the second after line b.
Shaped(base, r, a, b, B, E) ==
    /\ a \in 0 .. Len(base) /\ b \in a .. Len(base)
    /\ r = (((SubSeq(base, 1, a) \o B) \o SubSeq(base, a + 1, b)) \o E) \o SubSeq(base, b + 1, Len(base))
    /\ \A i \in 1 .. a : base[i].kind \notin {"nat", "pass"}
    /\ \/ /\ B = Block(<<"rdr", "anchor">>) /\ E = <<>> /\ b = Len(base)
          /\ \/ a = b
             \/ base[a + 1].kind = "pass"
             \/ base[a + 1].kind = "nat" /\ \A i \in 1 .. Len(base) : base[i].kind # "pass"
       \/ /\ B = Block(<<"rdr">>) /\ E = Block(<<"anchor">>) /\ a < b /\ b < Len(base)
          /\ base[a + 1].kind = "nat" /\ base[b + 1].kind = "pass"
          /\ \A i \in a + 1 .. b : base[i].kind # "pass"

\* The lines of r, those of base shifted by what was put in before them.
Placed(base, r, a, b, B, E) ==
    /\ Len(r) = Len(base) + Len(B) + Len(E)
    /\ \A i \in 1 .. a : r[i] = base[i]
    /\ \A i \in 1 .. Len(B) : r[a + i] = B[i]
    /\ \A i \in a + 1 .. b : r[Len(B) + i] = base[i]
    /\ \A i \in 1 .. Len(E) : r[b + Len(B) + i] = E[i]
    /\ \A i \in b + 1 .. Len(base) : r[Len(B) + Len(E) + i] = base[i]

(* What is put in can be taken out, and each line is where it should be. *)
LEMMA ShapeFacts ==
  ASSUME NEW base \in Seq(Line), AllClean(base),
         NEW r, NEW a, NEW b, NEW B, NEW E, Shaped(base, r, a, b, B, E)
  PROVE  /\ r \in Seq(Line) /\ r # <<>>
         /\ Strip("pf.conf", r) = base
         /\ Placed(base, r, a, b, B, E)
  <1>. DEFINE A == SubSeq(base, 1, a)
              C == SubSeq(base, a + 1, b)
              D == SubSeq(base, b + 1, Len(base))
  <1>1. a \in 0 .. Len(base) /\ b \in a .. Len(base) /\ Len(base) \in Nat /\ r = (((A \o B) \o C) \o E) \o D
    BY DEF Shaped
  <1>2. B \in Seq(Line) /\ Len(B) >= 2 /\ Whole("pf.conf", B) /\ E \in Seq(Line) /\ (E = <<>> \/ Whole("pf.conf", E))
    <2>1. ASSUME NEW kinds \in Seq(Statement \cup {"e1", "e2"}), Len(kinds) <= 2
          PROVE  Block(kinds) \in Seq(Line) /\ Whole("pf.conf", Block(kinds))
      BY <2>1, BlockFacts
    <2>2. /\ <<"rdr", "anchor">> \in Seq(Statement \cup {"e1", "e2"}) /\ Len(<<"rdr", "anchor">>) <= 2
          /\ <<"rdr">> \in Seq(Statement \cup {"e1", "e2"}) /\ Len(<<"rdr">>) <= 2
          /\ <<"anchor">> \in Seq(Statement \cup {"e1", "e2"}) /\ Len(<<"anchor">>) <= 2
      BY DEF Statement
    <2>3. <<>> \in Seq(Line)
      OBVIOUS
    <2>4. B \in Seq(Line) /\ Whole("pf.conf", B) /\ E \in Seq(Line) /\ (E = <<>> \/ Whole("pf.conf", E))
      BY <2>1, <2>2, <2>3 DEF Shaped
    <2>. QED BY <2>4 DEF Whole
  <1>3. /\ A \in Seq(Line) /\ Len(A) = a /\ \A i \in 1 .. a : A[i] = base[i]
    <2>1. 1 \in 1 .. Len(base) + 1 /\ a \in 1 - 1 .. Len(base) /\ a - 1 + 1 = a /\ \A i \in 1 .. a : 1 + i - 1 = i
      BY <1>1
    <2>. QED BY <2>1, SubSeqFacts
  <1>4. /\ C \in Seq(Line) /\ Len(C) = b - a /\ \A i \in 1 .. b - a : C[i] = base[a + i]
    <2>1. a + 1 \in 1 .. Len(base) + 1 /\ b \in (a + 1) - 1 .. Len(base) /\ b - (a + 1) + 1 = b - a
          /\ \A i \in 1 .. b - a : (a + 1) + i - 1 = a + i
      BY <1>1
    <2>. QED BY <2>1, SubSeqFacts
  <1>5. /\ D \in Seq(Line) /\ Len(D) = Len(base) - b /\ \A i \in 1 .. Len(base) - b : D[i] = base[b + i]
    <2>1. b + 1 \in 1 .. Len(base) + 1 /\ Len(base) \in (b + 1) - 1 .. Len(base) /\ Len(base) - (b + 1) + 1 = Len(base) - b
          /\ \A i \in 1 .. Len(base) - b : (b + 1) + i - 1 = b + i
      BY <1>1
    <2>. QED BY <2>1, SubSeqFacts
  <1>6. (A \o C) \o D = base
    <2>1. A \o C = SubSeq(base, 1, b)
      <3>1. 1 \in 1 .. Len(base) + 1 /\ a \in 1 - 1 .. Len(base) /\ b \in a .. Len(base)
        BY <1>1
      <3>. QED BY <3>1, ConcatAdjacentSubSeq
    <2>2. SubSeq(base, 1, b) \o D = SubSeq(base, 1, Len(base))
      <3>1. 1 \in 1 .. Len(base) + 1 /\ b \in 1 - 1 .. Len(base) /\ Len(base) \in b .. Len(base)
        BY <1>1
      <3>. QED BY <3>1, ConcatAdjacentSubSeq
    <2>3. SubSeq(base, 1, Len(base)) = base
      BY SubSeqFull
    <2>. QED BY <2>1, <2>2, <2>3
  <1>. HIDE DEF A, C, D
  <1>. DEFINE e == a + Len(B)
              c == e + Len(C)
              d == c + Len(E)
  <1>8. e = a + Len(B) /\ c = e + Len(C) /\ d = c + Len(E)
    OBVIOUS
  <1>. HIDE DEF e, c, d
  <1>9. Laid(r, Line, A, a, B, e, C, c, E, d, D)
    BY <1>1, <1>2, <1>3, <1>4, <1>5, <1>8, FiveParts
  <1>7. Strip("pf.conf", r) = base
    <2>1. AllClean(A)
      BY <1>1, <1>3 DEF AllClean
    <2>2. AllClean(C)
      <3>1. \A i \in 1 .. b - a : a + i \in 1 .. Len(base)
        BY <1>1
      <3>. QED BY <3>1, <1>4 DEF AllClean
    <2>3. AllClean(D)
      <3>1. \A i \in 1 .. Len(base) - b : b + i \in 1 .. Len(base)
        BY <1>1
      <3>. QED BY <3>1, <1>5 DEF AllClean
    <2>4. A \in Seq(Line) /\ B \in Seq(Line) /\ C \in Seq(Line) /\ E \in Seq(Line) /\ D \in Seq(Line)
      BY <1>2, <1>3, <1>4, <1>5
    <2>5. Whole("pf.conf", B) /\ (E = <<>> \/ Whole("pf.conf", E))
      BY <1>2
    <2>6. Rejoined(Strip("pf.conf", r), A, C, D)
      BY <2>1, <2>2, <2>3, <2>4, <2>5, <1>9, StripPut
    <2>. QED BY <2>6, <1>6 DEF Rejoined
  <1>10. /\ r \in Seq(Line) /\ Len(r) = d + Len(D)
         /\ \A i \in 1 .. Len(A) : r[i] = A[i]
         /\ \A i \in 1 .. Len(B) : r[a + i] = B[i]
         /\ \A i \in 1 .. Len(C) : r[e + i] = C[i]
         /\ \A i \in 1 .. Len(E) : r[c + i] = E[i]
         /\ \A i \in 1 .. Len(D) : r[d + i] = D[i]
    BY <1>9 DEF Laid
  <1>11. Len(B) \in Nat /\ Len(E) \in Nat
    BY <1>2
  <1>a. /\ Len(A) = a /\ Len(C) = b - a /\ Len(D) = Len(base) - b
        /\ a \in Nat /\ b \in Nat /\ Len(base) \in Nat /\ a <= b /\ b <= Len(base)
    BY <1>1, <1>3, <1>4, <1>5
  <1>12. Len(r) = Len(base) + Len(B) + Len(E)
    <2>1. Len(r) = d + Len(D)
      BY <1>10
    <2>. QED BY <2>1, <1>a, <1>8, <1>11
  <1>13. \A i \in 1 .. a : r[i] = base[i]
    BY <1>3, <1>10
  <1>14. ASSUME NEW i \in a + 1 .. b PROVE r[Len(B) + i] = base[i]
    <2>1. i - a \in 1 .. Len(C) /\ i - a \in 1 .. b - a /\ e + (i - a) = Len(B) + i /\ a + (i - a) = i
      BY <1>a, <1>8, <1>11
    <2>. QED BY <2>1, <1>4, <1>10
  <1>15. ASSUME NEW i \in 1 .. Len(E) PROVE r[b + Len(B) + i] = E[i]
    <2>1. c = b + Len(B)
      BY <1>a, <1>8, <1>11
    <2>. QED BY <2>1, <1>10
  <1>16. ASSUME NEW i \in b + 1 .. Len(base) PROVE r[Len(B) + Len(E) + i] = base[i]
    <2>1. i - b \in 1 .. Len(D) /\ i - b \in 1 .. Len(base) - b /\ d + (i - b) = Len(B) + Len(E) + i /\ b + (i - b) = i
      BY <1>a, <1>8, <1>11
    <2>. QED BY <2>1, <1>5, <1>10
  <1>17. Placed(base, r, a, b, B, E)
    BY <1>10, <1>12, <1>13, <1>14, <1>15, <1>16 DEF Placed
  <1>18. r # <<>>
    <2>1. Len(r) >= 2
      BY <1>1, <1>2, <1>11, <1>12
    <2>. QED BY <2>1
  <1>. QED BY <1>7, <1>10, <1>17, <1>18

(* Where planPfConf puts the statements. *)
LEMMA PlanShape ==
  ASSUME NEW s \in Seq(Line)
  PROVE  /\ Plan(s) = [lines |-> Plan(s).lines, newline |-> TRUE]
         /\ \E a, b, B, E : Shaped(Strip("pf.conf", s), Plan(s).lines, a, b, B, E)
  <1>. DEFINE base == Strip("pf.conf", s)
              N == Len(base)
              at == InsertPoints(base)
              t == FirstOf(base, {"nat", "rdr"})
              f == FirstOf(base, {"pass", "anchor"})
              both == Block(<<"rdr", "anchor">>)
              Part(i, j) == SubSeq(base, i, j)
              one == base \o both
              two == Part(1, at.trans - 1) \o both \o Part(at.trans, N)
              three == Part(1, at.trans - 1) \o Block(<<"rdr">>) \o Part(at.trans, at.filter - 1)
                           \o Block(<<"anchor">>) \o Part(at.filter, N)
              r == CASE at.trans = 0 -> one
                     [] at.trans # 0 /\ at.trans = at.filter -> two
                     [] OTHER -> three
  <1>1. Plan(s) = Join(r, TRUE)
    BY DEF Plan
  <1>2. base \in Seq(Line) /\ \A i \in 1 .. N : base[i].kind \notin {"rdr", "anchor"}
    BY StripFacts DEF Clean, Statement
  <1>3. N \in Nat
    BY <1>2
  <1>4. /\ t \in 0 .. N /\ f \in 0 .. N
        /\ t = 0 => \A i \in 1 .. N : base[i].kind # "nat"
        /\ f = 0 => \A i \in 1 .. N : base[i].kind # "pass"
        /\ t # 0 => base[t].kind = "nat" /\ \A i \in 1 .. t - 1 : base[i].kind # "nat"
        /\ f # 0 => base[f].kind = "pass" /\ \A i \in 1 .. f - 1 : base[i].kind # "pass"
    <2>1. t \in 0 .. N /\ (t = 0 => \A i \in 1 .. N : base[i].kind \notin {"nat", "rdr"})
          /\ (t # 0 => base[t].kind \in {"nat", "rdr"} /\ \A i \in 1 .. t - 1 : base[i].kind \notin {"nat", "rdr"})
      BY <1>2, FirstOfFacts
    <2>2. f \in 0 .. N /\ (f = 0 => \A i \in 1 .. N : base[i].kind \notin {"pass", "anchor"})
          /\ (f # 0 => base[f].kind \in {"pass", "anchor"} /\ \A i \in 1 .. f - 1 : base[i].kind \notin {"pass", "anchor"})
      BY <1>2, FirstOfFacts
    <2>. HIDE DEF base, t, f
    <2>. QED BY <2>1, <2>2, <1>2, <1>3
  <1>5. at = CASE f = 0 -> [trans |-> t, filter |-> t]
               [] f # 0 /\ (t = 0 \/ t > f) -> [trans |-> f, filter |-> f]
               [] OTHER -> [trans |-> t, filter |-> f]
    BY DEF InsertPoints
  <1>6. both \in Seq(Line)
    <2>1. <<"rdr", "anchor">> \in Seq(Statement \cup {"e1", "e2"})
      BY DEF Statement
    <2>. QED BY <2>1, BlockFacts
  <1>. HIDE DEF base, at, t, f, both
  <1>. DEFINE Some(x) == \E a, b, B, E : Shaped(base, x, a, b, B, E)
  <1>7. ASSUME NEW i \in 1 .. N PROVE SubSeq(base, 1, i - 1) \in Seq(Line) /\ SubSeq(base, i, N) \in Seq(Line)
    BY <1>2, <1>3, SubSeqFacts
  <1>8. SubSeq(base, N + 1, N) = <<>> /\ SubSeq(base, 1, N) = base
    BY <1>2, <1>3, SubSeqEmpty, SubSeqFull
  <1>9. \A x \in Seq(Line) : x \o <<>> = x
    BY ConcatEmptySeq
  <1>. HIDE DEF two, three
  <1>10. ASSUME t = 0, f = 0 PROVE Some(r)
    <2>1. at.trans = 0
      BY <1>5, <1>10
    <2>2. r = one
      BY <2>1
    <2>. DEFINE w == (((SubSeq(base, 1, N) \o both) \o SubSeq(base, N + 1, N)) \o <<>>) \o SubSeq(base, N + 1, N)
    <2>3. one = w
      <3>1. base \o both \in Seq(Line)
        BY <1>2, <1>6
      <3>2. w = ((one \o <<>>) \o <<>>) \o <<>>
        BY <1>8
      <3>. QED BY <3>1, <3>2, <1>9
    <2>. HIDE DEF w, one
    <2>4. Shaped(base, w, N, N, both, <<>>)
      BY <1>3, <1>4, <1>10 DEF Shaped, both, w
    <2>. QED BY <2>2, <2>3, <2>4
  <1>11. ASSUME NEW i \in 1 .. N, at.trans = i, at.filter = i, \A j \in 1 .. i - 1 : base[j].kind \notin {"nat", "pass"},
                base[i].kind = "pass" \/ (base[i].kind = "nat" /\ \A j \in 1 .. N : base[j].kind # "pass")
         PROVE  Some(r)
    <2>1. r = (SubSeq(base, 1, i - 1) \o both) \o SubSeq(base, i, N)
      <3>1. at.trans # 0
        BY <1>3, <1>11
      <3>2. r = two
        BY <3>1, <1>11
      <3>3. two = (SubSeq(base, 1, i - 1) \o both) \o SubSeq(base, i, N)
        BY <1>11 DEF two
      <3>. QED BY <3>2, <3>3
    <2>. DEFINE w == (((SubSeq(base, 1, i - 1) \o both) \o SubSeq(base, (i - 1) + 1, N)) \o <<>>) \o SubSeq(base, N + 1, N)
    <2>2. r = w
      <3>1. (SubSeq(base, 1, i - 1) \o both) \o SubSeq(base, i, N) \in Seq(Line)
        BY <1>6, <1>7
      <3>2. w = (r \o <<>>) \o <<>>
        <4>1. (i - 1) + 1 = i
          OBVIOUS
        <4>. HIDE DEF r
        <4>. QED BY <4>1, <1>8, <2>1
      <3>. HIDE DEF r
      <3>. QED BY <3>1, <3>2, <2>1, <1>9
    <2>. HIDE DEF w, r
    <2>3. i - 1 \in 0 .. N /\ N \in i - 1 .. N /\ (i - 1) + 1 = i
      BY <1>3
    <2>4. Shaped(base, w, i - 1, N, both, <<>>)
      BY <1>11, <2>3 DEF Shaped, both, w
    <2>. QED BY <2>2, <2>4
  <1>12. ASSUME f = 0, t # 0 PROVE Some(r)
    <2>1. at.trans = t /\ at.filter = t
      BY <1>5, <1>12
    <2>2. t \in 1 .. N /\ t - 1 <= N
      BY <1>3, <1>4, <1>12
    <2>3. \A j \in 1 .. t - 1 : base[j].kind \notin {"nat", "pass"}
      BY <1>3, <1>4, <1>12
    <2>. HIDE DEF r
    <2>. QED BY <2>1, <2>2, <2>3, <1>4, <1>11, <1>12
  <1>13. ASSUME f # 0, t = 0 \/ t > f PROVE Some(r)
    <2>1. at.trans = f /\ at.filter = f
      BY <1>5, <1>13
    <2>2. f \in 1 .. N
      BY <1>3, <1>4, <1>13
    <2>3. \A j \in 1 .. f - 1 : base[j].kind \notin {"nat", "pass"}
      BY <1>3, <1>4, <1>13
    <2>. HIDE DEF r
    <2>. QED BY <2>1, <2>2, <2>3, <1>4, <1>11, <1>13
  <1>14. ASSUME f # 0, t # 0, t <= f PROVE Some(r)
    <2>1. t # f
      BY <1>4, <1>14
    <2>2. at.trans = t /\ at.filter = f
      BY <1>4, <1>5, <1>14
    <2>3. r = three
      BY <2>1, <2>2, <1>14
    <2>4. t - 1 \in 0 .. N /\ f - 1 \in t - 1 .. N /\ (t - 1) + 1 = t /\ (f - 1) + 1 = f /\ t - 1 < f - 1 /\ f - 1 < N
      BY <2>1, <1>3, <1>4, <1>14
    <2>5. \A j \in 1 .. t - 1 : base[j].kind \notin {"nat", "pass"}
      BY <1>3, <1>4, <1>14
    <2>6. \A j \in t .. f - 1 : base[j].kind # "pass"
      BY <1>3, <1>4, <1>14
    <2>. HIDE DEF r
    <2>7. Shaped(base, three, t - 1, f - 1, Block(<<"rdr">>), Block(<<"anchor">>))
      BY <2>2, <2>4, <2>5, <2>6, <1>4, <1>14 DEF Shaped, three
    <2>. QED BY <2>3, <2>7
  <1>15. Some(r)
    <2>1. t \in Nat /\ f \in Nat
      BY <1>3, <1>4
    <2>. HIDE DEF r
    <2>. QED BY <2>1, <1>10, <1>12, <1>13, <1>14
  <1>16. PICK a, b, B, E : Shaped(base, r, a, b, B, E)
    BY <1>15
  <1>. HIDE DEF r
  <1>17. r # <<>>
    <2>1. AllClean(base)
      BY StripFacts DEF base, AllClean
    <2>. QED BY <2>1, <1>2, <1>16, ShapeFacts
  <1>18. Join(r, TRUE) = [lines |-> r, newline |-> TRUE]
    BY <1>17 DEF Join
  <1>19. Plan(s) = [lines |-> r, newline |-> TRUE] /\ Plan(s).lines = r
    <2>1. Plan(s) = [lines |-> r, newline |-> TRUE]
      BY <1>1, <1>18, Zenon
    <2>. QED BY <2>1
  <1>20. Some(Plan(s).lines)
    BY <1>15, <1>19
  <1>. QED BY <1>19, <1>20 DEF base

(* The blocks of planPfConf, line by line. *)
LEMMA BlockLines ==
  /\ LET B == Block(<<"rdr", "anchor">>)
     IN Len(B) = 4 /\ B[1] = Mine("begin") /\ B[2] = Mine("rdr") /\ B[3] = Mine("anchor") /\ B[4] = Mine("end")
  /\ LET B == Block(<<"rdr">>)
     IN Len(B) = 3 /\ B[1] = Mine("begin") /\ B[2] = Mine("rdr") /\ B[3] = Mine("end")
  /\ LET B == Block(<<"anchor">>)
     IN Len(B) = 3 /\ B[1] = Mine("begin") /\ B[2] = Mine("anchor") /\ B[3] = Mine("end")
  <1>1. ASSUME NEW k, k = <<"rdr", "anchor">>
        PROVE  LET B == Block(k)
               IN Len(B) = 4 /\ B[1] = Mine("begin") /\ B[2] = Mine("rdr") /\ B[3] = Mine("anchor") /\ B[4] = Mine("end")
    <2>1. k \in Seq(Statement \cup {"e1", "e2"}) /\ Len(k) = 2 /\ k[1] = "rdr" /\ k[2] = "anchor"
      BY <1>1 DEF Statement
    <2>2. Len(Block(k)) = Len(k) + 2 /\ Block(k)[1] = Mine("begin") /\ Block(k)[Len(k) + 2] = Mine("end")
          /\ \A i \in 1 .. Len(k) : Block(k)[i + 1] = Mine(k[i])
      BY <2>1, BlockFacts
    <2>. HIDE <1>1
    <2>. QED BY <2>1, <2>2
  <1>2. ASSUME NEW k, k = <<"rdr">>
        PROVE  LET B == Block(k) IN Len(B) = 3 /\ B[1] = Mine("begin") /\ B[2] = Mine("rdr") /\ B[3] = Mine("end")
    <2>1. k \in Seq(Statement \cup {"e1", "e2"}) /\ Len(k) = 1 /\ k[1] = "rdr"
      BY <1>2 DEF Statement
    <2>2. Len(Block(k)) = Len(k) + 2 /\ Block(k)[1] = Mine("begin") /\ Block(k)[Len(k) + 2] = Mine("end")
          /\ \A i \in 1 .. Len(k) : Block(k)[i + 1] = Mine(k[i])
      BY <2>1, BlockFacts
    <2>. QED BY <2>1, <2>2
  <1>3. ASSUME NEW k, k = <<"anchor">>
        PROVE  LET B == Block(k) IN Len(B) = 3 /\ B[1] = Mine("begin") /\ B[2] = Mine("anchor") /\ B[3] = Mine("end")
    <2>1. k \in Seq(Statement \cup {"e1", "e2"}) /\ Len(k) = 1 /\ k[1] = "anchor"
      BY <1>3 DEF Statement
    <2>2. Len(Block(k)) = Len(k) + 2 /\ Block(k)[1] = Mine("begin") /\ Block(k)[Len(k) + 2] = Mine("end")
          /\ \A i \in 1 .. Len(k) : Block(k)[i + 1] = Mine(k[i])
      BY <2>1, BlockFacts
    <2>. QED BY <2>1, <2>2
  <1>. QED BY <1>1, <1>2, <1>3

(* A patched pf.conf strips to what the file did: a second patch is the first. *)
LEMMA PlanFacts ==
  ASSUME NEW s \in Seq(Line)
  PROVE  /\ Plan(s) \in Text /\ Plan(s).newline = TRUE
         /\ Strip("pf.conf", Plan(s).lines) = Strip("pf.conf", s)
         /\ Plan(Plan(s).lines) = Plan(s)
  <1>. DEFINE base == Strip("pf.conf", s)
              r == Plan(s).lines
  <1>1. base \in Seq(Line) /\ AllClean(base)
    BY StripFacts DEF AllClean
  <1>2. Plan(s) = [lines |-> r, newline |-> TRUE]
    BY PlanShape
  <1>3. PICK a, b, B, E : Shaped(base, r, a, b, B, E)
    BY PlanShape
  <1>4. r \in Seq(Line) /\ Strip("pf.conf", r) = base
    <2>. HIDE DEF base, r
    <2>. QED BY <1>1, <1>3, ShapeFacts
  <1>5. Plan(r) = Plan(s)
    BY <1>4 DEF Plan
  <1>6. Plan(s) \in Text /\ Plan(s).newline = TRUE
    <2>. HIDE DEF r
    <2>. QED BY <1>2, <1>4 DEF Text
  <1>. QED BY <1>4, <1>5, <1>6

\* Line i of r is one of a part of base or of a block.
Comes(i, r, base, a, b, B, E) ==
    \/ i <= a /\ i \in 1 .. Len(base) /\ r[i] = base[i]
    \/ i - a \in 1 .. Len(B) /\ r[i] = B[i - a]
    \/ i - Len(B) \in a + 1 .. b /\ r[i] = base[i - Len(B)]
    \/ i - (b + Len(B)) \in 1 .. Len(E) /\ r[i] = E[i - (b + Len(B))]
    \/ i - (Len(B) + Len(E)) \in b + 1 .. Len(base) /\ r[i] = base[i - (Len(B) + Len(E))]

(* Each line of a patched file comes from one of its five parts. *)
LEMMA PartOf ==
  ASSUME NEW base \in Seq(Line), NEW r \in Seq(Line), NEW a \in 0 .. Len(base), NEW b \in a .. Len(base),
         NEW B \in Seq(Line), NEW E \in Seq(Line), Placed(base, r, a, b, B, E), NEW i \in 1 .. Len(r)
  PROVE  Comes(i, r, base, a, b, B, E)
  <1>. DEFINE l == Len(B)
              m == Len(E)
              n == Len(base)
  <1>1. l \in Nat /\ m \in Nat /\ n \in Nat
    OBVIOUS
  <1>2. /\ Len(r) = n + l + m
        /\ \A j \in 1 .. a : r[j] = base[j]
        /\ \A j \in 1 .. l : r[a + j] = B[j]
        /\ \A j \in a + 1 .. b : r[l + j] = base[j]
        /\ \A j \in 1 .. m : r[b + l + j] = E[j]
        /\ \A j \in b + 1 .. n : r[l + m + j] = base[j]
    BY DEF Placed
  <1>3. i \in 1 .. n + l + m /\ a \in 0 .. n /\ b \in a .. n
    BY <1>2
  <1>. HIDE DEF l, m, n
  <1>4. CASE i <= a
    BY <1>1, <1>2, <1>3, <1>4 DEF n, Comes
  <1>5. CASE i > a /\ i <= a + l
    <2>1. i - a \in 1 .. l /\ a + (i - a) = i
      BY <1>1, <1>3, <1>5
    <2>. QED BY <2>1, <1>2 DEF l, Comes
  <1>6. CASE i > a + l /\ i <= b + l
    <2>1. i - l \in a + 1 .. b /\ l + (i - l) = i
      BY <1>1, <1>3, <1>6
    <2>. QED BY <2>1, <1>2 DEF l, Comes
  <1>7. CASE i > b + l /\ i <= b + l + m
    <2>1. i - (b + l) \in 1 .. m /\ b + l + (i - (b + l)) = i
      BY <1>1, <1>3, <1>7
    <2>. QED BY <2>1, <1>2 DEF l, m, Comes
  <1>8. CASE i > b + l + m
    <2>1. i - (l + m) \in b + 1 .. n /\ l + m + (i - (l + m)) = i
      BY <1>1, <1>3, <1>8
    <2>. QED BY <2>1, <1>2 DEF l, m, n, Comes
  <1>9. i <= a \/ (i > a /\ i <= a + l) \/ (i > a + l /\ i <= b + l) \/ (i > b + l /\ i <= b + l + m) \/ i > b + l + m
    BY <1>1, <1>3
  <1>. QED BY <1>4, <1>5, <1>6, <1>7, <1>8, <1>9

\* In r our translation anchor is at line x, our filter anchor at line y, and
\* nothing of others comes before them.
First(r, x, y) ==
    /\ x \in 1 .. Len(r) /\ y \in 1 .. Len(r)
    /\ \A i \in 1 .. Len(r) : (r[i].kind = "rdr" <=> i = x) /\ (r[i].kind = "anchor" <=> i = y)
    /\ \A i \in 1 .. Len(r) : (r[i].kind = "nat" => x < i) /\ (r[i].kind = "pass" => y < i)

\* The ranked lines of r: those of rank 1 up to line x, of rank 2 up to line y,
\* of rank 3 after it.
Sectioned(r, x, y) ==
    \A i \in 1 .. Len(r) : Ranked(r[i]) =>
        \/ i <= x /\ Rank(r[i].kind) = 1
        \/ x < i /\ i <= y /\ Rank(r[i].kind) = 2
        \/ y < i /\ Rank(r[i].kind) = 3

\* pf's order among the lines of s.
Ascending(s) ==
    \A i, j \in 1 .. Len(s) : (i < j /\ Ranked(s[i]) /\ Ranked(s[j])) => Rank(s[i].kind) <= Rank(s[j].kind)

(* The statements of a patched file are where they work, and where they may    *)
(* be unless the file has translation rules and no filter rule.                *)
LEMMA PlacedFirst ==
  ASSUME NEW s \in Seq(Line)
  PROVE  /\ \E x, y : First(Plan(s).lines, x, y)
         /\ Ascending(Strip("pf.conf", s)) =>
               \/ \E x, y \in Nat : x <= y /\ Sectioned(Plan(s).lines, x, y)
               \/ LET base == Strip("pf.conf", s)
                  IN (\E i \in 1 .. Len(base) : base[i].kind = "nat") /\ \A i \in 1 .. Len(base) : base[i].kind # "pass"
  <1>. DEFINE base == Strip("pf.conf", s)
              r == Plan(s).lines
  <1>1. base \in Seq(Line) /\ AllClean(base)
    BY StripFacts DEF AllClean
  <1>2. PICK a, b, B, E : Shaped(base, r, a, b, B, E)
    BY PlanShape
  <1>. HIDE DEF base, r
  <1>3. r \in Seq(Line) /\ Placed(base, r, a, b, B, E)
    BY <1>1, <1>2, ShapeFacts
  <1>a. a \in 0 .. Len(base) /\ b \in a .. Len(base) /\ Len(base) \in Nat
    BY <1>1, <1>2 DEF Shaped
  <1>4. a \in 0 .. Len(base) /\ b \in a .. Len(base) /\ Len(base) \in Nat /\ \A i \in 1 .. a : base[i].kind \notin {"nat", "pass"}
    <2>1. \A i \in 1 .. a : base[i].kind \notin {"nat", "pass"}
      BY <1>2 DEF Shaped
    <2>. QED BY <2>1, <1>a
  <1>5. \A i \in 1 .. Len(base) : base[i].kind \notin {"rdr", "anchor", "begin", "end"}
    BY <1>1 DEF AllClean, Clean, Marker, Statement
  <1>6. /\ \A k : Rank(k) \in {1, 2, 3}
        /\ Rank("rdr") = 2 /\ Rank("nat") = 2 /\ Rank("anchor") = 3 /\ Rank("pass") = 3
        /\ \A k : k \notin {"nat", "rdr", "pass", "anchor"} => Rank(k) = 1
        /\ \A k : k \notin {"pass", "anchor"} => Rank(k) <= 2
    BY DEF Rank
  <1>7. \A l : (l.kind \in {"nat", "pass"} => Ranked(l)) /\ (l.kind \in {"begin", "end"} => ~Ranked(l))
    BY DEF Ranked, Marker
  <1>8. ASSUME Ascending(base), NEW m \in 1 .. Len(base), Ranked(base[m]), NEW n \in m .. Len(base), Ranked(base[n])
        PROVE  Rank(base[m].kind) <= Rank(base[n].kind)
    <2>1. m = n \/ (m < n /\ n \in 1 .. Len(base))
      OBVIOUS
    <2>. QED BY <2>1, <1>6, <1>8 DEF Ascending
  <1>. DEFINE Only == (\E i \in 1 .. Len(base) : base[i].kind = "nat") /\ \A i \in 1 .. Len(base) : base[i].kind # "pass"
              Goal == /\ \E x, y : First(r, x, y)
                      /\ Ascending(base) => (\E x, y \in Nat : x <= y /\ Sectioned(r, x, y)) \/ Only
  <1>9. ASSUME B = Block(<<"rdr", "anchor">>), E = <<>>, b = Len(base),
               \/ a = b
               \/ base[a + 1].kind = "pass"
               \/ base[a + 1].kind = "nat" /\ \A i \in 1 .. Len(base) : base[i].kind # "pass"
        PROVE  Goal
    <2>1. B \in Seq(Line) /\ E \in Seq(Line)
      <3>1. <<"rdr", "anchor">> \in Seq(Statement \cup {"e1", "e2"}) /\ <<>> \in Seq(Line)
        BY DEF Statement
      <3>. QED BY <3>1, <1>9, BlockFacts
    <2>2. Len(B) = 4 /\ B[1].kind = "begin" /\ B[2].kind = "rdr" /\ B[3].kind = "anchor" /\ B[4].kind = "end"
      BY <1>9, BlockLines DEF Mine
    <2>3. Len(E) = 0
      BY <1>9
    <2>4. ASSUME NEW i \in 1 .. Len(r)
          PROVE  \/ i <= a /\ i \in 1 .. Len(base) /\ r[i] = base[i]
                 \/ i - a \in 1 .. 4 /\ r[i] = B[i - a]
                 \/ i - 4 \in a + 1 .. Len(base) /\ r[i] = base[i - 4]
      <3>1. \/ i <= a /\ i \in 1 .. Len(base) /\ r[i] = base[i]
            \/ i - a \in 1 .. Len(B) /\ r[i] = B[i - a]
            \/ i - Len(B) \in a + 1 .. b /\ r[i] = base[i - Len(B)]
            \/ i - (b + Len(B)) \in 1 .. Len(E) /\ r[i] = E[i - (b + Len(B))]
            \/ i - (Len(B) + Len(E)) \in b + 1 .. Len(base) /\ r[i] = base[i - (Len(B) + Len(E))]
        <4>1. Comes(i, r, base, a, b, B, E)
          BY <1>1, <1>3, <1>a, <2>1, PartOf
        <4>. QED BY <4>1 DEF Comes
      <3>2. 1 .. Len(E) = {} /\ b + 1 .. Len(base) = {}
        BY <1>4, <1>9, <2>3
      <3>. QED BY <3>1, <3>2, <2>2, <1>9
    <2>5. a + 2 \in 1 .. Len(r) /\ a + 3 \in 1 .. Len(r) /\ r[a + 2].kind = "rdr" /\ r[a + 3].kind = "anchor"
      <3>1. Len(r) = Len(base) + 4 + 0 /\ \A i \in 1 .. 4 : r[a + i] = B[i]
        BY <1>3, <2>2, <2>3 DEF Placed
      <3>2. 2 \in 1 .. 4 /\ 3 \in 1 .. 4
        OBVIOUS
      <3>. QED BY <3>1, <3>2, <1>4, <2>2
    <2>6. ASSUME NEW i \in 1 .. Len(r)
          PROVE  /\ (r[i].kind = "rdr" <=> i = a + 2) /\ (r[i].kind = "anchor" <=> i = a + 3)
                 /\ (r[i].kind = "nat" => a + 2 < i) /\ (r[i].kind = "pass" => a + 3 < i)
      <3>1. CASE i <= a /\ i \in 1 .. Len(base) /\ r[i] = base[i]
        BY <3>1, <1>4, <1>5
      <3>2. CASE i - a \in 1 .. 4 /\ r[i] = B[i - a]
        <4>1. i \in {a + 1, a + 2, a + 3, a + 4}
          BY <3>2, <1>4
        <4>2. i - a \in {1, 2, 3, 4}
          BY <3>2
        <4>. QED BY <4>1, <4>2, <3>2, <2>2, <1>4
      <3>3. CASE i - 4 \in a + 1 .. Len(base) /\ r[i] = base[i - 4]
        <4>1. i > a + 4 /\ i - 4 \in 1 .. Len(base)
          BY <3>3, <1>4
        <4>. QED BY <4>1, <3>3, <1>4, <1>5
      <3>. QED BY <3>1, <3>2, <3>3, <2>4
    <2>7. First(r, a + 2, a + 3)
      BY <2>5, <2>6 DEF First
    <2>8. ASSUME Ascending(base), ~Only PROVE \E x, y \in Nat : x <= y /\ Sectioned(r, x, y)
      <3>1. a = b \/ (a + 1 \in 1 .. Len(base) /\ base[a + 1].kind = "pass")
        <4>1. a = b \/ a + 1 \in 1 .. Len(base)
          BY <1>4
        <4>. QED BY <4>1, <1>9, <2>8
      <3>2. ASSUME NEW i \in 1 .. Len(r), Ranked(r[i])
            PROVE  \/ i <= a /\ Rank(r[i].kind) = 1
                   \/ a < i /\ i <= a + 2 /\ Rank(r[i].kind) = 2
                   \/ a + 2 < i /\ Rank(r[i].kind) = 3
        <4>1. CASE i <= a /\ i \in 1 .. Len(base) /\ r[i] = base[i]
          <5>1. r[i].kind \notin {"nat", "rdr", "pass", "anchor"}
            BY <4>1, <1>4, <1>5
          <5>. QED BY <5>1, <4>1, <1>6
        <4>2. CASE i - a \in 1 .. 4 /\ r[i] = B[i - a]
          <5>1. i \in {a + 1, a + 2, a + 3, a + 4}
            BY <4>2, <1>4
          <5>2. i - a \in {1, 2, 3, 4}
            BY <4>2
          <5>3. i - a # 1 /\ i - a # 4
            BY <4>2, <3>2, <2>2, <1>7
          <5>4. CASE i - a = 2
            BY <5>4, <4>2, <2>2, <1>4, <1>6
          <5>5. CASE i - a = 3
            BY <5>5, <4>2, <2>2, <1>4, <1>6
          <5>. QED BY <5>2, <5>3, <5>4, <5>5
        <4>3. CASE i - 4 \in a + 1 .. Len(base) /\ r[i] = base[i - 4]
          <5>1. i > a + 4 /\ i - 4 \in a + 1 .. Len(base) /\ a # b
            BY <4>3, <1>4, <1>9
          <5>2. Ranked(base[a + 1])
            BY <5>1, <3>1, <1>7
          <5>3. Rank(base[a + 1].kind) <= Rank(base[i - 4].kind)
            BY <5>1, <5>2, <4>3, <3>1, <3>2, <2>8, <1>8
          <5>4. Rank(r[i].kind) = 3
            BY <5>1, <5>3, <4>3, <3>1, <1>6
          <5>. QED BY <5>1, <5>4, <1>4
        <4>. QED BY <4>1, <4>2, <4>3, <2>4
      <3>3. Sectioned(r, a, a + 2)
        BY <3>2 DEF Sectioned
      <3>4. a \in Nat /\ a + 2 \in Nat /\ a <= a + 2
        BY <1>4
      <3>. QED BY <3>3, <3>4
    <2>. HIDE DEF Only
    <2>. QED BY <2>7, <2>8
  <1>10. ASSUME B = Block(<<"rdr">>), E = Block(<<"anchor">>), a < b, b < Len(base),
                base[a + 1].kind = "nat", base[b + 1].kind = "pass",
                \A i \in a + 1 .. b : base[i].kind # "pass"
         PROVE  Goal
    <2>a. a < b /\ b < Len(base)
      BY <1>10
    <2>1. B \in Seq(Line) /\ E \in Seq(Line)
      <3>1. <<"rdr">> \in Seq(Statement \cup {"e1", "e2"}) /\ <<"anchor">> \in Seq(Statement \cup {"e1", "e2"})
        BY DEF Statement
      <3>. QED BY <3>1, <1>10, BlockFacts
    <2>2. Len(B) = 3 /\ B[1].kind = "begin" /\ B[2].kind = "rdr" /\ B[3].kind = "end"
      BY <1>10, BlockLines DEF Mine
    <2>3. Len(E) = 3 /\ E[1].kind = "begin" /\ E[2].kind = "anchor" /\ E[3].kind = "end"
      BY <1>10, BlockLines DEF Mine
    <2>4. ASSUME NEW i \in 1 .. Len(r)
          PROVE  \/ i <= a /\ i \in 1 .. Len(base) /\ r[i] = base[i]
                 \/ i - a \in 1 .. 3 /\ r[i] = B[i - a]
                 \/ i - 3 \in a + 1 .. b /\ r[i] = base[i - 3]
                 \/ i - (b + 3) \in 1 .. 3 /\ r[i] = E[i - (b + 3)]
                 \/ i - 6 \in b + 1 .. Len(base) /\ r[i] = base[i - 6]
      <3>1. \/ i <= a /\ i \in 1 .. Len(base) /\ r[i] = base[i]
            \/ i - a \in 1 .. Len(B) /\ r[i] = B[i - a]
            \/ i - Len(B) \in a + 1 .. b /\ r[i] = base[i - Len(B)]
            \/ i - (b + Len(B)) \in 1 .. Len(E) /\ r[i] = E[i - (b + Len(B))]
            \/ i - (Len(B) + Len(E)) \in b + 1 .. Len(base) /\ r[i] = base[i - (Len(B) + Len(E))]
        <4>1. Comes(i, r, base, a, b, B, E)
          BY <1>1, <1>3, <1>a, <2>1, PartOf
        <4>. QED BY <4>1 DEF Comes
      <3>. QED BY <3>1, <2>2, <2>3
    <2>5. /\ a + 2 \in 1 .. Len(r) /\ r[a + 2].kind = "rdr"
          /\ b + 5 \in 1 .. Len(r) /\ r[b + 5].kind = "anchor"
      <3>1. Len(r) = Len(base) + 3 + 3 /\ (\A i \in 1 .. 3 : r[a + i] = B[i]) /\ (\A i \in 1 .. 3 : r[b + 3 + i] = E[i])
        BY <1>3, <2>2, <2>3 DEF Placed
      <3>2. 2 \in 1 .. 3 /\ b + 3 + 2 = b + 5
        BY <1>4
      <3>. QED BY <3>1, <3>2, <1>4, <2>2, <2>3
    <2>6. ASSUME NEW i \in 1 .. Len(r)
          PROVE  /\ (r[i].kind = "rdr" <=> i = a + 2) /\ (r[i].kind = "anchor" <=> i = b + 5)
                 /\ (r[i].kind = "nat" => a + 2 < i) /\ (r[i].kind = "pass" => b + 5 < i)
      <3>1. CASE i <= a /\ i \in 1 .. Len(base) /\ r[i] = base[i]
        BY <3>1, <1>4, <1>5
      <3>2. CASE i - a \in 1 .. 3 /\ r[i] = B[i - a]
        <4>1. i \in {a + 1, a + 2, a + 3} /\ i - a \in {1, 2, 3} /\ i < b + 5
          BY <3>2, <1>a, <2>a
        <4>. QED BY <4>1, <3>2, <2>2, <1>4
      <3>3. CASE i - 3 \in a + 1 .. b /\ r[i] = base[i - 3]
        <4>1. i > a + 3 /\ i - 3 \in 1 .. Len(base) /\ i < b + 5 /\ i - 3 \in a + 1 .. b
          BY <3>3, <1>4
        <4>. QED BY <4>1, <3>3, <1>4, <1>5, <1>10
      <3>4. CASE i - (b + 3) \in 1 .. 3 /\ r[i] = E[i - (b + 3)]
        <4>1. i \in {b + 4, b + 5, b + 6} /\ i - (b + 3) \in {1, 2, 3} /\ i > a + 2
          BY SMTT(30), <3>4, <1>a, <2>a
        <4>. QED BY <4>1, <3>4, <2>3, <1>4
      <3>5. CASE i - 6 \in b + 1 .. Len(base) /\ r[i] = base[i - 6]
        <4>1. i > b + 6 /\ i - 6 \in 1 .. Len(base) /\ i > a + 2
          BY <3>5, <1>4
        <4>. QED BY <4>1, <3>5, <1>4, <1>5
      <3>. QED BY <3>1, <3>2, <3>3, <3>4, <3>5, <2>4
    <2>7. First(r, a + 2, b + 5)
      BY <2>5, <2>6 DEF First
    <2>8. ASSUME Ascending(base) PROVE \E x, y \in Nat : x <= y /\ Sectioned(r, x, y)
      <3>1. a + 1 \in 1 .. Len(base) /\ b + 1 \in 1 .. Len(base) /\ Ranked(base[a + 1]) /\ Ranked(base[b + 1])
        BY <1>4, <1>7, <1>10
      <3>2. ASSUME NEW i \in 1 .. Len(r), Ranked(r[i])
            PROVE  \/ i <= a /\ Rank(r[i].kind) = 1
                   \/ a < i /\ i <= b + 3 /\ Rank(r[i].kind) = 2
                   \/ b + 3 < i /\ Rank(r[i].kind) = 3
        <4>1. CASE i <= a /\ i \in 1 .. Len(base) /\ r[i] = base[i]
          <5>1. r[i].kind \notin {"nat", "rdr", "pass", "anchor"}
            BY <4>1, <1>4, <1>5
          <5>. QED BY <5>1, <4>1, <1>6
        <4>2. CASE i - a \in 1 .. 3 /\ r[i] = B[i - a]
          <5>1. i - a \in {1, 2, 3}
            BY <4>2
          <5>2. i - a # 1 /\ i - a # 3
            BY <4>2, <3>2, <2>2, <1>7
          <5>3. i - a = 2
            BY <5>1, <5>2
          <5>4. Rank(r[i].kind) = 2
            BY <5>3, <4>2, <2>2, <1>6
          <5>. QED BY <5>3, <5>4, <1>4, <1>10
        <4>3. CASE i - 3 \in a + 1 .. b /\ r[i] = base[i - 3]
          <5>1. i > a /\ i <= b + 3 /\ i - 3 \in a + 1 .. Len(base) /\ i - 3 \in 1 .. Len(base)
            BY <4>3, <1>4
          <5>2. Rank(base[a + 1].kind) <= Rank(base[i - 3].kind)
            BY <5>1, <4>3, <3>1, <3>2, <2>8, <1>8
          <5>3. base[i - 3].kind \notin {"pass", "anchor"}
            BY <5>1, <4>3, <1>5, <1>10
          <5>4. Rank(r[i].kind) = 2
            BY <5>2, <5>3, <4>3, <1>6, <1>10
          <5>. QED BY <5>1, <5>4
        <4>4. CASE i - (b + 3) \in 1 .. 3 /\ r[i] = E[i - (b + 3)]
          <5>1. i - (b + 3) \in {1, 2, 3}
            BY <4>4
          <5>2. i - (b + 3) # 1 /\ i - (b + 3) # 3
            BY <4>4, <3>2, <2>3, <1>7
          <5>3. i - (b + 3) = 2
            BY <5>1, <5>2
          <5>4. Rank(r[i].kind) = 3
            BY <5>3, <4>4, <2>3, <1>6
          <5>. QED BY <5>3, <5>4, <1>4
        <4>5. CASE i - 6 \in b + 1 .. Len(base) /\ r[i] = base[i - 6]
          <5>1. i > b + 3 /\ i - 6 \in b + 1 .. Len(base)
            BY <4>5, <1>4
          <5>2. Rank(base[b + 1].kind) <= Rank(base[i - 6].kind)
            BY <5>1, <4>5, <3>1, <3>2, <2>8, <1>8
          <5>3. Rank(r[i].kind) = 3
            BY <5>2, <4>5, <1>6, <1>10
          <5>. QED BY <5>1, <5>3
        <4>. QED BY <4>1, <4>2, <4>3, <4>4, <4>5, <2>4
      <3>3. Sectioned(r, a, b + 3)
        BY <3>2 DEF Sectioned
      <3>4. a \in Nat /\ b + 3 \in Nat /\ a <= b + 3
        BY <1>4
      <3>. QED BY <3>3, <3>4
    <2>. QED BY <2>7, <2>8
  <1>11. Goal
    <2>. HIDE DEF Goal
    <2>. QED BY <1>2, <1>9, <1>10 DEF Shaped
  <1>. QED BY <1>11 DEF base, r

(* The same for /etc/hosts: what an entry of the block looks like to a reader,  *)
(* and that the block comes out as it went in.                                  *)
LEMMA HostsFacts ==
  ASSUME NEW base \in Seq(Line), AllClean(base), NEW k \in Seq({"e1", "e2"})
  PROVE  LET r == base \o Block(k)
         IN /\ r \in Seq(Line) /\ r # <<>> /\ Strip("hosts", r) = base
            /\ Applied(r) = k
            /\ Cardinality({i \in 1 .. Len(r) : r[i].kind \in Marker}) = 2
  <1>. DEFINE B == Block(k)
              r == base \o B
              n == Len(base)
              m == Len(k)
  <1>1. k \in Seq(Statement \cup {"e1", "e2"}) /\ m \in Nat /\ n \in Nat /\ \A i \in 1 .. m : k[i] \in {"e1", "e2"}
    OBVIOUS
  <1>2. /\ B \in Seq(Line) /\ Len(B) = m + 2 /\ B[1] = Mine("begin") /\ B[m + 2] = Mine("end")
        /\ \A i \in 1 .. m : B[i + 1] = Mine(k[i])
    BY <1>1, BlockFacts
  <1>3. Whole("hosts", B)
    <2>1. "hosts" = "pf.conf" => m <= 2
      OBVIOUS
    <2>. QED BY <1>1, <2>1, BlockFacts
  <1>4. r \in Seq(Line) /\ Len(r) = n + Len(B) /\ \A i \in 1 .. n + Len(B) : r[i] = IF i <= n THEN base[i] ELSE B[i - n]
    <2>. HIDE DEF B
    <2>. QED BY <1>2, ConcatProperties
  <1>5. Strip("hosts", r) = base
    <2>. DEFINE a == n
                e == a + Len(B)
                b == e + Len(<<>>)
                d == b + Len(<<>>)
    <2>1. <<>> \in Seq(Line)
      OBVIOUS
    <2>2. r = (((base \o B) \o <<>>) \o <<>>) \o <<>>
      <3>. HIDE DEF B
      <3>. QED BY <1>4, ConcatEmptySeq
    <2>3. a = Len(base) /\ e = a + Len(B) /\ b = e + Len(<<>>) /\ d = b + Len(<<>>)
      OBVIOUS
    <2>. HIDE DEF B, a, e, b, d
    <2>4. Laid(r, Line, base, a, B, e, <<>>, b, <<>>, d, <<>>)
      <3>. HIDE DEF r
      <3>. QED BY <1>2, <2>1, <2>2, <2>3, FiveParts
    <2>5. AllClean(<<>>)
      BY DEF AllClean
    <2>6. Rejoined(Strip("hosts", r), base, <<>>, <<>>)
      <3>. HIDE DEF r
      <3>. QED BY <1>2, <1>3, <2>1, <2>4, <2>5, StripPut
    <2>7. (base \o <<>>) \o <<>> = base
      BY ConcatEmptySeq
    <2>. QED BY <2>6, <2>7 DEF Rejoined
  <1>. HIDE DEF B, r, n, m
  <1>6. \A i \in 1 .. n : r[i] = base[i] /\ r[i].kind \notin Marker
    <2>1. \A i \in 1 .. n : base[i].kind \notin Marker
      BY DEF AllClean, Clean, n
    <2>. QED BY <2>1, <1>1, <1>2, <1>4
  <1>7. r[n + 1].kind = "begin" /\ r[n + m + 2].kind = "end" /\ Len(r) = n + m + 2
    <2>1. /\ n + 1 \in 1 .. n + Len(B) /\ ~(n + 1 <= n) /\ (n + 1) - n = 1
          /\ n + m + 2 \in 1 .. n + Len(B) /\ ~(n + m + 2 <= n) /\ (n + m + 2) - n = m + 2
      BY <1>1, <1>2
    <2>. QED BY <2>1, <1>1, <1>2, <1>4 DEF Mine
  <1>8. \A i \in 1 .. m : r[n + 1 + i].kind = k[i] /\ k[i] \notin Marker
    <2>1. ASSUME NEW i \in 1 .. m PROVE r[n + 1 + i] = Mine(k[i])
      <3>1. n + 1 + i \in 1 .. n + Len(B) /\ ~(n + 1 + i <= n) /\ (n + 1 + i) - n = i + 1
        BY <1>1, <1>2
      <3>. QED BY <3>1, <1>2, <1>4
    <2>2. \A i \in 1 .. m : k[i] \notin Marker
      BY <1>1 DEF Marker
    <2>3. \A x : Mine(x).kind = x
      BY DEF Mine
    <2>. QED BY <2>1, <2>2, <2>3
  <1>9. \A i \in 1 .. Len(r) : r[i].kind \in Marker <=> (i = n + 1 \/ i = n + m + 2)
    <2>1. ASSUME NEW i \in 1 .. Len(r), i # n + 1, i # n + m + 2 PROVE r[i].kind \notin Marker
      <3>1. CASE i <= n
        BY <3>1, <1>6
      <3>2. CASE i > n
        <4>1. i - (n + 1) \in 1 .. m /\ n + 1 + (i - (n + 1)) = i
          BY <3>2, <2>1, <1>1, <1>7
        <4>. QED BY <4>1, <1>8
      <3>. QED BY <3>1, <3>2, <1>1
    <2>2. n + 1 \in 1 .. Len(r) /\ n + m + 2 \in 1 .. Len(r)
      BY <1>1, <1>7
    <2>. QED BY <2>1, <2>2, <1>7 DEF Marker
  <1>10. Cardinality({i \in 1 .. Len(r) : r[i].kind \in Marker}) = 2
    <2>. DEFINE M == {i \in 1 .. Len(r) : r[i].kind \in Marker}
    <2>0. n + 1 \in 1 .. Len(r) /\ n + m + 2 \in 1 .. Len(r) /\ n + 1 # n + m + 2
      BY <1>1, <1>7
    <2>1. M = {n + 1, n + m + 2}
      BY <2>0, <1>9
    <2>. HIDE DEF M
    <2>2. IsFiniteSet({n + 1}) /\ Cardinality({n + 1}) = 1
      BY FS_Singleton
    <2>3. {n + 1, n + m + 2} = {n + 1} \cup {n + m + 2} /\ n + m + 2 \notin {n + 1}
      BY <2>0
    <2>4. Cardinality({n + 1} \cup {n + m + 2}) = 1 + 1
      BY <2>2, <2>3, FS_AddElement
    <2>5. Cardinality(M) = 2
      <3>1. M = {n + 1} \cup {n + m + 2}
        BY <2>1, <2>3
      <3>. QED BY <2>4, <3>1
    <2>. QED BY <2>5 DEF M
  <1>11. FirstOf(r, {"begin"}) = n + 1
    <2>. DEFINE f == FirstOf(r, {"begin"})
    <2>1. f \in 0 .. Len(r) /\ (f = 0 => \A i \in 1 .. Len(r) : r[i].kind \notin {"begin"}) /\ (f # 0 => r[f].kind \in {"begin"})
      BY <1>4, FirstOfFacts
    <2>. HIDE DEF f
    <2>2. n + 1 \in 1 .. Len(r)
      BY <1>1, <1>7
    <2>3. f # 0
      BY <2>1, <2>2, <1>7
    <2>4. f \in 1 .. Len(r) /\ r[f].kind = "begin"
      BY <2>1, <2>3, <1>1, <1>7
    <2>5. f = n + 1 \/ f = n + m + 2
      BY <2>4, <1>9 DEF Marker
    <2>. QED BY <2>4, <2>5, <1>7 DEF f
  <1>. DEFINE ends == {j \in (n + 1) + 1 .. Len(r) : r[j].kind = "end"}
  <1>12. ends = {n + m + 2}
    <2>1. n + m + 2 \in (n + 1) + 1 .. Len(r) /\ \A j \in (n + 1) + 1 .. Len(r) : j \in 1 .. Len(r) /\ j # n + 1
      BY <1>1, <1>7
    <2>2. \A j \in (n + 1) + 1 .. Len(r) : r[j].kind = "end" <=> j = n + m + 2
      BY <2>1, <1>7, <1>9 DEF Marker
    <2>. QED BY <2>1, <2>2
  <1>13. Min({n + m + 2}) = n + m + 2
    <2>1. {n + m + 2} \in SUBSET Nat /\ {n + m + 2} # {}
      BY <1>1
    <2>2. Min({n + m + 2}) \in {n + m + 2}
      BY <2>1, MinFacts
    <2>. QED BY <2>2
  <1>14. Applied(r) = k
    <2>1. Applied(r) = [i \in 1 .. Min(ends) - (n + 1) - 1 |-> r[n + 1 + i].kind]
      <3>0. n \in Nat
        BY <1>1
      <3>a. ends # {}
        BY <1>12
      <3>b. n + 1 # 0
        BY <3>0
      <3>1. ends # {} /\ n + 1 # 0
        BY <3>a, <3>b
      <3>. QED BY <3>1, <1>11 DEF Applied
    <2>2. Min(ends) - (n + 1) - 1 = m
      <3>. HIDE DEF ends
      <3>1. Min(ends) = n + m + 2
        BY <1>12, <1>13
      <3>. QED BY <3>1, <1>1
    <2>. HIDE DEF ends
    <2>3. Applied(r) = [i \in 1 .. m |-> r[n + 1 + i].kind]
      BY <2>1, <2>2
    <2>4. [i \in 1 .. m |-> r[n + 1 + i].kind] = [i \in 1 .. m |-> k[i]]
      BY <1>8
    <2>5. k = [i \in 1 .. m |-> k[i]]
      BY DEF m
    <2>. QED BY <2>3, <2>4, <2>5
  <1>15. r # <<>>
    <2>1. Len(r) # 0
      BY <1>1, <1>7
    <2>. QED BY <2>1
  <1>. QED BY <1>4, <1>5, <1>10, <1>14, <1>15 DEF r, B

\* A line of r is ours or a line of s.
OursOr(r, s) == \A i \in 1 .. Len(r) : r[i].ours \/ \E a \in 1 .. Len(s) : r[i] = s[a]

AllOurs(r) == \A i \in 1 .. Len(r) : r[i].ours

(* A block of ours has lines of ours only. *)
LEMMA BlockIsOurs ==
  ASSUME NEW k \in Seq(Statement \cup {"e1", "e2"})
  PROVE  Block(k) \in Seq(Line) /\ AllOurs(Block(k))
  <1>1. /\ Len(k) \in Nat /\ Len(Block(k)) = Len(k) + 2
        /\ Block(k)[1] = Mine("begin") /\ Block(k)[Len(k) + 2] = Mine("end")
        /\ \A j \in 1 .. Len(k) : Block(k)[j + 1] = Mine(k[j])
    BY BlockFacts
  <1>2. \A x : Mine(x).ours
    BY DEF Mine
  <1>3. ASSUME NEW i \in 1 .. Len(Block(k)) PROVE Block(k)[i].ours
    <2>1. i = 1 \/ i = Len(k) + 2 \/ (i - 1 \in 1 .. Len(k) /\ (i - 1) + 1 = i)
      BY <1>1
    <2>. QED BY <2>1, <1>1, <1>2
  <1>. QED BY <1>3, BlockFacts DEF AllOurs

(* The two blocks of a patch of pf.conf. *)
LEMMA ShapeIsOurs ==
  ASSUME NEW base, NEW r, NEW a, NEW b, NEW B, NEW E, Shaped(base, r, a, b, B, E)
  PROVE  B \in Seq(Line) /\ AllOurs(B) /\ E \in Seq(Line) /\ AllOurs(E)
  <1>1. ASSUME NEW k, k \in {<<"rdr", "anchor">>, <<"rdr">>, <<"anchor">>}
        PROVE  Block(k) \in Seq(Line) /\ AllOurs(Block(k))
    <2>1. /\ <<"rdr", "anchor">> \in Seq(Statement \cup {"e1", "e2"})
          /\ <<"rdr">> \in Seq(Statement \cup {"e1", "e2"}) /\ <<"anchor">> \in Seq(Statement \cup {"e1", "e2"})
      BY DEF Statement
    <2>2. k \in Seq(Statement \cup {"e1", "e2"})
      BY <1>1, <2>1, Zenon
    <2>. QED BY <2>2, BlockIsOurs
  <1>2. B = Block(<<"rdr", "anchor">>) \/ B = Block(<<"rdr">>)
    BY DEF Shaped
  <1>3. E = <<>> \/ E = Block(<<"anchor">>)
    BY DEF Shaped
  <1>4. B \in Seq(Line) /\ AllOurs(B)
    BY <1>1, <1>2
  <1>5. CASE E = <<>>
    BY <1>4, <1>5 DEF AllOurs
  <1>6. CASE E = Block(<<"anchor">>)
    BY <1>1, <1>4, <1>6
  <1>. QED BY <1>3, <1>5, <1>6

(* A patch adds lines of ours only. *)
LEMMA PatchAdds ==
  /\ \A s \in Seq(Line) : OursOr(Plan(s).lines, s)
  /\ \A s \in Seq(Line), k \in Seq({"e1", "e2"}) : OursOr(Strip("hosts", s) \o Block(k), s)
  <1>2. ASSUME NEW s \in Seq(Line) PROVE OursOr(Plan(s).lines, s)
    <2>. DEFINE base == Strip("pf.conf", s)
                r == Plan(s).lines
    <2>1. base \in Seq(Line) /\ AllClean(base) /\ \A m \in 1 .. Len(base) : \E a \in 1 .. Len(s) : base[m] = s[a]
      BY StripFacts DEF AllClean
    <2>2. PICK a, b, B, E : Shaped(base, r, a, b, B, E)
      BY PlanShape
    <2>. HIDE DEF base, r
    <2>3. r \in Seq(Line) /\ Placed(base, r, a, b, B, E)
      BY <2>1, <2>2, ShapeFacts
    <2>4. a \in 0 .. Len(base) /\ b \in a .. Len(base)
      BY <2>2 DEF Shaped
    <2>5. /\ B \in Seq(Line) /\ E \in Seq(Line)
          /\ \A i \in 1 .. Len(B) : B[i].ours
          /\ \A i \in 1 .. Len(E) : E[i].ours
      BY <2>2, ShapeIsOurs DEF AllOurs
    <2>6. ASSUME NEW i \in 1 .. Len(r) PROVE r[i].ours \/ \E m \in 1 .. Len(s) : r[i] = s[m]
      <3>1. \/ i <= a /\ i \in 1 .. Len(base) /\ r[i] = base[i]
            \/ i - a \in 1 .. Len(B) /\ r[i] = B[i - a]
            \/ i - Len(B) \in a + 1 .. b /\ r[i] = base[i - Len(B)]
            \/ i - (b + Len(B)) \in 1 .. Len(E) /\ r[i] = E[i - (b + Len(B))]
            \/ i - (Len(B) + Len(E)) \in b + 1 .. Len(base) /\ r[i] = base[i - (Len(B) + Len(E))]
        <4>1. Comes(i, r, base, a, b, B, E)
          BY <2>1, <2>3, <2>4, <2>5, PartOf
        <4>. QED BY <4>1 DEF Comes
      <3>2. \A m \in a + 1 .. b : m \in 1 .. Len(base)
        BY <2>1, <2>4
      <3>3. \A m \in b + 1 .. Len(base) : m \in 1 .. Len(base)
        BY <2>1, <2>4
      <3>. QED BY <3>1, <3>2, <3>3, <2>1, <2>5
    <2>. QED BY <2>6 DEF OursOr, r
  <1>3. ASSUME NEW s \in Seq(Line), NEW k \in Seq({"e1", "e2"}) PROVE OursOr(Strip("hosts", s) \o Block(k), s)
    <2>. DEFINE base == Strip("hosts", s)
                B == Block(k)
                r == base \o B
    <2>1. base \in Seq(Line) /\ \A m \in 1 .. Len(base) : \E a \in 1 .. Len(s) : base[m] = s[a]
      BY StripFacts
    <2>2. k \in Seq(Statement \cup {"e1", "e2"})
      OBVIOUS
    <2>3. B \in Seq(Line) /\ \A i \in 1 .. Len(B) : B[i].ours
      BY <2>2, BlockIsOurs DEF AllOurs
    <2>. HIDE DEF base, B
    <2>4. Len(r) = Len(base) + Len(B) /\ \A i \in 1 .. Len(base) + Len(B) : r[i] = IF i <= Len(base) THEN base[i] ELSE B[i - Len(base)]
      BY <2>1, <2>3, ConcatProperties
    <2>. HIDE DEF r
    <2>5. ASSUME NEW i \in 1 .. Len(r) PROVE r[i].ours \/ \E m \in 1 .. Len(s) : r[i] = s[m]
      <3>1. Len(base) \in Nat /\ Len(B) \in Nat
        BY <2>1, <2>3
      <3>2. CASE i <= Len(base)
        <4>1. i \in 1 .. Len(base) /\ i \in 1 .. Len(base) + Len(B)
          BY <3>1, <3>2, <2>4
        <4>. QED BY <4>1, <3>2, <2>1, <2>4
      <3>3. CASE i > Len(base)
        <4>1. i - Len(base) \in 1 .. Len(B) /\ i \in 1 .. Len(base) + Len(B) /\ ~(i <= Len(base))
          BY <3>1, <3>3, <2>4
        <4>. QED BY <4>1, <2>3, <2>4
      <3>. QED BY <3>1, <3>2, <3>3
    <2>. QED BY <2>5 DEF OursOr, r, base, B
  <1>. QED BY <1>2, <1>3

\* Others write their own lines: none is a marker or a statement of ours.
Known(p, s) == \A i \in 1 .. Len(s) : ~s[i].ours => s[i].kind \in ForeignKinds(p)

\* What was in the file besides our lines, when others left it, is in it.
StillThere(p, s, b) == Strip(p, b) # <<>> => Strip(p, s) = Strip(p, b)

PatchInv ==
    /\ PfConfTypeOK
    /\ Known(which, file.lines) /\ Known(which, before.lines)
    /\ PatchSettles
    /\ (last = "patched" /\ which = "hosts") => wanted # <<>>
    /\ StillThere(which, file.lines, before.lines)
    /\ (last = "removed" /\ Strip(which, before.lines) # <<>>) => file.lines = Strip(which, before.lines)

(* A patch brings in no line of others. *)
LEMMA KnownStep ==
  ASSUME NEW p, NEW s \in Seq(Line), NEW r \in Seq(Line), Known(p, s), OursOr(r, s)
  PROVE  Known(p, r)
  BY DEF Known, OursOr

(* What the candidates are, and what they leave of a file. *)
LEMMA Candidates ==
  ASSUME NEW f \in Text
  PROVE  /\ LET g == Plan(f.lines)
            IN /\ g \in Text /\ OursOr(g.lines, f.lines) /\ Plan(g.lines) = g
               /\ Strip("pf.conf", g.lines) = Strip("pf.conf", f.lines)
         /\ LET g == Removal(f.lines)
                base == Strip("pf.conf", f.lines)
            IN /\ g \in Text /\ OursOr(g.lines, f.lines)
               /\ base # <<>> => g.lines = base /\ Strip("pf.conf", g.lines) = base
         /\ LET g == HostsPlan(f, <<>>)
                base == Strip("hosts", f.lines)
            IN /\ g \in Text /\ OursOr(g.lines, f.lines)
               /\ base # <<>> => g.lines = base /\ Strip("hosts", g.lines) = base
         /\ \A k \in Seq({"e1", "e2"}) : k # <<>> =>
               LET g == HostsPlan(f, k)
               IN /\ g \in Text /\ OursOr(g.lines, f.lines) /\ HostsPlan(g, k) = g
                  /\ Strip("hosts", g.lines) = Strip("hosts", f.lines)
  <1>. DEFINE s == f.lines
  <1>1. s \in Seq(Line) /\ f.newline \in BOOLEAN
    BY DEF Text
  <1>2. LET g == Plan(s)
        IN /\ g \in Text /\ OursOr(g.lines, s) /\ Plan(g.lines) = g
           /\ Strip("pf.conf", g.lines) = Strip("pf.conf", s)
    BY <1>1, PlanFacts, PatchAdds
  <1>3. ASSUME NEW p, NEW newline \in BOOLEAN
        PROVE  LET base == Strip(p, s)
                   g == Join(base, newline)
               IN /\ g \in Text /\ OursOr(g.lines, s)
                  /\ base # <<>> => g.lines = base /\ Strip(p, g.lines) = base
    <2>. DEFINE base == Strip(p, s)
                g == Join(base, newline)
    <2>1. base \in Seq(Line) /\ AllClean(base) /\ OursOr(base, s)
      <3>1. base \in Seq(Line) /\ \A i \in 1 .. Len(base) : Clean(base[i]) /\ \E a \in 1 .. Len(s) : base[i] = s[a]
        <4>. HIDE DEF s
        <4>. QED BY <1>1, StripFacts
      <3>. HIDE DEF base
      <3>. QED BY <3>1 DEF AllClean, OursOr
    <2>2. Strip(p, base) = base
      BY <2>1, StripNothing
    <2>. HIDE DEF base
    <2>3. CASE base = <<>>
      <3>1. Blank \in Line /\ Blank.ours
        BY DEF Blank, Mine, Line, ForeignKinds
      <3>2. <<Blank>> \in Seq(Line) /\ OursOr(<<Blank>>, s)
        BY <3>1 DEF OursOr
      <3>3. g = [lines |-> IF newline THEN <<Blank>> ELSE <<>>, newline |-> newline]
        BY <2>3 DEF Join
      <3>4. g.lines \in Seq(Line) /\ OursOr(g.lines, s)
        <4>1. <<>> \in Seq(Line) /\ OursOr(<<>>, s)
          BY DEF OursOr
        <4>2. g.lines = IF newline THEN <<Blank>> ELSE <<>>
          BY <3>3
        <4>3. CASE newline
          BY <4>2, <4>3, <3>2
        <4>4. CASE ~newline
          BY <4>1, <4>2, <4>4
        <4>. QED BY <4>3, <4>4
      <3>5. g \in Text
        <4>1. (IF newline THEN <<Blank>> ELSE <<>>) \in Seq(Line)
          BY <3>2
        <4>. QED BY <3>3, <4>1 DEF Text
      <3>. HIDE DEF g
      <3>. QED BY <3>4, <3>5, <2>3 DEF base, g
    <2>4. CASE base # <<>>
      <3>1. g = [lines |-> base, newline |-> newline]
        BY <2>4 DEF Join
      <3>2. g \in Text /\ g.lines = base
        BY <2>1, <3>1 DEF Text
      <3>. HIDE DEF g
      <3>. QED BY <3>2, <2>1, <2>2 DEF base, g
    <2>. QED BY <2>3, <2>4
  <1>4. LET g == Removal(s)
            base == Strip("pf.conf", s)
        IN /\ g \in Text /\ OursOr(g.lines, s)
           /\ base # <<>> => g.lines = base /\ Strip("pf.conf", g.lines) = base
    <2>1. (Strip("pf.conf", s) # <<>>) \in BOOLEAN
      OBVIOUS
    <2>2. Removal(s) = Join(Strip("pf.conf", s), Strip("pf.conf", s) # <<>>)
      BY DEF Removal
    <2>. DEFINE nl == Strip("pf.conf", s) # <<>>
    <2>3. nl \in BOOLEAN /\ Removal(s) = Join(Strip("pf.conf", s), nl)
      BY <2>1, <2>2
    <2>. HIDE DEF nl
    <2>. QED BY <2>3, <1>3
  <1>5. LET g == HostsPlan(f, <<>>)
            base == Strip("hosts", s)
        IN /\ g \in Text /\ OursOr(g.lines, s)
           /\ base # <<>> => g.lines = base /\ Strip("hosts", g.lines) = base
    <2>1. HostsPlan(f, <<>>) = Join(Strip("hosts", s), f.newline)
      BY DEF HostsPlan
    <2>. QED BY <2>1, <1>1, <1>3
  <1>6. ASSUME NEW k \in Seq({"e1", "e2"}), k # <<>>
        PROVE  LET g == HostsPlan(f, k)
               IN /\ g \in Text /\ OursOr(g.lines, s) /\ HostsPlan(g, k) = g
                  /\ Strip("hosts", g.lines) = Strip("hosts", s)
    <2>. DEFINE base == Strip("hosts", s)
                r == base \o Block(k)
                g == [lines |-> r, newline |-> TRUE]
    <2>1. base \in Seq(Line) /\ AllClean(base)
      BY <1>1, StripFacts DEF AllClean
    <2>2. r \in Seq(Line) /\ r # <<>> /\ Strip("hosts", r) = base
      <3>. HIDE DEF base
      <3>. QED BY <2>1, HostsFacts
    <2>3. OursOr(r, s)
      BY <1>1, PatchAdds
    <2>4. HostsPlan(f, k) = g
      <3>1. HostsPlan(f, k) = Join(r, TRUE)
        BY <1>6 DEF HostsPlan
      <3>2. Join(r, TRUE) = g
        BY <2>2 DEF Join
      <3>. QED BY <3>1, <3>2
    <2>5. HostsPlan(g, k) = g
      <3>1. g.lines = r
        OBVIOUS
      <3>. HIDE DEF g
      <3>2. HostsPlan(g, k) = Join(Strip("hosts", g.lines) \o Block(k), TRUE)
        BY <1>6 DEF HostsPlan
      <3>3. HostsPlan(g, k) = Join(r, TRUE)
        BY <3>1, <3>2, <2>2
      <3>4. Join(r, TRUE) = g
        BY <2>2 DEF Join, g
      <3>. QED BY <3>3, <3>4
    <2>6. g \in Text /\ g.lines = r
      <3>. HIDE DEF r
      <3>. QED BY <2>2 DEF Text
    <2>. HIDE DEF g
    <2>. QED BY <2>2, <2>3, <2>4, <2>5, <2>6
  <1>. QED BY <1>2, <1>4, <1>5, <1>6

(* A file of others alone has nothing to strip. *)
LEMMA KnownIsClean ==
  ASSUME NEW p, NEW s \in Seq(Line), Known(p, s), \A i \in 1 .. Len(s) : ~s[i].ours
  PROVE  Strip(p, s) = s
  <1>1. \A k \in ForeignKinds(p) : k \notin Marker \cup Statement
    BY DEF ForeignKinds, Marker, Statement
  <1>2. AllClean(s)
    BY <1>1 DEF AllClean, Clean, Known
  <1>. QED BY <1>2, StripNothing

(* The order of a file is the order of what stripping leaves of it. *)
LEMMA StripAscends == ASSUME NEW p, NEW s \in Seq(Line), Ascending(s) PROVE Ascending(Strip(p, s))
  <1>. DEFINE P == {n \in (1 .. Len(s)) \ Enclosed(p, s) : s[n].kind \notin {"end"} \cup Statement}
              r == Strip(p, s)
  <1>0. r = LinesAt(s, P)
    BY DEF Strip
  <1>. HIDE DEF r, P
  <1>1. Within(r, s, P)
    BY <1>0, PlacesFacts
  <1>2. SUFFICES ASSUME NEW i \in 1 .. Len(r), NEW j \in 1 .. Len(r), i < j, Ranked(r[i]), Ranked(r[j])
                 PROVE  Rank(r[i].kind) <= Rank(r[j].kind)
    BY DEF Ascending, r
  <1>3. PICK a \in 1 .. Len(s), b \in 1 .. Len(s) : a < b /\ r[i] = s[a] /\ r[j] = s[b]
    BY <1>1, <1>2 DEF Within
  <1>. QED BY <1>2, <1>3 DEF Ascending

(* Lines whose ranks rise from section to section are in pf's order. *)
LEMMA SectionsAreOrdered ==
  ASSUME NEW r \in Seq(Line), NEW x \in Nat, NEW y \in Nat, x <= y, Sectioned(r, x, y)
  PROVE  Ascending(r)
  <1>1. SUFFICES ASSUME NEW i \in 1 .. Len(r), NEW j \in 1 .. Len(r), i < j, Ranked(r[i]), Ranked(r[j])
                 PROVE  Rank(r[i].kind) <= Rank(r[j].kind)
    BY DEF Ascending
  <1>2. /\ \/ i <= x /\ Rank(r[i].kind) = 1
           \/ x < i /\ i <= y /\ Rank(r[i].kind) = 2
           \/ y < i /\ Rank(r[i].kind) = 3
        /\ \/ j <= x /\ Rank(r[j].kind) = 1
           \/ x < j /\ j <= y /\ Rank(r[j].kind) = 2
           \/ y < j /\ Rank(r[j].kind) = 3
    BY <1>1 DEF Sectioned
  <1>. QED BY <1>1, <1>2

(* What the invariant says of the file. *)
LEMMA PatchMeans == PatchInv => PatchesApply
  <1>. SUFFICES ASSUME PatchInv PROVE PatchesApply
    OBVIOUS
  <1>1. PfConfTypeOK /\ file \in Text /\ before \in Text /\ file.lines \in Seq(Line) /\ before.lines \in Seq(Line)
    BY DEF PatchInv, PfConfTypeOK, Text
  <1>. DEFINE s == file.lines
  <1>2. AnchorsComeFirst
    <2>1. SUFFICES ASSUME which = "pf.conf", last = "patched"
                   PROVE  LET Only(k) == Cardinality({i \in 1 .. Len(s) : s[i].kind = k}) = 1
                              Ahead(k, others) == \A i \in 1 .. Len(s) : s[i].kind \in others => FirstOf(s, {k}) < i
                          IN /\ Only("rdr") /\ Only("anchor")
                             /\ Ahead("rdr", {"nat"}) /\ Ahead("anchor", {"pass"})
      BY DEF AnchorsComeFirst
    <2>2. s = Plan(s).lines
      BY <2>1 DEF PatchInv, PatchSettles
    <2>. HIDE DEF s
    <2>3. s \in Seq(Line)
      BY <1>1 DEF s
    <2>4. PICK x, y : First(s, x, y)
      BY <2>2, <2>3, PlacedFirst
    <2>5. ASSUME NEW k, NEW z \in 1 .. Len(s), \A i \in 1 .. Len(s) : s[i].kind = k <=> i = z
          PROVE  Cardinality({i \in 1 .. Len(s) : s[i].kind = k}) = 1 /\ FirstOf(s, {k}) = z
      <3>1. {i \in 1 .. Len(s) : s[i].kind = k} = {z}
        BY <2>5
      <3>2. Cardinality({z}) = 1
        BY FS_Singleton
      <3>. DEFINE f == FirstOf(s, {k})
      <3>3. f \in 0 .. Len(s) /\ (f = 0 => \A i \in 1 .. Len(s) : s[i].kind \notin {k}) /\ (f # 0 => s[f].kind \in {k})
        BY <2>3, FirstOfFacts
      <3>. HIDE DEF f
      <3>4. f # 0
        BY <2>5, <3>3
      <3>5. f \in 1 .. Len(s)
        BY <2>3, <3>3, <3>4
      <3>6. f = z
        BY <2>5, <3>3, <3>4, <3>5
      <3>. QED BY <3>1, <3>2, <3>6 DEF f
    <2>a. x \in 1 .. Len(s) /\ (\A i \in 1 .. Len(s) : s[i].kind = "rdr" <=> i = x)
      BY <2>4 DEF First
    <2>b. y \in 1 .. Len(s) /\ (\A i \in 1 .. Len(s) : s[i].kind = "anchor" <=> i = y)
      BY <2>4 DEF First
    <2>c. Cardinality({i \in 1 .. Len(s) : s[i].kind = "rdr"}) = 1 /\ FirstOf(s, {"rdr"}) = x
      BY <2>a, <2>5
    <2>6. Cardinality({i \in 1 .. Len(s) : s[i].kind = "anchor"}) = 1 /\ FirstOf(s, {"anchor"}) = y
      BY <2>b, <2>5
    <2>7. \A i \in 1 .. Len(s) : (s[i].kind = "nat" => x < i) /\ (s[i].kind = "pass" => y < i)
      BY <2>4 DEF First
    <2>. QED BY <2>c, <2>6, <2>7
  <1>3. PatchParses
    <2>. DEFINE base == Strip("pf.conf", s)
                r == Plan(s).lines
    <2>1. SUFFICES ASSUME which = "pf.conf", Parses(file)
                   PROVE  Parses(Plan(s)) \/ (HasKind(base, {"nat"}) /\ ~HasKind(base, {"pass"}))
      BY DEF PatchParses
    <2>2. Ascending(s)
      BY <2>1 DEF Parses, Ascending
    <2>. HIDE DEF s
    <2>3. s \in Seq(Line)
      BY <1>1 DEF s
    <2>4. Ascending(base) /\ base \in Seq(Line)
      BY <2>2, <2>3, StripAscends, StripFacts
    <2>5. r \in Seq(Line) /\ Plan(s).newline = TRUE
      BY <2>3, PlanFacts DEF Text
    <2>6. \/ \E x, y \in Nat : x <= y /\ Sectioned(r, x, y)
          \/ (\E i \in 1 .. Len(base) : base[i].kind = "nat") /\ \A i \in 1 .. Len(base) : base[i].kind # "pass"
      BY <2>3, <2>4, PlacedFirst
    <2>7. ASSUME NEW x \in Nat, NEW y \in Nat, x <= y, Sectioned(r, x, y) PROVE Parses(Plan(s))
      <3>1. Ascending(r)
        BY <2>5, <2>7, SectionsAreOrdered
      <3>. QED BY <2>5, <3>1 DEF Parses, Ascending
    <2>8. ASSUME NEW i \in 1 .. Len(base), base[i].kind = "nat", \A j \in 1 .. Len(base) : base[j].kind # "pass"
          PROVE  HasKind(base, {"nat"}) /\ ~HasKind(base, {"pass"})
      <3>1. (FirstOf(base, {"nat"}) = 0 => \A j \in 1 .. Len(base) : base[j].kind \notin {"nat"})
        BY <2>4, FirstOfFacts
      <3>2. /\ FirstOf(base, {"pass"}) \in 0 .. Len(base)
            /\ FirstOf(base, {"pass"}) # 0 => base[FirstOf(base, {"pass"})].kind \in {"pass"}
        BY <2>4, FirstOfFacts
      <3>3. Len(base) \in Nat
        BY <2>4
      <3>. HIDE DEF base
      <3>4. FirstOf(base, {"nat"}) # 0
        BY <3>1, <2>8
      <3>5. FirstOf(base, {"pass"}) = 0
        BY <3>2, <3>3, <2>8
      <3>. QED BY <3>4, <3>5 DEF HasKind
    <2>. QED BY <2>6, <2>7, <2>8
  <1>4. EntriesOnce
    <2>1. SUFFICES ASSUME which = "hosts", last = "patched"
                   PROVE  Applied(s) = wanted /\ Cardinality({i \in 1 .. Len(s) : s[i].kind \in Marker}) = 2
      BY DEF EntriesOnce
    <2>2. file = HostsPlan(file, wanted) /\ wanted # <<>>
      BY <2>1 DEF PatchInv, PatchSettles
    <2>3. wanted \in Seq({"e1", "e2"})
      <3>1. <<"e1">> \in Seq({"e1", "e2"}) /\ <<"e1", "e2">> \in Seq({"e1", "e2"})
        OBVIOUS
      <3>2. wanted = <<"e1">> \/ wanted = <<"e1", "e2">>
        BY <1>1, <2>2 DEF PfConfTypeOK
      <3>. QED BY <3>1, <3>2
    <2>. DEFINE base == Strip("hosts", s)
                r == base \o Block(wanted)
    <2>4. base \in Seq(Line) /\ AllClean(base)
      BY <1>1, StripFacts DEF AllClean
    <2>5. /\ r # <<>> /\ Applied(r) = wanted
          /\ Cardinality({i \in 1 .. Len(r) : r[i].kind \in Marker}) = 2
      <3>. HIDE DEF base
      <3>. QED BY <2>3, <2>4, HostsFacts
    <2>6. s = r
      <3>1. file = Join(r, TRUE)
        BY <2>2 DEF HostsPlan
      <3>2. Join(r, TRUE).lines = r
        BY <2>5 DEF Join
      <3>. QED BY <3>1, <3>2
    <2>. HIDE DEF s, r
    <2>. QED BY <2>5, <2>6
  <1>5. RemovalRestores
    <2>1. SUFFICES ASSUME last = "removed", before.lines # <<>>, \A i \in 1 .. Len(before.lines) : ~before.lines[i].ours
                   PROVE  file.lines = before.lines
      BY DEF RemovalRestores
    <2>2. Strip(which, before.lines) = before.lines
      BY <1>1, <2>1, KnownIsClean DEF PatchInv
    <2>. QED BY <2>1, <2>2 DEF PatchInv
  <1>. QED BY <1>1, <1>2, <1>3, <1>4, <1>5 DEF PatchesApply, PatchInv

(* A file nobody has patched yet. *)
LEMMA PatchStarts == PfConfInit => PatchInv
  <1>. SUFFICES ASSUME PfConfInit PROVE PatchInv
    OBVIOUS
  <1>1. which \in {"pf.conf", "hosts"} /\ before = file /\ last = "none" /\ wanted = <<>> /\ foreign = 0
    BY DEF PfConfInit
  <1>a. PICK n \in 0 .. MaxLines : \E kinds \in [1 .. n -> ForeignKinds(which)] :
           file = [lines |-> [i \in 1 .. n |-> Theirs(kinds[i])], newline |-> n > 0]
    BY DEF PfConfInit
  <1>2. PICK kinds \in [1 .. n -> ForeignKinds(which)] :
           file = [lines |-> [i \in 1 .. n |-> Theirs(kinds[i])], newline |-> n > 0]
    BY <1>a
  <1>3. n \in Nat /\ \A i \in 1 .. n : kinds[i] \in ForeignKinds(which)
    BY PfConfAssumption
  <1>4. ASSUME NEW k \in ForeignKinds(which) PROVE Theirs(k) \in Line /\ ~Theirs(k).ours /\ Theirs(k).kind = k
    BY <1>1, <1>4 DEF Theirs, Line, ForeignKinds
  <1>. DEFINE l == [i \in 1 .. n |-> Theirs(kinds[i])]
  <1>5. l \in Seq(Line) /\ Len(l) = n /\ \A i \in 1 .. n : l[i] = Theirs(kinds[i])
    <2>1. \A i \in 1 .. n : Theirs(kinds[i]) \in Line
      BY <1>3, <1>4
    <2>. QED BY <2>1, <1>3
  <1>. HIDE DEF l
  <1>6. file.lines = l /\ file \in Text
    <2>1. file = [lines |-> l, newline |-> n > 0]
      BY <1>2 DEF l
    <2>2. (n > 0) \in BOOLEAN
      OBVIOUS
    <2>. QED BY <2>1, <2>2, <1>5 DEF Text
  <1>7. Known(which, l)
    BY <1>3, <1>4, <1>5 DEF Known
  <1>8. PfConfTypeOK
    BY <1>1, <1>6, PfConfAssumption DEF PfConfTypeOK
  <1>. QED BY <1>1, <1>6, <1>7, <1>8 DEF PatchInv, PatchSettles, StillThere

(* Our commands keep the invariant, those that change the file and those that *)
(* are refused.                                                               *)
LEMMA PatchOurs == PatchInv /\ Ours => PatchInv'
  <1>. SUFFICES ASSUME PatchInv, Ours PROVE PatchInv'
    OBVIOUS
  <1>1. /\ PfConfTypeOK /\ file \in Text /\ file.lines \in Seq(Line)
        /\ Known(which, file.lines) /\ Known(which, before.lines)
        /\ StillThere(which, file.lines, before.lines)
    BY DEF PatchInv, PfConfTypeOK, Text
  <1>2. UNCHANGED <<which, before, foreign>>
    BY DEF Ours, EnsureStatements, RemoveStatements, Apply
  <1>. DEFINE Left(g) == /\ g \in Text /\ OursOr(g.lines, file.lines)
                         /\ StillThere(which, g.lines, before.lines)
  <1>3. ASSUME NEW g, Left(g) PROVE g \in Text /\ Known(which, g.lines) /\ StillThere(which, g.lines, before.lines)
    <2>1. g.lines \in Seq(Line)
      BY <1>3 DEF Text
    <2>. QED BY <2>1, <1>1, <1>3, KnownStep
  <1>4. Left(file)
    BY <1>1 DEF OursOr
  <1>5. ASSUME Left(file'), last' \in {"patched", "removed", "refused"}, wanted' \in {<<>>, <<"e1">>, <<"e1", "e2">>},
               PatchSettles', (last' = "patched" /\ which = "hosts") => wanted' # <<>>,
               (last' = "removed" /\ Strip(which, before.lines) # <<>>) => file'.lines = Strip(which, before.lines)
        PROVE  PatchInv'
    <2>1. file' \in Text /\ Known(which, file'.lines) /\ StillThere(which, file'.lines, before.lines)
      BY <1>3, <1>5
    <2>2. PfConfTypeOK'
      BY <1>1, <1>2, <1>5, <2>1 DEF PfConfTypeOK
    <2>. QED BY <1>1, <1>2, <1>5, <2>1, <2>2 DEF PatchInv
  <1>. HIDE DEF Left
  <1>6. wanted \in {<<>>, <<"e1">>, <<"e1", "e2">>} /\ which \in {"pf.conf", "hosts"}
    BY <1>1 DEF PfConfTypeOK
  <1>7. CASE EnsureStatements
    <2>. DEFINE g == Plan(file.lines)
    <2>1. which = "pf.conf" /\ wanted' = wanted
      BY <1>7 DEF EnsureStatements
    <2>2. /\ g \in Text /\ OursOr(g.lines, file.lines) /\ Plan(g.lines) = g
          /\ Strip("pf.conf", g.lines) = Strip("pf.conf", file.lines)
      BY <1>1, Candidates
    <2>3. (file' = g /\ last' = "patched") \/ (file' = file /\ last' = "refused")
      BY <1>7 DEF EnsureStatements
    <2>. HIDE DEF g
    <2>4. CASE file' = g /\ last' = "patched"
      <3>1. Left(g)
        BY <1>1, <2>1, <2>2 DEF Left, StillThere
      <3>2. PatchSettles'
        BY <1>2, <2>1, <2>2, <2>4 DEF PatchSettles
      <3>. QED BY <3>1, <3>2, <1>5, <1>6, <2>1, <2>4
    <2>5. CASE file' = file /\ last' = "refused"
      <3>1. PatchSettles'
        BY <2>5 DEF PatchSettles
      <3>. QED BY <3>1, <1>4, <1>5, <1>6, <2>1, <2>5
    <2>. QED BY <2>3, <2>4, <2>5
  <1>8. CASE RemoveStatements
    <2>. DEFINE g == Removal(file.lines)
                base == Strip("pf.conf", file.lines)
    <2>1. which = "pf.conf" /\ wanted' = wanted
      BY <1>8 DEF RemoveStatements
    <2>2. /\ g \in Text /\ OursOr(g.lines, file.lines)
          /\ base # <<>> => g.lines = base /\ Strip("pf.conf", g.lines) = base
      BY <1>1, Candidates
    <2>3. (file' = g /\ last' = "removed") \/ (file' = file /\ last' = "refused")
      BY <1>8 DEF RemoveStatements
    <2>4. Strip("pf.conf", before.lines) # <<>> => base = Strip("pf.conf", before.lines)
      BY <1>1, <2>1 DEF StillThere
    <2>. HIDE DEF g, base
    <2>5. CASE file' = g /\ last' = "removed"
      <3>1. Left(g)
        BY <2>1, <2>2, <2>4 DEF Left, StillThere
      <3>2. PatchSettles'
        BY <2>5 DEF PatchSettles
      <3>3. Strip(which, before.lines) # <<>> => file'.lines = Strip(which, before.lines)
        BY <2>1, <2>2, <2>4, <2>5
      <3>. QED BY <3>1, <3>2, <3>3, <1>5, <1>6, <2>1, <2>5
    <2>6. CASE file' = file /\ last' = "refused"
      <3>1. PatchSettles'
        BY <2>6 DEF PatchSettles
      <3>. QED BY <3>1, <1>4, <1>5, <1>6, <2>1, <2>6
    <2>. QED BY <2>3, <2>5, <2>6
  <1>9. ASSUME NEW e \in {<<>>, <<"e1">>, <<"e1", "e2">>}, Apply(e) PROVE PatchInv'
    <2>. DEFINE g == HostsPlan(file, e)
                base == Strip("hosts", file.lines)
    <2>1. which = "hosts" /\ wanted' = e
      BY <1>9 DEF Apply
    <2>2. /\ g \in Text /\ OursOr(g.lines, file.lines)
          /\ e = <<>> => (base # <<>> => g.lines = base /\ Strip("hosts", g.lines) = base)
          /\ e # <<>> => HostsPlan(g, e) = g /\ Strip("hosts", g.lines) = base
      <3>1. CASE e = <<>>
        BY <3>1, <1>1, Candidates
      <3>2. CASE e # <<>>
        <4>1. <<"e1">> \in Seq({"e1", "e2"}) /\ <<"e1", "e2">> \in Seq({"e1", "e2"})
          OBVIOUS
        <4>2. e \in Seq({"e1", "e2"})
          BY <4>1, <3>2
        <4>. QED BY <3>2, <4>2, <1>1, Candidates
      <3>. QED BY <3>1, <3>2
    <2>3. \/ file' = g /\ last' = (IF e = <<>> THEN "removed" ELSE "patched")
          \/ file' = file /\ last' = "refused"
      BY <1>9 DEF Apply
    <2>4. Strip("hosts", before.lines) # <<>> => base = Strip("hosts", before.lines)
      BY <1>1, <2>1 DEF StillThere
    <2>. HIDE DEF g, base
    <2>5. CASE file' = g /\ last' = "removed" /\ e = <<>>
      <3>1. Left(g)
        BY <2>1, <2>2, <2>4, <2>5 DEF Left, StillThere
      <3>2. PatchSettles'
        BY <2>5 DEF PatchSettles
      <3>3. Strip(which, before.lines) # <<>> => file'.lines = Strip(which, before.lines)
        BY <2>1, <2>2, <2>4, <2>5
      <3>. QED BY <3>1, <3>2, <3>3, <1>5, <2>1, <2>5
    <2>6. CASE file' = g /\ last' = "patched" /\ e # <<>>
      <3>1. Left(g)
        BY <2>1, <2>2, <2>4, <2>6 DEF Left, StillThere
      <3>2. HostsPlan(file', wanted') = file'
        BY <2>1, <2>2, <2>6
      <3>3. PatchSettles'
        BY <1>2, <2>1, <3>2 DEF PatchSettles
      <3>. QED BY <3>1, <3>3, <1>5, <2>1, <2>6
    <2>7. CASE file' = file /\ last' = "refused"
      <3>1. PatchSettles'
        BY <2>7 DEF PatchSettles
      <3>. QED BY <3>1, <1>4, <1>5, <2>1, <2>7
    <2>. QED BY <2>3, <2>5, <2>6, <2>7
  <1>. QED BY <1>7, <1>8, <1>9 DEF Ours

(* A part of a file has no other lines than the file. *)
LEMMA KnownPart ==
  ASSUME NEW p, NEW s \in Seq(Line), Known(p, s), NEW m \in 1 .. Len(s) + 1, NEW n \in m - 1 .. Len(s)
  PROVE  SubSeq(s, m, n) \in Seq(Line) /\ Known(p, SubSeq(s, m, n))
  <1>. DEFINE r == SubSeq(s, m, n)
  <1>1. r \in Seq(Line) /\ Len(r) = n - m + 1 /\ \A i \in 1 .. n - m + 1 : r[i] = s[m + i - 1]
    BY SubSeqFacts
  <1>2. \A i \in 1 .. n - m + 1 : m + i - 1 \in 1 .. Len(s)
    OBVIOUS
  <1>. HIDE DEF r
  <1>3. Known(p, r)
    BY <1>1, <1>2 DEF Known
  <1>. QED BY <1>1, <1>3 DEF r

(* Two parts put together have no other lines than the two. *)
LEMMA KnownJoined ==
  ASSUME NEW p, NEW s \in Seq(Line), NEW t \in Seq(Line), Known(p, s), Known(p, t)
  PROVE  s \o t \in Seq(Line) /\ Known(p, s \o t)
  <1>. DEFINE r == s \o t
  <1>1. /\ r \in Seq(Line) /\ Len(r) = Len(s) + Len(t)
        /\ \A i \in 1 .. Len(s) + Len(t) : r[i] = IF i <= Len(s) THEN s[i] ELSE t[i - Len(s)]
    BY ConcatProperties
  <1>2. Len(s) \in Nat /\ Len(t) \in Nat
    OBVIOUS
  <1>. HIDE DEF r
  <1>3. ASSUME NEW i \in 1 .. Len(r), ~r[i].ours PROVE r[i].kind \in ForeignKinds(p)
    <2>1. CASE i <= Len(s)
      <3>1. i \in 1 .. Len(s) /\ r[i] = s[i]
        BY <2>1, <1>1, <1>2
      <3>. QED BY <3>1, <1>3 DEF Known
    <2>2. CASE i > Len(s)
      <3>1. i - Len(s) \in 1 .. Len(t) /\ r[i] = t[i - Len(s)]
        BY <2>2, <1>1, <1>2
      <3>. QED BY <3>1, <1>3 DEF Known
    <2>. QED BY <2>1, <2>2, <1>2
  <1>4. Known(p, r)
    BY <1>3 DEF Known
  <1>. QED BY <1>1, <1>4 DEF r

(* Others write lines of their own kinds and delete what they like. *)
LEMMA PatchForeign == PatchInv /\ Edit => PatchInv'
  <1>. SUFFICES ASSUME PatchInv, Edit PROVE PatchInv'
    OBVIOUS
  <1>. DEFINE s == file.lines
  <1>1. PfConfTypeOK /\ file \in Text /\ s \in Seq(Line) /\ Known(which, s) /\ Len(s) \in Nat
    BY DEF PatchInv, PfConfTypeOK, Text
  <1>2. /\ foreign < MaxForeign /\ foreign' = foreign + 1
        /\ last' = "none" /\ before' = file' /\ which' = which /\ wanted' = wanted
    BY DEF Edit
  <1>3. file' \in Text /\ Known(which, file'.lines)
    <2>1. ASSUME NEW i \in 0 .. Len(s), NEW k \in ForeignKinds(which),
                 file' = [file EXCEPT !.lines = InsertAt(@, i + 1, Theirs(k)), !.newline = TRUE]
          PROVE  file' \in Text /\ Known(which, file'.lines)
      <3>. DEFINE a == SubSeq(s, 1, (i + 1) - 1)
                  x == <<Theirs(k)>>
                  b == SubSeq(s, i + 1, Len(s))
                  r == (a \o x) \o b
      <3>1. file'.lines = r /\ file'.newline = TRUE /\ file' = [lines |-> r, newline |-> TRUE]
        <4>1. InsertAt(s, i + 1, Theirs(k)) = r
          BY DEF InsertAt
        <4>. HIDE DEF r
        <4>. QED BY <4>1, <2>1, <1>1 DEF Text
      <3>2. Theirs(k) \in Line /\ Theirs(k).kind = k
        BY <1>1 DEF PfConfTypeOK, Theirs, Line, ForeignKinds
      <3>3. x \in Seq(Line) /\ Known(which, x)
        <4>1. x \in Seq(Line) /\ Len(x) = 1 /\ x[1] = Theirs(k)
          BY <3>2
        <4>. HIDE DEF x
        <4>. QED BY <4>1, <3>2 DEF Known
      <3>4. a \in Seq(Line) /\ Known(which, a)
        <4>1. 1 \in 1 .. Len(s) + 1 /\ (i + 1) - 1 \in 1 - 1 .. Len(s)
          BY <1>1
        <4>. HIDE DEF s
        <4>. QED BY <4>1, <1>1, KnownPart
      <3>5. b \in Seq(Line) /\ Known(which, b)
        <4>1. i + 1 \in 1 .. Len(s) + 1 /\ Len(s) \in (i + 1) - 1 .. Len(s)
          BY <1>1
        <4>. HIDE DEF s
        <4>. QED BY <4>1, <1>1, KnownPart
      <3>. HIDE DEF a, b, x, s
      <3>6. a \o x \in Seq(Line) /\ Known(which, a \o x)
        BY <3>3, <3>4, KnownJoined
      <3>7. r \in Seq(Line) /\ Known(which, r)
        BY <3>5, <3>6, KnownJoined
      <3>. HIDE DEF r
      <3>. QED BY <3>1, <3>7 DEF Text
    <2>2. ASSUME NEW i \in 1 .. Len(s), file' = [file EXCEPT !.lines = RemoveAt(@, i)]
          PROVE  file' \in Text /\ Known(which, file'.lines)
      <3>. DEFINE a == SubSeq(s, 1, i - 1)
                  b == SubSeq(s, i + 1, Len(s))
                  r == a \o b
      <3>1. file'.lines = r /\ file'.newline = file.newline /\ file' = [lines |-> r, newline |-> file.newline]
        <4>1. RemoveAt(s, i) = r
          BY DEF RemoveAt
        <4>. HIDE DEF r
        <4>. QED BY <4>1, <2>2, <1>1 DEF Text
      <3>2. a \in Seq(Line) /\ Known(which, a)
        <4>1. 1 \in 1 .. Len(s) + 1 /\ i - 1 \in 1 - 1 .. Len(s)
          BY <1>1
        <4>. HIDE DEF s
        <4>. QED BY <4>1, <1>1, KnownPart
      <3>3. b \in Seq(Line) /\ Known(which, b)
        <4>1. i + 1 \in 1 .. Len(s) + 1 /\ Len(s) \in (i + 1) - 1 .. Len(s)
          BY <1>1
        <4>. HIDE DEF s
        <4>. QED BY <4>1, <1>1, KnownPart
      <3>. HIDE DEF a, b, s
      <3>4. r \in Seq(Line) /\ Known(which, r)
        BY <3>2, <3>3, KnownJoined
      <3>. HIDE DEF r
      <3>. QED BY <3>1, <3>4, <1>1 DEF Text
    <2>3. ASSUME file' = [file EXCEPT !.newline = FALSE] PROVE file' \in Text /\ Known(which, file'.lines)
      <3>1. file'.lines = s /\ file' = [lines |-> s, newline |-> FALSE]
        BY <2>3, <1>1 DEF Text
      <3>. HIDE DEF s
      <3>. QED BY <3>1, <1>1 DEF Text
    <2>. QED BY <2>1, <2>2, <2>3 DEF Edit
  <1>4. PfConfTypeOK'
    <2>1. foreign' \in 0 .. MaxForeign
      BY <1>1, <1>2, PfConfAssumption DEF PfConfTypeOK
    <2>. QED BY <1>1, <1>2, <1>3, <2>1 DEF PfConfTypeOK
  <1>. HIDE DEF s
  <1>. QED BY <1>2, <1>3, <1>4 DEF PatchInv, PatchSettles, StillThere

(* The invariant is inductive. *)
LEMMA PatchStep == PatchInv /\ [PfConfNext]_pfConfVars => PatchInv'
  <1>1. PatchInv /\ UNCHANGED pfConfVars => PatchInv'
    BY DEF pfConfVars, PatchInv, PfConfTypeOK, PatchSettles
  <1>. QED BY <1>1, PatchOurs, PatchForeign DEF PfConfNext

(* A patched pf.conf reaches our two anchors once each and before the rules of *)
(* others, a file pfctl parsed is still parsed unless it has translation rules *)
(* and no filter rules, the hosts file has the entries last asked for and one  *)
(* block, a second patch changes nothing, and a removal gives back the lines   *)
(* others left: for files and edits of any length.                             *)
THEOREM PatchesApplyAlways == PfConfSpec => []PatchesApply
  <1>. QED BY PatchStarts, PatchStep, PatchMeans, PTL DEF PfConfSpec

(* The lines of others in two files put together. *)
LEMMA ForeignJoined ==
  ASSUME NEW s \in Seq(Line), NEW t \in Seq(Line)
  PROVE  /\ Foreigners(s) \in Seq(Line) /\ Foreigners(t) \in Seq(Line)
         /\ Foreigners(s \o t) = Foreigners(s) \o Foreigners(t)
  <1>. DEFINE m == Len(s)
              n == Len(t)
              r == s \o t
              P == {i \in 1 .. m : ~s[i].ours}
              Q == {i \in 1 .. n : ~t[i].ours}
              R == {i \in 1 .. Len(r) : ~r[i].ours}
  <1>1. /\ r \in Seq(Line) /\ Len(r) = m + n
        /\ \A i \in 1 .. m + n : r[i] = IF i <= m THEN s[i] ELSE t[i - m]
    BY ConcatProperties
  <1>2. m \in Nat /\ n \in Nat /\ m \in 0 .. m /\ n \in 0 .. n
    OBVIOUS
  <1>3. PICK k : Collects(k, Line, s, P)
    BY LinesAtFacts
  <1>4. PICK q : Collects(q, Line, t, Q)
    BY LinesAtFacts
  <1>5. Foreigners(s) = k[m] /\ Foreigners(t) = q[n]
    <2>1. LinesAt(s, P) = k[m]
      BY <1>3, LinesAtFacts
    <2>2. LinesAt(t, Q) = q[n]
      BY <1>4, LinesAtFacts
    <2>. QED BY <2>1, <2>2 DEF Foreigners
  <1>6. (\A i \in 0 .. m : k[i] \in Seq(Line)) /\ (\A i \in 0 .. n : q[i] \in Seq(Line)) /\ q[0] = <<>> /\ k[0] = <<>>
    BY <1>3, <1>4 DEF Collects
  <1>. DEFINE f == [i \in 0 .. m + n |-> IF i <= m THEN k[i] ELSE k[m] \o q[i - m]]
  <1>. HIDE DEF r
  <1>7. \A i \in 1 .. m + n : i \in R <=> IF i <= m THEN i \in P ELSE i - m \in Q
    <2>1. \A i \in 1 .. m + n : (i <= m => i \in 1 .. m) /\ (i > m => i - m \in 1 .. n) /\ (i <= m \/ i > m)
      BY <1>2
    <2>. HIDE DEF m, n
    <2>. QED BY <1>1, <2>1
  <1>. HIDE DEF m, n, P, Q, R
  <1>8. \A i \in 0 .. m + n : f[i] = IF i <= m THEN k[i] ELSE k[m] \o q[i - m]
    OBVIOUS
  <1>9. ASSUME NEW i \in 0 .. m + n PROVE f[i] \in Seq(Line)
    <2>1. CASE i <= m
      <3>1. i \in 0 .. m
        BY <1>2, <2>1
      <3>. QED BY <3>1, <2>1, <1>6, <1>8
    <2>2. CASE ~(i <= m)
      <3>1. i - m \in 0 .. n
        BY <1>2, <2>2
      <3>2. k[m] \o q[i - m] \in Seq(Line)
        BY <3>1, <1>2, <1>6, ConcatProperties
      <3>. QED BY <3>2, <2>2, <1>8
    <2>. QED BY <2>1, <2>2
  <1>10. f \in [0 .. m + n -> Seq(Line)]
    BY <1>9
  <1>. HIDE DEF f
  <1>11. ASSUME NEW i \in 1 .. m + n PROVE f[i] = IF i \in R THEN Append(f[i - 1], r[i]) ELSE f[i - 1]
    <2>0. i \in 0 .. m + n /\ i - 1 \in 0 .. m + n
      BY <1>2
    <2>1. CASE i <= m
      <3>1. i \in 1 .. m /\ i - 1 <= m
        BY <1>2, <2>1
      <3>2. f[i] = k[i] /\ f[i - 1] = k[i - 1] /\ r[i] = s[i] /\ (i \in R <=> i \in P)
        BY <2>0, <2>1, <3>1, <1>1, <1>7, <1>8
      <3>3. k[i] = IF i \in P THEN Append(k[i - 1], s[i]) ELSE k[i - 1]
        BY <3>1, <1>3 DEF Collects, m
      <3>. QED BY <3>2, <3>3
    <2>2. CASE i > m
      <3>. DEFINE j == i - m
                  a == k[m]
                  b == q[j - 1]
                  x == t[j]
      <3>1. j \in 1 .. n /\ j - 1 \in 0 .. n /\ ~(i <= m) /\ (i - 1) - m = j - 1 /\ (j - 1 = 0 \/ ~(i - 1 <= m))
        BY <1>2, <2>2
      <3>2. f[i] = a \o q[j] /\ r[i] = x /\ (i \in R <=> j \in Q)
        BY <2>0, <3>1, <1>1, <1>7, <1>8
      <3>3. q[j] = IF j \in Q THEN Append(b, x) ELSE b
        BY <3>1, <1>4 DEF Collects, n
      <3>4. a \in Seq(Line) /\ b \in Seq(Line) /\ x \in Line
        BY <3>1, <1>2, <1>6 DEF n
      <3>5. f[i - 1] = a \o b
        <4>1. CASE ~(i - 1 <= m)
          BY <4>1, <2>0, <3>1, <1>8
        <4>2. CASE i - 1 <= m
          <5>1. i - 1 = m /\ j - 1 = 0
            BY <4>2, <3>1, <1>2, <2>2
          <5>2. f[i - 1] = a /\ b = <<>>
            BY <5>1, <4>2, <2>0, <1>6, <1>8
          <5>. HIDE DEF a, b
          <5>. QED BY <5>2, <3>4, ConcatEmptySeq
        <4>. QED BY <4>1, <4>2
      <3>. HIDE DEF a, b, x
      <3>6. Append(a \o b, x) = a \o Append(b, x)
        <4>1. <<x>> \in Seq(Line) /\ a \o b \in Seq(Line)
          BY <3>4
        <4>2. Append(a \o b, x) = (a \o b) \o <<x>> /\ Append(b, x) = b \o <<x>>
          BY <3>4, <4>1, AppendIsConcat
        <4>3. (a \o b) \o <<x>> = a \o (b \o <<x>>)
          BY SMTT(30), <3>4, <4>1, ConcatAssociative
        <4>. QED BY <4>2, <4>3
      <3>7. CASE j \in Q
        BY <3>7, <3>2, <3>3, <3>5, <3>6
      <3>8. CASE j \notin Q
        BY <3>8, <3>2, <3>3, <3>5
      <3>. QED BY <3>7, <3>8
    <2>. QED BY <2>1, <2>2, <1>2
  <1>12. f[0] = <<>>
    BY <1>2, <1>6, <1>8
  <1>13. Collects(f, Line, r, R)
    BY <1>1, <1>10, <1>11, <1>12 DEF Collects
  <1>14. Foreigners(r) = f[m + n]
    <2>1. LinesAt(r, R) = f[m + n]
      BY <1>1, <1>13, LinesAtFacts
    <2>. QED BY <2>1 DEF Foreigners, R
  <1>15. f[m + n] = k[m] \o q[n]
    <2>1. m + n \in 0 .. m + n /\ (m + n) - m = n /\ (n = 0 \/ ~(m + n <= m))
      BY <1>2
    <2>2. CASE n = 0
      <3>1. m + n = m /\ m <= m /\ q[n] = <<>> /\ k[m] \in Seq(Line)
        BY <2>2, <1>2, <1>6
      <3>2. k[m] \o <<>> = k[m]
        BY <3>1, ConcatEmptySeq
      <3>. QED BY <3>1, <3>2, <2>1, <1>8
    <2>3. CASE ~(m + n <= m)
      BY <2>1, <2>3, <1>8
    <2>. QED BY <2>1, <2>2, <2>3
  <1>. QED BY <1>2, <1>5, <1>6, <1>14, <1>15 DEF r

(* Lines of ours are no lines of others. *)
LEMMA ForeignOurs == ASSUME NEW s \in Seq(Line), AllOurs(s) PROVE Foreigners(s) = <<>>
  <1>. DEFINE P == {i \in 1 .. Len(s) : ~s[i].ours}
  <1>1. PICK k : Collects(k, Line, s, P)
    BY LinesAtFacts
  <1>2. 0 \in 0 .. Len(s) /\ Len(s) \in 0 .. Len(s) /\ \A i \in 0 + 1 .. Len(s) : i \notin P
    BY DEF AllOurs
  <1>. HIDE DEF P
  <1>3. Between(k, Line, s, P, 0, Len(s))
    BY <1>1, <1>2, CollectsParts
  <1>4. k[Len(s)] = k[0] /\ k[0] = <<>>
    BY <1>1, <1>2, <1>3 DEF Between, Collects
  <1>5. LinesAt(s, P) = k[Len(s)]
    BY <1>1, LinesAtFacts
  <1>. QED BY <1>4, <1>5 DEF Foreigners, P

(* The lines of others among lines at some places, when theirs are all there. *)
LEMMA ForeignPlaces ==
  ASSUME NEW s \in Seq(Line), NEW P, \A i \in 1 .. Len(s) : ~s[i].ours => i \in P
  PROVE  Foreigners(LinesAt(s, P)) = Foreigners(s)
  <1>. DEFINE Q == {i \in 1 .. Len(s) : ~s[i].ours}
  <1>1. PICK k : Collects(k, Line, s, P)
    BY LinesAtFacts
  <1>2. PICK q : Collects(q, Line, s, Q)
    BY LinesAtFacts
  <1>3. LinesAt(s, P) = k[Len(s)] /\ LinesAt(s, Q) = q[Len(s)]
    BY <1>1, <1>2, LinesAtFacts
  <1>4. Foreigners(s) = q[Len(s)]
    BY <1>3 DEF Foreigners
  <1>5. \A i \in 1 .. Len(s) : i \in Q <=> ~s[i].ours
    OBVIOUS
  <1>. HIDE DEF Q
  <1>. DEFINE T == {i \in 0 .. Len(s) : Foreigners(k[i]) = q[i]}
  <1>6. 0 \in T
    <2>1. k[0] = <<>> /\ q[0] = <<>>
      BY <1>1, <1>2 DEF Collects
    <2>2. <<>> \in Seq(Line) /\ AllOurs(<<>>)
      BY DEF AllOurs
    <2>3. Foreigners(<<>>) = <<>>
      BY <2>2, ForeignOurs
    <2>4. 0 \in 0 .. Len(s)
      OBVIOUS
    <2>. QED BY <2>1, <2>3, <2>4
  <1>7. ASSUME NEW i \in 1 .. Len(s), i - 1 \in T PROVE i \in T
    <2>. DEFINE x == s[i]
                a == k[i - 1]
    <2>1. i - 1 \in 0 .. Len(s) /\ i \in 0 .. Len(s) /\ x \in Line
      OBVIOUS
    <2>2. a \in Seq(Line) /\ q[i - 1] \in Seq(Line)
      BY <2>1, <1>1, <1>2 DEF Collects
    <2>3. Foreigners(a) = q[i - 1]
      BY <1>7
    <2>4. k[i] = IF i \in P THEN Append(a, x) ELSE a
      BY <1>1 DEF Collects
    <2>5. q[i] = IF i \in Q THEN Append(q[i - 1], x) ELSE q[i - 1]
      BY <1>2 DEF Collects
    <2>6. i \in Q <=> ~x.ours
      BY <1>5
    <2>7. ~x.ours => i \in P
      OBVIOUS
    <2>. HIDE DEF a, x, T
    <2>8. <<x>> \in Seq(Line) /\ Append(a, x) = a \o <<x>>
      BY <2>1, <2>2, AppendIsConcat
    <2>9. Foreigners(a \o <<x>>) = Foreigners(a) \o Foreigners(<<x>>)
      BY <2>2, <2>8, ForeignJoined
    <2>10. CASE x.ours
      <3>1. AllOurs(<<x>>)
        BY <2>10 DEF AllOurs
      <3>2. Foreigners(<<x>>) = <<>>
        BY <3>1, <2>8, ForeignOurs
      <3>3. q[i - 1] \o <<>> = q[i - 1]
        BY <2>2, ConcatEmptySeq
      <3>4. Foreigners(k[i]) = q[i]
        BY <3>2, <3>3, <2>3, <2>4, <2>5, <2>6, <2>8, <2>9, <2>10
      <3>. QED BY <3>4, <2>1 DEF T
    <2>11. CASE ~x.ours
      <3>1. Foreigners(<<x>>) = <<x>>
        <4>. DEFINE y == <<x>>
                    Z == {j \in 1 .. Len(y) : ~y[j].ours}
        <4>1. y \in Seq(Line) /\ Len(y) = 1 /\ y[1] = x /\ 1 \in Z /\ 1 \in 1 .. Len(y)
          BY <2>1, <2>11
        <4>. HIDE DEF y, Z
        <4>2. PICK w : Collects(w, Line, y, Z)
          BY <4>1, LinesAtFacts
        <4>3. LinesAt(y, Z) = w[1]
          BY <4>1, <4>2, LinesAtFacts
        <4>4. w[1] = Append(w[1 - 1], y[1]) /\ w[0] = <<>>
          BY <4>1, <4>2 DEF Collects
        <4>5. w[1] = <<x>>
          <5>0. 1 - 1 = 0
            OBVIOUS
          <5>a. w[1] = Append(w[0], y[1])
            BY <4>4, <5>0, Zenon
          <5>1. w[1] = Append(<<>>, x)
            BY <4>1, <4>4, <5>a, Zenon
          <5>2. <<>> \in Seq(Line) /\ <<>> \o <<x>> = <<x>>
            BY <2>8, ConcatEmptySeq
          <5>3. Append(<<>>, x) = <<>> \o <<x>>
            BY <2>1, <5>2, AppendIsConcat
          <5>. QED BY <5>1, <5>2, <5>3
        <4>. QED BY <4>3, <4>5 DEF Foreigners, y, Z
      <3>2. Append(q[i - 1], x) = q[i - 1] \o <<x>>
        BY <2>1, <2>2, AppendIsConcat
      <3>3. Foreigners(k[i]) = q[i]
        BY <3>1, <3>2, <2>3, <2>4, <2>5, <2>6, <2>7, <2>8, <2>9, <2>11
      <3>. QED BY <3>3, <2>1 DEF T
    <2>. QED BY <2>10, <2>11
  <1>8. \A i \in 0 .. Len(s) : i \in T
    <2>1. Len(s) \in Nat
      OBVIOUS
    <2>. HIDE DEF T
    <2>. QED BY <2>1, <1>6, <1>7, Counting
  <1>9. Len(s) \in 0 .. Len(s)
    OBVIOUS
  <1>. QED BY <1>3, <1>4, <1>8, <1>9

(* When blocks hold lines of ours only, stripping keeps every line of others. *)
LEMMA ForeignStripped ==
  ASSUME NEW p, NEW s \in Seq(Line), Known(p, s), Tidy(p, s)
  PROVE  Foreigners(Strip(p, s)) = Foreigners(s)
  <1>. DEFINE P == {n \in (1 .. Len(s)) \ Enclosed(p, s) : s[n].kind \notin {"end"} \cup Statement}
  <1>1. \A k \in ForeignKinds(p) : k \notin Marker \cup Statement
    BY DEF ForeignKinds, Marker, Statement
  <1>2. ASSUME NEW n \in 1 .. Len(s), ~s[n].ours PROVE n \in P
    <2>1. s[n].kind \notin Marker \cup Statement
      BY <1>1, <1>2 DEF Known
    <2>2. ASSUME n \in Enclosed(p, s) PROVE FALSE
      <3>1. PICK i \in 1 .. n : s[i].kind = "begin" /\ n <= Closing(p, s, i)
        BY <2>2, EnclosedLines
      <3>. DEFINE j == Closing(p, s, i)
      <3>2. i \in 1 .. Len(s) /\ i \in Nat /\ n \in i .. Len(s)
        BY <3>1
      <3>3. j \in i .. Len(s)
        BY <3>2, ClosingFacts
      <3>4. j # i => /\ s[j].kind = "end" /\ j <= i + Reach(p, s)
                     /\ \A m \in i + 1 .. j - 1 : s[m].kind # "end"
        BY <3>2, ClosingFacts
      <3>5. n <= j
        BY <3>1
      <3>. HIDE DEF j
      <3>6. CASE j = i
        <4>1. n = i
          BY <3>2, <3>5, <3>6
        <4>. QED BY <4>1, <3>1, <2>1 DEF Marker
      <3>7. CASE j # i
        <4>1. i < j /\ j \in 1 .. Len(s) /\ n \in i .. j
          BY <3>2, <3>3, <3>5, <3>7
        <4>2. (\A m \in i .. j : s[m].ours) \/ \E m \in i .. j - 1 : s[m].kind = "end"
          BY <4>1, <3>1, <3>2, <3>4, <3>7 DEF Tidy
        <4>3. ASSUME NEW m \in i .. j - 1, s[m].kind = "end" PROVE FALSE
          <5>1. m = i \/ m \in i + 1 .. j - 1
            BY <3>2, <3>3
          <5>. QED BY <5>1, <4>3, <3>1, <3>4, <3>7
        <4>. QED BY <4>1, <4>2, <4>3, <1>2
      <3>. QED BY <3>6, <3>7
    <2>. QED BY <2>1, <2>2 DEF Marker
  <1>3. Strip(p, s) = LinesAt(s, P)
    BY DEF Strip
  <1>. HIDE DEF P
  <1>. QED BY <1>2, <1>3, ForeignPlaces

(* The lines of others are the same before and after a patch or a removal. *)
LEMMA ForeignAfter ==
  ASSUME NEW f \in Text, NEW p, Known(p, f.lines), Tidy(p, f.lines)
  PROVE  /\ p = "pf.conf" => /\ Foreigners(Plan(f.lines).lines) = Foreigners(f.lines)
                             /\ Foreigners(Removal(f.lines).lines) = Foreigners(f.lines)
         /\ p = "hosts" => \A e \in {<<>>, <<"e1">>, <<"e1", "e2">>} :
                               Foreigners(HostsPlan(f, e).lines) = Foreigners(f.lines)
  <1>. DEFINE s == f.lines
              base == Strip(p, s)
  <1>1. s \in Seq(Line) /\ f.newline \in BOOLEAN
    BY DEF Text
  <1>2. base \in Seq(Line)
    <2>. HIDE DEF s
    <2>. QED BY <1>1, StripFacts
  <1>3. Foreigners(base) = Foreigners(s)
    <2>. HIDE DEF s
    <2>. QED BY <1>1, ForeignStripped DEF s
  <1>4. ASSUME NEW nl \in BOOLEAN PROVE Foreigners(Join(base, nl).lines) = Foreigners(s)
    <2>. HIDE DEF base
    <2>1. CASE base = <<>>
      <3>. DEFINE l == IF nl THEN <<Blank>> ELSE <<>>
      <3>1. l \in Seq(Line) /\ AllOurs(l)
        <4>1. Blank \in Line /\ Blank.ours
          BY DEF Blank, Mine, Line, ForeignKinds
        <4>2. CASE nl
          BY <4>1, <4>2 DEF AllOurs
        <4>3. CASE ~nl
          BY <4>3 DEF AllOurs
        <4>. QED BY <4>2, <4>3
      <3>2. Join(base, nl).lines = l
        BY <2>1 DEF Join
      <3>. HIDE DEF l
      <3>3. Foreigners(l) = <<>>
        BY <3>1, ForeignOurs
      <3>4. <<>> \in Seq(Line) /\ AllOurs(<<>>)
        BY DEF AllOurs
      <3>5. Foreigners(<<>>) = <<>>
        BY <3>4, ForeignOurs
      <3>. QED BY <2>1, <3>2, <3>3, <3>5, <1>3
    <2>2. CASE base # <<>>
      <3>1. Join(base, nl).lines = base
        BY <2>2 DEF Join
      <3>. QED BY <3>1, <1>3
    <2>. QED BY <2>1, <2>2
  <1>5. ASSUME p = "pf.conf" PROVE Foreigners(Plan(s).lines) = Foreigners(s)
    <2>. DEFINE r == Plan(s).lines
    <2>1. PICK a, b, B, E : Shaped(base, r, a, b, B, E)
      BY <1>1, <1>5, PlanShape
    <2>. DEFINE A == SubSeq(base, 1, a)
                C == SubSeq(base, a + 1, b)
                D == SubSeq(base, b + 1, Len(base))
    <2>. HIDE DEF base, s, r
    <2>2. B \in Seq(Line) /\ AllOurs(B) /\ E \in Seq(Line) /\ AllOurs(E)
      BY <2>1, ShapeIsOurs
    <2>3. r = (((A \o B) \o C) \o E) \o D /\ a \in 0 .. Len(base) /\ b \in a .. Len(base) /\ Len(base) \in Nat
      BY <2>1, <1>2 DEF Shaped
    <2>4. A \in Seq(Line) /\ C \in Seq(Line) /\ D \in Seq(Line)
      <3>1. /\ 1 \in 1 .. Len(base) + 1 /\ a \in 1 - 1 .. Len(base)
            /\ a + 1 \in 1 .. Len(base) + 1 /\ b \in (a + 1) - 1 .. Len(base)
            /\ b + 1 \in 1 .. Len(base) + 1 /\ Len(base) \in (b + 1) - 1 .. Len(base)
        BY <2>3
      <3>2. A \in Seq(Line)
        BY <3>1, <1>2, SubSeqFacts
      <3>3. C \in Seq(Line)
        BY <3>1, <1>2, SubSeqFacts
      <3>4. D \in Seq(Line)
        BY <3>1, <1>2, SubSeqFacts
      <3>. QED BY <3>2, <3>3, <3>4
    <2>5. (A \o C) \o D = base
      <3>1. A \o C = SubSeq(base, 1, b)
        <4>1. 1 \in 1 .. Len(base) + 1 /\ a \in 1 - 1 .. Len(base) /\ b \in a .. Len(base)
          BY <2>3
        <4>. QED BY <4>1, <1>2, ConcatAdjacentSubSeq
      <3>2. SubSeq(base, 1, b) \o D = SubSeq(base, 1, Len(base))
        <4>1. 1 \in 1 .. Len(base) + 1 /\ b \in 1 - 1 .. Len(base) /\ Len(base) \in b .. Len(base)
          BY <2>3
        <4>. QED BY <4>1, <1>2, ConcatAdjacentSubSeq
      <3>3. SubSeq(base, 1, Len(base)) = base
        BY <1>2, SubSeqFull
      <3>. QED BY <3>1, <3>2, <3>3
    <2>. HIDE DEF A, C, D
    <2>6. ASSUME NEW x \in Seq(Line), NEW y \in Seq(Line), AllOurs(y)
          PROVE  x \o y \in Seq(Line) /\ Foreigners(x \o y) = Foreigners(x)
      <3>1. x \o y \in Seq(Line)
        BY <2>6, ConcatProperties
      <3>2. Foreigners(y) = <<>>
        BY <2>6, ForeignOurs
      <3>3. Foreigners(x \o y) = Foreigners(x) \o Foreigners(y) /\ Foreigners(x) \in Seq(Line)
        BY <2>6, ForeignJoined
      <3>4. Foreigners(x) \o <<>> = Foreigners(x)
        BY <3>3, ConcatEmptySeq
      <3>. QED BY <3>1, <3>2, <3>3, <3>4
    <2>. DEFINE AB == A \o B
                ABC == AB \o C
                ABCE == ABC \o E
                AC == A \o C
    <2>7. AB \in Seq(Line) /\ Foreigners(AB) = Foreigners(A)
      BY <2>2, <2>4, <2>6
    <2>8. AC \in Seq(Line) /\ Foreigners(AC) = Foreigners(A) \o Foreigners(C)
      <3>1. AC \in Seq(Line)
        BY <2>4, ConcatProperties
      <3>2. Foreigners(AC) = Foreigners(A) \o Foreigners(C)
        BY <2>4, ForeignJoined
      <3>. QED BY <3>1, <3>2
    <2>9. Foreigners(base) = Foreigners(AC) \o Foreigners(D)
      <3>. HIDE DEF AC
      <3>1. Foreigners(AC \o D) = Foreigners(AC) \o Foreigners(D)
        BY <2>4, <2>8, ForeignJoined
      <3>. QED BY <3>1, <2>5 DEF AC
    <2>10. r = ABCE \o D
      BY <2>3
    <2>. HIDE DEF AB, AC
    <2>11. ABC \in Seq(Line) /\ Foreigners(ABC) = Foreigners(AB) \o Foreigners(C)
      <3>1. ABC \in Seq(Line)
        BY <2>4, <2>7, ConcatProperties
      <3>2. Foreigners(ABC) = Foreigners(AB) \o Foreigners(C)
        BY <2>4, <2>7, ForeignJoined
      <3>. QED BY <3>1, <3>2
    <2>. HIDE DEF ABC
    <2>12. ABCE \in Seq(Line) /\ Foreigners(ABCE) = Foreigners(ABC)
      BY <2>2, <2>6, <2>11
    <2>. HIDE DEF ABCE
    <2>13. Foreigners(r) = Foreigners(ABCE) \o Foreigners(D)
      BY <2>4, <2>10, <2>12, ForeignJoined
    <2>. QED BY <2>7, <2>8, <2>9, <2>11, <2>12, <2>13, <1>3 DEF r
  <1>6. ASSUME p = "pf.conf" PROVE Foreigners(Removal(s).lines) = Foreigners(s)
    <2>. DEFINE nl == base # <<>>
    <2>1. nl \in BOOLEAN /\ Removal(s) = Join(base, nl)
      BY <1>6 DEF Removal
    <2>. HIDE DEF nl, base, s
    <2>. QED BY <2>1, <1>4
  <1>7. ASSUME p = "hosts", NEW e \in {<<>>, <<"e1">>, <<"e1", "e2">>}
        PROVE  Foreigners(HostsPlan(f, e).lines) = Foreigners(s)
    <2>1. CASE e = <<>>
      <3>1. HostsPlan(f, e) = Join(base, f.newline)
        BY <2>1, <1>7 DEF HostsPlan
      <3>. HIDE DEF base, s
      <3>. QED BY <3>1, <1>1, <1>4
    <2>2. CASE e # <<>>
      <3>. DEFINE B == Block(e)
                  r == base \o B
      <3>1. B \in Seq(Line) /\ AllOurs(B)
        <4>1. <<"e1">> \in Seq(Statement \cup {"e1", "e2"}) /\ <<"e1", "e2">> \in Seq(Statement \cup {"e1", "e2"})
          OBVIOUS
        <4>2. e \in Seq(Statement \cup {"e1", "e2"})
          BY <4>1, <2>2
        <4>. QED BY <4>2, BlockIsOurs
      <3>2. HostsPlan(f, e) = Join(r, TRUE)
        BY <2>2, <1>7 DEF HostsPlan
      <3>3. r # <<>>
        <4>1. Len(r) = Len(base) + Len(B) /\ Len(base) \in Nat /\ Len(B) \in Nat
          <5>. HIDE DEF base, B
          <5>. QED BY <3>1, <1>2, ConcatProperties
        <4>2. Len(B) = Len(e) + 2 /\ Len(e) \in Nat
          <5>1. <<"e1">> \in Seq(Statement \cup {"e1", "e2"}) /\ <<"e1", "e2">> \in Seq(Statement \cup {"e1", "e2"})
            OBVIOUS
          <5>2. e \in Seq(Statement \cup {"e1", "e2"})
            BY <5>1, <2>2
          <5>. QED BY <5>2, BlockFacts
        <4>. HIDE DEF r, B
        <4>3. Len(r) # 0
          BY <4>1, <4>2
        <4>. QED BY <4>3
      <3>. HIDE DEF B, base, s
      <3>4. Foreigners(r) = Foreigners(base) \o Foreigners(B) /\ Foreigners(base) \in Seq(Line)
        BY <3>1, <1>2, ForeignJoined
      <3>5. Foreigners(B) = <<>>
        BY <3>1, ForeignOurs
      <3>6. Foreigners(base) \o <<>> = Foreigners(base)
        BY <3>4, ConcatEmptySeq
      <3>7. Join(r, TRUE).lines = r
        BY <3>3 DEF Join
      <3>. QED BY <3>2, <3>4, <3>5, <3>6, <3>7, <1>3
    <2>. QED BY <2>1, <2>2
  <1>. QED BY <1>5, <1>6, <1>7

(* Our commands keep every line of others and their order, as long as no line  *)
(* of others stands between two markers that pair.                             *)
THEOREM ForeignLinesStay == PfConfSpec => ForeignKept
  <1>1. PatchInv /\ [PfConfNext]_pfConfVars =>
            [Ours /\ Tidy(which, file.lines) => Foreigners(file'.lines) = Foreigners(file.lines)]_pfConfVars
    <2>1. SUFFICES ASSUME PatchInv, Ours, Tidy(which, file.lines)
                   PROVE  Foreigners(file'.lines) = Foreigners(file.lines)
      OBVIOUS
    <2>2. file \in Text /\ Known(which, file.lines)
      BY <2>1 DEF PatchInv, PfConfTypeOK
    <2>3. \/ file' = file
          \/ which = "pf.conf" /\ file' = Plan(file.lines)
          \/ which = "pf.conf" /\ file' = Removal(file.lines)
          \/ which = "hosts" /\ \E e \in {<<>>, <<"e1">>, <<"e1", "e2">>} : file' = HostsPlan(file, e)
      BY <2>1 DEF Ours, EnsureStatements, RemoveStatements, Apply
    <2>4. CASE which = "pf.conf" /\ file' = Plan(file.lines)
      BY <2>1, <2>2, <2>4, ForeignAfter
    <2>5. CASE which = "pf.conf" /\ file' = Removal(file.lines)
      BY <2>1, <2>2, <2>5, ForeignAfter
    <2>6. CASE which = "hosts" /\ \E e \in {<<>>, <<"e1">>, <<"e1", "e2">>} : file' = HostsPlan(file, e)
      BY <2>1, <2>2, <2>6, ForeignAfter
    <2>7. CASE file' = file
      BY <2>7
    <2>. QED BY <2>3, <2>4, <2>5, <2>6, <2>7
  <1>. QED BY <1>1, PatchStarts, PatchStep, PTL DEF PfConfSpec, ForeignKept
=============================================================================
