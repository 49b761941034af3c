--------------------------- MODULE Datapath_proofs ---------------------------
(***************************************************************************)
(* What comes out of the divert transport and of the relays of the proxy   *)
(* transport, for every packet, profile and request.                       *)
(*                                                                         *)
(* Emit: the data of a plan tile the payload (Desync_proofs). The packets  *)
(* of a plan are its units in their order (Emitting), the frames of a      *)
(* packet are it again, and a receiver that takes parts as they come has   *)
(* what was tiled when the last part has come. What is injected is then    *)
(* a beginning of the packets of the plan at every moment (DatapathInv),   *)
(* and all of them when it ends without a failure.                         *)
(*                                                                         *)
(* Relay: what a relay has still to write and what it has written are      *)
(* together a stream that is the request (Writing), the TTL is the one the *)
(* socket had whenever that could be read, and the pool counts the relays  *)
(* that live (RelayInv).                                                   *)
(***************************************************************************)
EXTENDS Desync_proofs, Emit, Relay

(***************************************************************************)
(* The datapath of the divert transport.                                   *)
(***************************************************************************)
(* The plan the engine makes of a packet. *)
PlanFor(c, p) == Run(p.ops, c, p.unsupported)
LEMMA ProfileOps == ASSUME NEW p \in Profiles PROVE p.ops \in Seq(Operation)
  BY EmitAssumption DEF Profile
LEMMA ContextCaps ==
    ASSUME NEW c \in Contexts
    PROVE  c \in Context /\ "inject" \in c.caps /\ c.caps \in {FullCaps, RawCaps}
  <1>1. c \in Context /\ c.caps \in {FullCaps, RawCaps}
    BY EmitAssumption
  <1>2. "inject" \in FullCaps /\ "inject" \in RawCaps
    BY DEF FullCaps, RawCaps
  <1>. QED BY <1>1, <1>2
LEMMA BlockingIs == ASSUME NEW p PROVE Blocking(p.ops) <=> Blocked(p)
  BY DEF Blocking, Blocked
LEMMA PlanWhole ==
    ASSUME NEW c \in Contexts, NEW p \in Profiles
    PROVE  Whole(c, TTLs(p.ops, c), Blocking(p.ops), PlanFor(c, p))
  BY ProfileOps, ContextCaps, PlanHoldsPayload DEF PlanFor
(* Data segments of a plan for a packet that may be injected tile its payload. *)
Exact(c, ds) == \E F, n, p, b : Form(c, F) /\ Tiling(ds, n, F, p, b) /\ Len(F) = c.len /\ F \in Bytes
LEMMA SegsExact ==
    ASSUME NEW c \in Contexts, NEW T, NEW cut, NEW segs, SegsLawful(c, T, cut, segs)
    PROVE  segs \in UnitSeq(T) /\ (DataOf(segs) = <<>> \/ Exact(c, DataOf(segs)))
           /\ (segs # <<>> /\ ~c.syn /\ c.len > 0 => DataOf(segs) # <<>>)
  <1>1. Good(c, DataOf(segs), cut) /\ segs \in UnitSeq(T) /\ (segs # <<>> /\ ~c.syn /\ c.len > 0 => DataOf(segs) # <<>>)
    BY DEF SegsLawful
  <1>2. \A F : Form(c, F) => Len(F) = c.len /\ F \in Bytes
    BY ContextCaps DEF Form
  <1>3. CASE DataOf(segs) = <<>>
    BY <1>1, <1>3
  <1>4. CASE \E F, n, p, b : Form(c, F) /\ Tiling(DataOf(segs), n, F, p, b) /\ Divided(c, F, n, b, cut)
    <2>1. Exact(c, DataOf(segs))
      BY <1>2, <1>4, Zenon DEF Exact
    <2>. QED BY <1>1, <2>1
  <1>. QED BY <1>1, <1>3, <1>4, Zenon DEF Good
LEMMA TiledCheck ==
    ASSUME NEW c \in Contexts, NEW T, NEW cut, NEW segs, SegsLawful(c, T, cut, segs)
    PROVE  CheckDataTiling(segs, c.len)
  <1>1. segs \in UnitSeq(T) /\ (DataOf(segs) = <<>> \/ Exact(c, DataOf(segs)))
    BY SegsExact
  <1>2. CASE DataOf(segs) = <<>>
    <2>1. SegDataIdx(segs) = <<>>
      <3>1. Good(c, DataOf(segs), FALSE)
        BY <1>2 DEF Good
      <3>2. c \in Context /\ FALSE \in BOOLEAN
        BY ContextCaps
      <3>. QED BY <1>1, <1>2, <3>1, <3>2, IdxEmpty, Zenon
    <2>. QED BY <2>1 DEF CheckDataTiling
  <1>3. CASE Exact(c, DataOf(segs))
    <2>1. PICK F, n, p, b : Form(c, F) /\ Tiling(DataOf(segs), n, F, p, b) /\ Len(F) = c.len /\ F \in Bytes
      BY <1>3, Zenon DEF Exact
    <2>2. SegSpans(segs, Len(F))
      <3>1. Spanned(segs, SegDataIdx(segs), n, F, b)
        BY <1>1, <2>1, SpansIs, Zenon
      <3>2. Len(F) \in Int
        BY <2>1, ContextCaps, ContextFacts
      <3>. QED BY <3>1, <3>2, Zenon DEF Spanned
    <2>. QED BY <2>1, <2>2 DEF CheckDataTiling
  <1>. QED BY <1>1, <1>2, <1>3
LEMMA TCPBuildable ==
    ASSUME NEW c \in Contexts, NEW p \in Profiles, ~c.udp
    PROVE  Buildable(c, PlanFor(c, p))
  <1>1. Whole(c, TTLs(p.ops, c), Blocking(p.ops), PlanFor(c, p))
    BY PlanWhole
  <1>2. CheckDataTiling(PlanFor(c, p).segs, c.len)
    BY <1>1, TiledCheck DEF Whole
  <1>3. PlanFor(c, p).dgrams = <<>>
    BY <1>1 DEF Whole, DgramsLawful
  <1>. QED BY <1>2, <1>3 DEF Buildable

(* A plan made for a TCP packet is always built: a packet goes on as it came only *)
(* when its profile has no operation or may not touch it. checkDataTiling never   *)
(* meets data that overlap, leave a gap or miss the payload.                      *)
THEOREM PlansTileHolds == Spec => PlansTile
  <1>1. ASSUME [Next]_vars
        PROVE  [phase = "read" /\ phase' = "forward" /\ ~pkt'.udp =>
                  prof'.ops = <<>> \/ Refused(prof'.ops, pkt', prof'.unsupported)]_vars
    <2>. SUFFICES ASSUME phase = "read", phase' = "forward", ~pkt'.udp, Next,
                         ~(prof'.ops = <<>> \/ Refused(prof'.ops, pkt', prof'.unsupported))
                  PROVE  FALSE
      BY <1>1 DEF vars
    <2>1. PICK c \in Contexts, p \in Profiles : Handle(c, p)
      BY Zenon DEF Next, ReadNothing, ReadFails, ReadFatal, Stop, End, Handled, InjectOk, InjectFails, AllTried, Turn, Forward
    <2>2. pkt' = c /\ prof' = p
      BY <2>1, Zenon DEF Handle
    <2>3. Buildable(c, PlanFor(c, p))
      BY <2>2, TCPBuildable
    <2>4. EmitPlan(c, PlanFor(c, p))
      BY <2>1, <2>2, Zenon DEF Handle, PlanFor
    <2>5. phase' = "inject"
      BY <2>3, <2>4 DEF EmitPlan
    <2>. QED BY <2>5
  <1>. QED BY <1>1, PTL DEF Spec, PlansTile

(* Places I of a sequence that stand for the places J of another, in order. *)
Stands(I, J, a) ==
    /\ \A i \in I : a[i] \in J
    /\ \A j \in J : \E i \in I : a[i] = j
    /\ \A i, k \in I : i < k => a[i] < a[k]
LEMMA Thinned ==
    ASSUME NEW I \in SUBSET Int, IsFiniteSet(I), NEW J \in SUBSET Int, NEW a, Stands(I, J, a)
    PROVE  LET q == Ascending(I)
               n == Cardinality(I)
           IN  n \in Nat /\ Cardinality(J) = n /\ q \in [1 .. n -> I] /\ Ascending(J) = [k \in 1 .. n |-> a[q[k]]]
  <1>. DEFINE q == Ascending(I)
              n == Cardinality(I)
              g == [k \in 1 .. n |-> a[q[k]]]
  <1>1. /\ n \in Nat /\ q \in [1 .. n -> I]
        /\ \A i \in I : \E k \in 1 .. n : q[k] = i
        /\ \A k, l \in 1 .. n : k < l => q[k] < q[l]
    BY AscendingFacts
  <1>. HIDE DEF q, n
  <1>2. g \in [1 .. n -> J] /\ \A k \in 1 .. n : g[k] = a[q[k]]
    BY <1>1 DEF Stands
  <1>. HIDE DEF g
  <1>3. \A j \in J : \E k \in 1 .. n : g[k] = j
    <2>. SUFFICES ASSUME NEW j \in J PROVE \E k \in 1 .. n : g[k] = j
      OBVIOUS
    <2>1. PICK i \in I : a[i] = j
      BY DEF Stands
    <2>2. PICK k \in 1 .. n : q[k] = i
      BY <1>1
    <2>. QED BY <1>2, <2>1, <2>2
  <1>4. \A k, l \in 1 .. n : k < l => g[k] < g[l]
    <2>. SUFFICES ASSUME NEW k \in 1 .. n, NEW l \in 1 .. n, k < l PROVE g[k] < g[l]
      OBVIOUS
    <2>1. q[k] \in I /\ q[l] \in I /\ q[k] < q[l]
      BY <1>1
    <2>2. a[q[k]] < a[q[l]]
      BY <2>1 DEF Stands
    <2>. QED BY <1>2, <2>2
  <1>5. Ascending(J) = g /\ Cardinality(J) = n
    BY <1>1, <1>2, <1>3, <1>4, AscendingIs
  <1>. QED BY <1>1, <1>5 DEF q, n, g

(* Each unit as often as it is sent. *)
Sources(T, units, r, a) ==
    /\ r \in UnitSeq(T) /\ a \in [1 .. Len(r) -> Nat]
    /\ \A i \in 1 .. Len(r) : a[i] \in 1 .. Len(units) /\ r[i] = units[a[i]]
    /\ \A i, j \in 1 .. Len(r) : i < j => a[i] <= a[j] /\ (IsData(r[i]) => a[i] < a[j])
    /\ \A k \in 1 .. Len(units) : \E i \in 1 .. Len(r) : a[i] = k
LEMMA RepeatedIs ==
    ASSUME NEW T, NEW units \in UnitSeq(T)
    PROVE  \E a : Sources(T, units, Repeated(units), a)
  <1>. DEFINE n == Len(units)
              times(i) == [r \in 1 .. Repeats(units[i]) |-> units[i]]
              ss == [i \in DOMAIN units |-> times(i)]
              flat == FlattenSeq(ss)
  <1>1. n \in Nat /\ DOMAIN units = 1 .. n /\ \A i \in 1 .. n : units[i] \in Unit(T)
    BY DEF UnitSeq
  <1>2. \A i \in 1 .. n : Repeats(units[i]) \in Nat /\ Repeats(units[i]) >= 1 /\ (IsData(units[i]) => Repeats(units[i]) = 1)
    BY <1>1 DEF Unit, Repeats
  <1>. HIDE DEF n
  <1>3. ss \in [1 .. n -> Seq(Unit(T))]
    <2>1. \A i \in 1 .. n : times(i) \in Seq(Unit(T))
      BY <1>1, <1>2
    <2>. HIDE DEF times
    <2>. QED BY <1>1, <2>1
  <1>4. \A k \in 1 .. n : Len(ss[k]) = Repeats(units[k]) /\ \A j \in 1 .. Len(ss[k]) : ss[k][j] = units[k]
    <2>1. \A k \in 1 .. n : Len(times(k)) = Repeats(units[k]) /\ \A j \in 1 .. Repeats(units[k]) : times(k)[j] = units[k]
      BY <1>1, <1>2
    <2>2. \A k \in 1 .. n : ss[k] = times(k)
      BY <1>1
    <2>. HIDE DEF times, ss
    <2>. QED BY <2>1, <2>2
  <1>. HIDE DEF ss
  <1>5. flat \in Seq(Unit(T)) /\ \E a, b \in [1 .. Len(flat) -> Nat] : Origins(flat, n, ss, a, b)
    BY <1>1, <1>3, FlattenSplit
  <1>6. PICK a \in [1 .. Len(flat) -> Nat], b \in [1 .. Len(flat) -> Nat] : Origins(flat, n, ss, a, b)
    BY <1>5
  <1>. HIDE DEF flat
  <1>7. \A i \in 1 .. Len(flat) : a[i] \in 1 .. n /\ b[i] \in 1 .. Len(ss[a[i]]) /\ flat[i] = units[a[i]]
    BY <1>4, <1>6 DEF Origins
  <1>8. \A i, j \in 1 .. Len(flat) : i < j => a[i] <= a[j] /\ (IsData(flat[i]) => a[i] < a[j])
    <2>. SUFFICES ASSUME NEW i \in 1 .. Len(flat), NEW j \in 1 .. Len(flat), i < j
                  PROVE  a[i] <= a[j] /\ (IsData(flat[i]) => a[i] < a[j])
      OBVIOUS
    <2>1. a[i] < a[j] \/ (a[i] = a[j] /\ b[i] < b[j])
      BY <1>6 DEF Origins
    <2>2. a[i] \in Nat /\ a[j] \in Nat /\ a[i] \in 1 .. n
      BY <1>6, <1>7
    <2>3. IsData(flat[i]) => Len(ss[a[i]]) = 1
      BY <1>2, <1>4, <1>7, ZenonT(40)
    <2>4. a[i] = a[j] /\ IsData(flat[i]) => b[i] \in 1 .. 1 /\ b[j] \in 1 .. 1
      BY <1>7, <2>3
    <2>. QED BY <2>1, <2>2, <2>4
  <1>9. \A k \in 1 .. n : \E i \in 1 .. Len(flat) : a[i] = k
    <2>. SUFFICES ASSUME NEW k \in 1 .. n PROVE \E i \in 1 .. Len(flat) : a[i] = k
      OBVIOUS
    <2>1. 1 \in 1 .. Len(ss[k])
      BY <1>2, <1>4
    <2>. QED BY <1>6, <2>1 DEF Origins
  <1>10. Sources(T, units, flat, a)
    BY <1>1, <1>5, <1>6, <1>7, <1>8, <1>9 DEF Sources, UnitSeq, n
  <1>11. flat = Repeated(units)
    BY DEF flat, ss, Repeated
  <1>. QED BY <1>10, <1>11

LEMMA AtLeastOnce ==
    ASSUME NEW n \in Nat, NEW m \in Nat, NEW a \in [1 .. m -> Nat], \A k \in 1 .. n : \E i \in 1 .. m : a[i] = k,
           \A i \in 1 .. m : a[i] \in 1 .. n
    PROVE  n <= m
  <1>1. IsFiniteSet(1 .. m) /\ Cardinality(1 .. m) = m
    <2>1. IsFiniteSet(1 .. m) /\ Cardinality(1 .. m) = IF 1 > m THEN 0 ELSE m - 1 + 1
      BY FS_Interval
    <2>. QED BY <2>1
  <1>2. Cardinality(1 .. n) = n
    <2>1. Cardinality(1 .. n) = IF 1 > n THEN 0 ELSE n - 1 + 1
      BY FS_Interval
    <2>. QED BY <2>1
  <1>3. a \in Surjection(1 .. m, 1 .. n)
    BY DEF Surjection
  <1>4. Cardinality(1 .. n) <= Cardinality(1 .. m)
    BY <1>1, <1>3, FS_Surjection
  <1>. QED BY <1>1, <1>2, <1>4
LEMMA RepeatedLonger ==
    ASSUME NEW T, NEW units \in UnitSeq(T), NEW r, NEW a, Sources(T, units, r, a)
    PROVE  Len(units) <= Len(r) /\ Len(units) \in Nat /\ Len(r) \in Nat
  <1>1. Len(units) \in Nat /\ Len(r) \in Nat
    BY DEF Sources, UnitSeq
  <1>. QED BY <1>1, AtLeastOnce DEF Sources
(* What carries data is sent once. *)
LEMMA RepeatedData ==
    ASSUME NEW T, NEW units \in UnitSeq(T), NEW r, NEW a, Sources(T, units, r, a)
    PROVE  DataOf(r) = DataOf(units)
  <1>. DEFINE I == DataAt(r)
              J == DataAt(units)
              q == Ascending(I)
              n == Cardinality(I)
              x == DataOf(r)
              y == DataOf(units)
  <1>1. /\ r \in UnitSeq(T) /\ Len(r) \in Nat /\ Len(units) \in Nat /\ a \in [1 .. Len(r) -> Nat]
        /\ \A i \in 1 .. Len(r) : a[i] \in 1 .. Len(units) /\ r[i] = units[a[i]]
        /\ \A i, j \in 1 .. Len(r) : i < j => a[i] <= a[j] /\ (IsData(r[i]) => a[i] < a[j])
        /\ \A k \in 1 .. Len(units) : \E i \in 1 .. Len(r) : a[i] = k
    BY RepeatedLonger DEF Sources
  <1>2. I = {i \in 1 .. Len(r) : IsData(r[i])} /\ J = {i \in 1 .. Len(units) : IsData(units[i])}
    BY <1>1, NoData
  <1>3. I \in SUBSET (1 .. Len(r)) /\ J \in SUBSET (1 .. Len(units)) /\ I \in SUBSET Int /\ J \in SUBSET Int
    BY <1>1, <1>2
  <1>4. Stands(I, J, a)
    BY <1>1, <1>2 DEF Stands
  <1>. HIDE DEF I, J
  <1>5. r \in Seq(Unit(T)) /\ units \in Seq(Unit(T))
    BY <1>1 DEF UnitSeq
  <1>6. /\ x \in Seq(Unit(T)) /\ Len(x) = n /\ \A k \in 1 .. n : x[k] = r[q[k]]
        /\ q \in [1 .. n -> I] /\ IsFiniteSet(I)
    <2>1. x = Chosen(r, I)
      BY DEF DataOf, I
    <2>. QED BY <1>3, <1>5, <2>1, ChosenFacts
  <1>7. /\ y \in Seq(Unit(T)) /\ Len(y) = Cardinality(J) /\ \A k \in 1 .. Cardinality(J) : y[k] = units[Ascending(J)[k]]
    <2>1. y = Chosen(units, J)
      BY DEF DataOf, J
    <2>. QED BY <1>3, <1>5, <2>1, ChosenFacts
  <1>8. n \in Nat /\ Cardinality(J) = n /\ Ascending(J) = [k \in 1 .. n |-> a[q[k]]]
    BY <1>3, <1>4, <1>6, Thinned
  <1>. HIDE DEF q, n, x, y
  <1>9. \A k \in 1 .. n : x[k] = y[k]
    <2>. SUFFICES ASSUME NEW k \in 1 .. n PROVE x[k] = y[k]
      OBVIOUS
    <2>1. q[k] \in 1 .. Len(r) /\ Ascending(J)[k] = a[q[k]]
      BY <1>3, <1>6, <1>8
    <2>2. x[k] = r[q[k]] /\ y[k] = units[a[q[k]]]
      BY <1>6, <1>7, <1>8, <2>1
    <2>. QED BY <1>1, <2>1, <2>2
  <1>10. x = y
    BY <1>6, <1>7, <1>8, <1>9, SameSeq
  <1>. QED BY <1>10 DEF x, y

(* The packets of units, and the units they come from. *)
EmittedAs(c, u, id) ==
    LET fs == Fragments(c, u) IN [f \in DOMAIN fs |-> Packet(c, u, id, fs[f], f = Len(fs))]
Emissions(c, U, ids) == FlattenSeq([k \in DOMAIN U |-> EmittedAs(c, U[k], ids[k])])
PacketSet == [kind: Kinds \cup {"raw"}, off: Int, data: Bytes, flags: SUBSET {"psh", "ack", "fin", "rst", "syn"},
              ttl: Nat, id: Int, n: Nat, last: BOOLEAN]
Carrying(c, q, u, id) ==
    /\ q.kind = u.kind /\ q.off = u.off /\ q.data = u.data /\ q.ttl = u.ttl /\ q.id = id
    /\ q.flags = IF c.udp THEN {} ELSE Flags(c, u)
Emitting(c, U, ids, full, a) ==
    /\ full \in Seq(PacketSet) /\ a \in [1 .. Len(full) -> Nat]
    /\ \A i \in 1 .. Len(full) : a[i] \in 1 .. Len(U) /\ Carrying(c, full[i], U[a[i]], ids[a[i]])
    /\ \A i, j \in 1 .. Len(full) : i < j => a[i] <= a[j] /\ (full[i].last => a[i] < a[j])
    /\ \A k \in 1 .. Len(U) : \E i \in 1 .. Len(full) : a[i] = k /\ full[i].last

LEMMA FragmentsAre ==
    ASSUME NEW T, NEW c, NEW u \in Unit(T)
    PROVE  LET fs == Fragments(c, u) IN fs \in Seq(Nat) /\ Len(fs) \in 1 .. 2 /\ DOMAIN fs = 1 .. Len(fs)
  <1>. DEFINE n == L4Header(c) + Len(u.data)
              f == u.frag
  <1>1. f \in Int /\ Len(u.data) \in Nat
    BY DEF Unit
  <1>2. n \in Nat
    <2>1. L4Header(c) \in Nat
      BY DEF L4Header
    <2>. QED BY <1>1, <2>1
  <1>3. Fragments(c, u) = IF ~c.v6 /\ f >= 8 /\ f < n THEN <<f, n - f>> ELSE <<n>>
    BY DEF Fragments
  <1>. HIDE DEF n, f
  <1>4. CASE ~c.v6 /\ f >= 8 /\ f < n
    <2>1. f \in Nat /\ n - f \in Nat
      BY <1>1, <1>2, <1>4
    <2>2. <<f, n - f>> \in Seq(Nat) /\ Len(<<f, n - f>>) = 2 /\ DOMAIN <<f, n - f>> = 1 .. 2
      BY <2>1
    <2>. QED BY <1>3, <1>4, <2>2
  <1>5. CASE ~(~c.v6 /\ f >= 8 /\ f < n)
    <2>1. <<n>> \in Seq(Nat) /\ Len(<<n>>) = 1 /\ DOMAIN <<n>> = 1 .. 1 /\ 1 \in 1 .. 2
      BY <1>2
    <2>. QED BY <1>3, <1>5, <2>1
  <1>. QED BY <1>4, <1>5
LEMMA FlagSet ==
    ASSUME NEW c, NEW u PROVE Flags(c, u) \in SUBSET {"psh", "ack", "fin", "rst", "syn"}
  <1>1. DataFlags(c, u) \in SUBSET {"psh", "ack", "fin", "rst", "syn"}
    BY DEF DataFlags
  <1>. HIDE DEF DataFlags
  <1>2. Flags(c, u) \in {{"rst"}, {"syn"}, DataFlags(c, u)}
    BY Zenon DEF Flags
  <1>. QED BY <1>1, <1>2
LEMMA PacketIs ==
    ASSUME NEW T, NEW c, NEW u \in Unit(T), NEW id \in Int, NEW n \in Nat, NEW l \in BOOLEAN
    PROVE  /\ Packet(c, u, id, n, l) \in PacketSet /\ Carrying(c, Packet(c, u, id, n, l), u, id)
           /\ Packet(c, u, id, n, l).last = l
  <1>1. u.kind \in Kinds /\ u.off \in Int /\ u.data \in Bytes /\ u.ttl \in Nat
    BY DEF Unit, Bytes
  <1>. DEFINE fl == IF c.udp THEN {} ELSE Flags(c, u)
  <1>2. fl \in SUBSET {"psh", "ack", "fin", "rst", "syn"}
    BY FlagSet
  <1>3. Packet(c, u, id, n, l) = [kind |-> u.kind, off |-> u.off, data |-> u.data, flags |-> fl,
                                  ttl |-> u.ttl, id |-> id, n |-> n, last |-> l]
    BY DEF Packet
  <1>4. Carrying(c, Packet(c, u, id, n, l), u, id) /\ Packet(c, u, id, n, l).last = l
    BY <1>3, SMTT(30) DEF Carrying
  <1>. HIDE DEF fl
  <1>. QED BY <1>1, <1>2, <1>3, <1>4 DEF PacketSet
Packets(c, e, u, id) ==
    /\ e \in Seq(PacketSet) /\ Len(e) \in 1 .. 2
    /\ \A f \in 1 .. Len(e) : Carrying(c, e[f], u, id) /\ (e[f].last <=> f = Len(e))
LEMMA EmittedOne ==
    ASSUME NEW T, NEW c, NEW u \in Unit(T), NEW id \in Int
    PROVE  Packets(c, EmittedAs(c, u, id), u, id)
  <1>. DEFINE fs == Fragments(c, u)
              e == [f \in DOMAIN fs |-> Packet(c, u, id, fs[f], f = Len(fs))]
  <1>1. fs \in Seq(Nat) /\ Len(fs) \in 1 .. 2 /\ DOMAIN fs = 1 .. Len(fs)
    BY FragmentsAre
  <1>. HIDE DEF fs
  <1>2. \A f \in 1 .. Len(fs) : e[f] = Packet(c, u, id, fs[f], f = Len(fs)) /\ fs[f] \in Nat
    BY <1>1
  <1>3. e = [f \in 1 .. Len(fs) |-> e[f]]
    BY <1>1
  <1>. HIDE DEF e
  <1>4. \A f \in 1 .. Len(fs) : e[f] \in PacketSet /\ Carrying(c, e[f], u, id) /\ (e[f].last <=> f = Len(fs))
    <2>. SUFFICES ASSUME NEW f \in 1 .. Len(fs) PROVE e[f] \in PacketSet /\ Carrying(c, e[f], u, id) /\ (e[f].last <=> f = Len(fs))
      OBVIOUS
    <2>. DEFINE l == f = Len(fs)
    <2>1. l \in BOOLEAN /\ e[f] = Packet(c, u, id, fs[f], l) /\ fs[f] \in Nat
      BY <1>2
    <2>. HIDE DEF l
    <2>2. e[f] \in PacketSet /\ Carrying(c, e[f], u, id) /\ e[f].last = l
      BY <2>1, PacketIs
    <2>. QED BY <2>1, <2>2 DEF l
  <1>5. e \in Seq(PacketSet) /\ Len(e) = Len(fs)
    <2>1. Len(fs) \in Nat
      BY <1>1
    <2>2. e \in [1 .. Len(fs) -> PacketSet]
      BY <1>3, <1>4
    <2>. QED BY <2>1, <2>2
  <1>6. e = EmittedAs(c, u, id)
    BY DEF EmittedAs, e, fs
  <1>. QED BY <1>1, <1>4, <1>5, <1>6 DEF Packets
LEMMA EmissionsAre ==
    ASSUME NEW T, NEW c, NEW U \in UnitSeq(T), NEW ids \in [1 .. Len(U) -> Int]
    PROVE  \E a : Emitting(c, U, ids, Emissions(c, U, ids), a)
  <1>. DEFINE n == Len(U)
              ss == [k \in DOMAIN U |-> EmittedAs(c, U[k], ids[k])]
              flat == FlattenSeq(ss)
  <1>1. n \in Nat /\ DOMAIN U = 1 .. n /\ \A k \in 1 .. n : U[k] \in Unit(T) /\ ids[k] \in Int
    BY DEF UnitSeq
  <1>. HIDE DEF n
  <1>2. \A k \in 1 .. n : ss[k] = EmittedAs(c, U[k], ids[k])
    BY <1>1
  <1>3. \A k \in 1 .. n : /\ ss[k] \in Seq(PacketSet) /\ Len(ss[k]) \in 1 .. 2
                          /\ \A f \in 1 .. Len(ss[k]) : Carrying(c, ss[k][f], U[k], ids[k]) /\ (ss[k][f].last <=> f = Len(ss[k]))
    <2>. SUFFICES ASSUME NEW k \in 1 .. n
                  PROVE  /\ ss[k] \in Seq(PacketSet) /\ Len(ss[k]) \in 1 .. 2
                         /\ \A f \in 1 .. Len(ss[k]) : Carrying(c, ss[k][f], U[k], ids[k]) /\ (ss[k][f].last <=> f = Len(ss[k]))
      OBVIOUS
    <2>1. ss[k] = EmittedAs(c, U[k], ids[k]) /\ U[k] \in Unit(T) /\ ids[k] \in Int
      BY <1>1, <1>2
    <2>. HIDE DEF ss
    <2>2. Packets(c, ss[k], U[k], ids[k])
      BY <2>1, EmittedOne
    <2>. QED BY <2>2 DEF Packets
  <1>4. ss \in [1 .. n -> Seq(PacketSet)]
    <2>1. ss = [k \in 1 .. n |-> ss[k]]
      BY <1>1
    <2>. HIDE DEF ss
    <2>. QED BY <1>3, <2>1
  <1>. HIDE DEF ss
  <1>5. flat \in Seq(PacketSet) /\ \E a, b \in [1 .. Len(flat) -> Nat] : Origins(flat, n, ss, a, b)
    BY <1>1, <1>4, FlattenSplit
  <1>6. PICK a \in [1 .. Len(flat) -> Nat], b \in [1 .. Len(flat) -> Nat] : Origins(flat, n, ss, a, b)
    BY <1>5
  <1>. HIDE DEF flat
  <1>7. \A i \in 1 .. Len(flat) : /\ a[i] \in 1 .. n /\ b[i] \in 1 .. Len(ss[a[i]]) /\ flat[i] = ss[a[i]][b[i]]
                                  /\ Carrying(c, flat[i], U[a[i]], ids[a[i]]) /\ (flat[i].last <=> b[i] = Len(ss[a[i]]))
    <2>. SUFFICES ASSUME NEW i \in 1 .. Len(flat)
                  PROVE  /\ a[i] \in 1 .. n /\ b[i] \in 1 .. Len(ss[a[i]]) /\ flat[i] = ss[a[i]][b[i]]
                         /\ Carrying(c, flat[i], U[a[i]], ids[a[i]]) /\ (flat[i].last <=> b[i] = Len(ss[a[i]]))
      OBVIOUS
    <2>1. a[i] \in 1 .. n /\ b[i] \in 1 .. Len(ss[a[i]]) /\ flat[i] = ss[a[i]][b[i]]
      BY <1>6, Zenon DEF Origins
    <2>. QED BY <1>3, <2>1, Zenon
  <1>8. \A i, j \in 1 .. Len(flat) : i < j => a[i] <= a[j] /\ (flat[i].last => a[i] < a[j])
    <2>. SUFFICES ASSUME NEW i \in 1 .. Len(flat), NEW j \in 1 .. Len(flat), i < j
                  PROVE  a[i] <= a[j] /\ (flat[i].last => a[i] < a[j])
      OBVIOUS
    <2>1. a[i] < a[j] \/ (a[i] = a[j] /\ b[i] < b[j])
      BY <1>6 DEF Origins
    <2>2. a[i] \in Nat /\ a[j] \in Nat /\ b[i] \in Nat /\ b[j] \in Nat /\ Len(ss[a[j]]) \in Nat
      BY <1>3, <1>7
    <2>3. (flat[i].last <=> b[i] = Len(ss[a[i]])) /\ b[j] <= Len(ss[a[j]])
      BY <1>7, <2>2
    <2>. QED BY <2>1, <2>2, <2>3
  <1>9. \A k \in 1 .. n : \E i \in 1 .. Len(flat) : a[i] = k /\ flat[i].last
    <2>. SUFFICES ASSUME NEW k \in 1 .. n PROVE \E i \in 1 .. Len(flat) : a[i] = k /\ flat[i].last
      OBVIOUS
    <2>1. Len(ss[k]) \in 1 .. Len(ss[k])
      <3>1. \A z \in 1 .. 2 : z \in 1 .. z
        OBVIOUS
      <3>. QED BY <1>3, <3>1, Zenon
    <2>2. PICK i \in 1 .. Len(flat) : a[i] = k /\ b[i] = Len(ss[k])
      <3>1. \A q \in 1 .. n : \A j \in 1 .. Len(ss[q]) : \E i \in 1 .. Len(flat) : a[i] = q /\ b[i] = j
        BY <1>6, Zenon DEF Origins
      <3>. QED BY <2>1, <3>1, Zenon
    <2>. QED BY <1>7, <2>2
  <1>10. Emitting(c, U, ids, flat, a)
    BY <1>5, <1>6, <1>7, <1>8, <1>9 DEF Emitting, n
  <1>11. flat = Emissions(c, U, ids)
    BY DEF flat, ss, Emissions
  <1>. QED BY <1>10, <1>11

LEMMA Counted ==
    ASSUME NEW m \in Nat, NEW S \in SUBSET (1 .. m)
    PROVE  Cardinality(S) \in Nat /\ Cardinality(S) <= m /\ IsFiniteSet(S)
  <1>1. IsFiniteSet(1 .. m) /\ Cardinality(1 .. m) = m
    <2>1. IsFiniteSet(1 .. m) /\ Cardinality(1 .. m) = IF 1 > m THEN 0 ELSE m - 1 + 1
      BY FS_Interval
    <2>. QED BY <2>1
  <1>2. IsFiniteSet(S) /\ Cardinality(S) <= m
    BY <1>1, FS_Subset
  <1>. QED BY <1>2, FS_CardinalityType
LEMMA GroupIs ==
    ASSUME NEW T, NEW segs \in UnitSeq(T), NEW i \in 1 .. Len(segs)
    PROVE  Group(segs, segs[i]) \in Nat /\ Group(segs, segs[i]) < Len(segs)
  <1>. DEFINE m == Len(segs)
              E == {EndOf(segs[k]) : k \in DOMAIN segs}
              q == Ascending(E)
              n == Cardinality(E)
              f == [k \in 1 .. m |-> EndOf(segs[k])]
  <1>1. m \in Nat /\ DOMAIN segs = 1 .. m /\ \A k \in 1 .. m : segs[k] \in Unit(T)
    BY DEF UnitSeq
  <1>2. \A k \in 1 .. m : EndOf(segs[k]) \in Int
    BY <1>1, SMTT(30) DEF EndOf, Unit
  <1>. HIDE DEF m
  <1>3. E \in SUBSET Int /\ f \in Surjection(1 .. m, E)
    BY <1>1, <1>2 DEF Surjection
  <1>4. IsFiniteSet(1 .. m) /\ Cardinality(1 .. m) = m
    <2>1. IsFiniteSet(1 .. m) /\ Cardinality(1 .. m) = IF 1 > m THEN 0 ELSE m - 1 + 1
      BY <1>1, FS_Interval
    <2>. QED BY <1>1, <2>1
  <1>5. IsFiniteSet(E) /\ n <= m
    BY <1>3, <1>4, FS_Surjection
  <1>6. EndOf(segs[i]) \in E
    BY <1>1 DEF m
  <1>. HIDE DEF E
  <1>7. n \in Nat /\ q \in [1 .. n -> E] /\ \A e \in E : \E k \in 1 .. n : q[k] = e
    BY <1>3, <1>5, AscendingFacts
  <1>8. Ends(segs) = q
    BY DEF Ends, E
  <1>. HIDE DEF q, n
  <1>9. DOMAIN q = 1 .. n
    BY <1>7
  <1>. DEFINE g == CHOOSE g \in DOMAIN Ends(segs) : Ends(segs)[g] = EndOf(segs[i])
  <1>10. g \in 1 .. n
    <2>1. \E k \in DOMAIN Ends(segs) : Ends(segs)[k] = EndOf(segs[i])
      BY <1>6, <1>7, <1>8, <1>9
    <2>. QED BY <1>8, <1>9, <2>1
  <1>11. Group(segs, segs[i]) = g - 1
    BY DEF Group
  <1>. HIDE DEF g
  <1>. QED BY <1>1, <1>5, <1>7, <1>10, <1>11 DEF m
LEMMA IdsAre ==
    ASSUME NEW T, NEW segs \in UnitSeq(T)
    PROVE  LET N == Len(Repeated(segs))
           IN  /\ N \in Nat /\ Repeated(segs) \in UnitSeq(T) /\ Ids(segs) \in [1 .. N -> Int]
               /\ \A k \in 1 .. N : Ids(segs)[k] < N
  <1>. DEFINE all == Repeated(segs)
              N == Len(all)
              nth(k) == Cardinality({j \in 1 .. k - 1: all[j].ipid = "seq"})
              n == nth(Len(all) + 1)
              seq(k) == IF Descending(segs) THEN n - 1 - nth(k) ELSE nth(k)
              id(k) == CASE all[k].ipid = "zero" -> -3
                         [] all[k].ipid = "same" -> -2
                         [] all[k].ipid = "seq" -> seq(k)
                         [] all[k].ipid = "seqgroup" -> Group(segs, all[k])
                         [] OTHER -> -1
  <1>1. PICK a : Sources(T, segs, all, a)
    BY RepeatedIs
  <1>2. /\ all \in UnitSeq(T) /\ N \in Nat /\ Len(segs) \in Nat /\ Len(segs) <= N
        /\ \A k \in 1 .. N : a[k] \in 1 .. Len(segs) /\ all[k] = segs[a[k]]
    <2>. HIDE DEF all
    <2>1. N \in Nat /\ Len(segs) \in Nat /\ Len(segs) <= N
      BY <1>1, RepeatedLonger
    <2>. QED BY <1>1, <2>1 DEF Sources
  <1>3. DOMAIN all = 1 .. N
    BY <1>2 DEF UnitSeq
  <1>4. Ids(segs) = [k \in DOMAIN all |-> id(k)]
    BY DEF Ids
  <1>. HIDE DEF all, N
  <1>5. \A k \in 1 .. N + 1 : nth(k) \in Nat /\ nth(k) <= k - 1
    <2>. SUFFICES ASSUME NEW k \in 1 .. N + 1 PROVE nth(k) \in Nat /\ nth(k) <= k - 1
      OBVIOUS
    <2>. DEFINE S == {j \in 1 .. k - 1: all[j].ipid = "seq"}
    <2>1. k - 1 \in Nat /\ S \in SUBSET (1 .. k - 1)
      BY <1>2
    <2>. HIDE DEF S
    <2>2. Cardinality(S) \in Nat /\ Cardinality(S) <= k - 1
      BY <2>1, Counted
    <2>. QED BY <2>2 DEF S
  <1>6. n \in Nat /\ n <= N
    <2>1. N + 1 \in 1 .. N + 1 /\ (N + 1) - 1 = N
      BY <1>2
    <2>2. n = nth(N + 1)
      BY DEF N
    <2>. HIDE DEF nth
    <2>. QED BY <1>5, <2>1, <2>2
  <1>. HIDE DEF n
  <1>7. \A k \in 1 .. N : seq(k) \in Int /\ seq(k) < N
    <2>. SUFFICES ASSUME NEW k \in 1 .. N PROVE seq(k) \in Int /\ seq(k) < N
      OBVIOUS
    <2>1. k \in 1 .. N + 1
      BY <1>2
    <2>2. nth(k) \in Nat /\ nth(k) <= k - 1
      BY <1>5, <2>1
    <2>. HIDE DEF nth
    <2>. QED BY <1>2, <1>6, <2>2
  <1>. HIDE DEF nth, seq
  <1>8. \A k \in 1 .. N : Group(segs, all[k]) \in Int /\ Group(segs, all[k]) < N
    <2>. SUFFICES ASSUME NEW k \in 1 .. N PROVE Group(segs, all[k]) \in Int /\ Group(segs, all[k]) < N
      OBVIOUS
    <2>1. Group(segs, all[k]) \in Nat /\ Group(segs, all[k]) < Len(segs)
      BY <1>2, GroupIs
    <2>. QED BY <1>2, <2>1
  <1>9. \A k \in 1 .. N : id(k) \in Int /\ id(k) < N
    <2>. SUFFICES ASSUME NEW k \in 1 .. N PROVE id(k) \in Int /\ id(k) < N
      OBVIOUS
    <2>1. id(k) \in {-3, -2, seq(k), Group(segs, all[k]), -1}
      <3>. HIDE DEF id
      <3>1. id(k) = -3 \/ id(k) = -2 \/ id(k) = seq(k) \/ id(k) = Group(segs, all[k]) \/ id(k) = -1
        BY Zenon DEF id
      <3>. QED BY <3>1
    <2>. HIDE DEF id
    <2>2. seq(k) \in Int /\ seq(k) < N /\ Group(segs, all[k]) \in Int /\ Group(segs, all[k]) < N
      BY <1>7, <1>8
    <2>. QED BY <1>2, <2>1, <2>2
  <1>. HIDE DEF id
  <1>10. Ids(segs) \in [1 .. N -> Int] /\ \A k \in 1 .. N : Ids(segs)[k] < N
    BY <1>3, <1>4, <1>9
  <1>. QED BY <1>2, <1>10 DEF all, N

(* The packets of a plan. *)
PlanUnits(plan) == Repeated(plan.segs) \o Repeated(plan.dgrams)
PlanIds(plan) == Ids(plan.segs) \o [k \in 1 .. Len(Repeated(plan.dgrams)) |-> -1]
LEMMA BuiltIs ==
    ASSUME NEW T, NEW c, NEW plan \in PlanOf(T)
    PROVE  LET U == PlanUnits(plan)
               ids == PlanIds(plan)
           IN  /\ U \in UnitSeq(T) /\ ids \in [1 .. Len(U) -> Int]
               /\ \A k \in 1 .. Len(U) : ids[k] < Issued(plan) \/ ids[k] < 0
               /\ BuildPlan(c, plan) = Emissions(c, U, ids)
               /\ \E a : Emitting(c, U, ids, BuildPlan(c, plan), a)
  <1>. DEFINE x == Repeated(plan.segs)
              y == Repeated(plan.dgrams)
              v == Ids(plan.segs)
              w == [k \in 1 .. Len(y) |-> -1]
              U == x \o y
              ids == v \o w
  <1>1. plan.segs \in UnitSeq(T) /\ plan.dgrams \in UnitSeq(T)
    BY DEF PlanOf
  <1>2. Len(x) \in Nat /\ x \in UnitSeq(T) /\ v \in [1 .. Len(x) -> Int] /\ \A k \in 1 .. Len(x) : v[k] < Len(x)
    BY <1>1, IdsAre
  <1>3. Len(y) \in Nat /\ y \in UnitSeq(T)
    BY <1>1, IdsAre
  <1>. HIDE DEF x, y, v
  <1>4. v \in Seq(Int) /\ Len(v) = Len(x) /\ w \in Seq(Int) /\ Len(w) = Len(y) /\ \A k \in 1 .. Len(y) : w[k] = -1
    BY <1>2, <1>3
  <1>5. U \in UnitSeq(T) /\ Len(U) = Len(x) + Len(y)
    BY <1>2, <1>3, Cat DEF UnitSeq
  <1>. HIDE DEF w
  <1>6. Behind(Int, v, w, Len(x), Len(y), ids)
    <2>1. v \in Seq(Int) /\ w \in Seq(Int) /\ Len(v) = Len(x) /\ Len(w) = Len(y)
      BY <1>4
    <2>. QED BY <1>2, <1>3, <2>1, Cat2
  <1>. HIDE DEF ids, U
  <1>61. ids \in Seq(Int) /\ Len(ids) = Len(x) + Len(y)
    BY <1>6, Zenon DEF Behind
  <1>62. \A t \in 1 .. Len(x) : ids[t] = v[t]
    BY <1>6, Zenon DEF Behind
  <1>63. \A t \in 1 .. Len(y) : ids[Len(x) + t] = -1
    BY <1>4, <1>6, Zenon DEF Behind
  <1>7. ids \in [1 .. Len(U) -> Int]
    BY <1>5, <1>61
  <1>8. \A k \in 1 .. Len(U) : ids[k] < Len(x) \/ ids[k] < 0
    <2>. SUFFICES ASSUME NEW k \in 1 .. Len(x) + Len(y) PROVE ids[k] < Len(x) \/ ids[k] < 0
      BY <1>5
    <2>1. CASE k <= Len(x)
      <3>1. k \in 1 .. Len(x)
        BY <1>2, <1>3, <2>1
      <3>. QED BY <1>2, <1>62, <3>1
    <2>2. CASE k > Len(x)
      <3>1. k - Len(x) \in 1 .. Len(y) /\ Len(x) + (k - Len(x)) = k
        BY <1>2, <1>3, <2>2
      <3>2. ids[Len(x) + (k - Len(x))] = -1
        BY <1>63, <3>1, Zenon
      <3>. QED BY <3>1, <3>2
    <2>. QED BY <1>2, <1>3, <2>1, <2>2
  <1>9. BuildPlan(c, plan) = Emissions(c, U, ids)
    BY DEF BuildPlan, Emissions, EmittedAs, U, ids, x, y, v, w
  <1>10. \E a : Emitting(c, U, ids, Emissions(c, U, ids), a)
    BY <1>5, <1>7, EmissionsAre
  <1>11. Issued(plan) = Len(x)
    BY DEF Issued, x
  <1>12. U = PlanUnits(plan) /\ ids = PlanIds(plan)
    BY DEF PlanUnits, PlanIds, U, ids, x, y, v, w
  <1>. QED BY <1>5, <1>7, <1>8, <1>9, <1>10, <1>11, <1>12
(* With units of one kind only, the units are theirs. *)
LEMMA RepeatedNone == Repeated(<<>>) = <<>>
  <1>1. \E a : Sources({}, <<>>, Repeated(<<>>), a)
    <2>1. <<>> \in UnitSeq({})
      BY DEF UnitSeq
    <2>. QED BY <2>1, RepeatedIs
  <1>2. PICK a : Sources({}, <<>>, Repeated(<<>>), a)
    BY <1>1
  <1>. DEFINE r == Repeated(<<>>)
  <1>3. r \in Seq(Unit({})) /\ \A i \in 1 .. Len(r) : a[i] \in 1 .. Len(<<>>)
    BY <1>2, Zenon DEF Sources, UnitSeq
  <1>. HIDE DEF r
  <1>4. Len(r) = 0
    BY <1>3
  <1>5. r = <<>>
    BY <1>3, <1>4
  <1>. QED BY <1>5 DEF r
LEMMA OneSort ==
    ASSUME NEW T, NEW plan \in PlanOf(T)
    PROVE  /\ plan.dgrams = <<>> => \E a : Sources(T, plan.segs, PlanUnits(plan), a)
           /\ plan.segs = <<>> => \E a : Sources(T, plan.dgrams, PlanUnits(plan), a)
  <1>1. plan.segs \in UnitSeq(T) /\ plan.dgrams \in UnitSeq(T)
    BY DEF PlanOf
  <1>2. (\E a : Sources(T, plan.segs, Repeated(plan.segs), a)) /\ (\E a : Sources(T, plan.dgrams, Repeated(plan.dgrams), a))
    BY <1>1, RepeatedIs
  <1>3. Repeated(plan.segs) \in Seq(Unit(T)) /\ Repeated(plan.dgrams) \in Seq(Unit(T))
    BY <1>2 DEF Sources, UnitSeq
  <1>4. plan.dgrams = <<>> => PlanUnits(plan) = Repeated(plan.segs)
    <2>. SUFFICES ASSUME plan.dgrams = <<>> PROVE PlanUnits(plan) = Repeated(plan.segs)
      OBVIOUS
    <2>. DEFINE x == Repeated(plan.segs)
    <2>1. Repeated(plan.dgrams) = <<>>
      BY RepeatedNone
    <2>2. x \o <<>> = x
      <3>. HIDE DEF x
      <3>1. x \in Seq(Unit(T))
        BY <1>3 DEF x
      <3>. QED BY <3>1
    <2>. QED BY <2>1, <2>2 DEF PlanUnits
  <1>5. plan.segs = <<>> => PlanUnits(plan) = Repeated(plan.dgrams)
    <2>. SUFFICES ASSUME plan.segs = <<>> PROVE PlanUnits(plan) = Repeated(plan.dgrams)
      OBVIOUS
    <2>. DEFINE x == Repeated(plan.dgrams)
    <2>1. Repeated(plan.segs) = <<>>
      BY RepeatedNone
    <2>2. <<>> \o x = x
      <3>. HIDE DEF x
      <3>1. x \in Seq(Unit(T))
        BY <1>3 DEF x
      <3>. QED BY <3>1
    <2>. QED BY <2>1, <2>2 DEF PlanUnits
  <1>. QED BY <1>2, <1>4, <1>5, Zenon
(* The packets that carry the payload are the data of the units. *)
LEMMA RealIs ==
    ASSUME NEW T, NEW c, NEW U \in UnitSeq(T), NEW ids, NEW full, NEW a, Emitting(c, U, ids, full, a)
    PROVE  /\ Real(full) \in Seq(PacketSet) /\ Len(Real(full)) = Len(DataOf(U)) /\ Len(DataOf(U)) \in Nat
           /\ \A k \in 1 .. Len(DataOf(U)) : Real(full)[k].off = DataOf(U)[k].off /\ Real(full)[k].data = DataOf(U)[k].data
  <1>. DEFINE I == {i \in DOMAIN full: full[i].last /\ full[i].kind \in {"data", "raw"}}
              J == DataAt(U)
              q == Ascending(I)
              n == Cardinality(I)
              x == Real(full)
              y == DataOf(U)
  <1>1. /\ full \in Seq(PacketSet) /\ Len(full) \in Nat /\ DOMAIN full = 1 .. Len(full) /\ Len(U) \in Nat /\ U \in Seq(Unit(T))
        /\ a \in [1 .. Len(full) -> Nat] /\ \A k \in 1 .. Len(U) : U[k] \in Unit(T)
    BY DEF Emitting, UnitSeq
  <1>2. /\ \A i \in 1 .. Len(full) : a[i] \in 1 .. Len(U) /\ Carrying(c, full[i], U[a[i]], ids[a[i]])
        /\ \A i, j \in 1 .. Len(full) : i < j => a[i] <= a[j] /\ (full[i].last => a[i] < a[j])
        /\ \A k \in 1 .. Len(U) : \E i \in 1 .. Len(full) : a[i] = k /\ full[i].last
    BY DEF Emitting
  <1>3. \A i \in 1 .. Len(full) : /\ full[i].kind = U[a[i]].kind /\ full[i].off = U[a[i]].off /\ full[i].data = U[a[i]].data
                                  /\ (full[i].kind \in {"data", "raw"} <=> IsData(U[a[i]]))
    <2>. SUFFICES ASSUME NEW i \in 1 .. Len(full)
                  PROVE  /\ full[i].kind = U[a[i]].kind /\ full[i].off = U[a[i]].off /\ full[i].data = U[a[i]].data
                         /\ (full[i].kind \in {"data", "raw"} <=> IsData(U[a[i]]))
      OBVIOUS
    <2>1. full[i].kind = U[a[i]].kind /\ full[i].off = U[a[i]].off /\ full[i].data = U[a[i]].data /\ U[a[i]] \in Unit(T)
      BY <1>1, <1>2 DEF Carrying
    <2>2. U[a[i]].kind \in Kinds
      BY <2>1 DEF Unit
    <2>. QED BY <2>1, <2>2 DEF Kinds, IsData
  <1>4. J = {k \in 1 .. Len(U) : IsData(U[k])}
    BY NoData
  <1>5. I \in SUBSET (1 .. Len(full)) /\ J \in SUBSET (1 .. Len(U)) /\ I \in SUBSET Int /\ J \in SUBSET Int
    BY <1>1, <1>4
  <1>6. Stands(I, J, a)
    <2>1. \A i \in I : a[i] \in J
      BY <1>1, <1>2, <1>3, <1>4
    <2>2. ASSUME NEW j \in J PROVE \E i \in I : a[i] = j
      <3>1. j \in 1 .. Len(U) /\ IsData(U[j])
        BY <1>4
      <3>2. PICK i \in 1 .. Len(full) : a[i] = j /\ full[i].last
        BY <1>2, <3>1
      <3>3. i \in I
        BY <1>1, <1>3, <3>1, <3>2
      <3>. QED BY <3>2, <3>3
    <2>3. \A i, k \in I : i < k => a[i] < a[k]
      BY <1>1, <1>2
    <2>. QED BY <2>1, <2>2, <2>3 DEF Stands
  <1>. HIDE DEF I, J
  <1>7. /\ x \in Seq(PacketSet) /\ Len(x) = n /\ \A k \in 1 .. n : x[k] = full[q[k]]
        /\ q \in [1 .. n -> I] /\ IsFiniteSet(I)
    <2>1. x = Chosen(full, I)
      BY DEF Real, I
    <2>. QED BY <1>1, <1>5, <2>1, ChosenFacts
  <1>8. Len(y) = Cardinality(J) /\ \A k \in 1 .. Cardinality(J) : y[k] = U[Ascending(J)[k]]
    <2>1. y = Chosen(U, J)
      BY DEF DataOf, J
    <2>. QED BY <1>1, <1>5, <2>1, ChosenFacts
  <1>9. n \in Nat /\ Cardinality(J) = n /\ Ascending(J) = [k \in 1 .. n |-> a[q[k]]]
    BY <1>5, <1>6, <1>7, Thinned
  <1>. HIDE DEF q, n, x, y
  <1>10. \A k \in 1 .. n : x[k].off = y[k].off /\ x[k].data = y[k].data
    <2>. SUFFICES ASSUME NEW k \in 1 .. n PROVE x[k].off = y[k].off /\ x[k].data = y[k].data
      OBVIOUS
    <2>1. q[k] \in 1 .. Len(full) /\ Ascending(J)[k] = a[q[k]]
      BY <1>5, <1>7, <1>9
    <2>2. x[k] = full[q[k]] /\ y[k] = U[a[q[k]]]
      BY <1>7, <1>8, <1>9, <2>1
    <2>. QED BY <1>3, <2>1, <2>2
  <1>. QED BY <1>7, <1>8, <1>9, <1>10 DEF x, y

(***************************************************************************)
(* The frames of a packet.                                                 *)
(***************************************************************************)
Room == ((Mtu - 20) \div 8) * 8
LEMMA RoomIs == Room \in Nat /\ Room >= 8 /\ Room + 20 <= Mtu /\ Mtu \in Nat
  BY EmitAssumption DEF Room
(* q cuts leave n bytes within the MTU, and fewer do not. *)
LeastCuts(q, n) == q \in Nat /\ n - q * Room <= Mtu /\ \A r \in Nat : n - r * Room <= Mtu => q <= r
LEMMA CutsExist ==
    ASSUME NEW n \in Nat PROVE \E q : LeastCuts(q, n)
  <1>. DEFINE A == {q \in Nat : n - q * Room <= Mtu}
  <1>0. Room \in Nat /\ Room >= 1 /\ Mtu \in Nat
    BY RoomIs
  <1>1. n * Room >= n
    BY <1>0
  <1>2. n * Room \in Int
    BY <1>0
  <1>3. n \in A
    BY <1>0, <1>1, <1>2
  <1>4. PICK q \in A : \A r \in A : q <= r
    BY <1>3, Least
  <1>. QED BY <1>4 DEF LeastCuts
CutsOf(n) == CHOOSE q : LeastCuts(q, n)
LEMMA CutsStep ==
    ASSUME NEW n \in Nat, n > Mtu
    PROVE  n - Room \in Nat /\ CutsOf(n) = CutsOf(n - Room) + 1 /\ CutsOf(n) \in Nat /\ CutsOf(n - Room) \in Nat
  <1>0. Room \in Nat /\ Room >= 1 /\ Mtu \in Nat /\ Room + 20 <= Mtu
    BY RoomIs
  <1>1. n - Room \in Nat
    BY <1>0
  <1>2. LeastCuts(CutsOf(n), n) /\ LeastCuts(CutsOf(n - Room), n - Room)
    BY <1>1, CutsExist DEF CutsOf
  <1>. DEFINE q == CutsOf(n)
              s == CutsOf(n - Room)
  <1>. HIDE DEF q, s
  <1>3. q \in Nat /\ n - q * Room <= Mtu /\ (\A r \in Nat : n - r * Room <= Mtu => q <= r)
    BY <1>2 DEF LeastCuts, q
  <1>4. s \in Nat /\ (n - Room) - s * Room <= Mtu /\ (\A r \in Nat : (n - Room) - r * Room <= Mtu => s <= r)
    BY <1>2 DEF LeastCuts, s
  <1>5. q # 0
    BY <1>0, <1>3
  <1>6. q - 1 \in Nat /\ (q - 1) * Room = q * Room - Room /\ q * Room \in Int
    BY <1>0, <1>3, <1>5
  <1>7. s <= q - 1
    <2>1. (n - Room) - (q - 1) * Room <= Mtu
      BY <1>0, <1>3, <1>6
    <2>. QED BY <1>4, <1>6, <2>1
  <1>8. s + 1 \in Nat /\ (s + 1) * Room = s * Room + Room /\ s * Room \in Int
    BY <1>0, <1>4
  <1>9. q <= s + 1
    <2>1. n - (s + 1) * Room <= Mtu
      BY <1>0, <1>4, <1>8
    <2>. QED BY <1>3, <1>8, <2>1
  <1>. QED BY <1>1, <1>3, <1>4, <1>7, <1>9 DEF q, s
FramesOf == [n \in Nat |-> LET q == CutsOf(n) IN [i \in 1 .. q + 1 |-> IF i <= q THEN 20 + Room ELSE n - q * Room]]
NextFrames(g, n) == IF Mtu <= 0 \/ n <= Mtu \/ Room < 8 \/ Room >= n - 20 THEN <<n>> ELSE <<20 + Room>> \o g[n - Room]
LEMMA FramesExist == FramesOf = [n \in Nat |-> NextFrames(FramesOf, n)]
  <1>. SUFFICES ASSUME NEW n \in Nat PROVE FramesOf[n] = NextFrames(FramesOf, n)
    BY DEF FramesOf
  <1>0. Room \in Nat /\ Room >= 8 /\ Mtu \in Nat /\ Room + 20 <= Mtu
    BY RoomIs
  <1>. DEFINE q == CutsOf(n)
  <1>1. LeastCuts(q, n)
    BY CutsExist DEF CutsOf
  <1>2. FramesOf[n] = [i \in 1 .. q + 1 |-> IF i <= q THEN 20 + Room ELSE n - q * Room]
    BY DEF FramesOf
  <1>. HIDE DEF q
  <1>3. CASE n <= Mtu
    <2>1. q = 0
      <3>1. 0 * Room = 0
        BY <1>0
      <3>2. n - 0 * Room <= Mtu
        BY <1>0, <1>3, <3>1
      <3>3. q <= 0 /\ q \in Nat
        BY <1>1, <3>2 DEF LeastCuts
      <3>. QED BY <3>3
    <2>2. FramesOf[n] = <<n>>
      <3>1. q * Room = 0
        BY <1>0, <2>1
      <3>2. FramesOf[n] = [i \in 1 .. 1 |-> n]
        BY <1>0, <1>2, <2>1, <3>1
      <3>. QED BY <3>2
    <2>. QED BY <1>3, <2>2 DEF NextFrames
  <1>4. CASE n > Mtu
    <2>. DEFINE s == CutsOf(n - Room)
                y == FramesOf[n - Room]
    <2>1. n - Room \in Nat /\ q = s + 1 /\ q \in Nat /\ s \in Nat
      BY <1>4, CutsStep DEF q
    <2>2. y = [i \in 1 .. s + 1 |-> IF i <= s THEN 20 + Room ELSE (n - Room) - s * Room]
      BY <2>1 DEF FramesOf
    <2>. HIDE DEF s, y
    <2>3. q * Room = s * Room + Room /\ s * Room \in Int
      BY <1>0, <2>1
    <2>4. y \in Seq(Int) /\ Len(y) = s + 1 /\ \A i \in 1 .. s + 1 : y[i] = IF i <= s THEN 20 + Room ELSE (n - Room) - s * Room
      BY <1>0, <2>1, <2>2, <2>3
    <2>5. Behind(Int, <<20 + Room>>, y, 1, s + 1, <<20 + Room>> \o y)
      <3>1. <<20 + Room>> \in Seq(Int) /\ Len(<<20 + Room>>) = 1 /\ 1 \in Nat /\ s + 1 \in Nat
        BY <1>0, <2>1
      <3>. QED BY <2>4, <3>1, Cat2
    <2>. DEFINE z == <<20 + Room>> \o y
    <2>. HIDE DEF z
    <2>6. z \in Seq(Int) /\ Len(z) = 1 + (s + 1) /\ z[1] = 20 + Room /\ \A t \in 1 .. s + 1 : z[1 + t] = y[t]
      <3>1. z \in Seq(Int) /\ Len(z) = 1 + (s + 1) /\ \A t \in 1 .. s + 1 : z[1 + t] = y[t]
        BY <2>5, Zenon DEF Behind, z
      <3>2. \A t \in 1 .. 1 : z[t] = <<20 + Room>>[t]
        BY <2>5, Zenon DEF Behind, z
      <3>3. z[1] = 20 + Room
        BY <3>2
      <3>. QED BY <3>1, <3>3
    <2>7. \A i \in 1 .. q + 1 : z[i] = IF i <= q THEN 20 + Room ELSE n - q * Room
      <3>. SUFFICES ASSUME NEW i \in 1 .. q + 1 PROVE z[i] = IF i <= q THEN 20 + Room ELSE n - q * Room
        OBVIOUS
      <3>1. CASE i = 1
        BY <1>0, <2>1, <2>6, <3>1
      <3>2. CASE i > 1
        <4>1. i - 1 \in 1 .. s + 1 /\ 1 + (i - 1) = i
          BY <2>1, <3>2
        <4>2. z[1 + (i - 1)] = y[i - 1]
          BY <2>6, <4>1
        <4>. QED BY <1>0, <2>1, <2>3, <2>4, <4>1, <4>2
      <3>. QED BY <2>1, <3>1, <3>2
    <2>8. FramesOf[n] = z
      <3>1. z = [i \in 1 .. q + 1 |-> z[i]]
        BY <2>1, <2>6
      <3>2. FramesOf[n] = [i \in 1 .. q + 1 |-> z[i]]
        BY <1>2, <2>7
      <3>. QED BY <3>1, <3>2
    <2>9. NextFrames(FramesOf, n) = z
      <3>1. ~(Mtu <= 0 \/ n <= Mtu \/ Room < 8 \/ Room >= n - 20)
        BY <1>0, <1>4
      <3>. QED BY <3>1 DEF NextFrames, z, y
    <2>. QED BY <2>8, <2>9
  <1>. QED BY <1>0, <1>3, <1>4
LEMMA FrameUnfold ==
    \A n \in Nat : FragmentForMTU(Mtu)[n] = NextFrames(FragmentForMTU(Mtu), n)
  <1>. DEFINE f == FragmentForMTU(Mtu)
  <1>1. f = CHOOSE g : g = [n \in Nat |-> NextFrames(g, n)]
    BY Zenon DEF FragmentForMTU, NextFrames, Room
  <1>. HIDE DEF f
  <1>2. f = [n \in Nat |-> NextFrames(f, n)]
    BY <1>1, FramesExist
  <1>. QED BY <1>2 DEF f
(* None of the frames is longer than the MTU. *)
Within(x) == x \in Seq(Nat) /\ \A i \in 1 .. Len(x) : x[i] <= Mtu
LEMMA FramesFit == \A n \in Nat : Within(FragmentForMTU(Mtu)[n])
  <1>. DEFINE f == FragmentForMTU(Mtu)
              B == {n \in Nat : ~Within(f[n])}
  <1>0. Room \in Nat /\ Room >= 8 /\ Mtu \in Nat /\ Room + 20 <= Mtu
    BY RoomIs
  <1>1. \A n \in Nat : f[n] = NextFrames(f, n)
    BY FrameUnfold
  <1>. HIDE DEF f
  <1>2. B = {}
    <2>. SUFFICES ASSUME B # {} PROVE FALSE
      OBVIOUS
    <2>1. PICK m \in B : \A k \in B : m <= k
      BY Least
    <2>2. m \in Nat /\ ~Within(f[m]) /\ f[m] = NextFrames(f, m)
      BY <1>1, <2>1
    <2>3. m > Mtu
      <3>. SUFFICES ASSUME m <= Mtu PROVE FALSE
        BY <1>0, <2>2
      <3>1. f[m] = <<m>>
        BY <2>2 DEF NextFrames
      <3>. QED BY <2>2, <3>1 DEF Within
    <2>4. f[m] = <<20 + Room>> \o f[m - Room] /\ m - Room \in Nat /\ m - Room < m
      BY <1>0, <2>2, <2>3 DEF NextFrames
    <2>5. Within(f[m - Room])
      BY <2>1, <2>2, <2>4, <1>0
    <2>. DEFINE y == f[m - Room]
                x == <<20 + Room>>
    <2>. HIDE DEF y
    <2>6. y \in Seq(Nat) /\ (\A i \in 1 .. Len(y) : y[i] <= Mtu) /\ x \in Seq(Nat) /\ Len(x) = 1 /\ x[1] = 20 + Room
      BY <1>0, <2>5 DEF Within, y
    <2>7. Len(y) \in Nat
      BY <2>6
    <2>. HIDE DEF x
    <2>8. Behind(Nat, x, y, 1, Len(y), x \o y)
      <3>1. 1 \in Nat
        OBVIOUS
      <3>. QED BY <2>6, <2>7, <3>1, Cat2
    <2>. DEFINE z == x \o y
    <2>9. f[m] = z
      BY <2>4 DEF x, y
    <2>. HIDE DEF z
    <2>10. z \in Seq(Nat) /\ Len(z) = 1 + Len(y) /\ z[1] = x[1] /\ \A t \in 1 .. Len(y) : z[1 + t] = y[t]
      BY <2>8 DEF Behind, z
    <2>11. \A i \in 1 .. Len(z) : z[i] <= Mtu
      <3>. SUFFICES ASSUME NEW i \in 1 .. 1 + Len(y) PROVE z[i] <= Mtu
        BY <2>10
      <3>1. CASE i = 1
        BY <1>0, <2>6, <2>10, <3>1
      <3>2. CASE i > 1
        <4>1. i - 1 \in 1 .. Len(y) /\ 1 + (i - 1) = i
          BY <2>7, <3>2
        <4>2. z[1 + (i - 1)] = y[i - 1]
          BY <2>10, <4>1, Zenon
        <4>. QED BY <2>6, <4>1, <4>2
      <3>. QED BY <2>7, <3>1, <3>2
    <2>. QED BY <2>2, <2>9, <2>10, <2>11 DEF Within
  <1>. QED BY <1>2 DEF f
(* A packet that can be fragmented is written in frames that the link takes. *)
LEMMA PacketFits ==
    ASSUME NEW c \in Contexts, NEW q \in PacketSet, ~c.v6
    PROVE  Fits(c, q)
  <1>1. Size(c, q) \in Nat
    BY DEF Size, IPHeader, PacketSet
  <1>2. Within(Frames(c, q)) /\ Mtu \in Nat
    BY <1>1, FramesFit, RoomIs DEF Frames
  <1>. DEFINE x == Frames(c, q)
  <1>. HIDE DEF x
  <1>3. \A n \in Range(x) : n <= Mtu
    BY <1>2 DEF Within, Range, x
  <1>. QED BY <1>3 DEF Fits, x

(***************************************************************************)
(* The receiver.                                                           *)
(***************************************************************************)
LEMMA CutJoin ==
    ASSUME NEW F \in Bytes, NEW x \in Nat, NEW y \in Nat, x <= y, y <= Len(F)
    PROVE  Cut(F, 0, x) \o Cut(F, x, y) = Cut(F, 0, y) /\ Cut(F, 0, y) \in Bytes
  <1>. DEFINE u == Cut(F, 0, x)
              v == Cut(F, x, y)
              w == Cut(F, 0, y)
  <1>0. Len(F) \in Nat /\ F \in Seq(Int)
    BY DEF Bytes
  <1>1. IsCut(Int, F, 0, x) /\ IsCut(Int, F, x, y) /\ IsCut(Int, F, 0, y)
    <2>1. 0 \in 0 .. Len(F) /\ x \in 0 .. Len(F) /\ y \in x .. Len(F) /\ x \in 0 .. Len(F) /\ y \in 0 .. Len(F)
      BY <1>0
    <2>. QED BY <1>0, <2>1, CutFacts
  <1>2. u \in Seq(Int) /\ Len(u) = x - 0 /\ \A i \in 1 .. x - 0 : u[i] = F[0 + i]
    BY <1>1, Zenon DEF IsCut
  <1>3. v \in Seq(Int) /\ Len(v) = y - x /\ \A i \in 1 .. y - x : v[i] = F[x + i]
    BY <1>1, Zenon DEF IsCut
  <1>4. w \in Seq(Int) /\ Len(w) = y - 0 /\ \A i \in 1 .. y - 0 : w[i] = F[0 + i]
    BY <1>1, Zenon DEF IsCut
  <1>. HIDE DEF u, v, w
  <1>5. y - x \in Nat /\ x - 0 = x /\ y - 0 = y
    OBVIOUS
  <1>6. Behind(Int, u, v, x, y - x, u \o v)
    BY <1>2, <1>3, <1>5, Cat2
  <1>. DEFINE z == u \o v
  <1>. HIDE DEF z
  <1>7. z \in Seq(Int) /\ Len(z) = x + (y - x) /\ (\A t \in 1 .. x : z[t] = u[t]) /\ \A t \in 1 .. y - x : z[x + t] = v[t]
    BY <1>6, Zenon DEF Behind, z
  <1>8. ASSUME NEW i \in 1 .. y PROVE z[i] = w[i]
    <2>1. w[i] = F[i]
      BY <1>4, <1>5
    <2>2. CASE i <= x
      <3>1. i \in 1 .. x
        BY <2>2
      <3>2. z[i] = u[i] /\ u[i] = F[0 + i]
        BY <1>2, <1>5, <1>7, <3>1
      <3>. QED BY <2>1, <3>2
    <2>3. CASE i > x
      <3>1. i - x \in 1 .. y - x /\ x + (i - x) = i
        BY <2>3
      <3>2. z[x + (i - x)] = v[i - x] /\ v[i - x] = F[x + (i - x)]
        BY <1>3, <1>7, <3>1, Zenon
      <3>. QED BY <2>1, <3>1, <3>2
    <2>. QED BY <2>2, <2>3
  <1>9. z = w
    <2>1. Len(z) = y /\ Len(w) = y
      BY <1>4, <1>7
    <2>2. z \in Seq(Int) /\ w \in Seq(Int) /\ Len(z) = Len(w) /\ \A i \in 1 .. Len(z) : z[i] = w[i]
      BY <1>4, <1>7, <1>8, <2>1
    <2>. QED BY <2>2, SameSeq
  <1>. QED BY <1>4, <1>9 DEF z, u, v, w, Bytes

(* What the receiver has when it has k parts. *)
St(F, b, k) == [next |-> b[k], got |-> Cut(F, 0, b[k])]
Bears(q, s) == q.off = s.off /\ q.data = s.data
(* Of the parts, it takes the one that comes next. *)
LEMMA AcceptIs ==
    ASSUME NEW T, NEW ds \in DataSeq(T), NEW n, NEW F \in Bytes, NEW p, NEW b, Tiling(ds, n, F, p, b),
           NEW k \in 0 .. n, NEW m \in 1 .. n, NEW q, Bears(q, ds[p[m]])
    PROVE  Accepts(St(F, b, k), q) = St(F, b, IF m = k + 1 THEN k + 1 ELSE k)
  <1>. DEFINE st == St(F, b, k)
              s == ds[p[m]]
  <1>1. TileAt(T, ds, n, F, p, b, m)
    BY TileFacts
  <1>2. /\ n \in Nat /\ s.off \in Int /\ Len(s.data) \in Nat /\ b[m - 1] \in Nat /\ b[m] \in Nat /\ b[m] <= Len(F) /\ Len(F) \in Nat
        /\ b[m - 1] < b[m] \/ (b[m - 1] = 0 /\ b[m] = 0 /\ n = 1 /\ Len(F) = 0)
        /\ s.off <= b[m - 1] /\ s.off + Len(s.data) = b[m]
        /\ m > 1 => b[m - 2] < s.off /\ b[m - 2] \in Nat
    BY <1>1 DEF TileAt
  <1>3. b[k] \in Nat /\ \A x, y \in 0 .. n : (x < y => b[x] < b[y] \/ Len(F) = 0) /\ b[x] \in Nat
    <2>1. b \in [0 .. n -> 0 .. Len(F)] /\ \A x, y \in 0 .. n : x < y => b[x] < b[y] \/ Len(F) = 0
      BY Zenon DEF Tiling, Bounds
    <2>2. \A x \in 0 .. n : b[x] \in Nat
      BY <1>2, <2>1
    <2>. QED BY <2>1, <2>2
  <1>4. Len(F) = 0 => n = 1
    BY DEF Tiling, Bounds
  <1>5. st.next = b[k] /\ st.got = Cut(F, 0, b[k])
    BY DEF St
  <1>6. q.off + Len(q.data) = b[m] /\ q.off = s.off /\ q.data = s.data
    BY <1>2 DEF Bears
  <1>7. CASE m = k + 1 /\ Len(F) # 0
    <2>1. m - 1 = k /\ b[k] < b[m] /\ s.off <= b[k]
      BY <1>2, <1>3, <1>7
    <2>2. q.off <= st.next /\ q.off + Len(q.data) > st.next
      BY <1>2, <1>3, <1>5, <1>6, <2>1
    <2>3. Cut(q.data, st.next - q.off, Len(q.data)) = Cut(F, b[k], b[m])
      <3>1. Cut(s.data, b[m - 1] - s.off, Len(s.data)) = Cut(F, b[m - 1], b[m])
        BY TilePart
      <3>. QED BY <1>5, <1>6, <2>1, <3>1
    <2>4. Cut(F, 0, b[k]) \o Cut(F, b[k], b[m]) = Cut(F, 0, b[m])
      <3>1. b[k] <= b[m]
        BY <1>2, <1>3, <2>1
      <3>. QED BY <1>2, <1>3, <3>1, CutJoin
    <2>5. Accepts(st, q) = [st EXCEPT !.next = q.off + Len(q.data), !.got = @ \o Cut(q.data, st.next - q.off, Len(q.data))]
      BY <2>2, Zenon DEF Accepts
    <2>6. Accepts(st, q) = [st EXCEPT !.next = b[m], !.got = Cut(F, 0, b[m])]
      BY <1>5, <1>6, <2>3, <2>4, <2>5
    <2>7. Accepts(st, q) = St(F, b, m)
      BY <2>6 DEF St
    <2>. QED BY <1>7, <2>7
  <1>8. CASE m = k + 1 /\ Len(F) = 0
    <2>1. n = 1 /\ k = 0 /\ m = 1 /\ b[0] = 0 /\ b[1] = 0
      <3>1. n = 1
        BY <1>4, <1>8
      <3>2. k = 0 /\ m = 1
        BY <1>8, <3>1
      <3>. QED BY <1>2, <1>3, <1>8, <3>1, <3>2
    <2>2. ~(q.off + Len(q.data) > st.next)
      BY <1>5, <1>6, <2>1
    <2>3. Accepts(st, q) = st
      BY <2>2 DEF Accepts
    <2>. QED BY <1>8, <2>1, <2>3 DEF St
  <1>9. CASE m # k + 1
    <2>1. ~(q.off <= st.next /\ q.off + Len(q.data) > st.next)
      <3>. SUFFICES ASSUME s.off <= b[k], b[m] > b[k] PROVE FALSE
        BY <1>5, <1>6
      <3>1. m > k
        <4>. SUFFICES ASSUME m <= k PROVE FALSE
          BY <1>2
        <4>1. m \in 0 .. n /\ k \in 0 .. n
          BY <1>2
        <4>2. m = k \/ b[m] < b[k] \/ Len(F) = 0
          BY <1>2, <1>3, <4>1
        <4>. QED BY <1>2, <1>3, <4>2
      <3>2. m > 1 /\ b[m - 2] < b[k] /\ m - 2 \in 0 .. n
        BY <1>2, <1>3, <1>9, <3>1, SMTT(30)
      <3>3. k <= m - 2
        BY <1>2, <1>9, <3>1
      <3>4. k = m - 2 \/ b[k] < b[m - 2] \/ Len(F) = 0
        BY <1>3, <3>2, <3>3
      <3>5. Len(F) # 0
        BY <1>2, <1>3
      <3>. QED BY <1>2, <1>3, <3>2, <3>4, <3>5
    <2>2. Accepts(st, q) = st
      BY <2>1, Zenon DEF Accepts
    <2>. QED BY <1>9, <2>2
  <1>. QED BY <1>7, <1>8, <1>9

(* W is the first j of the packets that carry ds. *)
Came(W, ds, j) ==
    DOMAIN W = 1 .. j /\ Len(W) = j /\ \A i \in 1 .. j : W[i].off = ds[i].off /\ W[i].data = ds[i].data
States(F, b, n) == {St(F, b, x) : x \in 0 .. n}
InStream(W) == Sorted(DOMAIN W, [i \in DOMAIN W |-> W[i].off])
LEMMA InStreamIs ==
    ASSUME NEW T, NEW ds \in DataSeq(T), NEW n, NEW F \in Bytes, NEW p, NEW b, Tiling(ds, n, F, p, b),
           NEW j \in 1 .. n, NEW W, Came(W, ds, j)
    PROVE  InStream(W) \in [1 .. j -> 1 .. j] /\ (j = n => InStream(W) = p)
  <1>. DEFINE I == 1 .. j
              key == [i \in I |-> W[i].off]
  <1>0. n \in Nat \ {0} /\ Len(ds) = n /\ j \in Nat /\ I \in SUBSET Int
    BY DEF Tiling
  <1>1. \A i \in I : W[i].off = ds[i].off /\ ds[i].off \in Int
    <2>1. ds \in Seq(DataUnits(T)) /\ I \subseteq 1 .. Len(ds)
      BY <1>0 DEF DataSeq
    <2>2. \A i \in I : ds[i] \in DataUnits(T)
      BY <2>1
    <2>3. \A i \in I : ds[i].off \in Int
      BY <2>2 DEF DataUnits, Unit
    <2>. QED BY <2>3 DEF Came
  <1>2. key \in [I -> Int]
    BY <1>1
  <1>3. IsFiniteSet(I) /\ Cardinality(I) = j
    <2>1. IsFiniteSet(I) /\ Cardinality(I) = IF 1 > j THEN 0 ELSE j - 1 + 1
      BY <1>0, FS_Interval
    <2>. QED BY <1>0, <2>1
  <1>4. InStream(W) = Sorted(I, key)
    BY DEF InStream, Came
  <1>. HIDE DEF I
  <1>5. Sorted(I, key) \in [1 .. j -> I]
    BY <1>0, <1>2, <1>3, SortedFacts
  <1>6. ASSUME j = n PROVE Sorted(I, key) = p
    <2>1. I = 1 .. n /\ p \in [1 .. n -> I] /\ \A i \in I : \E x \in 1 .. n : p[x] = i
      BY <1>6 DEF Tiling, I
    <2>2. \A x, y \in 1 .. n : x < y => ds[p[x]].off < ds[p[y]].off
      BY TileOrder
    <2>3. \A x \in 1 .. n : key[p[x]] = ds[p[x]].off
      BY <1>1, <2>1
    <2>4. \A x, y \in 1 .. n : x < y => key[p[x]] < key[p[y]]
      BY <2>2, <2>3
    <2>. HIDE DEF key
    <2>5. Enumerates(I, key, n, p)
      BY <1>0, <1>2, <2>1, <2>4 DEF Enumerates
    <2>. QED BY <2>5, SortedOf
  <1>. QED BY <1>4, <1>5, <1>6 DEF I
Have(F, b, n, st, i, j) == \E m \in 0 .. n : st = St(F, b, m) /\ (j = n => m >= i)
(* What a drain makes of what was taken. *)
LEMMA DrainIs ==
    ASSUME NEW T, NEW ds \in DataSeq(T), NEW n, NEW F \in Bytes, NEW p, NEW b, Tiling(ds, n, F, p, b),
           NEW j \in 1 .. n, NEW W, Came(W, ds, j), NEW k \in 0 .. n
    PROVE  Have(F, b, n, Drained(St(F, b, k), W), j, j)
  <1>. DEFINE at == InStream(W)
              V == States(F, b, n)
              step == [i \in 1 .. j |-> [v \in V |-> Accepts(v, W[at[i]])]]
              a == St(F, b, k)
              Is(f) == f = [i \in 0 .. j |-> IF i = 0 THEN a ELSE Accepts(f[i - 1], W[at[i]])]
              took == CHOOSE f : Is(f)
  <1>0. n \in Nat \ {0} /\ j \in Nat
    BY DEF Tiling
  <1>0a. \A i \in 1 .. n : \E x \in 1 .. n : p[x] = i
    BY DEF Tiling
  <1>1. at \in [1 .. j -> 1 .. j] /\ (j = n => at = p)
    BY InStreamIs
  <1>. HIDE DEF at
  <1>2. ASSUME NEW m \in 0 .. n, NEW x \in 1 .. n, p[x] \in 1 .. j
        PROVE  Accepts(St(F, b, m), W[p[x]]) = St(F, b, IF x = m + 1 THEN m + 1 ELSE m)
    <2>1. W[p[x]].off = ds[p[x]].off /\ W[p[x]].data = ds[p[x]].data
      BY <1>2 DEF Came
    <2>. DEFINE q == W[p[x]]
    <2>2. Bears(q, ds[p[x]])
      BY <2>1 DEF Bears
    <2>. HIDE DEF q
    <2>3. Accepts(St(F, b, m), q) = St(F, b, IF x = m + 1 THEN m + 1 ELSE m)
      BY <2>2, AcceptIs
    <2>. QED BY <2>3 DEF q
  <1>3. ASSUME NEW v \in V, NEW i \in 1 .. j PROVE Accepts(v, W[at[i]]) \in V
    <2>1. PICK m \in 0 .. n : v = St(F, b, m)
      BY DEF States
    <2>2. PICK x \in 1 .. n : p[x] = at[i]
      <3>1. at[i] \in 1 .. n
        BY <1>0, <1>1
      <3>. QED BY <1>0a, <3>1, Zenon
    <2>3. Accepts(v, W[at[i]]) = St(F, b, IF x = m + 1 THEN m + 1 ELSE m)
      BY <1>1, <1>2, <2>1, <2>2
    <2>4. (IF x = m + 1 THEN m + 1 ELSE m) \in 0 .. n
      BY <1>0
    <2>. QED BY <2>3, <2>4 DEF States
  <1>4. a \in V
    BY DEF States
  <1>. HIDE DEF V, a
  <1>5. step \in [1 .. j -> [V -> V]]
    BY <1>3
  <1>6. PICK f \in [0 .. j -> V] : Unfolds(f, j, a, step)
    BY <1>0, <1>4, <1>5, Recursive
  <1>7. Is(f)
    <2>1. f = [i \in 0 .. j |-> f[i]]
      BY <1>6
    <2>2. f[0] = a
      BY <1>6 DEF Unfolds
    <2>3. \A i \in 1 .. j : f[i] = Accepts(f[i - 1], W[at[i]])
      <3>1. \A i \in 1 .. j : i - 1 \in 0 .. j
        BY <1>0
      <3>. QED BY <1>6, <3>1 DEF Unfolds
    <2>4. \A i \in 0 .. j : f[i] = IF i = 0 THEN a ELSE Accepts(f[i - 1], W[at[i]])
      BY <1>0, <2>2, <2>3
    <2>. QED BY <2>1, <2>4, Zenon
  <1>. HIDE DEF Is
  <1>8. Is(took)
    BY <1>7, Zenon
  <1>. DEFINE g == took
  <1>9. g = [i \in 0 .. j |-> IF i = 0 THEN a ELSE Accepts(g[i - 1], W[at[i]])]
    BY <1>8, Zenon DEF Is
  <1>10. Drained(a, W) = g[j]
    BY Zenon DEF Drained, Is, at, InStream, Came
  <1>. HIDE DEF g
  <1>11. g[0] = a /\ \A i \in 1 .. j : g[i] = Accepts(g[i - 1], W[at[i]])
    <2>1. 0 \in 0 .. j /\ \A i \in 1 .. j : i \in 0 .. j /\ i # 0
      BY <1>0
    <2>. QED BY <1>9, <2>1, Zenon
  <1>. DEFINE G == {i \in 0 .. j : Have(F, b, n, g[i], i, j)}
  <1>12. 0 \in G
    <2>1. Have(F, b, n, g[0], 0, j)
      BY <1>0, <1>11 DEF Have, a
    <2>. QED BY <1>0, <2>1
  <1>13. ASSUME NEW i \in 0 .. j - 1, i \in G PROVE i + 1 \in G
    <2>1. PICK m \in 0 .. n : g[i] = St(F, b, m) /\ (j = n => m >= i)
      BY <1>13 DEF Have
    <2>2. i + 1 \in 1 .. j /\ (i + 1) - 1 = i /\ i + 1 \in 0 .. j
      BY <1>0
    <2>3. g[i + 1] = Accepts(St(F, b, m), W[at[i + 1]])
      BY <1>11, <2>1, <2>2
    <2>4. PICK x \in 1 .. n : p[x] = at[i + 1] /\ (j = n => x = i + 1)
      <3>1. CASE j = n
        BY <1>1, <2>2, <3>1
      <3>2. CASE j # n
        <4>1. at[i + 1] \in 1 .. n
          BY <1>0, <1>1, <2>2
        <4>2. \E x \in 1 .. n : p[x] = at[i + 1]
          BY <1>0a, <4>1, Zenon
        <4>. QED BY <3>2, <4>2, Zenon
      <3>. QED BY <3>1, <3>2
    <2>5. g[i + 1] = St(F, b, IF x = m + 1 THEN m + 1 ELSE m)
      BY <1>1, <1>2, <2>2, <2>3, <2>4
    <2>6. (IF x = m + 1 THEN m + 1 ELSE m) \in 0 .. n /\ (j = n => (IF x = m + 1 THEN m + 1 ELSE m) >= i + 1)
      <3>1. i \in Nat /\ m \in Nat /\ x \in Nat /\ n \in Nat /\ x <= n /\ m <= n
        BY <1>0
      <3>2. \A mm, xx, ii, nn \in Nat : xx <= nn /\ mm <= nn =>
               /\ (IF xx = mm + 1 THEN mm + 1 ELSE mm) \in 0 .. nn
               /\ (xx = ii + 1 /\ mm >= ii => (IF xx = mm + 1 THEN mm + 1 ELSE mm) >= ii + 1)
        OBVIOUS
      <3>3. (IF x = m + 1 THEN m + 1 ELSE m) \in 0 .. n
        BY <3>1, <3>2, Zenon
      <3>4. x = i + 1 /\ m >= i => (IF x = m + 1 THEN m + 1 ELSE m) >= i + 1
        BY <3>1, <3>2, Zenon
      <3>. QED BY <2>1, <2>4, <3>3, <3>4, Zenon
    <2>7. Have(F, b, n, g[i + 1], i + 1, j)
      BY <2>5, <2>6 DEF Have
    <2>. QED BY <2>2, <2>7
  <1>14. \A i \in 0 .. j : i \in G
    <2>. HIDE DEF G
    <2>. QED BY <1>0, <1>12, <1>13, Induct
  <1>15. Have(F, b, n, g[j], j, j)
    <2>1. j \in 0 .. j
      BY <1>0
    <2>. QED BY <1>14, <2>1
  <1>. QED BY <1>10, <1>15 DEF a

(* The packets of R carry ds. *)
Carried(R, ds, n) == /\ R \in Seq(PacketSet) /\ Len(R) = n
                     /\ \A k \in 1 .. n : R[k].off = ds[k].off /\ R[k].data = ds[k].data
LEMMA FirstOnes ==
    ASSUME NEW ds, NEW n \in Nat, NEW R, Carried(R, ds, n), NEW j \in 1 .. n
    PROVE  Came(SubSeq(R, 1, j), ds, j)
  <1>1. R \in Seq(PacketSet) /\ Len(R) = n /\ j \in Nat
    BY DEF Carried
  <1>. DEFINE W == SubSeq(R, 1, j)
  <1>2. DOMAIN W = 1 .. j /\ Len(W) = j /\ \A i \in 1 .. j : W[i] = R[i]
    BY <1>1
  <1>. HIDE DEF W
  <1>3. \A i \in 1 .. j : i \in 1 .. n
    BY <1>1
  <1>. QED BY <1>2, <1>3 DEF Came, Carried, W
LEMMA StartState ==
    ASSUME NEW n, NEW F \in Bytes, NEW b, Bounds(b, n, Len(F))
    PROVE  [next |-> 0, got |-> <<>>] = St(F, b, 0) /\ St(F, b, n).got = F
  <1>0. F \in Seq(Int) /\ Len(F) \in Nat
    BY DEF Bytes
  <1>1. b[0] = 0 /\ b[n] = Len(F)
    BY DEF Bounds
  <1>2. Cut(F, 0, 0) = <<>>
    BY <1>0 DEF Cut
  <1>3. Cut(F, 0, Len(F)) = F
    BY <1>0 DEF Cut
  <1>. QED BY <1>1, <1>2, <1>3 DEF St
(* A receiver to which packets come that carry a tiling has what was tiled. *)
LEMMA ReceivedIs ==
    ASSUME NEW T, NEW ds \in DataSeq(T), NEW n, NEW F \in Bytes, NEW p, NEW b, Tiling(ds, n, F, p, b),
           NEW w, Carried(Real(w), ds, n)
    PROVE  Received(w) = F
  <1>. DEFINE R == Real(w)
              V == States(F, b, n)
              step == [x \in 1 .. n |-> [v \in V |-> Drained(v, SubSeq(R, 1, x))]]
              a == St(F, b, 0)
              Is(f) == f = [x \in 0 .. n |-> IF x = 0 THEN [next |-> 0, got |-> <<>>] ELSE Drained(f[x - 1], SubSeq(R, 1, x))]
              st == CHOOSE f : Is(f)
  <1>0. n \in Nat \ {0} /\ Bounds(b, n, Len(F))
    BY DEF Tiling
  <1>1. Len(R) = n
    BY DEF Carried
  <1>. HIDE DEF R
  <1>2. a = [next |-> 0, got |-> <<>>] /\ St(F, b, n).got = F
    BY <1>0, StartState
  <1>3. ASSUME NEW v \in V, NEW x \in 1 .. n PROVE Have(F, b, n, Drained(v, SubSeq(R, 1, x)), x, x)
    <2>1. PICK k \in 0 .. n : v = St(F, b, k)
      BY DEF States
    <2>2. Came(SubSeq(R, 1, x), ds, x)
      BY <1>0, FirstOnes DEF R
    <2>3. Have(F, b, n, Drained(St(F, b, k), SubSeq(R, 1, x)), x, x)
      BY <2>2, DrainIs
    <2>. QED BY <2>1, <2>3
  <1>4. a \in V
    BY <1>0 DEF States
  <1>5. ASSUME NEW v \in V, NEW x \in 1 .. n PROVE Drained(v, SubSeq(R, 1, x)) \in V
    BY <1>3 DEF Have, States
  <1>. HIDE DEF V, a
  <1>6. step \in [1 .. n -> [V -> V]]
    BY <1>5
  <1>7. PICK f \in [0 .. n -> V] : Unfolds(f, n, a, step)
    BY <1>0, <1>4, <1>6, Recursive
  <1>8. Is(f)
    <2>1. f = [x \in 0 .. n |-> f[x]]
      BY <1>7
    <2>2. f[0] = [next |-> 0, got |-> <<>>]
      BY <1>2, <1>7 DEF Unfolds
    <2>3. \A x \in 1 .. n : f[x] = Drained(f[x - 1], SubSeq(R, 1, x))
      <3>1. \A x \in 1 .. n : x - 1 \in 0 .. n
        BY <1>0
      <3>. QED BY <1>7, <3>1 DEF Unfolds
    <2>4. \A x \in 0 .. n : f[x] = IF x = 0 THEN [next |-> 0, got |-> <<>>] ELSE Drained(f[x - 1], SubSeq(R, 1, x))
      BY <1>0, <2>2, <2>3
    <2>. QED BY <2>1, <2>4, Zenon
  <1>. HIDE DEF Is
  <1>9. Is(st)
    BY <1>8, Zenon
  <1>. DEFINE g == st
  <1>10. g = [x \in 0 .. n |-> IF x = 0 THEN [next |-> 0, got |-> <<>>] ELSE Drained(g[x - 1], SubSeq(R, 1, x))]
    BY <1>9, Zenon DEF Is
  <1>11. Received(w) = g[n].got
    BY <1>1, Zenon DEF Received, Is, R
  <1>. HIDE DEF g
  <1>12. g[0] = a /\ \A x \in 1 .. n : g[x] = Drained(g[x - 1], SubSeq(R, 1, x))
    <2>1. 0 \in 0 .. n /\ \A x \in 1 .. n : x \in 0 .. n /\ x # 0
      BY <1>0
    <2>. QED BY <1>2, <1>10, <2>1, Zenon
  <1>. DEFINE G == {x \in 0 .. n : g[x] \in V}
  <1>13. \A x \in 0 .. n : x \in G
    <2>1. 0 \in G
      BY <1>0, <1>4, <1>12
    <2>2. ASSUME NEW x \in 0 .. n - 1, x \in G PROVE x + 1 \in G
      <3>1. x + 1 \in 1 .. n /\ (x + 1) - 1 = x /\ x + 1 \in 0 .. n
        BY <1>0
      <3>2. g[x + 1] = Drained(g[x], SubSeq(R, 1, x + 1))
        BY <1>12, <3>1
      <3>. QED BY <1>5, <2>2, <3>1, <3>2
    <2>. HIDE DEF G
    <2>. QED BY <1>0, <2>1, <2>2, Induct
  <1>14. g[n] = St(F, b, n)
    <2>1. n \in 1 .. n /\ n - 1 \in 0 .. n
      BY <1>0
    <2>2. g[n - 1] \in V
      BY <1>13, <2>1
    <2>3. Have(F, b, n, g[n], n, n)
      BY <1>3, <1>12, <2>1, <2>2
    <2>4. PICK m \in 0 .. n : g[n] = St(F, b, m) /\ m >= n
      BY <2>3 DEF Have
    <2>5. m = n
      BY <1>0, <2>4
    <2>. QED BY <2>4, <2>5
  <1>. QED BY <1>2, <1>11, <1>14
(* A receiver to which nothing comes has nothing. *)
LEMMA ReceivedNone ==
    ASSUME NEW w, Len(Real(w)) = 0
    PROVE  Received(w) = <<>>
  <1>. DEFINE R == Real(w)
              a == [next |-> 0, got |-> <<>>]
              Is(f) == f = [x \in 0 .. 0 |-> IF x = 0 THEN [next |-> 0, got |-> <<>>] ELSE Drained(f[x - 1], SubSeq(R, 1, x))]
              st == CHOOSE f : Is(f)
              f == [x \in 0 .. 0 |-> a]
  <1>. HIDE DEF R
  <1>1. Is(f)
    <2>1. \A x \in 0 .. 0 : x = 0
      OBVIOUS
    <2>2. \A x \in 0 .. 0 : a = IF x = 0 THEN [next |-> 0, got |-> <<>>] ELSE Drained(f[x - 1], SubSeq(R, 1, x))
      BY <2>1
    <2>. QED BY <2>2, Zenon
  <1>. HIDE DEF Is
  <1>2. Is(st)
    BY <1>1, Zenon
  <1>. DEFINE g == st
  <1>3. g = [x \in 0 .. 0 |-> IF x = 0 THEN [next |-> 0, got |-> <<>>] ELSE Drained(g[x - 1], SubSeq(R, 1, x))]
    BY <1>2, Zenon DEF Is
  <1>4. Received(w) = g[0].got
    BY Zenon DEF Received, Is, R
  <1>. HIDE DEF g
  <1>5. g[0] = [next |-> 0, got |-> <<>>]
    <2>1. 0 \in 0 .. 0
      OBVIOUS
    <2>. QED BY <1>3, <2>1, Zenon
  <1>. QED BY <1>4, <1>5

(***************************************************************************)
(* What the server makes of a packet.                                      *)
(***************************************************************************)
(* The packets w give the server the payload of c, once and to its end. *)
Arrives(c, w) ==
    IF c.udp
    THEN /\ Len(Real(w)) = 1
         /\ LET d == Real(w)[1].data IN \A i \in DOMAIN d: d[i] = IF i <= c.len THEN i ELSE Fill
    ELSE /\ Places(Received(w)) = Payload(c)
         /\ \A i \in DOMAIN w: w[i].kind \in {"data", "raw"} =>
               ("fin" \in w[i].flags <=> c.fin /\ w[i].off + Len(w[i].data) = c.len)
LEMMA RawIs ==
    ASSUME NEW c \in Contexts
    PROVE  Raw(c) \in PacketSet /\ Real(<<Raw(c)>>) = <<Raw(c)>>
  <1>0. c \in Context /\ c.len \in Nat /\ Payload(c) \in Bytes
    BY ContextCaps, ContextFacts DEF Bytes
  <1>1. Raw(c) \in PacketSet
    <2>1. L4Header(c) + c.len \in Nat
      BY <1>0 DEF L4Header
    <2>2. ((IF c.syn THEN {"syn"} ELSE {}) \cup (IF c.fin THEN {"fin"} ELSE {})) \in SUBSET {"psh", "ack", "fin", "rst", "syn"}
      BY Zenon
    <2>3. -2 \in Int /\ 0 \in Nat /\ 0 \in Int
      OBVIOUS
    <2>. QED BY <1>0, <2>1, <2>2, <2>3 DEF Raw, PacketSet
  <1>2. Real(<<Raw(c)>>) = <<Raw(c)>>
    <2>. DEFINE w == <<Raw(c)>>
                I == {i \in DOMAIN w: w[i].last /\ w[i].kind \in {"data", "raw"}}
                N == 1
                q == [k \in 1 .. N |-> 1]
    <2>1. I = {1}
      BY DEF Raw
    <2>. HIDE DEF I, w
    <2>2. I \in SUBSET Int /\ N \in Nat /\ q \in [1 .. N -> I] /\ (\A i \in I : \E k \in 1 .. N : q[k] = i)
          /\ \A x, y \in 1 .. N : x < y => q[x] < q[y]
      BY <2>1
    <2>. HIDE DEF N, q
    <2>3. Chosen(w, I) = [k \in 1 .. N |-> w[q[k]]]
      BY <2>2, ChosenIs
    <2>4. Real(w) = [k \in 1 .. 1 |-> w[1]]
      BY <2>3 DEF Real, I, N, q
    <2>. QED BY <2>4 DEF w
  <1>. QED BY <1>1, <1>2
LEMMA RawArrives ==
    ASSUME NEW c \in Contexts
    PROVE  Arrives(c, <<Raw(c)>>)
  <1>. DEFINE w == <<Raw(c)>>
              s == SegDataSeg(Cut(Payload(c), 0, c.len), 0, Plain)
              b == [k \in 0 .. 1 |-> IF k = 0 THEN 0 ELSE c.len]
  <1>0. c \in Context /\ c.len \in Nat /\ Payload(c) \in Bytes /\ Len(Payload(c)) = c.len /\ \A i \in 1 .. c.len : Payload(c)[i] = i
    BY ContextCaps, ContextFacts DEF Bytes
  <1>1. Piece({}, c, 0, c.len, 0, s)
    <2>1. 0 \in 0 .. c.len /\ c.len \in 0 .. c.len
      BY <1>0
    <2>2. Plain.ipid \in IpIds
      BY DEF Plain, IpIds
    <2>. QED BY <1>0, <2>1, <2>2, PieceWhole
  <1>2. Tiling(<<s>>, 1, Payload(c), Id(1), b)
    BY <1>0, <1>1, OneTile
  <1>3. Real(w) = w /\ w \in Seq(PacketSet)
    BY RawIs
  <1>4. s.off = 0 /\ s.data = Payload(c) /\ s \in DataUnits({})
    <2>1. Cut(Payload(c), 0, c.len) = Payload(c)
      BY <1>0 DEF Cut, Bytes
    <2>. QED BY <1>1, <2>1 DEF Piece, SegDataSeg, Segment
  <1>5. <<s>> \in DataSeq({})
    BY <1>4 DEF DataSeq
  <1>. HIDE DEF s, b
  <1>6. Carried(Real(w), <<s>>, 1)
    <2>1. \A k \in 1 .. 1 : k = 1
      OBVIOUS
    <2>2. Raw(c).off = s.off /\ Raw(c).data = s.data
      BY <1>4 DEF Raw
    <2>3. w[1] = Raw(c) /\ <<s>>[1] = s /\ Len(w) = 1
      OBVIOUS
    <2>4. \A k \in 1 .. 1 : w[k].off = <<s>>[k].off /\ w[k].data = <<s>>[k].data
      BY <2>1, <2>2, <2>3
    <2>. QED BY <1>3, <2>3, <2>4 DEF Carried
  <1>7. Received(w) = Payload(c)
    BY <1>0, <1>2, <1>5, <1>6, ReceivedIs
  <1>8. Places(Payload(c)) = Payload(c)
    <2>1. DOMAIN Payload(c) = 1 .. c.len
      BY <1>0 DEF Payload
    <2>2. \A i \in 1 .. c.len : Payload(c)[i] % Touched = i
      BY <1>0, OwnPlaces
    <2>. QED BY <1>0, <2>1, <2>2 DEF Places, Payload
  <1>9. \A i \in DOMAIN w: w[i].kind \in {"data", "raw"} =>
               ("fin" \in w[i].flags <=> c.fin /\ w[i].off + Len(w[i].data) = c.len)
    <2>1. DOMAIN w = {1} /\ w[1] = Raw(c)
      OBVIOUS
    <2>2. Raw(c).off + Len(Raw(c).data) = c.len
      BY <1>0 DEF Raw
    <2>3. "fin" \in Raw(c).flags <=> c.fin
      BY DEF Raw
    <2>. QED BY <2>1, <2>2, <2>3
  <1>10. Len(w) = 1 /\ \A i \in DOMAIN w[1].data : w[1].data[i] = IF i <= c.len THEN i ELSE Fill
    BY <1>0 DEF Raw, Payload
  <1>. QED BY <1>3, <1>7, <1>8, <1>9, <1>10 DEF Arrives

(* What a plan is built of, as the proofs use it: of one sort of units, sent in packets full. *)
Built(c, T, us, U, ids, full, a) ==
    /\ us \in UnitSeq(T) /\ U \in UnitSeq(T) /\ Emitting(c, U, ids, full, a)
    /\ \E s : Sources(T, us, U, s)
    /\ DataOf(U) = DataOf(us)
    /\ full = <<>> <=> us = <<>>
LEMMA EmptyLen == ASSUME NEW S, NEW s \in Seq(S) PROVE s = <<>> <=> Len(s) = 0
  OBVIOUS
Sole(plan, us) == (us = plan.segs /\ plan.dgrams = <<>>) \/ (us = plan.dgrams /\ plan.segs = <<>>)
LEMMA BuiltOf ==
    ASSUME NEW c, NEW T, NEW plan \in PlanOf(T), NEW us, Sole(plan, us)
    PROVE  \E a : Built(c, T, us, PlanUnits(plan), PlanIds(plan), BuildPlan(c, plan), a)
  <1>. DEFINE U == PlanUnits(plan)
              full == BuildPlan(c, plan)
  <1>1. U \in UnitSeq(T) /\ \E a : Emitting(c, U, PlanIds(plan), full, a)
    BY BuiltIs
  <1>2. PICK a : Emitting(c, U, PlanIds(plan), full, a)
    BY <1>1
  <1>3. us \in UnitSeq(T)
    BY DEF PlanOf, Sole
  <1>4. PICK s : Sources(T, us, U, s)
    BY OneSort DEF Sole
  <1>5. DataOf(U) = DataOf(us)
    BY <1>3, <1>4, RepeatedData
  <1>. HIDE DEF U, full
  <1>6. us = <<>> <=> Len(us) = 0
    BY <1>3, EmptyLen DEF UnitSeq
  <1>7. full \in Seq(PacketSet) /\ Len(full) \in Nat /\ Len(U) \in Nat /\ Len(us) \in Nat
    BY <1>1, <1>2, <1>3 DEF Emitting, UnitSeq
  <1>8. full = <<>> <=> Len(full) = 0
    BY <1>7, EmptyLen
  <1>9. Len(full) = 0 => Len(us) = 0
    <2>1. \A k \in 1 .. Len(U) : \E i \in 1 .. Len(full) : a[i] = k
      BY <1>2 DEF Emitting
    <2>2. \A k \in 1 .. Len(us) : \E i \in 1 .. Len(U) : s[i] = k
      BY <1>4 DEF Sources
    <2>. SUFFICES ASSUME Len(full) = 0, Len(us) # 0 PROVE FALSE
      OBVIOUS
    <2>3. 1 \in 1 .. Len(us)
      BY <1>7
    <2>4. PICK i \in 1 .. Len(U) : s[i] = 1
      BY <2>2, <2>3
    <2>5. PICK j \in 1 .. Len(full) : a[j] = i
      BY <2>1, <2>4
    <2>. QED BY <2>5
  <1>10. Len(us) = 0 => Len(full) = 0
    <2>. SUFFICES ASSUME Len(us) = 0, Len(full) # 0 PROVE FALSE
      OBVIOUS
    <2>1. 1 \in 1 .. Len(full)
      BY <1>7
    <2>2. a[1] \in 1 .. Len(U)
      BY <1>2, <2>1 DEF Emitting
    <2>3. s[a[1]] \in 1 .. Len(us)
      BY <1>4, <2>2 DEF Sources
    <2>. QED BY <2>3
  <1>. QED BY <1>1, <1>2, <1>3, <1>4, <1>5, <1>6, <1>8, <1>9, <1>10 DEF Built, U, full
(* The real packets are the data of the units. *)
LEMMA RealData ==
    ASSUME NEW c, NEW T, NEW us, NEW U, NEW ids, NEW full, NEW a, Built(c, T, us, U, ids, full, a)
    PROVE  Carried(Real(full), DataOf(us), Len(DataOf(us))) /\ DataOf(us) \in DataSeq(T) /\ Len(DataOf(us)) \in Nat
  <1>1. U \in UnitSeq(T) /\ Emitting(c, U, ids, full, a) /\ DataOf(U) = DataOf(us) /\ us \in UnitSeq(T)
    BY DEF Built
  <1>2. /\ Real(full) \in Seq(PacketSet) /\ Len(Real(full)) = Len(DataOf(U)) /\ Len(DataOf(U)) \in Nat
        /\ \A k \in 1 .. Len(DataOf(U)) : Real(full)[k].off = DataOf(U)[k].off /\ Real(full)[k].data = DataOf(U)[k].data
    BY <1>1, RealIs
  <1>3. DataOf(us) \in DataSeq(T)
    BY <1>1, HoldsUnits DEF Holds
  <1>. QED BY <1>1, <1>2, <1>3 DEF Carried
(* A packet with data is of a data unit. *)
LEMMA DataPacket ==
    ASSUME NEW c, NEW T, NEW us, NEW U, NEW ids, NEW full, NEW a, Built(c, T, us, U, ids, full, a),
           NEW i \in DOMAIN full, full[i].kind \in {"data", "raw"}
    PROVE  \E k \in 1 .. Len(DataOf(us)) : full[i].off = DataOf(us)[k].off /\ full[i].data = DataOf(us)[k].data
                                           /\ full[i].flags = IF c.udp THEN {} ELSE DataFlags(c, DataOf(us)[k])
  <1>1. U \in UnitSeq(T) /\ Emitting(c, U, ids, full, a) /\ DataOf(U) = DataOf(us)
    BY DEF Built
  <1>2. full \in Seq(PacketSet) /\ DOMAIN full = 1 .. Len(full) /\ a[i] \in 1 .. Len(U) /\ Carrying(c, full[i], U[a[i]], ids[a[i]])
    BY <1>1 DEF Emitting
  <1>. DEFINE u == U[a[i]]
  <1>3. u \in Unit(T)
    <2>1. U \in Seq(Unit(T))
      BY <1>1 DEF UnitSeq
    <2>. QED BY <1>2, <2>1
  <1>4. IsData(u)
    <2>1. u.kind \in Kinds /\ u.kind = full[i].kind
      BY <1>2, <1>3 DEF Carrying, Unit
    <2>. QED BY <2>1 DEF Kinds, IsData
  <1>5. Len(U) \in Nat /\ U \in Seq(Unit(T)) /\ DataAt(U) = {k \in 1 .. Len(U) : IsData(U[k])}
    BY <1>1, NoData DEF UnitSeq
  <1>6. a[i] \in DataAt(U) /\ DataAt(U) \in SUBSET (1 .. Len(U))
    BY <1>2, <1>4, <1>5
  <1>. DEFINE J == DataAt(U)
              n == Cardinality(J)
              q == Ascending(J)
  <1>6a. U \in Seq(Unit(T)) /\ J \in SUBSET (1 .. Len(U)) /\ a[i] \in J
    BY <1>5, <1>6
  <1>. HIDE DEF J
  <1>7. /\ Len(Chosen(U, J)) = n /\ \A k \in 1 .. n : Chosen(U, J)[k] = U[q[k]]
        /\ \A x \in J : \E k \in 1 .. n : q[k] = x
    BY <1>6a, ChosenFacts
  <1>8. PICK k \in 1 .. n : q[k] = a[i]
    BY <1>6a, <1>7
  <1>9. DataOf(us)[k] = u /\ k \in 1 .. Len(DataOf(us))
    BY <1>1, <1>7, <1>8 DEF DataOf, J
  <1>10. full[i].off = u.off /\ full[i].data = u.data /\ full[i].flags = IF c.udp THEN {} ELSE Flags(c, u)
    BY <1>2 DEF Carrying
  <1>11. Flags(c, u) = DataFlags(c, u)
    BY <1>4, Zenon DEF Flags, IsData
  <1>. HIDE DEF u
  <1>. QED BY <1>9, <1>10, <1>11

(* The end of the stream is told where it is. *)
LEMMA FinIs ==
    ASSUME NEW c \in Contexts, ~c.udp, NEW ds, Exact(c, ds), NEW T, ds \in DataSeq(T),
           NEW k \in 1 .. Len(ds)
    PROVE  ("fin" \in DataFlags(c, ds[k]) <=> c.fin /\ EndOf(ds[k]) = c.len)
  <1>1. PICK F, n, p, b : Tiling(ds, n, F, p, b) /\ Len(F) = c.len /\ F \in Bytes
    BY DEF Exact
  <1>2. PICK j \in 1 .. n : p[j] = k
    BY <1>1 DEF Tiling
  <1>3. TileAt(T, ds, n, F, p, b, j)
    BY <1>1, TileFacts
  <1>4. EndOf(ds[k]) = b[j] /\ b[j] \in Nat /\ b[j] <= c.len /\ c.len \in Nat
    BY <1>1, <1>2, <1>3 DEF TileAt
  <1>5. EndOf(ds[k]) >= c.len <=> EndOf(ds[k]) = c.len
    BY <1>4
  <1>6. "fin" \in DataFlags(c, ds[k]) <=> c.fin /\ EndOf(ds[k]) >= c.len
    BY DEF DataFlags
  <1>. QED BY <1>5, <1>6, Zenon
LEMMA PlacesIs ==
    ASSUME NEW c \in Contexts, NEW F \in Bytes, Form(c, F)
    PROVE  Places(F) = Payload(c)
  <1>1. "inject" \in c.caps
    BY ContextCaps
  <1>2. Len(F) = c.len /\ \A i \in 1 .. c.len : F[i] % Touched = i
    BY <1>1 DEF Form
  <1>3. DOMAIN F = 1 .. c.len
    BY <1>2 DEF Bytes
  <1>. QED BY <1>2, <1>3 DEF Places, Payload
(* What a plan for a TCP packet gives the server. *)
LEMMA SegsArrive ==
    ASSUME NEW c \in Contexts, ~c.udp, ~c.syn, NEW T, NEW segs, SegsLawful(c, T, FALSE, segs), segs # <<>>,
           NEW U, NEW ids, NEW full, NEW a, Built(c, T, segs, U, ids, full, a)
    PROVE  Arrives(c, full)
  <1>. DEFINE ds == DataOf(segs)
  <1>0. c \in Context /\ c.len \in Nat
    BY ContextCaps, ContextFacts
  <1>1. segs \in UnitSeq(T) /\ (ds = <<>> \/ Exact(c, ds)) /\ (c.len > 0 => ds # <<>>)
    BY SegsExact
  <1>2. Carried(Real(full), ds, Len(ds)) /\ ds \in DataSeq(T) /\ Len(ds) \in Nat
    BY RealData
  <1>3. \A i \in DOMAIN full : full[i].kind \in {"data", "raw"} =>
           \E k \in 1 .. Len(ds) : full[i].off = ds[k].off /\ full[i].data = ds[k].data /\ full[i].flags = DataFlags(c, ds[k])
    <2>. SUFFICES ASSUME NEW i \in DOMAIN full, full[i].kind \in {"data", "raw"}
                  PROVE  \E k \in 1 .. Len(ds) : full[i].off = ds[k].off /\ full[i].data = ds[k].data /\ full[i].flags = DataFlags(c, ds[k])
      OBVIOUS
    <2>1. PICK k \in 1 .. Len(ds) : full[i].off = ds[k].off /\ full[i].data = ds[k].data
                                    /\ full[i].flags = IF c.udp THEN {} ELSE DataFlags(c, ds[k])
      BY DataPacket
    <2>. QED BY <2>1
  <1>. HIDE DEF ds
  <1>4. CASE ds = <<>>
    <2>1. Len(ds) = 0 /\ c.len = 0
      BY <1>0, <1>1, <1>4
    <2>2. Len(Real(full)) = 0
      BY <1>2, <2>1 DEF Carried
    <2>3. Received(full) = <<>>
      BY <2>2, ReceivedNone
    <2>4. Places(Received(full)) = Payload(c)
      BY <2>1, <2>3 DEF Places, Payload
    <2>5. \A i \in DOMAIN full : full[i].kind \notin {"data", "raw"}
      BY <1>3, <2>1
    <2>. QED BY <2>4, <2>5 DEF Arrives
  <1>5. CASE ds # <<>>
    <2>1. Exact(c, ds)
      BY <1>1, <1>5
    <2>2. PICK F, n, p, b : Form(c, F) /\ Tiling(ds, n, F, p, b) /\ Len(F) = c.len /\ F \in Bytes
      BY <2>1 DEF Exact
    <2>3. Len(ds) = n
      BY <2>2 DEF Tiling
    <2>4. Received(full) = F
      BY <1>2, <2>2, <2>3, ReceivedIs
    <2>5. Places(Received(full)) = Payload(c)
      BY <2>2, <2>4, PlacesIs
    <2>6. \A i \in DOMAIN full: full[i].kind \in {"data", "raw"} =>
               ("fin" \in full[i].flags <=> c.fin /\ full[i].off + Len(full[i].data) = c.len)
      <3>. SUFFICES ASSUME NEW i \in DOMAIN full, full[i].kind \in {"data", "raw"}
                    PROVE  ("fin" \in full[i].flags <=> c.fin /\ full[i].off + Len(full[i].data) = c.len)
        OBVIOUS
      <3>1. PICK k \in 1 .. Len(ds) : full[i].off = ds[k].off /\ full[i].data = ds[k].data /\ full[i].flags = DataFlags(c, ds[k])
        BY <1>3
      <3>2. "fin" \in DataFlags(c, ds[k]) <=> c.fin /\ EndOf(ds[k]) = c.len
        BY <1>2, <2>1, FinIs
      <3>. QED BY <3>1, <3>2 DEF EndOf
    <2>. QED BY <2>5, <2>6 DEF Arrives
  <1>. QED BY <1>4, <1>5
(* And for a UDP packet. *)
LEMMA DgramsArrive ==
    ASSUME NEW c \in Contexts, c.udp, NEW T, NEW dgrams, DgramsLawful(c, T, dgrams), dgrams # <<>>,
           NEW U, NEW ids, NEW full, NEW a, Built(c, T, dgrams, U, ids, full, a)
    PROVE  Arrives(c, full)
  <1>. DEFINE ds == DataOf(dgrams)
              R == Real(full)
  <1>1. Packed(c, ds)
    BY DEF DgramsLawful
  <1>2. Carried(R, ds, Len(ds))
    BY RealData
  <1>. HIDE DEF ds, R
  <1>3. Len(ds) = 1 /\ \A i \in 1 .. Len(ds[1].data) : ds[1].data[i] = IF i <= c.len THEN i ELSE Fill
    BY <1>1 DEF Packed
  <1>4. R \in Seq(PacketSet) /\ Len(R) = 1 /\ R[1].data = ds[1].data
    <2>1. R \in Seq(PacketSet) /\ Len(R) = Len(ds) /\ \A k \in 1 .. Len(ds) : R[k].data = ds[k].data
      BY <1>2 DEF Carried
    <2>2. 1 \in 1 .. Len(ds)
      BY <1>3
    <2>. QED BY <1>3, <2>1, <2>2
  <1>5. R[1].data \in Seq(Int)
    <2>1. R[1] \in PacketSet
      <3>1. \A i \in 1 .. Len(R) : R[i] \in PacketSet
        BY <1>4, Elem
      <3>2. 1 \in 1 .. Len(R)
        BY <1>4
      <3>. QED BY <3>1, <3>2
    <2>. QED BY <2>1 DEF PacketSet, Bytes
  <1>6. DOMAIN R[1].data = 1 .. Len(ds[1].data)
    BY <1>4, <1>5
  <1>. QED BY <1>3, <1>4, <1>6 DEF Arrives, R
(* What is injected in the place of a packet. *)
Stood(c, p) ==
    LET plan == PlanFor(c, p)
        full == BuildPlan(c, plan)
    IN  /\ full \in Seq(PacketSet)
        /\ ~plan.drop => full = <<>>
        /\ plan.drop /\ ~c.syn => (full = <<>> /\ Blocked(p)) \/ Arrives(c, full)
LEMMA PlanArrives ==
    ASSUME NEW c \in Contexts, NEW p \in Profiles, Buildable(c, PlanFor(c, p))
    PROVE  Stood(c, p)
  <1>. DEFINE plan == PlanFor(c, p)
              full == BuildPlan(c, plan)
              T == TTLs(p.ops, c)
  <1>1. Whole(c, T, Blocking(p.ops), plan)
    BY PlanWhole
  <1>2. /\ plan \in PlanOf(T) /\ SegsLawful(c, T, FALSE, plan.segs) /\ DgramsLawful(c, T, plan.dgrams)
        /\ plan.drop /\ plan.segs = <<>> /\ plan.dgrams = <<>> => Blocked(p)
        /\ ~plan.drop => plan.segs = <<>> /\ plan.dgrams = <<>>
    BY <1>1, BlockingIs DEF Whole
  <1>3. c.udp => plan.segs = <<>>
    BY DEF Buildable
  <1>4. ~c.udp => plan.dgrams = <<>>
    BY <1>2 DEF DgramsLawful
  <1>. HIDE DEF plan, full, T
  <1>5. CASE c.udp
    <2>. DEFINE us == plan.dgrams
    <2>1. PICK a : Built(c, T, us, PlanUnits(plan), PlanIds(plan), full, a)
      <3>1. Sole(plan, us)
        BY <1>3, <1>5 DEF Sole
      <3>. QED BY <1>2, <3>1, BuiltOf DEF full
    <2>2. full \in Seq(PacketSet) /\ (full = <<>> <=> us = <<>>)
      BY <2>1 DEF Built, Emitting
    <2>3. us # <<>> => Arrives(c, full)
      BY <1>2, <1>5, <2>1, DgramsArrive
    <2>. QED BY <1>2, <1>3, <1>5, <2>2, <2>3 DEF Stood, plan, full
  <1>6. CASE ~c.udp
    <2>. DEFINE us == plan.segs
    <2>1. PICK a : Built(c, T, us, PlanUnits(plan), PlanIds(plan), full, a)
      <3>1. Sole(plan, us)
        BY <1>4, <1>6 DEF Sole
      <3>. QED BY <1>2, <3>1, BuiltOf DEF full
    <2>2. full \in Seq(PacketSet) /\ (full = <<>> <=> us = <<>>)
      BY <2>1 DEF Built, Emitting
    <2>3. us # <<>> /\ ~c.syn => Arrives(c, full)
      BY <1>2, <1>6, <2>1, SegsArrive
    <2>. QED BY <1>2, <1>4, <1>6, <2>2, <2>3 DEF Stood, plan, full
  <1>. QED BY <1>5, <1>6

(* The packets of full behind the first m, and these. *)
Rest(full, m, s) ==
    /\ s \in Seq(PacketSet) /\ Len(s) = Len(full) - m /\ m \in 0 .. Len(full)
    /\ \A i \in 1 .. Len(s) : s[i] = full[m + i]
Firstly(full, m, s) ==
    /\ s \in Seq(PacketSet) /\ Len(s) = m /\ m \in 0 .. Len(full)
    /\ \A i \in 1 .. m : s[i] = full[i]
LEMMA RestAll == ASSUME NEW full \in Seq(PacketSet) PROVE Rest(full, 0, full) /\ Firstly(full, 0, <<>>)
  <1>1. Len(full) \in Nat
    OBVIOUS
  <1>2. \A i \in 1 .. Len(full) : 0 + i = i
    OBVIOUS
  <1>3. <<>> \in Seq(PacketSet) /\ Len(<<>>) = 0
    OBVIOUS
  <1>. QED BY <1>1, <1>2, <1>3 DEF Rest, Firstly
LEMMA RestTail ==
    ASSUME NEW full \in Seq(PacketSet), NEW m, NEW s, Rest(full, m, s), s # <<>>
    PROVE  Rest(full, m + 1, Tail(s)) /\ Head(s) = full[m + 1] /\ Head(s) \in PacketSet /\ m + 1 \in 0 .. Len(full)
  <1>1. s \in Seq(PacketSet) /\ Len(s) = Len(full) - m /\ m \in Nat /\ Len(full) \in Nat /\ m <= Len(full)
    BY DEF Rest
  <1>2. Len(s) # 0
    BY <1>1
  <1>3. Len(s) >= 1 /\ m + 1 <= Len(full)
    BY <1>1, <1>2
  <1>4. Tail(s) \in Seq(PacketSet) /\ Len(Tail(s)) = Len(s) - 1 /\ (\A i \in 1 .. Len(s) - 1 : Tail(s)[i] = s[i + 1]) /\ Head(s) = s[1]
    BY <1>1, <1>2
  <1>5. \A i \in 1 .. Len(s) : s[i] = full[m + i]
    BY DEF Rest
  <1>6. Head(s) = full[m + 1] /\ Head(s) \in PacketSet
    <2>1. 1 \in 1 .. Len(s)
      BY <1>1, <1>3
    <2>. QED BY <1>1, <1>4, <1>5, <2>1
  <1>7. \A i \in 1 .. Len(Tail(s)) : Tail(s)[i] = full[(m + 1) + i]
    <2>. SUFFICES ASSUME NEW i \in 1 .. Len(s) - 1 PROVE Tail(s)[i] = full[(m + 1) + i]
      BY <1>4
    <2>1. i + 1 \in 1 .. Len(s) /\ m + (i + 1) = (m + 1) + i
      BY <1>1
    <2>. QED BY <1>4, <1>5, <2>1
  <1>8. Len(Tail(s)) = Len(full) - (m + 1) /\ m + 1 \in 0 .. Len(full)
    BY <1>1, <1>3, <1>4
  <1>. QED BY <1>4, <1>6, <1>7, <1>8, Zenon DEF Rest
LEMMA FirstlyMore ==
    ASSUME NEW full \in Seq(PacketSet), NEW m, NEW s, Firstly(full, m, s), m + 1 \in 0 .. Len(full), NEW q \in PacketSet, q = full[m + 1]
    PROVE  Firstly(full, m + 1, Append(s, q))
  <1>1. s \in Seq(PacketSet) /\ Len(s) = m /\ m \in Nat /\ \A i \in 1 .. m : s[i] = full[i]
    BY DEF Firstly
  <1>. DEFINE z == Append(s, q)
  <1>2. z \in Seq(PacketSet) /\ Len(z) = m + 1 /\ z[m + 1] = q /\ \A i \in 1 .. m : z[i] = s[i]
    BY <1>1
  <1>. HIDE DEF z
  <1>3. \A i \in 1 .. m + 1 : z[i] = full[i]
    BY <1>1, <1>2
  <1>. QED BY <1>1, <1>2, <1>3 DEF Firstly, z
LEMMA FirstlyAll ==
    ASSUME NEW full \in Seq(PacketSet), NEW s, Firstly(full, Len(full), s)
    PROVE  s = full
  BY SameSeq DEF Firstly
LEMMA RestNone ==
    ASSUME NEW full \in Seq(PacketSet), NEW m, Rest(full, m, <<>>)
    PROVE  m = Len(full)
  BY DEF Rest

(* The packet that is handled, and what is left to do. *)
FullOf == BuildPlan(pkt, PlanFor(pkt, prof))
Injecting ==
    /\ Buildable(pkt, PlanFor(pkt, prof))
    /\ drop = PlanFor(pkt, prof).drop /\ issued = Issued(PlanFor(pkt, prof)) /\ built = Len(FullOf)
    /\ \E m : Rest(FullOf, m, out) /\ (fails = 0 => Firstly(FullOf, m, wire) /\ sent = m)
Handling == pkt \in Contexts /\ prof \in Profiles
DatapathInv ==
    /\ phase \in {"read", "inject", "forward", "done", "ended"} /\ fails \in Nat
    /\ phase \in {"read", "ended"} => out = <<>> /\ pkt = NoPacket
    /\ phase \in {"inject", "forward", "done"} => Handling
    /\ phase = "inject" => Injecting
    /\ phase \in {"forward", "done"} => out = <<>>
    /\ phase = "forward" /\ fails = 0 => wire = <<>>
    /\ phase = "done" /\ fails = 0 =>
          wire = <<Raw(pkt)>> \/ (PlanFor(pkt, prof).drop /\ Buildable(pkt, PlanFor(pkt, prof)) /\ wire = FullOf)

LEMMA HandleKeeps ==
    ASSUME NEW c \in Contexts, NEW p \in Profiles, Handle(c, p)
    PROVE  DatapathInv'
  <1>1. pkt' = c /\ prof' = p /\ wire' = <<>> /\ fails' = 0 /\ sent' = 0
    BY DEF Handle
  <1>2. ASSUME Forwarding PROVE DatapathInv'
    BY <1>1, <1>2 DEF Forwarding, DatapathInv, Handling
  <1>3. ASSUME ~Forwarding PROVE DatapathInv'
    <2>1. EmitPlan(c, PlanFor(c, p))
      BY <1>3 DEF Handle, PlanFor
    <2>2. /\ Buildable(c, PlanFor(c, p)) /\ out' = BuildPlan(c, PlanFor(c, p)) /\ built' = Len(out')
          /\ drop' = PlanFor(c, p).drop /\ issued' = Issued(PlanFor(c, p)) /\ phase' = "inject"
      BY <1>3, <2>1 DEF EmitPlan
    <2>. DEFINE full == BuildPlan(c, PlanFor(c, p))
    <2>3. full \in Seq(PacketSet)
      BY <2>2, PlanArrives DEF Stood
    <2>. HIDE DEF full
    <2>4. Rest(full, 0, full) /\ Firstly(full, 0, <<>>)
      BY <2>3, RestAll
    <2>5. Injecting'
      BY <1>1, <2>2, <2>4 DEF Injecting, FullOf, full
    <2>. QED BY <1>1, <2>2, <2>5 DEF DatapathInv, Handling
  <1>. QED BY <1>2, <1>3
LEMMA InjectKeeps ==
    ASSUME DatapathInv, InjectOk \/ InjectFails
    PROVE  DatapathInv'
  <1>1. /\ phase = "inject" /\ out # <<>> /\ phase' = phase /\ pkt' = pkt /\ prof' = prof /\ built' = built /\ drop' = drop
        /\ issued' = issued /\ out' = Tail(out)
    BY DEF InjectOk, InjectFails
  <1>2. (fails' = fails /\ wire' = Append(wire, Head(out)) /\ sent' = sent + 1) \/ fails' = fails + 1
    BY DEF InjectOk, InjectFails
  <1>3. Handling /\ Injecting /\ fails \in Nat
    BY <1>1 DEF DatapathInv
  <1>4. FullOf \in Seq(PacketSet) /\ FullOf' = FullOf
    BY <1>1, <1>3, PlanArrives DEF Handling, Injecting, Stood, FullOf
  <1>5. PICK m : Rest(FullOf, m, out) /\ (fails = 0 => Firstly(FullOf, m, wire) /\ sent = m)
    BY <1>3 DEF Injecting
  <1>6. Rest(FullOf, m + 1, Tail(out)) /\ Head(out) = FullOf[m + 1] /\ Head(out) \in PacketSet /\ m + 1 \in 0 .. Len(FullOf)
    BY <1>1, <1>4, <1>5, RestTail
  <1>7. fails' = 0 => Firstly(FullOf, m + 1, wire') /\ sent' = m + 1
    <2>. SUFFICES ASSUME fails' = 0 PROVE Firstly(FullOf, m + 1, wire') /\ sent' = m + 1
      OBVIOUS
    <2>1. fails = 0 /\ wire' = Append(wire, Head(out)) /\ sent' = sent + 1
      BY <1>2, <1>3
    <2>. QED BY <1>4, <1>5, <1>6, <2>1, FirstlyMore
  <1>8. Injecting'
    <2>1. \E k : Rest(FullOf, k, out') /\ (fails' = 0 => Firstly(FullOf, k, wire') /\ sent' = k)
      BY <1>1, <1>6, <1>7
    <2>. QED BY <1>1, <1>3, <1>4, <2>1 DEF Injecting
  <1>9. fails' \in Nat
    BY <1>3 DEF InjectOk, InjectFails
  <1>. QED BY <1>1, <1>3, <1>8, <1>9 DEF DatapathInv, Handling
LEMMA TriedKeeps ==
    ASSUME DatapathInv, AllTried
    PROVE  DatapathInv'
  <1>1. /\ phase = "inject" /\ out = <<>> /\ phase' = IF drop /\ ~(sent = 0 /\ built > 0) THEN "done" ELSE "forward"
        /\ UNCHANGED <<pkt, prof, out, built, sent, drop, issued, wire, fails>>
    BY DEF AllTried
  <1>2. Handling /\ Injecting /\ fails \in Nat
    BY <1>1 DEF DatapathInv
  <1>3. FullOf \in Seq(PacketSet) /\ Stood(pkt, prof)
    BY <1>2, PlanArrives DEF Handling, Injecting, Stood, FullOf
  <1>4. PICK m : Rest(FullOf, m, out) /\ (fails = 0 => Firstly(FullOf, m, wire) /\ sent = m)
    BY <1>2 DEF Injecting
  <1>5. fails = 0 => wire = FullOf /\ sent = Len(FullOf)
    BY <1>1, <1>3, <1>4, RestNone, FirstlyAll
  <1>6. drop = PlanFor(pkt, prof).drop /\ built = Len(FullOf) /\ Buildable(pkt, PlanFor(pkt, prof))
    BY <1>2 DEF Injecting
  <1>7. ~drop => FullOf = <<>>
    BY <1>3, <1>6 DEF Stood, FullOf
  <1>8. Len(FullOf) \in Nat
    BY <1>3
  <1>9. CASE drop /\ ~(sent = 0 /\ built > 0)
    BY <1>1, <1>2, <1>5, <1>6, <1>9 DEF DatapathInv, Handling, FullOf
  <1>10. CASE ~(drop /\ ~(sent = 0 /\ built > 0))
    <2>1. fails = 0 => wire = <<>>
      BY <1>5, <1>6, <1>7, <1>8, <1>10
    <2>. QED BY <1>1, <1>2, <1>10, <2>1 DEF DatapathInv, Handling
  <1>. QED BY <1>9, <1>10
LEMMA ForwardKeeps ==
    ASSUME DatapathInv, NEW ok \in BOOLEAN, Forward(ok)
    PROVE  DatapathInv'
  <1>1. /\ phase = "forward" /\ phase' = "done" /\ wire' = (IF ok THEN Append(wire, Raw(pkt)) ELSE wire)
        /\ fails' = (IF ok THEN fails ELSE fails + 1)
        /\ UNCHANGED <<pkt, prof, out>>
    BY DEF Forward
  <1>2. Handling /\ fails \in Nat /\ out = <<>> /\ (fails = 0 => wire = <<>>)
    BY <1>1 DEF DatapathInv
  <1>3. fails' \in Nat /\ (fails' = 0 => wire' = <<Raw(pkt)>>)
    <2>1. CASE ok
      <3>1. fails' = fails /\ wire' = Append(wire, Raw(pkt))
        BY <1>1, <2>1
      <3>2. Append(<<>>, Raw(pkt)) = <<Raw(pkt)>>
        OBVIOUS
      <3>. QED BY <1>2, <3>1, <3>2
    <2>2. CASE ~ok
      BY <1>1, <1>2, <2>2
    <2>. QED BY <2>1, <2>2
  <1>. QED BY <1>1, <1>2, <1>3 DEF DatapathInv, Handling
LEMMA DatapathStep == DatapathInv /\ [Next]_vars => DatapathInv'
  <1>. SUFFICES ASSUME DatapathInv, [Next]_vars PROVE DatapathInv'
    OBVIOUS
  <1>1. ASSUME ReadNothing \/ ReadFails \/ ReadFatal \/ Stop PROVE DatapathInv'
    BY <1>1 DEF ReadNothing, ReadFails, ReadFatal, Stop, End, Handled, DatapathInv
  <1>2. ASSUME NEW c \in Contexts, NEW p \in Profiles, Handle(c, p) PROVE DatapathInv'
    BY <1>2, HandleKeeps
  <1>3. ASSUME InjectOk \/ InjectFails PROVE DatapathInv'
    BY <1>3, InjectKeeps
  <1>4. ASSUME AllTried PROVE DatapathInv'
    BY <1>4, TriedKeeps
  <1>5. ASSUME Turn PROVE DatapathInv'
    BY <1>5 DEF Turn, DatapathInv
  <1>6. ASSUME NEW ok \in BOOLEAN, Forward(ok) PROVE DatapathInv'
    BY <1>6, ForwardKeeps
  <1>7. ASSUME UNCHANGED vars PROVE DatapathInv'
    BY <1>7 DEF vars, DatapathInv, Handling, Injecting, FullOf
  <1>. QED BY <1>1, <1>2, <1>3, <1>4, <1>5, <1>6, <1>7 DEF Next
LEMMA DatapathAlways == Spec => []DatapathInv
  <1>1. Init => DatapathInv
    BY DEF Init, DatapathInv
  <1>. QED BY <1>1, DatapathStep, PTL DEF Spec

LEMMA DeliveredIs == DatapathInv => Delivered
  <1>. SUFFICES ASSUME DatapathInv, phase = "done", fails = 0, ~pkt.syn, ~(wire = <<>> /\ Blocked(prof))
                PROVE  Arrives(pkt, wire)
    BY DEF Delivered, Arrives
  <1>1. Handling
    BY DEF DatapathInv
  <1>2. CASE wire = <<Raw(pkt)>>
    BY <1>1, <1>2, RawArrives DEF Handling
  <1>3. CASE wire # <<Raw(pkt)>>
    <2>1. PlanFor(pkt, prof).drop /\ Buildable(pkt, PlanFor(pkt, prof)) /\ wire = BuildPlan(pkt, PlanFor(pkt, prof))
      BY <1>3 DEF DatapathInv, FullOf
    <2>. QED BY <1>1, <2>1, PlanArrives DEF Handling, Stood
  <1>. QED BY <1>2, <1>3
(* What waits to be injected is of the packets of the plan. *)
LEMMA OutIs ==
    ASSUME DatapathInv, NEW i \in DOMAIN out
    PROVE  /\ phase = "inject" /\ Handling /\ Injecting /\ out[i] \in PacketSet /\ FullOf \in Seq(PacketSet)
           /\ \E k \in 1 .. Len(FullOf) : out[i] = FullOf[k]
  <1>1. out # <<>>
    OBVIOUS
  <1>2. phase = "inject" /\ Handling /\ Injecting
    BY <1>1 DEF DatapathInv
  <1>3. FullOf \in Seq(PacketSet)
    BY <1>2, PlanArrives DEF Handling, Injecting, Stood, FullOf
  <1>4. PICK m : Rest(FullOf, m, out)
    BY <1>2 DEF Injecting
  <1>5. out \in Seq(PacketSet) /\ Len(out) = Len(FullOf) - m /\ m \in 0 .. Len(FullOf) /\ \A j \in 1 .. Len(out) : out[j] = FullOf[m + j]
    BY <1>4 DEF Rest
  <1>6. i \in 1 .. Len(out) /\ out[i] \in PacketSet /\ out[i] = FullOf[m + i]
    BY <1>5
  <1>7. m + i \in 1 .. Len(FullOf)
    <2>1. Len(FullOf) \in Nat
      BY <1>3
    <2>. QED BY <1>5, <1>6, <2>1
  <1>. QED BY <1>2, <1>3, <1>6, <1>7
LEMMA SendableIs == DatapathInv => Sendable
  <1>. SUFFICES ASSUME DatapathInv, "v6" \in DOMAIN pkt, ~pkt.v6, NEW i \in DOMAIN out PROVE Fits(pkt, out[i])
    BY DEF Sendable
  <1>1. pkt \in Contexts /\ out[i] \in PacketSet
    BY OutIs DEF Handling
  <1>. QED BY <1>1, PacketFits
LEMMA IdsReservedIs == DatapathInv => IdsReserved
  <1>. SUFFICES ASSUME DatapathInv, NEW i \in DOMAIN out PROVE out[i].id < issued \/ out[i].id < 0
    BY DEF IdsReserved
  <1>1. Handling /\ Injecting /\ \E k \in 1 .. Len(FullOf) : out[i] = FullOf[k]
    BY OutIs
  <1>2. PICK k \in 1 .. Len(FullOf) : out[i] = FullOf[k]
    BY <1>1
  <1>. DEFINE plan == PlanFor(pkt, prof)
              T == TTLs(prof.ops, pkt)
              U == PlanUnits(plan)
              ids == PlanIds(plan)
  <1>3. plan \in PlanOf(T)
    BY <1>1, PlanWhole DEF Handling, Whole
  <1>4. issued = Issued(plan) /\ FullOf = BuildPlan(pkt, plan)
    BY <1>1 DEF Injecting, FullOf
  <1>. HIDE DEF plan, T
  <1>5. (\A j \in 1 .. Len(U) : ids[j] < Issued(plan) \/ ids[j] < 0) /\ \E a : Emitting(pkt, U, ids, BuildPlan(pkt, plan), a)
    BY <1>3, BuiltIs
  <1>6. PICK a : Emitting(pkt, U, ids, FullOf, a)
    BY <1>4, <1>5
  <1>7. a[k] \in 1 .. Len(U) /\ FullOf[k].id = ids[a[k]]
    BY <1>6 DEF Emitting, Carrying
  <1>8. ids[a[k]] < Issued(plan) \/ ids[a[k]] < 0
    BY <1>5, <1>7, Zenon
  <1>. HIDE DEF U, ids
  <1>. QED BY <1>2, <1>4, <1>7, <1>8, Zenon
(* When nothing failed, the server has the payload, each byte once and to its end; *)
(* the packets fit the link, and no two plans use one ip_id.                       *)
THEOREM PayloadArrivesHolds == Spec => []PayloadArrives
  <1>1. DatapathInv => PayloadArrives
    BY DeliveredIs, SendableIs, IdsReservedIs DEF PayloadArrives
  <1>. QED BY <1>1, DatapathAlways, PTL

(***************************************************************************)
(* The name.                                                               *)
(***************************************************************************)
(* One of the ends of the name is not among the bytes. *)
Parted2(c, s) == ~({c.sld + 1, c.sld + c.sldLen} \subseteq Range(Places(s)))
LEMMA Lacks ==
    ASSUME NEW c, NEW s, NEW x \in {c.sld + 1, c.sld + c.sldLen}, \A i \in DOMAIN s : s[i] % Touched # x
    PROVE  Parted2(c, s)
  BY Zenon DEF Parted2, Places, Range
LEMMA DecoyLacks ==
    ASSUME NEW c \in Context, NEW s \in Bytes, \A i \in 1 .. Len(s) : s[i] = Decoy
    PROVE  Parted2(c, s)
  <1>1. Touched \in Nat /\ c.sld \in Nat /\ c.sldLen \in Nat /\ c.sld + c.sldLen <= c.len /\ c.len < Touched - 2 /\ c.len \in Nat
    BY ContextFacts
  <1>2. Touched > 2
    BY <1>1
  <1>3. -1 % Touched = Touched - 1
    BY <1>1, <1>2
  <1>4. \A i \in DOMAIN s : s[i] % Touched # c.sld + c.sldLen
    <2>1. DOMAIN s = 1 .. Len(s)
      BY DEF Bytes
    <2>. QED BY <1>1, <1>3, <2>1 DEF Decoy
  <1>5. c.sld + c.sldLen \in {c.sld + 1, c.sld + c.sldLen}
    OBVIOUS
  <1>. QED BY <1>4, <1>5, Lacks
LEMMA TileLacks ==
    ASSUME NEW c \in Context, NEW T, NEW ds \in DataSeq(T), NEW n, NEW F \in Bytes, NEW p, NEW b, Tiling(ds, n, F, p, b),
           NEW j \in 1 .. n, NEW k \in 0 .. n, NameAt(c, F, b[k])
    PROVE  Parted2(c, ds[p[j]].data)
  <1>. DEFINE s == ds[p[j]]
              d == s.data
  <1>0. Touched \in Nat /\ Touched > 2 /\ c.sld \in Nat /\ c.sldLen \in Nat
    BY ContextFacts, SMTT(30)
  <1>1. TileAt(T, ds, n, F, p, b, j)
    BY TileFacts
  <1>2. /\ n \in Nat /\ s.off \in Int /\ d \in Seq(Int) /\ Len(d) \in Nat /\ b[j - 1] \in Nat /\ b[j] \in Nat /\ b[j] <= Len(F)
        /\ Len(F) \in Nat /\ s.off <= b[j - 1] /\ s.off + Len(d) = b[j]
        /\ \A t \in 1 .. Len(d) : d[t] = IF s.off + t > b[j - 1] THEN F[s.off + t] ELSE Fill
    BY <1>1 DEF TileAt
  <1>3. b \in [0 .. n -> 0 .. Len(F)] /\ \A x, y \in 0 .. n : x < y => b[x] < b[y] \/ Len(F) = 0
    BY Zenon DEF Tiling, Bounds
  <1>4. b[k] \in Nat /\ b[k] <= Len(F)
    BY <1>2, <1>3
  <1>5. c.sldLen >= 2 /\ \A i \in 1 .. Len(F) : IF i <= b[k] THEN F[i] % Touched # c.sld + c.sldLen ELSE F[i] % Touched # c.sld + 1
    BY Zenon DEF NameAt
  <1>6. 0 % Touched = 0
    BY <1>0
  <1>. DEFINE from == b[j - 1]
              to == b[j]
              at == b[k]
              m == Len(F)
              off == s.off
  <1>6a. DOMAIN d = 1 .. Len(d)
    BY <1>2
  <1>6b. j \in 0 .. n /\ j - 1 \in 0 .. n /\ j \in Nat /\ k \in Nat
    BY <1>2
  <1>6c. j <= k => to <= at
    <2>1. CASE j = k
      BY <1>4, <2>1
    <2>2. CASE j # k
      BY <1>2, <1>3, <1>4, <1>6b, <2>2
    <2>. QED BY <2>1, <2>2
  <1>6d. j > k => at <= from
    <2>1. CASE k = j - 1
      BY <1>4, <2>1
    <2>2. CASE k # j - 1
      BY <1>2, <1>3, <1>4, <1>6b, <2>2
    <2>. QED BY <2>1, <2>2
  <1>. HIDE DEF d, s, from, to, at, m, off
  <1>7. /\ off \in Int /\ Len(d) \in Nat /\ from \in Nat /\ to \in Nat /\ to <= m /\ m \in Nat /\ off <= from /\ off + Len(d) = to /\ at \in Nat
    BY <1>2, <1>4 DEF from, to, at, m, off
  <1>8. \A t \in 1 .. Len(d) : d[t] = IF off + t > from THEN F[off + t] ELSE Fill
    BY <1>2 DEF from, off
  <1>9. \A i \in 1 .. m : IF i <= at THEN F[i] % Touched # c.sld + c.sldLen ELSE F[i] % Touched # c.sld + 1
    BY <1>5 DEF m, at
  <1>10. ASSUME j <= k, NEW t \in 1 .. Len(d) PROVE d[t] % Touched # c.sld + c.sldLen
    <2>1. to <= at
      BY <1>6c, <1>10
    <2>2. CASE off + t > from
      <3>1. off + t \in 1 .. m /\ off + t <= at
        BY <1>7, <2>1, <2>2
      <3>2. F[off + t] % Touched # c.sld + c.sldLen
        BY <1>9, <3>1
      <3>. QED BY <1>8, <2>2, <3>2
    <2>3. CASE ~(off + t > from)
      <3>1. d[t] = 0
        BY <1>8, <2>3 DEF Fill
      <3>. QED BY <1>0, <1>5, <1>6, <3>1
    <2>. QED BY <2>2, <2>3
  <1>11. ASSUME j > k, NEW t \in 1 .. Len(d) PROVE d[t] % Touched # c.sld + 1
    <2>1. at <= from
      BY <1>6d, <1>11
    <2>2. CASE off + t > from
      <3>1. off + t \in 1 .. m /\ ~(off + t <= at)
        BY <1>7, <2>1, <2>2
      <3>2. F[off + t] % Touched # c.sld + 1
        BY <1>9, <3>1
      <3>. QED BY <1>8, <2>2, <3>2
    <2>3. CASE ~(off + t > from)
      <3>1. d[t] = 0
        BY <1>8, <2>3 DEF Fill
      <3>. QED BY <1>0, <1>6, <3>1
    <2>. QED BY <2>2, <2>3
  <1>12. CASE j <= k
    <2>1. \A t \in DOMAIN d : d[t] % Touched # c.sld + c.sldLen
      BY <1>6a, <1>10, <1>12 DEF d
    <2>. QED BY <2>1, Lacks DEF d, s
  <1>13. CASE j > k
    <2>1. \A t \in DOMAIN d : d[t] % Touched # c.sld + 1
      BY <1>6a, <1>11, <1>13 DEF d
    <2>. QED BY <2>1, Lacks DEF d, s
  <1>. QED BY <1>6b, <1>12, <1>13

(* A unit of segs whose data divide the name has not all of it. *)
LEMMA UnitLacks ==
    ASSUME NEW c \in Context, NEW T, NEW segs \in UnitSeq(T), Good(c, DataOf(segs), TRUE),
           NEW u \in Unit(T), IsData(u) => \E k \in 1 .. Len(DataOf(segs)) : u.data = DataOf(segs)[k].data
    PROVE  Parted2(c, u.data)
  <1>. DEFINE ds == DataOf(segs)
  <1>1. u.data \in Bytes /\ (~IsData(u) => \A i \in 1 .. Len(u.data) : u.data[i] = Decoy)
    BY DEF Unit, Bytes
  <1>2. CASE ~IsData(u)
    BY <1>1, <1>2, DecoyLacks
  <1>3. CASE IsData(u)
    <2>1. PICK F, n, p, b : Form(c, F) /\ Tiling(ds, n, F, p, b) /\ Divided(c, F, n, b, TRUE)
      BY DEF Good
    <2>2. PICK k \in 0 .. n : NameAt(c, F, b[k])
      BY <2>1 DEF Divided
    <2>3. ds \in DataSeq(T) /\ F \in Bytes
      BY <2>1, HoldsUnits DEF Holds, Form
    <2>4. PICK i \in 1 .. Len(ds) : u.data = ds[i].data
      BY <1>3
    <2>5. PICK j \in 1 .. n : p[j] = i
      BY <2>1, <2>4 DEF Tiling
    <2>6. Parted2(c, ds[p[j]].data)
      BY <2>1, <2>2, <2>3, TileLacks
    <2>. QED BY <2>4, <2>5, <2>6
  <1>. QED BY <1>2, <1>3
LEMMA CutsIs ==
    ASSUME NEW c \in Contexts, NEW p \in Profiles, Cuts(p, c)
    PROVE  OneCut(p.ops, c)
  <1>. DEFINE o == Splits(p.ops)[1]
  <1>1. /\ Len(Splits(p.ops)) = 1 /\ Supported(o, c) /\ o.ovl = 0
        /\ o.op \in {"multisplit", "multidisorder", "fakedsplit", "fakeddisorder"}
        /\ Specs(o)[1] = Name /\ c.sld > 0 /\ c.sldLen >= 2 /\ c.len <= MaxFake
    BY DEF Cuts, Splits, Name
  <1>2. Cutter(c, o)
    BY <1>1 DEF Cutter, Named
  <1>. QED BY <1>1, <1>2 DEF OneCut
(* A packet of a plan is of a unit of it. *)
LEMMA PacketUnit ==
    ASSUME NEW c, NEW T, NEW us, NEW U, NEW ids, NEW full, NEW a, Built(c, T, us, U, ids, full, a), NEW i \in 1 .. Len(full)
    PROVE  /\ a[i] \in 1 .. Len(U) /\ U[a[i]] \in Unit(T) /\ Carrying(c, full[i], U[a[i]], ids[a[i]])
           /\ \E k \in 1 .. Len(us) : U[a[i]] = us[k]
  <1>1. U \in Seq(Unit(T)) /\ Emitting(c, U, ids, full, a)
    BY DEF Built, UnitSeq
  <1>2. a[i] \in 1 .. Len(U) /\ Carrying(c, full[i], U[a[i]], ids[a[i]])
    BY <1>1 DEF Emitting
  <1>3. U[a[i]] \in Unit(T)
    BY <1>1, <1>2
  <1>4. PICK s : Sources(T, us, U, s)
    BY DEF Built
  <1>5. s[a[i]] \in 1 .. Len(us) /\ U[a[i]] = us[s[a[i]]]
    BY <1>2, <1>4 DEF Sources
  <1>. QED BY <1>2, <1>3, <1>5
LEMMA DataNth ==
    ASSUME NEW T, NEW us \in UnitSeq(T), NEW k \in 1 .. Len(us), IsData(us[k])
    PROVE  \E j \in 1 .. Len(DataOf(us)) : us[k] = DataOf(us)[j]
  <1>. DEFINE J == DataAt(us)
              n == Cardinality(J)
              q == Ascending(J)
  <1>1. us \in Seq(Unit(T)) /\ J \in SUBSET (1 .. Len(us)) /\ k \in J
    <2>1. J = {i \in 1 .. Len(us) : IsData(us[i])}
      BY NoData
    <2>. QED BY <2>1 DEF UnitSeq
  <1>. HIDE DEF J
  <1>2. /\ Len(Chosen(us, J)) = n /\ \A x \in 1 .. n : Chosen(us, J)[x] = us[q[x]]
        /\ \A x \in J : \E y \in 1 .. n : q[y] = x
    BY <1>1, ChosenFacts
  <1>3. PICK j \in 1 .. n : q[j] = k
    BY <1>1, <1>2
  <1>. QED BY <1>2, <1>3 DEF DataOf, J
LEMMA NameCutIs == DatapathInv => NameCut
  <1>. SUFFICES ASSUME DatapathInv, Cuts(prof, pkt), NEW i \in DOMAIN out PROVE Parted2(pkt, out[i].data)
    BY DEF NameCut, Parted2
  <1>. DEFINE c == pkt
              plan == PlanFor(pkt, prof)
              T == TTLs(prof.ops, pkt)
  <1>1. Handling /\ Injecting /\ \E k \in 1 .. Len(FullOf) : out[i] = FullOf[k]
    BY OutIs
  <1>2. PICK k \in 1 .. Len(FullOf) : out[i] = FullOf[k]
    BY <1>1
  <1>3. c \in Contexts /\ prof \in Profiles /\ c \in Context /\ ~c.udp
    BY <1>1, ContextCaps DEF Handling, Cuts
  <1>4. Whole(c, T, Blocking(prof.ops), plan)
    BY <1>3, PlanWhole
  <1>5. plan \in PlanOf(T) /\ plan.dgrams = <<>> /\ plan.segs \in UnitSeq(T)
    BY <1>3, <1>4 DEF Whole, DgramsLawful, PlanOf
  <1>6. SegsLawful(c, T, TRUE, plan.segs)
    <2>1. OneCut(prof.ops, c) /\ prof.ops \in Seq(Operation)
      BY <1>3, CutsIs, ProfileOps
    <2>. QED BY <1>3, <2>1, RunCut DEF PlanFor
  <1>7. PICK a : Built(c, T, plan.segs, PlanUnits(plan), PlanIds(plan), FullOf, a)
    <2>1. Sole(plan, plan.segs)
      BY <1>5 DEF Sole
    <2>2. FullOf = BuildPlan(c, plan)
      BY DEF FullOf
    <2>. QED BY <1>5, <2>1, <2>2, BuiltOf
  <1>. DEFINE u == PlanUnits(plan)[a[k]]
  <1>. HIDE DEF plan, T, c
  <1>8. u \in Unit(T) /\ Carrying(c, FullOf[k], u, PlanIds(plan)[a[k]]) /\ \E j \in 1 .. Len(plan.segs) : u = plan.segs[j]
    BY <1>7, PacketUnit
  <1>. HIDE DEF u
  <1>9. PICK j \in 1 .. Len(plan.segs) : u = plan.segs[j]
    BY <1>8
  <1>10. IsData(u) => \E x \in 1 .. Len(DataOf(plan.segs)) : u.data = DataOf(plan.segs)[x].data
    BY <1>5, <1>9, DataNth
  <1>11. Good(c, DataOf(plan.segs), TRUE)
    BY <1>6 DEF SegsLawful
  <1>12. Parted2(c, u.data)
    BY <1>3, <1>5, <1>8, <1>10, <1>11, UnitLacks
  <1>13. out[i].data = u.data
    BY <1>2, <1>8 DEF Carrying
  <1>. QED BY <1>12, <1>13 DEF c

(***************************************************************************)
(* The TTL of decoys.                                                      *)
(***************************************************************************)
LEMMA MinIs ==
    ASSUME NEW S, NEW x \in S, S \subseteq Int, \A y \in S : x <= y
    PROVE  Min(S) = x
  <1>1. \A z \in S : (\A y \in S : z <= y) => z = x
    OBVIOUS
  <1>. QED BY <1>1, Zenon DEF Min
LEMMA DistanceIs ==
    ASSUME NEW n \in 1 .. 255
    PROVE  Distance(n) = HopsFromTTL(n) /\ HopsFromTTL(n) \in 0 .. 127
  <1>. DEFINE S == {initial - n : initial \in {m \in {64, 128, 255}: m >= n}}
              x == HopsFromTTL(n)
  <1>1. x = IF n <= 64 THEN 64 - n ELSE IF n <= 128 THEN 128 - n ELSE 255 - n
    BY DEF HopsFromTTL
  <1>2. x \in S /\ S \subseteq Int /\ \A y \in S : x <= y
    <2>1. CASE n <= 64
      BY <1>1, <2>1
    <2>2. CASE n > 64 /\ n <= 128
      BY <1>1, <2>2
    <2>3. CASE n > 128
      BY <1>1, <2>3
    <2>. QED BY <2>1, <2>2, <2>3
  <1>3. Distance(n) = Min(S)
    BY DEF Distance
  <1>. HIDE DEF S, x
  <1>4. Distance(n) = x
    BY <1>2, <1>3, MinIs
  <1>5. x \in 0 .. 127
    BY <1>1
  <1>. QED BY <1>4, <1>5 DEF x
(* What a guessed or a measured TTL becomes. *)
Limited(t, lo, hi, x) ==
    LET l == IF lo = 0 THEN 3 ELSE lo
        h == IF hi = 0 THEN 20 ELSE hi
    IN  t = IF x < l THEN l ELSE IF x > h THEN h ELSE x
LEMMA ShortOf ==
    ASSUME NEW lo \in Nat, NEW hi \in Nat, NEW x \in Nat, NEW near \in Int, NEW t, Limited(t, lo, hi, x)
    PROVE  /\ t # 0
           /\ x = (IF near < 1 THEN 1 ELSE near) => t <= (IF lo = 0 THEN 3 ELSE lo) \/ t <= near
  BY DEF Limited
LEMMA ByteNat == ASSUME NEW m \in 0 .. 255 PROVE m \in Nat /\ m \in Int
  OBVIOUS
LEMMA DeltaInt == ASSUME NEW d \in -127 .. 127 PROVE d \in Int
  OBVIOUS
LEMMA AutoFields ==
    ASSUME NEW a \in Autos
    PROVE  a.delta \in -127 .. 127 /\ a.min \in Nat /\ a.max \in Nat /\ a.min \in Int /\ a.max \in Int /\ a.delta \in Int
  <1>1. a.delta \in -127 .. 127 /\ a.min \in 0 .. 255 /\ a.max \in 0 .. 255
    BY Zenon DEF Autos
  <1>. QED BY <1>1, ByteNat, DeltaInt, ZenonT(40)
LEMMA SumRange == ASSUME NEW d \in -127 .. 127, NEW h \in 0 .. 127 PROVE h + d \in Int /\ h + d <= 254
  OBVIOUS
LEMMA MiddleInt == ASSUME NEW l \in Int, NEW h \in Int PROVE l + ((h - l) % 256) \div 2 \in Int
  <1>1. (h - l) % 256 \in Int
    BY ModNat
  <1>2. ((h - l) % 256) \div 2 \in Int
    BY <1>1
  <1>. QED BY <1>2
LEMMA SumInt == ASSUME NEW l \in Int, NEW h \in Int PROVE l + h \in Int
  OBVIOUS
LEMMA EitherInt ==
    ASSUME NEW g \in Int, NEW v \in Int, NEW h
    PROVE  (IF h = 0 THEN g ELSE IF v < 1 THEN 1 ELSE v) \in Int
  OBVIOUS
LEMMA AutoTTL ==
    ASSUME NEW o \in Operation, NEW c \in Context, o.auto # <<>>
    PROVE  LET a == o.auto[1]
               t == ApplyTTL(o, c).ttl
               near == Distance(c.seen) + a.delta
           IN  /\ t # 0
               /\ c.seen # 0 /\ Distance(c.seen) # 0 => t <= (IF a.min = 0 THEN 3 ELSE a.min) \/ t <= near
  <1>. DEFINE a == o.auto[1]
              hops == HopsFromTTL(c.seen)
              guess == a.min + ((a.max - a.min) % 256) \div 2
              v == hops + a.delta
              x == (IF hops = 0 THEN guess ELSE IF v < 1 THEN 1 ELSE v) % 256
              t == ClampTTL(x, a.min, a.max)
  <1>1. o.auto \in Seq(Autos)
    BY DEF Operation, Autos
  <1>2. a \in Autos
    BY <1>1, Firsts
  <1>3. a.delta \in -127 .. 127 /\ a.min \in Nat /\ a.max \in Nat /\ a.min \in Int /\ a.max \in Int /\ a.delta \in Int
    <2>. HIDE DEF a
    <2>. QED BY <1>2, AutoFields, Zenon
  <1>4. ApplyTTL(o, c).ttl = t
    BY DEF ApplyTTL, Operation
  <1>5. c.seen \in 0 .. 255
    BY ContextFacts
  <1>6. hops \in Int
    BY <1>5, HopsInt
  <1>. HIDE DEF hops
  <1>7. x \in Nat
    <2>. HIDE DEF a
    <2>1. guess \in Int
      BY <1>3, MiddleInt, Zenon
    <2>2. v \in Int
      BY <1>3, <1>6, SumInt, Zenon
    <2>. HIDE DEF guess, v
    <2>3. (IF hops = 0 THEN guess ELSE IF v < 1 THEN 1 ELSE v) \in Int
      BY <2>1, <2>2, EitherInt, Zenon
    <2>. QED BY <2>3, ModNat, Zenon
  <1>8. Limited(t, a.min, a.max, x)
    BY Zenon DEF Limited, ClampTTL
  <1>. HIDE DEF t, x, a
  <1>9. t # 0
    <2>1. 0 \in Int
      OBVIOUS
    <2>. QED BY <1>3, <1>7, <1>8, <2>1, ShortOf
  <1>10. ASSUME c.seen # 0, Distance(c.seen) # 0 PROVE t <= (IF a.min = 0 THEN 3 ELSE a.min) \/ t <= Distance(c.seen) + a.delta
    <2>1. c.seen \in 1 .. 255
      BY <1>5, <1>10
    <2>2. Distance(c.seen) = hops /\ hops \in 0 .. 127 /\ hops # 0
      BY <1>10, <2>1, DistanceIs DEF hops
    <2>3. v \in Int /\ v <= 254
      <3>. HIDE DEF a
      <3>1. a.delta \in -127 .. 127 /\ hops \in 0 .. 127
        BY <1>3, <2>2, Zenon
      <3>. QED BY <3>1, SumRange, Zenon
    <2>4. x = (IF v < 1 THEN 1 ELSE v) % 256
      BY <2>2 DEF x
    <2>5. x = IF v < 1 THEN 1 ELSE v
      BY <2>3, <2>4
    <2>. HIDE DEF v
    <2>6. t <= (IF a.min = 0 THEN 3 ELSE a.min) \/ t <= v
      BY <1>3, <1>7, <1>8, <2>3, <2>5, ShortOf
    <2>. QED BY <2>2, <2>6 DEF v
  <1>. QED BY <1>4, <1>9, <1>10 DEF a
LEMMA FallsShortIs == DatapathInv => FallsShort
  <1>. SUFFICES ASSUME DatapathInv, Len(prof.ops) = 1, prof.ops[1].auto # <<>>, NEW i \in DOMAIN out, IsDecoy(out[i])
                PROVE  LET a == prof.ops[1].auto[1]
                           least == IF a.min = 0 THEN 3 ELSE a.min
                           near == Distance(pkt.seen) + a.delta
                       IN  /\ out[i].ttl # 0
                           /\ pkt.seen # 0 /\ Distance(pkt.seen) # 0 => out[i].ttl <= least \/ out[i].ttl <= near
    BY DEF FallsShort
  <1>. DEFINE c == pkt
              o == prof.ops[1]
              plan == PlanFor(pkt, prof)
              T == TTLs(prof.ops, pkt)
              U == PlanUnits(plan)
  <1>1. Handling /\ Injecting /\ \E k \in 1 .. Len(FullOf) : out[i] = FullOf[k]
    BY OutIs
  <1>2. PICK k \in 1 .. Len(FullOf) : out[i] = FullOf[k]
    BY <1>1
  <1>3. c \in Contexts /\ prof \in Profiles /\ c \in Context /\ prof.ops \in Seq(Operation)
    BY <1>1, ContextCaps, ProfileOps DEF Handling
  <1>4. o \in Operation
    BY <1>3
  <1>5. plan \in PlanOf(T)
    BY <1>3, PlanWhole DEF Whole
  <1>6. U \in UnitSeq(T) /\ \E a : Emitting(c, U, PlanIds(plan), BuildPlan(c, plan), a)
    BY <1>5, BuiltIs
  <1>7. PICK a : Emitting(c, U, PlanIds(plan), FullOf, a)
    BY <1>6 DEF FullOf
  <1>. HIDE DEF plan, T, U
  <1>8. a[k] \in 1 .. Len(U) /\ Carrying(c, FullOf[k], U[a[k]], PlanIds(plan)[a[k]])
    BY <1>7 DEF Emitting
  <1>9. U[a[k]] \in Unit(T)
    BY <1>6, <1>8 DEF UnitSeq
  <1>10. IsDecoy(U[a[k]]) /\ out[i].ttl = U[a[k]].ttl
    BY <1>2, <1>8 DEF Carrying, IsDecoy
  <1>11. out[i].ttl \in T
    BY <1>9, <1>10 DEF Unit
  <1>12. T = {ApplyTTL(o, c).ttl}
    <2>1. DOMAIN prof.ops = 1 .. 1
      BY <1>3
    <2>2. \A x : x \in 1 .. 1 <=> x = 1
      OBVIOUS
    <2>. QED BY <2>1, <2>2, Zenon DEF T, TTLs
  <1>13. out[i].ttl = ApplyTTL(o, c).ttl
    BY <1>11, <1>12
  <1>. QED BY <1>3, <1>4, <1>13, AutoTTL

(***************************************************************************)
(* Decoys before data.                                                     *)
(***************************************************************************)
(* A plan for a SYN has no decoys; in another every unit is data or a decoy, *)
(* and no decoy is behind data.                                              *)
Led(c, u) ==
    IF c.syn THEN \A i \in 1 .. Len(u) : ~IsDecoy(u[i])
    ELSE /\ \A i \in 1 .. Len(u) : IsData(u[i]) \/ IsDecoy(u[i])
         /\ \A i, j \in 1 .. Len(u) : i < j /\ IsData(u[i]) => IsData(u[j])
LEMMA DataNoDecoy == ASSUME NEW s, IsData(s) PROVE ~IsDecoy(s)
  BY DEF IsData, IsDecoy
LEMMA LedEmpty == ASSUME NEW c PROVE Led(c, <<>>)
  BY DEF Led
LEMMA LedKinds ==
    ASSUME NEW c, NEW u, NEW v, Led(c, u), Len(v) = Len(u), \A i \in 1 .. Len(u) : v[i].kind = u[i].kind
    PROVE  Led(c, v)
  <1>1. \A i \in 1 .. Len(u) : (IsData(v[i]) <=> IsData(u[i])) /\ (IsDecoy(v[i]) <=> IsDecoy(u[i]))
    BY DEF IsData, IsDecoy
  <1>. QED BY <1>1, Zenon DEF Led
(* Data behind what is led. *)
LEMMA LedBehind ==
    ASSUME NEW c, NEW T, NEW u \in UnitSeq(T), NEW v \in UnitSeq(T), Led(c, u), \A i \in 1 .. Len(v) : IsData(v[i])
    PROVE  Led(c, u \o v)
  <1>. DEFINE w == u \o v
  <1>1. /\ Len(w) = Len(u) + Len(v) /\ Len(u) \in Nat /\ Len(v) \in Nat
        /\ \A i \in 1 .. Len(u) + Len(v) : w[i] = IF i <= Len(u) THEN u[i] ELSE v[i - Len(u)]
    BY Cat DEF UnitSeq
  <1>. HIDE DEF w
  <1>2. ASSUME NEW i \in 1 .. Len(w), i > Len(u) PROVE IsData(w[i])
    <2>1. i - Len(u) \in 1 .. Len(v) /\ w[i] = v[i - Len(u)]
      BY <1>1, <1>2
    <2>. QED BY <2>1
  <1>3. ASSUME NEW i \in 1 .. Len(w), i <= Len(u) PROVE i \in 1 .. Len(u) /\ w[i] = u[i]
    BY <1>1, <1>3
  <1>4. \A i \in 1 .. Len(w) : i <= Len(u) \/ i > Len(u)
    BY <1>1
  <1>5. CASE c.syn
    <2>1. ASSUME NEW i \in 1 .. Len(w) PROVE ~IsDecoy(w[i])
      <3>1. CASE i > Len(u)
        BY <1>2, <3>1, DataNoDecoy
      <3>2. CASE i <= Len(u)
        BY <1>3, <1>5, <3>2 DEF Led
      <3>. QED BY <1>4, <3>1, <3>2
    <2>. QED BY <1>5, <2>1 DEF Led, w
  <1>6. CASE ~c.syn
    <2>1. ASSUME NEW i \in 1 .. Len(w) PROVE IsData(w[i]) \/ IsDecoy(w[i])
      <3>1. CASE i > Len(u)
        BY <1>2, <3>1
      <3>2. CASE i <= Len(u)
        BY <1>3, <1>6, <3>2 DEF Led
      <3>. QED BY <1>4, <3>1, <3>2
    <2>2. ASSUME NEW i \in 1 .. Len(w), NEW j \in 1 .. Len(w), i < j, IsData(w[i]) PROVE IsData(w[j])
      <3>1. CASE j > Len(u)
        BY <1>2, <3>1
      <3>2. CASE j <= Len(u)
        <4>1. i <= Len(u)
          BY <1>1, <2>2, <3>2
        <4>2. i \in 1 .. Len(u) /\ j \in 1 .. Len(u) /\ w[i] = u[i] /\ w[j] = u[j]
          BY <1>3, <3>2, <4>1
        <4>. QED BY <1>6, <2>2, <4>2 DEF Led
      <3>. QED BY <1>4, <3>1, <3>2
    <2>. QED BY <1>6, <2>1, <2>2 DEF Led, w
  <1>. QED BY <1>5, <1>6
(* Without the data nothing but decoys is left. *)
LEMMA LedTaken ==
    ASSUME NEW c, NEW T, NEW u \in UnitSeq(T), Led(c, u)
    PROVE  Led(c, Chosen(u, DOMAIN u \ DataAt(u)))
  <1>. DEFINE I == DOMAIN u \ DataAt(u)
              w == Chosen(u, I)
              q == Ascending(I)
  <1>1. u \in Seq(Unit(T)) /\ I \in SUBSET (1 .. Len(u))
    BY DEF UnitSeq
  <1>2. \A i \in I : i \in 1 .. Len(u) /\ ~IsData(u[i])
    BY <1>1 DEF DataAt
  <1>. HIDE DEF I
  <1>3. Len(w) = Cardinality(I) /\ q \in [1 .. Len(w) -> I] /\ \A k \in 1 .. Len(w) : w[k] = u[q[k]]
    BY <1>1, ChosenFacts
  <1>4. \A k \in 1 .. Len(w) : q[k] \in 1 .. Len(u) /\ ~IsData(w[k]) /\ w[k] = u[q[k]]
    BY <1>2, <1>3
  <1>. HIDE DEF w, q
  <1>. QED BY <1>4 DEF Led, w, I
LEMMA LedEnsured ==
    ASSUME NEW c, NEW T, NEW u \in UnitSeq(T), c \in Context, Led(c, u)
    PROVE  Led(c, EnsureData(u, c))
  <1>. DEFINE s == SegDataSeg(Payload(c), 0, Plain)
  <1>1. s \in Unit(T) /\ IsData(s)
    <2>1. Plain.ipid \in IpIds /\ 0 \in Int
      BY DEF Plain, IpIds
    <2>2. Payload(c) \in Bytes
      BY ContextFacts DEF Bytes
    <2>. QED BY <2>1, <2>2, DataSegIs, Zenon
  <1>. HIDE DEF s
  <1>2. <<s>> \in UnitSeq(T) /\ \A i \in 1 .. Len(<<s>>) : IsData(<<s>>[i])
    BY <1>1 DEF UnitSeq
  <1>3. Led(c, u \o <<s>>)
    BY <1>2, LedBehind
  <1>4. Append(u, s) = u \o <<s>>
    BY <1>1 DEF UnitSeq
  <1>. QED BY <1>3, <1>4, Zenon DEF EnsureData, s
LEMMA Associates ==
    ASSUME NEW S, NEW x \in Seq(S), NEW y \in Seq(S), NEW z \in Seq(S) PROVE x \o y \o z = x \o (y \o z)
  OBVIOUS
LEMMA Around ==
    ASSUME NEW S, NEW x \in Seq(S), NEW f \in S, NEW y \in Seq(S), NEW i \in Nat, NEW k \in Nat, Len(x) = i, Len(y) = k
    PROVE  Row(S, x, <<f>>, y, x \o <<f>> \o y, i, 1, k)
  <1>. DEFINE g == <<f>>
              N == 1
  <1>1. g \in Seq(S) /\ Len(g) = N /\ N \in Nat
    OBVIOUS
  <1>. HIDE DEF g, N
  <1>2. Row(S, x, g, y, x \o (g \o y), i, N, k)
    BY <1>1, Threes
  <1>3. x \o g \o y = x \o (g \o y)
    BY <1>1, Associates, SMTT(30)
  <1>. QED BY <1>2, <1>3 DEF g, N
(* A decoy that goes before the data. *)
LEMMA LedInserted ==
    ASSUME NEW c, ~c.syn, NEW T, NEW u \in UnitSeq(T), Led(c, u), NEW f \in Unit(T), IsDecoy(f)
    PROVE  Led(c, Inserted(u, <<f>>))
  <1>. DEFINE at == FirstData(u)
              w == Inserted(u, <<f>>)
              n == Len(u)
  <1>1. u \in Seq(Unit(T)) /\ n \in Nat /\ <<f>> \in Seq(Unit(T)) /\ <<f>>[1] = f /\ Len(<<f>>) = 1
    BY DEF UnitSeq
  <1>2. CASE at = 0
    <2>1. DataOf(u) = <<>>
      <3>1. \A i \in 1 .. n : i \in Nat /\ i >= 1
        OBVIOUS
      <3>. QED BY <1>2, <3>1, FirstDataIs
    <2>2. \A i \in 1 .. n : ~IsData(u[i])
      BY <2>1, NoData
    <2>3. \A i \in 1 .. n : IsDecoy(u[i])
      BY <2>2 DEF Led
    <2>4. w = u \o <<f>>
      BY <1>2, Zenon DEF Inserted
    <2>5. Len(w) = n + 1 /\ \A i \in 1 .. n + 1 : w[i] = IF i <= n THEN u[i] ELSE f
      BY <1>1, <2>4
    <2>. HIDE DEF w, n
    <2>6. \A i \in 1 .. Len(w) : IsDecoy(w[i])
      BY <1>1, <2>3, <2>5
    <2>7. \A i \in 1 .. Len(w) : ~IsData(w[i])
      BY <2>6, DataNoDecoy
    <2>. QED BY <2>6, <2>7 DEF Led, w
  <1>3. CASE at # 0
    <2>1. at \in 1 .. n /\ IsData(u[at]) /\ \A i \in 1 .. at - 1 : ~IsData(u[i])
      BY <1>3, FirstDataIs
    <2>. DEFINE x == SubSeq(u, 1, at - 1)
                y == SubSeq(u, at, n)
    <2>2. w = x \o <<f>> \o y
      BY <1>3, Zenon DEF Inserted
    <2>. HIDE DEF at, w, n
    <2>3. /\ x \in Seq(Unit(T)) /\ y \in Seq(Unit(T)) /\ Len(x) = at - 1 /\ Len(y) = n - at + 1
          /\ (\A i \in 1 .. Len(x) : x[i] = u[i]) /\ \A i \in 1 .. Len(y) : y[i] = u[at + i - 1]
      BY <1>1, <2>1, SubSeqProperties DEF n
    <2>4. at - 1 \in Nat /\ n - at + 1 \in Nat /\ 1 \in Nat
      BY <1>1, <2>1
    <2>. HIDE DEF x, y
    <2>5. Row(Unit(T), x, <<f>>, y, w, at - 1, 1, n - at + 1)
      <3>. DEFINE S == Unit(T)
                  i == at - 1
                  k == n - at + 1
      <3>1. x \in Seq(S) /\ y \in Seq(S) /\ f \in S /\ i \in Nat /\ k \in Nat /\ Len(x) = i /\ Len(y) = k
        BY <2>3, <2>4
      <3>. HIDE DEF S, i, k
      <3>2. Row(S, x, <<f>>, y, x \o <<f>> \o y, i, 1, k)
        BY <3>1, Around
      <3>. QED BY <2>2, <3>2 DEF S, i, k
    <2>6. Len(w) = n + 1 /\ w[at] = f /\ (\A i \in 1 .. at - 1 : w[i] = u[i]) /\ \A i \in 1 .. n - at + 1 : w[at + i] = u[at + i - 1]
      <3>1. Len(w) = (at - 1) + 1 + (n - at + 1) /\ (\A i \in 1 .. at - 1 : w[i] = x[i]) /\ (\A i \in 1 .. 1 : w[(at - 1) + i] = <<f>>[i])
            /\ \A i \in 1 .. n - at + 1 : w[(at - 1) + 1 + i] = y[i]
        BY <2>5, Zenon DEF Row
      <3>2. (at - 1) + 1 + (n - at + 1) = n + 1 /\ (at - 1) + 1 = at /\ 1 \in 1 .. 1
        BY <1>1, <2>1
      <3>3. w[at] = f
        BY <1>1, <3>1, <3>2
      <3>4. \A i \in 1 .. at - 1 : w[i] = u[i]
        BY <2>3, <3>1
      <3>5. \A i \in 1 .. n - at + 1 : w[at + i] = u[at + i - 1]
        BY <2>3, <3>1, <3>2
      <3>. QED BY <3>1, <3>2, <3>3, <3>4, <3>5
    <2>7. ASSUME NEW i \in 1 .. Len(w), i <= at PROVE IsDecoy(w[i])
      <3>1. CASE i = at
        BY <2>6, <3>1
      <3>2. CASE i # at
        <4>1. i \in 1 .. at - 1 /\ i \in 1 .. n
          BY <1>1, <2>1, <2>6, <2>7, <3>2
        <4>2. IsDecoy(u[i])
          BY <2>1, <4>1 DEF Led, n
        <4>. QED BY <2>6, <4>1, <4>2
      <3>. QED BY <3>1, <3>2
    <2>8. ASSUME NEW i \in 1 .. Len(w), i > at PROVE IsData(w[i])
      <3>. DEFINE k == i - at
      <3>1. k \in 1 .. n - at + 1 /\ at + k = i /\ at + k - 1 \in 1 .. n /\ at + k - 1 >= at
        BY <1>1, <2>1, <2>6, <2>8
      <3>. HIDE DEF k
      <3>2. w[i] = u[at + k - 1]
        BY <2>6, <3>1
      <3>3. at + k - 1 = at \/ at < at + k - 1
        BY <1>1, <2>1, <3>1
      <3>4. IsData(u[at + k - 1])
        BY <2>1, <3>1, <3>3 DEF Led, n
      <3>. QED BY <3>2, <3>4
    <2>9. \A i \in 1 .. Len(w) : i <= at \/ i > at
      BY <1>1, <2>1, <2>6
    <2>10. \A i, j \in 1 .. Len(w) : i < j /\ i > at => j > at
      BY <1>1, <2>1, <2>6
    <2>11. \A i \in 1 .. Len(w) : IsData(w[i]) => i > at
      BY <2>7, <2>9, DataNoDecoy
    <2>12. Led(c, w)
      BY <2>7, <2>8, <2>9, <2>10, <2>11 DEF Led
    <2>. QED BY <2>12 DEF w
  <1>. QED BY <1>2, <1>3

LedPlan(c, p) == Led(c, p.segs) /\ Led(c, p.dgrams)
LEMMA DataAll ==
    ASSUME NEW T, NEW s \in DataSeq(T)
    PROVE  s \in UnitSeq(T) /\ \A i \in 1 .. Len(s) : IsData(s[i])
  <1>1. s \in UnitSeq(T)
    BY DataIn
  <1>2. \A i \in 1 .. Len(s) : s[i] \in DataUnits(T)
    BY Elements DEF DataSeq
  <1>. QED BY <1>1, <1>2 DEF DataUnits
LEMMA SetFields ==
    ASSUME NEW T, NEW p \in PlanOf(T), NEW x
    PROVE  /\ SetSegs(p, x).segs = x /\ SetSegs(p, x).dgrams = p.dgrams
           /\ SetDgrams(p, x).dgrams = x /\ SetDgrams(p, x).segs = p.segs
           /\ x \in UnitSeq(T) => SetSegs(p, x) \in PlanOf(T) /\ SetDgrams(p, x) \in PlanOf(T)
  BY DEF SetSegs, SetDgrams, PlanOf
LEMMA LedSet ==
    ASSUME NEW c, NEW T, NEW p \in PlanOf(T), LedPlan(c, p), NEW x, Led(c, x)
    PROVE  LedPlan(c, SetSegs(p, x)) /\ LedPlan(c, SetDgrams(p, x))
  BY SetFields DEF LedPlan
LEMMA LedTakes ==
    ASSUME NEW c, NEW T, NEW p \in PlanOf(T), LedPlan(c, p)
    PROVE  /\ SegTakeOverData(p) \in PlanOf(T) /\ LedPlan(c, SegTakeOverData(p))
           /\ SegTakeOverAll(p) \in PlanOf(T) /\ LedPlan(c, SegTakeOverAll(p))
  <1>. DEFINE k == Chosen(p.segs, DOMAIN p.segs \ DataAt(p.segs))
  <1>1. p.segs \in UnitSeq(T)
    BY PlanFields
  <1>2. k \in UnitSeq(T) /\ Led(c, k)
    BY <1>1, HoldsKept, LedTaken DEF Holds, LedPlan
  <1>3. <<>> \in UnitSeq(T) /\ Led(c, <<>>)
    BY HoldsEmpty, LedEmpty DEF Holds
  <1>. HIDE DEF k
  <1>4. SegTakeOverData(p) = SetSegs(p, k) /\ SegTakeOverAll(p) = SetSegs(p, <<>>)
    BY DEF SegTakeOverData, SegTakeOverAll, SetSegs, k
  <1>. QED BY <1>2, <1>3, <1>4, LedSet, SetFields
LEMMA LedPlanned ==
    ASSUME NEW c, NEW T, NEW q \in PlanOf(T), LedPlan(c, q), NEW s \in UnitSeq(T), \A i \in 1 .. Len(s) : IsData(s[i])
    PROVE  LedPlan(c, Planned(q, s))
  <1>1. q.segs \in UnitSeq(T)
    BY PlanFields
  <1>2. Led(c, q.segs \o s)
    BY <1>1, LedBehind DEF LedPlan
  <1>3. Planned(q, s).segs = q.segs \o s /\ Planned(q, s).dgrams = q.dgrams
    BY DEF Planned, PlanOf
  <1>. QED BY <1>2, <1>3 DEF LedPlan
LEMMA LedMultisplit ==
    ASSUME NEW c \in Context, NEW T, NEW p \in PlanOf(T), LedPlan(c, p), NEW o \in Operation
    PROVE  LedPlan(c, Multisplit(o, c, p))
  <1>. DEFINE pos == SegResolveMultiPos(c, Specs(o))
              ovl == MultiOverlap(c, o, pos, FALSE)
              segs == Parts(c, o, pos, ovl, 1)
              q == SegTakeOverData(p)
  <1>1. Positions(c, pos) /\ o.ipid \in IpIds
    BY MultiPos, SpecsSeq
  <1>2. Multisplit(o, c, p) = IF pos = <<>> \/ TooLong(segs) THEN p ELSE Planned(q, segs)
    BY Zenon DEF Multisplit
  <1>. HIDE DEF pos
  <1>3. ovl \in Nat
    BY <1>1, MultiOverlapIs DEF Positions
  <1>. HIDE DEF ovl
  <1>4. ASSUME pos # <<>> PROVE segs \in UnitSeq(T) /\ \A i \in 1 .. Len(segs) : IsData(segs[i])
    BY <1>1, <1>3, <1>4, PartsIs, DataAll DEF Parted
  <1>5. q \in PlanOf(T) /\ LedPlan(c, q)
    BY LedTakes
  <1>. HIDE DEF segs, q
  <1>6. pos # <<>> => LedPlan(c, Planned(q, segs))
    BY <1>4, <1>5, LedPlanned
  <1>. QED BY <1>2, <1>6
LEMMA LedMultidisorder ==
    ASSUME NEW c \in Context, NEW T, NEW p \in PlanOf(T), LedPlan(c, p), NEW o \in Operation
    PROVE  LedPlan(c, Multidisorder(o, c, p)) /\ LedPlan(c, MultidisorderDegrade(o, c, p))
  <1>. DEFINE pos == SegResolveMultiPos(c, Specs(o))
              ovl == MultiOverlap(c, o, pos, TRUE)
              segs == Parts(c, o, pos, ovl, 2)
              low == Parts(c, o, pos, 0, 2)
              r == Reverse(segs)
              l == [low EXCEPT ![1].ttl = 1]
              q == SegTakeOverData(p)
              e == SegTakeOverAll(p)
  <1>1. Positions(c, pos) /\ o.ipid \in IpIds
    BY MultiPos, SpecsSeq
  <1>2. Multidisorder(o, c, p) = (IF pos = <<>> \/ TooLong(segs) THEN p ELSE Planned(q, r))
        /\ MultidisorderDegrade(o, c, p) = IF pos = <<>> THEN p ELSE Planned(e, l)
    BY Zenon DEF Multidisorder, MultidisorderDegrade
  <1>. HIDE DEF pos
  <1>3. ovl \in Nat /\ 0 \in Nat /\ 2 \in {1, 2} /\ (pos # <<>> /\ ovl > 0 => ovl < pos[1])
    BY <1>1, MultiOverlapIs DEF Positions
  <1>. HIDE DEF ovl
  <1>4. ASSUME pos # <<>> PROVE r \in UnitSeq(T) /\ \A i \in 1 .. Len(r) : IsData(r[i])
    <2>. DEFINE n == Len(pos) + 1
    <2>1. Parted(c, T, segs, pos)
      BY <1>1, <1>3, <1>4, PartsIs
    <2>2. segs \in DataSeq(T) /\ Tiling(segs, n, Payload(c), Id(n), BoundsOf(c, pos))
      BY <2>1 DEF Parted
    <2>. HIDE DEF n, segs
    <2>3. r \in DataSeq(T)
      BY <2>2, Reversed
    <2>. HIDE DEF r
    <2>. QED BY <2>3, DataAll
  <1>5. ASSUME pos # <<>> PROVE l \in UnitSeq(T) /\ \A i \in 1 .. Len(l) : IsData(l[i])
    <2>1. Parted(c, T, low, pos)
      <3>. DEFINE N == 0
      <3>1. N \in Nat /\ ~(N > 0)
        OBVIOUS
      <3>. HIDE DEF N
      <3>2. Parted(c, T, Parts(c, o, pos, N, 2), pos)
        BY <1>1, <1>3, <1>5, <3>1, PartsIs
      <3>. QED BY <3>2 DEF N
    <2>. HIDE DEF low
    <2>2. low \in DataSeq(T) /\ low # <<>>
      BY <2>1 DEF Parted
    <2>3. low \in Seq(DataUnits(T)) /\ 1 \in DOMAIN low /\ low[1] \in DataUnits(T)
      BY <2>2, Firsts DEF DataSeq
    <2>. DEFINE t == [low[1] EXCEPT !.ttl = 1]
    <2>4. t \in DataUnits(T)
      BY <2>3 DEF DataUnits, Unit, IsData, IsDecoy
    <2>5. l = [low EXCEPT ![1] = t]
      OBVIOUS
    <2>. HIDE DEF t, l
    <2>6. l \in DataSeq(T)
      BY <2>3, <2>4, <2>5 DEF DataSeq
    <2>. QED BY <2>6, DataAll
  <1>6. q \in PlanOf(T) /\ LedPlan(c, q) /\ e \in PlanOf(T) /\ LedPlan(c, e)
    BY LedTakes
  <1>. HIDE DEF r, l, q, e
  <1>7. pos # <<>> => LedPlan(c, Planned(q, r)) /\ LedPlan(c, Planned(e, l))
    BY <1>4, <1>5, <1>6, LedPlanned
  <1>. QED BY <1>2, <1>7
LEMMA LedEnsuring ==
    ASSUME NEW c \in Context, NEW T, NEW p \in PlanOf(T), LedPlan(c, p)
    PROVE  LedPlan(c, InjEnsureDataSeg(c, p)) /\ LedPlan(c, InjEnsureDataDgram(c, p)) /\ LedPlan(c, Ensured(c, p))
  <1>1. p.segs \in UnitSeq(T) /\ p.dgrams \in UnitSeq(T)
    BY PlanFields
  <1>2. Led(c, EnsureData(p.segs, c)) /\ Led(c, EnsureData(p.dgrams, c))
    BY <1>1, LedEnsured DEF LedPlan
  <1>3. InjEnsureDataSeg(c, p) = SetSegs(p, EnsureData(p.segs, c)) /\ InjEnsureDataDgram(c, p) = SetDgrams(p, EnsureData(p.dgrams, c))
    BY DEF InjEnsureDataSeg, InjEnsureDataDgram, SetSegs, SetDgrams
  <1>4. LedPlan(c, InjEnsureDataSeg(c, p)) /\ LedPlan(c, InjEnsureDataDgram(c, p))
    BY <1>2, <1>3, LedSet, Zenon
  <1>. QED BY <1>4, Zenon DEF Ensured
LEMMA LedInsert ==
    ASSUME NEW c \in Context, ~c.syn, NEW T, NEW p \in PlanOf(T), LedPlan(c, p), NEW f \in Unit(T), IsDecoy(f)
    PROVE  /\ LedPlan(c, InjEnsureDataSeg(c, SetSegs(p, Inserted(p.segs, <<f>>))))
           /\ LedPlan(c, InjEnsureDataDgram(c, SetDgrams(p, Inserted(p.dgrams, <<f>>))))
  <1>. DEFINE x == Inserted(p.segs, <<f>>)
              y == Inserted(p.dgrams, <<f>>)
  <1>1. p.segs \in UnitSeq(T) /\ p.dgrams \in UnitSeq(T)
    BY PlanFields
  <1>2. Led(c, x) /\ Led(c, y)
    BY <1>1, LedInserted DEF LedPlan
  <1>3. ~IsData(f)
    BY DataNoDecoy
  <1>4. x \in UnitSeq(T) /\ y \in UnitSeq(T)
    BY <1>1, <1>3, HoldsFake, HoldsInserted DEF Holds
  <1>. HIDE DEF x, y
  <1>5. LedPlan(c, SetSegs(p, x)) /\ LedPlan(c, SetDgrams(p, y)) /\ SetSegs(p, x) \in PlanOf(T) /\ SetDgrams(p, y) \in PlanOf(T)
    BY <1>2, <1>4, LedSet, SetFields
  <1>. QED BY <1>5, LedEnsuring DEF x, y

LEMMA LedRewrite ==
    ASSUME NEW c, NEW T, NEW segs \in UnitSeq(T), NEW n, NEW F, NEW p, NEW b, Form(c, F), Tiling(DataOf(segs), n, F, p, b),
           NEW new \in Bytes, NEW moved, Moves(moved, Len(F), Len(new)), Led(c, segs)
    PROVE  Led(c, SegRewriteData(segs, new, moved))
  <1>. DEFINE r == SegRewriteData(segs, new, moved)
              d == [k \in 0 .. n |-> moved[b[k]]]
  <1>1. F \in Bytes
    BY DEF Form
  <1>2. Rewritten(T, segs, r, n, new, p, d)
    BY <1>1, RewriteIs
  <1>. HIDE DEF r
  <1>3. \A i \in 1 .. Len(segs) : r[i].kind = segs[i].kind
    BY <1>2 DEF Rewritten, IsData
  <1>4. Len(r) = Len(segs)
    BY <1>2 DEF Rewritten
  <1>5. Led(c, r)
    BY <1>3, <1>4, LedKinds
  <1>. QED BY <1>5 DEF r
LEMMA OnePlanned ==
    ASSUME NEW c, NEW T, NEW p \in PlanOf(T), LedPlan(c, p), NEW s \in DataUnits(T)
    PROVE  LedPlan(c, Planned(p, <<s>>))
  <1>1. <<s>> \in UnitSeq(T)
    BY HoldsOne DEF Holds
  <1>2. \A i \in 1 .. Len(<<s>>) : IsData(<<s>>[i])
    BY DEF DataUnits
  <1>. QED BY <1>1, <1>2, LedPlanned
LEMMA LedTamper ==
    ASSUME NEW c \in Context, NEW T, NEW blk, NEW p, Lawful(c, T, FALSE, blk, p), LedPlan(c, p), NEW o \in Operation
    PROVE  LedPlan(c, Tamper(o, c, p))
  <1>. DEFINE segs == p.segs
              whole == TamperHost(o, c, Payload(c))
              new == TamperHost(o, c, SegJoinData(segs))
              same == [off \in 0 .. c.len |-> off]
              s == SegDataSeg(whole, 0, o)
              r == SegRewriteData(segs, new, same)
  <1>1. segs \in UnitSeq(T) /\ Good(c, DataOf(segs), FALSE) /\ c.len \in Nat /\ o.ipid \in IpIds /\ p \in PlanOf(T) /\ Led(c, segs)
    BY LawfulFields, ContextFacts, ZenonT(40) DEF Operation, LedPlan
  <1>. HIDE DEF segs
  <1>2. LedPlan(c, Planned(p, <<s>>))
    <2>1. Form(c, Payload(c))
      BY PayloadForm
    <2>2. whole \in Bytes
      BY <2>1, TamperForm
    <2>. HIDE DEF whole
    <2>3. s \in DataUnits(T)
      <3>1. 0 \in Int
        OBVIOUS
      <3>. QED BY <1>1, <2>2, <3>1, DataSegIs, Zenon
    <2>. HIDE DEF s
    <2>. QED BY <1>1, <2>3, OnePlanned
  <1>3. ASSUME SegDataIdx(segs) # <<>>, SegSpans(segs, c.len), Len(new) = c.len
        PROVE  LedPlan(c, SetSegs(p, r))
    <2>1. PICK F, n, q, b : Form(c, F) /\ Tiling(DataOf(segs), n, F, q, b) /\ Divided(c, F, n, b, FALSE)
      BY <1>1, <1>3, IdxEmpty
    <2>2. F \in Bytes /\ Len(F) \in Nat
      BY <2>1 DEF Form, Bytes
    <2>3. SegJoinData(segs) = F /\ (SegSpans(segs, c.len) <=> c.len = Len(F))
      <3>1. SegJoinData(segs) = F
        BY <1>1, <2>1, <2>2, JoinIs, Zenon
      <3>2. Spanned(segs, SegDataIdx(segs), n, F, b)
        BY <1>1, <2>1, <2>2, SpansIs, Zenon
      <3>. QED BY <1>1, <3>1, <3>2 DEF Spanned
    <2>4. Len(F) = c.len /\ new = TamperHost(o, c, F)
      BY <1>3, <2>3
    <2>5. new \in Bytes
      BY <2>1, <2>4, TamperForm
    <2>6. Moves(same, Len(F), Len(new))
      <3>. HIDE DEF new
      <3>. QED BY <1>1, <1>3, <2>4 DEF Moves
    <2>. HIDE DEF new, same
    <2>7. Led(c, r)
      BY <1>1, <2>1, <2>5, <2>6, LedRewrite
    <2>. HIDE DEF r
    <2>. QED BY <1>1, <2>7, LedSet
  <1>4. \/ Tamper(o, c, p) = p \/ Tamper(o, c, p) = Planned(p, <<s>>)
        \/ (SegDataIdx(segs) # <<>> /\ SegSpans(segs, c.len) /\ Len(new) = c.len /\ Tamper(o, c, p) = SetSegs(p, r))
    BY DEF Tamper, segs, SetSegs
  <1>. QED BY <1>2, <1>3, <1>4, Zenon
LEMMA LedTlsrec ==
    ASSUME NEW c \in Context, NEW T, NEW blk, NEW p, Lawful(c, T, FALSE, blk, p), LedPlan(c, p), NEW o \in Operation
    PROVE  LedPlan(c, Tlsrec(o, c, p))
  <1>. DEFINE segs == p.segs
              pos == FindSplitPos(c, IF o.pos = <<>> THEN [m |-> "sniext", off |-> 1] ELSE o.pos[1])
              whole == Cut(Payload(c), 0, pos) \o <<Header>> \o Cut(Payload(c), pos, c.len)
              shifted == [off \in 0 .. c.len |-> IF off < pos THEN off ELSE off + 1]
              s == SegDataSeg(whole, 0, o)
              r == SegRewriteData(segs, whole, shifted)
              allowed == ~(pos <= 0 \/ pos >= c.len \/ ~c.tls \/ ~LengthAllowed(c, 0, 1))
  <1>1. segs \in UnitSeq(T) /\ Good(c, DataOf(segs), FALSE) /\ c.len \in Nat /\ o.ipid \in IpIds /\ p \in PlanOf(T) /\ Led(c, segs)
    BY LawfulFields, ContextFacts DEF Operation, LedPlan
  <1>. HIDE DEF segs
  <1>2. pos \in Nat /\ pos <= c.len
    <2>. DEFINE mk == IF o.pos = <<>> THEN [m |-> "sniext", off |-> 1] ELSE o.pos[1]
    <2>1. mk \in [m: Markers, off: Int]
      <3>1. o.pos \in Seq([m: Markers, off: Int])
        BY DEF Operation
      <3>2. o.pos # <<>> => o.pos[1] \in [m: Markers, off: Int]
        BY <3>1, Firsts
      <3>3. [m |-> "sniext", off |-> 1] \in [m: Markers, off: Int]
        BY DEF Markers
      <3>. QED BY <3>2, <3>3
    <2>. HIDE DEF mk
    <2>2. FindSplitPos(c, mk) \in 0 .. c.len
      BY <2>1, FindSplitInt
    <2>. QED BY <1>1, <2>2 DEF mk
  <1>. HIDE DEF pos
  <1>3. allowed => 0 < pos /\ pos < c.len
    BY <1>1, <1>2
  <1>4. allowed => whole = Recorded(c, pos) /\ whole \in Bytes /\ Len(whole) = c.len + 1
    BY <1>2, <1>3, RecordForm DEF Recorded
  <1>. HIDE DEF whole
  <1>5. allowed => LedPlan(c, Planned(p, <<s>>))
    <2>1. allowed => s \in DataUnits(T)
      <3>1. 0 \in Int
        OBVIOUS
      <3>. QED BY <1>1, <1>4, <3>1, DataSegIs, Zenon
    <2>. HIDE DEF s
    <2>. QED BY <1>1, <2>1, OnePlanned
  <1>6. ASSUME allowed, SegDataIdx(segs) # <<>>, SegJoinData(segs) = Payload(c)
        PROVE  LedPlan(c, SetSegs(p, r))
    <2>1. PICK F, n, q, b : Form(c, F) /\ Tiling(DataOf(segs), n, F, q, b) /\ Divided(c, F, n, b, FALSE)
      BY <1>1, <1>6, IdxEmpty
    <2>2. F \in Bytes /\ Len(F) \in Nat
      BY <2>1 DEF Form, Bytes
    <2>3. SegJoinData(segs) = F
      BY <1>1, <2>1, <2>2, JoinIs, Zenon
    <2>4. F = Payload(c) /\ Len(F) = c.len
      BY <1>6, <2>3, ContextFacts
    <2>5. Moves(shifted, Len(F), Len(whole))
      BY <1>1, <1>2, <1>3, <1>4, <1>6, <2>4 DEF Moves
    <2>. HIDE DEF shifted
    <2>6. Led(c, r)
      BY <1>1, <1>4, <1>6, <2>1, <2>5, LedRewrite
    <2>. HIDE DEF r
    <2>. QED BY <1>1, <2>6, LedSet
  <1>7. \/ Tlsrec(o, c, p) = p \/ (allowed /\ Tlsrec(o, c, p) = Planned(p, <<s>>))
        \/ (allowed /\ SegDataIdx(segs) # <<>> /\ SegJoinData(segs) = Payload(c) /\ Tlsrec(o, c, p) = SetSegs(p, r))
    BY DEF Tlsrec, segs, pos, whole, SetSegs
  <1>. QED BY <1>5, <1>6, <1>7, Zenon
(* Injected segments. *)
LEMMA InjectedDecoy ==
    ASSUME NEW kind, NEW data, NEW o PROVE Injected(kind, data, o).kind = kind
  BY DEF Injected, Segment
LEMMA LedFake ==
    ASSUME NEW c \in Context, NEW T, NEW p \in PlanOf(T), LedPlan(c, p), NEW o \in Operation, o.ttl \in T
    PROVE  LedPlan(c, Fake(o, c, p)) /\ LedPlan(c, Rst(o, c, p))
  <1>. DEFINE f == Injected("fake", Decoys(FakeLen), o)
              g == Injected("rst", <<>>, o)
  <1>1. f \in Unit(T) /\ g \in Unit(T)
    <2>1. Decoys(0) = <<>>
      BY DEF Decoys
    <2>2. FakeLen \in Nat
      BY ContextFacts
    <2>. QED BY <2>1, <2>2, InjectedSeg
  <1>2. IsDecoy(f) /\ IsDecoy(g)
    BY InjectedDecoy DEF IsDecoy
  <1>. HIDE DEF f, g
  <1>3. Carries(c) => ~c.syn
    BY DEF Carries
  <1>4. \/ Fake(o, c, p) = p
        \/ (Carries(c) /\ Fake(o, c, p) = InjEnsureDataDgram(c, SetDgrams(p, Inserted(p.dgrams, <<f>>))))
        \/ (Carries(c) /\ Fake(o, c, p) = InjEnsureDataSeg(c, SetSegs(p, Inserted(p.segs, <<f>>))))
    BY DEF Fake, f, SetSegs, SetDgrams
  <1>5. Rst(o, c, p) = p \/ (Carries(c) /\ Rst(o, c, p) = InjEnsureDataSeg(c, SetSegs(p, Inserted(p.segs, <<g>>))))
    BY DEF Rst, g, SetSegs
  <1>6. Carries(c) => /\ LedPlan(c, InjEnsureDataSeg(c, SetSegs(p, Inserted(p.segs, <<f>>))))
                      /\ LedPlan(c, InjEnsureDataDgram(c, SetDgrams(p, Inserted(p.dgrams, <<f>>))))
                      /\ LedPlan(c, InjEnsureDataSeg(c, SetSegs(p, Inserted(p.segs, <<g>>))))
    BY <1>1, <1>2, <1>3, LedInsert
  <1>. QED BY <1>4, <1>5, <1>6, Zenon
LEMMA LedSyndata ==
    ASSUME NEW c \in Context, NEW T, NEW p \in PlanOf(T), LedPlan(c, p), NEW o \in Operation, o.ttl \in T
    PROVE  LedPlan(c, Syndata(o, c, p))
  <1>. DEFINE f == [Injected("syn", Decoys(FakeLen), o) EXCEPT !.ttl = 0, !.fool = {}]
              x == Append(p.segs, f)
  <1>1. ~IsDecoy(f)
    <2>. DEFINE g == Injected("syn", Decoys(FakeLen), o)
    <2>1. g \in Unit(T) /\ g.kind = "syn"
      BY ContextFacts, InjectedSeg
    <2>. HIDE DEF g
    <2>2. f = [g EXCEPT !.ttl = 0, !.fool = {}]
      BY DEF g
    <2>3. f.kind = "syn"
      BY <2>1, <2>2 DEF Unit
    <2>. QED BY <2>3 DEF IsDecoy
  <1>. HIDE DEF f
  <1>2. ASSUME c.syn PROVE LedPlan(c, SetSegs(p, x))
    <2>1. p.segs \in UnitSeq(T) /\ \A i \in 1 .. Len(p.segs) : ~IsDecoy(p.segs[i])
      BY <1>2, PlanFields DEF LedPlan, Led
    <2>2. \A i \in 1 .. Len(x) : ~IsDecoy(x[i])
      BY <1>1, <2>1 DEF UnitSeq
    <2>3. Led(c, x)
      BY <1>2, <2>2 DEF Led
    <2>. HIDE DEF x
    <2>. QED BY <2>3, LedSet
  <1>3. Syndata(o, c, p) = p \/ (c.syn /\ Syndata(o, c, p) = SetSegs(p, x))
    BY DEF Syndata, f, SetSegs
  <1>. QED BY <1>2, <1>3, Zenon

(* A change of other fields keeps the kind. *)
LEMMA KindKept ==
    ASSUME NEW T, NEW s \in Unit(T), NEW x, NEW y
    PROVE  /\ [s EXCEPT !.fool = x].kind = s.kind /\ [s EXCEPT !.frag = x].kind = s.kind /\ [s EXCEPT !.win = x].kind = s.kind
           /\ [s EXCEPT !.ipid = x].kind = s.kind /\ [s EXCEPT !.data = x, !.frag = y].kind = s.kind
  BY DEF Unit
LEMMA LedMap ==
    ASSUME NEW c, NEW T, NEW u \in UnitSeq(T), Led(c, u), NEW v, v = [i \in DOMAIN u |-> v[i]],
           \A i \in DOMAIN u : v[i].kind = u[i].kind
    PROVE  Led(c, v)
  <1>1. Len(v) = Len(u) /\ \A i \in 1 .. Len(u) : v[i].kind = u[i].kind
    BY DEF UnitSeq
  <1>. QED BY <1>1, LedKinds
LEMMA UnitsField ==
    ASSUME NEW c, NEW T, NEW q \in PlanOf(T), LedPlan(c, q)
    PROVE  /\ q[Units(c)] \in UnitSeq(T) /\ Led(c, q[Units(c)])
           /\ \A v : Led(c, v) => LedPlan(c, [q EXCEPT ![Units(c)] = v])
  <1>1. q.segs \in UnitSeq(T) /\ q.dgrams \in UnitSeq(T) /\ Led(c, q.segs) /\ Led(c, q.dgrams)
    BY PlanFields DEF LedPlan
  <1>2. ASSUME NEW v, Led(c, v) PROVE LedPlan(c, [q EXCEPT ![Units(c)] = v])
    <2>1. LedPlan(c, SetSegs(q, v)) /\ LedPlan(c, SetDgrams(q, v))
      BY <1>2, LedSet
    <2>2. [q EXCEPT ![Units(c)] = v] = IF c.udp THEN SetDgrams(q, v) ELSE SetSegs(q, v)
      BY DEF Units, SetSegs, SetDgrams
    <2>. QED BY <2>1, <2>2, Zenon
  <1>3. q[Units(c)] = IF c.udp THEN q.dgrams ELSE q.segs
    BY DEF Units
  <1>. QED BY <1>1, <1>2, <1>3
LEMMA LedMarked ==
    ASSUME NEW c \in Context, c.len > 0, NEW T, NEW blk, NEW p, Lawful(c, T, FALSE, blk, p), LedPlan(c, p), NEW m
    PROVE  LedPlan(c, Marked(c, p, m))
  <1>. DEFINE q == Ensured(c, p)
              u == q[Units(c)]
              w(s) == [s EXCEPT !.fool = @ \cup {m}]
              v == [i \in DOMAIN u |-> IF IsData(u[i]) THEN w(u[i]) ELSE u[i]]
  <1>1. q \in PlanOf(T) /\ LedPlan(c, q)
    <2>1. Lawful(c, T, FALSE, blk, q) /\ p \in PlanOf(T)
      BY EnsuredLawful, LawfulFields
    <2>. QED BY <2>1, LedEnsuring, LawfulFields
  <1>2. Marked(c, p, m) = [q EXCEPT ![Units(c)] = v]
    BY DEF Marked
  <1>. HIDE DEF q
  <1>3. u \in UnitSeq(T) /\ Led(c, u)
    BY <1>1, UnitsField
  <1>4. ASSUME Led(c, v) PROVE LedPlan(c, [q EXCEPT ![Units(c)] = v])
    <2>. HIDE DEF v
    <2>. QED BY <1>1, <1>4, UnitsField
  <1>. HIDE DEF u
  <1>5. \A i \in DOMAIN u : u[i] \in Unit(T)
    BY <1>3 DEF UnitSeq
  <1>6. \A i \in DOMAIN u : w(u[i]).kind = u[i].kind
    BY <1>5, KindKept
  <1>. HIDE DEF w
  <1>7. \A i \in DOMAIN u : v[i].kind = u[i].kind
    BY <1>6
  <1>8. v = [i \in DOMAIN u |-> v[i]]
    OBVIOUS
  <1>. HIDE DEF v
  <1>9. Led(c, v)
    BY <1>3, <1>7, <1>8, LedMap
  <1>. QED BY <1>2, <1>4, <1>9, Zenon
LEMMA LedIpfrag2 ==
    ASSUME NEW c \in Context, NEW T, NEW blk, NEW p, Lawful(c, T, FALSE, blk, p), LedPlan(c, p), NEW o
    PROVE  LedPlan(c, Ipfrag2(o, c, p))
  <1>. DEFINE q == Ensured(c, p)
              u == q[Units(c)]
              w(s) == [s EXCEPT !.frag = FragPos(o, c, IF c.udp THEN Len(s.data) ELSE c.len)]
              v == [i \in DOMAIN u |-> IF IsData(u[i]) THEN w(u[i]) ELSE u[i]]
  <1>0. Ipfrag2(o, c, p) = p \/ (Carries(c) /\ Ipfrag2(o, c, p) = [q EXCEPT ![Units(c)] = v])
    BY DEF Ipfrag2
  <1>1. ASSUME Carries(c) PROVE LedPlan(c, [q EXCEPT ![Units(c)] = v])
    <2>0. c.len > 0
      BY <1>1 DEF Carries, Context
    <2>1. q \in PlanOf(T) /\ LedPlan(c, q)
      <3>1. Lawful(c, T, FALSE, blk, q) /\ p \in PlanOf(T)
        BY <2>0, EnsuredLawful, LawfulFields
      <3>. QED BY <3>1, LedEnsuring, LawfulFields
    <2>. HIDE DEF q
    <2>3. u \in UnitSeq(T) /\ Led(c, u)
      BY <2>1, UnitsField
    <2>4. ASSUME Led(c, v) PROVE LedPlan(c, [q EXCEPT ![Units(c)] = v])
      <3>. HIDE DEF v
      <3>. QED BY <2>1, <2>4, UnitsField
    <2>. HIDE DEF u
    <2>5. \A i \in DOMAIN u : u[i] \in Unit(T)
      BY <2>3 DEF UnitSeq
    <2>6. \A i \in DOMAIN u : w(u[i]).kind = u[i].kind
      BY <2>5, KindKept
    <2>. HIDE DEF w
    <2>7. \A i \in DOMAIN u : v[i].kind = u[i].kind
      BY <2>6
    <2>8. v = [i \in DOMAIN u |-> v[i]]
      OBVIOUS
    <2>. HIDE DEF v
    <2>9. Led(c, v)
      BY <2>3, <2>7, <2>8, LedMap
    <2>. QED BY <2>4, <2>9
  <1>. QED BY <1>0, <1>1, Zenon
LEMMA LedIpfrag1 ==
    ASSUME NEW c \in Context, NEW T, NEW blk, NEW p, Lawful(c, T, FALSE, blk, p), LedPlan(c, p), NEW o
    PROVE  LedPlan(c, Ipfrag1(o, c, p)) /\ LedPlan(c, Ipv6Ext(o, c, p))
  <1>. DEFINE u == p.dgrams
              w(s) == [s EXCEPT !.frag = FragPos(o, c, Len(s.data))]
              v == [i \in DOMAIN u |-> IF u[i].kind = "fake" THEN w(u[i]) ELSE u[i]]
  <1>1. Carries(c) => c.len > 0
    BY DEF Carries, Context
  <1>2. \/ Ipfrag1(o, c, p) = p \/ Ipfrag1(o, c, p) = SetDgrams(p, v)
        \/ c.len > 0 /\ Ipfrag1(o, c, p) = Marked(c, p, "ipfrag1")
    BY <1>1 DEF Ipfrag1, SetDgrams
  <1>3. Ipv6Ext(o, c, p) = p \/ (c.len > 0 /\ Ipv6Ext(o, c, p) = Marked(c, p, "hopbyhop"))
    BY <1>1 DEF Ipv6Ext
  <1>4. u \in UnitSeq(T) /\ Led(c, u) /\ p \in PlanOf(T)
    BY LawfulFields DEF LedPlan
  <1>5. LedPlan(c, SetDgrams(p, v))
    <2>. HIDE DEF u
    <2>1. \A i \in DOMAIN u : u[i] \in Unit(T)
      BY <1>4 DEF UnitSeq
    <2>2. \A i \in DOMAIN u : w(u[i]).kind = u[i].kind
      BY <2>1, KindKept
    <2>. HIDE DEF w
    <2>3. \A i \in DOMAIN u : v[i].kind = u[i].kind
      BY <2>2
    <2>4. v = [i \in DOMAIN u |-> v[i]]
      OBVIOUS
    <2>. HIDE DEF v
    <2>5. Led(c, v)
      BY <1>4, <2>3, <2>4, LedMap
    <2>. QED BY <1>4, <2>5, LedSet
  <1>6. c.len > 0 => LedPlan(c, Marked(c, p, "ipfrag1")) /\ LedPlan(c, Marked(c, p, "hopbyhop"))
    BY LedMarked
  <1>. QED BY <1>2, <1>3, <1>5, <1>6, Zenon
LEMMA LedIpId ==
    ASSUME NEW c \in Context, NEW T, NEW blk, NEW p, Lawful(c, T, FALSE, blk, p), LedPlan(c, p), NEW o
    PROVE  LedPlan(c, IpId(o, c, p))
  <1>. DEFINE u == p.segs
              w(s) == [s EXCEPT !.ipid = o.ipid]
              v == [i \in DOMAIN u |-> w(u[i])]
  <1>1. IpId(o, c, p) = p \/ IpId(o, c, p) = SetSegs(p, v)
    BY DEF IpId, SetSegs
  <1>2. u \in UnitSeq(T) /\ Led(c, u) /\ p \in PlanOf(T)
    BY LawfulFields DEF LedPlan
  <1>. HIDE DEF u
  <1>3. \A i \in DOMAIN u : u[i] \in Unit(T)
    BY <1>2 DEF UnitSeq
  <1>4. \A i \in DOMAIN u : w(u[i]).kind = u[i].kind
    BY <1>3, KindKept
  <1>. HIDE DEF w
  <1>5. \A i \in DOMAIN u : v[i].kind = u[i].kind
    BY <1>4
  <1>6. v = [i \in DOMAIN u |-> v[i]]
    OBVIOUS
  <1>. HIDE DEF v
  <1>7. LedPlan(c, SetSegs(p, v))
    BY <1>2, <1>5, <1>6, LedMap, LedSet
  <1>. QED BY <1>1, <1>7, Zenon
LEMMA LedWssize ==
    ASSUME NEW c \in Context, NEW T, NEW blk, NEW p, Lawful(c, T, FALSE, blk, p), LedPlan(c, p), NEW o
    PROVE  LedPlan(c, Wssize(o, c, p))
  <1>1. ASSUME NEW q, q \in PlanOf(T), LedPlan(c, q)
        PROVE  LedPlan(c, [q EXCEPT !.segs = [i \in DOMAIN @ |->
                    IF CarriesWindow(c, @[i]) THEN [@[i] EXCEPT !.win = o.win] ELSE @[i]]])
    <2>. DEFINE u == q.segs
                w(s) == [s EXCEPT !.win = o.win]
                v == [i \in DOMAIN u |-> IF CarriesWindow(c, u[i]) THEN w(u[i]) ELSE u[i]]
    <2>1. u \in UnitSeq(T) /\ Led(c, u)
      BY <1>1, PlanFields DEF LedPlan
    <2>. HIDE DEF u
    <2>2. \A i \in DOMAIN u : u[i] \in Unit(T)
      BY <2>1 DEF UnitSeq
    <2>3. \A i \in DOMAIN u : w(u[i]).kind = u[i].kind
      BY <2>2, KindKept
    <2>. HIDE DEF w
    <2>4. \A i \in DOMAIN u : v[i].kind = u[i].kind
      BY <2>3
    <2>5. v = [i \in DOMAIN u |-> v[i]]
      OBVIOUS
    <2>. HIDE DEF v
    <2>6. LedPlan(c, SetSegs(q, v))
      BY <1>1, <2>1, <2>4, <2>5, LedMap, LedSet
    <2>. QED BY <2>6 DEF v, w, u, SetSegs
  <1>2. p \in PlanOf(T)
    BY LawfulFields
  <1>3. c.len > 0 => InjEnsureDataSeg(c, p) \in PlanOf(T) /\ LedPlan(c, InjEnsureDataSeg(c, p))
    BY <1>2, EnsuredLawful, LawfulFields, LedEnsuring
  <1>. QED BY <1>1, <1>2, <1>3 DEF Wssize
LEMMA LedUdplen ==
    ASSUME NEW c \in Context, NEW T, NEW blk, NEW p, Lawful(c, T, FALSE, blk, p), LedPlan(c, p), NEW o \in Operation
    PROVE  LedPlan(c, Udplen(o, c, p))
  <1>. DEFINE inc == IF o.inc = 0 THEN 2 ELSE o.inc
              data == UDPLenResize(c.len, inc)
              u == p.dgrams
              at == FirstData(u)
              y(s) == IF s.frag > 0 THEN FragPos(o, c, Len(data)) ELSE s.frag
              t == [u[at] EXCEPT !.data = data, !.frag = y(u[at])]
              v == [u EXCEPT ![at] = t]
              s == SegDataSeg(data, 0, Plain)
  <1>1. data \in Bytes
    <2>1. inc \in Int
      BY DEF Operation
    <2>. HIDE DEF inc
    <2>. QED BY <2>1, ResizeIs
  <1>2. u \in UnitSeq(T) /\ Led(c, u) /\ p \in PlanOf(T)
    BY LawfulFields DEF LedPlan
  <1>. HIDE DEF data
  <1>3. LedPlan(c, SetDgrams(p, Append(u, s)))
    <2>1. s \in Unit(T) /\ IsData(s)
      <3>1. Plain.ipid \in IpIds /\ 0 \in Int
        BY DEF Plain, IpIds
      <3>. QED BY <1>1, <3>1, DataSegIs, Zenon
    <2>. HIDE DEF s, u
    <2>2. <<s>> \in UnitSeq(T) /\ (\A i \in 1 .. Len(<<s>>) : IsData(<<s>>[i])) /\ Append(u, s) = u \o <<s>>
      BY <1>2, <2>1 DEF UnitSeq
    <2>3. Led(c, u \o <<s>>)
      BY <1>2, <2>2, LedBehind
    <2>. QED BY <1>2, <2>2, <2>3, LedSet
  <1>4. ASSUME at # 0 PROVE LedPlan(c, SetDgrams(p, v))
    <2>1. at \in 1 .. Len(u) /\ u[at] \in Unit(T)
      BY <1>2, <1>4, FirstDataIs DEF UnitSeq
    <2>. HIDE DEF at, u, y
    <2>2. t.kind = u[at].kind
      BY <2>1, KindKept
    <2>. HIDE DEF t
    <2>3. Len(v) = Len(u) /\ \A i \in 1 .. Len(u) : v[i].kind = u[i].kind
      BY <1>2, <2>1, <2>2 DEF UnitSeq
    <2>. HIDE DEF v
    <2>4. Led(c, v)
      BY <1>2, <2>3, LedKinds
    <2>. QED BY <1>2, <2>4, LedSet
  <1>5. \/ Udplen(o, c, p) = p \/ Udplen(o, c, p) = SetDgrams(p, Append(u, s))
        \/ at # 0 /\ Udplen(o, c, p) = SetDgrams(p, v)
    <2>. HIDE DEF inc
    <2>1. \/ Udplen(o, c, p) = p \/ Udplen(o, c, p) = [p EXCEPT !.dgrams = Append(u, s)]
          \/ at # 0 /\ Udplen(o, c, p) = [p EXCEPT !.dgrams = [u EXCEPT ![at] = [u[at] EXCEPT !.data = data, !.frag = IF @ > 0 THEN FragPos(o, c, Len(data)) ELSE @]]]
      BY <1>2 DEF Udplen, data, inc
    <2>2. [u[at] EXCEPT !.data = data, !.frag = IF @ > 0 THEN FragPos(o, c, Len(data)) ELSE @] = t
      OBVIOUS
    <2>. HIDE DEF t
    <2>. QED BY <2>1, <2>2, Zenon DEF SetDgrams
  <1>. QED BY <1>3, <1>4, <1>5, Zenon

Between(o) == o.op \in {"fakedsplit", "fakeddisorder", "hostfakesplit"}
LEMMA LedApply ==
    ASSUME NEW c \in Context, NEW T, NEW blk, NEW p, Lawful(c, T, FALSE, blk, p), LedPlan(c, p),
           NEW o \in Operation, o.ttl \in T, ~Between(o)
    PROVE  LedPlan(c, Apply(o, c, p)) /\ LedPlan(c, Degrade(o, c, p))
  <1>0. p \in PlanOf(T)
    BY LawfulFields
  <1>1. LedPlan(c, Apply(o, c, p))
    <2>1. CASE o.op = "multisplit"
      BY <1>0, <2>1, LedMultisplit DEF Apply
    <2>2. CASE o.op = "multidisorder"
      BY <1>0, <2>2, LedMultidisorder DEF Apply
    <2>3. CASE o.op \in {"fake", "fakeknown"}
      BY <1>0, <2>3, LedFake DEF Apply
    <2>4. CASE o.op = "rst"
      BY <1>0, <2>4, LedFake DEF Apply
    <2>5. CASE o.op = "syndata"
      BY <1>0, <2>5, LedSyndata DEF Apply
    <2>6. CASE o.op = "block"
      <3>1. Apply(o, c, p) = Block(o, c, p)
        BY <2>6 DEF Apply
      <3>2. Block(o, c, p).segs = <<>> /\ Block(o, c, p).dgrams = <<>>
        BY DEF Block, EmptyPlan
      <3>. QED BY <3>1, <3>2, LedEmpty DEF LedPlan
    <2>7. CASE o.op = "ipfrag1"
      BY <2>7, LedIpfrag1 DEF Apply
    <2>8. CASE o.op = "ipfrag2"
      BY <2>8, LedIpfrag2 DEF Apply
    <2>9. CASE o.op = "hopbyhop"
      BY <2>9, LedIpfrag1 DEF Apply
    <2>10. CASE o.op = "udplen"
      BY <2>10, LedUdplen DEF Apply
    <2>11. CASE o.op = "wssize"
      BY <2>11, LedWssize DEF Apply
    <2>12. CASE o.op = "ip_id"
      BY <2>12, LedIpId DEF Apply
    <2>13. CASE o.op = "tamper"
      BY <2>13, LedTamper DEF Apply
    <2>14. CASE o.op = "tlsrec"
      BY <2>14, LedTlsrec DEF Apply
    <2>15. o.op \in Names /\ o.op \notin {"fakedsplit", "fakeddisorder", "hostfakesplit"}
      BY DEF Operation, Between
    <2>16. \/ o.op = "multisplit" \/ o.op = "multidisorder" \/ o.op \in {"fake", "fakeknown"} \/ o.op = "rst" \/ o.op = "syndata"
           \/ o.op = "block" \/ o.op = "ipfrag1" \/ o.op = "ipfrag2" \/ o.op = "hopbyhop" \/ o.op = "udplen" \/ o.op = "wssize"
           \/ o.op = "ip_id" \/ o.op = "tamper" \/ o.op = "tlsrec"
      BY <2>15 DEF Names
    <2>. QED BY <2>1, <2>2, <2>3, <2>4, <2>5, <2>6, <2>7, <2>8, <2>9, <2>10, <2>11, <2>12, <2>13, <2>14, <2>16, Zenon
  <1>2. Degrade(o, c, p) = p \/ Degrade(o, c, p) = MultidisorderDegrade(o, c, p)
    <2>1. o.op \notin {"fakedsplit", "fakeddisorder"} /\ o.op # "hostfakesplit"
      BY DEF Between
    <2>2. CASE o.op = "multidisorder"
      BY <2>2 DEF Degrade
    <2>3. CASE o.op # "multidisorder"
      BY <2>1, <2>3 DEF Degrade
    <2>. QED BY <2>2, <2>3
  <1>3. LedPlan(c, MultidisorderDegrade(o, c, p))
    BY <1>0, LedMultidisorder
  <1>. QED BY <1>1, <1>2, <1>3
LEMMA LedStep ==
    ASSUME NEW c \in Context, NEW T, NEW blk, NEW p, Lawful(c, T, FALSE, blk, p), LedPlan(c, p),
           NEW o, Turning(c, T, FALSE, blk, o), ~Between(o), NEW u
    PROVE  LedPlan(c, Step(o, c, u, p))
  <1>. DEFINE r == ApplyTTL(o, c)
  <1>1. o \in Operation /\ r.ttl \in T
    BY DEF Turning
  <1>2. SameButTTL(o, r)
    BY <1>1, TTLApplied
  <1>. HIDE DEF r
  <1>3. r \in Operation /\ ~Between(r)
    BY <1>2 DEF SameButTTL, Between
  <1>4. LedPlan(c, Apply(r, c, p)) /\ LedPlan(c, Degrade(r, c, p))
    BY <1>1, <1>3, LedApply
  <1>5. Step(o, c, u, p) \in {Apply(r, c, p), Degrade(r, c, p), p}
    BY Zenon DEF Step, r
  <1>. QED BY <1>4, <1>5
(* What the engine makes of a packet with operations that put no decoy between the parts. *)
LEMMA LedRun ==
    ASSUME NEW c \in Context, NEW ops \in Seq(Operation), NEW u, \A i \in DOMAIN ops : ~Between(ops[i])
    PROVE  LedPlan(c, Run(ops, c, u))
  <1>. DEFINE n == Len(ops)
              T == TTLs(ops, c)
              blk == Blocking(ops)
              todo == Compiled(ops)
  <1>1. PICK f : Unrolled(ops, c, u, f)
    BY RunUnfolds
  <1>2. n \in Nat
    OBVIOUS
  <1>. DEFINE G == {k \in 0 .. n : LedPlan(c, f[k])}
  <1>3. 0 \in G
    <2>1. f[0] = EmptyPlan
      BY <1>1 DEF Unrolled
    <2>2. LedPlan(c, f[0])
      BY <2>1, LedEmpty DEF LedPlan, EmptyPlan
    <2>. QED BY <1>2, <2>2
  <1>4. \A k \in 1 .. n : ~Between(todo[k])
    <2>1. CompiledAs(ops, n, todo, InOrder(ops))
      BY CompiledFacts
    <2>. DEFINE at == InOrder(ops)
    <2>. HIDE DEF at, todo
    <2>2. \A k \in 1 .. n : at[k] \in 1 .. n /\ todo[k] = ops[at[k]]
      BY <2>1 DEF CompiledAs, at
    <2>. QED BY <2>2
  <1>5. ASSUME NEW k \in 0 .. n - 1, k \in G PROVE k + 1 \in G
    <2>1. k + 1 \in 1 .. n /\ (k + 1) - 1 = k /\ k + 1 \in 0 .. n /\ k \in 0 .. n
      BY <1>2
    <2>2. f[k + 1] = Step(todo[k + 1], c, u, f[k])
      BY <1>1, <2>1 DEF Unrolled
    <2>3. Turning(c, T, FALSE, blk, todo[k + 1])
      BY <2>1, Turned
    <2>4. Lawful(c, T, FALSE, blk, f[k])
      BY <1>1, <2>1, StepsLawful
    <2>5. LedPlan(c, f[k]) /\ ~Between(todo[k + 1])
      BY <1>4, <1>5, <2>1
    <2>. HIDE DEF T, blk, todo
    <2>6. LedPlan(c, f[k + 1])
      BY <2>2, <2>3, <2>4, <2>5, LedStep
    <2>. QED BY <2>1, <2>6
  <1>. HIDE DEF G, n, todo, T, blk
  <1>6. \A k \in 0 .. n : k \in G
    BY <1>2, <1>3, <1>5, Induct
  <1>7. n \in 0 .. n
    BY <1>2
  <1>8. LedPlan(c, f[n])
    BY <1>6, <1>7 DEF G
  <1>9. Run(ops, c, u) = Finished(f[n])
    BY <1>1, Zenon DEF Unrolled, n
  <1>10. f[n] \in PlanOf(T)
    BY <1>1, <1>7, StepsLawful, LawfulFields DEF T, n
  <1>11. Finished(f[n]).segs = f[n].segs /\ Finished(f[n]).dgrams = f[n].dgrams
    BY <1>10, FinishedIs
  <1>. QED BY <1>8, <1>9, <1>11 DEF LedPlan
(* Decoys among the packets of a plan come first. *)
LEMMA PacketsLed ==
    ASSUME NEW c, NEW T, NEW us, NEW U, NEW ids, NEW full, NEW a, Built(c, T, us, U, ids, full, a), Led(c, us),
           NEW i \in 1 .. Len(full), NEW j \in 1 .. Len(full), i < j, IsDecoy(full[j])
    PROVE  IsDecoy(full[i])
  <1>1. PICK s : Sources(T, us, U, s)
    BY DEF Built
  <1>2. Emitting(c, U, ids, full, a) /\ us \in UnitSeq(T)
    BY DEF Built
  <1>3. a[i] \in 1 .. Len(U) /\ a[j] \in 1 .. Len(U) /\ a[i] <= a[j]
    BY <1>2 DEF Emitting
  <1>4. full[i].kind = U[a[i]].kind /\ full[j].kind = U[a[j]].kind
    BY <1>2 DEF Emitting, Carrying
  <1>. DEFINE x == s[a[i]]
              y == s[a[j]]
  <1>5. x \in 1 .. Len(us) /\ y \in 1 .. Len(us) /\ U[a[i]] = us[x] /\ U[a[j]] = us[y]
    BY <1>1, <1>3 DEF Sources
  <1>6. x <= y
    <2>1. a[i] = a[j] \/ a[i] < a[j]
      BY <1>3
    <2>2. a[i] = a[j] => x <= y
      BY <1>5
    <2>3. a[i] < a[j] => x <= y
      BY <1>1, <1>3 DEF Sources
    <2>. QED BY <2>1, <2>2, <2>3
  <1>. HIDE DEF x, y
  <1>7. IsDecoy(us[y]) /\ (IsDecoy(us[x]) => IsDecoy(full[i]))
    BY <1>4, <1>5 DEF IsDecoy
  <1>8. x = y \/ x < y
    BY <1>5, <1>6
  <1>9. CASE x < y
    <2>1. ~c.syn
      BY <1>5, <1>7 DEF Led
    <2>2. ~IsData(us[x])
      BY <1>5, <1>7, <1>9, <2>1, DataNoDecoy DEF Led
    <2>. QED BY <1>5, <1>7, <2>1, <2>2 DEF Led
  <1>. QED BY <1>7, <1>8, <1>9
LEMMA DecoysLeadIs == DatapathInv => DecoysLead
  <1>. SUFFICES ASSUME DatapathInv, phase = "inject", ~Interleaving(prof), NEW i \in DOMAIN out, NEW j \in DOMAIN out,
                       i < j, IsDecoy(out[j])
                PROVE  IsDecoy(out[i])
    BY DEF DecoysLead
  <1>. DEFINE c == pkt
              plan == PlanFor(pkt, prof)
              T == TTLs(prof.ops, pkt)
              us == IF pkt.udp THEN plan.dgrams ELSE plan.segs
  <1>1. Handling /\ Injecting /\ FullOf \in Seq(PacketSet)
    BY OutIs
  <1>2. c \in Contexts /\ prof \in Profiles /\ c \in Context /\ prof.ops \in Seq(Operation)
    BY <1>1, ContextCaps, ProfileOps DEF Handling
  <1>3. plan \in PlanOf(T)
    BY <1>2, PlanWhole DEF Whole
  <1>4. LedPlan(c, plan)
    <2>1. \A k \in DOMAIN prof.ops : ~Between(prof.ops[k])
      BY DEF Interleaving, Between
    <2>. QED BY <1>2, <2>1, LedRun DEF PlanFor
  <1>5. Led(c, us) /\ Sole(plan, us)
    BY <1>1, <1>4 DEF LedPlan, Sole, Injecting, Buildable
  <1>6. PICK a : Built(c, T, us, PlanUnits(plan), PlanIds(plan), FullOf, a)
    BY <1>3, <1>5, BuiltOf DEF FullOf
  <1>7. PICK m : Rest(FullOf, m, out)
    BY <1>1 DEF Injecting
  <1>. HIDE DEF plan, T, us, c
  <1>8. /\ m \in Nat /\ Len(FullOf) \in Nat /\ Len(out) = Len(FullOf) - m /\ DOMAIN out = 1 .. Len(out)
        /\ \A k \in 1 .. Len(out) : out[k] = FullOf[m + k]
    BY <1>1, <1>7 DEF Rest
  <1>9. m + i \in 1 .. Len(FullOf) /\ m + j \in 1 .. Len(FullOf) /\ m + i < m + j
    BY <1>8
  <1>10. out[i] = FullOf[m + i] /\ out[j] = FullOf[m + j]
    BY <1>8
  <1>. QED BY <1>5, <1>6, <1>9, <1>10, PacketsLed
(* What is to deceive does so without reaching the server: decoys lead and fall *)
(* short, and the name is cut.                                                  *)
THEOREM DecoysDeceiveHolds == Spec => []DecoysDeceive
  <1>1. DatapathInv => DecoysDeceive
    BY DecoysLeadIs, FallsShortIs, NameCutIs DEF DecoysDeceive
  <1>. QED BY <1>1, DatapathAlways, PTL

(***************************************************************************)
(* The proxy transport: what a relay writes.                               *)
(***************************************************************************)
(* The data of a plan in stream order. *)
Lined(plan, T, n, F, p, b) ==
    /\ plan.segs \in UnitSeq(T) /\ F \in Bytes /\ Len(F) > 0 /\ Tiling(DataOf(plan.segs), n, F, p, b)
LEMMA LinedAt ==
    ASSUME NEW T, NEW plan, NEW n, NEW F, NEW p, NEW b, Lined(plan, T, n, F, p, b), NEW k \in 1 .. n
    PROVE  LET s == DataOf(plan.segs)[p[k]]
           IN  /\ n \in Nat /\ s.off \in Int /\ Len(s.data) \in Nat /\ s.off <= b[k - 1] /\ EndOf(s) = b[k]
               /\ b[k - 1] \in Nat /\ b[k] \in Nat /\ b[k - 1] < b[k] /\ b[k] <= Len(F) /\ s.data \in Bytes
               /\ s.off + Len(s.data) = b[k] /\ Len(s.data) > 0
  <1>. DEFINE s == DataOf(plan.segs)[p[k]]
  <1>1. DataOf(plan.segs) \in DataSeq(T)
    BY HoldsUnits DEF Lined, Holds
  <1>2. TileAt(T, DataOf(plan.segs), n, F, p, b, k)
    BY <1>1, TileFacts DEF Lined
  <1>3. /\ n \in Nat /\ s.off \in Int /\ Len(s.data) \in Nat /\ s.off <= b[k - 1] /\ EndOf(s) = b[k] /\ s.data \in Seq(Int)
        /\ b[k - 1] \in Nat /\ b[k] \in Nat /\ b[k] <= Len(F) /\ s.off + Len(s.data) = b[k]
        /\ b[k - 1] < b[k] \/ Len(F) = 0
    BY <1>2, Zenon DEF TileAt
  <1>4. Len(F) > 0
    BY DEF Lined
  <1>5. b[k - 1] < b[k]
    BY <1>3, <1>4
  <1>. HIDE DEF s
  <1>6. Len(s.data) > 0
    BY <1>3, <1>5
  <1>. QED BY <1>3, <1>5, <1>6 DEF s, Bytes
LEMMA OrderedIs ==
    ASSUME NEW T, NEW plan, NEW n, NEW F, NEW p, NEW b, Lined(plan, T, n, F, p, b)
    PROVE  Ordered(plan) = [k \in 1 .. n |-> DataOf(plan.segs)[p[k]]]
  <1>. DEFINE segs == plan.segs
              ds == DataOf(segs)
              q == SegDataIdx(segs)
              full == {i \in DataAt(segs) : segs[i].data # <<>>}
  <1>1. Indexed(segs, T, n, p, q, ds)
    BY IdxIs DEF Lined
  <1>2. /\ DOMAIN q = 1 .. n /\ \A k \in 1 .. n : segs[q[k]] = ds[p[k]]
        /\ \A i \in 1 .. Len(segs) : IsData(segs[i]) => \E k \in 1 .. n : q[k] = i
    BY <1>1, Zenon DEF Indexed
  <1>3. DataAt(segs) = {i \in 1 .. Len(segs) : IsData(segs[i])}
    BY NoData DEF Lined
  <1>4. ASSUME NEW i \in DataAt(segs) PROVE segs[i].data # <<>>
    <2>1. PICK k \in 1 .. n : q[k] = i
      BY <1>2, <1>3
    <2>2. segs[i] = ds[p[k]]
      BY <1>2, <2>1
    <2>3. Len(ds[p[k]].data) > 0 /\ ds[p[k]].data \in Seq(Int)
      BY LinedAt DEF Bytes
    <2>4. ds[p[k]].data # <<>>
      BY <2>3
    <2>. QED BY <2>2, <2>4
  <1>5. full = DataAt(segs)
    BY <1>4
  <1>6. Ordered(plan) = [k \in DOMAIN q |-> segs[q[k]]]
    BY <1>5 DEF Ordered, SegDataIdx
  <1>. HIDE DEF q, ds
  <1>7. [k \in DOMAIN q |-> segs[q[k]]] = [k \in 1 .. n |-> ds[p[k]]]
    BY <1>2
  <1>. QED BY <1>6, <1>7 DEF ds
(* The stream stands where the part before ended. *)
LEMMA CoveredIs ==
    ASSUME NEW T, NEW plan, NEW n, NEW F, NEW p, NEW b, Lined(plan, T, n, F, p, b), NEW k \in 1 .. n
    PROVE  Covered(Ordered(plan), k) = b[k - 1]
  <1>. DEFINE segs == Ordered(plan)
              ends == {EndOf(segs[j]) : j \in 1 .. k - 1} \cup {0}
  <1>1. segs = [i \in 1 .. n |-> DataOf(plan.segs)[p[i]]]
    BY OrderedIs
  <1>2. n \in Nat
    BY LinedAt
  <1>3. \A j \in 1 .. n : EndOf(segs[j]) = b[j] /\ b[j] \in Nat /\ b[j - 1] \in Nat
    BY <1>1, LinedAt
  <1>. HIDE DEF segs
  <1>4. \A i, j \in 0 .. n : i < j => b[i] < b[j]
    <2>1. \A i, j \in 0 .. n : i < j => b[i] < b[j] \/ Len(F) = 0
      BY Zenon DEF Lined, Tiling, Bounds
    <2>2. Len(F) # 0
      BY DEF Lined
    <2>. QED BY <2>1, <2>2
  <1>5. b[0] = 0
    BY DEF Lined, Tiling, Bounds
  <1>6. b[k - 1] \in ends
    <2>1. CASE k = 1
      BY <1>5, <2>1
    <2>2. CASE k # 1
      <3>1. k - 1 \in 1 .. k - 1 /\ k - 1 \in 1 .. n
        BY <1>2, <2>2
      <3>. QED BY <1>3, <3>1
    <2>. QED BY <2>1, <2>2
  <1>7. ASSUME NEW f \in ends PROVE f <= b[k - 1]
    <2>1. CASE f = 0
      BY <1>3, <2>1
    <2>2. ASSUME NEW j \in 1 .. k - 1, f = EndOf(segs[j]) PROVE f <= b[k - 1]
      <3>1. j \in 1 .. n /\ j \in 0 .. n /\ k - 1 \in 0 .. n
        BY <1>2
      <3>2. f = b[j] /\ b[j] \in Nat
        BY <1>3, <2>2, <3>1
      <3>3. j = k - 1 \/ b[j] < b[k - 1]
        BY <1>2, <1>4, <3>1
      <3>. QED BY <1>3, <3>2, <3>3
    <2>. QED BY <2>1, <2>2
  <1>8. \A e \in ends : e \in Nat
    <2>1. \A j \in 1 .. k - 1 : j \in 1 .. n
      BY <1>2
    <2>. QED BY <1>3, <2>1
  <1>9. b[k - 1] \in Nat
    BY <1>3
  <1>10. Covered(segs, k) = CHOOSE e \in ends : \A f \in ends : f <= e
    BY DEF Covered
  <1>. HIDE DEF ends
  <1>11. ASSUME NEW e \in ends, \A f \in ends : f <= e PROVE e = b[k - 1]
    <2>1. b[k - 1] <= e /\ e <= b[k - 1]
      BY <1>6, <1>7, <1>11
    <2>. QED BY <1>8, <1>9, <2>1
  <1>12. b[k - 1] \in ends /\ \A f \in ends : f <= b[k - 1]
    BY <1>6, <1>7
  <1>13. (CHOOSE e \in ends : \A f \in ends : f <= e) = b[k - 1]
    BY <1>11, <1>12, Zenon
  <1>. QED BY <1>10, <1>13 DEF segs
(* The data of a plan make one stream, and each piece is its part of it. *)
PieceSet == [data: Bytes, low: BOOLEAN]
PiecesOf(ps, n, F, b) ==
    /\ ps \in Seq(PieceSet) /\ Len(ps) = n
    /\ \A i \in 1 .. n : ps[i].data = Cut(F, b[i - 1], b[i])
LEMMA SegmentsOf ==
    ASSUME NEW T, NEW plan, NEW n, NEW F, NEW p, NEW b, Lined(plan, T, n, F, p, b)
    PROVE  Contiguous(Ordered(plan)) /\ PiecesOf(Segments(plan), n, F, b) /\ Segments(plan) # <<>>
  <1>. DEFINE segs == Ordered(plan)
              ds == DataOf(plan.segs)
              K == {k \in DOMAIN segs : ~Below(segs[k])}
              kept == Ascending(K)
              Part(k) == Cut(segs[k].data, Covered(segs, k) - segs[k].off, Len(segs[k].data))
              ps == [i \in 1 .. n |-> [data |-> Cut(F, b[i - 1], b[i]), low |-> segs[i].ttl = 1]]
  <1>1. segs = [i \in 1 .. n |-> ds[p[i]]]
    BY OrderedIs
  <1>2. n \in Nat \ {0} /\ F \in Bytes /\ Tiling(ds, n, F, p, b) /\ ds \in DataSeq(T)
    BY HoldsUnits DEF Lined, Tiling, Holds
  <1>3. ASSUME NEW k \in 1 .. n
        PROVE  /\ ~Below(segs[k]) /\ segs[k].off <= Covered(segs, k) /\ EndOf(segs[k]) > Covered(segs, k)
               /\ Part(k) = Cut(F, b[k - 1], b[k]) /\ Cut(F, b[k - 1], b[k]) \in Bytes
    <2>1. /\ ds[p[k]].off \in Int /\ ds[p[k]].off <= b[k - 1] /\ EndOf(ds[p[k]]) = b[k] /\ b[k - 1] \in Nat /\ b[k] \in Nat
          /\ b[k - 1] < b[k] /\ b[k] <= Len(F)
      BY LinedAt
    <2>2. Covered(segs, k) = b[k - 1]
      BY CoveredIs
    <2>3. segs[k] = ds[p[k]]
      BY <1>1
    <2>. HIDE DEF segs
    <2>4. ~Below(segs[k])
      BY <2>1, <2>3 DEF Below
    <2>5. Part(k) = Cut(F, b[k - 1], b[k])
      <3>1. Cut(ds[p[k]].data, b[k - 1] - ds[p[k]].off, Len(ds[p[k]].data)) = Cut(F, b[k - 1], b[k])
        BY <1>2, TilePart
      <3>. QED BY <2>2, <2>3, <3>1
    <2>6. Cut(F, b[k - 1], b[k]) \in Bytes
      <3>1. b[k - 1] \in 0 .. Len(F) /\ b[k] \in b[k - 1] .. Len(F) /\ F \in Seq(Int)
        BY <1>2, <2>1 DEF Bytes
      <3>. QED BY <3>1, CutFacts DEF IsCut, Bytes
    <2>. QED BY <2>1, <2>2, <2>3, <2>4, <2>5, <2>6
  <1>4. DOMAIN segs = 1 .. n
    BY <1>1
  <1>. HIDE DEF segs, ds
  <1>5. Contiguous(segs)
    BY <1>3, <1>4 DEF Contiguous
  <1>6. K = 1 .. n
    BY <1>3, <1>4
  <1>7. kept = Id(n)
    <2>1. Id(n) \in [1 .. n -> 1 .. n] /\ (\A i \in 1 .. n : \E k \in 1 .. n : Id(n)[k] = i)
          /\ \A x, y \in 1 .. n : x < y => Id(n)[x] < Id(n)[y]
      BY <1>2 DEF Id
    <2>2. 1 .. n \in SUBSET Int /\ n \in Nat
      BY <1>2
    <2>3. Ascending(1 .. n) = Id(n)
      BY <2>1, <2>2, AscendingIs
    <2>. QED BY <1>6, <2>3
  <1>8. Segments(plan) = [i \in DOMAIN kept |-> [data |-> Part(kept[i]), low |-> segs[kept[i]].ttl = 1]]
    BY DEF Segments, segs
  <1>9. DOMAIN kept = 1 .. n /\ \A i \in 1 .. n : kept[i] = i
    BY <1>7 DEF Id
  <1>. HIDE DEF kept
  <1>10. Segments(plan) = ps
    BY <1>3, <1>8, <1>9
  <1>11. ps \in Seq(PieceSet) /\ Len(ps) = n
    <2>1. \A i \in 1 .. n : [data |-> Cut(F, b[i - 1], b[i]), low |-> segs[i].ttl = 1] \in PieceSet
      BY <1>3 DEF PieceSet
    <2>. QED BY <1>2, <2>1
  <1>12. \A i \in 1 .. n : ps[i].data = Cut(F, b[i - 1], b[i])
    OBVIOUS
  <1>. HIDE DEF ps
  <1>13. ps # <<>>
    BY <1>2, <1>11
  <1>. QED BY <1>5, <1>10, <1>11, <1>12, <1>13 DEF PiecesOf, segs

(* Pieces ps are what is left of a stream F of c after w, cut at the name if cut. *)
Stream(c, cut, ps, w, F, n, b, k) ==
    /\ Form(c, F) /\ n \in Nat /\ k \in 0 .. n /\ Bounds(b, n, Len(F))
    /\ ps \in Seq(PieceSet) /\ Len(ps) = n - k /\ \A i \in 1 .. n - k : ps[i].data = Cut(F, b[k + i - 1], b[k + i])
    /\ w = Cut(F, 0, b[k]) /\ (cut => \E j \in 0 .. n : NameAt(c, F, b[j]))
Writing(c, cut, ps, w) == \E F, n, b, k : Stream(c, cut, ps, w, F, n, b, k)
LEMMA CutNone == ASSUME NEW F PROVE Cut(F, 0, 0) = <<>>
  BY DEF Cut
LEMMA StreamStarts ==
    ASSUME NEW c, NEW cut, NEW ps, NEW F, NEW n \in Nat, NEW b, Form(c, F), Bounds(b, n, Len(F)), PiecesOf(ps, n, F, b),
           cut => \E j \in 0 .. n : NameAt(c, F, b[j])
    PROVE  Writing(c, cut, ps, <<>>)
  <1>1. b[0] = 0 /\ n - 0 = n /\ 0 \in 0 .. n
    BY DEF Bounds
  <1>2. <<>> = Cut(F, 0, b[0])
    BY <1>1, CutNone
  <1>3. ps \in Seq(PieceSet) /\ Len(ps) = n - 0 /\ \A i \in 1 .. n - 0 : ps[i].data = Cut(F, b[0 + i - 1], b[0 + i])
    BY <1>1 DEF PiecesOf
  <1>4. Stream(c, cut, ps, <<>>, F, n, b, 0)
    BY <1>1, <1>2, <1>3, Zenon DEF Stream
  <1>. QED BY <1>4, Zenon DEF Writing
LEMMA CutWhole == ASSUME NEW F \in Bytes PROVE Cut(F, 0, Len(F)) = F
  <1>1. F \in Seq(Int) /\ Len(F) \in Nat
    BY DEF Bytes
  <1>2. 0 \in 0 .. Len(F) /\ Len(F) \in 0 .. Len(F)
    BY <1>1
  <1>3. IsCut(Int, F, 0, Len(F))
    BY <1>1, <1>2, CutFacts
  <1>. DEFINE u == Cut(F, 0, Len(F))
  <1>4. u \in Seq(Int) /\ Len(u) = Len(F) - 0 /\ \A i \in 1 .. Len(F) - 0 : u[i] = F[0 + i]
    BY <1>3, Zenon DEF IsCut
  <1>. HIDE DEF u
  <1>5. Len(u) = Len(F) /\ \A i \in 1 .. Len(u) : u[i] = F[i]
    <2>1. Len(F) - 0 = Len(F)
      BY <1>1
    <2>2. Len(u) = Len(F)
      BY <1>4, <2>1
    <2>3. \A i \in 1 .. Len(F) : 0 + i = i
      OBVIOUS
    <2>. QED BY <1>4, <2>1, <2>2, <2>3
  <1>6. u = F
    BY <1>1, <1>4, <1>5, SameSeq
  <1>. QED BY <1>6 DEF u
(* The request as it came. *)
LEMMA VerbatimIs ==
    ASSUME NEW c \in Context
    PROVE  Writing(c, FALSE, Verbatim(c), <<>>)
  <1>. DEFINE F == Payload(c)
              b == [k \in 0 .. 1 |-> IF k = 0 THEN 0 ELSE Len(F)]
  <1>1. Form(c, F)
    BY PayloadForm
  <1>2. F \in Bytes /\ Len(F) \in Nat
    BY ContextFacts DEF Bytes
  <1>. HIDE DEF F
  <1>3. Bounds(b, 1, Len(F))
    <2>. DEFINE m == Len(F)
    <2>. HIDE DEF m
    <2>1. m \in Nat
      BY <1>2 DEF m
    <2>. DEFINE d == [k \in 0 .. 1 |-> IF k = 0 THEN 0 ELSE m]
    <2>2. d \in [0 .. 1 -> 0 .. m] /\ d[0] = 0 /\ d[1] = m
      BY <2>1
    <2>3. \A j, k \in 0 .. 1 : j < k => d[j] < d[k] \/ m = 0
      BY <2>1
    <2>4. Bounds(d, 1, m)
      BY <2>2, <2>3, Zenon DEF Bounds
    <2>. QED BY <2>4 DEF m
  <1>4. b[0] = 0 /\ b[1] = Len(F)
    OBVIOUS
  <1>. DEFINE ps == <<[data |-> F, low |-> FALSE]>>
              N == 1
  <1>5. Len(ps) = N /\ ps \in Seq(PieceSet) /\ ps[1].data = F
    BY <1>2 DEF PieceSet
  <1>6. ps = Verbatim(c)
    BY DEF Verbatim, F
  <1>. HIDE DEF ps, b
  <1>7. \A i \in 1 .. N : ps[i].data = Cut(F, b[i - 1], b[i])
    <2>1. F = Cut(F, b[0], b[1])
      BY <1>2, <1>4, CutWhole
    <2>2. \A i \in 1 .. N : i = 1 /\ i - 1 = 0
      OBVIOUS
    <2>. QED BY <1>5, <2>1, <2>2
  <1>8. PiecesOf(ps, N, F, b)
    BY <1>5, <1>7 DEF PiecesOf
  <1>9. N \in Nat
    OBVIOUS
  <1>10. Bounds(b, N, Len(F))
    BY <1>3 DEF N, b
  <1>. HIDE DEF N
  <1>11. Writing(c, FALSE, ps, <<>>)
    BY <1>1, <1>8, <1>9, <1>10, StreamStarts
  <1>. QED BY <1>6, <1>11
(* A plan without data is written as the request came. *)
LEMMA NothingOrdered ==
    ASSUME NEW T, NEW plan, plan.segs \in UnitSeq(T), DataOf(plan.segs) = <<>>
    PROVE  Segments(plan) = <<>>
  <1>. DEFINE segs == Ordered(plan)
              full == {i \in DataAt(plan.segs) : plan.segs[i].data # <<>>}
              at == Sorted(full, [i \in full |-> plan.segs[i].off])
  <1>1. full = {}
    BY NoData
  <1>2. Cardinality({}) = 0 /\ 1 .. 0 = {}
    BY FS_EmptySet
  <1>3. DOMAIN at = {}
    BY <1>1, <1>2 DEF Sorted
  <1>. HIDE DEF at
  <1>4. segs = [k \in DOMAIN at |-> plan.segs[at[k]]]
    BY Zenon DEF Ordered, at
  <1>5. DOMAIN segs = {}
    BY <1>3, <1>4
  <1>. DEFINE kept == Ascending({k \in DOMAIN segs : ~Below(segs[k])})
              Part(k) == [data |-> Cut(segs[k].data, Covered(segs, k) - segs[k].off, Len(segs[k].data)), low |-> segs[k].ttl = 1]
  <1>6. Segments(plan) = [i \in DOMAIN kept |-> Part(kept[i])]
    BY Zenon DEF Segments
  <1>. HIDE DEF segs, Part
  <1>7. {k \in DOMAIN segs : ~Below(segs[k])} = {}
    BY <1>5
  <1>8. DOMAIN kept = {}
    <2>1. DOMAIN Ascending({}) = 1 .. Cardinality({})
      BY Zenon DEF Ascending, Sorted
    <2>. QED BY <1>2, <1>7, <2>1
  <1>. HIDE DEF kept
  <1>9. Segments(plan) = [i \in {} |-> Part(kept[i])]
    BY <1>6, <1>8
  <1>. QED BY <1>9
(* What ApplyPlan writes of a plan. *)
LEMMA PiecesIs ==
    ASSUME NEW c \in Context, c.len > 0, NEW T, NEW cut, NEW plan, plan.segs \in UnitSeq(T), Good(c, DataOf(plan.segs), cut)
    PROVE  Writing(c, cut, Pieces(c, plan), <<>>)
  <1>1. CASE DataOf(plan.segs) = <<>> /\ ~cut
    <2>1. Segments(plan) = <<>>
      BY <1>1, NothingOrdered
    <2>2. Pieces(c, plan) = Verbatim(c)
      BY <2>1 DEF Pieces
    <2>3. Writing(c, FALSE, Verbatim(c), <<>>)
      BY VerbatimIs
    <2>. QED BY <1>1, <2>2, <2>3 DEF Writing, Stream
  <1>2. ASSUME NEW F, NEW n, NEW p, NEW b, Form(c, F), Tiling(DataOf(plan.segs), n, F, p, b), Divided(c, F, n, b, cut)
        PROVE  Writing(c, cut, Pieces(c, plan), <<>>)
    <2>1. F \in Bytes /\ Len(F) \in Nat
      BY <1>2 DEF Form, Bytes
    <2>2. Len(F) > 0
      <3>. SUFFICES ASSUME Len(F) = 0 PROVE FALSE
        BY <2>1
      <3>1. Len(F) \in Nat /\ \A i \in 1 .. Len(F) : F[i] % Touched \notin Own
        BY <2>1
      <3>2. Owned(F) = <<>>
        BY <2>1, <3>1, OwnedNone
      <3>3. Owned(F) = Payload(c) /\ Len(Payload(c)) = c.len
        BY <1>2, ContextFacts DEF Form
      <3>4. Len(<<>>) = 0
        OBVIOUS
      <3>. QED BY <3>2, <3>3, <3>4
    <2>3. Lined(plan, T, n, F, p, b)
      BY <1>2, <2>1, <2>2 DEF Lined
    <2>4. Contiguous(Ordered(plan)) /\ PiecesOf(Segments(plan), n, F, b) /\ Segments(plan) # <<>>
      BY <2>3, SegmentsOf
    <2>5. plan.segs # <<>>
      BY <1>2, TilingSome
    <2>6. Pieces(c, plan) = Segments(plan)
      BY <2>4, <2>5 DEF Pieces
    <2>7. n \in Nat /\ Bounds(b, n, Len(F))
      BY <1>2 DEF Tiling
    <2>8. Writing(c, cut, Segments(plan), <<>>)
      BY <1>2, <2>4, <2>7, StreamStarts DEF Divided
    <2>. QED BY <2>6, <2>8
  <1>. QED BY <1>1, <1>2 DEF Good

LEMMA WritingOn ==
    ASSUME NEW c, NEW cut, NEW ps, NEW w, Writing(c, cut, ps, w), ps # <<>>
    PROVE  Writing(c, cut, Tail(ps), w \o Head(ps).data) /\ Head(ps) \in PieceSet
  <1>1. PICK F, n, b, k : Stream(c, cut, ps, w, F, n, b, k)
    BY DEF Writing
  <1>2. /\ Form(c, F) /\ n \in Nat /\ k \in 0 .. n /\ Bounds(b, n, Len(F)) /\ ps \in Seq(PieceSet) /\ Len(ps) = n - k
        /\ \A i \in 1 .. n - k : ps[i].data = Cut(F, b[k + i - 1], b[k + i])
        /\ w = Cut(F, 0, b[k]) /\ (cut => \E j \in 0 .. n : NameAt(c, F, b[j]))
    BY <1>1 DEF Stream
  <1>3. Len(ps) > 0
    BY <1>2
  <1>4. k + 1 \in 0 .. n /\ 1 \in 1 .. n - k /\ n - k \in Nat
    BY <1>2, <1>3
  <1>. DEFINE t == Tail(ps)
              h == Head(ps)
  <1>5. t \in Seq(PieceSet) /\ Len(t) = (n - k) - 1 /\ h \in PieceSet /\ h = ps[1] /\ \A i \in 1 .. (n - k) - 1 : t[i] = ps[i + 1]
    BY <1>2, <1>3
  <1>. HIDE DEF t, h
  <1>6. \A i \in 1 .. n - (k + 1) : t[i].data = Cut(F, b[(k + 1) + i - 1], b[(k + 1) + i])
    <2>. TAKE i \in 1 .. n - (k + 1)
    <2>1. i \in 1 .. (n - k) - 1 /\ i + 1 \in 1 .. n - k /\ k + (i + 1) - 1 = (k + 1) + i - 1 /\ k + (i + 1) = (k + 1) + i
      BY <1>2
    <2>2. t[i] = ps[i + 1]
      BY <1>5, <2>1
    <2>3. ps[i + 1].data = Cut(F, b[k + (i + 1) - 1], b[k + (i + 1)])
      BY <1>2, <2>1, Zenon
    <2>. QED BY <2>1, <2>2, <2>3
  <1>7. w \o h.data = Cut(F, 0, b[k + 1])
    <2>1. k + 1 - 1 = k
      BY <1>2
    <2>2. ps[1].data = Cut(F, b[k + 1 - 1], b[k + 1])
      BY <1>2, <1>4, Zenon
    <2>3. b \in [0 .. n -> 0 .. Len(F)] /\ (b[k] < b[k + 1] \/ Len(F) = 0) /\ F \in Bytes
      <3>1. k < k + 1
        BY <1>2
      <3>. QED BY <1>2, <1>4, <3>1 DEF Bounds, Form
    <2>4. Len(F) \in Nat
      BY <2>3 DEF Bytes
    <2>5. b[k] \in Nat /\ b[k + 1] \in Nat /\ b[k] <= b[k + 1] /\ b[k + 1] <= Len(F)
      BY <1>2, <1>4, <2>3, <2>4
    <2>6. Cut(F, 0, b[k]) \o Cut(F, b[k], b[k + 1]) = Cut(F, 0, b[k + 1])
      BY <2>3, <2>5, CutJoin
    <2>. QED BY <1>2, <1>5, <2>1, <2>2, <2>6
  <1>8. Len(t) = n - (k + 1)
    BY <1>2, <1>5
  <1>9. Stream(c, cut, t, w \o h.data, F, n, b, k + 1)
    BY <1>2, <1>4, <1>5, <1>6, <1>7, <1>8 DEF Stream
  <1>. QED BY <1>5, <1>9 DEF Writing, t, h
(* What was sent is of the request. *)
LEMMA OriginalIs == ASSUME NEW c \in Context, NEW s \in Bytes PROVE Original(s) = Owned(s)
  <1>1. \A i \in 1 .. Len(s) : s[i] % Touched \in Int
    BY ModSeq
  <1>2. DOMAIN s = 1 .. Len(s)
    BY DEF Bytes
  <1>. DEFINE m == [i \in DOMAIN s |-> s[i] % Touched]
              I == {i \in DOMAIN s : s[i] % Touched \notin {0, Header % Touched}}
  <1>3. DOMAIN m = DOMAIN s /\ \A i \in DOMAIN s : m[i] = s[i] % Touched
    OBVIOUS
  <1>4. Original(s) = Chosen(m, I)
    BY DEF Original
  <1>5. Where(m, Own) = I
    <2>. HIDE DEF m
    <2>. DEFINE D == DOMAIN s
    <2>1. Where(m, Own) = {i \in D : m[i] \in Own}
      BY <1>3 DEF Where
    <2>2. \A i \in D : m[i] \in Own <=> s[i] % Touched \notin {0, Header % Touched}
      <3>. TAKE i \in D
      <3>1. m[i] = s[i] % Touched /\ s[i] % Touched \in Int
        BY <1>1, <1>2, <1>3
      <3>. QED BY <3>1, Zenon DEF Own
    <2>. QED BY <2>1, <2>2, Zenon
  <1>6. Owned(s) = Chosen(m, Where(m, Own))
    BY Zenon DEF Owned, Those, Mod
  <1>. QED BY <1>4, <1>5, <1>6
LEMMA PrefixOf == ASSUME NEW S, NEW x \in Seq(S), NEW y \in Seq(S) PROVE IsPrefix(x, x \o y)
  <1>. DEFINE z == x \o y
  <1>1. z \in Seq(S) /\ Len(z) = Len(x) + Len(y) /\ Len(x) \in Nat /\ Len(y) \in Nat
        /\ \A i \in 1 .. Len(x) + Len(y) : z[i] = IF i <= Len(x) THEN x[i] ELSE y[i - Len(x)]
    BY Cat
  <1>. HIDE DEF z
  <1>. DEFINE u == SubSeq(z, 1, Len(x))
  <1>2. u \in Seq(S) /\ Len(u) = Len(x) /\ \A i \in 1 .. Len(x) : u[i] = z[i]
    <2>1. Len(x) <= Len(z)
      BY <1>1
    <2>2. Len(x) \in 0 .. Len(z) /\ 0 \in 0 .. Len(z)
      BY <1>1
    <2>3. IsCut(S, z, 0, Len(x)) /\ Len(x) - 0 = Len(x) /\ \A i \in 1 .. Len(x) : 0 + i = i
      <3>1. 0 \in 0 .. Len(z) /\ Len(x) \in 0 .. Len(z)
        BY <2>2
      <3>2. IsCut(S, z, 0, Len(x))
        BY <1>1, <3>1, CutFacts
      <3>3. Len(x) - 0 = Len(x) /\ \A i \in 1 .. Len(x) : 0 + i = i
        BY <1>1
      <3>. QED BY <3>2, <3>3
    <2>4. Cut(z, 0, Len(x)) = u
      <3>1. 0 + 1 = 1
        OBVIOUS
      <3>. QED BY <3>1, Zenon DEF Cut
    <2>. HIDE DEF u
    <2>. QED BY <2>3, <2>4 DEF IsCut
  <1>. HIDE DEF u
  <1>3. \A i \in 1 .. Len(u) : u[i] = x[i]
    <2>1. \A i \in 1 .. Len(x) : i \in 1 .. Len(x) + Len(y) /\ i <= Len(x)
      BY <1>1
    <2>. QED BY <1>1, <1>2, <2>1
  <1>4. u = x
    BY <1>2, <1>3, SameSeq
  <1>5. Len(x) <= Len(z)
    BY <1>1
  <1>. QED BY <1>4, <1>5 DEF IsPrefix, u, z
(* What is written is a beginning of the request, and all of it when nothing is left. *)
Exactly(c, w, done) ==
    /\ {Fill, Decoy} \cap Range(w) = {} /\ IsPrefix(Original(w), Payload(c))
    /\ (done => Original(w) = Payload(c))
LEMMA WritingOnce ==
    ASSUME NEW c \in Context, NEW cut, NEW ps, NEW w, Writing(c, cut, ps, w)
    PROVE  w \in Bytes /\ ps \in Seq(PieceSet) /\ Exactly(c, w, ps = <<>>)
  <1>1. PICK F, n, b, k : Stream(c, cut, ps, w, F, n, b, k)
    BY DEF Writing
  <1>2. Form(c, F) /\ n \in Nat /\ k \in 0 .. n /\ Bounds(b, n, Len(F)) /\ ps \in Seq(PieceSet) /\ Len(ps) = n - k
        /\ w = Cut(F, 0, b[k])
    BY <1>1 DEF Stream
  <1>3. F \in Bytes /\ F \in Seq(Int) /\ Len(F) \in Nat /\ Owned(F) = Payload(c) /\ Clear(F)
    BY <1>2 DEF Form, Bytes
  <1>4. b[k] \in 0 .. Len(F) /\ b[n] = Len(F)
    BY <1>2 DEF Bounds
  <1>. DEFINE x == b[k]
              rest == Cut(F, x, Len(F))
              m == Len(F)
  <1>. HIDE DEF x, m
  <1>5. IsCut(Int, F, 0, x) /\ IsCut(Int, F, x, m)
    <2>1. 0 \in 0 .. m /\ x \in 0 .. m /\ m \in x .. m
      BY <1>3, <1>4 DEF x, m
    <2>. QED BY <1>3, <2>1, CutFacts DEF m
  <1>6. w = Cut(F, 0, x)
    BY <1>2 DEF x
  <1>7. w \in Seq(Int) /\ Len(w) = x - 0 /\ \A i \in 1 .. x - 0 : w[i] = F[0 + i]
    BY <1>5, <1>6, Zenon DEF IsCut
  <1>8. rest \in Seq(Int)
    BY <1>5, Zenon DEF IsCut, m
  <1>. HIDE DEF rest
  <1>9. \A i \in 1 .. Len(w) : w[i] # Fill /\ w[i] # Decoy
    <2>. TAKE i \in 1 .. Len(w)
    <2>1. x \in 0 .. Len(F)
      BY <1>4 DEF x
    <2>2. i \in 1 .. x - 0 /\ i \in 1 .. Len(F) /\ 0 + i = i
      BY <1>3, <1>7, <2>1
    <2>3. w[i] = F[i]
      BY <1>7, <2>2
    <2>4. F[i] >= 1 \/ F[i] = Header
      BY <1>3, <2>2, Zenon DEF Clear
    <2>5. F[i] \in Int
      BY <1>3, <2>2
    <2>. QED BY <2>3, <2>4, <2>5 DEF Fill, Decoy, Header
  <1>10. {Fill, Decoy} \cap Range(w) = {}
    <2>1. DOMAIN w = 1 .. Len(w)
      BY <1>7
    <2>. QED BY <1>9, <2>1 DEF Range
  <1>11. w \o rest = F
    <2>1. x \in Nat /\ m \in Nat /\ x <= m /\ m <= Len(F)
      BY <1>3, <1>4 DEF x, m
    <2>2. Cut(F, 0, x) \o Cut(F, x, m) = Cut(F, 0, m)
      BY <1>3, <2>1, CutJoin
    <2>3. Cut(F, 0, m) = F
      BY <1>3, CutWhole DEF m
    <2>. QED BY <1>6, <2>2, <2>3 DEF rest, m
  <1>12. w \in Bytes /\ rest \in Bytes
    BY <1>7, <1>8 DEF Bytes
  <1>13. Owned(w) \o Owned(rest) = Payload(c) /\ Original(w) = Owned(w)
    <2>1. Owned(w \o rest) = Owned(w) \o Owned(rest)
      BY <1>12, ModConcat
    <2>. QED BY <1>3, <1>11, <1>12, <2>1, OriginalIs
  <1>14. Owned(w) \in Seq(Int) /\ Owned(rest) \in Seq(Int)
    <2>1. Mod(w) \in Seq(Int) /\ Mod(rest) \in Seq(Int)
      BY <1>12, ModSeq
    <2>. QED BY <2>1, ThoseFacts DEF Owned
  <1>15. IsPrefix(Original(w), Payload(c))
    BY <1>13, <1>14, PrefixOf
  <1>16. ASSUME ps = <<>> PROVE Original(w) = Payload(c)
    <2>1. Len(ps) = 0
      BY <1>16
    <2>2. k = n
      BY <1>2, <2>1
    <2>3. w = F
      BY <1>2, <1>3, <1>4, <2>2, CutWhole
    <2>. QED BY <1>3, <1>13, <2>3
  <1>. QED BY <1>2, <1>10, <1>12, <1>15, <1>16 DEF Exactly
(* No piece of a request cut inside its name has all of it. *)
LEMMA WritingCuts ==
    ASSUME NEW c \in Context, NEW ps, NEW w, Writing(c, TRUE, ps, w), NEW i \in DOMAIN ps
    PROVE  ~({c.sld + 1, c.sld + c.sldLen} \subseteq Range(Original(ps[i].data)))
  <1>1. PICK F, n, b, k : Stream(c, TRUE, ps, w, F, n, b, k)
    BY DEF Writing
  <1>2. /\ Form(c, F) /\ n \in Nat /\ k \in 0 .. n /\ Bounds(b, n, Len(F)) /\ ps \in Seq(PieceSet) /\ Len(ps) = n - k
        /\ \A x \in 1 .. n - k : ps[x].data = Cut(F, b[k + x - 1], b[k + x])
        /\ \E j \in 0 .. n : NameAt(c, F, b[j])
    BY <1>1 DEF Stream
  <1>3. F \in Bytes /\ F \in Seq(Int) /\ Len(F) \in Nat
    BY <1>2 DEF Form, Bytes
  <1>4. i \in 1 .. n - k /\ k + i - 1 \in 0 .. n /\ k + i \in 0 .. n
    BY <1>2, SMTT(30)
  <1>. DEFINE e == k + i
              d == k + i - 1
              s == Cut(F, b[d], b[e])
  <1>5. ps[i].data = s
    BY <1>2, <1>4
  <1>6. d \in 0 .. n /\ e \in 0 .. n /\ d = e - 1
    BY <1>2, <1>4
  <1>. HIDE DEF d, e
  <1>7. PICK j \in 0 .. n : NameAt(c, F, b[j])
    BY <1>2
  <1>8. b \in [0 .. n -> 0 .. Len(F)] /\ \A x, y \in 0 .. n : x < y => b[x] < b[y] \/ Len(F) = 0
    BY <1>2 DEF Bounds
  <1>9. b[d] \in Nat /\ b[e] \in Nat /\ b[j] \in Nat /\ b[d] <= Len(F) /\ b[e] <= Len(F) /\ b[d] <= b[e]
        /\ (b[j] <= b[d] \/ b[e] <= b[j])
    <2>1. b[d] \in 0 .. Len(F) /\ b[e] \in 0 .. Len(F) /\ b[j] \in 0 .. Len(F)
      BY <1>6, <1>8
    <2>2. d < e
      BY <1>6
    <2>3. b[d] < b[e] \/ Len(F) = 0
      BY <1>6, <1>8, <2>2
    <2>4. j <= d \/ e <= j
      BY <1>6
    <2>5. j = d \/ b[j] < b[d] \/ Len(F) = 0 \/ j = e \/ b[e] < b[j]
      <3>1. j = d \/ j < d \/ j = e \/ e < j
        BY <1>6, <2>4
      <3>. QED BY <1>6, <1>8, <3>1
    <2>. QED BY <1>3, <2>1, <2>3, <2>5
  <1>10. IsCut(Int, F, b[d], b[e])
    <2>1. b[d] \in 0 .. Len(F) /\ b[e] \in b[d] .. Len(F)
      BY <1>3, <1>9
    <2>. QED BY <1>3, <2>1, CutFacts
  <1>11. s \in Seq(Int) /\ Len(s) = b[e] - b[d] /\ \A x \in 1 .. b[e] - b[d] : s[x] = F[b[d] + x]
    BY <1>10, Zenon DEF IsCut
  <1>. HIDE DEF s
  <1>12. s \in Bytes /\ DOMAIN s = 1 .. Len(s)
    BY <1>11 DEF Bytes
  <1>13. \A y \in 1 .. Len(F) : IF y <= b[j] THEN F[y] % Touched # c.sld + c.sldLen ELSE F[y] % Touched # c.sld + 1
    BY <1>7, Zenon DEF NameAt
  <1>14. \/ \A x \in 1 .. Len(s) : s[x] % Touched # c.sld + c.sldLen
         \/ \A x \in 1 .. Len(s) : s[x] % Touched # c.sld + 1
    <2>1. CASE b[e] <= b[j]
      <3>1. ASSUME NEW x \in 1 .. Len(s) PROVE s[x] % Touched # c.sld + c.sldLen
        <4>1. x \in 1 .. b[e] - b[d] /\ b[d] + x \in 1 .. Len(F) /\ b[d] + x <= b[j]
          <5>. DEFINE u == b[d]
                      v == b[e]
                      z == b[j]
                      m == Len(F)
          <5>1. u \in Nat /\ v \in Nat /\ z \in Nat /\ m \in Nat /\ v <= m /\ u <= v /\ v <= z
            BY <1>3, <1>9, <2>1
          <5>2. x \in 1 .. v - u
            BY <1>11
          <5>. HIDE DEF u, v, z, m
          <5>3. x \in 1 .. v - u /\ u + x \in 1 .. m /\ u + x <= z
            BY <5>1, <5>2
          <5>. QED BY <5>3 DEF u, v, z, m
        <4>2. s[x] = F[b[d] + x]
          BY <1>11, <4>1, Zenon
        <4>. DEFINE y == b[d] + x
        <4>. HIDE DEF y
        <4>3. y \in 1 .. Len(F) /\ y <= b[j] /\ s[x] = F[y]
          BY <4>1, <4>2 DEF y
        <4>4. F[y] % Touched # c.sld + c.sldLen
          BY <1>13, <4>3, Zenon
        <4>. QED BY <4>3, <4>4, Zenon
      <3>. QED BY <3>1
    <2>2. CASE b[j] <= b[d]
      <3>1. ASSUME NEW x \in 1 .. Len(s) PROVE s[x] % Touched # c.sld + 1
        <4>1. x \in 1 .. b[e] - b[d] /\ b[d] + x \in 1 .. Len(F) /\ ~(b[d] + x <= b[j])
          <5>. DEFINE u == b[d]
                      v == b[e]
                      z == b[j]
                      m == Len(F)
          <5>1. u \in Nat /\ v \in Nat /\ z \in Nat /\ m \in Nat /\ v <= m /\ u <= v /\ z <= u
            BY <1>3, <1>9, <2>2
          <5>2. x \in 1 .. v - u
            BY <1>11
          <5>. HIDE DEF u, v, z, m
          <5>3. x \in 1 .. v - u /\ u + x \in 1 .. m /\ ~(u + x <= z)
            BY <5>1, <5>2
          <5>. QED BY <5>3 DEF u, v, z, m
        <4>2. s[x] = F[b[d] + x]
          BY <1>11, <4>1, Zenon
        <4>. DEFINE y == b[d] + x
        <4>. HIDE DEF y
        <4>3. y \in 1 .. Len(F) /\ ~(y <= b[j]) /\ s[x] = F[y]
          BY <4>1, <4>2 DEF y
        <4>4. F[y] % Touched # c.sld + 1
          BY <1>13, <4>3, Zenon
        <4>. QED BY <4>3, <4>4, Zenon
      <3>. QED BY <3>1
    <2>. QED BY <1>9, <2>1, <2>2
  <1>15. ASSUME NEW y \in Range(Original(s)) PROVE \E x \in 1 .. Len(s) : y = s[x] % Touched
    <2>1. Original(s) = Those(Mod(s), Own)
      BY <1>12, OriginalIs DEF Owned
    <2>. DEFINE o == Those(Mod(s), Own)
                a == Ascending(Where(Mod(s), Own))
    <2>2. Mod(s) \in Seq(Int) /\ Len(Mod(s)) = Len(s) /\ \A x \in 1 .. Len(s) : Mod(s)[x] = s[x] % Touched
      BY <1>12, ModSeq
    <2>3. o \in Seq(Int) /\ Picked(Mod(s), Own, o, a)
      BY <2>2, ThoseFacts
    <2>. HIDE DEF o, a
    <2>4. PICK q \in 1 .. Len(o) : y = o[q]
      BY <2>1, <2>3 DEF Range, o
    <2>5. a[q] \in 1 .. Len(s) /\ o[q] = Mod(s)[a[q]]
      BY <2>2, <2>3, <2>4 DEF Picked
    <2>. QED BY <2>2, <2>4, <2>5
  <1>16. c.sld + c.sldLen \notin Range(Original(s)) \/ c.sld + 1 \notin Range(Original(s))
    BY <1>14, <1>15, Zenon
  <1>. QED BY <1>5, <1>16

(***************************************************************************)
(* The records of the relays.                                              *)
(***************************************************************************)
Stages == {"none", "lookup", "dial", "first", "write", "splice", "gone"}
RecSet ==
    [at: Stages, req: Requests \cup {NoRequest}, plan: Plans \cup {NoPlan}, pieces: Seq(PieceSet), ttl: {"real", "one"},
     known: BOOLEAN, wrote: Bytes, offered: [Dirs -> Nat], copied: [Dirs -> Nat], fin: [Dirs -> BOOLEAN],
     copy: [Dirs -> {"none", "run", "closed", "failed"}], quiet: Nat, expired: BOOLEAN]
(* The profile cuts the request inside the name. *)
Asks(c, plan) ==
    LET ops == plan.ops
    IN  /\ Len(Splits(ops)) = 1 /\ Splits(ops)[1].ovl = 0 /\ Splits(ops)[1].pos # <<>>
        /\ Splits(ops)[1].pos[1] = [m |-> "midsld", off |-> 0]
        /\ ~Refused(ops, c, plan.unsupported) /\ \A i \in DOMAIN ops : ops[i].op # "block"
        /\ Splits(ops)[1].op = "multisplit" /\ c.sld > 0 /\ c.sldLen >= 2
LEMMA CuttingIs == ASSUME NEW r PROVE Cutting(r) <=> Asks(conn[r].req, conn[r].plan)
  BY Zenon DEF Cutting, Asks, Splits
LEMMA RequestFacts ==
    ASSUME NEW c \in Requests
    PROVE  c \in Context /\ c.caps = ProxyCaps /\ ~c.udp /\ c.len > 0
  BY RelayAssumption
LEMMA PlanFacts ==
    ASSUME NEW p \in Plans
    PROVE  p.ops \in Seq(Operation)
  BY RelayAssumption DEF Profile
LEMMA AsksIs ==
    ASSUME NEW c \in Requests, NEW p, Asks(c, p)
    PROVE  OneCut(p.ops, c)
  <1>. DEFINE o == Splits(p.ops)[1]
  <1>1. /\ Len(Splits(p.ops)) = 1 /\ o.ovl = 0 /\ o.pos # <<>> /\ o.pos[1] = [m |-> "midsld", off |-> 0]
        /\ o.op = "multisplit" /\ c.sld > 0 /\ c.sldLen >= 2
    BY Zenon DEF Asks
  <1>. HIDE DEF o
  <1>2. Supported(o, c)
    <2>1. Requires(o) = {"segment", "drop"}
      BY <1>1, Zenon DEF Requires
    <2>2. c.caps = {"segment", "tlsrec", "drop"}
      BY RequestFacts DEF ProxyCaps
    <2>. QED BY <2>1, <2>2 DEF Supported
  <1>3. Named(o, c)
    BY <1>1 DEF Named, Specs, Name
  <1>4. Cutter(c, o)
    BY <1>1, <1>2, <1>3 DEF Cutter
  <1>. QED BY <1>1, <1>4 DEF OneCut, o
(* What a relay has read is written as its plan says. *)
LEMMA Planning ==
    ASSUME NEW c \in Requests, NEW p \in Plans
    PROVE  Writing(c, Asks(c, p), Pieces(c, Run(p.ops, c, p.unsupported)), <<>>)
  <1>. DEFINE plan == Run(p.ops, c, p.unsupported)
              T == TTLs(p.ops, c)
  <1>1. c \in Context /\ c.len > 0 /\ p.ops \in Seq(Operation)
    BY RequestFacts, PlanFacts
  <1>2. SegsLawful(c, T, Asks(c, p), plan.segs)
    <2>1. CASE Asks(c, p)
      <3>1. OneCut(p.ops, c)
        BY <2>1, AsksIs
      <3>2. SegsLawful(c, T, TRUE, plan.segs)
        BY <1>1, <3>1, RunCut
      <3>. QED BY <2>1, <3>2 DEF SegsLawful, Good, Divided
    <2>2. CASE ~Asks(c, p)
      <3>1. Whole(c, T, Blocking(p.ops), plan)
        BY <1>1, PlanHoldsPayload
      <3>2. SegsLawful(c, T, FALSE, plan.segs)
        BY <3>1 DEF Whole
      <3>. QED BY <2>2, <3>2 DEF SegsLawful, Good, Divided
    <2>. QED BY <2>1, <2>2
  <1>3. plan.segs \in UnitSeq(T) /\ Good(c, DataOf(plan.segs), Asks(c, p))
    BY <1>2 DEF SegsLawful
  <1>. HIDE DEF plan
  <1>4. Writing(c, Asks(c, p), Pieces(c, plan), <<>>)
    BY <1>1, <1>3, PiecesIs
  <1>. QED BY <1>4 DEF plan
LEMMA NotAsked ==
    ASSUME NEW c \in Requests, NEW p \in Plans, p.ops = <<>> \/ Refused(p.ops, c, p.unsupported)
    PROVE  Writing(c, Asks(c, p), Verbatim(c), <<>>)
  <1>1. ~Asks(c, p)
    <2>1. CASE p.ops = <<>>
      <3>1. Cardinality({}) = 0 /\ {i \in DOMAIN p.ops : Phase(p.ops[i]) = 2} = {}
        BY <2>1, FS_EmptySet
      <3>2. Splits(p.ops) = [k \in 1 .. 0 |-> p.ops[Ascending({})[k]]]
        BY <3>1, Zenon DEF Splits, Chosen
      <3>3. Len(Splits(p.ops)) = 0
        BY <3>2
      <3>. QED BY <3>3 DEF Asks
    <2>2. CASE Refused(p.ops, c, p.unsupported)
      BY <2>2, Zenon DEF Asks
    <2>. QED BY <2>1, <2>2
  <1>2. Writing(c, FALSE, Verbatim(c), <<>>)
    BY RequestFacts, VerbatimIs
  <1>. QED BY <1>1, <1>2 DEF Writing, Stream

(* A relay that writes has what is left of its request; any other has written *)
(* nothing. A TTL that could be read is the socket's after each write.        *)
Sound(rec) ==
    /\ rec \in RecSet
    /\ rec.at # "write" => rec.wrote = <<>> /\ rec.req = NoRequest
    /\ rec.at = "write" => /\ rec.req \in Requests /\ rec.plan \in Plans
                           /\ Writing(rec.req, Asks(rec.req, rec.plan), rec.pieces, rec.wrote)
    /\ rec.known \/ rec.at \in {"none", "lookup", "dial"} => rec.ttl = "real"
LEMMA IdleSound ==
    ASSUME NEW where \in Stages \ {"write"}
    PROVE  Idle.at = "none" /\ Sound(Idle) /\ Sound([Idle EXCEPT !.at = where]) /\ [Idle EXCEPT !.at = where].at = where
  <1>1. <<>> \in Bytes /\ <<>> \in Seq(PieceSet)
    BY DEF Bytes
  <1>2. Idle \in RecSet /\ Idle.at = "none" /\ Idle.wrote = <<>> /\ Idle.req = NoRequest /\ Idle.ttl = "real"
    BY <1>1 DEF Idle, RecSet, Stages
  <1>. DEFINE e == [Idle EXCEPT !.at = where]
  <1>3. e \in RecSet /\ e.at = where /\ e.wrote = <<>> /\ e.req = NoRequest /\ e.ttl = "real"
    BY <1>2 DEF RecSet, Stages
  <1>. HIDE DEF e
  <1>4. Sound(e)
    BY <1>3 DEF Sound
  <1>5. Sound(Idle)
    BY <1>2 DEF Sound
  <1>. QED BY <1>2, <1>3, <1>4, <1>5 DEF e
LEMMA GotoSound ==
    ASSUME NEW rec, Sound(rec), rec.at # "write", NEW where \in Stages \ {"write"},
           where \in {"none", "lookup", "dial"} => rec.ttl = "real"
    PROVE  Sound([rec EXCEPT !.at = where]) /\ [rec EXCEPT !.at = where].at = where
  <1>. DEFINE e == [rec EXCEPT !.at = where]
  <1>1. rec \in RecSet /\ rec.wrote = <<>> /\ rec.req = NoRequest /\ (rec.known => rec.ttl = "real")
    BY DEF Sound
  <1>2. e \in RecSet /\ e.at = where /\ e.wrote = rec.wrote /\ e.req = rec.req /\ e.ttl = rec.ttl /\ e.known = rec.known
    BY <1>1 DEF RecSet, Stages
  <1>. HIDE DEF e
  <1>3. Sound(e)
    BY <1>1, <1>2 DEF Sound
  <1>. QED BY <1>2, <1>3 DEF e
LEMMA DialSound ==
    ASSUME NEW rec, Sound(rec), rec.at = "dial", NEW known \in BOOLEAN
    PROVE  LET e == [rec EXCEPT !.at = "first", !.known = known] IN Sound(e) /\ e.at = "first"
  <1>. DEFINE e == [rec EXCEPT !.at = "first", !.known = known]
  <1>1. rec \in RecSet /\ rec.wrote = <<>> /\ rec.req = NoRequest /\ rec.ttl = "real"
    BY DEF Sound
  <1>2. e \in RecSet /\ e.at = "first" /\ e.wrote = rec.wrote /\ e.req = rec.req /\ e.ttl = rec.ttl
    BY <1>1 DEF RecSet, Stages
  <1>. HIDE DEF e
  <1>3. Sound(e)
    BY <1>1, <1>2 DEF Sound
  <1>. QED BY <1>2, <1>3 DEF e
Reading(rec, c, p, ps) == [[rec EXCEPT !.req = c, !.plan = p] EXCEPT !.at = "write", !.pieces = ps]
LEMMA ReadSound ==
    ASSUME NEW rec, Sound(rec), rec.at = "first", NEW c \in Requests, NEW p \in Plans, NEW ps, Writing(c, Asks(c, p), ps, <<>>)
    PROVE  Sound(Reading(rec, c, p, ps)) /\ Reading(rec, c, p, ps).at = "write"
  <1>. DEFINE d == [rec EXCEPT !.req = c, !.plan = p]
              e == [d EXCEPT !.at = "write", !.pieces = ps]
  <1>1. rec \in RecSet /\ rec.wrote = <<>> /\ (rec.known => rec.ttl = "real")
    BY DEF Sound
  <1>2. ps \in Seq(PieceSet)
    BY RequestFacts, WritingOnce
  <1>3. d \in RecSet /\ d.wrote = rec.wrote /\ d.req = c /\ d.plan = p /\ d.ttl = rec.ttl /\ d.known = rec.known
    BY <1>1 DEF RecSet
  <1>. HIDE DEF d
  <1>4. /\ e \in RecSet /\ e.at = "write" /\ e.pieces = ps /\ e.wrote = d.wrote /\ e.req = d.req /\ e.plan = d.plan
        /\ e.ttl = d.ttl /\ e.known = d.known
    BY <1>2, <1>3 DEF RecSet, Stages
  <1>. HIDE DEF e
  <1>5. Sound(e)
    BY <1>1, <1>3, <1>4 DEF Sound
  <1>6. Reading(rec, c, p, ps) = e
    BY DEF Reading, e, d
  <1>. QED BY <1>4, <1>5, <1>6

(* What copying starts with. *)
Copying(rec) ==
    [Idle EXCEPT !.at = "splice", !.ttl = rec.ttl, !.known = rec.known, !.copy = [d \in Dirs |-> "run"]]
LEMMA CopyingSound ==
    ASSUME NEW rec, Sound(rec)
    PROVE  Sound(Copying(rec)) /\ Copying(rec).at = "splice"
  <1>. DEFINE i == Idle
              e == [i EXCEPT !.at = "splice", !.ttl = rec.ttl, !.known = rec.known, !.copy = [d \in Dirs |-> "run"]]
  <1>1. rec.ttl \in {"real", "one"} /\ rec.known \in BOOLEAN /\ (rec.known => rec.ttl = "real")
    BY DEF Sound, RecSet
  <1>2. i \in RecSet /\ i.wrote = <<>> /\ i.req = NoRequest
    <2>1. "gone" \in Stages \ {"write"}
      BY DEF Stages
    <2>2. Sound(i) /\ i.at = "none"
      BY <2>1, IdleSound
    <2>. QED BY <2>2 DEF Sound
  <1>. HIDE DEF i
  <1>3. e \in RecSet /\ e.at = "splice" /\ e.wrote = i.wrote /\ e.req = i.req /\ e.ttl = rec.ttl /\ e.known = rec.known
    BY <1>1, <1>2 DEF RecSet, Stages
  <1>4. e = Copying(rec)
    BY DEF Copying, i
  <1>. HIDE DEF e
  <1>5. Sound(e)
    BY <1>1, <1>2, <1>3 DEF Sound
  <1>. QED BY <1>3, <1>4, <1>5
(* A piece that was written: the TTL is lowered before it and set back after it. *)
Lowered(rec, low) == IF low THEN SetTTL(rec, "one") ELSE rec
Restored(rec, low) == IF low THEN SetTTL(rec, "real") ELSE rec
LEMMA TTLFields ==
    ASSUME NEW rec \in RecSet, NEW ttl \in {"real", "one"}
    PROVE  LET e == SetTTL(rec, ttl)
           IN  /\ e \in RecSet /\ e.at = rec.at /\ e.req = rec.req /\ e.plan = rec.plan /\ e.pieces = rec.pieces
               /\ e.wrote = rec.wrote /\ e.known = rec.known
               /\ (ttl = "real" /\ rec.known => e.ttl = "real")
  <1>. DEFINE e == [rec EXCEPT !.ttl = ttl]
  <1>1. /\ e \in RecSet /\ e.at = rec.at /\ e.req = rec.req /\ e.plan = rec.plan /\ e.pieces = rec.pieces
        /\ e.wrote = rec.wrote /\ e.known = rec.known /\ e.ttl = ttl
    BY DEF RecSet
  <1>2. SetTTL(rec, ttl) = IF ttl = "real" /\ ~rec.known THEN rec ELSE e
    BY DEF SetTTL
  <1>. HIDE DEF e
  <1>. QED BY <1>1, <1>2
LEMMA SentFields ==
    ASSUME NEW rec \in RecSet, rec.pieces # <<>>, NEW piece, piece = Head(rec.pieces)
    PROVE  LET e == Sent(rec, piece)
           IN  /\ e \in RecSet /\ e.at = rec.at /\ e.req = rec.req /\ e.plan = rec.plan /\ e.pieces = Tail(rec.pieces)
               /\ e.wrote = rec.wrote \o piece.data /\ e.known = rec.known /\ e.ttl = rec.ttl
  <1>. DEFINE w == rec.wrote \o piece.data
              t == Tail(rec.pieces)
              e == [rec EXCEPT !.wrote = w, !.pieces = t]
  <1>1. rec.pieces \in Seq(PieceSet) /\ rec.wrote \in Bytes
    BY DEF RecSet
  <1>2. t \in Seq(PieceSet) /\ piece \in PieceSet
    BY <1>1
  <1>3. w \in Bytes
    <2>1. piece.data \in Bytes
      BY <1>2 DEF PieceSet
    <2>. QED BY <1>1, <2>1, CatBytes DEF Catted
  <1>4. Sent(rec, piece) = e
    BY DEF Sent
  <1>. HIDE DEF w, t
  <1>5. /\ e \in RecSet /\ e.at = rec.at /\ e.req = rec.req /\ e.plan = rec.plan /\ e.pieces = t
        /\ e.wrote = w /\ e.known = rec.known /\ e.ttl = rec.ttl
    BY <1>2, <1>3 DEF RecSet
  <1>. HIDE DEF e
  <1>. QED BY <1>4, <1>5 DEF w, t
LEMMA WriteSound ==
    ASSUME NEW rec, Sound(rec), rec.at = "write", rec.pieces # <<>>, NEW low \in BOOLEAN
    PROVE  LET e == Restored(Sent(Lowered(rec, low), Head(rec.pieces)), low) IN Sound(e) /\ e.at = "write"
  <1>. DEFINE d == Lowered(rec, low)
              piece == Head(rec.pieces)
              s == Sent(d, piece)
              e == Restored(s, low)
  <1>1. /\ rec \in RecSet /\ rec.req \in Requests /\ rec.plan \in Plans /\ (rec.known => rec.ttl = "real")
        /\ Writing(rec.req, Asks(rec.req, rec.plan), rec.pieces, rec.wrote)
    BY DEF Sound
  <1>2. /\ d \in RecSet /\ d.at = rec.at /\ d.req = rec.req /\ d.plan = rec.plan /\ d.pieces = rec.pieces
        /\ d.wrote = rec.wrote /\ d.known = rec.known /\ (low \/ d = rec)
    <2>1. "one" \in {"real", "one"}
      OBVIOUS
    <2>2. CASE low
      BY <1>1, <2>1, <2>2, TTLFields, Zenon DEF Lowered
    <2>3. CASE ~low
      BY <1>1, <2>3, Zenon DEF Lowered
    <2>. QED BY <2>2, <2>3
  <1>. HIDE DEF d
  <1>3. /\ s \in RecSet /\ s.at = d.at /\ s.req = d.req /\ s.plan = d.plan /\ s.pieces = Tail(d.pieces)
        /\ s.wrote = d.wrote \o piece.data /\ s.known = d.known /\ s.ttl = d.ttl
    BY <1>2, SentFields
  <1>. HIDE DEF s
  <1>4. /\ e \in RecSet /\ e.at = s.at /\ e.req = s.req /\ e.plan = s.plan /\ e.pieces = s.pieces
        /\ e.wrote = s.wrote /\ e.known = s.known /\ (e.known => e.ttl = "real")
    <2>1. "real" \in {"real", "one"}
      OBVIOUS
    <2>2. CASE low
      BY <1>3, <2>1, <2>2, TTLFields, Zenon DEF Restored
    <2>3. CASE ~low
      BY <1>1, <1>2, <1>3, <2>3, Zenon DEF Restored
    <2>. QED BY <2>2, <2>3
  <1>. HIDE DEF e
  <1>5. Writing(rec.req, Asks(rec.req, rec.plan), Tail(rec.pieces), rec.wrote \o piece.data)
    BY <1>1, WritingOn
  <1>6. Sound(e) /\ e.at = "write"
    BY <1>1, <1>2, <1>3, <1>4, <1>5 DEF Sound
  <1>. QED BY <1>6 DEF e, s, d
(* What copying changes. *)
Moved(rec, e) ==
    /\ e \in RecSet /\ e.at = rec.at /\ e.wrote = rec.wrote /\ e.req = rec.req /\ e.ttl = rec.ttl /\ e.known = rec.known
LEMMA MovedSound ==
    ASSUME NEW rec, Sound(rec), rec.at = "splice", NEW e, Moved(rec, e)
    PROVE  Sound(e) /\ e.at = "splice"
  BY DEF Sound, Moved
LEMMA SpliceMoves ==
    ASSUME NEW rec \in RecSet, NEW d \in Dirs
    PROVE  /\ Moved(rec, [rec EXCEPT !.offered[d] = @ + 1]) /\ Moved(rec, [rec EXCEPT !.fin[d] = TRUE])
           /\ Moved(rec, [rec EXCEPT !.copied[d] = @ + 1, !.quiet = 0])
           /\ Moved(rec, [rec EXCEPT !.copy[d] = "closed"]) /\ Moved(rec, [rec EXCEPT !.copy[d] = "failed"])
  <1>1. /\ rec.offered \in [Dirs -> Nat] /\ rec.copied \in [Dirs -> Nat] /\ rec.fin \in [Dirs -> BOOLEAN]
        /\ rec.copy \in [Dirs -> {"none", "run", "closed", "failed"}]
    BY DEF RecSet
  <1>2. Moved(rec, [rec EXCEPT !.offered[d] = @ + 1])
    <2>. DEFINE v == [rec.offered EXCEPT ![d] = @ + 1]
                e == [rec EXCEPT !.offered = v]
    <2>1. v \in [Dirs -> Nat]
      BY <1>1
    <2>. HIDE DEF v
    <2>2. Moved(rec, e)
      BY <2>1 DEF Moved, RecSet
    <2>. QED BY <2>2 DEF v
  <1>3. Moved(rec, [rec EXCEPT !.fin[d] = TRUE])
    <2>. DEFINE v == [rec.fin EXCEPT ![d] = TRUE]
                e == [rec EXCEPT !.fin = v]
    <2>1. v \in [Dirs -> BOOLEAN]
      BY <1>1
    <2>. HIDE DEF v
    <2>2. Moved(rec, e)
      BY <2>1 DEF Moved, RecSet
    <2>. QED BY <2>2 DEF v
  <1>4. Moved(rec, [rec EXCEPT !.copied[d] = @ + 1, !.quiet = 0])
    <2>. DEFINE v == [rec.copied EXCEPT ![d] = @ + 1]
                e == [rec EXCEPT !.copied = v, !.quiet = 0]
    <2>1. v \in [Dirs -> Nat]
      BY <1>1
    <2>. HIDE DEF v
    <2>2. Moved(rec, e)
      BY <2>1 DEF Moved, RecSet
    <2>. QED BY <2>2 DEF v
  <1>5. ASSUME NEW how \in {"closed", "failed"} PROVE Moved(rec, [rec EXCEPT !.copy[d] = how])
    <2>. DEFINE v == [rec.copy EXCEPT ![d] = how]
                e == [rec EXCEPT !.copy = v]
    <2>1. v \in [Dirs -> {"none", "run", "closed", "failed"}]
      BY <1>1
    <2>. HIDE DEF v
    <2>2. Moved(rec, e)
      BY <2>1 DEF Moved, RecSet
    <2>. QED BY <2>2 DEF v
  <1>. QED BY <1>2, <1>3, <1>4, <1>5
LEMMA TickMoves ==
    ASSUME NEW rec \in RecSet
    PROVE  /\ Moved(rec, [rec EXCEPT !.expired = TRUE]) /\ Moved(rec, [rec EXCEPT !.quiet = @ + 1])
  <1>1. Moved(rec, [rec EXCEPT !.expired = TRUE])
    BY DEF Moved, RecSet
  <1>2. Moved(rec, [rec EXCEPT !.quiet = @ + 1])
    <2>. DEFINE v == rec.quiet + 1
                e == [rec EXCEPT !.quiet = v]
    <2>1. v \in Nat
      BY DEF RecSet
    <2>. HIDE DEF v
    <2>2. Moved(rec, e)
      BY <2>1 DEF Moved, RecSet
    <2>. QED BY <2>2 DEF v
  <1>. QED BY <1>1, <1>2

(***************************************************************************)
(* Every step of the relays keeps that.                                    *)
(***************************************************************************)
Live(rec) == rec.at \notin {"none", "gone"}
Pooled == {r \in Clients : Live(conn[r])}
RelayInv ==
    /\ conn \in [Clients -> RecSet] /\ \A r \in Clients : Sound(conn[r])
    /\ slots = Cardinality(Pooled) /\ slots <= MaxConns
LEMMA PoolFinite == IsFiniteSet(Pooled) /\ Cardinality(Pooled) \in Nat /\ MaxConns \in Nat
  <1>1. IsFiniteSet(Clients) /\ Pooled \subseteq Clients
    BY RelayAssumption DEF Pooled
  <1>2. IsFiniteSet(Pooled)
    BY <1>1, FS_Subset
  <1>. QED BY <1>2, FS_CardinalityType, RelayAssumption
LEMMA InitRelay == RelayInit => RelayInv
  <1>. SUFFICES ASSUME RelayInit PROVE RelayInv
    OBVIOUS
  <1>1. "gone" \in Stages \ {"write"}
    BY DEF Stages
  <1>2. Sound(Idle) /\ Idle.at = "none" /\ Idle \in RecSet
    BY <1>1, IdleSound DEF Sound
  <1>3. conn \in [Clients -> RecSet] /\ \A r \in Clients : conn[r] = Idle
    BY <1>2 DEF RelayInit
  <1>4. Pooled = {}
    BY <1>2, <1>3 DEF Pooled, Live
  <1>5. slots = Cardinality(Pooled) /\ slots <= MaxConns
    BY <1>4, FS_EmptySet, PoolFinite DEF RelayInit
  <1>. QED BY <1>2, <1>3, <1>5 DEF RelayInv
(* A relay's record is another. *)
LEMMA SetRecords ==
    ASSUME RelayInv, NEW r \in Clients, NEW rec, Sound(rec), Set(r, rec)
    PROVE  /\ conn' \in [Clients -> RecSet] /\ (\A x \in Clients : Sound(conn'[x])) /\ conn'[r] = rec
           /\ \A x \in Clients : x # r => conn'[x] = conn[x]
  <1>1. conn' = [conn EXCEPT ![r] = rec] /\ conn \in [Clients -> RecSet] /\ (\A x \in Clients : Sound(conn[x]))
    BY DEF Set, RelayInv
  <1>2. rec \in RecSet
    BY DEF Sound
  <1>3. conn' \in [Clients -> RecSet] /\ conn'[r] = rec /\ \A x \in Clients : x # r => conn'[x] = conn[x]
    BY <1>1, <1>2
  <1>4. \A x \in Clients : Sound(conn'[x])
    <2>. TAKE x \in Clients
    <2>1. CASE x = r
      BY <1>3, <2>1, Zenon
    <2>2. CASE x # r
      BY <1>1, <1>3, <2>2, Zenon
    <2>. QED BY <2>1, <2>2
  <1>. QED BY <1>3, <1>4
LEMMA SetKeeps ==
    ASSUME RelayInv, NEW r \in Clients, NEW rec, Sound(rec), Live(rec) <=> Live(conn[r]), Set(r, rec), Same
    PROVE  RelayInv'
  <1>1. /\ conn' \in [Clients -> RecSet] /\ (\A x \in Clients : Sound(conn'[x])) /\ conn'[r] = rec
        /\ \A x \in Clients : x # r => conn'[x] = conn[x]
    BY SetRecords
  <1>2. \A x \in Clients : Live(conn'[x]) <=> Live(conn[x])
    <2>. TAKE x \in Clients
    <2>1. CASE x = r
      BY <1>1, <2>1, Zenon
    <2>2. CASE x # r
      BY <1>1, <2>2, Zenon
    <2>. QED BY <2>1, <2>2
  <1>3. Pooled' = Pooled
    BY <1>2, Zenon DEF Pooled
  <1>4. slots' = slots /\ slots = Cardinality(Pooled) /\ slots <= MaxConns
    BY DEF Same, RelayInv
  <1>5. slots' = Cardinality(Pooled') /\ slots' <= MaxConns
    BY <1>3, <1>4
  <1>. QED BY <1>1, <1>5 DEF RelayInv
LEMMA LeaveKeeps ==
    ASSUME RelayInv, NEW r \in Clients, Live(conn[r]), Leave(r)
    PROVE  RelayInv'
  <1>. DEFINE rec == [Idle EXCEPT !.at = "gone"]
  <1>1. Sound(rec) /\ ~Live(rec)
    <2>1. "gone" \in Stages \ {"write"}
      BY DEF Stages
    <2>2. Sound(rec) /\ rec.at = "gone"
      BY <2>1, IdleSound
    <2>. HIDE DEF rec
    <2>. QED BY <2>2 DEF Live
  <1>2. Set(r, rec) /\ slots' = slots - 1
    BY DEF Leave
  <1>. HIDE DEF rec
  <1>3. /\ conn' \in [Clients -> RecSet] /\ (\A x \in Clients : Sound(conn'[x])) /\ conn'[r] = rec
        /\ \A x \in Clients : x # r => conn'[x] = conn[x]
    BY <1>1, <1>2, SetRecords
  <1>4. Pooled' = Pooled \ {r}
    <2>1. \A x \in Clients : Live(conn'[x]) <=> (Live(conn[x]) /\ x # r)
      <3>. TAKE x \in Clients
      <3>1. CASE x = r
        BY <1>1, <1>3, <3>1, Zenon
      <3>2. CASE x # r
        BY <1>3, <3>2, Zenon
      <3>. QED BY <3>1, <3>2
    <2>. QED BY <2>1 DEF Pooled
  <1>5. r \in Pooled
    BY DEF Pooled
  <1>6. Cardinality(Pooled \ {r}) = Cardinality(Pooled) - 1
    BY <1>5, PoolFinite, FS_RemoveElement
  <1>7. slots = Cardinality(Pooled) /\ slots <= MaxConns
    BY DEF RelayInv
  <1>8. slots' = Cardinality(Pooled') /\ slots' <= MaxConns
    <2>. DEFINE n == Cardinality(Pooled)
    <2>1. slots' = n - 1 /\ n <= MaxConns /\ n \in Nat /\ MaxConns \in Nat
      BY <1>2, <1>7, PoolFinite
    <2>2. Cardinality(Pooled') = n - 1
      BY <1>4, <1>6
    <2>. HIDE DEF n
    <2>. QED BY <2>1, <2>2
  <1>. QED BY <1>3, <1>8 DEF RelayInv
LEMMA StillKeeps == ASSUME RelayInv, UNCHANGED <<conn, slots>> PROVE RelayInv'
  BY Zenon DEF RelayInv, Pooled
LEMMA AcceptKeeps == ASSUME RelayInv, NEW r \in Clients, Accept(r) PROVE RelayInv'
  <1>1. conn[r].at = "none" /\ Sound(conn[r]) /\ ~Live(conn[r])
    BY DEF Accept, At, RelayInv, Live
  <1>2. conn[r].ttl = "real" /\ conn[r].at # "write"
    BY <1>1 DEF Sound
  <1>3. "lookup" \in Stages \ {"write"} /\ "gone" \in Stages \ {"write"}
    BY DEF Stages
  <1>4. CASE slots < MaxConns
    <2>. DEFINE rec == [conn[r] EXCEPT !.at = "lookup"]
    <2>1. Set(r, rec) /\ slots' = slots + 1
      BY <1>4, Zenon DEF Accept, Goto
    <2>2. Sound(rec) /\ rec.at = "lookup"
      BY <1>1, <1>2, <1>3, GotoSound
    <2>. HIDE DEF rec
    <2>3. Live(rec)
      BY <2>2 DEF Live
    <2>4. /\ conn' \in [Clients -> RecSet] /\ (\A x \in Clients : Sound(conn'[x])) /\ conn'[r] = rec
          /\ \A x \in Clients : x # r => conn'[x] = conn[x]
      BY <2>1, <2>2, SetRecords
    <2>5. Pooled' = Pooled \cup {r}
      <3>1. \A x \in Clients : Live(conn'[x]) <=> (Live(conn[x]) \/ x = r)
        <4>. TAKE x \in Clients
        <4>1. CASE x = r
          BY <2>3, <2>4, <4>1, Zenon
        <4>2. CASE x # r
          BY <2>4, <4>2, Zenon
        <4>. QED BY <4>1, <4>2
      <3>. QED BY <3>1 DEF Pooled
    <2>6. r \notin Pooled
      BY <1>1 DEF Pooled
    <2>7. Cardinality(Pooled \cup {r}) = Cardinality(Pooled) + 1
      BY <2>6, PoolFinite, FS_AddElement
    <2>8. slots' = Cardinality(Pooled') /\ slots' <= MaxConns
      <3>. DEFINE n == Cardinality(Pooled)
      <3>1. slots = n
        BY DEF RelayInv
      <3>2. slots' = n + 1 /\ n < MaxConns /\ n \in Nat /\ MaxConns \in Nat
        BY <1>4, <2>1, <3>1, PoolFinite
      <3>3. Cardinality(Pooled') = n + 1
        BY <2>5, <2>7
      <3>. HIDE DEF n
      <3>. QED BY <3>2, <3>3
    <2>. QED BY <2>4, <2>8 DEF RelayInv
  <1>5. CASE ~(slots < MaxConns)
    <2>. DEFINE rec == [conn[r] EXCEPT !.at = "gone"]
    <2>1. Set(r, rec) /\ Same
      BY <1>5, Zenon DEF Accept, Goto
    <2>2. Sound(rec) /\ rec.at = "gone"
      BY <1>1, <1>2, <1>3, GotoSound
    <2>. HIDE DEF rec
    <2>3. Live(rec) <=> Live(conn[r])
      BY <1>1, <2>2 DEF Live
    <2>. QED BY <2>1, <2>2, <2>3, SetKeeps
  <1>. QED BY <1>4, <1>5

LEMMA LeavesKeep ==
    ASSUME RelayInv, NEW r \in Clients, NEW where \in {"lookup", "dial", "first", "write", "splice"}, At(r, where), Leave(r)
    PROVE  RelayInv'
  <1>1. Live(conn[r])
    BY DEF At, Live
  <1>. QED BY <1>1, LeaveKeeps
LEMMA GoesKeep ==
    ASSUME RelayInv, NEW r \in Clients, NEW where \in {"lookup", "dial", "first", "write", "splice"}, At(r, where),
           NEW rec, Sound(rec), NEW to \in {"lookup", "dial", "first", "write", "splice"}, rec.at = to, Set(r, rec), Same
    PROVE  RelayInv'
  <1>1. Live(conn[r]) /\ Live(rec)
    BY DEF At, Live
  <1>. QED BY <1>1, SetKeeps
LEMMA SoundAt ==
    ASSUME RelayInv, NEW r \in Clients, NEW where, At(r, where)
    PROVE  Sound(conn[r]) /\ conn[r] \in RecSet /\ conn[r].at = where
  BY DEF RelayInv, At, Sound
LEMMA SplicingKeeps ==
    ASSUME RelayInv, NEW r \in Clients, NEW where \in {"lookup", "dial", "first", "write", "splice"}, At(r, where), StartSplice(r)
    PROVE  RelayInv'
  <1>. DEFINE rec == Copying(conn[r])
  <1>1. Sound(rec) /\ rec.at = "splice"
    BY SoundAt, CopyingSound
  <1>2. Set(r, rec) /\ Same
    BY Zenon DEF StartSplice, Copying
  <1>. HIDE DEF rec
  <1>3. "splice" \in {"lookup", "dial", "first", "write", "splice"}
    OBVIOUS
  <1>. QED BY <1>1, <1>2, <1>3, GoesKeep
LEMMA LookupKeeps == ASSUME RelayInv, NEW r \in Clients, NEW ok \in BOOLEAN, OrigDst(r, ok) PROVE RelayInv'
  <1>1. At(r, "lookup") /\ Sound(conn[r]) /\ conn[r].at = "lookup"
    BY SoundAt, Zenon DEF OrigDst
  <1>2. CASE ok
    <2>. DEFINE rec == [conn[r] EXCEPT !.at = "dial"]
    <2>1. Set(r, rec) /\ Same
      BY <1>2, Zenon DEF OrigDst, Goto
    <2>2. "dial" \in Stages \ {"write"} /\ conn[r].at # "write" /\ conn[r].ttl = "real"
      BY <1>1 DEF Stages, Sound
    <2>3. Sound(rec) /\ rec.at = "dial"
      BY <1>1, <2>2, GotoSound
    <2>. HIDE DEF rec
    <2>4. "lookup" \in {"lookup", "dial", "first", "write", "splice"} /\ "dial" \in {"lookup", "dial", "first", "write", "splice"}
      OBVIOUS
    <2>. QED BY <1>1, <2>1, <2>3, <2>4, GoesKeep
  <1>3. CASE ~ok
    <2>1. Leave(r)
      BY <1>3, Zenon DEF OrigDst
    <2>2. "lookup" \in {"lookup", "dial", "first", "write", "splice"}
      OBVIOUS
    <2>. QED BY <1>1, <2>1, <2>2, LeavesKeep
  <1>. QED BY <1>2, <1>3
LEMMA DialKeeps ==
    ASSUME RelayInv, NEW r \in Clients, NEW ok \in BOOLEAN, NEW known \in Readable, Dial(r, ok, known)
    PROVE  RelayInv'
  <1>1. At(r, "dial") /\ Sound(conn[r]) /\ conn[r].at = "dial"
    BY SoundAt, Zenon DEF Dial
  <1>2. "dial" \in {"lookup", "dial", "first", "write", "splice"} /\ "first" \in {"lookup", "dial", "first", "write", "splice"}
    OBVIOUS
  <1>3. CASE ok
    <2>. DEFINE rec == [conn[r] EXCEPT !.at = "first", !.known = known]
    <2>1. Set(r, rec) /\ Same
      BY <1>3, Zenon DEF Dial
    <2>2. known \in BOOLEAN
      BY RelayAssumption
    <2>3. Sound(rec) /\ rec.at = "first"
      BY <1>1, <2>2, DialSound
    <2>. HIDE DEF rec
    <2>. QED BY <1>1, <1>2, <2>1, <2>3, GoesKeep
  <1>4. CASE ~ok
    <2>1. Leave(r)
      BY <1>4, Zenon DEF Dial
    <2>. QED BY <1>1, <1>2, <2>1, LeavesKeep
  <1>. QED BY <1>3, <1>4
LEMMA ReadKeeps ==
    ASSUME RelayInv, NEW r \in Clients, NEW c \in Requests, NEW p \in Plans, ReadFirst(r, c, p)
    PROVE  RelayInv'
  <1>. DEFINE plan == Run(p.ops, c, p.unsupported)
              read(ps) == Reading(conn[r], c, p, ps)
  <1>1. At(r, "first") /\ Sound(conn[r]) /\ conn[r].at = "first"
    BY SoundAt, Zenon DEF ReadFirst
  <1>2. "first" \in {"lookup", "dial", "first", "write", "splice"} /\ "write" \in {"lookup", "dial", "first", "write", "splice"}
    OBVIOUS
  <1>3. ASSUME NEW ps, Writing(c, Asks(c, p), ps, <<>>), Set(r, read(ps)), Same PROVE RelayInv'
    <2>1. Sound(read(ps)) /\ read(ps).at = "write"
      BY <1>1, <1>3, ReadSound
    <2>. HIDE DEF read
    <2>. QED BY <1>1, <1>2, <1>3, <2>1, GoesKeep
  <1>4. \/ /\ p.ops = <<>> \/ Refused(p.ops, c, p.unsupported)
           /\ Set(r, read(Verbatim(c))) /\ Same
        \/ Leave(r)
        \/ Set(r, read(Pieces(c, plan))) /\ Same
    BY Zenon DEF ReadFirst, Reading
  <1>. HIDE DEF read, plan
  <1>5. CASE (p.ops = <<>> \/ Refused(p.ops, c, p.unsupported)) /\ Set(r, read(Verbatim(c))) /\ Same
    BY <1>3, <1>5, NotAsked
  <1>6. CASE Leave(r)
    BY <1>1, <1>2, <1>6, LeavesKeep
  <1>7. CASE Set(r, read(Pieces(c, plan))) /\ Same
    BY <1>3, <1>7, Planning DEF plan
  <1>. QED BY <1>4, <1>5, <1>6, <1>7
LEMMA WriteKeeps ==
    ASSUME RelayInv, NEW r \in Clients, NEW lowered \in BOOLEAN, NEW restored \in BOOLEAN, NEW ok \in BOOLEAN,
           WritePiece(r, lowered, restored, ok)
    PROVE  RelayInv'
  <1>. DEFINE low == Head(conn[r].pieces).low /\ lowered
              rec == Restored(Sent(Lowered(conn[r], low), Head(conn[r].pieces)), low)
  <1>1. At(r, "write") /\ Sound(conn[r]) /\ conn[r].at = "write" /\ conn[r].pieces # <<>>
    BY SoundAt, Zenon DEF WritePiece
  <1>2. "write" \in {"lookup", "dial", "first", "write", "splice"}
    OBVIOUS
  <1>3. Leave(r) \/ (Set(r, rec) /\ Same)
    BY Zenon DEF WritePiece, Restored, Lowered
  <1>4. Sound(rec) /\ rec.at = "write"
    <2>1. low \in BOOLEAN
      OBVIOUS
    <2>. HIDE DEF low
    <2>. QED BY <1>1, <2>1, WriteSound
  <1>. HIDE DEF rec
  <1>5. CASE Leave(r)
    BY <1>1, <1>2, <1>5, LeavesKeep
  <1>6. CASE Set(r, rec) /\ Same
    BY <1>1, <1>2, <1>4, <1>6, GoesKeep
  <1>. QED BY <1>3, <1>5, <1>6
LEMMA HandlesKeep == ASSUME RelayInv, NEW r \in Clients, HandleConn(r) PROVE RelayInv'
  <1>1. "first" \in {"lookup", "dial", "first", "write", "splice"} /\ "write" \in {"lookup", "dial", "first", "write", "splice"}
    OBVIOUS
  <1>2. CASE \E ok \in BOOLEAN : OrigDst(r, ok)
    BY <1>2, LookupKeeps
  <1>3. CASE \E ok \in BOOLEAN, known \in Readable : Dial(r, ok, known)
    BY <1>3, DialKeeps
  <1>4. CASE \E c \in Requests, p \in Plans : ReadFirst(r, c, p)
    BY <1>4, ReadKeeps
  <1>5. CASE ReadTimesOut(r)
    BY <1>1, <1>5, SplicingKeeps DEF ReadTimesOut
  <1>6. CASE ReadEnds(r)
    BY <1>1, <1>6, LeavesKeep DEF ReadEnds
  <1>7. CASE \E lowered, restored, ok \in BOOLEAN : WritePiece(r, lowered, restored, ok)
    BY <1>7, WriteKeeps
  <1>8. CASE Written(r)
    BY <1>1, <1>8, SplicingKeeps DEF Written
  <1>. QED BY <1>2, <1>3, <1>4, <1>5, <1>6, <1>7, <1>8, Zenon DEF HandleConn
LEMMA MovesKeep ==
    ASSUME RelayInv, NEW r \in Clients, At(r, "splice"), NEW rec, Moved(conn[r], rec), Set(r, rec), Same
    PROVE  RelayInv'
  <1>1. Sound(rec) /\ rec.at = "splice"
    BY SoundAt, MovedSound
  <1>2. "splice" \in {"lookup", "dial", "first", "write", "splice"}
    OBVIOUS
  <1>. QED BY <1>1, <1>2, GoesKeep
LEMMA CopyKeeps ==
    ASSUME RelayInv, NEW r \in Clients, NEW d \in Dirs,
           Copy(r, d) \/ CopyEnds(r, d) \/ Expired(r, d) \/ PeerSends(r, d) \/ PeerCloses(r, d) \/ CopyFails(r, d)
    PROVE  RelayInv'
  <1>1. At(r, "splice")
    BY DEF Copy, CopyEnds, Expired, PeerSends, PeerCloses, CopyFails, Running
  <1>2. conn[r] \in RecSet
    BY <1>1, SoundAt
  <1>3. /\ Moved(conn[r], [conn[r] EXCEPT !.offered[d] = @ + 1]) /\ Moved(conn[r], [conn[r] EXCEPT !.fin[d] = TRUE])
        /\ Moved(conn[r], [conn[r] EXCEPT !.copied[d] = @ + 1, !.quiet = 0])
        /\ Moved(conn[r], [conn[r] EXCEPT !.copy[d] = "closed"]) /\ Moved(conn[r], [conn[r] EXCEPT !.copy[d] = "failed"])
    BY <1>2, SpliceMoves
  <1>4. CASE Copy(r, d)
    BY <1>1, <1>3, <1>4, MovesKeep, Zenon DEF Copy
  <1>5. CASE CopyEnds(r, d)
    BY <1>1, <1>3, <1>5, MovesKeep, Zenon DEF CopyEnds
  <1>6. CASE Expired(r, d)
    BY <1>1, <1>3, <1>6, MovesKeep, Zenon DEF Expired
  <1>7. CASE PeerSends(r, d)
    BY <1>1, <1>3, <1>7, MovesKeep, Zenon DEF PeerSends
  <1>8. CASE PeerCloses(r, d)
    BY <1>1, <1>3, <1>8, MovesKeep, Zenon DEF PeerCloses
  <1>9. CASE CopyFails(r, d)
    BY <1>1, <1>3, <1>9, MovesKeep, Zenon DEF CopyFails
  <1>. QED BY <1>4, <1>5, <1>6, <1>7, <1>8, <1>9
LEMMA TickKeeps ==
    ASSUME RelayInv, NEW r \in Clients, Tick(r) \/ CtxDone(r) \/ SpliceEnds(r)
    PROVE  RelayInv'
  <1>1. At(r, "splice")
    BY DEF Tick, CtxDone, SpliceEnds
  <1>2. conn[r] \in RecSet
    BY <1>1, SoundAt
  <1>. DEFINE gone == [conn[r] EXCEPT !.expired = TRUE]
              more == [conn[r] EXCEPT !.quiet = @ + 1]
  <1>3. Moved(conn[r], gone) /\ Moved(conn[r], more)
    BY <1>2, TickMoves
  <1>4. CASE Tick(r)
    <2>1. (Set(r, gone) \/ Set(r, more)) /\ Same
      BY <1>4, Zenon DEF Tick
    <2>. HIDE DEF gone, more
    <2>. QED BY <1>1, <1>3, <2>1, MovesKeep
  <1>5. CASE CtxDone(r)
    <2>1. Set(r, gone) /\ Same
      BY <1>5, Zenon DEF CtxDone
    <2>. HIDE DEF gone, more
    <2>. QED BY <1>1, <1>3, <2>1, MovesKeep
  <1>6. CASE SpliceEnds(r)
    <2>1. "splice" \in {"lookup", "dial", "first", "write", "splice"}
      OBVIOUS
    <2>. QED BY <1>1, <1>6, <2>1, LeavesKeep DEF SpliceEnds
  <1>. QED BY <1>4, <1>5, <1>6
LEMMA RelayStep == ASSUME RelayInv, [RelayNext]_relayVars PROVE RelayInv'
  <1>1. CASE UNCHANGED relayVars \/ AcceptFails \/ Cancel \/ ServeReturns
    <2>1. UNCHANGED <<conn, slots>>
      BY <1>1, Zenon DEF relayVars, AcceptFails, Cancel, ServeReturns
    <2>. QED BY <2>1, StillKeeps
  <1>2. ASSUME NEW r \in Clients, Accept(r) \/ HandleConn(r) PROVE RelayInv'
    BY <1>2, AcceptKeeps, HandlesKeep, Zenon
  <1>3. ASSUME NEW r \in Clients, Splice(r) PROVE RelayInv'
    BY <1>3, CopyKeeps, TickKeeps DEF Splice
  <1>4. ASSUME NEW r \in Clients, NEW d \in Dirs, PeerSends(r, d) \/ PeerCloses(r, d) \/ CopyFails(r, d) PROVE RelayInv'
    BY <1>4, CopyKeeps
  <1>. QED BY <1>1, <1>2, <1>3, <1>4, Zenon DEF RelayNext
LEMMA RelayInvariant == RelaySpec => []RelayInv
  BY InitRelay, RelayStep, PTL DEF RelaySpec

(***************************************************************************)
(* What the invariant gives.                                               *)
(***************************************************************************)
LEMMA NothingWritten == {Fill, Decoy} \cap Range(<<>>) = {} /\ IsPrefix(Original(<<>>), Payload(NoRequest))
  <1>1. DOMAIN <<>> = {} /\ Range(<<>>) = {}
    BY DEF Range
  <1>. DEFINE e == Original(<<>>)
              I == {i \in DOMAIN <<>> : <<>>[i] % Touched \notin {0, Header % Touched}}
              m == [i \in DOMAIN <<>> |-> <<>>[i] % Touched]
  <1>2. Cardinality({}) = 0
    BY FS_EmptySet
  <1>3. e = Chosen(m, {})
    BY <1>1 DEF Original
  <1>. HIDE DEF e, m
  <1>4. e = [k \in 1 .. 0 |-> m[Ascending({})[k]]]
    BY <1>2, <1>3, Zenon DEF Chosen
  <1>5. e = <<>>
    BY <1>4
  <1>6. Payload(NoRequest) = <<>>
    BY DEF Payload, NoRequest
  <1>7. IsPrefix(<<>>, <<>>)
    BY DEF IsPrefix
  <1>. QED BY <1>1, <1>5, <1>6, <1>7 DEF e
LEMMA OnceIs == RelayInv => WrittenOnce
  <1>. SUFFICES ASSUME RelayInv, NEW r \in Clients
                PROVE  /\ {Fill, Decoy} \cap Range(conn[r].wrote) = {}
                       /\ IsPrefix(Original(conn[r].wrote), Payload(conn[r].req))
                       /\ At(r, "write") /\ conn[r].pieces = <<>> => Original(conn[r].wrote) = Payload(conn[r].req)
    BY Zenon DEF WrittenOnce
  <1>1. Sound(conn[r])
    BY DEF RelayInv
  <1>2. CASE At(r, "write")
    <2>1. conn[r].req \in Requests /\ Writing(conn[r].req, Asks(conn[r].req, conn[r].plan), conn[r].pieces, conn[r].wrote)
      BY <1>1, <1>2 DEF Sound, At
    <2>2. Exactly(conn[r].req, conn[r].wrote, conn[r].pieces = <<>>)
      BY <2>1, RequestFacts, WritingOnce
    <2>. QED BY <2>2 DEF Exactly
  <1>3. CASE ~At(r, "write")
    <2>1. conn[r].wrote = <<>> /\ conn[r].req = NoRequest
      BY <1>1, <1>3 DEF Sound, At
    <2>. QED BY <1>3, <2>1, NothingWritten
  <1>. QED BY <1>2, <1>3
LEMMA CutIs == RelayInv => WritesCut
  <1>. SUFFICES ASSUME RelayInv, NEW r \in Clients, At(r, "write"), Cutting(r), NEW i \in DOMAIN conn[r].pieces
                PROVE  ~({conn[r].req.sld + 1, conn[r].req.sld + conn[r].req.sldLen}
                            \subseteq Range(Original(conn[r].pieces[i].data)))
    BY Zenon DEF WritesCut
  <1>1. Sound(conn[r]) /\ Asks(conn[r].req, conn[r].plan)
    BY CuttingIs DEF RelayInv
  <1>2. conn[r].req \in Requests /\ Writing(conn[r].req, Asks(conn[r].req, conn[r].plan), conn[r].pieces, conn[r].wrote)
    BY <1>1 DEF Sound, At
  <1>3. Writing(conn[r].req, TRUE, conn[r].pieces, conn[r].wrote)
    BY <1>1, <1>2 DEF Writing, Stream
  <1>. QED BY <1>2, <1>3, RequestFacts, WritingCuts
LEMMA SocketIs == RelayInv => RealTTL
  BY Zenon DEF RelayInv, Sound, RealTTL
LEMMA PoolIs == RelayInv => PoolExact
  BY Zenon DEF RelayInv, PoolExact, Pooled, Live
(* The server of a relayed connection gets the request once, in order and cut    *)
(* where the profile says; the copying is done with the TTL the socket had, and  *)
(* the pool counts the connections it holds and no other.                        *)
THEOREM RelaysFaithfulHolds == RelaySpec => []RelaysFaithful
  <1>1. RelayInv => RelaysFaithful
    BY OnceIs, CutIs, SocketIs, PoolIs, Zenon DEF RelaysFaithful
  <1>. QED BY <1>1, RelayInvariant, PTL

==============================================================================
