-------------------------------- MODULE Desync --------------------------------
(***************************************************************************)
(* The desync operations (internal/desync): pure functions from a packet   *)
(* and a partial plan to the next plan, and Run, which applies the         *)
(* operations of one profile (engine.run). Emit and Relay put plans on the *)
(* wire.                                                                   *)
(*                                                                         *)
(* A payload of n bytes is <<1, ..., n>>: a byte is its place in the       *)
(* stream. A filler byte below the window is Fill, a byte of a decoy       *)
(* Decoy, the byte of an inserted TLS record header Header, and a byte a   *)
(* rewrite touched is its place plus Touched. Sequences are filtered and   *)
(* sorted by what their indexes are (Chosen, Sorted), which the provers    *)
(* can expand as they cannot SelectSeq and SortSeq.                        *)
(***************************************************************************)
EXTENDS Integers, Sequences, FiniteSets, SequencesExt

CONSTANTS
    MaxFake,     \* segMaxFakeLen: the longest payload that is faked whole
    MaxSeg,      \* segMaxSegLen: the longest overlapped segment
    FakeLen,     \* bytes in a decoy of the op fake
    MaxRepeats,  \* injMaxRepeats
    MaxPayload,  \* injUDPMaxPayload
    Touched      \* more than any place

ASSUME DesyncAssumption ==
    /\ {MaxFake, MaxSeg, FakeLen, MaxRepeats, MaxPayload, Touched} \subseteq Nat \ {0}
    /\ MaxFake <= MaxSeg

Markers == {"abs", "method", "host", "endhost", "sld", "endsld", "midsld", "sniext"}
Names == {"multisplit", "multidisorder", "fakedsplit", "fakeddisorder", "hostfakesplit", "fake", "fakeknown", "rst",
          "syndata", "block", "ipfrag1", "ipfrag2", "hopbyhop", "udplen", "wssize", "ip_id", "tamper", "tlsrec"}
IpIds == {"default", "zero", "random", "seq", "seqgroup", "same"}
Foolings == {"badsum", "badseq", "md5sig", "ts", "datanoack", "hopbyhop", "hopbyhop2"}
\* A compiled operation with its parameters, and a profile.
Operation == [op: Names, pos: Seq([m: Markers, off: Int]), ovl: Int, order: Nat, mid: Seq([m: Markers, off: Int]),
              grow: Int, ttl: Nat, fool: SUBSET Foolings, reps: Int, ipid: IpIds, frag: Int, win: Int, active: BOOLEAN,
              inc: Int, auto: Seq({a \in [delta: -127 .. 127, min: 0 .. 255, max: 0 .. 255]: a.min <= a.max})]
Profile == [ops: Seq(Operation), unsupported: {"degrade", "skip", "error"}]
\* What the operations read of a packet (proto.Pkt, Ctx): a name lies within it.
Context ==
    {c \in [udp: BOOLEAN, v6: BOOLEAN, syn: BOOLEAN, fin: BOOLEAN, http: BOOLEAN, tls: BOOLEAN, known: BOOLEAN,
            len: Nat, host: Nat, hostLen: Nat, sld: Nat, sldLen: Nat, sni: Nat, caps: SUBSET STRING, seen: 0 .. 255]:
        c.len < Touched - 2 /\ c.sld + c.sldLen <= c.len}

Fill == 0
Decoy == -1
Header == -2

-----------------------------------------------------------------------------
(* Order and choice                                                            *)

\* The members of a set of numbers in the order of their keys; of two with one
\* key the lesser comes first.
Sorted(I, key) ==
    [k \in 1 .. Cardinality(I) |->
        CHOOSE i \in I: Cardinality({j \in I: key[j] < key[i] \/ (key[j] = key[i] /\ j < i)}) = k - 1]
Ascending(I) == Sorted(I, [i \in I |-> i])
\* A sequence at some of its places.
Chosen(s, I) == LET at == Ascending(I) IN [k \in 1 .. Cardinality(I) |-> s[at[k]]]

-----------------------------------------------------------------------------
\* A packet: what the operations read of it.
Payload(c) == [i \in 1 .. c.len |-> i]
Filler(n) == [i \in 1 .. n |-> Fill]
Decoys(n) == [i \in 1 .. n |-> Decoy]
Cut(s, from, to) == SubSeq(s, from + 1, to)
Repeats(o) == IF o.reps < 1 THEN 1 ELSE o.reps
Clamped(o) == IF Repeats(o) > MaxRepeats THEN MaxRepeats ELSE Repeats(o)

Segment(kind, data, off, o) ==
    [kind |-> kind, data |-> data, off |-> off, reps |-> 1, ttl |-> 0,
     fool |-> {}, ipid |-> o.ipid, frag |-> 0, win |-> 0]
SegDataSeg(data, off, o) == Segment("data", data, off, o)
SegFakeSeg(data, off, o) ==
    [Segment("fake", data, off, o) EXCEPT !.reps = Repeats(o), !.ttl = o.ttl, !.fool = o.fool]
Injected(kind, data, o) ==
    [Segment(kind, data, 0, o) EXCEPT !.reps = Clamped(o), !.ttl = o.ttl, !.fool = o.fool]
EmptyPlan == [segs |-> <<>>, dgrams |-> <<>>, drop |-> FALSE]
IsData(s) == s.kind = "data"
DataAt(units) == {i \in DOMAIN units: IsData(units[i])}
IsDecoy(s) == s.kind \in {"fake", "rst"}
\* The place of the first unit that carries data, 0 when none does.
FirstData(units) == SelectInSeq(units, IsData)

-----------------------------------------------------------------------------
(* Where to cut: internal/proto/markers.go, segResolve*                       *)

\* A marker other than "abs" stands for nothing when the payload has no anchor.
Anchored(c, m) == CASE m = "method" -> c.http
                    [] m \in {"host", "endhost"} -> c.host > 0
                    [] m \in {"sld", "endsld", "midsld"} -> c.sld > 0
                    [] m = "sniext" -> c.sni > 0
\* Mutant of Anchor: every marker is the end of the name.
AnchorEnd(c, m) == c.host + c.hostLen
Anchor(c, m) == CASE m = "method" -> 0
                  [] m = "host" -> c.host
                  [] m = "endhost" -> c.host + c.hostLen
                  [] m = "sld" -> c.sld
                  [] m = "endsld" -> c.sld + c.sldLen
                  [] m = "midsld" -> c.sld + c.sldLen \div 2
                  [] m = "sniext" -> c.sni
Clamp(pos, n) == IF pos < 0 THEN 0 ELSE IF pos > n THEN n ELSE pos
FindSplitPos(c, s) ==
    IF s.m = "abs" THEN Clamp(IF s.off < 0 THEN c.len + s.off ELSE s.off, c.len)
    ELSE IF Anchored(c, s.m) THEN Clamp(Anchor(c, s.m) + s.off, c.len) ELSE 0

Abs(n) == [m |-> "abs", off |-> n]
Specs(o) == IF o.pos = <<>> THEN <<Abs(2)>> ELSE o.pos
SegResolveMultiPos(c, specs) ==
    LET inside == {FindSplitPos(c, specs[i]) : i \in DOMAIN specs} \cap 1 .. c.len - 1
    IN  Ascending(inside)

\* The relative markers come first, then the absolute ones, then byte 1.
SegResolveSinglePos(c, specs) ==
    LET Found(abs) == {i \in DOMAIN specs: (specs[i].m = "abs") = abs /\ FindSplitPos(c, specs[i]) # 0}
        Earliest(I) == FindSplitPos(c, specs[Min(I)])
        pos == IF Found(FALSE) # {} THEN Earliest(Found(FALSE)) ELSE IF Found(TRUE) # {} THEN Earliest(Found(TRUE)) ELSE 1
    IN  IF pos >= c.len THEN 0 ELSE pos

-----------------------------------------------------------------------------
(* Changes to the plan that several operations make                            *)

\* Mutant of SegTakeOverData: what was planned before stays.
SegTakeOverDataKeeps(p) == p
SegTakeOverData(p) == [p EXCEPT !.segs = Chosen(@, DOMAIN @ \ DataAt(@))]
SegTakeOverAll(p) == [p EXCEPT !.segs = <<>>]
Planned(p, segs) == [p EXCEPT !.segs = @ \o segs, !.drop = TRUE]

Plain == [ipid |-> "default"]
EnsureData(units, c) ==
    IF c.len = 0 \/ DataAt(units) # {} THEN units
    ELSE Append(units, SegDataSeg(Payload(c), 0, Plain))
InjEnsureDataSeg(c, p) == [p EXCEPT !.segs = EnsureData(@, c)]
InjEnsureDataDgram(c, p) == [p EXCEPT !.dgrams = EnsureData(@, c)]

\* Mutant of Inserted: decoys follow what is planned.
InsertedLast(units, new) == units \o new
\* Decoys go before the first data unit of the plan.
Inserted(units, new) ==
    LET at == FirstData(units)
    IN  IF at = 0 THEN units \o new
        ELSE SubSeq(units, 1, at - 1) \o new \o SubSeq(units, at, Len(units))

\* What carries the payload, of the protocol of the packet, and a plan that has it.
Units(c) == IF c.udp THEN "dgrams" ELSE "segs"
Ensured(c, p) == IF c.udp THEN InjEnsureDataDgram(c, p) ELSE InjEnsureDataSeg(c, p)
\* Every data unit takes on a mark.
Marked(c, p, mark) ==
    LET Bit(s) == [s EXCEPT !.fool = @ \cup {mark}]
    IN  [Ensured(c, p) EXCEPT ![Units(c)] = [i \in DOMAIN @ |-> IF IsData(@[i]) THEN Bit(@[i]) ELSE @[i]]]

-----------------------------------------------------------------------------
(* The operations that cut the payload: op_split.go, op_fakedsplit.go          *)

\* The overlap a sequence of cuts can carry: none without control of the
\* sequence numbers, and none that would reach below the first part when the
\* second is the one that carries it.
MultiOverlap(c, o, pos, disorder) ==
    IF o.ovl <= 0 \/ "seq" \notin c.caps \/ (disorder /\ o.ovl >= pos[1]) THEN 0 ELSE o.ovl

Parts(c, o, pos, ovl, target) ==
    LET ends == <<0>> \o pos \o <<c.len>>
        Part(i) == Cut(Payload(c), ends[i], ends[i + 1])
    IN  [i \in 1 .. Len(pos) + 1 |->
            IF ovl > 0 /\ i = target THEN SegDataSeg(Filler(ovl) \o Part(i), ends[i] - ovl, o)
            ELSE SegDataSeg(Part(i), ends[i], o)]
\* "seqovl is too large": the operation leaves the plan as it was.
TooLong(segs) == \E i \in DOMAIN segs: segs[i].data # <<>> /\ segs[i].data[1] = Fill /\ Len(segs[i].data) > MaxSeg

Multisplit(o, c, p) ==
    LET pos == SegResolveMultiPos(c, Specs(o))
        segs == Parts(c, o, pos, MultiOverlap(c, o, pos, FALSE), 1)
    IN  IF pos = <<>> \/ TooLong(segs) THEN p ELSE Planned(SegTakeOverData(p), segs)
Multidisorder(o, c, p) ==
    LET pos == SegResolveMultiPos(c, Specs(o))
        segs == Parts(c, o, pos, MultiOverlap(c, o, pos, TRUE), 2)
    IN  IF pos = <<>> \/ TooLong(segs) THEN p ELSE Planned(SegTakeOverData(p), Reverse(segs))
\* A relay cannot send out of order: the first part is written with TTL 1.
MultidisorderDegrade(o, c, p) ==
    LET pos == SegResolveMultiPos(c, Specs(o))
        segs == Parts(c, o, pos, 0, 2)
    IN  IF pos = <<>> THEN p ELSE Planned(SegTakeOverAll(p), [segs EXCEPT ![1].ttl = 1])

\* The order of decoys and parts: o.order codes one for each case.
SegSplitOrder(o, split) == IF split THEN o.order % 4 ELSE (o.order \div 8) % 4
When(b, s) == IF b THEN s ELSE <<>>

Fakedsplit(o, c, p) ==
    LET kept == SegTakeOverData(p)
        at == SegResolveSinglePos(c, Specs(o))
        order == SegSplitOrder(o, at # 0)
        pos == IF at = 0 THEN c.len ELSE at
        ovl == IF o.ovl < 0 \/ pos >= c.len \/ "seq" \notin c.caps THEN 0 ELSE o.ovl
        f1 == SegFakeSeg(Decoys(pos), 0, o)
        f2 == SegFakeSeg(Decoys(c.len - pos), pos, o)
        r1 == SegDataSeg(Filler(ovl) \o Cut(Payload(c), 0, pos), -ovl, o)
        r2 == SegDataSeg(Cut(Payload(c), pos, c.len), pos, o)
    IN  IF c.len > MaxFake THEN p
        ELSE IF ovl > 0 /\ ovl + pos > MaxSeg THEN InjEnsureDataSeg(c, kept)
        ELSE Planned(kept, When(order = 0, <<f1>>) \o <<r1>> \o When(order <= 1, <<f1>>)
                           \o When(pos < c.len, <<f2, r2>> \o When(order <= 2, <<f2>>)))

Fakeddisorder(o, c, p) ==
    LET kept == SegTakeOverData(p)
        pos == SegResolveSinglePos(c, Specs(o))
        order == SegSplitOrder(o, pos # 0)
        ovl == IF o.ovl <= 0 \/ "seq" \notin c.caps \/ pos = 0 \/ o.ovl >= pos THEN 0 ELSE o.ovl
        f1 == SegFakeSeg(Decoys(pos), 0, o)
        f2 == SegFakeSeg(Decoys(c.len - pos), pos, o)
        r1 == SegDataSeg(Cut(Payload(c), 0, pos), 0, o)
        r2 == SegDataSeg(Filler(ovl) \o Cut(Payload(c), pos, c.len), pos - ovl, o)
    IN  IF c.len > MaxFake THEN p
        ELSE IF ovl > 0 /\ ovl + c.len - pos > MaxSeg THEN InjEnsureDataSeg(c, kept)
        ELSE Planned(kept, When(order = 0, <<f2>>) \o <<r2>> \o When(order <= 1, <<f2>>)
                           \o When(pos > 0, <<f1, r1>> \o When(order <= 2, <<f1>>)))

SegDegradeSplit(o, c, p) ==
    LET pos == SegResolveSinglePos(c, Specs(o))
    IN  IF pos = 0 THEN p ELSE Planned(SegTakeOverAll(p), Parts(c, o, <<pos>>, 0, 1))

HostPos(c) == SegResolveMultiPos(c, <<[m |-> "host", off |-> 0], [m |-> "endhost", off |-> 0]>>)
\* An extra cut, if it falls inside the hostname.
MidHost(o, c, pos) ==
    LET m == IF o.mid = <<>> THEN 0 ELSE FindSplitPos(c, o.mid[1])
    IN  IF m > pos[1] /\ m < pos[2] THEN <<m>> ELSE <<>>
Hostfakesplit(o, c, p) ==
    LET pos == HostPos(c)
        cuts == <<pos[1]>> \o MidHost(o, c, pos) \o <<pos[2]>>
        parts == Parts(c, o, cuts, 0, 1)
        before == <<Head(parts)>>
        real == SubSeq(parts, 2, Len(parts) - 1)
        after == <<Last(parts)>>
        fake == <<SegFakeSeg(Decoys(pos[2] - pos[1]), pos[1], o)>>
    IN  IF Len(pos) # 2 THEN p
        ELSE Planned(SegTakeOverData(p), before \o fake \o
                 (IF o.order = 1 THEN after \o real ELSE real \o fake \o after))
HostfakesplitDegrade(o, c, p) ==
    LET pos == HostPos(c)
    IN  IF Len(pos) # 2 THEN p
        ELSE Planned(SegTakeOverAll(p), Parts(c, o, <<pos[1]>> \o MidHost(o, c, pos) \o <<pos[2]>>, 0, 1))

-----------------------------------------------------------------------------
(* The operations that inject: op_fake.go                                      *)

\* No decoy rides on a SYN, and none on a packet that carries nothing.
Carries(c) == ~c.syn /\ c.len > 0

Fake(o, c, p) ==
    LET decoy == <<Injected("fake", Decoys(FakeLen), o)>>
    IN  IF ~Carries(c) \/ (o.op = "fakeknown" /\ ~c.known) THEN p
        ELSE IF c.udp THEN InjEnsureDataDgram(c, [p EXCEPT !.dgrams = Inserted(@, decoy)])
        ELSE InjEnsureDataSeg(c, [p EXCEPT !.segs = Inserted(@, decoy)])
Rst(o, c, p) ==
    IF ~Carries(c) \/ c.udp THEN p
    ELSE InjEnsureDataSeg(c, [p EXCEPT !.segs = Inserted(@, <<Injected("rst", <<>>, o)>>)])
Syndata(o, c, p) ==
    IF ~c.syn \/ c.udp \/ c.len # 0 THEN p
    ELSE [p EXCEPT !.segs = Append(@, [Injected("syn", Decoys(FakeLen), o) EXCEPT !.ttl = 0, !.fool = {}])]
Block(o, c, p) == [EmptyPlan EXCEPT !.drop = TRUE]

-----------------------------------------------------------------------------
(* The operations on headers: op_frag.go, op_misc.go                            *)

\* Fragment offsets count units of 8 bytes; a place that does not fit the
\* transport length falls back to one just behind the header.
FragPos(o, c, n) ==
    LET hdr == IF c.udp THEN 8 ELSE 20
        pos == ((IF o.frag > 0 THEN o.frag ELSE IF c.udp THEN 8 ELSE 32) \div 8) * 8
    IN  IF pos < 8 \/ pos >= hdr + n THEN (IF c.udp THEN 8 ELSE 24) ELSE pos

Ipfrag2(o, c, p) ==
    LET Split(s) == [s EXCEPT !.frag = FragPos(o, c, IF c.udp THEN Len(s.data) ELSE c.len)]
    IN  IF ~Carries(c) \/ (c.udp /\ c.v6) THEN p
        ELSE [Ensured(c, p) EXCEPT ![Units(c)] = [i \in DOMAIN @ |-> IF IsData(@[i]) THEN Split(@[i]) ELSE @[i]]]
\* On an IPv4 UDP flow the decoys are what the first stage can fragment.
Ipfrag1(o, c, p) ==
    LET OnDecoy(s) == IF s.kind = "fake" THEN [s EXCEPT !.frag = FragPos(o, c, Len(s.data))] ELSE s
    IN  IF ~Carries(c) THEN p
        ELSE IF c.v6 THEN Marked(c, p, "ipfrag1")
        ELSE IF c.udp THEN [p EXCEPT !.dgrams = [i \in DOMAIN @ |-> OnDecoy(@[i])]]
        ELSE p
Ipv6Ext(o, c, p) ==
    IF ~Carries(c) \/ ~c.v6 THEN p ELSE Marked(c, p, "hopbyhop")

UDPLenResize(n, inc) ==
    LET pad == IF n + inc <= 0 THEN 1 - n ELSE IF n + inc > MaxPayload THEN MaxPayload - n ELSE inc
    IN  IF pad < 0 THEN [i \in 1 .. n + pad |-> i]
        ELSE [i \in 1 .. n |-> i] \o Filler(pad)
Udplen(o, c, p) ==
    LET data == UDPLenResize(c.len, IF o.inc = 0 THEN 2 ELSE o.inc)
        Sized(s) == [s EXCEPT !.data = data, !.frag = IF @ > 0 THEN FragPos(o, c, Len(data)) ELSE @]
        at == FirstData(p.dgrams)
    IN  IF ~c.udp \/ c.len = 0 THEN p
        ELSE IF at = 0 THEN [p EXCEPT !.dgrams = Append(@, SegDataSeg(data, 0, Plain))]
        ELSE [p EXCEPT !.dgrams[at] = Sized(@)]

CarriesWindow(c, s) == s.kind = "data" \/ (s.kind = "syn" /\ c.syn)
\* o.active: the flow is not past the cutoff of the op (wssizeActive).
Wssize(o, c, p) ==
    LET Tag(q) == [q EXCEPT !.segs = [i \in DOMAIN @ |->
            IF CarriesWindow(c, @[i]) THEN [@[i] EXCEPT !.win = o.win] ELSE @[i]]]
        none == \A i \in DOMAIN p.segs: ~CarriesWindow(c, p.segs[i])
    IN  IF o.win <= 0 \/ ~o.active THEN p
        ELSE IF none /\ c.len > 0 THEN Tag(InjEnsureDataSeg(c, p)) ELSE Tag(p)
IpId(o, c, p) ==
    IF o.ipid = "default" THEN p
    ELSE [p EXCEPT !.segs = [i \in DOMAIN @ |-> [@[i] EXCEPT !.ipid = o.ipid]]]

-----------------------------------------------------------------------------
(* The operations that rewrite the payload: op_tamper.go                        *)

EndOf(s) == s.off + Len(s.data)
\* The data segments in stream order, as a receiver would assemble them.
SegDataIdx(segs) ==
    Sorted(DataAt(segs), [i \in DataAt(segs) |-> segs[i].off])
\* What the k-th of them adds: it starts where the one before it ended.
From(segs, idx, k) == IF k = 1 THEN 0 ELSE EndOf(segs[idx[k - 1]])
Prefix(segs, idx, k) == From(segs, idx, k) - segs[idx[k]].off
SegSpans(segs, want) ==
    LET idx == SegDataIdx(segs)
    IN  /\ \A k \in DOMAIN idx:
              /\ Prefix(segs, idx, k) \in 0 .. Len(segs[idx[k]].data)
              /\ EndOf(segs[idx[k]]) <= want
        /\ (IF idx = <<>> THEN 0 ELSE EndOf(segs[Last(idx)])) = want
SegJoinData(segs) ==
    LET idx == SegDataIdx(segs)
    IN  FlattenSeq([k \in DOMAIN idx |-> Cut(segs[idx[k]].data, Prefix(segs, idx, k), Len(segs[idx[k]].data))])
\* A segment with a part of new contents above what it carries below its own.
Recut(s, pre, new, from, to) ==
    [s EXCEPT !.data = Cut(@, 0, pre) \o Cut(new, from, to), !.off = from - pre]
\* New contents, every boundary moved as the function `moved' says.
SegRewriteData(segs, new, moved) ==
    LET idx == SegDataIdx(segs)
        Moved(k) == LET s == segs[idx[k]]
                    IN  Recut(s, Prefix(segs, idx, k), new, moved[From(segs, idx, k)], moved[EndOf(s)])
    IN  [i \in DOMAIN segs |-> IF IsData(segs[i]) THEN Moved(CHOOSE k \in DOMAIN idx: idx[k] = i) ELSE segs[i]]

\* proto.TamperHost: what it does to a request, and by how much it grows it.
TamperHost(o, c, s) ==
    IF ~c.http THEN s
    ELSE [i \in DOMAIN s |-> s[i] + Touched] \o [i \in 1 .. o.grow |-> Touched]
\* A transport that injects packets does not own the client's sequence space.
LengthAllowed(c, before, after) == before = after \/ "inject" \notin c.caps

Tamper(o, c, p) ==
    LET whole == TamperHost(o, c, Payload(c))
        new == TamperHost(o, c, SegJoinData(p.segs))
        same == [off \in 0 .. c.len |-> off]
    IN  IF SegDataIdx(p.segs) = <<>>
        THEN IF LengthAllowed(c, c.len, Len(whole)) THEN Planned(p, <<SegDataSeg(whole, 0, o)>>) ELSE p
        ELSE IF ~SegSpans(p.segs, c.len) \/ Len(new) # c.len THEN p
        ELSE [p EXCEPT !.segs = SegRewriteData(@, new, same)]

\* proto.TLSRecordSplit wants one whole record and puts a second header at pos.
Tlsrec(o, c, p) ==
    LET pos == FindSplitPos(c, IF o.pos = <<>> THEN [m |-> "sniext", off |-> 1] ELSE o.pos[1])
        whole == Cut(Payload(c), 0, pos) \o <<Header>> \o Cut(Payload(c), pos, c.len)
        shifted == [off \in 0 .. c.len |-> IF off < pos THEN off ELSE off + 1]
    IN  IF pos <= 0 \/ pos >= c.len \/ ~c.tls \/ ~LengthAllowed(c, 0, 1) THEN p
        ELSE IF SegDataIdx(p.segs) = <<>> THEN Planned(p, <<SegDataSeg(whole, 0, o)>>)
        ELSE IF ~SegSpans(p.segs, c.len) \/ SegJoinData(p.segs) # Payload(c) THEN p
        ELSE [p EXCEPT !.segs = SegRewriteData(@, whole, shifted)]

-----------------------------------------------------------------------------
(* One profile: registry.go, engine.run, the order the loader compiles          *)

Requires(o) ==
    CASE o.op = "multisplit" -> {"segment", "drop"}
      [] o.op = "multidisorder" -> {"segment", "drop", "seq"}
      [] o.op \in {"fakedsplit", "fakeddisorder", "hostfakesplit"} -> {"inject", "seq", "drop"}
      [] o.op \in {"fake", "fakeknown", "rst"} -> {"inject", "ttl", "fooling"}
      [] o.op = "syndata" -> {"inject", "drop"}
      [] o.op = "block" -> {"drop"}
      [] o.op = "ipfrag1" -> {"ipv6ext", "frag", "drop"}
      [] o.op = "ipfrag2" -> {"frag", "drop"}
      [] o.op = "hopbyhop" -> {"ipv6ext", "drop"}
      [] o.op = "udplen" -> {"udp", "drop"}
      [] o.op = "wssize" -> {"fooling"}
      [] o.op = "ip_id" -> {"ipid"}
      [] o.op = "tamper" -> {"segment"}
      [] o.op = "tlsrec" -> {"tlsrec"}
Phase(o) ==
    CASE o.op = "syndata" -> 0
      [] o.op \in {"fake", "fakeknown", "rst", "block"} -> 1
      [] o.op \in {"multisplit", "multidisorder", "fakedsplit", "fakeddisorder", "hostfakesplit"} -> 2
      [] OTHER -> 3
\* The loader keeps the order of the file within a phase.
Compiled(ops) == LET at == Sorted(DOMAIN ops, [i \in DOMAIN ops |-> Phase(ops[i])])
                 IN  [k \in DOMAIN ops |-> ops[at[k]]]

Apply(o, c, p) ==
    CASE o.op = "multisplit" -> Multisplit(o, c, p)
      [] o.op = "multidisorder" -> Multidisorder(o, c, p)
      [] o.op = "fakedsplit" -> Fakedsplit(o, c, p)
      [] o.op = "fakeddisorder" -> Fakeddisorder(o, c, p)
      [] o.op = "hostfakesplit" -> Hostfakesplit(o, c, p)
      [] o.op \in {"fake", "fakeknown"} -> Fake(o, c, p)
      [] o.op = "rst" -> Rst(o, c, p)
      [] o.op = "syndata" -> Syndata(o, c, p)
      [] o.op = "block" -> Block(o, c, p)
      [] o.op = "ipfrag1" -> Ipfrag1(o, c, p)
      [] o.op = "ipfrag2" -> Ipfrag2(o, c, p)
      [] o.op = "hopbyhop" -> Ipv6Ext(o, c, p)
      [] o.op = "udplen" -> Udplen(o, c, p)
      [] o.op = "wssize" -> Wssize(o, c, p)
      [] o.op = "ip_id" -> IpId(o, c, p)
      [] o.op = "tamper" -> Tamper(o, c, p)
      [] o.op = "tlsrec" -> Tlsrec(o, c, p)
Degrade(o, c, p) ==
    CASE o.op = "multidisorder" -> MultidisorderDegrade(o, c, p)
      [] o.op \in {"fakedsplit", "fakeddisorder"} -> SegDegradeSplit(o, c, p)
      [] o.op = "hostfakesplit" -> HostfakesplitDegrade(o, c, p)
      [] OTHER -> p

\* Mutant of HopsFromTTL: no server starts from 64.
HopsFromTTLHigh(ttl) == IF ttl = 0 THEN 0 ELSE IF ttl <= 128 THEN 128 - ttl ELSE 255 - ttl
\* Hops to the server, from the TTL of a packet it sent (0: none was seen).
HopsFromTTL(ttl) == IF ttl = 0 THEN 0 ELSE IF ttl <= 64 THEN 64 - ttl ELSE IF ttl <= 128 THEN 128 - ttl ELSE 255 - ttl
ClampTTL(v, lo, hi) ==
    LET l == IF lo = 0 THEN 3 ELSE lo
        h == IF hi = 0 THEN 20 ELSE hi
    IN  IF v < l THEN l ELSE IF v > h THEN h ELSE v
\* An automatic TTL: o.auto is <<[delta, min, max]>>.
ApplyTTL(o, c) ==
    LET a == o.auto[1]
        hops == HopsFromTTL(c.seen)
        guess == a.min + ((a.max - a.min) % 256) \div 2
        v == hops + a.delta
    IN  IF o.auto = <<>> THEN o
        ELSE [o EXCEPT !.ttl = ClampTTL((IF hops = 0 THEN guess ELSE IF v < 1 THEN 1 ELSE v) % 256, a.min, a.max)]

Supported(o, c) == Requires(o) \subseteq c.caps
\* One turn of engine.run's loop, and what it makes of the whole plan.
Step(o, c, unsupported, p) ==
    IF Supported(o, c) THEN Apply(ApplyTTL(o, c), c, p)
    ELSE IF unsupported = "degrade" THEN Degrade(ApplyTTL(o, c), c, p) ELSE p
Finished(p) == [p EXCEPT !.drop = @ \/ p.segs # <<>> \/ p.dgrams # <<>>]
Run(ops, c, unsupported) ==
    LET todo == Compiled(ops)
        plan[k \in 0 .. Len(todo)] == IF k = 0 THEN EmptyPlan ELSE Step(todo[k], c, unsupported, plan[k - 1])
    IN  Finished(plan[Len(todo)])
Refused(ops, c, unsupported) == unsupported = "error" /\ \E i \in DOMAIN ops: ~Supported(ops[i], c)
=============================================================================
