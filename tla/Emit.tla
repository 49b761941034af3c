--------------------------------- MODULE Emit ---------------------------------
(***************************************************************************)
(* The datapath of the divert transport (internal/transport/divert):       *)
(* Transport.run reads the packets pf has diverted (and dropped) from      *)
(* pflog, the engine plans each of them with the operations of its         *)
(* profile (Desync), BuildPlan turns the plan into packets, and the        *)
(* injector writes them beside pf. Whatever is not written is lost to the  *)
(* application, so every refusal forwards its own packet.                  *)
(***************************************************************************)
EXTENDS Desync

CONSTANTS
    Contexts,       \* the packets a client may send
    Profiles,       \* [ops, unsupported]: what the engine may apply to one
    Mtu,            \* of the uplink
    MaxReadErrors,  \* maxConsecutiveReadErrors
    MaxFails        \* BOUND: injections that fail, for each packet

\* What a packet written with BPF can be made to do, and one through a raw socket.
FullCaps == {"segment", "drop", "seq", "inject", "ttl", "fooling", "ipid", "udp", "ipv6ext", "frag", "tlsrec"}
RawCaps == FullCaps \ {"ipid", "ipv6ext"}
\* The MTU leaves room for 8 bytes behind an IPv4 header.
ASSUME EmitAssumption ==
    /\ Contexts \subseteq {c \in Context: c.caps \in {FullCaps, RawCaps}}
    /\ Profiles \subseteq Profile
    /\ Mtu \in Nat /\ Mtu >= 28 /\ {MaxReadErrors, MaxFails} \subseteq Nat

VARIABLES
    phase,    \* "read" | "inject" | "forward" | "done" | "ended"
    errors,   \* read errors in a row
    why,      \* why the loop ended
    pkt,      \* the packet that is handled
    prof,     \* the profile the engine applied to it
    out,      \* packets built and not yet injected
    built,    \* how many of them there were
    sent,     \* how many of them were injected
    drop,     \* plan.DropOriginal
    issued,   \* ids the plan took: Transport.ipidSeq moves on by as many
    wire,     \* packets of this one that left, in order
    fails     \* injections of this one that failed
vars == <<phase, errors, why, pkt, prof, out, built, sent, drop, issued, wire, fails>>

-----------------------------------------------------------------------------
(* BuildPlan: emit.go                                                         *)

IPHeader(c) == IF c.v6 THEN 40 ELSE 20
L4Header(c) == IF c.udp THEN 8 ELSE 20

\* checkDataTiling: the data segments are the payload, each byte once.
CheckDataTiling(segs, want) == SegDataIdx(segs) = <<>> \/ SegSpans(segs, want)
Buildable(c, plan) ==
    /\ plan.segs # <<>> => ~c.udp /\ CheckDataTiling(plan.segs, c.len)
    /\ plan.dgrams # <<>> => c.udp

\* One id for each end offset; the ids of a reversed plan count down.
Ends(segs) == Ascending({EndOf(segs[i]) : i \in DOMAIN segs})
Group(segs, s) == (CHOOSE g \in DOMAIN Ends(segs): Ends(segs)[g] = EndOf(s)) - 1
Descending(segs) ==
    LET data == Chosen(segs, DataAt(segs))
    IN  /\ \E i \in 1 .. Len(data) - 1: data[i].off > data[i + 1].off
        /\ \A i \in 1 .. Len(data) - 1: data[i].off >= data[i + 1].off

\* The flags of a real segment: its FIN goes where the payload ends.
\* Mutant of DataFlags: real segments carry PSH and ACK only.
DataFlagsFixed(c, s) == {"psh", "ack"}
DataFlags(c, s) == {"psh", "ack"} \cup (IF c.fin /\ EndOf(s) >= c.len THEN {"fin"} ELSE {})
Flags(c, s) == CASE s.kind = "rst" -> {"rst"}
                 [] s.kind = "syn" -> {"syn"}
                 [] OTHER -> DataFlags(c, s)
\* Fragments of one packet share its id; one that cannot be cut goes whole.
Fragments(c, s) ==
    LET n == L4Header(c) + Len(s.data)
    IN  IF ~c.v6 /\ s.frag >= 8 /\ s.frag < n THEN <<s.frag, n - s.frag>> ELSE <<n>>
Packet(c, s, id, n, last) ==
    [kind |-> s.kind, off |-> s.off, data |-> s.data, flags |-> IF c.udp THEN {} ELSE Flags(c, s),
     ttl |-> s.ttl, id |-> id, n |-> n, last |-> last]
Repeated(units) == FlattenSeq([i \in DOMAIN units |-> [r \in 1 .. Repeats(units[i]) |-> units[i]]])
\* The ids of the packets of a plan: zero (-3), the packet's own (-2), a random
\* one (-1), or, counted from ipidSeq, the next of the sequence or the group's.
Ids(segs) ==
    LET all == Repeated(segs)
        nth(k) == Cardinality({j \in 1 .. k - 1: all[j].ipid = "seq"})
        n == nth(Len(all) + 1)
        seq(k) == IF Descending(segs) THEN n - 1 - nth(k) ELSE nth(k)
    IN  [k \in DOMAIN all |->
            CASE all[k].ipid = "zero" -> -3
              [] all[k].ipid = "same" -> -2
              [] all[k].ipid = "seq" -> seq(k)
              [] all[k].ipid = "seqgroup" -> Group(segs, all[k])
              [] OTHER -> -1]
\* ids counts what ipid issued; datagrams draw random ones.
\* Mutant of Issued: a repeated segment counts once.
IssuedOnce(plan) == Len(plan.segs)
Issued(plan) == Len(Repeated(plan.segs))
BuildPlan(c, plan) ==
    LET units == Repeated(plan.segs) \o Repeated(plan.dgrams)
        ids == Ids(plan.segs) \o [k \in 1 .. Len(Repeated(plan.dgrams)) |-> -1]
        Emitted(k) == LET fs == Fragments(c, units[k])
                      IN  [f \in DOMAIN fs |-> Packet(c, units[k], ids[k], fs[f], f = Len(fs))]
    IN  FlattenSeq([k \in DOMAIN units |-> Emitted(k)])

-----------------------------------------------------------------------------
(* What the injector writes                                                    *)

Size(c, p) == IPHeader(c) + p.n
\* Mutant of FragmentForMTU: the header is not taken from the room.
FragmentForMTUWithoutHeader(mtu) ==
    LET pos == (mtu \div 8) * 8
        f[n \in Nat] ==
            IF mtu <= 0 \/ n <= mtu \/ pos < 8 \/ pos >= n - 20 THEN <<n>> ELSE <<20 + pos>> \o f[n - pos]
    IN  f
\* fragmentForMTU: the sizes of the frames an IPv4 packet of n bytes takes.
FragmentForMTU(mtu) ==
    LET pos == ((mtu - 20) \div 8) * 8
        f[n \in Nat] ==
            IF mtu <= 0 \/ n <= mtu \/ pos < 8 \/ pos >= n - 20 THEN <<n>> ELSE <<20 + pos>> \o f[n - pos]
    IN  f
Frames(c, p) == IF c.v6 THEN <<Size(c, p)>> ELSE FragmentForMTU(Mtu)[Size(c, p)]
\* bpfwrite refuses a frame that is longer than the link carries.
Fits(c, p) == \A n \in Range(Frames(c, p)): n <= Mtu

\* The application's own packet.
Raw(c) == [kind |-> "raw", off |-> 0, data |-> Payload(c),
           flags |-> (IF c.syn THEN {"syn"} ELSE {}) \cup (IF c.fin THEN {"fin"} ELSE {}),
           ttl |-> 0, id |-> -2, n |-> L4Header(c) + c.len, last |-> TRUE]
NoPacket == [kind |-> "none"]

-----------------------------------------------------------------------------
(* Transport.run                                                               *)

Init ==
    /\ phase = "read" /\ errors = 0 /\ why = "none"
    /\ pkt = NoPacket /\ prof = NoPacket
    /\ out = <<>> /\ built = 0 /\ sent = 0 /\ drop = FALSE
    /\ issued = 0 /\ wire = <<>> /\ fails = 0

Handled == UNCHANGED <<pkt, prof, out, built, sent, drop, issued, wire, fails>>
End(reason) == phase' = "ended" /\ why' = reason

\* A read that brought nothing, one that failed, one that can never work again.
ReadNothing == phase = "read" /\ errors' = 0 /\ Handled /\ UNCHANGED <<phase, why>>
ReadFails ==
    /\ phase = "read" /\ errors' = errors + 1
    /\ IF errors' > MaxReadErrors THEN End("errors") ELSE UNCHANGED <<phase, why>>
    /\ Handled
ReadFatal == phase = "read" /\ End("fatal") /\ Handled /\ UNCHANGED errors
\* The context is done or the transport is closed: looked at between packets.
Stop == phase = "read" /\ End("stopped") /\ Handled /\ UNCHANGED errors

\* handle: what neither parses nor has a flow is forwarded, and so is what the
\* engine refuses, what it has no profile for, and a plan that cannot be built.
Forwarding == phase' = "forward" /\ out' = <<>> /\ built' = 0 /\ drop' = FALSE /\ issued' = 0
EmitPlan(c, plan) ==
    IF ~Buildable(c, plan) THEN Forwarding
    ELSE /\ out' = BuildPlan(c, plan)
         /\ built' = Len(out')
         /\ drop' = plan.drop
         /\ issued' = Issued(plan)
         /\ phase' = "inject"
Handle(c, p) ==
    /\ phase = "read" /\ errors' = 0
    /\ pkt' = c /\ prof' = p /\ sent' = 0 /\ wire' = <<>> /\ fails' = 0
    /\ IF p.ops = <<>> \/ Refused(p.ops, c, p.unsupported) THEN Forwarding
       ELSE EmitPlan(c, Run(p.ops, c, p.unsupported))
    /\ UNCHANGED why

InjectOk ==
    /\ phase = "inject" /\ out # <<>> /\ Fits(pkt, Head(out))
    /\ wire' = Append(wire, Head(out)) /\ sent' = sent + 1 /\ out' = Tail(out)
    /\ UNCHANGED <<phase, errors, why, pkt, prof, built, drop, issued, fails>>
InjectFails ==
    /\ phase = "inject" /\ out # <<>> /\ (Fits(pkt, Head(out)) => fails < MaxFails)
    /\ fails' = fails + 1 /\ out' = Tail(out)
    /\ UNCHANGED <<phase, errors, why, pkt, prof, built, sent, drop, issued, wire>>
\* Every packet was tried: the original goes, too, unless the plan stands for it.
AllTried ==
    /\ phase = "inject" /\ out = <<>>
    /\ phase' = IF drop /\ ~(sent = 0 /\ built > 0) THEN "done" ELSE "forward"
    /\ UNCHANGED <<errors, why, pkt, prof, out, built, sent, drop, issued, wire, fails>>

Forward(ok) ==
    /\ phase = "forward" /\ (~ok => fails < MaxFails)
    /\ phase' = "done"
    /\ wire' = IF ok THEN Append(wire, Raw(pkt)) ELSE wire
    /\ fails' = IF ok THEN fails ELSE fails + 1
    /\ UNCHANGED <<errors, why, pkt, prof, out, built, sent, drop, issued>>

\* The loop turns to the next packet.
Turn ==
    /\ phase = "done" /\ phase' = "read"
    /\ pkt' = NoPacket /\ prof' = NoPacket /\ out' = <<>> /\ built' = 0 /\ sent' = 0 /\ drop' = FALSE
    /\ issued' = 0 /\ wire' = <<>> /\ fails' = 0
    /\ UNCHANGED <<errors, why>>

Next ==
    \/ ReadNothing \/ ReadFails \/ ReadFatal \/ Stop
    \/ \E c \in Contexts, p \in Profiles: Handle(c, p)
    \/ InjectOk \/ InjectFails \/ AllTried \/ Turn
    \/ \E ok \in BOOLEAN: Forward(ok)
Spec == Init /\ [][Next]_vars

-----------------------------------------------------------------------------
(* What the server makes of the packets, and the properties                     *)

\* A server starts from 64, 128 or 255, and no path takes 64 hops.
Distance(ttl) == Min({initial - ttl : initial \in {n \in {64, 128, 255}: n >= ttl}})
Real(w) == Chosen(w, {i \in DOMAIN w: w[i].last /\ w[i].kind \in {"data", "raw"}})
\* A TCP receiver: a segment that reaches the next byte is taken from there on,
\* one beyond it waits; what lies below it is dropped.
Accepts(st, q) ==
    IF q.off <= st.next /\ q.off + Len(q.data) > st.next
    THEN [st EXCEPT !.next = q.off + Len(q.data), !.got = @ \o Cut(q.data, st.next - q.off, Len(q.data))]
    ELSE st
\* Of what has come so far it takes what it can, in the order of the stream.
Drained(st, waiting) ==
    LET at == Sorted(DOMAIN waiting, [i \in DOMAIN waiting |-> waiting[i].off])
        took[k \in 0 .. Len(waiting)] == IF k = 0 THEN st ELSE Accepts(took[k - 1], waiting[at[k]])
    IN  took[Len(waiting)]
Received(w) ==
    LET came == Real(w)
        st[n \in 0 .. Len(came)] ==
            IF n = 0 THEN [next |-> 0, got |-> <<>>] ELSE Drained(st[n - 1], SubSeq(came, 1, n))
    IN  st[Len(came)].got
\* The places of the bytes, without what a rewrite did to them.
Places(s) == [i \in DOMAIN s |-> s[i] % Touched]
Blocked(p) == \E i \in DOMAIN p.ops: p.ops[i].op = "block"

\* When nothing failed, the server has the payload of the packet, each byte
\* once, in its place and none of a decoy or a filler, and the end of the
\* stream exactly at its end - or the profile blocks, and it has nothing. A UDP
\* packet arrives as one datagram, which may be padded or cut. (checkDataTiling,
\* dataFlags, the operations.) What a bare SYN becomes is SynOpens.
Delivered ==
    phase = "done" /\ fails = 0 /\ ~pkt.syn =>
        \/ wire = <<>> /\ Blocked(prof)
        \/ IF pkt.udp
           THEN /\ Len(Real(wire)) = 1
                /\ LET d == Real(wire)[1].data IN \A i \in DOMAIN d: d[i] = IF i <= pkt.len THEN i ELSE Fill
           ELSE /\ Places(Received(wire)) = Payload(pkt)
                /\ \A i \in DOMAIN wire: wire[i].kind \in {"data", "raw"} =>
                      ("fin" \in wire[i].flags <=> pkt.fin /\ wire[i].off + Len(wire[i].data) = pkt.len)
\* A plan made for a TCP packet can always be built: however the operations
\* change what earlier ones planned, the data segments stay the payload, each
\* byte once. (checkDataTiling is "the last line of defence".)
PlansTile ==
    [][phase = "read" /\ phase' = "forward" /\ ~pkt'.udp =>
            prof'.ops = <<>> \/ Refused(prof'.ops, pkt', prof'.unsupported)]_vars
\* No two plans use one ip_id: those a plan counts out lie below the number by
\* which the counter moves on, whatever is repeated, reversed or fragmented.
IdsReserved == \A i \in DOMAIN out: out[i].id < issued \/ out[i].id < 0
\* No packet that can be fragmented is refused by the link for its size.
Sendable == ~("v6" \in DOMAIN pkt) \/ pkt.v6 \/ \A i \in DOMAIN out: Fits(pkt, out[i])
\* Decoys leave before the first byte of the payload, whatever the order of the
\* operations in the file and whatever cuts the payload later. (An operation
\* that fakes each part puts its decoys between the parts.) (Compiled,
\* injInsertSegs, segTakeOverData.)
Interleaving(p) == \E i \in DOMAIN p.ops: p.ops[i].op \in {"fakedsplit", "fakeddisorder", "hostfakesplit"}
DecoysLead ==
    phase = "inject" /\ ~Interleaving(prof) =>
        \A i, j \in DOMAIN out: i < j /\ IsDecoy(out[j]) => IsDecoy(out[i])
\* A cut asked for in the middle of the name is made: no packet has all of it,
\* whatever the later operations make of the segments.
Cuts(p, c) == LET splits == Chosen(p.ops, {i \in DOMAIN p.ops: Phase(p.ops[i]) = 2})
              IN  /\ Len(splits) = 1 /\ Supported(splits[1], c) /\ splits[1].ovl = 0
                  /\ splits[1].op \in {"multisplit", "multidisorder", "fakedsplit", "fakeddisorder"}
                  /\ Specs(splits[1])[1] = [m |-> "midsld", off |-> 0]
                  /\ c.sld > 0 /\ c.sldLen >= 2 /\ ~c.udp /\ c.len <= MaxFake
NameCut ==
    phase = "inject" /\ Cuts(prof, pkt) =>
        \A i \in DOMAIN out: ~({pkt.sld + 1, pkt.sld + pkt.sldLen} \subseteq Range(Places(out[i].data)))
\* A decoy with an automatic TTL falls short of a server that is known to be some
\* hops away, as far as the least TTL allows, and never travels with the TTL of
\* the connection. (applyTTL, HopsFromTTL)
FallsShort ==
    phase = "inject" /\ Len(prof.ops) = 1 /\ prof.ops[1].auto # <<>> =>
        LET a == prof.ops[1].auto[1]
            least == IF a.min = 0 THEN 3 ELSE a.min
            near == Distance(pkt.seen) + a.delta
        IN  \A i \in DOMAIN out: IsDecoy(out[i]) =>
                /\ out[i].ttl # 0
                /\ pkt.seen # 0 /\ Distance(pkt.seen) # 0 => out[i].ttl <= least \/ out[i].ttl <= near
\* A SYN that no operation blocks opens the connection.
SynOpens ==
    phase = "done" /\ fails = 0 /\ pkt.syn /\ ~Blocked(prof) =>
        \E i \in DOMAIN wire: "syn" \in wire[i].flags
\* A plan of which only decoys reached the wire does not stand for the packet:
\* "no desync is always better than no data".
DataOrOriginal ==
    phase = "done" /\ drop /\ sent > 0 /\ ~Blocked(prof) /\ pkt.len > 0 => Real(wire) # <<>>

\* What is injected in the place of a packet gives the server the payload once and
\* in order, in packets the link takes, under ip_id values no other plan uses.
PayloadArrives == Delivered /\ Sendable /\ IdsReserved
\* What is to deceive does so without reaching the server: decoys lead and fall
\* short, and the name is cut.
DecoysDeceive == DecoysLead /\ FallsShort /\ NameCut
=============================================================================
