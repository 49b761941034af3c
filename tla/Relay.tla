-------------------------------- MODULE Relay --------------------------------
(***************************************************************************)
(* The relays of the proxy transport (internal/transport/proxy): the       *)
(* accept loop takes a connection if the pool has room, the relay recovers *)
(* its destination, dials it, reads the first payload, writes it as the    *)
(* plan of its profile says (ApplyPlan) and then copies both directions    *)
(* until each has ended, the relay was idle for too long, or the transport *)
(* stops.                                                                  *)
(***************************************************************************)
EXTENDS Desync

CONSTANTS
    Clients,      \* connections clients open
    Requests,     \* what one may send first; its caps are ProxyCaps
    Plans,        \* [ops, unsupported]: the profiles that may apply
    Readable,     \* whether the TTL of the upstream socket can be read
    MaxConns,     \* relays the pool has room for
    IdleTicks,    \* ticks of the watchdog in RelayIdleTimeout
    MaxChunks     \* BOUND: what each side sends after the first payload

ProxyCaps == {"segment", "tlsrec", "drop"}
ASSUME RelayAssumption ==
    /\ Requests \subseteq {c \in Context: c.caps = ProxyCaps /\ ~c.udp /\ c.len > 0}
    /\ Plans \subseteq Profile
    /\ Readable \subseteq BOOLEAN /\ {MaxConns, IdleTicks, MaxChunks} \subseteq Nat
    /\ IsFiniteSet(Clients)

VARIABLES
    serve,    \* "serving" | "stopping" | "ended": serve and its accept loop
    conn,     \* each client's relay
    slots     \* taken from the pool (sem)
relayVars == <<serve, conn, slots>>

Dirs == {"up", "down"}
NoRequest == [len |-> 0]
NoPlan == [ops |-> <<>>, unsupported |-> "skip"]
Idle == [at |-> "none", req |-> NoRequest, plan |-> NoPlan, pieces |-> <<>>, ttl |-> "real", known |-> TRUE,
         wrote |-> <<>>, offered |-> [d \in Dirs |-> 0], copied |-> [d \in Dirs |-> 0],
         fin |-> [d \in Dirs |-> FALSE], copy |-> [d \in Dirs |-> "none"], quiet |-> 0, expired |-> FALSE]

-----------------------------------------------------------------------------
(* Segments and ApplyPlan: relay.go                               *)

\* The data segments that have bytes, in stream order.
Ordered(plan) ==
    LET full == {i \in DataAt(plan.segs): plan.segs[i].data # <<>>}
        at == Sorted(full, [i \in full |-> plan.segs[i].off])
    IN  [k \in DOMAIN at |-> plan.segs[at[k]]]
\* Where the stream stands before the k-th: bytes below the window never count.
Covered(segs, k) == LET ends == {EndOf(segs[j]) : j \in 1 .. k - 1} \cup {0}
                    IN  CHOOSE e \in ends: \A f \in ends: f <= e
Below(s) == EndOf(s) <= 0
Contiguous(segs) ==
    \A k \in DOMAIN segs: Below(segs[k]) \/ (segs[k].off <= Covered(segs, k) /\ EndOf(segs[k]) > Covered(segs, k))
Segments(plan) ==
    LET segs == Ordered(plan)
        Piece(k) == [data |-> Cut(segs[k].data, Covered(segs, k) - segs[k].off, Len(segs[k].data)),
                     low |-> segs[k].ttl = 1]
        kept == Ascending({k \in DOMAIN segs: ~Below(segs[k])})
    IN  [i \in DOMAIN kept |-> Piece(kept[i])]

\* What ApplyPlan does with a plan: block, write its pieces, or write the
\* request as it came when the plan has none or they do not make one stream.
Blocks(plan) == plan.segs = <<>> /\ plan.drop
Verbatim(c) == <<[data |-> Payload(c), low |-> FALSE]>>
\* Mutant of Pieces: the parts of the plan are written together.
PiecesWhole(c, plan) == Verbatim(c)
Pieces(c, plan) ==
    IF plan.segs = <<>> \/ ~Contiguous(Ordered(plan)) \/ Segments(plan) = <<>> THEN Verbatim(c)
    ELSE Segments(plan)

-----------------------------------------------------------------------------
(* serve and acceptLoop                                                         *)

RelayInit ==
    /\ serve = "serving" /\ slots = 0
    /\ conn = [r \in Clients |-> Idle]
At(r, where) == conn[r].at = where
Set(r, rec) == conn' = [conn EXCEPT ![r] = rec]
Goto(r, where) == Set(r, [conn[r] EXCEPT !.at = where])
Same == UNCHANGED <<serve, slots>>
\* The deferred calls of a relay: both sockets are closed and its slot freed.
\* Mutant of Leave: the slot is kept.
LeaveHolding(r) == Set(r, [Idle EXCEPT !.at = "gone"]) /\ Same
Leave(r) == Set(r, [Idle EXCEPT !.at = "gone"]) /\ slots' = slots - 1 /\ UNCHANGED serve

\* A connection beyond the pool is closed at once.
Accept(r) ==
    /\ serve = "serving" /\ At(r, "none")
    /\ IF slots < MaxConns
       THEN Goto(r, "lookup") /\ slots' = slots + 1 /\ UNCHANGED serve
       ELSE Goto(r, "gone") /\ Same
\* A fatal error of accept cancels what the relays run under; a transient one
\* is retried after a pause.
AcceptFails == serve = "serving" /\ serve' = "stopping" /\ UNCHANGED <<conn, slots>>
Cancel == serve = "serving" /\ serve' = "stopping" /\ UNCHANGED <<conn, slots>>
\* serve returns when every listener's loop has; the relays need not have ended.
ServeReturns == serve = "stopping" /\ serve' = "ended" /\ UNCHANGED <<conn, slots>>
Done == serve # "serving"

-----------------------------------------------------------------------------
(* Transport.handle                                                             *)

\* No natlook entry, an error, or a loop to our own listener: nothing is dialled.
OrigDst(r, ok) == At(r, "lookup") /\ IF ok THEN Goto(r, "dial") /\ Same ELSE Leave(r)
Dial(r, ok, known) ==
    /\ At(r, "dial") /\ (Done => ~ok)
    /\ IF ok THEN Set(r, [conn[r] EXCEPT !.at = "first", !.known = known]) /\ Same ELSE Leave(r)
\* The read ends with bytes, with a timeout (the server speaks first) or with
\* an error or the end of the stream.
ReadFirst(r, c, p) ==
    /\ At(r, "first")
    /\ LET plan == Run(p.ops, c, p.unsupported)
           rec == [conn[r] EXCEPT !.req = c, !.plan = p]
       IN  IF p.ops = <<>> \/ Refused(p.ops, c, p.unsupported)
           THEN Set(r, [rec EXCEPT !.at = "write", !.pieces = Verbatim(c)]) /\ Same
           ELSE IF Blocks(plan) THEN Leave(r)
           ELSE Set(r, [rec EXCEPT !.at = "write", !.pieces = Pieces(c, plan)]) /\ Same
\* (What was written is looked at before the copying starts.)
StartSplice(r) ==
    Set(r, [Idle EXCEPT !.at = "splice", !.ttl = conn[r].ttl, !.known = conn[r].known, !.copy = [d \in Dirs |-> "run"]]) /\ Same
ReadTimesOut(r) == At(r, "first") /\ StartSplice(r)
ReadEnds(r) == At(r, "first") /\ Leave(r)

\* ConnWriter.SetTTL: 0 asks for the TTL the socket had, if that could be read.
\* Mutant of SetTTL: 0 is no TTL to set.
SetTTLLiteral(rec, ttl) == IF ttl = "real" THEN rec ELSE [rec EXCEPT !.ttl = ttl]
SetTTL(rec, ttl) == IF ttl = "real" /\ ~rec.known THEN rec ELSE [rec EXCEPT !.ttl = ttl]
\* Mutant of Sent: what was to be lost on the way is written again.
SentAgain(rec, piece) == [rec EXCEPT !.wrote = @ \o piece.data \o IF piece.low THEN piece.data ELSE <<>>, !.pieces = Tail(@)]
Sent(rec, piece) == [rec EXCEPT !.wrote = @ \o piece.data, !.pieces = Tail(@)]
\* One piece: with a low TTL it is drained before the TTL is set back. A TTL
\* that cannot be lowered is left alone; one that cannot be restored, or a
\* write that fails, ends the relay.
WritePiece(r, lowered, restored, ok) ==
    LET piece == Head(conn[r].pieces)
        low == piece.low /\ lowered
        before == IF low THEN SetTTL(conn[r], "one") ELSE conn[r]
        after == Sent(before, piece)
    IN  /\ At(r, "write") /\ conn[r].pieces # <<>>
        /\ (~piece.low => lowered /\ restored) /\ (~low => restored)
        /\ IF ~ok \/ ~restored THEN Leave(r)
           ELSE Set(r, IF low THEN SetTTL(after, "real") ELSE after) /\ Same
Written(r) == At(r, "write") /\ conn[r].pieces = <<>> /\ StartSplice(r)

-----------------------------------------------------------------------------
(* splice                                                                       *)

Running(r, d) == At(r, "splice") /\ conn[r].copy[d] = "run"
PeerSends(r, d) ==
    /\ At(r, "splice") /\ ~conn[r].fin[d] /\ conn[r].offered[d] < MaxChunks
    /\ Set(r, [conn[r] EXCEPT !.offered[d] = @ + 1]) /\ Same
PeerCloses(r, d) == At(r, "splice") /\ ~conn[r].fin[d] /\ Set(r, [conn[r] EXCEPT !.fin[d] = TRUE]) /\ Same

\* One turn of copyDir; when it ends the other side gets the end of the stream.
Copy(r, d) ==
    /\ Running(r, d) /\ ~conn[r].expired /\ conn[r].copied[d] < conn[r].offered[d]
    /\ Set(r, [conn[r] EXCEPT !.copied[d] = @ + 1, !.quiet = 0]) /\ Same
CopyEnds(r, d) ==
    /\ Running(r, d) /\ conn[r].copied[d] = conn[r].offered[d] /\ conn[r].fin[d]
    /\ Set(r, [conn[r] EXCEPT !.copy[d] = "closed"]) /\ Same
CopyFails(r, d) == Running(r, d) /\ Set(r, [conn[r] EXCEPT !.copy[d] = "failed"]) /\ Same
Expired(r, d) == Running(r, d) /\ conn[r].expired /\ Set(r, [conn[r] EXCEPT !.copy[d] = "failed"]) /\ Same

\* The watchdog: a tick without a byte counts, the context ends it at once.
\* Mutant of Tick: the watchdog starts over with each tick.
TickNever(r) == At(r, "splice") /\ ~conn[r].expired /\ Set(r, [conn[r] EXCEPT !.quiet = 1]) /\ Same
Tick(r) ==
    /\ At(r, "splice") /\ ~conn[r].expired
    /\ Set(r, IF conn[r].quiet >= IdleTicks THEN [conn[r] EXCEPT !.expired = TRUE] ELSE [conn[r] EXCEPT !.quiet = @ + 1])
    /\ Same
CtxDone(r) == At(r, "splice") /\ Done /\ ~conn[r].expired /\ Set(r, [conn[r] EXCEPT !.expired = TRUE]) /\ Same
SpliceEnds(r) == At(r, "splice") /\ (\A d \in Dirs: ~Running(r, d)) /\ Leave(r)

HandleConn(r) ==
    \/ \E ok \in BOOLEAN: OrigDst(r, ok)
    \/ \E ok \in BOOLEAN, known \in Readable: Dial(r, ok, known)
    \/ (\E c \in Requests, p \in Plans: ReadFirst(r, c, p)) \/ ReadTimesOut(r) \/ ReadEnds(r)
    \/ \E lowered, restored, ok \in BOOLEAN: WritePiece(r, lowered, restored, ok)
    \/ Written(r)
Splice(r) == SpliceEnds(r) \/ CtxDone(r) \/ Tick(r) \/ \E d \in Dirs: Copy(r, d) \/ CopyEnds(r, d) \/ Expired(r, d)
RelayNext ==
    \/ AcceptFails \/ Cancel \/ ServeReturns
    \/ \E r \in Clients:
          \/ Accept(r) \/ HandleConn(r) \/ Splice(r)
          \/ \E d \in Dirs: PeerSends(r, d) \/ PeerCloses(r, d) \/ CopyFails(r, d)
\* Every call of a relay returns: a dial and the first read time out, and the
\* watchdog of a splice ticks.
RelayFairness == WF_relayVars(ServeReturns) /\ \A r \in Clients: WF_relayVars(HandleConn(r)) /\ WF_relayVars(Splice(r))
RelaySpec == RelayInit /\ [][RelayNext]_relayVars /\ RelayFairness

-----------------------------------------------------------------------------
(* Properties                                                                   *)

\* The bytes of the request among those written, without what was added.
Original(s) == Chosen([i \in DOMAIN s |-> s[i] % Touched], {i \in DOMAIN s: s[i] % Touched \notin {0, Header % Touched}})
\* The server gets the request once, in order and without a byte of an overlap
\* or a decoy: all of it before anything is spliced, a beginning of it when the
\* relay ends early. (Segments, ApplyPlan)
WrittenOnce ==
    \A r \in Clients:
        /\ {Fill, Decoy} \cap Range(conn[r].wrote) = {}
        /\ IsPrefix(Original(conn[r].wrote), Payload(conn[r].req))
        /\ At(r, "write") /\ conn[r].pieces = <<>> => Original(conn[r].wrote) = Payload(conn[r].req)
\* A cut inside the name is kept: no single write carries all of it. (A socket
\* without Nagle sends a segment for each write.)
Cutting(r) ==
    LET ops == conn[r].plan.ops
        c == conn[r].req
        splits == Chosen(ops, {i \in DOMAIN ops: Phase(ops[i]) = 2})
    IN  /\ Len(splits) = 1 /\ splits[1].ovl = 0 /\ splits[1].pos # <<>> /\ splits[1].pos[1] = [m |-> "midsld", off |-> 0]
        /\ ~Refused(ops, c, conn[r].plan.unsupported) /\ \A i \in DOMAIN ops: ops[i].op # "block"
        /\ splits[1].op = "multisplit" /\ c.sld > 0 /\ c.sldLen >= 2
WritesCut ==
    \A r \in Clients: At(r, "write") /\ Cutting(r) =>
        \A i \in DOMAIN conn[r].pieces:
            ~({conn[r].req.sld + 1, conn[r].req.sld + conn[r].req.sldLen}
                \subseteq Range(Original(conn[r].pieces[i].data)))
\* A relay that copies does so with the TTL the socket had, if that could be read
\* before a plan lowered it (ConnWriter.SetTTL restores nothing otherwise).
RealTTL == \A r \in Clients: At(r, "splice") /\ conn[r].known => conn[r].ttl = "real"
\* The pool counts exactly the relays there are.
PoolExact == slots = Cardinality({r \in Clients: conn[r].at \notin {"none", "gone"}}) /\ slots <= MaxConns
\* The server gets the payload once and in order, cut where the profile says, the
\* copying is done with the TTL the socket had, and a slot is taken for each
\* connection in the pool and for no other. (ApplyPlan, ConnWriter, acceptLoop)
RelaysFaithful == WrittenOnce /\ WritesCut /\ RealTTL /\ PoolExact
\* A relay that was accepted ends once no more bytes move or the transport
\* stops, even if neither side ever closes.
RelaysEnd == \A r \in Clients: (conn[r].at # "none") ~> (conn[r].at = "gone")
=============================================================================
