-------------------------------- MODULE Engine --------------------------------
(***************************************************************************)
(* The flow table and the choice of a profile (internal/engine), with its  *)
(* two callers: the datapath goroutine of the divert transport, which      *)
(* hands it every packet (OnTCP, OnUDP), and the relay goroutines of the   *)
(* proxy transport, which ask once per connection (PlanStream).            *)
(*                                                                         *)
(* A profile is the set `on' of the flows its protocol, ports and          *)
(* addresses admit, the application protocols `l7' it wants (none: any),   *)
(* a static hostlist (if `gated'), an exclusion list, the name of a        *)
(* self-learning list and the two counters of its window. What its ops do  *)
(* to a packet is not modelled.                                            *)
(***************************************************************************)
EXTENDS Integers, Sequences, FiniteSets

CONSTANTS
    Key,         \* the 4-tuples
    Handler,     \* the goroutines that may call the engine
    Entry,       \* identities of flow entries
    Host, NoHost,
    L7, NoL7,    \* recognised application protocols
    List, NoList,\* self-learning hostlists
    Strategies,  \* the strategies an operator may load
    Threshold,   \* AutoList.RetransThreshold
    None,        \* no entry
    MaxSent,     \* bound on the payloads of one connection
    MaxCount,    \* bound on the packet counters: above every window of a profile
    MaxReloads   \* bound on the changes of strategy

Counter == [kind: {"none", "n", "d", "s"}, n: 0 .. MaxCount - 1]
Profile == [on: SUBSET Key, l7: SUBSET L7, gated: BOOLEAN, hosts: SUBSET Host,
            except: SUBSET Host, auto: List \cup {NoList},
            start: Counter, cutoff: Counter]
Payload == [host: Host \cup {NoHost}, l7: L7 \cup {NoL7}]

ASSUME SetsAssumption == NoHost \notin Host /\ NoL7 \notin L7 /\ NoList \notin List /\ None \notin Entry
ASSUME StrategiesAssumption == Strategies \subseteq Seq(Profile)
ASSUME EngineBounds == /\ Threshold \in Nat \ {0} /\ MaxCount \in Nat \ {0}
                       /\ MaxSent \in Nat /\ MaxReloads \in Nat

VARIABLES
    mode,    \* "tcp" or "udp": the datapath goroutine; "stream": relays
    chain,   \* the strategies so far; the last is the active one, gen = Len(chain)
    table,   \* the flow map: key -> entry
    obj,     \* the flow entries; a handler may still hold one the map has lost
    lists,   \* the self-learning lists
    pc,      \* where each handler is
    snap,    \* the generation it read at its start
    key,     \* its flow
    pkt,     \* its packet
    ptr,     \* the entry it found
    out,     \* the profile it runs (0: none), and whether it decided that now
    sent,    \* environment: the payloads of each flow's current connection
    beside   \* history: relays that shared their 4-tuple with another

netVars == <<sent, beside>>
vars == <<mode, chain, table, obj, lists, pc, snap, key, pkt, ptr, out, netVars>>

Gen == Len(chain)
Packet == [kind: {"syn", "ack", "data"}, seq: 0 .. MaxSent, pay: Payload, fin: BOOLEAN]
Flow == [gen: 0 .. MaxReloads + 1, isn: BOOLEAN, pkts: 0 .. MaxCount, data: 0 .. MaxCount,
         last: 0 .. MaxSent, host: Host \cup {NoHost}, l7: L7 \cup {NoL7},
         matched: BOOLEAN, idx: Nat, fast: BOOLEAN, monitor: List \cup {NoList}]
Blank == [host |-> NoHost, l7 |-> NoL7]
NoPkt == [kind |-> "ack", seq |-> 0, pay |-> Blank, fin |-> FALSE]
NewFlow == [gen |-> 0, isn |-> FALSE, pkts |-> 0, data |-> 0, last |-> 0,
            host |-> NoHost, l7 |-> NoL7, matched |-> FALSE, idx |-> 0,
            fast |-> FALSE, monitor |-> NoList]
Learning == [learned: SUBSET Host, count: [Host -> 0 .. Threshold - 1]]

TypeOK ==
    /\ mode \in {"tcp", "udp", "stream"}
    /\ chain \in Seq(Strategies) /\ Len(chain) \in 1 .. MaxReloads + 1
    /\ table \in [Key -> Entry \cup {None}]
    /\ obj \in [Entry -> Flow]
    /\ lists \in [List -> Learning]
    /\ pc \in [Handler -> {"idle", "open", "read", "found", "decided"}]
    /\ snap \in [Handler -> 0 .. MaxReloads + 1]
    /\ key \in [Handler -> Key]
    /\ pkt \in [Handler -> Packet]
    /\ ptr \in [Handler -> Entry \cup {None}]
    /\ out \in [Handler -> [idx: Nat, new: BOOLEAN]]
    /\ sent \in [Key -> Seq(Payload)] /\ \A k \in Key : Len(sent[k]) <= MaxSent
    /\ beside \in [Handler -> BOOLEAN]

Init ==
    /\ mode \in {"tcp", "udp", "stream"}
    /\ chain \in {<<s>> : s \in Strategies}
    /\ table = [k \in Key |-> None]
    /\ obj = [i \in Entry |-> NewFlow]
    /\ lists = [l \in List |-> [learned |-> {}, count |-> [h \in Host |-> 0]]]
    /\ pc = [h \in Handler |-> "idle"]
    /\ snap = [h \in Handler |-> 0]
    /\ key \in [Handler -> Key]
    /\ pkt = [h \in Handler |-> NoPkt]
    /\ ptr = [h \in Handler |-> None]
    /\ out = [h \in Handler |-> [idx |-> 0, new |-> FALSE]]
    /\ sent = [k \in Key |-> <<>>]
    /\ beside = [h \in Handler |-> FALSE]

-----------------------------------------------------------------------------
(* Filters (match.go). `ls' are the self-learning lists.                   *)

\* build registers the lists of the strategy it starts with, a change of
\* strategy registers none.
Registered == {chain[1][i].auto : i \in DOMAIN chain[1]} \ {NoList}

\* MatchFilterIgnoringHost: matchCheap and the address sets. An unrecognised
\* payload never names a protocol.
MatchFilterIgnoringHost(p, k, l7) == k \in p.on /\ (p.l7 = {} \/ l7 \in p.l7)

MatchFilter(p, k, v, ls) ==
    /\ MatchFilterIgnoringHost(p, k, v.l7)
    /\ v.host \notin p.except
    /\ p.gated \/ p.auto \in Registered =>
          \/ p.gated /\ v.host \in p.hosts
          \/ p.auto \in Registered /\ v.host \in ls[p.auto].learned

\* The first profile of s that admits the flow (0: none does).
IsFirst(s, k, v, ls, i) ==
    /\ \A j \in DOMAIN s : (j < i \/ i = 0) => ~MatchFilter(s[j], k, v, ls)
    /\ i # 0 => i \in DOMAIN s /\ MatchFilter(s[i], k, v, ls)

\* Mutant of HostGatedBefore: only the static lists count.
HostGatedBeforeStatic(s, n, k, l7) ==
    \E i \in DOMAIN s : i < n /\ s[i].gated /\ MatchFilterIgnoringHost(s[i], k, l7)

HostGatedBefore(s, n, k, l7) ==
    \E i \in DOMAIN s : /\ i < n /\ (s[i].gated \/ s[i].auto # NoList)
                        /\ MatchFilterIgnoringHost(s[i], k, l7)

\* The list to monitor: that of the first self-learning profile that fits.
AutoCandidate(s, k, l7, a) ==
    LET fits(i) == s[i].auto # NoList /\ MatchFilterIgnoringHost(s[i], k, l7)
    IN \/ \E i \in DOMAIN s : /\ fits(i) /\ a = s[i].auto
                              /\ \A j \in DOMAIN s : j < i => ~fits(j)
       \/ a = NoList /\ \A i \in DOMAIN s : ~fits(i)

-----------------------------------------------------------------------------
(* Self-learning lists (AutoList.Retrans, Engine.feedAuto).                *)

\* Mutant of Fed: a learned host keeps its pending counter.
FedKeepsCount(ls, l, h) ==
    IF l \notin Registered \/ h = NoHost THEN ls
    ELSE IF h \in ls[l].learned THEN ls
    ELSE [ls EXCEPT ![l].count[h] = @ + 1,
                    ![l].learned = IF ls[l].count[h] + 1 >= Threshold THEN @ \cup {h} ELSE @]

Fed(ls, l, h) ==
    IF l \notin Registered \/ h = NoHost THEN ls
    ELSE IF h \in ls[l].learned THEN ls
    ELSE IF ls[l].count[h] + 1 >= Threshold
         THEN [ls EXCEPT ![l].learned = @ \cup {h}, ![l].count[h] = 0]
         ELSE [ls EXCEPT ![l].count[h] = @ + 1]

-----------------------------------------------------------------------------
(* One flow entry, under its lock.                                         *)

UpTo(n, max) == IF n > max THEN max ELSE n

\* Mutant of ReviseGeneration: the cached decision stays.
ReviseGenerationNot(e, g) == [e EXCEPT !.gen = g]

ReviseGeneration(e, g) ==
    IF e.gen = g THEN e
    ELSE [e EXCEPT !.gen = g, !.matched = FALSE, !.idx = 0, !.fast = FALSE]

\* Mutant of Renewed: the hostname is sticky across connections.
RenewedKeepsHost(e) ==
    [NewFlow EXCEPT !.gen = e.gen, !.isn = TRUE, !.host = e.host, !.l7 = e.l7]

\* A SYN: a new connection reuses the port.
Renewed(e) == [NewFlow EXCEPT !.gen = e.gen, !.isn = TRUE]

\* The counters. A payload with the sequence number of the last one is a
\* retransmission; UDP and streams have no sequence numbers.
Counted(e, p) ==
    [e EXCEPT !.pkts = UpTo(@ + 1, MaxCount),
              !.data = IF p.kind = "data" THEN UpTo(@ + 1, MaxCount) ELSE @,
              !.last = IF p.kind = "data" /\ mode = "tcp" THEN p.seq ELSE @]

IsRetrans(e, p) == mode = "tcp" /\ p.kind = "data" /\ p.seq = e.last /\ e.last # 0

\* Classify: what the payload reveals is sticky.
Classified(e, p) ==
    [e EXCEPT !.host = IF p.pay.host # NoHost THEN p.pay.host ELSE @,
              !.l7 = IF p.pay.l7 # NoL7 THEN p.pay.l7 ELSE @]

CounterValue(c, e, p) ==
    CASE c.kind = "n" -> e.pkts
      [] c.kind = "d" -> e.data
      [] c.kind = "s" -> IF e.isn THEN p.seq ELSE 0
      [] c.kind = "none" -> 0

View(e) == [host |-> e.host, l7 |-> e.l7]

\* selectProfile, selectProfileStream: a cached index, or the first match.
Chosen(s, k, e, ls, i) ==
    IF e.matched THEN i = IF e.idx \in DOMAIN s THEN e.idx ELSE 0
                 ELSE IsFirst(s, k, View(e), ls, i)

\* Mutant of Picked: the verdict is closed while a list may still learn.
PickedWhileLearning(s, k, e, i, a) ==
    IF e.matched THEN e
    ELSE IF i # 0
         THEN IF e.host = NoHost /\ HostGatedBefore(s, i, k, e.l7) THEN e
              ELSE [e EXCEPT !.matched = TRUE, !.idx = i]
         ELSE [e EXCEPT !.monitor = a,
                        !.matched = \/ mode = "stream"
                                    \/ e.host # NoHost
                                    \/ ~HostGatedBefore(s, Len(s) + 1, k, e.l7)]

\* pick: e with the verdict i, if no later packet can change it. A stream has
\* no later packet.
Picked(s, k, e, i, a) ==
    IF e.matched THEN e
    ELSE IF i # 0
         THEN IF e.host = NoHost /\ HostGatedBefore(s, i, k, e.l7) THEN e
              ELSE [e EXCEPT !.matched = TRUE, !.idx = i]
         ELSE [e EXCEPT !.monitor = a,
                        !.matched = \/ mode = "stream"
                                    \/ /\ a = NoList
                                       /\ \/ e.host # NoHost
                                          \/ ~HostGatedBefore(s, Len(s) + 1, k, e.l7)]

\* inWindow. PlanStream does not ask.
Early(s, e, p, i) ==
    /\ mode # "stream" /\ s[i].start.kind # "none"
    /\ CounterValue(s[i].start, e, p) < s[i].start.n

Late(s, e, p, i) ==
    /\ mode # "stream" /\ s[i].cutoff.kind # "none" /\ ~Early(s, e, p, i)
    /\ CounterValue(s[i].cutoff, e, p) > s[i].cutoff.n

\* Mutant of Fast: an open "no profile" takes the fast path, too.
FastOpen(s, e, p, i) == mode # "stream" /\ (i = 0 \/ Late(s, e, p, i))

\* What puts a flow on the fast path: a final "no profile", or a cutoff.
Fast(s, e, p, i) == mode # "stream" /\ IF i = 0 THEN e.matched ELSE Late(s, e, p, i)

-----------------------------------------------------------------------------
(* The callers.                                                            *)

Goto(h, label) == pc' = [pc EXCEPT ![h] = label]

\* The datapath is one goroutine: the others are relays.
MayRun(h) == mode = "stream" \/ \A g \in Handler \ {h} : pc[g] = "idle"

\* A client sends a packet and the datapath reads it: a SYN, one without a
\* payload, the next payload or an earlier one again.
Capture(h) ==
    /\ mode # "stream" /\ pc[h] = "idle" /\ MayRun(h)
    /\ \E k \in Key, p \in Packet :
          /\ key' = [key EXCEPT ![h] = k]
          /\ pkt' = [pkt EXCEPT ![h] = p]
          /\ p.fin => mode = "tcp" /\ p.kind # "syn"
          /\ \/ /\ p.kind = "syn" /\ mode = "tcp" /\ p.seq = 0 /\ p.pay = Blank
                /\ sent' = [sent EXCEPT ![k] = <<>>]
             \/ /\ p.kind = "ack" /\ p.seq = 0 /\ p.pay = Blank
                /\ UNCHANGED sent
             \/ /\ p.kind = "data" /\ p.seq = Len(sent[k]) + 1
                /\ sent' = [sent EXCEPT ![k] = Append(@, p.pay)]
             \/ /\ p.kind = "data" /\ p.seq \in DOMAIN sent[k] /\ p.pay = sent[k][p.seq]
                /\ UNCHANGED sent
    /\ snap' = [snap EXCEPT ![h] = Gen]
    /\ Goto(h, "read")
    /\ UNCHANGED <<mode, chain, table, obj, lists, ptr, out, beside>>

\* The proxy accepts a connection; the client may reuse a 4-tuple whose relay
\* has not ended.
Accept(h) ==
    /\ mode = "stream" /\ pc[h] = "idle"
    /\ \E k \in Key :
          /\ key' = [key EXCEPT ![h] = k]
          /\ LET others == {g \in Handler \ {h} : pc[g] # "idle" /\ key[g] = k} IN
                beside' = [g \in Handler |-> \/ g \in others
                                             \/ g = h /\ others # {}
                                             \/ g # h /\ beside[g]]
    /\ Goto(h, "open")
    /\ UNCHANGED <<mode, chain, table, obj, lists, snap, pkt, ptr, out, sent>>

\* Its first payload has been read: PlanStream reads the strategy.
FirstPayload(h) ==
    /\ pc[h] = "open"
    /\ \E p \in Payload :
          pkt' = [pkt EXCEPT ![h] = [NoPkt EXCEPT !.kind = "data", !.pay = p]]
    /\ snap' = [snap EXCEPT ![h] = Gen]
    /\ Goto(h, "read")
    /\ UNCHANGED <<mode, chain, table, obj, lists, key, ptr, out, netVars>>

\* flow: the tracked entry, or a new one.
Find(h) ==
    /\ pc[h] = "read"
    /\ \E i \in Entry :
          /\ IF table[key[h]] # None
             THEN i = table[key[h]] /\ UNCHANGED <<table, obj>>
             ELSE /\ \A k \in Key : table[k] # i
                  /\ \A g \in Handler : ptr[g] # i
                  /\ table' = [table EXCEPT ![key[h]] = i]
                  /\ obj' = [obj EXCEPT ![i] = NewFlow]
          /\ ptr' = [ptr EXCEPT ![h] = i]
    /\ Goto(h, "found")
    /\ UNCHANGED <<mode, chain, lists, snap, key, pkt, out, netVars>>

\* The rest of OnTCP, OnUDP and PlanStream, under the lock of the entry.
Decide(h) ==
    /\ pc[h] = "found"
    /\ LET s == chain[snap[h]]
           p == pkt[h]
           e1 == ReviseGeneration(obj[ptr[h]], snap[h])
           e2 == IF p.kind = "syn" THEN Renewed(e1) ELSE e1
           again == IsRetrans(e2, p)
           e3 == Counted(e2, p)
           ls == IF again THEN Fed(lists, e3.monitor, e3.host) ELSE lists
           e4 == Classified(e3, p)
       IN \/ /\ e3.fast \/ p.kind = "ack"
             /\ obj' = [obj EXCEPT ![ptr[h]] = e3]
             /\ lists' = ls
             /\ out' = [out EXCEPT ![h] = [idx |-> 0, new |-> FALSE]]
          \/ /\ ~e3.fast /\ p.kind # "ack"
             /\ \E i \in 0 .. Len(s), a \in List \cup {NoList} :
                   LET e5 == Picked(s, key[h], e4, i, a) IN
                   /\ Chosen(s, key[h], e4, ls, i)
                   /\ AutoCandidate(s, key[h], e4.l7, a)
                   /\ obj' = [obj EXCEPT ![ptr[h]] = [e5 EXCEPT !.fast = Fast(s, e5, p, i)]]
                   /\ lists' = IF again /\ i # 0 THEN Fed(ls, s[i].auto, e4.host) ELSE ls
                   /\ out' = [out EXCEPT ![h] =
                         [idx |-> IF i = 0 THEN 0
                                  ELSE IF Early(s, e5, p, i) \/ Late(s, e5, p, i) THEN 0 ELSE i,
                          new |-> e5.matched /\ ~e4.matched]]
    /\ Goto(h, "decided")
    /\ UNCHANGED <<mode, chain, table, snap, key, pkt, ptr, netVars>>

\* Entries nobody refers to are gone.
Collected(t, q) ==
    [i \in Entry |-> IF i \in {t[k] : k \in Key} \cup {q[g] : g \in Handler} THEN obj[i]
                     ELSE NewFlow]

Leave(h, forgotten) ==
    LET t == IF forgotten THEN [table EXCEPT ![key[h]] = None] ELSE table
        q == [ptr EXCEPT ![h] = None]
    IN /\ table' = t /\ ptr' = q /\ obj' = Collected(t, q)
       /\ pkt' = [pkt EXCEPT ![h] = NoPkt]
       /\ out' = [out EXCEPT ![h] = [idx |-> 0, new |-> FALSE]]
       /\ snap' = [snap EXCEPT ![h] = 0]
       /\ beside' = [beside EXCEPT ![h] = FALSE]
       /\ Goto(h, "idle")
       /\ UNCHANGED <<mode, chain, lists, key, sent>>

\* forgetIfClosing, after the packet has been forwarded or replaced.
Forwarded(h) ==
    /\ mode # "stream" /\ pc[h] = "decided"
    /\ Leave(h, pkt[h].fin)

\* The relay ends, with a payload or before one: the deferred Forget.
Hangup(h) ==
    /\ mode = "stream" /\ pc[h] \in {"open", "decided"}
    /\ Leave(h, TRUE)

\* The periodic GC of the datapath goroutine, or a sweep by a call for another
\* flow (the entry of the flow that triggers it is the newest and stays).
Evict ==
    /\ \E k \in Key :
          LET t == [table EXCEPT ![k] = None] IN
          /\ table[k] # None
          /\ table' = t /\ obj' = Collected(t, ptr)
    /\ mode # "stream" => \A h \in Handler : pc[h] = "idle"
    /\ UNCHANGED <<mode, chain, lists, pc, snap, key, pkt, ptr, out, netVars>>

\* A change of strategy: the flows keep their entries.
Reload ==
    /\ Gen <= MaxReloads
    /\ \E s \in Strategies : chain' = Append(chain, s)
    /\ UNCHANGED <<mode, table, obj, lists, pc, snap, key, pkt, ptr, out, netVars>>

Next ==
    \/ \E h \in Handler :
          \/ Capture(h) \/ Accept(h) \/ FirstPayload(h) \/ Find(h) \/ Decide(h)
          \/ Forwarded(h) \/ Hangup(h)
    \/ Evict \/ Reload

Spec == Init /\ [][Next]_vars

-----------------------------------------------------------------------------
\* What VerdictFinal asks of a strategy: an exclusion list comes with or after an
\* inclusion list for the same flows, and no two profiles learn the same list.
Settles(s) ==
    \A j \in DOMAIN s :
        /\ s[j].except # {} =>
              \A k \in s[j].on : \E i \in 1 .. j :
                  /\ k \in s[i].on
                  /\ s[i].l7 = {} \/ (s[j].l7 # {} /\ s[j].l7 \subseteq s[i].l7)
                  /\ s[i].gated \/ (i < j /\ s[i].auto # NoList)
        /\ \A i \in DOMAIN s : s[i].auto = s[j].auto /\ s[j].auto # NoList => i = j

(* "Sets f.Matched only when the verdict cannot change later" (pick): a     *)
(* verdict is the first match for whatever host the rest of the connection   *)
(* may name.                                                                 *)
Futures(e) == [host: IF e.host = NoHost THEN Host \cup {NoHost} ELSE {e.host}, l7: {e.l7}]

VerdictFinal ==
    \A h \in Handler : out[h].new /\ mode # "stream" =>
        LET e == obj[ptr[h]] IN
        \A v \in Futures(e) : IsFirst(chain[snap[h]], key[h], v, lists, e.idx)

(* The same of the protocol that a later packet may be recognised by. The    *)
(* code does not wait for it: hostGatedBefore only looks for hostlists.      *)
FinalForProtocols ==
    \A h \in Handler : out[h].new /\ mode # "stream" =>
        LET e == obj[ptr[h]] IN
        \A l \in (IF e.l7 = NoL7 THEN L7 ELSE {}) \cup {e.l7} :
            IsFirst(chain[snap[h]], key[h], [View(e) EXCEPT !.l7 = l], lists, e.idx)

(* "Exclusions win over inclusions" (MatchFilter): once a flow has named a    *)
(* host, no profile that excludes it runs on its packets.                    *)
ExclusionsWin ==
    \A h \in Handler : out[h].idx # 0 =>
        obj[ptr[h]].host \notin chain[snap[h]][out[h].idx].except

(* "No profile" is never final while the flow is one a self-learning list   *)
(* waits for: whatever the list learns, nothing would match.                *)
NotSealedWhileLearning ==
    \A h \in Handler : out[h].new /\ mode # "stream" =>
        LET e == obj[ptr[h]]
            all == [l \in List |-> [lists[l] EXCEPT !.learned = Host]]
        IN e.idx = 0 => IsFirst(chain[snap[h]], key[h], View(e), all, 0)

(* A packet is only ever given a profile that the strategy its handler read *)
(* chooses for something this connection has shown: nothing is inherited    *)
(* from an earlier connection on the same port or from another strategy.    *)
(* (Relays that share a 4-tuple share the decision.)                        *)
Shown(h) ==
    LET pays == IF mode = "stream" THEN {pkt[h].pay}
                ELSE {sent[key[h]][i] : i \in DOMAIN sent[key[h]]}
    IN [host: {NoHost} \cup {p.host : p \in pays}, l7: {NoL7} \cup {p.l7 : p \in pays}]

RunsWhatWasShown ==
    \A h \in Handler : out[h].idx # 0 /\ ~beside[h] =>
        \E v \in Shown(h), known \in [List -> SUBSET Host] :
            /\ \A l \in List : known[l] \subseteq lists[l].learned
            /\ IsFirst(chain[snap[h]], key[h], v,
                       [l \in List |-> [lists[l] EXCEPT !.learned = known[l]]], out[h].idx)

(* Only a final "no profile" or a passed cutoff stops the engine from       *)
(* looking at the packets of a flow.                                        *)
FastPathEarned ==
    \A i \in Entry : obj[i].fast =>
        \/ obj[i].matched /\ obj[i].idx = 0
        \/ \E j \in DOMAIN chain[obj[i].gen] :
              LET c == chain[obj[i].gen][j].cutoff IN
              \/ c.kind = "s"
              \/ c.kind = "n" /\ obj[i].pkts > c.n
              \/ c.kind = "d" /\ obj[i].data > c.n

(* A cached index names a profile of the generation the entry carries, so   *)
(* the range check of selectProfile never fails.                            *)
IndexInRange ==
    \A i \in Entry : obj[i].matched /\ obj[i].idx # 0 =>
        obj[i].idx \in DOMAIN chain[obj[i].gen]

(* A verdict that is cached as final is the one every host that the         *)
(* connection may still name would get, and "none" only where no list is still learning.   *)
VerdictSound == VerdictFinal /\ NotSealedWhileLearning
=============================================================================
