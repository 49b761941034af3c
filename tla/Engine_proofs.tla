---------------------------- MODULE Engine_proofs ----------------------------
(* Theorems about Engine, for any number of flows, handlers, strategies and    *)
(* changes of strategy: its types, the validity of a cached index, what puts a *)
(* flow on the fast path (IInv), what a profile was chosen for, and when a     *)
(* cached verdict is final (VInv).                                             *)
EXTENDS Engine, TLAPS

-----------------------------------------------------------------------------
(* The invariant.                                                              *)

\* A handler works with a strategy that was active.
Snaps == \A h \in Handler : pc[h] \in {"read", "found", "decided"} => snap[h] \in 1 .. Gen

\* A handler that has looked the flow up has an entry.
Holds == \A h \in Handler : pc[h] = "found" => ptr[h] \in Entry

\* What one entry may hold while c is the list of strategies.
Sound(e, c) ==
    /\ e.gen \in 0 .. Len(c)
    /\ e.matched \/ e.fast => e.gen # 0
    /\ ~e.matched => e.idx = 0
    /\ e.matched /\ e.idx # 0 => e.idx \in DOMAIN c[e.gen]
    /\ e.fast => \/ e.matched /\ e.idx = 0
                 \/ \E j \in DOMAIN c[e.gen] :
                       LET k == c[e.gen][j].cutoff IN
                       \/ k.kind = "s"
                       \/ k.kind = "n" /\ e.pkts > k.n
                       \/ k.kind = "d" /\ e.data > k.n

IInv == TypeOK /\ Snaps /\ Holds /\ \A i \in Entry : Sound(obj[i], chain)

-----------------------------------------------------------------------------
(* The operators on entries.                                                   *)

LEMMA NewFlowSound ==
    ASSUME NEW c \in Seq(Strategies) PROVE NewFlow \in Flow /\ Sound(NewFlow, c)
  BY EngineBounds DEF NewFlow, Flow, Sound

LEMMA RevisedSound ==
    ASSUME NEW c \in Seq(Strategies), NEW e \in Flow, Sound(e, c), NEW g \in 1 .. Len(c),
           Len(c) <= MaxReloads + 1
    PROVE  LET r == ReviseGeneration(e, g) IN r \in Flow /\ Sound(r, c) /\ r.gen = g
  <1>1. CASE e.gen = g
    BY <1>1 DEF ReviseGeneration
  <1>2. CASE e.gen # g
    <2> DEFINE r == ReviseGeneration(e, g)
    <2>1. g \in 0 .. MaxReloads + 1
      BY EngineBounds
    <2>2. r = [e EXCEPT !.gen = g, !.matched = FALSE, !.idx = 0, !.fast = FALSE]
      BY <1>2 DEF ReviseGeneration
    <2> HIDE DEF r
    <2>3. r \in Flow /\ r.gen = g /\ r.matched = FALSE /\ r.idx = 0 /\ r.fast = FALSE
      BY <2>1, <2>2 DEF Flow
    <2>4. Sound(r, c)
      BY <2>3 DEF Sound
    <2> QED BY <2>3, <2>4 DEF r
  <1> QED BY <1>1, <1>2

LEMMA RenewedSound ==
    ASSUME NEW c \in Seq(Strategies), NEW e \in Flow, Sound(e, c)
    PROVE  LET r == Renewed(e) IN r \in Flow /\ Sound(r, c) /\ r.gen = e.gen
  <1> DEFINE r == Renewed(e)
  <1>1. NewFlow \in Flow
    BY NewFlowSound
  <1>2. r = [NewFlow EXCEPT !.gen = e.gen, !.isn = TRUE]
    BY DEF Renewed
  <1>3. NewFlow.matched = FALSE /\ NewFlow.idx = 0 /\ NewFlow.fast = FALSE
    BY DEF NewFlow
  <1>4. r \in Flow /\ r.gen = e.gen /\ r.matched = FALSE /\ r.idx = 0 /\ r.fast = FALSE
    BY <1>1, <1>2, <1>3 DEF Flow
  <1> HIDE DEF r
  <1>5. Sound(r, c)
    BY <1>4 DEF Sound
  <1> QED BY <1>4, <1>5 DEF r

\* Counting only moves counters up to their bound, which is above every window.
LEMMA CountedSound ==
    ASSUME NEW c \in Seq(Strategies), NEW e \in Flow, Sound(e, c), NEW p \in Packet
    PROVE  LET r == Counted(e, p) IN r \in Flow /\ Sound(r, c) /\ r.gen = e.gen
  <1> DEFINE r == Counted(e, p)
  <1> DEFINE n == UpTo(e.pkts + 1, MaxCount)
             d == IF p.kind = "data" THEN UpTo(e.data + 1, MaxCount) ELSE e.data
             l == IF p.kind = "data" /\ mode = "tcp" THEN p.seq ELSE e.last
  <1>1. /\ n \in 0 .. MaxCount /\ \A m \in 0 .. MaxCount - 1 : e.pkts > m => n > m
        /\ d \in 0 .. MaxCount /\ \A m \in 0 .. MaxCount - 1 : e.data > m => d > m
        /\ l \in 0 .. MaxSent
    <2>1. e.pkts \in 0 .. MaxCount /\ e.data \in 0 .. MaxCount /\ e.last \in 0 .. MaxSent
          /\ p.seq \in 0 .. MaxSent
      BY DEF Flow, Packet
    <2> QED BY <2>1, EngineBounds DEF UpTo
  <1>2. r = [e EXCEPT !.pkts = n, !.data = d, !.last = l]
    BY DEF Counted
  <1> HIDE DEF n, d, l, r
  <1>3. /\ r \in Flow /\ r.gen = e.gen /\ r.matched = e.matched /\ r.idx = e.idx
        /\ r.fast = e.fast /\ r.pkts = n /\ r.data = d
    BY <1>1, <1>2 DEF Flow
  <1>4. /\ \A m \in 0 .. MaxCount - 1 : e.pkts > m => r.pkts > m
        /\ \A m \in 0 .. MaxCount - 1 : e.data > m => r.data > m
    BY <1>1, <1>3
  <1>5. \A g \in 1 .. Len(c) : \A j \in DOMAIN c[g] : c[g][j].cutoff.n \in 0 .. MaxCount - 1
    <2> TAKE g \in 1 .. Len(c)
    <2>1. c[g] \in Seq(Profile)
      BY StrategiesAssumption
    <2> TAKE j \in DOMAIN c[g]
    <2>2. c[g][j] \in Profile
      BY <2>1
    <2>3. c[g][j].cutoff \in Counter
      BY <2>2 DEF Profile
    <2> QED BY <2>3 DEF Counter
  <1>6. Sound(r, c)
    <2>1. r.gen \in 0 .. Len(c) /\ (r.matched \/ r.fast => r.gen # 0)
          /\ (~r.matched => r.idx = 0) /\ (r.matched /\ r.idx # 0 => r.idx \in DOMAIN c[r.gen])
      BY <1>3 DEF Sound
    <2>2. ASSUME r.fast, ~(r.matched /\ r.idx = 0)
          PROVE  \E j \in DOMAIN c[r.gen] :
                       LET k == c[r.gen][j].cutoff IN
                       \/ k.kind = "s"
                       \/ k.kind = "n" /\ r.pkts > k.n
                       \/ k.kind = "d" /\ r.data > k.n
      <3>1. PICK j \in DOMAIN c[e.gen] :
                       LET k == c[e.gen][j].cutoff IN
                       \/ k.kind = "s"
                       \/ k.kind = "n" /\ e.pkts > k.n
                       \/ k.kind = "d" /\ e.data > k.n
        BY <1>3, <2>2 DEF Sound
      <3>2. e.gen \in 1 .. Len(c)
        BY <1>3, <2>2 DEF Sound
      <3> QED BY <1>3, <1>4, <1>5, <3>1, <3>2
    <2> QED BY <2>1, <2>2 DEF Sound
  <1> QED BY <1>3, <1>6 DEF r

LEMMA ClassifiedSound ==
    ASSUME NEW c \in Seq(Strategies), NEW e \in Flow, Sound(e, c), NEW p \in Packet
    PROVE  LET r == Classified(e, p) IN
           /\ r \in Flow /\ Sound(r, c) /\ r.gen = e.gen /\ r.fast = e.fast
           /\ r.pkts = e.pkts /\ r.data = e.data
  BY ZenonT(40) DEF Classified, Flow, Packet, Payload, Sound

\* A verdict names a profile of the strategy it was made with.
LEMMA PickedSound ==
    ASSUME NEW c \in Seq(Strategies), NEW e \in Flow, Sound(e, c), ~e.fast, e.gen # 0,
           NEW k, NEW ls, NEW i \in 0 .. Len(c[e.gen]), NEW a \in List \cup {NoList},
           Chosen(c[e.gen], k, e, ls, i)
    PROVE  LET r == Picked(c[e.gen], k, e, i, a) IN
           /\ r \in Flow /\ Sound(r, c) /\ r.gen = e.gen /\ ~r.fast
           /\ r.pkts = e.pkts /\ r.data = e.data
           /\ i # 0 => i \in DOMAIN c[e.gen]
           /\ r.matched => r.idx = i
  <1> DEFINE s == c[e.gen]
  <1>1. s \in Seq(Profile)
    BY StrategiesAssumption DEF Sound, Flow
  <1>2. i # 0 => i \in DOMAIN s
    BY <1>1
  <1>3. CASE e.matched
    BY <1>1, <1>2, <1>3 DEF Chosen, Picked, Sound, Flow
  <1>4. CASE ~e.matched
    <2>1. \/ Picked(s, k, e, i, a) = e
          \/ Picked(s, k, e, i, a) = [e EXCEPT !.matched = TRUE, !.idx = i]
          \/ i = 0 /\ \E b \in BOOLEAN :
                Picked(s, k, e, i, a) = [e EXCEPT !.monitor = a, !.matched = b]
      BY <1>4 DEF Picked
    <2> DEFINE r == Picked(s, k, e, i, a)
    <2>2. ~e.fast /\ i \in Nat
      BY <1>1
    <2> HIDE DEF r
    <2>3. CASE r = e
      BY <1>2, <1>4, <2>3 DEF r
    <2>4. CASE r = [e EXCEPT !.matched = TRUE, !.idx = i]
      <3>1. r \in Flow /\ r.gen = e.gen /\ r.matched = TRUE /\ r.idx = i /\ ~r.fast /\ r.pkts = e.pkts /\ r.data = e.data
        BY <2>2, <2>4 DEF Flow
      <3>2. Sound(r, c)
        BY <1>2, <3>1 DEF Sound
      <3> QED BY <1>2, <3>1, <3>2 DEF r
    <2>5. CASE i = 0 /\ \E b \in BOOLEAN : r = [e EXCEPT !.monitor = a, !.matched = b]
      <3>0. PICK b \in BOOLEAN : r = [e EXCEPT !.monitor = a, !.matched = b]
        BY <2>5
      <3>1. r \in Flow /\ r.gen = e.gen /\ r.idx = e.idx /\ ~r.fast /\ r.pkts = e.pkts /\ r.data = e.data
        BY <2>2, <3>0 DEF Flow
      <3>2. e.idx = 0
        BY <1>4 DEF Sound
      <3>3. Sound(r, c)
        BY <3>1, <3>2 DEF Sound
      <3> QED BY <2>5, <3>1, <3>2, <3>3 DEF r
    <2> QED BY <2>1, <2>3, <2>4, <2>5 DEF r
  <1> QED BY <1>3, <1>4

-----------------------------------------------------------------------------
\* A flow goes on the fast path after a final "no profile" or a cutoff.
LEMMA FastSound ==
    ASSUME NEW c \in Seq(Strategies), NEW e \in Flow, Sound(e, c), e.gen # 0,
           NEW p \in Packet, NEW i \in Nat, i # 0 => i \in DOMAIN c[e.gen],
           e.matched => e.idx = i
    PROVE  LET r == [e EXCEPT !.fast = Fast(c[e.gen], e, p, i)] IN
           r \in Flow /\ Sound(r, c) /\ r.gen = e.gen
  <1> DEFINE s == c[e.gen]
             f == Fast(s, e, p, i)
             r == [e EXCEPT !.fast = f]
  <1>1. f \in BOOLEAN
    BY DEF Fast, Late, Flow
  <1>2. ASSUME f, i # 0
        PROVE  \E j \in DOMAIN s : LET k == s[j].cutoff IN
                       \/ k.kind = "s"
                       \/ k.kind = "n" /\ e.pkts > k.n
                       \/ k.kind = "d" /\ e.data > k.n
    <2>1. Late(s, e, p, i)
      BY <1>2 DEF Fast
    <2>2. s[i].cutoff.kind # "none" /\ CounterValue(s[i].cutoff, e, p) > s[i].cutoff.n
      BY <2>1 DEF Late
    <2>3. s[i].cutoff.kind \in {"none", "n", "d", "s"}
      <3>1. s \in Seq(Profile)
        BY StrategiesAssumption DEF Sound, Flow
      <3>2. s[i] \in Profile
        BY <1>2, <3>1
      <3> QED BY <3>2 DEF Profile, Counter
    <2> QED BY <1>2, <2>2, <2>3 DEF CounterValue
  <1>3. ASSUME f, i = 0 PROVE e.matched /\ e.idx = 0
    BY <1>3 DEF Fast
  <1> HIDE DEF f, r
  <1>4. /\ r \in Flow /\ r.gen = e.gen /\ r.matched = e.matched /\ r.idx = e.idx
        /\ r.fast = f /\ r.pkts = e.pkts /\ r.data = e.data
    BY <1>1 DEF Flow, r
  <1>5. Sound(r, c)
    BY <1>2, <1>3, <1>4 DEF Sound
  <1> QED BY <1>4, <1>5 DEF r, f

LEMMA AppendSound ==
    ASSUME NEW c \in Seq(Strategies), NEW s \in Strategies, NEW e \in Flow, Sound(e, c)
    PROVE  Sound(e, Append(c, s))
  <1> DEFINE d == Append(c, s)
  <1>1. Len(d) = Len(c) + 1 /\ \A g \in 1 .. Len(c) : d[g] = c[g]
    OBVIOUS
  <1>2. e.gen # 0 => e.gen \in 1 .. Len(c) /\ d[e.gen] = c[e.gen]
    BY <1>1 DEF Sound, Flow
  <1>3. e.gen \in 0 .. Len(d)
    BY <1>1 DEF Sound, Flow
  <1> HIDE DEF d
  <1>4. Sound(e, d)
    BY <1>2, <1>3 DEF Sound
  <1> QED BY <1>4 DEF d

LEMMA FedTyped ==
    ASSUME TypeOK, NEW ls \in [List -> Learning], NEW l, NEW h \in Host \cup {NoHost}
    PROVE  Fed(ls, l, h) \in [List -> Learning]
  <1>1. CASE l \notin Registered \/ h = NoHost \/ h \in ls[l].learned
    BY <1>1 DEF Fed
  <1>2. CASE ~(l \notin Registered \/ h = NoHost \/ h \in ls[l].learned)
    <2>1. l \in List /\ h \in Host
      <3>1. chain[1] \in Seq(Profile)
        BY StrategiesAssumption DEF TypeOK
      <3>2. \A i \in DOMAIN chain[1] : chain[1][i] \in Profile
        BY <3>1
      <3> QED BY <1>2, <3>2 DEF Registered, Profile
    <2> DEFINE q == ls[l]
    <2>2. q \in Learning /\ q.learned \in SUBSET Host
          /\ q.count \in [Host -> 0 .. Threshold - 1] /\ q.count[h] \in 0 .. Threshold - 1
      BY <2>1 DEF Learning
    <2>3. CASE q.count[h] + 1 >= Threshold
      <3>1. Fed(ls, l, h) = [ls EXCEPT ![l] =
                 [q EXCEPT !.learned = q.learned \cup {h}, !.count = [q.count EXCEPT ![h] = 0]]]
        BY <1>2, <2>1, <2>2, <2>3 DEF Fed, Learning
      <3>2. 0 \in 0 .. Threshold - 1
        BY EngineBounds
      <3>3. [q.count EXCEPT ![h] = 0] \in [Host -> 0 .. Threshold - 1]
        BY <2>2, <3>2
      <3>4. [q EXCEPT !.learned = q.learned \cup {h}, !.count = [q.count EXCEPT ![h] = 0]] \in Learning
        BY <2>1, <2>2, <3>3 DEF Learning
      <3> QED BY <2>1, <3>1, <3>4
    <2>4. CASE ~(q.count[h] + 1 >= Threshold)
      <3>1. Fed(ls, l, h) = [ls EXCEPT ![l] =
                 [q EXCEPT !.count = [q.count EXCEPT ![h] = q.count[h] + 1]]]
        BY <1>2, <2>1, <2>2, <2>4 DEF Fed, Learning
      <3>2. q.count[h] + 1 \in 0 .. Threshold - 1
        BY <2>2, <2>4, EngineBounds
      <3>3. [q.count EXCEPT ![h] = q.count[h] + 1] \in [Host -> 0 .. Threshold - 1]
        BY <2>2, <3>2
      <3>4. [q EXCEPT !.count = [q.count EXCEPT ![h] = q.count[h] + 1]] \in Learning
        BY <2>2, <3>3 DEF Learning
      <3> QED BY <2>1, <3>1, <3>4
    <2> QED BY <2>3, <2>4
  <1> QED BY <1>1, <1>2

-----------------------------------------------------------------------------
(* The actions.                                                                *)

LEMMA Begins == Init => IInv
  <1> SUFFICES ASSUME Init PROVE IInv
    OBVIOUS
  <1>1. PICK s \in Strategies : chain = <<s>>
    BY DEF Init
  <1>2. chain \in Seq(Strategies) /\ Len(chain) = 1
    BY <1>1
  <1>3. NewFlow \in Flow /\ Sound(NewFlow, chain)
    BY <1>2, NewFlowSound
  <1>4. NoPkt \in Packet
    BY EngineBounds DEF NoPkt, Packet, Payload, Blank
  <1>5. TypeOK
    <2>1. lists \in [List -> Learning]
      <3>1. 0 \in 0 .. Threshold - 1
        BY EngineBounds
      <3> QED BY <3>1 DEF Init, Learning
    <2>2. sent \in [Key -> Seq(Payload)] /\ \A k \in Key : Len(sent[k]) <= MaxSent
      BY EngineBounds DEF Init
    <2>3. 1 \in 1 .. MaxReloads + 1 /\ 0 \in 0 .. MaxReloads + 1 /\ 0 \in Nat
      BY EngineBounds
    <2> QED BY <1>2, <1>3, <1>4, <2>1, <2>2, <2>3 DEF Init, TypeOK
  <1>6. Snaps /\ Holds
    BY DEF Init, Snaps, Holds
  <1> QED BY <1>3, <1>5, <1>6 DEF Init, IInv

LEMMA CaptureKeeps == ASSUME IInv, NEW h \in Handler, Capture(h) PROVE IInv'
  <1> USE DEF IInv, Capture, Goto
  <1>1. PICK k \in Key, p \in Packet :
          /\ key' = [key EXCEPT ![h] = k]
          /\ pkt' = [pkt EXCEPT ![h] = p]
          /\ \/ sent' = [sent EXCEPT ![k] = <<>>]
             \/ sent' = sent
             \/ /\ p.seq = Len(sent[k]) + 1
                /\ sent' = [sent EXCEPT ![k] = Append(@, p.pay)]
    BY DEF Capture
  <1>2. Gen \in 1 .. MaxReloads + 1
    BY DEF TypeOK, Gen
  <1>3. sent' \in [Key -> Seq(Payload)] /\ \A q \in Key : Len(sent'[q]) <= MaxSent
    <2>1. p.pay \in Payload /\ p.seq \in 0 .. MaxSent
      BY DEF Packet
    <2>2. sent[k] \in Seq(Payload) /\ Len(sent[k]) <= MaxSent
      BY DEF TypeOK
    <2>3. CASE sent' = [sent EXCEPT ![k] = <<>>]
      BY <2>3, EngineBounds DEF TypeOK
    <2>4. CASE sent' = sent
      BY <2>4 DEF TypeOK
    <2>5. CASE p.seq = Len(sent[k]) + 1 /\ sent' = [sent EXCEPT ![k] = Append(sent[k], p.pay)]
      <3>1. Append(sent[k], p.pay) \in Seq(Payload) /\ Len(Append(sent[k], p.pay)) <= MaxSent
        BY <2>1, <2>2, <2>5
      <3> QED BY <2>5, <3>1 DEF TypeOK
    <2> QED BY <1>1, <2>3, <2>4, <2>5
  <1>4. TypeOK'
    BY SMTT(30), <1>1, <1>2, <1>3, EngineBounds DEF TypeOK
  <1>5. Snaps' /\ Holds'
    BY <1>2 DEF Snaps, Holds, Gen, TypeOK
  <1> QED BY <1>4, <1>5

LEMMA AcceptKeeps == ASSUME IInv, NEW h \in Handler, Accept(h) PROVE IInv'
  <1> USE DEF IInv, Accept, Goto
  <1>1. TypeOK'
    BY DEF TypeOK
  <1>2. Snaps' /\ Holds'
    BY DEF Snaps, Holds, Gen, TypeOK
  <1> QED BY <1>1, <1>2

LEMMA FirstPayloadKeeps == ASSUME IInv, NEW h \in Handler, FirstPayload(h) PROVE IInv'
  <1> USE DEF IInv, FirstPayload, Goto
  <1>1. Gen \in 1 .. MaxReloads + 1 /\ Gen \in 0 .. MaxReloads + 1
    BY EngineBounds DEF TypeOK, Gen
  <1>2. pkt' \in [Handler -> Packet]
    <2>1. NoPkt \in Packet
      BY EngineBounds DEF NoPkt, Packet, Payload, Blank
    <2>2. \A p \in Payload : [NoPkt EXCEPT !.kind = "data", !.pay = p] \in Packet
      BY <2>1 DEF Packet
    <2> QED BY <2>2 DEF TypeOK
  <1>3. TypeOK'
    BY <1>1, <1>2 DEF TypeOK, netVars
  <1>4. Snaps' /\ Holds'
    BY <1>1 DEF Snaps, Holds, Gen, TypeOK
  <1> QED BY <1>3, <1>4

LEMMA FindKeeps == ASSUME IInv, NEW h \in Handler, Find(h) PROVE IInv'
  <1> USE DEF IInv, Find, Goto
  <1>1. PICK i \in Entry :
          /\ \/ UNCHANGED <<table, obj>>
             \/ /\ table' = [table EXCEPT ![key[h]] = i]
                /\ obj' = [obj EXCEPT ![i] = NewFlow]
          /\ ptr' = [ptr EXCEPT ![h] = i]
    BY DEF Find
  <1>2. NewFlow \in Flow /\ Sound(NewFlow, chain)
    BY NewFlowSound DEF TypeOK
  <1>3. table' \in [Key -> Entry \cup {None}] /\ obj' \in [Entry -> Flow]
    <2>1. CASE UNCHANGED <<table, obj>>
      BY <2>1 DEF TypeOK
    <2>2. CASE table' = [table EXCEPT ![key[h]] = i] /\ obj' = [obj EXCEPT ![i] = NewFlow]
      <3>1. table' \in [Key -> Entry \cup {None}]
        BY <2>2 DEF TypeOK
      <3>2. obj' \in [Entry -> Flow]
        BY <1>2, <2>2 DEF TypeOK
      <3> QED BY <3>1, <3>2
    <2> QED BY <1>1, <2>1, <2>2
  <1>4. ptr' \in [Handler -> Entry \cup {None}] /\ pc' \in [Handler -> {"idle", "open", "read", "found", "decided"}]
    BY <1>1 DEF TypeOK
  <1>5. TypeOK'
    BY <1>3, <1>4 DEF TypeOK, netVars
  <1>6. \A j \in Entry : Sound(obj'[j], chain)
    BY <1>1, <1>2 DEF TypeOK
  <1>7. Snaps' /\ Holds'
    BY <1>1 DEF Snaps, Holds, Gen, TypeOK
  <1> QED BY <1>5, <1>6, <1>7

LEMMA DecideKeeps == ASSUME IInv, NEW h \in Handler, Decide(h) PROVE IInv'
  <1> DEFINE g == snap[h]
             s == chain[g]
             p == pkt[h]
             e0 == obj[ptr[h]]
             e1 == ReviseGeneration(e0, g)
             e2 == IF p.kind = "syn" THEN Renewed(e1) ELSE e1
             again == IsRetrans(e2, p)
             e3 == Counted(e2, p)
             ls == IF again THEN Fed(lists, e3.monitor, e3.host) ELSE lists
             e4 == Classified(e3, p)
  <1>1. /\ g \in 1 .. Len(chain) /\ ptr[h] \in Entry /\ p \in Packet /\ e0 \in Flow
        /\ Sound(e0, chain) /\ chain \in Seq(Strategies) /\ Len(chain) <= MaxReloads + 1
    <2>1. /\ pc[h] = "found" /\ TypeOK /\ snap[h] \in 1 .. Gen /\ ptr[h] \in Entry
          /\ \A i \in Entry : Sound(obj[i], chain)
      BY DEF IInv, Snaps, Holds, Decide
    <2>2. /\ pkt \in [Handler -> Packet] /\ obj \in [Entry -> Flow]
          /\ chain \in Seq(Strategies) /\ Len(chain) <= MaxReloads + 1
      BY <2>1, EngineBounds DEF TypeOK
    <2> HIDE DEF e1, e2, e3, e4, again, ls
    <2>3. e0 \in Flow /\ Sound(e0, chain) /\ p \in Packet
      BY <2>1, <2>2
    <2> QED BY <2>1, <2>2, <2>3 DEF Gen
  <1>2. e1 \in Flow /\ Sound(e1, chain) /\ e1.gen = g
    BY <1>1, RevisedSound
  <1>3. e2 \in Flow /\ Sound(e2, chain) /\ e2.gen = g
    BY <1>1, <1>2, RenewedSound
  <1>4. e3 \in Flow /\ Sound(e3, chain) /\ e3.gen = g
    BY <1>1, <1>3, CountedSound
  <1>5. e4 \in Flow /\ Sound(e4, chain) /\ e4.gen = g /\ e4.fast = e3.fast
    BY <1>1, <1>4, ClassifiedSound
  <1>6. ls \in [List -> Learning]
    <2>1. e3.host \in Host \cup {NoHost}
      BY <1>4 DEF Flow
    <2> QED BY <2>1, FedTyped DEF IInv, TypeOK
  <1>7. \E r \in Flow, lt \in [List -> Learning], o \in [idx: Nat, new: BOOLEAN] :
           /\ Sound(r, chain)
           /\ obj' = [obj EXCEPT ![ptr[h]] = r]
           /\ lists' = lt
           /\ out' = [out EXCEPT ![h] = o]
    <2>1. CASE /\ obj' = [obj EXCEPT ![ptr[h]] = e3]
               /\ lists' = ls
               /\ out' = [out EXCEPT ![h] = [idx |-> 0, new |-> FALSE]]
      <3>1. [idx |-> 0, new |-> FALSE] \in [idx: Nat, new: BOOLEAN]
        OBVIOUS
      <3> HIDE DEF e3, ls
      <3> QED BY <1>4, <1>6, <2>1, <3>1
    <2>2. ASSUME ~e3.fast, NEW i \in 0 .. Len(s), NEW a \in List \cup {NoList},
                 Chosen(s, key[h], e4, ls, i),
                 obj' = [obj EXCEPT ![ptr[h]] =
                           [Picked(s, key[h], e4, i, a) EXCEPT
                              !.fast = Fast(s, Picked(s, key[h], e4, i, a), p, i)]],
                 lists' = IF again /\ i # 0 THEN Fed(ls, s[i].auto, e4.host) ELSE ls,
                 out' = [out EXCEPT ![h] =
                         [idx |-> IF i = 0 THEN 0
                                  ELSE IF \/ Early(s, Picked(s, key[h], e4, i, a), p, i)
                                          \/ Late(s, Picked(s, key[h], e4, i, a), p, i) THEN 0 ELSE i,
                          new |-> Picked(s, key[h], e4, i, a).matched /\ ~e4.matched]]
          PROVE  \E r \in Flow, lt \in [List -> Learning], o \in [idx: Nat, new: BOOLEAN] :
                   /\ Sound(r, chain)
                   /\ obj' = [obj EXCEPT ![ptr[h]] = r]
                   /\ lists' = lt
                   /\ out' = [out EXCEPT ![h] = o]
      <3> DEFINE e5 == Picked(s, key[h], e4, i, a)
                 r == [e5 EXCEPT !.fast = Fast(s, e5, p, i)]
                 lt == IF again /\ i # 0 THEN Fed(ls, s[i].auto, e4.host) ELSE ls
                 o == [idx |-> IF i = 0 THEN 0
                               ELSE IF Early(s, e5, p, i) \/ Late(s, e5, p, i) THEN 0 ELSE i,
                       new |-> e5.matched /\ ~e4.matched]
      <3>0. ~e4.fast /\ e4.gen = g /\ g # 0
        BY <1>1, <1>5, <2>2
      <3>1. /\ e5 \in Flow /\ Sound(e5, chain) /\ e5.gen = g
            /\ (i # 0 => i \in DOMAIN s) /\ (e5.matched => e5.idx = i)
        <4> HIDE DEF e4, ls, e3
        <4> DEFINE v == chain[e4.gen]
        <4>1. v = s
          BY <3>0
        <4>2. /\ chain \in Seq(Strategies) /\ e4 \in Flow /\ Sound(e4, chain) /\ ~e4.fast
              /\ e4.gen # 0 /\ i \in 0 .. Len(v) /\ Chosen(v, key[h], e4, ls, i)
          BY <1>1, <1>5, <2>2, <3>0, <4>1
        <4>3. LET u == Picked(v, key[h], e4, i, a) IN
              /\ u \in Flow /\ Sound(u, chain) /\ u.gen = e4.gen
              /\ (i # 0 => i \in DOMAIN v) /\ (u.matched => u.idx = i)
          BY <4>2, PickedSound
        <4> HIDE DEF v
        <4> QED BY <3>0, <4>1, <4>3
      <3>2. i \in Nat
        <4>1. s \in Seq(Profile)
          BY <1>1, StrategiesAssumption
        <4> QED BY <4>1
      <3>3. r \in Flow /\ Sound(r, chain)
        <4> HIDE DEF e5
        <4> QED BY <1>1, <3>0, <3>1, <3>2, FastSound
      <3>4. lt \in [List -> Learning]
        <4>1. e4.host \in Host \cup {NoHost}
          BY <1>5 DEF Flow
        <4> HIDE DEF ls, e4
        <4> QED BY <1>6, <4>1, FedTyped DEF IInv
      <3>5. o \in [idx: Nat, new: BOOLEAN]
        <4>1. e5.matched \in BOOLEAN /\ e4.matched \in BOOLEAN
          BY <1>5, <3>1 DEF Flow
        <4> HIDE DEF e5, e4
        <4> QED BY <3>2, <4>1
      <3>6. obj' = [obj EXCEPT ![ptr[h]] = r] /\ lists' = lt /\ out' = [out EXCEPT ![h] = o]
        BY <2>2
      <3> HIDE DEF r, lt, o
      <3> QED BY <3>3, <3>4, <3>5, <3>6
    <2> QED BY <2>1, <2>2 DEF Decide
  <1>8. PICK r \in Flow, lt \in [List -> Learning], o \in [idx: Nat, new: BOOLEAN] :
           /\ Sound(r, chain)
           /\ obj' = [obj EXCEPT ![ptr[h]] = r]
           /\ lists' = lt
           /\ out' = [out EXCEPT ![h] = o]
    BY <1>7
  <1>9. /\ pc' = [pc EXCEPT ![h] = "decided"]
        /\ UNCHANGED <<mode, chain, table, snap, key, pkt, ptr, sent, beside>>
    BY DEF Decide, Goto, netVars
  <1>10. TypeOK'
    BY <1>1, <1>8, <1>9 DEF IInv, TypeOK
  <1>11. \A j \in Entry : Sound(obj'[j], chain')
    BY <1>1, <1>8, <1>9 DEF IInv, TypeOK
  <1>12. Snaps' /\ Holds'
    BY <1>9 DEF IInv, Snaps, Holds, Gen, TypeOK, Decide
  <1> QED BY <1>10, <1>11, <1>12 DEF IInv

\* Entries that are collected are new ones again.
LEMMA CollectedSound ==
    ASSUME IInv, NEW t, NEW q
    PROVE  /\ Collected(t, q) \in [Entry -> Flow]
           /\ \A i \in Entry : Sound(Collected(t, q)[i], chain)
  <1>1. NewFlow \in Flow /\ Sound(NewFlow, chain)
    BY NewFlowSound DEF IInv, TypeOK
  <1> QED BY <1>1 DEF IInv, TypeOK, Collected

LEMMA LeaveKeeps ==
    ASSUME IInv, NEW h \in Handler, NEW b \in BOOLEAN, Leave(h, b) PROVE IInv'
  <1> DEFINE t == IF b THEN [table EXCEPT ![key[h]] = None] ELSE table
             q == [ptr EXCEPT ![h] = None]
  <1>1. table' = t /\ ptr' = q /\ obj' = Collected(t, q)
    BY DEF Leave
  <1>2. t \in [Key -> Entry \cup {None}] /\ q \in [Handler -> Entry \cup {None}]
    BY DEF IInv, TypeOK
  <1>3. obj' \in [Entry -> Flow] /\ \A i \in Entry : Sound(obj'[i], chain)
    BY <1>1, CollectedSound
  <1>4. NoPkt \in Packet
    BY EngineBounds DEF NoPkt, Packet, Payload, Blank
  <1>5. 0 \in 0 .. MaxReloads + 1 /\ [idx |-> 0, new |-> FALSE] \in [idx: Nat, new: BOOLEAN]
    BY EngineBounds
  <1> HIDE DEF t, q
  <1>6. TypeOK'
    BY <1>1, <1>2, <1>3, <1>4, <1>5 DEF Leave, Goto, IInv, TypeOK
  <1>7. Snaps' /\ Holds'
    BY <1>1 DEF Leave, Goto, IInv, TypeOK, Snaps, Holds, Gen, q
  <1> QED BY <1>3, <1>6, <1>7 DEF IInv, Leave

LEMMA EvictKeeps == ASSUME IInv, Evict PROVE IInv'
  <1>1. PICK k \in Key : /\ table' = [table EXCEPT ![k] = None]
                         /\ obj' = Collected(table', ptr)
    BY DEF Evict
  <1>2. obj' \in [Entry -> Flow] /\ \A i \in Entry : Sound(obj'[i], chain)
    BY <1>1, CollectedSound
  <1>3. TypeOK'
    BY <1>1, <1>2 DEF Evict, IInv, TypeOK, netVars
  <1>4. Snaps' /\ Holds'
    BY DEF Evict, IInv, Snaps, Holds, Gen
  <1> QED BY <1>2, <1>3, <1>4 DEF IInv, Evict

LEMMA ReloadKeeps == ASSUME IInv, Reload PROVE IInv'
  <1>1. PICK s \in Strategies : chain' = Append(chain, s)
    BY DEF Reload
  <1>2. chain' \in Seq(Strategies) /\ Len(chain') = Len(chain) + 1 /\ Len(chain') \in 1 .. MaxReloads + 1
    BY <1>1, EngineBounds DEF Reload, Gen, IInv, TypeOK
  <1>3. TypeOK'
    BY <1>2 DEF Reload, IInv, TypeOK, netVars
  <1>4. \A i \in Entry : Sound(obj'[i], chain')
    BY <1>1, AppendSound DEF Reload, IInv, TypeOK
  <1>5. Snaps' /\ Holds'
    BY <1>2 DEF Reload, IInv, TypeOK, Snaps, Holds, Gen
  <1> QED BY <1>3, <1>4, <1>5 DEF IInv

-----------------------------------------------------------------------------
(* The theorems.                                                               *)

LEMMA Invariant == Spec => []IInv
  <1>1. Init => IInv
    BY Begins
  <1>2. IInv /\ [Next]_vars => IInv'
    <2> SUFFICES ASSUME IInv, [Next]_vars PROVE IInv'
      OBVIOUS
    <2>1. CASE UNCHANGED vars
      BY <2>1 DEF IInv, TypeOK, Snaps, Holds, Gen, vars, netVars
    <2>2. ASSUME NEW h \in Handler, Forwarded(h) PROVE IInv'
      <3>1. pkt[h].fin \in BOOLEAN
        BY DEF IInv, TypeOK, Packet
      <3> QED BY <2>2, <3>1, LeaveKeeps DEF Forwarded
    <2>3. ASSUME NEW h \in Handler, Hangup(h) PROVE IInv'
      BY <2>3, LeaveKeeps DEF Hangup
    <2> QED BY <2>1, <2>2, <2>3, CaptureKeeps, AcceptKeeps, FirstPayloadKeeps, FindKeeps,
               DecideKeeps, EvictKeeps, ReloadKeeps DEF Next
  <1> QED BY <1>1, <1>2, PTL DEF Spec

(* Every variable of the engine keeps its type, for any number of flows,       *)
(* relays, strategies and reloads.                                             *)
THEOREM TypeCorrect == Spec => []TypeOK
  <1>1. IInv => TypeOK
    BY DEF IInv
  <1> QED BY <1>1, Invariant, PTL

(* A cached index always names a profile of the generation the entry carries:  *)
(* selectProfile never indexes out of range or into another strategy's list.   *)
THEOREM IndexValid == Spec => []IndexInRange
  <1>1. IInv => IndexInRange
    BY DEF IInv, Sound, IndexInRange
  <1> QED BY <1>1, Invariant, PTL

(* Only a final "no profile" or a cutoff that was passed puts a flow on the    *)
(* fast path, whatever reloads, port reuse and evictions happen.               *)
THEOREM FastPathJustified == Spec => []FastPathEarned
  <1>1. IInv => FastPathEarned
    BY DEF IInv, Sound, FastPathEarned
  <1> QED BY <1>1, Invariant, PTL

-----------------------------------------------------------------------------
(* What a verdict rests on. The choice of a profile reads of the lists only    *)
(* what they have learned, so it is restated over that (`known'), with the     *)
(* registered lists R as a parameter.                                          *)
Learned(ls) == [l \in List |-> ls[l].learned]

Admits(R, p, k, v, known) ==
    /\ MatchFilterIgnoringHost(p, k, v.l7)
    /\ v.host \notin p.except
    /\ p.gated \/ p.auto \in R =>
          \/ p.gated /\ v.host \in p.hosts
          \/ p.auto \in R /\ v.host \in known[p.auto]

First(R, s, k, v, known, i) ==
    /\ \A j \in DOMAIN s : (j < i \/ i = 0) => ~Admits(R, s[j], k, v, known)
    /\ i # 0 => i \in DOMAIN s /\ Admits(R, s[i], k, v, known)

\* The profile i is the choice for something in V, with what had been learned by then.
Rests(R, s, k, V, learned, i) ==
    \E v \in V, known \in [List -> SUBSET Host] :
        /\ \A l \in List : known[l] \subseteq learned[l]
        /\ First(R, s, k, v, known, i)

ShownBy(pays) ==
    [host: {NoHost} \cup {p.host : p \in pays}, l7: {NoL7} \cup {p.l7 : p \in pays}]

Pays(k) == {sent[k][i] : i \in DOMAIN sent[k]}

LEMMA AdmitsIsMatch ==
    ASSUME NEW p \in Profile, NEW k, NEW v, NEW ls
    PROVE  MatchFilter(p, k, v, ls) <=> Admits(Registered, p, k, v, Learned(ls))
  BY SetsAssumption DEF MatchFilter, Admits, Learned, Registered, Profile

LEMMA FirstIsFirst ==
    ASSUME NEW s \in Seq(Profile), NEW k, NEW v, NEW ls, NEW i
    PROVE  IsFirst(s, k, v, ls, i) <=> First(Registered, s, k, v, Learned(ls), i)
  <1>1. \A j \in DOMAIN s : s[j] \in Profile
    OBVIOUS
  <1>2. \A j \in DOMAIN s :
           MatchFilter(s[j], k, v, ls) <=> Admits(Registered, s[j], k, v, Learned(ls))
    BY <1>1, AdmitsIsMatch
  <1> QED BY <1>2 DEF IsFirst, First

LEMMA RestsGrows ==
    ASSUME NEW R, NEW s, NEW k, NEW V, NEW W, V \subseteq W, NEW i,
           NEW learned, NEW more, \A l \in List : learned[l] \subseteq more[l],
           Rests(R, s, k, V, learned, i)
    PROVE  Rests(R, s, k, W, more, i)
  BY DEF Rests

LEMMA RegisteredLists == ASSUME TypeOK PROVE Registered \subseteq List
  <1>1. chain[1] \in Seq(Profile)
    BY StrategiesAssumption DEF TypeOK
  <1>2. \A i \in DOMAIN chain[1] : chain[1][i] \in Profile
    BY <1>1
  <1> QED BY <1>2 DEF Registered, Profile

\* A list only learns, and only the host and the list it is fed.
LEMMA FedLearns ==
    ASSUME TypeOK, NEW ls \in [List -> Learning], NEW x, NEW h \in Host \cup {NoHost}
    PROVE  LET f == Fed(ls, x, h) IN
           /\ \A l \in List : /\ ls[l].learned \subseteq f[l].learned
                              /\ f[l].learned \subseteq ls[l].learned \cup {h}
                              /\ l # x => f[l].learned = ls[l].learned
           /\ h = NoHost => f = ls
  <1> DEFINE f == Fed(ls, x, h)
  <1>1. CASE x \notin Registered \/ h = NoHost \/ h \in ls[x].learned
    BY <1>1 DEF Fed
  <1>2. CASE ~(x \notin Registered \/ h = NoHost \/ h \in ls[x].learned)
    <2>1. x \in List /\ h \in Host
      BY <1>2, RegisteredLists
    <2> DEFINE q == ls[x]
    <2>2. q \in Learning /\ q.learned \in SUBSET Host /\ q.count \in [Host -> 0 .. Threshold - 1]
      BY <2>1 DEF Learning
    <2>3. CASE q.count[h] + 1 >= Threshold
      <3>1. f = [ls EXCEPT ![x] =
                 [q EXCEPT !.learned = q.learned \cup {h}, !.count = [q.count EXCEPT ![h] = 0]]]
        BY <1>2, <2>1, <2>2, <2>3 DEF Fed, Learning
      <3>2. [q EXCEPT !.learned = q.learned \cup {h}, !.count = [q.count EXCEPT ![h] = 0]].learned
               = q.learned \cup {h}
        BY <2>2 DEF Learning
      <3> HIDE DEF f
      <3> QED BY <1>2, <2>1, <3>1, <3>2 DEF f
    <2>4. CASE ~(q.count[h] + 1 >= Threshold)
      <3>1. f = [ls EXCEPT ![x] =
                 [q EXCEPT !.count = [q.count EXCEPT ![h] = q.count[h] + 1]]]
        BY <1>2, <2>1, <2>2, <2>4 DEF Fed, Learning
      <3>2. [q EXCEPT !.count = [q.count EXCEPT ![h] = q.count[h] + 1]].learned = q.learned
        BY <2>2 DEF Learning
      <3> HIDE DEF f
      <3> QED BY <1>2, <2>1, <3>1, <3>2 DEF f
    <2> QED BY <2>3, <2>4
  <1> QED BY <1>1, <1>2

-----------------------------------------------------------------------------
(* Who holds which entry. The datapath is one goroutine, which keeps the entry *)
(* of its flow in the table while it works; relays that share an entry share   *)
(* the 4-tuple, and each of them knows (`beside').                             *)
Idle(g) == pc[g] = "idle"
Holding(g) == pc[g] \in {"found", "decided"}

Alone == mode # "stream" => \A g, h \in Handler : ~Idle(g) /\ ~Idle(h) => g = h

Quiet == \A h \in Handler : pc[h] # "decided" => out[h] = [idx |-> 0, new |-> FALSE]

Apart == \A k, q \in Key : table[k] # None /\ table[k] = table[q] => k = q

Pointers ==
    /\ \A h \in Handler : ptr[h] # None <=> Holding(h)
    /\ \A g, h \in Handler : ptr[g] # None /\ ptr[g] = ptr[h] => key[g] = key[h]
    /\ \A h \in Handler, k \in Key : ptr[h] # None /\ table[k] = ptr[h] => key[h] = k
    /\ mode # "stream" => \A h \in Handler : Holding(h) => table[key[h]] = ptr[h]

Relays ==
    mode = "stream" =>
        /\ \A g, h \in Handler : g # h /\ ~Idle(g) /\ ~Idle(h) /\ key[g] = key[h] => beside[g]
        /\ \A k \in Key : table[k] # None => \E h \in Handler : key[h] = k /\ Holding(h)
        /\ \A h \in Handler : pc[h] \in {"read", "found"} => pkt[h].kind = "data"
        /\ \A h \in Handler : pc[h] = "found" /\ ~beside[h] => obj[ptr[h]] = NewFlow

Packets ==
    mode # "stream" =>
        \A h \in Handler :
            /\ pc[h] # "open"
            /\ pc[h] \in {"read", "found", "decided"} =>
                  IF pkt[h].kind = "data" THEN pkt[h].pay \in Pays(key[h]) ELSE pkt[h].pay = Blank

Places == Alone /\ Quiet /\ Apart /\ Pointers /\ Relays /\ Packets

LEMMA PlacesBegin == Init => Places
  BY DEF Init, Places, Alone, Idle, Holding, Quiet, Apart, Pointers, Relays, Packets

LEMMA CapturePlaces == ASSUME IInv, Places, NEW h \in Handler, Capture(h) PROVE Places'
  <1> USE DEF IInv, TypeOK, Capture, Goto, MayRun, Idle, Holding
  <1>1. mode # "stream" /\ mode' = mode /\ \A g \in Handler \ {h} : pc[g] = "idle" /\ pc'[g] = "idle"
    OBVIOUS
  <1>2. Alone' /\ Quiet' /\ Apart'
    BY <1>1 DEF Places, Alone, Quiet, Apart
  <1>3. Pointers'
    BY <1>1 DEF Places, Pointers
  <1>4. Relays'
    BY <1>1 DEF Relays
  <1>5. Packets'
    <2>1. PICK k \in Key, p \in Packet :
          /\ key' = [key EXCEPT ![h] = k]
          /\ pkt' = [pkt EXCEPT ![h] = p]
          /\ \/ p.kind # "data" /\ p.pay = Blank
             \/ p.kind = "data" /\ p.seq = Len(sent[k]) + 1 /\ sent' = [sent EXCEPT ![k] = Append(@, p.pay)]
             \/ p.kind = "data" /\ p.seq \in DOMAIN sent[k] /\ p.pay = sent[k][p.seq] /\ sent' = sent
      <3>1. PICK k \in Key, p \in Packet :
          /\ key' = [key EXCEPT ![h] = k]
          /\ pkt' = [pkt EXCEPT ![h] = p]
          /\ \/ /\ p.kind = "syn" /\ mode = "tcp" /\ p.seq = 0 /\ p.pay = Blank
                /\ sent' = [sent EXCEPT ![k] = <<>>]
             \/ /\ p.kind = "ack" /\ p.seq = 0 /\ p.pay = Blank
                /\ UNCHANGED sent
             \/ /\ p.kind = "data" /\ p.seq = Len(sent[k]) + 1
                /\ sent' = [sent EXCEPT ![k] = Append(@, p.pay)]
             \/ /\ p.kind = "data" /\ p.seq \in DOMAIN sent[k] /\ p.pay = sent[k][p.seq]
                /\ UNCHANGED sent
        BY DEF Capture
      <3> QED BY <3>1
    <2>2. p.kind = "data" => p.pay \in Pays(k)'
      <3>1. CASE p.kind # "data"
        BY <3>1
      <3>2. CASE /\ p.kind = "data" /\ p.seq = Len(sent[k]) + 1
                 /\ sent' = [sent EXCEPT ![k] = Append(@, p.pay)]
        <4>1. sent[k] \in Seq(Payload)
          OBVIOUS
        <4>2. sent'[k] = Append(sent[k], p.pay)
          BY <3>2
        <4>3. Len(sent[k]) + 1 \in DOMAIN sent'[k] /\ sent'[k][Len(sent[k]) + 1] = p.pay
          BY <4>1, <4>2
        <4> QED BY <4>3 DEF Pays
      <3>3. CASE /\ p.kind = "data" /\ p.seq \in DOMAIN sent[k] /\ p.pay = sent[k][p.seq]
                 /\ sent' = sent
        BY <3>3 DEF Pays
      <3> QED BY <2>1, <3>1, <3>2, <3>3
    <2>3. key'[h] = k /\ pkt'[h] = p
      BY <2>1
    <2> QED BY <1>1, <2>1, <2>2, <2>3 DEF Packets
  <1> QED BY <1>2, <1>3, <1>4, <1>5 DEF Places

LEMMA AcceptPlaces == ASSUME IInv, Places, NEW h \in Handler, Accept(h) PROVE Places'
  <1> USE DEF IInv, TypeOK, Accept, Goto, Idle, Holding
  <1>0. ptr[h] = None /\ mode = "stream" /\ mode' = mode
    BY DEF Places, Pointers
  <1>2. Alone' /\ Quiet' /\ Apart' /\ Packets'
    BY <1>0 DEF Places, Alone, Quiet, Apart, Packets
  <1>3. Pointers'
    BY <1>0 DEF Places, Pointers
  <1>4. Relays'
    <2>1. PICK k \in Key :
            LET others == {g \in Handler \ {h} : pc[g] # "idle" /\ key[g] = k} IN
            /\ key' = [key EXCEPT ![h] = k]
            /\ beside' = [g \in Handler |-> \/ g \in others
                                            \/ g = h /\ others # {}
                                            \/ g # h /\ beside[g]]
      OBVIOUS
    <2>2. \A f, g \in Handler : f # g /\ ~Idle(f)' /\ ~Idle(g)' /\ key'[f] = key'[g] => beside'[f]
      <3> SUFFICES ASSUME NEW f \in Handler, NEW g \in Handler,
                          f # g, ~Idle(f)', ~Idle(g)', key'[f] = key'[g]
                   PROVE  beside'[f]
        OBVIOUS
      <3>1. CASE f = h
        BY <2>1, <3>1
      <3>2. CASE g = h
        BY <2>1, <3>2
      <3>3. CASE f # h /\ g # h
        BY <1>0, <2>1, <3>3 DEF Places, Relays
      <3> QED BY <3>1, <3>2, <3>3
    <2>3. \A g \in Handler : pc'[g] \in {"read", "found"} =>
             /\ g # h /\ pc'[g] = pc[g] /\ (~beside'[g] => ~beside[g])
      BY <2>1
    <2>4. \A q \in Key : table'[q] # None => \E g \in Handler : key'[g] = q /\ Holding(g)'
      BY <1>0, <2>1 DEF Places, Relays
    <2> QED BY <1>0, <2>2, <2>3, <2>4 DEF Places, Relays
  <1> QED BY <1>2, <1>3, <1>4 DEF Places

LEMMA FirstPayloadPlaces == ASSUME IInv, Places, NEW h \in Handler, FirstPayload(h) PROVE Places'
  <1> USE DEF IInv, TypeOK, FirstPayload, Goto, Idle, Holding, netVars
  <1>1. Alone' /\ Quiet' /\ Apart' /\ Pointers'
    BY DEF Places, Alone, Quiet, Apart, Pointers
  <1>2. mode = "stream" /\ mode' = mode
    BY DEF Places, Packets
  <1>3. pkt'[h].kind = "data" /\ \A g \in Handler \ {h} : pkt'[g] = pkt[g] /\ pc'[g] = pc[g]
    BY DEF NoPkt
  <1>4. Relays'
    <2>1. \A f, g \in Handler : f # g /\ ~Idle(f)' /\ ~Idle(g)' /\ key'[f] = key'[g] => beside'[f]
      BY <1>2 DEF Places, Relays
    <2>2. \A q \in Key : table'[q] # None => \E g \in Handler : key'[g] = q /\ Holding(g)'
      BY <1>2 DEF Places, Relays
    <2>3. \A g \in Handler : pc'[g] \in {"read", "found"} => pkt'[g].kind = "data"
      BY <1>2, <1>3 DEF Places, Relays
    <2>4. \A g \in Handler : pc'[g] = "found" /\ ~beside'[g] => obj'[ptr'[g]] = NewFlow
      BY <1>2, <1>3 DEF Places, Relays
    <2> QED BY <1>2, <2>1, <2>2, <2>3, <2>4 DEF Relays
  <1>5. Packets'
    BY <1>2 DEF Packets
  <1> QED BY <1>1, <1>4, <1>5 DEF Places

LEMMA FindPlaces == ASSUME IInv, Places, NEW h \in Handler, Find(h) PROVE Places'
  <1> USE DEF IInv, TypeOK, Goto, Idle, Holding, netVars
  <1>1. PICK i \in Entry :
          /\ \/ table[key[h]] # None /\ i = table[key[h]] /\ UNCHANGED <<table, obj>>
             \/ /\ table[key[h]] = None
                /\ \A k \in Key : table[k] # i
                /\ \A g \in Handler : ptr[g] # i
                /\ table' = [table EXCEPT ![key[h]] = i]
                /\ obj' = [obj EXCEPT ![i] = NewFlow]
          /\ ptr' = [ptr EXCEPT ![h] = i]
    BY DEF Find
  <1>2. /\ pc[h] = "read" /\ pc' = [pc EXCEPT ![h] = "found"] /\ ptr[h] = None /\ i # None
        /\ UNCHANGED <<mode, snap, key, pkt, out, sent, beside>>
    BY SetsAssumption DEF Find, Places, Pointers
  <1>3. table'[key[h]] = i /\ \A k \in Key \ {key[h]} : table'[k] = table[k]
    BY <1>1
  <1>4. Alone' /\ Quiet'
    BY <1>2 DEF Places, Alone, Quiet
  <1>5. Apart'
    <2>1. CASE UNCHANGED <<table, obj>>
      BY <2>1 DEF Places, Apart
    <2>2. CASE \A k \in Key : table[k] # i
      BY <1>3, <2>2 DEF Places, Apart
    <2> QED BY <1>1, <2>1, <2>2
  <1>6. \A g \in Handler : ptr[g] = i => key[g] = key[h]
    BY <1>1, <1>2 DEF Places, Pointers
  <1>7. Pointers'
    <2>1. \A g \in Handler : ptr'[g] # None <=> Holding(g)'
      BY <1>1, <1>2 DEF Places, Pointers
    <2>2. \A f, g \in Handler : ptr'[f] # None /\ ptr'[f] = ptr'[g] => key'[f] = key'[g]
      BY <1>1, <1>2, <1>6 DEF Places, Pointers
    <2>3. \A g \in Handler, k \in Key : ptr'[g] # None /\ table'[k] = ptr'[g] => key'[g] = k
      <3> SUFFICES ASSUME NEW g \in Handler, NEW k \in Key, ptr'[g] # None, table'[k] = ptr'[g]
                   PROVE  key[g] = k
        BY <1>2
      <3>1. CASE g = h
        BY <1>1, <1>3, <1>5, <3>1 DEF Apart
      <3>2. CASE g # h
        BY <1>1, <1>2, <1>3, <1>6, <3>2 DEF Places, Pointers
      <3> QED BY <3>1, <3>2
    <2>4. mode' # "stream" => \A g \in Handler : Holding(g)' => table'[key'[g]] = ptr'[g]
      BY <1>1, <1>2, <1>3 DEF Places, Alone
    <2> QED BY <2>1, <2>2, <2>3, <2>4 DEF Pointers
  <1>8. ASSUME mode = "stream" PROVE Relays'
    <2>1. \A f, g \in Handler : f # g /\ ~Idle(f)' /\ ~Idle(g)' /\ key'[f] = key'[g] => beside'[f]
      BY <1>2, <1>8 DEF Places, Relays
    <2>2. \A q \in Key : table'[q] # None => \E g \in Handler : key'[g] = q /\ Holding(g)'
      <3> TAKE q \in Key
      <3>1. CASE q = key[h]
        BY <1>2, <3>1
      <3>2. CASE q # key[h]
        BY <1>2, <1>3, <1>8, <3>2 DEF Places, Relays
      <3> QED BY <3>1, <3>2
    <2>3. \A g \in Handler : pc'[g] \in {"read", "found"} => pkt'[g].kind = "data"
      BY <1>2, <1>8 DEF Places, Relays
    <2>4. \A g \in Handler : pc'[g] = "found" /\ ~beside'[g] => obj'[ptr'[g]] = NewFlow
      <3> SUFFICES ASSUME NEW g \in Handler, pc'[g] = "found", ~beside'[g]
                   PROVE  obj'[ptr'[g]] = NewFlow
        OBVIOUS
      <3>1. CASE g = h
        \* No other relay of this 4-tuple holds an entry, so none is in the table.
        <4>1. table[key[h]] = None
          <5> SUFFICES ASSUME table[key[h]] # None PROVE FALSE
            OBVIOUS
          <5>1. PICK f \in Handler : key[f] = key[h] /\ Holding(f)
            BY <1>8 DEF Places, Relays
          <5>2. f # h /\ ~Idle(f) /\ ~Idle(h)
            BY <1>2, <5>1
          <5> QED BY <1>2, <1>8, <3>1, <5>1, <5>2 DEF Places, Relays
        <4> QED BY <1>1, <3>1, <4>1
      <3>2. CASE g # h
        <4>1. pc[g] = "found" /\ ~beside[g] /\ ptr'[g] = ptr[g] /\ ptr[g] \in Entry
          BY <1>1, <1>2, <3>2 DEF Places, Pointers
        <4>2. obj[ptr[g]] = NewFlow
          BY <1>8, <4>1 DEF Places, Relays
        <4> QED BY <1>1, <4>1, <4>2
      <3> QED BY <3>1, <3>2
    <2> QED BY <2>1, <2>2, <2>3, <2>4 DEF Relays
  <1>9. Relays'
    BY <1>2, <1>8 DEF Relays
  <1>10. Packets'
    BY <1>2 DEF Places, Packets, Pays
  <1> QED BY <1>4, <1>5, <1>7, <1>9, <1>10 DEF Places

LEMMA DecidePlaces == ASSUME IInv, Places, NEW h \in Handler, Decide(h) PROVE Places'
  <1> USE DEF IInv, TypeOK, Goto, Idle, Holding, netVars
  <1>1. /\ pc[h] = "found" /\ pc' = [pc EXCEPT ![h] = "decided"]
        /\ UNCHANGED <<mode, chain, table, snap, key, pkt, ptr, sent, beside>>
    BY DEF Decide
  <1>2. (\A i \in Entry \ {ptr[h]} : obj'[i] = obj[i]) /\ \A g \in Handler \ {h} : out'[g] = out[g]
    BY DEF Decide
  <1>3. Alone' /\ Quiet' /\ Apart'
    BY <1>1, <1>2 DEF Places, Alone, Quiet, Apart
  <1>4. Pointers'
    BY <1>1 DEF Places, Pointers
  <1>5. ASSUME mode = "stream" PROVE Relays'
    <2>1. \A f, g \in Handler : f # g /\ ~Idle(f)' /\ ~Idle(g)' /\ key'[f] = key'[g] => beside'[f]
      BY <1>1, <1>5 DEF Places, Relays
    <2>2. \A q \in Key : table'[q] # None => \E g \in Handler : key'[g] = q /\ Holding(g)'
      BY <1>1, <1>5 DEF Places, Relays
    <2>3. \A g \in Handler : pc'[g] \in {"read", "found"} => pkt'[g].kind = "data"
      BY <1>1, <1>5 DEF Places, Relays
    <2>4. \A g \in Handler : pc'[g] = "found" /\ ~beside'[g] => obj'[ptr'[g]] = NewFlow
      <3> SUFFICES ASSUME NEW g \in Handler, pc'[g] = "found", ~beside'[g]
                   PROVE  obj'[ptr'[g]] = NewFlow
        OBVIOUS
      <3>1. g # h /\ pc[g] = "found" /\ ~beside[g] /\ ptr'[g] = ptr[g] /\ ptr[g] # None
        BY <1>1 DEF Places, Pointers
      \* A relay with the same entry has the same 4-tuple.
      <3>2. ptr[g] # ptr[h]
        <4> SUFFICES ASSUME ptr[g] = ptr[h] PROVE FALSE
          OBVIOUS
        <4>1. key[g] = key[h]
          BY <3>1 DEF Places, Pointers
        <4> QED BY <1>1, <1>5, <3>1, <4>1 DEF Places, Relays
      <3> QED BY <1>2, <1>5, <3>1, <3>2 DEF Places, Relays
    <2> QED BY <2>1, <2>2, <2>3, <2>4 DEF Relays
  <1>6. Relays'
    BY <1>1, <1>5 DEF Relays
  <1>7. Packets'
    BY <1>1 DEF Places, Packets, Pays
  <1> QED BY <1>3, <1>4, <1>6, <1>7 DEF Places

LEMMA LeavePlaces ==
    ASSUME IInv, Places, NEW h \in Handler, NEW b \in BOOLEAN, Leave(h, b), ~Idle(h),
           mode = "stream" => b
    PROVE  Places'
  <1> DEFINE t == IF b THEN [table EXCEPT ![key[h]] = None] ELSE table
             q == [ptr EXCEPT ![h] = None]
  <1> USE DEF IInv, TypeOK, Idle, Holding
  <1>1. /\ table' = t /\ ptr' = q /\ obj' = Collected(t, q) /\ pc' = [pc EXCEPT ![h] = "idle"]
        /\ pkt' = [pkt EXCEPT ![h] = NoPkt] /\ beside' = [beside EXCEPT ![h] = FALSE]
        /\ out' = [out EXCEPT ![h] = [idx |-> 0, new |-> FALSE]]
        /\ UNCHANGED <<mode, chain, lists, key, sent>>
    BY DEF Leave, Goto
  <1>2. \A k \in Key : table'[k] # None => table'[k] = table[k]
    BY <1>1
  <1>3. ptr'[h] = None /\ \A g \in Handler \ {h} : ptr'[g] = ptr[g]
    BY <1>1
  <1>4. \A g \in Handler : ptr'[g] # None => obj'[ptr'[g]] = obj[ptr'[g]]
    <2>1. \A g \in Handler : ptr'[g] # None => ptr'[g] \in Entry /\ ptr'[g] \in {q[f] : f \in Handler}
      BY <1>1
    <2> HIDE DEF t, q
    <2> QED BY <1>1, <2>1 DEF Collected
  <1>5. mode = "stream" => table'[key[h]] = None
    BY <1>1
  <1> HIDE DEF t, q
  <1>6. Alone' /\ Quiet' /\ Apart'
    <2>1. Alone' /\ Quiet'
      BY <1>1 DEF Places, Alone, Quiet
    <2>2. Apart'
      BY <1>2 DEF Places, Apart
    <2> QED BY <2>1, <2>2
  <1>7. Pointers'
    <2>0. key' = key /\ \A g \in Handler : ptr'[g] # None => ptr'[g] = ptr[g]
      BY <1>1, <1>3
    <2>1. \A g \in Handler : ptr'[g] # None <=> Holding(g)'
      BY <1>1, <1>3 DEF Places, Pointers
    <2>2. \A f, g \in Handler : ptr'[f] # None /\ ptr'[f] = ptr'[g] => key'[f] = key'[g]
      BY <2>0 DEF Places, Pointers
    <2>3. \A g \in Handler, k \in Key : ptr'[g] # None /\ table'[k] = ptr'[g] => key'[g] = k
      BY <1>2, <2>0 DEF Places, Pointers
    <2>4. mode' # "stream" => \A g \in Handler : ~Holding(g)'
      BY <1>1 DEF Places, Alone
    <2> QED BY <2>1, <2>2, <2>3, <2>4 DEF Pointers
  <1>8. ASSUME mode = "stream" PROVE Relays'
    <2>1. \A f, g \in Handler : f # g /\ ~Idle(f)' /\ ~Idle(g)' /\ key'[f] = key'[g] => beside'[f]
      BY <1>1, <1>8 DEF Places, Relays
    <2>2. \A k \in Key : table'[k] # None => \E g \in Handler : key'[g] = k /\ Holding(g)'
      <3> SUFFICES ASSUME NEW k \in Key, table'[k] # None
                   PROVE  \E g \in Handler : key'[g] = k /\ Holding(g)'
        OBVIOUS
      <3>1. k # key[h] /\ table[k] # None
        BY <1>2, <1>5, <1>8
      <3>2. PICK g \in Handler : key[g] = k /\ Holding(g)
        BY <1>8, <3>1 DEF Places, Relays
      <3> QED BY <1>1, <3>1, <3>2
    <2>3. \A g \in Handler : pc'[g] \in {"read", "found"} => pkt'[g].kind = "data"
      BY <1>1, <1>8 DEF Places, Relays
    <2>4. \A g \in Handler : pc'[g] = "found" /\ ~beside'[g] => obj'[ptr'[g]] = NewFlow
      <3> SUFFICES ASSUME NEW g \in Handler, pc'[g] = "found", ~beside'[g]
                   PROVE  obj'[ptr'[g]] = NewFlow
        OBVIOUS
      <3>1. g # h /\ pc[g] = "found" /\ ~beside[g] /\ ptr'[g] = ptr[g] /\ ptr[g] # None
        BY <1>1, <1>3 DEF Places, Pointers
      <3> QED BY <1>4, <1>8, <3>1 DEF Places, Relays
    <2> QED BY <2>1, <2>2, <2>3, <2>4 DEF Relays
  <1>9. Relays'
    BY <1>1, <1>8 DEF Relays
  <1>10. Packets'
    BY <1>1 DEF Places, Packets, Pays
  <1> QED BY <1>6, <1>7, <1>9, <1>10 DEF Places

LEMMA EvictPlaces == ASSUME IInv, Places, Evict PROVE Places'
  <1> USE DEF IInv, TypeOK, Idle, Holding, netVars
  <1>1. PICK k \in Key : /\ table' = [table EXCEPT ![k] = None]
                         /\ obj' = Collected(table', ptr)
    BY DEF Evict
  <1>2. /\ mode # "stream" => \A h \in Handler : pc[h] = "idle"
        /\ UNCHANGED <<mode, chain, lists, pc, snap, key, pkt, ptr, out, sent, beside>>
    BY DEF Evict
  <1>3. \A q \in Key : table'[q] # None => table'[q] = table[q]
    BY <1>1
  <1>4. \A g \in Handler : ptr[g] # None => obj'[ptr[g]] = obj[ptr[g]]
    BY <1>1 DEF Collected
  <1>5. Alone' /\ Quiet' /\ Apart' /\ Packets'
    BY <1>2, <1>3 DEF Places, Alone, Quiet, Apart, Packets, Pays
  <1>6. Pointers'
    BY <1>2, <1>3 DEF Places, Pointers
  <1>7. Relays'
    BY <1>2, <1>3, <1>4 DEF Places, Relays, Pointers
  <1> QED BY <1>5, <1>6, <1>7 DEF Places

LEMMA ReloadPlaces == ASSUME IInv, Places, Reload PROVE Places'
  BY DEF Reload, netVars, Places, Alone, Quiet, Apart, Pointers, Relays, Packets, Idle, Holding, Pays

-----------------------------------------------------------------------------
(* A verdict that is cached as final. Of the first match for a flow that has   *)
(* named its host only the list the flow feeds could still change it; of one   *)
(* that has not, the profiles before it admit every host or none.              *)
Stays(R, s, k, e, learned) == \A v \in Futures(e) : First(R, s, k, v, learned, e.idx)

Barred(R, s, k, e) == e.idx = 0 => First(R, s, k, View(e), [l \in List |-> Host], 0)

LEMMA PickedView ==
    ASSUME NEW s, NEW k, NEW e \in Flow, ~e.matched, e.idx = 0, NEW i \in Nat, NEW a,
           Picked(s, k, e, i, a).matched
    PROVE  LET r == Picked(s, k, e, i, a) IN
           /\ View(r) = View(e) /\ Futures(r) = Futures(e) /\ r.idx = i
           /\ i # 0 => ~(e.host = NoHost /\ HostGatedBefore(s, i, k, e.l7))
           /\ i = 0 /\ mode # "stream" =>
                 /\ a = NoList
                 /\ e.host # NoHost \/ ~HostGatedBefore(s, Len(s) + 1, k, e.l7)
  <1> DEFINE b == \/ mode = "stream"
                  \/ /\ a = NoList
                     /\ \/ e.host # NoHost
                        \/ ~HostGatedBefore(s, Len(s) + 1, k, e.l7)
             r == Picked(s, k, e, i, a)
  <1>1. CASE i # 0
    <2>1. ~(e.host = NoHost /\ HostGatedBefore(s, i, k, e.l7))
      BY <1>1 DEF Picked
    <2>2. r = [e EXCEPT !.matched = TRUE, !.idx = i]
      BY <1>1, <2>1 DEF Picked
    <2> HIDE DEF r
    <2>3. r.host = e.host /\ r.l7 = e.l7 /\ r.idx = i
      BY <2>2 DEF Flow
    <2> QED BY <1>1, <2>1, <2>3 DEF r, View, Futures
  <1>2. CASE i = 0
    <2>1. r = [e EXCEPT !.monitor = a, !.matched = b]
      BY <1>2 DEF Picked
    <2> HIDE DEF r, b
    <2>2. r.host = e.host /\ r.l7 = e.l7 /\ r.idx = 0 /\ r.matched = b
      BY <2>1 DEF Flow
    <2>3. b
      BY <2>2 DEF r
    <2> QED BY <1>2, <2>2, <2>3 DEF r, b, View, Futures
  <1> QED BY <1>1, <1>2

LEMMA KnownHostStays ==
    ASSUME NEW R, NEW s \in Seq(Profile), NEW k, NEW e \in Flow, NEW i \in 0 .. Len(s),
           NEW ls \in [List -> SUBSET Host], NEW lt \in [List -> SUBSET Host],
           First(R, s, k, View(e), ls, i), Settles(s), e.host # NoHost, R \subseteq List,
           \A l \in List : ls[l] \subseteq lt[l],
           \A l \in List : i = 0 \/ l # s[i].auto => lt[l] = ls[l],
           NEW v \in Futures(e)
    PROVE  First(R, s, k, v, lt, i)
  <1>1. v.host = e.host /\ v.l7 = e.l7 /\ View(e).host = e.host /\ View(e).l7 = e.l7
    BY DEF Futures, View
  <1>2. \A j \in DOMAIN s : s[j] \in Profile
    OBVIOUS
  <1>3. ASSUME NEW j \in DOMAIN s, j < i \/ i = 0, Admits(R, s[j], k, v, lt)
        PROVE  Admits(R, s[j], k, View(e), ls)
    <2>1. s[j].auto \in R => lt[s[j].auto] = ls[s[j].auto]
      <3>1. CASE i = 0
        BY <3>1
      <3>2. CASE i # 0
        <4>1. i \in DOMAIN s /\ j # i
          BY <1>3, <3>2
        <4>2. s[j].auto \in R => s[j].auto # NoList
          BY <1>2, SetsAssumption
        <4>3. s[j].auto \in R => s[j].auto # s[i].auto
          BY <4>1, <4>2 DEF Settles
        <4> QED BY <4>3
      <3> QED BY <3>1, <3>2
    <2> QED BY <1>1, <1>2, <1>3, <2>1 DEF Admits, MatchFilterIgnoringHost
  <1>4. ASSUME i # 0 PROVE i \in DOMAIN s /\ Admits(R, s[i], k, v, lt)
    BY <1>1, <1>2, <1>4 DEF First, Admits, MatchFilterIgnoringHost
  <1> QED BY <1>3, <1>4 DEF First

LEMMA UnknownHostStays ==
    ASSUME NEW R, NEW s \in Seq(Profile), NEW k, NEW e \in Flow, NEW i \in 0 .. Len(s),
           NEW ls \in [List -> SUBSET Host], R \subseteq List,
           First(R, s, k, View(e), ls, i), Settles(s), e.host = NoHost,
           ~HostGatedBefore(s, IF i = 0 THEN Len(s) + 1 ELSE i, k, e.l7),
           NEW v \in Futures(e)
    PROVE  First(R, s, k, v, ls, i)
  <1>1. View(e).host = NoHost /\ View(e).l7 = e.l7 /\ v.l7 = e.l7
    BY DEF View, Futures
  <1>2. \A j \in DOMAIN s : /\ s[j] \in Profile
                            /\ NoHost \notin s[j].hosts /\ NoHost \notin s[j].except
    <2>1. \A j \in DOMAIN s : s[j] \in Profile
      OBVIOUS
    <2> QED BY <2>1, SetsAssumption DEF Profile
  <1>3. \A l \in List : NoHost \notin ls[l]
    BY SetsAssumption
  <1> DEFINE Fits(j) == MatchFilterIgnoringHost(s[j], k, e.l7)
  <1>4. \A j \in DOMAIN s : (j < i \/ i = 0) /\ Fits(j) => ~s[j].gated /\ s[j].auto = NoList
    BY <1>2 DEF HostGatedBefore
  <1>5. \A j \in DOMAIN s : (j < i \/ i = 0) => ~Fits(j)
    <2> SUFFICES ASSUME NEW j \in DOMAIN s, j < i \/ i = 0, Fits(j) PROVE FALSE
      OBVIOUS
    <2>1. ~s[j].gated /\ s[j].auto \notin R
      BY <1>4, SetsAssumption
    <2>2. Admits(R, s[j], k, View(e), ls)
      BY <1>1, <1>2, <2>1 DEF Admits
    <2> QED BY <2>2 DEF First
  <1>6. ASSUME i # 0 PROVE i \in DOMAIN s /\ Admits(R, s[i], k, v, ls)
    <2>1. i \in DOMAIN s /\ Admits(R, s[i], k, View(e), ls)
      BY <1>6 DEF First
    <2>2. ~s[i].gated /\ s[i].auto \notin R /\ Fits(i)
      BY <1>1, <1>2, <1>3, <2>1 DEF Admits
    <2>3. s[i].except = {}
      <3> SUFFICES ASSUME s[i].except # {} PROVE FALSE
        OBVIOUS
      <3>1. k \in s[i].on /\ (s[i].l7 = {} \/ e.l7 \in s[i].l7)
        BY <2>2 DEF MatchFilterIgnoringHost
      <3>2. PICK j \in 1 .. i : /\ k \in s[j].on
                                /\ s[j].l7 = {} \/ (s[i].l7 # {} /\ s[i].l7 \subseteq s[j].l7)
                                /\ s[j].gated \/ (j < i /\ s[j].auto # NoList)
        BY <2>1, <3>1 DEF Settles
      <3>3. Fits(j)
        BY <3>1, <3>2 DEF MatchFilterIgnoringHost
      <3>4. j \in DOMAIN s /\ j < i
        BY <2>1, <2>2, <3>2
      <3> QED BY <1>5, <3>3, <3>4
    <2> QED BY <1>1, <1>2, <2>1, <2>2, <2>3 DEF Admits
  <1>7. \A j \in DOMAIN s : (j < i \/ i = 0) => ~Admits(R, s[j], k, v, ls)
    BY <1>1, <1>5 DEF Admits
  <1> QED BY <1>6, <1>7 DEF First

\* "No profile" is final only without a candidate among the self-learning ones.
LEMMA NoneIsBarred ==
    ASSUME NEW R, NEW s \in Seq(Profile), NEW k, NEW e \in Flow, NEW ls, NoList \notin R,
           First(R, s, k, View(e), ls, 0), AutoCandidate(s, k, e.l7, NoList)
    PROVE  First(R, s, k, View(e), [l \in List |-> Host], 0)
  <1>1. \A j \in DOMAIN s : s[j].auto = NoList \/ ~MatchFilterIgnoringHost(s[j], k, e.l7)
    BY DEF AutoCandidate
  <1>2. \A j \in DOMAIN s : ~Admits(R, s[j], k, View(e), [l \in List |-> Host])
    BY <1>1 DEF First, Admits, View
  <1> QED BY <1>2 DEF First

-----------------------------------------------------------------------------
(* Decide, taken apart: the entry as it is after the generation, the SYN, the  *)
(* counters and the payload have been looked at.                               *)
Revised(h) ==
    LET e == ReviseGeneration(obj[ptr[h]], snap[h])
    IN IF pkt[h].kind = "syn" THEN Renewed(e) ELSE e
Looked(h) == Counted(Revised(h), pkt[h])
Informed(h) == Classified(Looked(h), pkt[h])
Again(h) == IsRetrans(Revised(h), pkt[h])
Relearned(h) == IF Again(h) THEN Fed(lists, Looked(h).monitor, Looked(h).host) ELSE lists

Passes(h) ==
    /\ Looked(h).fast \/ pkt[h].kind = "ack"
    /\ obj' = [obj EXCEPT ![ptr[h]] = Looked(h)]
    /\ lists' = Relearned(h)
    /\ out' = [out EXCEPT ![h] = [idx |-> 0, new |-> FALSE]]

Chooses(h, i, a) ==
    LET s == chain[snap[h]]
        p == pkt[h]
        e == Picked(s, key[h], Informed(h), i, a)
    IN /\ ~Looked(h).fast /\ p.kind # "ack"
       /\ Chosen(s, key[h], Informed(h), Relearned(h), i)
       /\ AutoCandidate(s, key[h], Informed(h).l7, a)
       /\ obj' = [obj EXCEPT ![ptr[h]] = [e EXCEPT !.fast = Fast(s, e, p, i)]]
       /\ lists' = IF Again(h) /\ i # 0 THEN Fed(Relearned(h), s[i].auto, Informed(h).host)
                                        ELSE Relearned(h)
       /\ out' = [out EXCEPT ![h] =
             [idx |-> IF i = 0 THEN 0
                      ELSE IF Early(s, e, p, i) \/ Late(s, e, p, i) THEN 0 ELSE i,
              new |-> e.matched /\ ~Informed(h).matched]]

LEMMA DecideCases ==
    ASSUME NEW h \in Handler, Decide(h)
    PROVE  \/ Passes(h)
           \/ \E i \in 0 .. Len(chain[snap[h]]), a \in List \cup {NoList} : Chooses(h, i, a)
  BY DEF Decide, Passes, Chooses, Revised, Looked, Informed, Again, Relearned

LEMMA Prepared ==
    ASSUME IInv, NEW h \in Handler, pc[h] = "found"
    PROVE  /\ snap[h] \in 1 .. Len(chain) /\ ptr[h] \in Entry /\ pkt[h] \in Packet
           /\ chain[snap[h]] \in Seq(Profile)
           /\ Looked(h) \in Flow /\ Sound(Looked(h), chain) /\ Looked(h).gen = snap[h]
           /\ Informed(h) \in Flow /\ Sound(Informed(h), chain) /\ Informed(h).gen = snap[h]
           /\ Informed(h).fast = Looked(h).fast
           /\ Relearned(h) \in [List -> Learning]
           /\ Revised(h) \in Flow
  <1>1. /\ snap[h] \in 1 .. Len(chain) /\ ptr[h] \in Entry /\ pkt[h] \in Packet
        /\ obj[ptr[h]] \in Flow /\ Sound(obj[ptr[h]], chain)
        /\ chain \in Seq(Strategies) /\ Len(chain) <= MaxReloads + 1
    BY DEF IInv, Snaps, Holds, TypeOK, Gen
  <1>2. chain[snap[h]] \in Seq(Profile)
    BY <1>1, StrategiesAssumption
  <1> DEFINE e == ReviseGeneration(obj[ptr[h]], snap[h])
  <1>3. e \in Flow /\ Sound(e, chain) /\ e.gen = snap[h]
    BY <1>1, RevisedSound
  <1>4. Revised(h) \in Flow /\ Sound(Revised(h), chain) /\ Revised(h).gen = snap[h]
    BY <1>1, <1>3, RenewedSound DEF Revised
  <1>5. Looked(h) \in Flow /\ Sound(Looked(h), chain) /\ Looked(h).gen = snap[h]
    BY <1>1, <1>4, CountedSound DEF Looked
  <1>6. /\ Informed(h) \in Flow /\ Sound(Informed(h), chain) /\ Informed(h).gen = snap[h]
        /\ Informed(h).fast = Looked(h).fast
    BY <1>1, <1>5, ClassifiedSound DEF Informed
  <1>7. Relearned(h) \in [List -> Learning]
    <2>1. Looked(h).host \in Host \cup {NoHost}
      BY <1>5 DEF Flow
    <2> QED BY <2>1, FedTyped DEF Relearned, IInv, TypeOK
  <1> QED BY <1>1, <1>2, <1>4, <1>5, <1>6, <1>7

\* Lists only learn; with no profile chosen, or no host, the second feeding adds nothing.
LEMMA DecideLearns ==
    ASSUME IInv, NEW h \in Handler, Decide(h)
    PROVE  /\ \A l \in List : lists[l].learned \subseteq Relearned(h)[l].learned
           /\ \A l \in List : Relearned(h)[l].learned \subseteq lists'[l].learned
           /\ mode = "stream" => Relearned(h) = lists /\ lists' = lists
           /\ ~Again(h) => lists' = lists
  <1> USE DEF IInv
  <1>0. pc[h] = "found"
    BY DEF Decide
  <1>1. TypeOK /\ lists \in [List -> Learning] /\ Relearned(h) \in [List -> Learning]
        /\ Looked(h).host \in Host \cup {NoHost} /\ Informed(h).host \in Host \cup {NoHost}
    BY <1>0, Prepared DEF TypeOK, Flow
  <1>2. \A l \in List : lists[l].learned \subseteq Relearned(h)[l].learned
    <2>1. CASE Again(h)
      BY <1>1, <2>1, FedLearns DEF Relearned
    <2>2. CASE ~Again(h)
      BY <2>2 DEF Relearned
    <2> QED BY <2>1, <2>2
  <1>3. \/ lists' = Relearned(h)
        \/ Again(h) /\ \E x : lists' = Fed(Relearned(h), x, Informed(h).host)
    BY DecideCases DEF Passes, Chooses
  <1>4. \A l \in List : Relearned(h)[l].learned \subseteq lists'[l].learned
    BY <1>1, <1>3, FedLearns
  <1>5. mode = "stream" => ~Again(h)
    BY DEF Again, IsRetrans
  <1> QED BY <1>2, <1>3, <1>4, <1>5 DEF Relearned

-----------------------------------------------------------------------------
(* What the entry of a flow mirrors: names the current connection has shown,   *)
(* and a cached profile that some of them account for. While a SYN is on its   *)
(* way to the entry, that is still the one of the connection before.           *)
Mirrors(R, c, e, k, pays, learned) ==
    /\ View(e) \in ShownBy(pays)
    /\ e.matched /\ e.idx # 0 => Rests(R, c[e.gen], k, ShownBy(pays), learned, e.idx)

Renewing(k) == \E h \in Handler : key[h] = k /\ pc[h] \in {"read", "found"} /\ pkt[h].kind = "syn"

Faithful ==
    mode # "stream" =>
        \A k \in Key : table[k] # None /\ ~Renewing(k) =>
            Mirrors(Registered, chain, obj[table[k]], k, Pays(k), Learned(lists))

Seen(h) == IF mode = "stream" THEN {pkt[h].pay} ELSE Pays(key[h])

Earned ==
    \A h \in Handler : out[h].idx # 0 /\ ~beside[h] =>
        Rests(Registered, chain[snap[h]], key[h], ShownBy(Seen(h)), Learned(lists), out[h].idx)

LEMMA EarnedIsShown == ASSUME IInv, Places PROVE Earned => RunsWhatWasShown
  <1> SUFFICES ASSUME Earned, NEW h \in Handler, out[h].idx # 0, ~beside[h]
               PROVE  \E v \in Shown(h), known \in [List -> SUBSET Host] :
                        /\ \A l \in List : known[l] \subseteq lists[l].learned
                        /\ IsFirst(chain[snap[h]], key[h], v,
                             [l \in List |-> [lists[l] EXCEPT !.learned = known[l]]], out[h].idx)
    BY DEF RunsWhatWasShown
  <1>1. Shown(h) = ShownBy(Seen(h))
    BY DEF Shown, ShownBy, Seen, Pays
  <1>2. PICK v \in ShownBy(Seen(h)), known \in [List -> SUBSET Host] :
           /\ \A l \in List : known[l] \subseteq Learned(lists)[l]
           /\ First(Registered, chain[snap[h]], key[h], v, known, out[h].idx)
    BY DEF Earned, Rests
  <1> DEFINE ls == [l \in List |-> [lists[l] EXCEPT !.learned = known[l]]]
  <1>3. Learned(ls) = known
    <2>1. \A l \in List : lists[l] \in Learning
      BY DEF IInv, TypeOK
    <2> QED BY <2>1 DEF Learning, Learned
  <1>4. \A l \in List : known[l] \subseteq lists[l].learned
    BY <1>2 DEF Learned
  <1>5. chain[snap[h]] \in Seq(Profile)
    <2>1. pc[h] = "decided"
      BY DEF Places, Quiet
    <2>2. snap[h] \in 1 .. Len(chain) /\ chain \in Seq(Strategies)
      BY <2>1 DEF IInv, Snaps, TypeOK, Gen
    <2> QED BY <2>2, StrategiesAssumption
  <1>6. IsFirst(chain[snap[h]], key[h], v, ls, out[h].idx)
    BY <1>2, <1>3, <1>5, FirstIsFirst
  <1> QED BY <1>1, <1>4, <1>6

LEMMA MirrorsGrows ==
    ASSUME NEW R, NEW c, NEW d, NEW e, NEW k, NEW pays, NEW more, pays \subseteq more,
           NEW learned, NEW greater, \A l \in List : learned[l] \subseteq greater[l],
           e.matched /\ e.idx # 0 => d[e.gen] = c[e.gen],
           Mirrors(R, c, e, k, pays, learned)
    PROVE  Mirrors(R, d, e, k, more, greater)
  <1>1. ShownBy(pays) \subseteq ShownBy(more)
    BY DEF ShownBy
  <1> QED BY <1>1, RestsGrows DEF Mirrors

LEMMA NewFlowMirrors ==
    ASSUME NEW R, NEW c, NEW k, NEW pays, NEW learned
    PROVE  Mirrors(R, c, NewFlow, k, pays, learned)
  BY DEF Mirrors, NewFlow, View, ShownBy

LEMMA LookedMirrors ==
    ASSUME IInv, NEW h \in Handler, pc[h] = "found", NEW R, NEW pays, NEW learned,
           pkt[h].kind # "syn" => Mirrors(R, chain, obj[ptr[h]], key[h], pays, learned)
    PROVE  Mirrors(R, chain, Looked(h), key[h], pays, learned)
  <1> DEFINE e0 == obj[ptr[h]]
             e1 == ReviseGeneration(e0, snap[h])
             e2 == Revised(h)
  <1>1. e0 \in Flow /\ e2 \in Flow /\ pkt[h] \in Packet
    BY Prepared DEF IInv, TypeOK
  <1>2. Mirrors(R, chain, e2, key[h], pays, learned)
    <2>1. CASE pkt[h].kind = "syn"
      <3>1. e2.host = NoHost /\ e2.l7 = NoL7 /\ e2.matched = FALSE
        BY <2>1 DEF Revised, Renewed, NewFlow
      <3> QED BY <3>1 DEF Mirrors, View, ShownBy
    <2>2. CASE pkt[h].kind # "syn"
      <3>1. e2 = e1
        BY <2>2 DEF Revised
      <3>2. CASE e0.gen = snap[h]
        BY <2>2, <3>1, <3>2 DEF ReviseGeneration
      <3>3. CASE e0.gen # snap[h]
        <4>1. e1 = [e0 EXCEPT !.gen = snap[h], !.matched = FALSE, !.idx = 0, !.fast = FALSE]
          BY <3>3 DEF ReviseGeneration
        <4>2. e1.host = e0.host /\ e1.l7 = e0.l7 /\ e1.matched = FALSE
          BY <1>1, <4>1 DEF Flow
        <4> QED BY <2>2, <3>1, <4>2 DEF Mirrors, View
      <3> QED BY <3>2, <3>3
    <2> QED BY <2>1, <2>2
  <1>3. /\ Looked(h).host = e2.host /\ Looked(h).l7 = e2.l7 /\ Looked(h).matched = e2.matched
        /\ Looked(h).idx = e2.idx /\ Looked(h).gen = e2.gen
    BY <1>1 DEF Looked, Counted, Flow
  <1> QED BY <1>2, <1>3 DEF Mirrors, View

LEMMA InformedMirrors ==
    ASSUME IInv, NEW h \in Handler, pc[h] = "found", NEW R, NEW pays, NEW learned,
           Mirrors(R, chain, Looked(h), key[h], pays, learned), pkt[h].pay \in pays \cup {Blank}
    PROVE  /\ Mirrors(R, chain, Informed(h), key[h], pays, learned)
           /\ Informed(h).matched = Looked(h).matched
  <1>1. Looked(h) \in Flow
    BY Prepared
  <1>2. /\ Informed(h).matched = Looked(h).matched
        /\ Informed(h).idx = Looked(h).idx /\ Informed(h).gen = Looked(h).gen
        /\ Informed(h).host = IF pkt[h].pay.host # NoHost THEN pkt[h].pay.host ELSE Looked(h).host
        /\ Informed(h).l7 = IF pkt[h].pay.l7 # NoL7 THEN pkt[h].pay.l7 ELSE Looked(h).l7
    BY <1>1 DEF Informed, Classified, Flow
  <1>3. View(Informed(h)) \in ShownBy(pays)
    BY <1>2 DEF Mirrors, View, ShownBy, Blank
  <1> QED BY <1>2, <1>3 DEF Mirrors

\* The entry after a choice, and the profile that was chosen.
LEMMA ChosenRests ==
    ASSUME IInv, NEW h \in Handler, pc[h] = "found", NEW pays, NEW learned,
           Mirrors(Registered, chain, Informed(h), key[h], pays, learned),
           NEW i \in 0 .. Len(chain[snap[h]]), NEW a \in List \cup {NoList},
           Chosen(chain[snap[h]], key[h], Informed(h), Relearned(h), i),
           \A l \in List : Learned(Relearned(h))[l] \subseteq learned[l]
    PROVE  /\ i # 0 => Rests(Registered, chain[snap[h]], key[h], ShownBy(pays), learned, i)
           /\ LET e == Picked(chain[snap[h]], key[h], Informed(h), i, a) IN
              /\ View(e) = View(Informed(h)) /\ e.gen = snap[h]
              /\ e.idx # 0 /\ e.matched => e.idx = i
  <1> DEFINE s == chain[snap[h]]
             e4 == Informed(h)
             e == Picked(s, key[h], e4, i, a)
  <1>1. /\ s \in Seq(Profile) /\ e4 \in Flow /\ e4.gen = snap[h]
        /\ Relearned(h) \in [List -> Learning] /\ (e4.matched \/ e4.idx = 0)
    BY Prepared DEF Sound
  <1>2. ASSUME i # 0 PROVE Rests(Registered, s, key[h], ShownBy(pays), learned, i)
    <2>1. CASE e4.matched
      BY <1>1, <1>2, <2>1 DEF Chosen, Mirrors
    <2>2. CASE ~e4.matched
      <3>1. First(Registered, s, key[h], View(e4), Learned(Relearned(h)), i)
        BY <1>1, <2>2, FirstIsFirst DEF Chosen
      <3>2. Learned(Relearned(h)) \in [List -> SUBSET Host]
        BY <1>1 DEF Learned, Learning
      <3> QED BY <3>1, <3>2 DEF Rests, Mirrors
    <2> QED BY <2>1, <2>2
  <1>3. View(e) = View(e4) /\ e.gen = snap[h] /\ (e.idx # 0 /\ e.matched => e.idx = i)
    <2>1. \/ e = e4
          \/ e = [e4 EXCEPT !.matched = TRUE, !.idx = i]
          \/ i = 0 /\ \E b \in BOOLEAN : e = [e4 EXCEPT !.monitor = a, !.matched = b]
      BY DEF Picked
    <2>2. e4.matched /\ e4.idx # 0 => e = e4 /\ i = e4.idx
      <3>1. e4.matched /\ e4.idx # 0 => e4.idx \in DOMAIN s
        BY <1>1, Prepared DEF Sound
      <3> QED BY <3>1 DEF Picked, Chosen
    <2> HIDE DEF e, e4
    <2>3. e.idx \in {e4.idx, i} /\ e.host = e4.host /\ e.l7 = e4.l7 /\ e.gen = e4.gen
      BY <1>1, <2>1 DEF Flow
    <2>4. e.idx # 0 /\ e.matched => e.idx = i
      BY <1>1, <2>1, <2>2, <2>3
    <2> QED BY <1>1, <2>3, <2>4 DEF View
  <1> QED BY <1>2, <1>3

-----------------------------------------------------------------------------
(* The verdicts over the actions. Nobody else works in the datapath, so the    *)
(* verdict of a packet stays what Decide made it.                              *)
Verdicts ==
    mode # "stream" =>
        \A h \in Handler : out[h].new =>
            LET s == chain[snap[h]]
                e == obj[ptr[h]]
            IN /\ Barred(Registered, s, key[h], e)
               /\ Settles(s) => Stays(Registered, s, key[h], e, Learned(lists))

VInv == IInv /\ Places /\ Faithful /\ Earned /\ Verdicts

LEMMA VerdictsBegin == Init => Faithful /\ Earned /\ Verdicts
  BY DEF Init, Faithful, Earned, Verdicts

\* The others have nothing in hand.
LEMMA OthersQuiet ==
    ASSUME Places, NEW h \in Handler, ~Idle(h), mode # "stream"
    PROVE  \A g \in Handler \ {h} : pc[g] = "idle" /\ out[g] = [idx |-> 0, new |-> FALSE]
  BY DEF Places, Alone, Quiet, Idle

LEMMA CaptureVerdicts == ASSUME VInv, NEW h \in Handler, Capture(h) PROVE Faithful' /\ Earned' /\ Verdicts'
  <1> USE DEF VInv
  <1>1. PICK k \in Key, p \in Packet :
          /\ key' = [key EXCEPT ![h] = k]
          /\ pkt' = [pkt EXCEPT ![h] = p]
          /\ \/ p.kind = "syn" /\ sent' = [sent EXCEPT ![k] = <<>>]
             \/ sent' = sent
             \/ sent' = [sent EXCEPT ![k] = Append(@, p.pay)]
    BY DEF Capture
  <1>2. /\ mode # "stream" /\ \A g \in Handler : pc[g] = "idle"
        /\ pc' = [pc EXCEPT ![h] = "read"]
        /\ UNCHANGED <<mode, chain, table, obj, lists, ptr, out, beside>>
    BY DEF Capture, MayRun, Goto
  <1>3. \A g \in Handler : out'[g].idx = 0 /\ ~out'[g].new
    BY <1>2 DEF Places, Quiet
  <1>4. key'[h] = k /\ pkt'[h] = p /\ pc'[h] = "read"
    BY <1>1, <1>2 DEF IInv, TypeOK
  <1>5. ASSUME NEW q \in Key, ~Renewing(q)' PROVE Pays(q) \subseteq Pays(q)'
    <2>1. CASE q # k
      BY <1>1, <2>1 DEF IInv, TypeOK, Pays
    <2>2. CASE q = k
      <3>1. p.kind # "syn"
        BY <1>4, <1>5, <2>2 DEF Renewing
      <3>2. CASE sent' = sent
        BY <3>2 DEF Pays
      <3>3. CASE sent' = [sent EXCEPT ![k] = Append(@, p.pay)]
        <4>1. sent[k] \in Seq(Payload) /\ p.pay \in Payload /\ sent'[k] = Append(sent[k], p.pay)
          BY <3>3 DEF IInv, TypeOK, Packet
        <4>2. \A i \in DOMAIN sent[k] : i \in DOMAIN sent'[k] /\ sent'[k][i] = sent[k][i]
          BY <4>1
        <4> QED BY <2>2, <4>2 DEF Pays
      <3> QED BY <1>1, <3>1, <3>2, <3>3
    <2> QED BY <2>1, <2>2
  <1>6. \A q \in Key : ~Renewing(q)
    BY <1>2 DEF Renewing
  <1>7. Faithful'
    <2> SUFFICES ASSUME NEW q \in Key, table[q] # None, ~Renewing(q)'
                 PROVE  Mirrors(Registered, chain, obj[table[q]], q, Pays(q)', Learned(lists))
      BY <1>2 DEF Faithful, Registered
    <2>1. Mirrors(Registered, chain, obj[table[q]], q, Pays(q), Learned(lists))
      BY <1>2, <1>6 DEF Faithful
    <2> QED BY <1>5, <2>1, MirrorsGrows
  <1> QED BY <1>3, <1>7 DEF Earned, Verdicts

\* What an action leaves alone that changes neither strategies nor lists.
LEMMA EarnedKept ==
    ASSUME Earned, UNCHANGED <<mode, chain, lists, sent>>,
           \A h \in Handler : out'[h].idx # 0 /\ ~beside'[h] =>
              /\ out[h].idx = out'[h].idx /\ ~beside[h]
              /\ snap'[h] = snap[h] /\ key'[h] = key[h] /\ pkt'[h] = pkt[h]
    PROVE  Earned'
  BY ZenonT(40) DEF Earned, Seen, Pays, Registered

LEMMA FaithfulKept ==
    ASSUME Faithful, UNCHANGED <<mode, chain, lists, sent>>,
           mode # "stream" =>
              \A k \in Key : table'[k] # None =>
                 /\ Renewing(k) => Renewing(k)'
                 /\ \/ table[k] # None /\ obj'[table'[k]] = obj[table[k]]
                    \/ obj'[table'[k]] = NewFlow
    PROVE  Faithful'
  <1> SUFFICES ASSUME mode # "stream", NEW k \in Key, table'[k] # None, ~Renewing(k)'
               PROVE  Mirrors(Registered, chain, obj'[table'[k]], k, Pays(k), Learned(lists))
    BY ZenonT(40) DEF Faithful, Registered, Pays
  <1>1. CASE table[k] # None /\ obj'[table'[k]] = obj[table[k]]
    BY <1>1 DEF Faithful
  <1>2. CASE obj'[table'[k]] = NewFlow
    BY <1>2, NewFlowMirrors
  <1> QED BY <1>1, <1>2

LEMMA AcceptVerdicts == ASSUME VInv, NEW h \in Handler, Accept(h) PROVE Faithful' /\ Earned' /\ Verdicts'
  <1> USE DEF VInv
  <1>1. pc[h] = "idle" /\ mode = "stream" /\ UNCHANGED <<mode, chain, table, obj, lists, snap, pkt, ptr, out, sent>>
    BY DEF Accept
  <1>2. \A g \in Handler \ {h} : key'[g] = key[g] /\ (~beside'[g] => ~beside[g])
    BY DEF Accept, IInv, TypeOK
  <1>3. out[h].idx = 0
    BY <1>1 DEF Places, Quiet
  <1>4. Earned'
    BY <1>1, <1>2, <1>3, EarnedKept
  <1> QED BY <1>1, <1>4 DEF Faithful, Verdicts

LEMMA FirstPayloadVerdicts ==
    ASSUME VInv, NEW h \in Handler, FirstPayload(h) PROVE Faithful' /\ Earned' /\ Verdicts'
  <1> USE DEF VInv
  <1>1. pc[h] = "open" /\ UNCHANGED <<mode, chain, table, obj, lists, key, ptr, out, sent, beside>>
    BY DEF FirstPayload, netVars
  <1>2. \A g \in Handler \ {h} : pkt'[g] = pkt[g] /\ snap'[g] = snap[g]
    BY DEF FirstPayload, IInv, TypeOK
  <1>3. out[h].idx = 0 /\ mode = "stream"
    BY <1>1 DEF Places, Quiet, Packets
  <1>4. Earned'
    BY <1>1, <1>2, <1>3, EarnedKept
  <1> QED BY <1>1, <1>3, <1>4 DEF Faithful, Verdicts

LEMMA FindVerdicts == ASSUME VInv, NEW h \in Handler, Find(h) PROVE Faithful' /\ Earned' /\ Verdicts'
  <1> USE DEF VInv
  <1>1. PICK i \in Entry :
          \/ UNCHANGED <<table, obj>>
          \/ /\ table[key[h]] = None
             /\ \A k \in Key : table[k] # i
             /\ table' = [table EXCEPT ![key[h]] = i]
             /\ obj' = [obj EXCEPT ![i] = NewFlow]
    BY DEF Find
  <1>2. /\ pc[h] = "read" /\ pc' = [pc EXCEPT ![h] = "found"]
        /\ UNCHANGED <<mode, chain, lists, snap, key, pkt, out, sent, beside>>
    BY DEF Find, Goto, netVars
  <1>3. Earned'
    BY <1>2, EarnedKept
  <1>4. Faithful'
    <2>1. \A k \in Key : Renewing(k) => Renewing(k)'
      BY <1>2 DEF Renewing, IInv, TypeOK
    <2>2. \A k \in Key : table'[k] # None =>
             \/ table[k] # None /\ obj'[table'[k]] = obj[table[k]]
             \/ obj'[table'[k]] = NewFlow
      <3> SUFFICES ASSUME NEW k \in Key, table'[k] # None
                   PROVE  \/ table[k] # None /\ obj'[table'[k]] = obj[table[k]]
                          \/ obj'[table'[k]] = NewFlow
        OBVIOUS
      <3>1. table \in [Key -> Entry \cup {None}] /\ obj \in [Entry -> Flow]
        BY DEF IInv, TypeOK
      <3>2. CASE UNCHANGED <<table, obj>>
        BY <3>2
      <3>3. CASE /\ \A q \in Key : table[q] # i
                 /\ table' = [table EXCEPT ![key[h]] = i]
                 /\ obj' = [obj EXCEPT ![i] = NewFlow]
        <4>1. CASE k = key[h]
          BY <3>1, <3>3, <4>1
        <4>2. CASE k # key[h]
          <5>1. table'[k] = table[k] /\ table[k] # i /\ table[k] \in Entry
            BY <3>1, <3>3, <4>2
          <5> QED BY <3>1, <3>3, <5>1
        <4> QED BY <4>1, <4>2
      <3> QED BY <1>1, <3>2, <3>3
    <2> QED BY <1>2, <2>1, <2>2, FaithfulKept
  <1>5. ASSUME mode # "stream" PROVE \A g \in Handler : ~out'[g].new
    BY <1>2, <1>5, OthersQuiet DEF Idle, Places, Quiet
  <1> QED BY <1>2, <1>3, <1>4, <1>5 DEF Verdicts

LEMMA LeaveVerdicts ==
    ASSUME VInv, NEW h \in Handler, NEW b \in BOOLEAN, Leave(h, b), pc[h] \in {"open", "decided"}
    PROVE  Faithful' /\ Earned' /\ Verdicts'
  <1> DEFINE t == IF b THEN [table EXCEPT ![key[h]] = None] ELSE table
             q == [ptr EXCEPT ![h] = None]
  <1> USE DEF VInv
  <1>1. /\ table' = t /\ ptr' = q /\ obj' = Collected(t, q) /\ pc' = [pc EXCEPT ![h] = "idle"]
        /\ pkt' = [pkt EXCEPT ![h] = NoPkt] /\ beside' = [beside EXCEPT ![h] = FALSE]
        /\ out' = [out EXCEPT ![h] = [idx |-> 0, new |-> FALSE]] /\ snap' = [snap EXCEPT ![h] = 0]
        /\ UNCHANGED <<mode, chain, lists, key, sent>>
    BY DEF Leave, Goto
  <1>2. \A k \in Key : t[k] # None => table[k] = t[k] /\ t[k] \in Entry
    BY DEF IInv, TypeOK
  <1> HIDE DEF t, q
  <1>3. /\ out'[h] = [idx |-> 0, new |-> FALSE]
        /\ \A g \in Handler \ {h} :
              /\ out'[g] = out[g] /\ beside'[g] = beside[g] /\ snap'[g] = snap[g]
              /\ pkt'[g] = pkt[g] /\ pc'[g] = pc[g]
    BY <1>1 DEF IInv, TypeOK
  <1>4. Earned'
    BY <1>1, <1>3, EarnedKept
  <1>5. Faithful'
    <2>1. \A k \in Key : Renewing(k) => Renewing(k)'
      BY <1>1, <1>3 DEF Renewing
    <2>2. \A k \in Key : t[k] # None => Collected(t, q)[t[k]] = obj[t[k]]
      BY <1>2 DEF Collected
    <2> QED BY <1>1, <1>2, <2>1, <2>2, FaithfulKept
  <1>6. ASSUME mode # "stream" PROVE \A g \in Handler : ~out'[g].new
    BY <1>3, <1>6, OthersQuiet DEF Idle
  <1> QED BY <1>1, <1>4, <1>5, <1>6 DEF Verdicts

LEMMA EvictVerdicts == ASSUME VInv, Evict PROVE Faithful' /\ Earned' /\ Verdicts'
  <1> USE DEF VInv
  <1>1. PICK k \in Key : /\ table' = [table EXCEPT ![k] = None]
                         /\ obj' = Collected(table', ptr)
    BY DEF Evict
  <1>2. /\ mode # "stream" => \A h \in Handler : pc[h] = "idle"
        /\ UNCHANGED <<mode, chain, lists, pc, snap, key, pkt, ptr, out, sent, beside>>
    BY DEF Evict, netVars
  <1>3. Earned'
    BY <1>2, EarnedKept
  <1>4. Faithful'
    <2>1. \A q \in Key : Renewing(q) => Renewing(q)'
      BY <1>2 DEF Renewing
    <2>2. \A q \in Key : table'[q] # None => table'[q] = table[q] /\ table[q] \in Entry
      BY <1>1 DEF IInv, TypeOK
    <2>3. \A q \in Key : table'[q] # None => obj'[table'[q]] = obj[table[q]]
      BY <1>1, <2>2 DEF Collected
    <2> QED BY <1>2, <2>1, <2>2, <2>3, FaithfulKept
  <1>5. mode # "stream" => \A h \in Handler : ~out'[h].new
    BY <1>2 DEF Places, Quiet
  <1> QED BY <1>2, <1>3, <1>4, <1>5 DEF Verdicts

LEMMA ReloadVerdicts == ASSUME VInv, Reload PROVE Faithful' /\ Earned' /\ Verdicts'
  <1> USE DEF VInv
  <1>1. PICK s \in Strategies : chain' = Append(chain, s)
    BY DEF Reload
  <1>2. UNCHANGED <<mode, table, obj, lists, pc, snap, key, pkt, ptr, out, sent, beside>>
    BY DEF Reload, netVars
  <1>3. chain \in Seq(Strategies) /\ Len(chain) >= 1
    BY DEF IInv, TypeOK
  <1>4. \A g \in 1 .. Len(chain) : chain'[g] = chain[g]
    BY <1>1, <1>3
  <1>5. Registered' = Registered
    BY <1>3, <1>4 DEF Registered
  <1>6. \A h \in Handler : out[h].idx # 0 \/ out[h].new => chain'[snap[h]] = chain[snap[h]]
    BY <1>4 DEF Places, Quiet, IInv, Snaps, Gen
  <1>7. Earned'
    BY <1>2, <1>5, <1>6 DEF Earned, Seen, Pays
  <1>8. Verdicts'
    BY <1>2, <1>5, <1>6 DEF Verdicts
  <1>9. Faithful'
    <2> SUFFICES ASSUME mode # "stream", NEW k \in Key, table[k] # None, ~Renewing(k)
                 PROVE  Mirrors(Registered, chain', obj[table[k]], k, Pays(k), Learned(lists))
      BY <1>2, <1>5 DEF Faithful, Renewing, Pays
    <2>1. Mirrors(Registered, chain, obj[table[k]], k, Pays(k), Learned(lists))
      BY DEF Faithful
    <2>2. obj[table[k]].matched => obj[table[k]].gen \in 1 .. Len(chain)
      <3>1. table[k] \in Entry /\ Sound(obj[table[k]], chain) /\ obj[table[k]] \in Flow
        BY DEF IInv, TypeOK
      <3> QED BY <3>1 DEF Sound, Flow
    <2> QED BY <1>4, <2>1, <2>2, MirrorsGrows
  <1> QED BY <1>7, <1>8, <1>9

\* A verdict that this packet makes final.
LEMMA DecideFinal ==
    ASSUME IInv, NEW h \in Handler, Decide(h), mode # "stream", out'[h].new
    PROVE  LET s == chain[snap[h]]
               e == obj'[ptr[h]]
           IN /\ Barred(Registered, s, key[h], e)
              /\ Settles(s) => Stays(Registered, s, key[h], e, Learned(lists'))
  <1> DEFINE s == chain[snap[h]]
             k == key[h]
             R == Registered
             e4 == Informed(h)
             r == obj'[ptr[h]]
  <1>1. /\ ptr[h] \in Entry /\ s \in Seq(Profile) /\ e4 \in Flow /\ (e4.matched \/ e4.idx = 0)
        /\ Relearned(h) \in [List -> Learning] /\ obj \in [Entry -> Flow] /\ obj' \in [Entry -> Flow]
        /\ lists' \in [List -> Learning]
    <2>1. pc[h] = "found"
      BY DEF Decide
    <2> QED BY <2>1, Prepared, DecideKeeps DEF IInv, TypeOK, Sound
  <1>2. R \subseteq List /\ NoList \notin R
    BY RegisteredLists DEF IInv, Registered
  <1>3. PICK i \in 0 .. Len(s), a \in List \cup {NoList} : Chooses(h, i, a)
    BY DecideCases DEF Passes, IInv, TypeOK
  <1> DEFINE e5 == Picked(s, k, e4, i, a)
             ls == Learned(Relearned(h))
             lt == Learned(lists')
  <1>4. /\ Chosen(s, k, e4, Relearned(h), i) /\ AutoCandidate(s, k, e4.l7, a)
        /\ e5.matched /\ ~e4.matched
        /\ r = [e5 EXCEPT !.fast = Fast(s, e5, pkt[h], i)]
    BY <1>1, <1>3 DEF Chooses, IInv, TypeOK
  <1>5. /\ View(e5) = View(e4) /\ Futures(e5) = Futures(e4) /\ e5.idx = i
        /\ i # 0 => ~(e4.host = NoHost /\ HostGatedBefore(s, i, k, e4.l7))
        /\ i = 0 => a = NoList /\ (e4.host # NoHost \/ ~HostGatedBefore(s, Len(s) + 1, k, e4.l7))
    BY <1>1, <1>4, PickedView
  <1>6. View(r) = View(e4) /\ Futures(r) = Futures(e4) /\ r.idx = i
    <2>1. e5 \in Flow
      <3>1. \/ e5 = [e4 EXCEPT !.matched = TRUE, !.idx = i]
            \/ \E b \in BOOLEAN : e5 = [e4 EXCEPT !.monitor = a, !.matched = b]
        BY <1>4 DEF Picked
      <3>2. i \in Nat
        BY <1>1
      <3> HIDE DEF e5, e4
      <3>3. CASE e5 = [e4 EXCEPT !.matched = TRUE, !.idx = i]
        BY <1>1, <3>2, <3>3 DEF Flow
      <3>4. CASE \E b \in BOOLEAN : e5 = [e4 EXCEPT !.monitor = a, !.matched = b]
        BY ZenonT(40), <1>1, <3>4 DEF Flow
      <3> QED BY <3>1, <3>3, <3>4
    <2> HIDE DEF e5, r
    <2>2. r.host = e5.host /\ r.l7 = e5.l7 /\ r.idx = e5.idx
      BY <1>4, <2>1 DEF Flow
    <2> QED BY <1>5, <2>2 DEF View, Futures
  <1>7. First(R, s, k, View(e4), ls, i)
    BY <1>1, <1>4, FirstIsFirst DEF Chosen
  <1>8. Barred(R, s, k, r)
    <2> SUFFICES ASSUME i = 0 PROVE First(R, s, k, View(e4), [l \in List |-> Host], 0)
      BY <1>6 DEF Barred
    <2>1. First(R, s, k, View(e4), ls, 0) /\ AutoCandidate(s, k, e4.l7, NoList)
      BY <1>4, <1>5, <1>7
    <2> QED BY <1>1, <1>2, <2>1, NoneIsBarred
  <1>9. ASSUME Settles(s), NEW v \in Futures(e4) PROVE First(R, s, k, v, lt, i)
    <2>1. ls \in [List -> SUBSET Host] /\ lt \in [List -> SUBSET Host]
      BY <1>1 DEF Learned, Learning
    <2>2. e4.host \in Host \cup {NoHost}
      BY <1>1 DEF Flow
    <2>3. \/ lists' = Relearned(h)
          \/ i # 0 /\ lists' = Fed(Relearned(h), s[i].auto, e4.host)
      BY <1>3 DEF Chooses
    <2>4. CASE e4.host = NoHost
      <3>1. lists' = Relearned(h)
        BY <1>1, <2>2, <2>3, <2>4, FedLearns DEF IInv
      <3>2. ~HostGatedBefore(s, IF i = 0 THEN Len(s) + 1 ELSE i, k, e4.l7)
        BY <1>5, <2>4
      <3> QED BY <1>1, <1>2, <1>7, <1>9, <2>1, <2>4, <3>1, <3>2, UnknownHostStays
    <2>5. CASE e4.host # NoHost
      <3>1. /\ \A l \in List : ls[l] \subseteq lt[l]
            /\ \A l \in List : i = 0 \/ l # s[i].auto => lt[l] = ls[l]
        BY <1>1, <2>2, <2>3, FedLearns DEF IInv, Learned
      <3> HIDE DEF ls, lt
      <3> QED BY <1>1, <1>2, <1>7, <1>9, <2>1, <2>5, <3>1, KnownHostStays
    <2> QED BY <2>4, <2>5
  <1> QED BY <1>6, <1>8, <1>9 DEF Stays

\* The choice of a packet in the datapath, for the flow the entry belongs to.
LEMMA DecideVerdicts == ASSUME VInv, NEW h \in Handler, Decide(h) PROVE Faithful' /\ Earned' /\ Verdicts'
  <1> USE DEF VInv
  <1> DEFINE s == chain[snap[h]]
             k == key[h]
             R == Registered
             L == Learned(lists')
             e4 == Informed(h)
  <1>1. /\ pc[h] = "found" /\ pc' = [pc EXCEPT ![h] = "decided"]
        /\ UNCHANGED <<mode, chain, table, snap, key, pkt, ptr, sent, beside>>
    BY DEF Decide, Goto, netVars
  <1>2. /\ (\A i \in Entry \ {ptr[h]} : obj'[i] = obj[i])
        /\ \A g \in Handler \ {h} : out'[g] = out[g]
    BY DEF Decide, IInv, TypeOK
  <1>3. Registered' = R /\ R \subseteq List /\ NoList \notin R
    BY <1>1, RegisteredLists DEF Registered, IInv
  <1>4. /\ \A l \in List : Learned(lists)[l] \subseteq L[l]
        /\ \A l \in List : Learned(Relearned(h))[l] \subseteq L[l]
    BY DecideLearns DEF Learned
  <1>5. /\ ptr[h] \in Entry /\ pkt[h] \in Packet /\ k \in Key /\ s \in Seq(Profile)
        /\ obj \in [Entry -> Flow] /\ obj' \in [Entry -> Flow] /\ out' \in [Handler -> [idx: Nat, new: BOOLEAN]]
    BY <1>1, Prepared, DecideKeeps DEF IInv, TypeOK
  \* The two ways the step ends, given what the entry mirrors before it.
  <1>6. ASSUME NEW pays, pkt[h].pay \in pays \cup {Blank},
               pkt[h].kind # "syn" => Mirrors(R, chain, obj[ptr[h]], k, pays, L)
        PROVE  /\ Mirrors(R, chain, obj'[ptr[h]], k, pays, L)
               /\ out'[h].idx # 0 => Rests(R, s, k, ShownBy(pays), L, out'[h].idx)
    <2>1. Mirrors(R, chain, Looked(h), k, pays, L)
      BY <1>1, <1>6, LookedMirrors
    <2>2. Mirrors(R, chain, e4, k, pays, L)
      BY <1>1, <1>6, <2>1, InformedMirrors
    <2>3. CASE Passes(h)
      <3>1. obj'[ptr[h]] = Looked(h) /\ out'[h] = [idx |-> 0, new |-> FALSE]
        BY <1>5, <2>3 DEF Passes, IInv, TypeOK
      <3> QED BY <2>1, <3>1
    <2>4. ASSUME NEW i \in 0 .. Len(s), NEW a \in List \cup {NoList}, Chooses(h, i, a)
          PROVE  /\ Mirrors(R, chain, obj'[ptr[h]], k, pays, L)
                 /\ out'[h].idx # 0 => Rests(R, s, k, ShownBy(pays), L, out'[h].idx)
      <3> DEFINE e5 == Picked(s, k, e4, i, a)
                 r == obj'[ptr[h]]
      <3>1. /\ Chosen(s, k, e4, Relearned(h), i)
            /\ out'[h].idx \in {0, i}
            /\ r = [e5 EXCEPT !.fast = Fast(s, e5, pkt[h], i)]
        BY <1>5, <2>4 DEF Chooses, IInv, TypeOK
      <3>2. /\ i # 0 => Rests(R, s, k, ShownBy(pays), L, i)
            /\ View(e5) = View(e4) /\ e5.gen = snap[h] /\ (e5.idx # 0 /\ e5.matched => e5.idx = i)
        BY <1>1, <1>4, <2>2, <3>1, ChosenRests
      <3>3. r.gen = e5.gen /\ r.host = e5.host /\ r.l7 = e5.l7 /\ r.matched = e5.matched /\ r.idx = e5.idx
        <4>1. e5 \in Flow
          <5>1. e4 \in Flow /\ i \in Nat
            BY <1>1, <1>5, Prepared
          <5> HIDE DEF e4
          <5>2. \/ e5 = e4
                \/ e5 = [e4 EXCEPT !.matched = TRUE, !.idx = i]
                \/ \E b \in BOOLEAN : e5 = [e4 EXCEPT !.monitor = a, !.matched = b]
            BY DEF Picked
          <5> HIDE DEF e5
          <5> QED BY ZenonT(40), <5>1, <5>2 DEF Flow
        <4> HIDE DEF e5
        <4> QED BY <3>1, <4>1 DEF Flow
      <3>4. View(r) = View(e5)
        BY <3>3 DEF View
      <3> QED BY <2>2, <3>1, <3>2, <3>3, <3>4 DEF Mirrors
    <2> QED BY <2>3, <2>4, DecideCases
  <1>7. CASE mode = "stream"
    <2>1. ASSUME ~beside[h]
          PROVE  out'[h].idx # 0 => Rests(R, s, k, ShownBy({pkt[h].pay}), L, out'[h].idx)
      <3>1. obj[ptr[h]] = NewFlow
        BY <1>1, <1>7, <2>1 DEF Places, Relays
      <3> QED BY <1>6, <3>1, NewFlowMirrors
    <2>2. lists' = lists
      BY <1>7, DecideLearns
    <2>3. Earned'
      BY <1>1, <1>2, <1>3, <1>7, <2>1, <2>2 DEF Earned, Seen
    <2> QED BY <1>1, <1>7, <2>3 DEF Faithful, Verdicts
  <1>8. CASE mode # "stream"
    <2>1. \A g \in Handler \ {h} : pc[g] = "idle" /\ out[g] = [idx |-> 0, new |-> FALSE]
      BY <1>1, <1>8, OthersQuiet DEF Idle
    <2>2. table[k] = ptr[h] /\ ptr[h] # None
      BY <1>1, <1>8 DEF Places, Pointers, Holding
    <2>3. pkt[h].pay \in Pays(k) \cup {Blank}
      BY <1>1, <1>8 DEF Places, Packets
    <2>4. pkt[h].kind # "syn" => Mirrors(R, chain, obj[ptr[h]], k, Pays(k), L)
      <3>1. pkt[h].kind # "syn" => ~Renewing(k)
        BY <2>1 DEF Renewing
      <3> QED BY <1>4, <1>5, <1>8, <2>2, <3>1, MirrorsGrows DEF Faithful
    <2>5. /\ Mirrors(R, chain, obj'[ptr[h]], k, Pays(k), L)
          /\ out'[h].idx # 0 => Rests(R, s, k, ShownBy(Pays(k)), L, out'[h].idx)
      BY <1>6, <2>3, <2>4
    <2>6. Faithful'
      <3> SUFFICES ASSUME NEW q \in Key, table[q] # None
                   PROVE  Mirrors(R, chain, obj'[table[q]], q, Pays(q), L)
        BY <1>1, <1>3 DEF Faithful, Pays
      <3>1. CASE q = k
        BY <2>2, <2>5, <3>1
      <3>2. CASE q # k
        <4>1. table[q] # ptr[h] /\ table[q] \in Entry
          BY <1>5, <2>2, <3>2 DEF Places, Apart, IInv, TypeOK
        <4>2. ~Renewing(q)
          BY <2>1, <3>2 DEF Renewing
        <4>3. Mirrors(R, chain, obj[table[q]], q, Pays(q), Learned(lists))
          BY <1>8, <4>2 DEF Faithful
        <4> QED BY <1>2, <1>4, <4>1, <4>3, MirrorsGrows
      <3> QED BY <3>1, <3>2
    <2>7. Earned'
      <3> SUFFICES ASSUME NEW g \in Handler, out'[g].idx # 0
                   PROVE  Rests(R, chain[snap[g]], key[g], ShownBy(Pays(key[g])), L, out'[g].idx)
        BY <1>1, <1>3, <1>8 DEF Earned, Seen, Pays
      <3>1. g = h
        BY <1>2, <2>1
      <3> QED BY <2>5, <3>1
    <2>8. Verdicts'
      <3> SUFFICES ASSUME NEW g \in Handler, out'[g].new
                   PROVE  /\ Barred(R, chain[snap[g]], key[g], obj'[ptr[g]])
                          /\ Settles(chain[snap[g]]) =>
                                Stays(R, chain[snap[g]], key[g], obj'[ptr[g]], L)
        BY <1>1, <1>3 DEF Verdicts
      <3>1. g = h
        BY <1>2, <2>1
      <3> QED BY <1>8, <3>1, DecideFinal
    <2> QED BY <2>6, <2>7, <2>8
  <1> QED BY <1>7, <1>8

-----------------------------------------------------------------------------
LEMMA VerdictInvariant == Spec => []VInv
  <1>1. Init => VInv
    BY Begins, PlacesBegin, VerdictsBegin DEF VInv
  <1>2. VInv /\ [Next]_vars => VInv'
    <2> SUFFICES ASSUME VInv, [Next]_vars PROVE VInv'
      OBVIOUS
    <2> USE DEF VInv
    <2>1. CASE UNCHANGED vars
      <3>1. IInv' /\ Places'
        BY <2>1 DEF vars, netVars, IInv, TypeOK, Snaps, Holds, Gen, Places, Alone, Quiet, Apart,
                    Pointers, Relays, Packets, Idle, Holding, Pays
      <3>2. Faithful' /\ Earned' /\ Verdicts'
        BY <2>1 DEF vars, netVars, Faithful, Earned, Verdicts, Renewing, Seen, Pays, Registered
      <3> QED BY <3>1, <3>2
    <2>2. ASSUME NEW h \in Handler, Forwarded(h) PROVE VInv'
      <3>1. pkt[h].fin \in BOOLEAN /\ pc[h] = "decided" /\ mode # "stream" /\ Leave(h, pkt[h].fin)
        BY <2>2 DEF Forwarded, IInv, TypeOK, Packet
      <3> QED BY <3>1, LeaveKeeps, LeavePlaces, LeaveVerdicts DEF Idle
    <2>3. ASSUME NEW h \in Handler, Hangup(h) PROVE VInv'
      <3>1. pc[h] \in {"open", "decided"} /\ Leave(h, TRUE)
        BY <2>3 DEF Hangup
      <3> QED BY <3>1, LeaveKeeps, LeavePlaces, LeaveVerdicts DEF Idle
    <2>4. ASSUME NEW h \in Handler,
                 Capture(h) \/ Accept(h) \/ FirstPayload(h) \/ Find(h) \/ Decide(h)
          PROVE  VInv'
      <3>1. CASE Capture(h)
        BY <3>1, CaptureKeeps, CapturePlaces, CaptureVerdicts
      <3>2. CASE Accept(h)
        BY <3>2, AcceptKeeps, AcceptPlaces, AcceptVerdicts
      <3>3. CASE FirstPayload(h)
        BY <3>3, FirstPayloadKeeps, FirstPayloadPlaces, FirstPayloadVerdicts
      <3>4. CASE Find(h)
        BY <3>4, FindKeeps, FindPlaces, FindVerdicts
      <3>5. CASE Decide(h)
        BY <3>5, DecideKeeps, DecidePlaces, DecideVerdicts
      <3> QED BY <2>4, <3>1, <3>2, <3>3, <3>4, <3>5
    <2>5. CASE Evict
      BY <2>5, EvictKeeps, EvictPlaces, EvictVerdicts
    <2>6. CASE Reload
      BY <2>6, ReloadKeeps, ReloadPlaces, ReloadVerdicts
    <2> QED BY <2>1, <2>2, <2>3, <2>4, <2>5, <2>6 DEF Next
  <1> QED BY <1>1, <1>2, PTL DEF Spec

(* No packet is given a profile for what another connection on its port has    *)
(* shown, or for what another strategy decided: it is one that the strategy    *)
(* its handler read chooses for names of this connection, with no more learned *)
(* than the lists hold.                                                        *)
THEOREM NothingInherited == Spec => []RunsWhatWasShown
  <1>1. VInv => RunsWhatWasShown
    BY EarnedIsShown DEF VInv
  <1> QED BY <1>1, VerdictInvariant, PTL

LEMMA NewVerdicts ==
    ASSUME VInv, NEW h \in Handler, out[h].new, mode # "stream"
    PROVE  LET s == chain[snap[h]]
               e == obj[ptr[h]]
           IN /\ s \in Seq(Profile) /\ s \in Strategies
              /\ Barred(Registered, s, key[h], e)
              /\ Settles(s) => Stays(Registered, s, key[h], e, Learned(lists))
  <1>1. pc[h] = "decided"
    BY DEF VInv, Places, Quiet
  <1>2. snap[h] \in 1 .. Len(chain) /\ chain \in Seq(Strategies)
    BY <1>1 DEF VInv, IInv, Snaps, TypeOK, Gen
  <1> QED BY <1>2, StrategiesAssumption DEF VInv, Verdicts

(* Whatever the self-learning lists will learn, a flow whose "no profile" has  *)
(* been cached would get none: the flows that a list still waits for are left  *)
(* open. (The head of pick, for every strategy.)                               *)
THEOREM NeverSealedWhileLearning == Spec => []NotSealedWhileLearning
  <1>1. ASSUME VInv PROVE NotSealedWhileLearning
    <2> SUFFICES ASSUME NEW h \in Handler, out[h].new, mode # "stream", obj[ptr[h]].idx = 0
                 PROVE  IsFirst(chain[snap[h]], key[h], View(obj[ptr[h]]),
                                [l \in List |-> [lists[l] EXCEPT !.learned = Host]], 0)
      BY DEF NotSealedWhileLearning
    <2> DEFINE all == [l \in List |-> [lists[l] EXCEPT !.learned = Host]]
    <2>1. Learned(all) = [l \in List |-> Host]
      <3>1. \A l \in List : lists[l] \in Learning
        BY <1>1 DEF VInv, IInv, TypeOK
      <3> QED BY <3>1 DEF Learning, Learned
    <2>2. /\ chain[snap[h]] \in Seq(Profile)
          /\ First(Registered, chain[snap[h]], key[h], View(obj[ptr[h]]), [l \in List |-> Host], 0)
      BY <1>1, NewVerdicts DEF Barred
    <2> HIDE DEF all
    <2>3. IsFirst(chain[snap[h]], key[h], View(obj[ptr[h]]), all, 0)
      BY <2>1, <2>2, FirstIsFirst
    <2> QED BY <2>3 DEF all
  <1> QED BY <1>1, VerdictInvariant, PTL

(* Where exclusion lists come with inclusion lists for the same flows and each *)
(* list has one learner, a verdict is cached only when no host that the        *)
(* connection may still name changes it, profiles that wait for a protocol     *)
(* included: the comment on pick, which ExclusionsWin refutes for other        *)
(* strategies, and FinalForProtocols for the protocol.                         *)
THEOREM VerdictsStay ==
    ASSUME \A s \in Strategies : Settles(s) PROVE Spec => []VerdictSound
  <1>1. ASSUME VInv PROVE VerdictFinal
    <2> SUFFICES ASSUME NEW h \in Handler, out[h].new, mode # "stream",
                        NEW v \in Futures(obj[ptr[h]])
                 PROVE  IsFirst(chain[snap[h]], key[h], v, lists, obj[ptr[h]].idx)
      BY DEF VerdictFinal
    <2>1. /\ chain[snap[h]] \in Seq(Profile)
          /\ First(Registered, chain[snap[h]], key[h], v, Learned(lists), obj[ptr[h]].idx)
      BY <1>1, NewVerdicts DEF Stays
    <2> QED BY <2>1, FirstIsFirst
  <1> QED BY <1>1, VerdictInvariant, NeverSealedWhileLearning, PTL DEF VerdictSound

=============================================================================
