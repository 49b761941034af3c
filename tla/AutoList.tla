------------------------------ MODULE AutoList ------------------------------
(***************************************************************************)
(* A self-learning hostlist (lists.AutoList) on its label tree             *)
(* (lists.HostSet), from one session of the daemon to the next: hosts join *)
(* it after repeated failures or retransmissions, the datapath writes it   *)
(* to its file from time to time, every session opens the file anew.       *)
(* Engine models what a learned host does to a flow.                       *)
(*                                                                         *)
(* A hostname is the sequence of its labels from the right; an empty label *)
(* is what `a..b' has in the middle.                                       *)
(***************************************************************************)
EXTENDS Integers, FiniteSets, Sequences

CONSTANTS
    Host,             \* hostnames that fail
    FailThreshold, FailTime, RetransThreshold,
    MaxTracked,       \* maxAutoTracked: entries of the table of pending hosts
    MaxTime,          \* bound on the clock
    MaxReports,       \* bound on the failures and retransmissions of a behaviour
    MaxTurns          \* bound on the new engines, edits and failed writes

ASSUME AutoListAssumption ==
    /\ Host \subseteq Seq(STRING) \ {<<>>}
    /\ {FailThreshold, RetransThreshold, MaxTracked} \subseteq Nat \ {0}
    /\ {FailTime, MaxTime, MaxReports, MaxTurns} \subseteq Nat

VARIABLES
    onDisk,   \* disk: the entries of the file
    tree,     \* HostSet: the nodes of the label tree, and those that end an entry
    hosts,    \* AutoList.hosts: the counters of the hosts not learned yet
    dirty,    \* AutoList.dirty
    now,      \* the clock
    failures, \* history: the newest failures of each host, as the engine saw them
    learned,  \* history: what this engine has opened or learned
    edited,   \* history: the hosts an operator put into the file or took out
    reports, turns  \* history: how often bounded things happened

autoListVars == <<onDisk, tree, hosts, dirty, now, failures, learned, edited, reports, turns>>

Entry == [first: 0 .. MaxTime, fails: 0 .. FailThreshold, retrans: 0 .. RetransThreshold]

AutoListTypeOK ==
    /\ onDisk \subseteq Host /\ learned \subseteq Host /\ edited \subseteq Host
    /\ tree.entries \subseteq tree.nodes
    /\ DOMAIN hosts \subseteq Host /\ \A h \in DOMAIN hosts : hosts[h] \in Entry
    /\ dirty \in BOOLEAN
    /\ now \in 0 .. MaxTime /\ turns \in 0 .. MaxTurns /\ reports \in 0 .. MaxReports
    /\ failures \in [Host -> Seq(0 .. MaxTime)]

-----------------------------------------------------------------------------
(* HostSet: addLocked, matchTree, domains.                                 *)

\* Names share the path of their common suffix.
DomainsOf(h) == {SubSeq(h, 1, n) : n \in 1 .. Len(h)}
Sound(h) == "" \notin {h[i] : i \in 1 .. Len(h)}

\* Mutant of Grown: an entry that is inside another one becomes a mere node.
GrownOver(t, hs) ==
    LET entries == t.entries \cup {h \in hs : Sound(h)}
    IN [nodes |-> t.nodes \cup {p \in UNION {DomainsOf(h) : h \in hs} : Sound(p)},
        entries |-> {h \in entries : ~\E g \in entries : g # h /\ h \in DomainsOf(g)}]

\* A malformed name leaves the nodes up to its empty label and no entry.
Grown(t, hs) ==
    [nodes |-> t.nodes \cup {p \in UNION {DomainsOf(h) : h \in hs} : Sound(p)},
     entries |-> t.entries \cup {h \in hs : Sound(h)}]
Loaded(hs) == Grown([nodes |-> {}, entries |-> {}], hs)

\* The walk down the tree: the first entry on the way covers the host; a label
\* without a node ends it.
Match(t, h) ==
    \E n \in 1 .. Len(h) :
        /\ SubSeq(h, 1, n) \in t.entries
        /\ \A i \in 1 .. n - 1 : SubSeq(h, 1, i) \in t.nodes

-----------------------------------------------------------------------------
(* AutoList: Fail, Retrans, Flush.                                             *)

Fresh == [first |-> now, fails |-> 0, retrans |-> 0]

\* Mutant of Tracked: a full table is swept of what has expired, and no more.
TrackedExpired(h) ==
    LET stay == IF Cardinality(DOMAIN hosts) < MaxTracked THEN DOMAIN hosts
                ELSE {g \in DOMAIN hosts : now - hosts[g].first <= FailTime}
    IN IF h \in DOMAIN hosts THEN hosts
       ELSE [g \in stay \cup {h} |-> IF g = h THEN Fresh ELSE hosts[g]]

\* entryLocked and gcLocked: a full table loses the entries whose window has
\* passed, and all of them when that frees nothing.
Tracked(h) ==
    LET live == {g \in DOMAIN hosts : now - hosts[g].first <= FailTime}
        stay == IF Cardinality(DOMAIN hosts) < MaxTracked THEN DOMAIN hosts
                ELSE IF Cardinality(live) < MaxTracked THEN live ELSE {}
    IN IF h \in DOMAIN hosts THEN hosts
       ELSE [g \in stay \cup {h} |-> IF g = h THEN Fresh ELSE hosts[g]]

\* Mutant of Windowed: a new window keeps the failures of the old one.
WindowedKept(e) == IF now - e.first > FailTime THEN [e EXCEPT !.first = now] ELSE e

\* The window restarts when it has expired.
Windowed(e) == IF now - e.first > FailTime THEN [e EXCEPT !.first = now, !.fails = 0] ELSE e

\* addLocked.
Promote(h, table) ==
    /\ tree' = Grown(tree, {h})
    /\ hosts' = [g \in DOMAIN table \ {h} |-> table[g]]
    /\ dirty' = TRUE
    /\ learned' = learned \cup {g \in {h} : Sound(g)}

Count(table) == hosts' = table /\ UNCHANGED <<tree, dirty, learned>>

Recent(times) == SubSeq(times, IF Len(times) > FailThreshold THEN 2 ELSE 1, Len(times))

Report ==
    /\ reports < MaxReports /\ reports' = reports + 1
    /\ UNCHANGED <<onDisk, now, edited, turns>>

Fail(h) ==
    LET table == Tracked(h)
        e == Windowed(table[h])
        counted == [table EXCEPT ![h] = [e EXCEPT !.fails = @ + 1]]
    IN /\ Report
       /\ failures' = [failures EXCEPT ![h] = Recent(Append(@, now))]
       /\ IF Match(tree, h) THEN UNCHANGED <<tree, hosts, dirty, learned>>
          ELSE IF e.fails + 1 >= FailThreshold THEN Promote(h, counted)
          ELSE Count(counted)

Retrans(h) ==
    LET counted == [Tracked(h) EXCEPT ![h].retrans = @ + 1]
    IN /\ Report
       /\ UNCHANGED failures
       /\ IF Match(tree, h) THEN UNCHANGED <<tree, hosts, dirty, learned>>
          ELSE IF counted[h].retrans >= RetransThreshold THEN Promote(h, counted)
          ELSE Count(counted)

\* Mutant of Written: the list counts as written although it was not.
WrittenAnyway(done) == dirty' = FALSE /\ onDisk' = IF done THEN tree.entries ELSE onDisk

\* Mutant of Written: only what is new is written, and it replaces the file.
WrittenNew(done) ==
    IF done THEN onDisk' = tree.entries \ onDisk /\ dirty' = FALSE ELSE UNCHANGED <<onDisk, dirty>>

\* Flush: the whole list replaces the file, or nothing happens and the next
\* call tries again.
Written(done) == IF done THEN onDisk' = tree.entries /\ dirty' = FALSE ELSE UNCHANGED <<onDisk, dirty>>

\* The sweep of the datapath; a write may fail.
FlushList ==
    /\ dirty
    /\ \/ Written(TRUE) /\ UNCHANGED turns
       \/ turns < MaxTurns /\ Written(FALSE) /\ turns' = turns + 1
    /\ UNCHANGED <<tree, hosts, now, failures, learned, edited, reports>>

\* NewAutoList: the file is opened anew; an empty or missing one matches nothing.
Open == tree' = Loaded(onDisk') /\ hosts' = <<>> /\ dirty' = FALSE

\* cleanup writes the list a last time and the next process opens it; build
\* puts a new engine in the place of one whose list nobody writes any more, and
\* a crash does the same.
NewEngine ==
    /\ turns < MaxTurns /\ turns' = turns + 1
    /\ IF dirty THEN onDisk' \in {onDisk, tree.entries} ELSE UNCHANGED onDisk
    /\ Open
    /\ learned' = onDisk'
    /\ failures' = [h \in Host |-> <<>>]
    /\ UNCHANGED <<now, edited, reports>>

\* The operator takes a host out of the file, as its header says, or adds one.
EditFile ==
    /\ turns < MaxTurns /\ turns' = turns + 1
    /\ \E h \in {g \in Host : Sound(g)} :
           /\ onDisk' = (IF h \in onDisk THEN onDisk \ {h} ELSE onDisk \cup {h})
           /\ edited' = edited \cup {h}
    /\ UNCHANGED <<tree, hosts, dirty, now, failures, learned, reports>>

Tick == /\ now < MaxTime /\ now' = now + 1
        /\ UNCHANGED <<onDisk, tree, hosts, dirty, failures, learned, edited, reports, turns>>

AutoListInit ==
    /\ onDisk = {} /\ tree = Loaded({}) /\ hosts = <<>> /\ dirty = FALSE /\ now = 0
    /\ failures = [h \in Host |-> <<>>]
    /\ learned = {} /\ edited = {} /\ reports = 0 /\ turns = 0

AutoListNext ==
    \/ \E h \in Host : Fail(h) \/ Retrans(h)
    \/ FlushList \/ NewEngine \/ EditFile \/ Tick

AutoListSpec == AutoListInit /\ [][AutoListNext]_autoListVars /\ WF_autoListVars(FlushList)

-----------------------------------------------------------------------------
\* A host is covered exactly when it, or a domain above it, was learned or read
\* from the file: an empty list covers nothing and no list covers the siblings
\* of its hosts.
CoversSuffixes ==
    \A h \in Host : Match(tree, h) <=> \E n \in 1 .. Len(h) : SubSeq(h, 1, n) \in learned

\* A flood of names does not grow the table of pending hosts past its bound.
TrackedBounded == Cardinality(DOMAIN hosts) <= MaxTracked

\* Failures spread wider than the window never put a host on the list.
TricklesForgotten ==
    [][\A h \in Host : (Fail(h) /\ tree' # tree) =>
           LET f == failures'[h] IN Len(f) >= FailThreshold /\ now - f[Len(f) - FailThreshold + 1] <= FailTime]_autoListVars

\* What the file holds stays there, whatever engine writes it next, but for the
\* lines an operator edits beside a running daemon.
WrittenStays == [][\A h \in onDisk : h \in onDisk' \cup edited']_autoListVars

\* A learned host reaches the file, unless its engine is replaced before: a
\* write that failed is tried again.
LearnedIsWritten ==
    \A h \in Host : (h \in learned) ~> (h \in onDisk \cup edited \/ h \notin learned)
=============================================================================
