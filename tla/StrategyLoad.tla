----------------------------- MODULE StrategyLoad ------------------------------
(* Compiling a strategy file (internal/strategy/load.go and parse.go) with the   *)
(* hostlists and address lists it names (internal/lists), which a user may edit  *)
(* meanwhile. What is accepted runs as Desync says.                              *)
(*                                                                               *)
(* A list is its parsable entries and whether it has other lines that are not    *)
(* comments; hosts and addresses are entries alike. A name in the file that      *)
(* means nothing (a protocol, a counter, a marker, a blob) is `wrong'.           *)
EXTENDS Desync

CONSTANTS
    Entry,          \* hosts, or address ranges
    List,           \* the names of the list files
    User,           \* those that end in -user.txt
    Contents,       \* what a list file may hold: [there, readable, entries, junk]
    Texts,          \* strategy files: [window, profiles]
    LoadCaps,       \* LoadOpts.Caps; {} if they are not known
    Trials,         \* packets the accepted operations are tried on
    MaxSaves        \* bound: edits during a compile

MaxPort == 65535
Int16 == -32768 .. 32767
MaxSeqovl == 9316
Fields == <<"hostlist", "hostlist_exclude", "ipset", "ipset_exclude">>

Absent == [there |-> FALSE, readable |-> TRUE, entries |-> {}, junk |-> FALSE]

\* What a file may say: any numbers, but names that mean something (or `wrong').
PortRange == [lo: Int, hi: Int]
WrittenOp == [wrong: BOOLEAN, op: Names, pos: Seq([m: Markers, off: Int]), ovl: Int, order: Int,
              mid: Seq([m: Markers, off: Int]), grow: Int, ttl: Int, fool: SUBSET Foolings, reps: Int, ipid: IpIds,
              frag: Int, win: Int, active: BOOLEAN, inc: Int, auto: Seq([delta: Int, min: Int, max: Int])]
Section == [wrong: BOOLEAN, ports: Seq(PortRange), proto: {"tcp", "udp"}, unsupported: {"degrade", "skip", "error"},
            lists: [DOMAIN Fields -> Seq(List)], inline: [DOMAIN Fields -> SUBSET Entry], ops: Seq(WrittenOp)]

ASSUME StrategyLoadAssumption ==
    /\ Absent \in Contents /\ Contents \subseteq [there: BOOLEAN, readable: BOOLEAN, entries: SUBSET Entry, junk: BOOLEAN]
    /\ User \subseteq List /\ MaxSaves \in Nat
    /\ Texts \subseteq [window: Seq(PortRange), profiles: Seq(Section)]
    /\ Trials \subseteq Context

VARIABLES
    text, files,
    cstage, section, field, item,  \* where the compiler is: the profile, the field, the name
    names,                  \* dropEmptyLists: the names left
    acc,                    \* the set that is being filled
    cache,                  \* lists.Set: the sets loaded so far, by their names
    compiled,               \* the profiles so far: [filter, ops]
    edited, stays           \* history: an edit; the entries a list had all the time

compiler == <<cstage, section, field, item, names, acc, cache, compiled>>
load == <<text, files, compiler, edited, stays>>

Unrestricted == [nil |-> TRUE, any |-> FALSE, entries |-> {}]
Blank == [nil |-> FALSE, any |-> FALSE, entries |-> {}]
Filters == [nil : BOOLEAN, any : BOOLEAN, entries : SUBSET Entry]
NoFilter == [i \in DOMAIN Fields |-> Unrestricted]

Described == text.profiles[section]
FieldNames == Described.lists[field]
Inline == Described.inline[field]

StrategyLoadTypeOK ==
    /\ text \in Texts /\ files \in [List -> Contents] /\ edited \in 0 .. MaxSaves
    /\ cstage \in {"window", "profile", "field", "stat", "look", "load", "ops", "done", "refused"}
    /\ section \in 1 .. Len(text.profiles) + 1 /\ field \in 1 .. Len(Fields) + 1 /\ item \in Nat
    /\ names \in Seq(List) /\ acc \in Filters /\ stays \in [List -> SUBSET Entry]
    /\ \A ns \in DOMAIN cache : ns \in Seq(List) /\ cache[ns] \in Filters
    /\ \A i \in DOMAIN compiled : compiled[i].filter \in [DOMAIN Fields -> Filters]

\* Bound: the files that the text does not name are not there.
FilesNamed == UNION {Range(text.profiles[p].lists[f]) : p \in DOMAIN text.profiles, f \in DOMAIN Fields}

StrategyLoadInit ==
    /\ text \in Texts /\ files \in [List -> Contents] /\ edited = 0
    /\ \A l \in List \ FilesNamed : files[l] = Absent
    /\ stays = [l \in List |-> IF files[l].there THEN files[l].entries ELSE {}]
    /\ cstage = "window" /\ section = 1 /\ field = 1 /\ item = 1 /\ names = <<>> /\ acc = Blank
    /\ cache = [ns \in {} |-> Blank] /\ compiled = <<>>

-----------------------------------------------------------------------------
\* ParsePortSet. A token is a range; a single port, a word and `*' are ranges.
PortAccepted(r) == 1 <= r.lo /\ r.lo <= r.hi /\ r.hi <= MaxPort

\* Mutant of Adjoins: without the conversion to int the sum wraps.
AdjoinsWrapped(r, last) == r.lo <= (last.hi + 1) % 65536
Adjoins(r, last) == r.lo <= last.hi + 1

Merge(out, r) ==
    IF out = <<>> \/ ~Adjoins(r, out[Len(out)]) THEN Append(out, r)
    ELSE [out EXCEPT ![Len(out)] = [lo |-> @.lo, hi |-> IF r.hi > @.hi THEN r.hi ELSE @.hi]]
Precedes(a, b) == a.lo < b.lo \/ (a.lo = b.lo /\ a.hi < b.hi)
\* The ranges in their order, merged from the first to the last.
MergePorts(ranges) ==
    LET rank == [i \in DOMAIN ranges |-> Cardinality({j \in DOMAIN ranges : Precedes(ranges[j], ranges[i])})]
        at == Sorted(DOMAIN ranges, rank)
        merged[n \in 0 .. Len(ranges)] == IF n = 0 THEN <<>> ELSE Merge(merged[n - 1], ranges[at[n]])
    IN  merged[Len(ranges)]

\* ParseTTLSpec, parseAutoTTL: o.auto is empty or <<[delta, min, max]>>.
TTLAccepted(o) ==
    /\ o.ttl \in 0 .. 255
    /\ \A i \in DOMAIN o.auto :
           LET a == o.auto[i] IN
           /\ a.delta \in -127 .. 127 /\ {a.min, a.max} \subseteq 0 .. 255 /\ a.min <= a.max
           /\ a.delta # 0 => a.min # 0

\* ParseSplitPos.
PosAccepted(o) ==
    /\ Len(o.pos) <= 64
    /\ \A i \in DOMAIN o.pos : o.pos[i].off \in Int16 /\ (o.pos[i].m = "abs" => o.pos[i].off # 0)

LimitedBySplit == {"fakedsplit", "fakeddisorder", "multidisorder"}

\* Mutant of SeqovlAccepted: an overlap of the whole first part passes.
SeqovlPasses(o) ==
    /\ o.ovl \in 0 .. MaxSeqovl
    /\ ~ /\ o.pos # <<>> /\ o.op \in LimitedBySplit
         /\ o.pos[1].m = "abs" /\ o.pos[1].off > 0 /\ o.ovl > o.pos[1].off

\* seqovl: the overlap has to end before the first position of the file.
SeqovlAccepted(o) ==
    /\ o.ovl \in 0 .. MaxSeqovl
    /\ ~ /\ o.ovl > 0 /\ o.pos # <<>> /\ o.op \in LimitedBySplit
         /\ o.pos[1].m = "abs" /\ o.pos[1].off > 0 /\ o.ovl >= o.pos[1].off

\* opMod, modKeyOps, checkAltOrder: a knob belongs to an operation that reads it.
ModAccepted(o) ==
    /\ o.order # 0 =>
           \/ o.op = "hostfakesplit" /\ o.order = 1
           \/ o.op \in {"fakedsplit", "fakeddisorder"} /\ o.order >= 0 /\ o.order % 8 <= 3 /\ o.order \div 8 <= 2
    /\ o.mid # <<>> => o.op = "hostfakesplit"
    /\ o.grow # 0 => o.op = "tamper" /\ o.grow <= 32767

FragPosAccepted(o) == o.frag = 0 \/ (o.frag \in 8 .. 9216 /\ o.frag % 8 = 0)

\* checkOpNeeds: an operation that would do nothing.
NeedsMet(o) ==
    /\ o.op = "ip_id" => o.ipid # "default"
    /\ o.op = "wssize" => o.win # 0
    /\ o.op = "tamper" => o.active

\* checkOpCaps.
CapsAccepted(o, p) ==
    /\ ~("udp" \in Requires(o) /\ p.proto = "tcp")
    /\ LoadCaps # {} /\ p.unsupported = "error" => Requires(o) \subseteq LoadCaps

\* compileOp.
OpAccepted(o, p) ==
    /\ ~o.wrong /\ o.reps \in 0 .. 1024 /\ o.inc \in Int16
    /\ TTLAccepted(o) /\ PosAccepted(o) /\ SeqovlAccepted(o) /\ ModAccepted(o) /\ FragPosAccepted(o)
    /\ NeedsMet(o) /\ CapsAccepted(o, p)

-----------------------------------------------------------------------------
Go(s) == cstage' = s
Refuse == cstage' = "refused" /\ UNCHANGED <<section, field, item, names, acc, cache, compiled>>

\* compileFile and the window.
PortWindow ==
    /\ cstage = "window"
    /\ IF text.profiles # <<>> /\ \A i \in DOMAIN text.window : PortAccepted(text.window[i])
       THEN Go("profile") ELSE Go("refused")
    /\ UNCHANGED <<section, field, item, names, acc, cache, compiled, text, files, edited, stays>>

\* What profile and filter read before the lists.
ProfileSettings ==
    /\ cstage = "profile"
    /\ IF section > Len(text.profiles) THEN Go("done") /\ UNCHANGED <<field, compiled>>
       ELSE IF Described.wrong \/ ~(\A i \in DOMAIN Described.ports : PortAccepted(Described.ports[i]))
       THEN Go("refused") /\ UNCHANGED <<field, compiled>>
       ELSE Go("field") /\ field' = 1 /\ compiled' = Append(compiled, [filter |-> NoFilter, ops |-> <<>>])
    /\ UNCHANGED <<section, item, names, acc, cache, text, files, edited, stays>>

\* hosts and cidrs: a field that names nothing is unrestricted.
Field ==
    /\ cstage = "field"
    /\ IF field > Len(Fields) THEN Go("ops") /\ UNCHANGED field
       ELSE IF FieldNames # <<>> THEN Go("stat") /\ UNCHANGED field
       ELSE IF Inline # {} THEN Go("load") /\ UNCHANGED field
       ELSE Go("field") /\ field' = field + 1
    /\ item' = 1 /\ names' = <<>> /\ acc' = Blank
    /\ UNCHANGED <<section, cache, compiled, text, files, edited, stays>>

\* checkListFiles: only a -user.txt file may be missing.
Stat ==
    /\ cstage = "stat"
    /\ IF ~files[FieldNames[item]].there /\ FieldNames[item] \notin User THEN Refuse
       ELSE /\ IF item = Len(FieldNames) THEN Go("look") /\ item' = 1 ELSE Go("stat") /\ item' = item + 1
            /\ UNCHANGED <<section, field, names, acc, cache, compiled>>
    /\ UNCHANGED <<text, files, edited, stays>>

\* Mutant of HasEntries: a file that is there counts.
HasFile(c) == c.there
\* listFileHasEntries: a line that is not blank and not a comment.
HasEntries(c) == c.entries # {} \/ c.junk

\* dropEmptyLists.
LookInto ==
    LET name == FieldNames[item]
        c == files[name]
        left == IF c.there /\ HasEntries(c) THEN Append(names, name) ELSE names
    IN  /\ cstage = "look"
        /\ IF IF c.there THEN ~c.readable ELSE name \notin User THEN Refuse
           ELSE /\ names' = left
                /\ IF item < Len(FieldNames) THEN Go("look") /\ item' = item + 1 /\ UNCHANGED field
                   ELSE IF left = <<>> /\ Inline = {} THEN Go("field") /\ item' = 1 /\ field' = field + 1
                   ELSE Go("load") /\ item' = 1 /\ UNCHANGED field
                /\ UNCHANGED <<section, acc, cache, compiled>>
        /\ UNCHANGED <<text, files, edited, stays>>

\* Mutant of CacheKey: one list stands for all.
CacheFirst(ns) == <<Head(ns)>>
CacheKey(ns) == ns
Cached == Inline = {} /\ CacheKey(names) \in DOMAIN cache

\* Mutant of LoadFile: the latest file replaces those before it.
LoadFileOver(set, c) == [set EXCEPT !.entries = c.entries, !.any = @ \/ c.entries = {}]
\* HostSet.LoadFile and CIDRSet.LoadFile: a file without one that parses is Any.
LoadFile(set, c) == [set EXCEPT !.entries = @ \cup c.entries, !.any = @ \/ c.entries = {}]

\* Mutant of LoadList: a file that is gone is waited for, as an editor replaces it.
LoadListWaiting ==
    LET name == names[item]
        c == files[name]
    IN  /\ cstage = "load" /\ ~Cached /\ item <= Len(names) /\ c.there
        /\ IF ~c.readable THEN Refuse
           ELSE /\ item' = item + 1 /\ acc' = LoadFile(acc, c)
                /\ UNCHANGED <<cstage, section, field, names, cache, compiled>>
        /\ UNCHANGED <<text, files, edited, stays>>

\* The next of the files left, unless their names have a set already.
LoadList ==
    LET name == names[item]
        c == files[name]
    IN  /\ cstage = "load" /\ ~Cached /\ item <= Len(names)
        /\ IF IF c.there THEN ~c.readable ELSE name \notin User THEN Refuse
           ELSE /\ item' = item + 1 /\ acc' = (IF c.there THEN LoadFile(acc, c) ELSE acc)
                /\ UNCHANGED <<cstage, section, field, names, cache, compiled>>
        /\ UNCHANGED <<text, files, edited, stays>>

\* The set of the names is shared; one with domains of its own is not.
FieldLoaded ==
    LET set == IF Cached THEN cache[CacheKey(names)] ELSE [acc EXCEPT !.entries = @ \cup Inline]
    IN  /\ cstage = "load" /\ (Cached \/ item > Len(names)) /\ Go("field")
        /\ compiled' = [compiled EXCEPT ![section] = [filter |-> [@.filter EXCEPT ![field] = set], ops |-> @.ops]]
        /\ cache' = IF Inline # {} \/ Cached THEN cache
                    ELSE [ns \in DOMAIN cache \cup {CacheKey(names)} |-> IF ns = CacheKey(names) THEN set ELSE cache[ns]]
        /\ field' = field + 1 /\ item' = 1 /\ names' = <<>> /\ acc' = Blank
        /\ UNCHANGED <<section, text, files, edited, stays>>

\* The operations of a profile, in the order of their phases.
Ops ==
    /\ cstage = "ops"
    /\ IF Described.ops # <<>> /\ \A i \in DOMAIN Described.ops : OpAccepted(Described.ops[i], Described)
       THEN /\ Go("profile") /\ section' = section + 1
            /\ compiled' = [compiled EXCEPT ![section] = [filter |-> @.filter, ops |-> Compiled(Described.ops)]]
            /\ UNCHANGED <<field, item, names, acc, cache>>
       ELSE Refuse
    /\ UNCHANGED <<text, files, edited, stays>>

\* The user saves another version of a list.
EditList ==
    /\ edited < MaxSaves /\ cstage \notin {"window", "done", "refused"} /\ edited' = edited + 1
    /\ \E l \in FilesNamed, c \in Contents :
           /\ files' = [files EXCEPT ![l] = c]
           /\ stays' = [stays EXCEPT ![l] = IF c.there THEN @ \cap c.entries ELSE {}]
    /\ UNCHANGED <<text, compiler>>

Compiling == PortWindow \/ ProfileSettings \/ Field \/ Stat \/ LookInto \/ LoadList \/ FieldLoaded \/ Ops

StrategyLoadNext == Compiling \/ EditList

\* The compiler takes its steps.
StrategyLoadFairness == WF_load(Compiling)

StrategyLoadSpec == StrategyLoadInit /\ [][StrategyLoadNext]_load /\ StrategyLoadFairness

-----------------------------------------------------------------------------
\* HostSet.Match, and profileMatches of the engine for either role.
Match(set, h) == set.any \/ h \in set.entries
Included(set, h) == set.nil \/ Match(set, h)
Excluded(set, h) == ~set.nil /\ Match(set, h)

\* What the files of a field list, one by one.
Listed(p, f) ==
    text.profiles[p].inline[f] \cup UNION {files[l].entries : l \in {m \in Range(text.profiles[p].lists[f]) : files[m].there}}
Unparsed == \E l \in List : files[l].there /\ files[l].junk /\ files[l].entries = {}

\* nfqws: an include list without an entry restricts nothing, and neither does
\* an exclude list.
ExcludesListed(p, f) == \A h \in Entry : Excluded(compiled[p].filter[f], h) <=> h \in Listed(p, f)
IncludesListed(p, f) == \A h \in Entry : Included(compiled[p].filter[f], h) <=> (Listed(p, f) = {} \/ h \in Listed(p, f))

(* With files that have nothing but entries and comments, and nobody editing,    *)
(* a compiled filter means what nfqws makes of the files, each for itself: the   *)
(* match-everything flag of a set, the cache of sets, missing and empty files    *)
(* together.                                                                     *)
ListsMeanWhatTheySay ==
    cstage = "done" /\ edited = 0 /\ ~Unparsed =>
        \A p \in DOMAIN compiled : /\ IncludesListed(p, 1) /\ IncludesListed(p, 3)
                                /\ ExcludesListed(p, 2) /\ ExcludesListed(p, 4)

(* Whatever the user does to the files between the looks of a compile, an entry  *)
(* that an exclude list had all the time is excluded.                            *)
SteadyEntriesExclude ==
    cstage = "done" => \A p \in DOMAIN compiled : \A f \in {2, 4} :
        \A l \in Range(text.profiles[p].lists[f]) : \A h \in stays[l] : Excluded(compiled[p].filter[f], h)

(* The comment on dropEmptyLists: "An empty exclude list excludes nothing at     *)
(* all", with nobody editing.                                                    *)
EmptyExcludesNothing ==
    cstage = "done" /\ edited = 0 => \A p \in DOMAIN compiled : ExcludesListed(p, 2) /\ ExcludesListed(p, 4)

(* A port is in the compiled set if a range of the file has it, and the ranges   *)
(* are in order with a gap between two: PortSet.Has and the pf rules agree.      *)
PortsMeanTheirRanges ==
    LET out == MergePorts(text.window)
        edges == UNION {{r.lo - 1, r.lo, r.hi, r.hi + 1} : r \in Range(text.window)}
    IN  cstage = "profile" =>
            /\ \A q \in edges : (\E r \in Range(out) : r.lo <= q /\ q <= r.hi)
                                    <=> (\E r \in Range(text.window) : r.lo <= q /\ q <= r.hi)
            /\ \A i \in 1 .. Len(out) - 1 : out[i].hi + 1 < out[i + 1].lo

\* The operations that read an overlap.
SplitOps == {"multisplit", "multidisorder", "fakedsplit", "fakeddisorder"}
\* The positions are numbers, in the order of the file.
PositionsOrdered(o) ==
    /\ \A i \in DOMAIN o.pos : o.pos[i].m = "abs" /\ o.pos[i].off > 0
    /\ \A i \in 1 .. Len(o.pos) - 1 : o.pos[i].off < o.pos[i + 1].off
\* A packet that reaches beyond the positions, and fits the buffers with the overlap.
Long(o, c) == ~c.udp /\ c.len \in 1 .. MaxFake /\ c.len + o.ovl <= MaxSeg /\ \A i \in DOMAIN o.pos : o.pos[i].off < c.len
Overlaps(plan) == \E i \in DOMAIN plan.segs : \E j \in DOMAIN plan.segs[i].data : plan.segs[i].data[j] = Fill

(* An overlap that the loader lets pass is not cancelled on the wire, where the  *)
(* packet is long enough, with the overlap no longer than a segment may be, and  *)
(* the transport in control of the sequence numbers.                             *)
AcceptedOverlapRuns ==
    cstage = "done" => \A p \in DOMAIN compiled : \A i \in DOMAIN compiled[p].ops : \A c \in Trials :
        LET o == compiled[p].ops[i] IN
        o.op \in SplitOps /\ o.ovl > 0 /\ o.pos # <<>> /\ PositionsOrdered(o) /\ Long(o, c) /\ Requires(o) \cup {"seq"} \subseteq c.caps
            => Overlaps(Apply(o, c, EmptyPlan))

-----------------------------------------------------------------------------
AllCaps == {"segment", "drop", "seq", "inject", "ttl", "fooling", "ipid", "udp", "ipv6ext", "frag", "tlsrec"}

\* Strategy.Unsupported.
Unsupported(caps) == {o.op : o \in {q \in UNION {Range(compiled[p].ops) : p \in DOMAIN compiled} : ~(Requires(q) \subseteq caps)}}

\* Mutant of ParamDegradations: what an operation requires is all it needs.
NoParamDegradations(caps) == {}
\* Strategy.ParamDegradations.
ParamDegradations(caps) ==
    {o.op : o \in {q \in UNION {Range(compiled[p].ops) : p \in DOMAIN compiled} :
                       q.op \notin Unsupported(caps) /\ q.ovl > 0 /\ "seq" \notin caps}}

(* An operation that neither of the reports names plans for a transport what it  *)
(* would plan for one that can do everything. Only rewriting, which has to keep  *)
(* the length unless the transport relays bytes, differs the other way.          *)
UnnamedOpsRunWhole ==
    cstage = "done" => \A p \in DOMAIN compiled : \A i \in DOMAIN compiled[p].ops : \A c \in Trials :
        LET o == compiled[p].ops[i] IN
        o.op \notin Unsupported(c.caps) \cup ParamDegradations(c.caps) \cup {"tamper", "tlsrec"}
            => Apply(o, c, EmptyPlan) = Apply(o, [c EXCEPT !.caps = AllCaps], EmptyPlan)

(* What is compiled means what the files say (an entry that was there all the    *)
(* time is excluded, whoever edits; merging ranges changes no port), and an      *)
(* operation runs as the loader's checks and reports promise.                    *)
CompiledAsWritten ==
    /\ StrategyLoadTypeOK
    /\ ListsMeanWhatTheySay /\ SteadyEntriesExclude /\ PortsMeanTheirRanges
    /\ AcceptedOverlapRuns /\ UnnamedOpsRunWhole

(* A compile ends.                                                               *)
CompileEnds == <>(cstage \in {"done", "refused"})
===============================================================================
