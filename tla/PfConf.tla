------------------------------- MODULE PfConf -------------------------------
(***************************************************************************)
(* The editing of a system file line by line: planPfConf and               *)
(* planPfConfRemoval for /etc/pf.conf, Hosts.planLocked for /etc/hosts.    *)
(* SystemFiles models when a file is patched and what a crash leaves; here *)
(* is what a patch does to the lines, and what third parties do to a       *)
(* patched file: insert a line anywhere, delete any line, ours included,   *)
(* or cut the final newline.                                               *)
(*                                                                         *)
(* A line is its kind and who wrote it: the program sees only the kind.    *)
(***************************************************************************)
EXTENDS Integers, FiniteSetsExt, SequencesExt

CONSTANTS
    MaxBlockLines,  \* maxMarkerBlockLines: how far the closing marker of pf.conf is sought
    MaxLines,       \* bound on the lines of the file a behaviour starts with
    MaxForeign      \* bound on the foreign edits of a behaviour

\* The longest block of ours in pf.conf has its closing marker three lines on.
ASSUME PfConfAssumption ==
    MaxBlockLines \in Nat /\ MaxBlockLines >= 3 /\ MaxLines \in Nat /\ MaxForeign \in Nat

VARIABLES
    which,   \* which file: "pf.conf" or "hosts"
    file,    \* disk: its lines, and whether the last one ends with a newline
    last,    \* history: what the program did since the last foreign edit
    wanted,  \* history: the hosts entries the last Apply asked for
    before,  \* history: the file as the last foreign edit left it
    foreign  \* history: number of foreign edits

pfConfVars == <<which, file, last, wanted, before, foreign>>

Marker == {"begin", "end"}
Statement == {"rdr", "anchor"}
\* Comments and blank lines, macros, options and scrub rules, nat and rdr
\* rules, filter rules; and the entries of a hosts file.
ForeignKinds(p) == IF p = "pf.conf" THEN {"note", "macro", "scrub", "nat", "pass"}
                               ELSE {"note", "host"}
Line == [kind: Marker \cup Statement \cup ForeignKinds("pf.conf") \cup ForeignKinds("hosts") \cup {"e1", "e2"},
         ours: BOOLEAN]
Mine(k) == [kind |-> k, ours |-> TRUE]
Theirs(k) == [kind |-> k, ours |-> FALSE]
Blank == Mine("note")

Text == [lines: Seq(Line), newline: BOOLEAN]

PfConfTypeOK ==
    /\ which \in {"pf.conf", "hosts"}
    /\ file \in Text /\ before \in Text
    /\ last \in {"none", "patched", "removed", "refused"}
    /\ wanted \in {<<>>, <<"e1">>, <<"e1", "e2">>}
    /\ foreign \in 0 .. MaxForeign

\* joinLines: an empty list of lines with a newline is one blank line.
Join(lines, newline) ==
    IF lines = <<>> THEN [lines |-> IF newline THEN <<Blank>> ELSE <<>>, newline |-> newline]
                    ELSE [lines |-> lines, newline |-> newline]

-----------------------------------------------------------------------------
(* stripOurStatements and stripMarkerBlocks.                               *)

\* How far the closing marker of an opening one is sought. A hosts block may
\* be of any length.
Reach(p, s) == IF p = "pf.conf" THEN MaxBlockLines ELSE Len(s)

\* Mutant of Closing: an opening marker without a closing one takes the rest.
ClosingAll(p, s, i) ==
    LET ends == {j \in i + 1 .. Len(s) : j <= i + Reach(p, s) /\ s[j].kind = "end"}
    IN IF ends = {} THEN Len(s) ELSE Min(ends)

\* Where the block opened at line i ends; an opening marker without a closing
\* one within reach is a block of one line.
Closing(p, s, i) ==
    LET ends == {j \in i + 1 .. Len(s) : j <= i + Reach(p, s) /\ s[j].kind = "end"}
    IN IF ends = {} THEN i ELSE Min(ends)

\* The places of the lines between a marker that opens a block and the one that
\* ends it. upto: where the last block that was opened ends.
Enclosed(p, s) ==
    LET upto[n \in 0 .. Len(s)] ==
            IF n = 0 THEN 0
            ELSE LET end == upto[n - 1] IN IF end < n /\ s[n].kind = "begin" THEN Closing(p, s, n) ELSE end
    IN {n \in 1 .. Len(s) : n <= upto[n]}

\* The lines at some places, in their order.
LinesAt(s, places) ==
    LET kept[n \in 0 .. Len(s)] ==
            IF n = 0 THEN <<>> ELSE IF n \in places THEN Append(kept[n - 1], s[n]) ELSE kept[n - 1]
    IN kept[Len(s)]

\* Mutant of Strip: bare statements and closing markers are kept.
StripBlocks(p, s) == LinesAt(s, (1 .. Len(s)) \ Enclosed(p, s))

\* The lines that are not ours: whole blocks go, and orphaned markers and bare
\* statements naming our anchor.
Strip(p, s) ==
    LinesAt(s, {n \in (1 .. Len(s)) \ Enclosed(p, s) : s[n].kind \notin {"end"} \cup Statement})

-----------------------------------------------------------------------------
(* planPfConf.                                                             *)

\* The first line of a section; 0 when the file has no such line.
FirstOf(s, kinds) ==
    LET at == {i \in 1 .. Len(s) : s[i].kind \in kinds} IN IF at = {} THEN 0 ELSE Min(at)

\* Mutant of InsertPoints: each statement goes to its own section, however
\* the sections follow each other.
InsertPointsApart(s) ==
    LET t == FirstOf(s, {"nat", "rdr"})
        f == FirstOf(s, {"pass", "anchor"})
    IN [trans |-> IF t = 0 THEN f ELSE t, filter |-> IF f = 0 THEN Len(s) ELSE f]

\* Mutant of InsertPoints: no translation section is looked for where there is
\* a filter section.
InsertPointsFilter(s) ==
    LET f == FirstOf(s, {"pass", "anchor"})
        at == IF f = 0 THEN FirstOf(s, {"nat", "rdr"}) ELSE f
    IN [trans |-> at, filter |-> at]

\* sectionInsertPoints: before which lines the two statements go.
InsertPoints(s) ==
    LET t == FirstOf(s, {"nat", "rdr"})
        f == FirstOf(s, {"pass", "anchor"})
    IN CASE f = 0 -> [trans |-> t, filter |-> t]
         [] f # 0 /\ (t = 0 \/ t > f) -> [trans |-> f, filter |-> f]
         [] OTHER -> [trans |-> t, filter |-> f]

Block(kinds) == <<Mine("begin")>> \o [i \in 1 .. Len(kinds) |-> Mine(kinds[i])] \o <<Mine("end")>>

\* planPfConf: our old statements are taken out and the two put back; with no
\* section to go by they are appended.
Plan(s) ==
    LET base == Strip("pf.conf", s)
        at == InsertPoints(base)
        Lines(i, j) == SubSeq(base, i, j)
    IN Join(CASE at.trans = 0 -> base \o Block(<<"rdr", "anchor">>)
              [] at.trans # 0 /\ at.trans = at.filter ->
                     Lines(1, at.trans - 1) \o Block(<<"rdr", "anchor">>) \o Lines(at.trans, Len(base))
              [] OTHER ->
                     Lines(1, at.trans - 1) \o Block(<<"rdr">>) \o Lines(at.trans, at.filter - 1)
                         \o Block(<<"anchor">>) \o Lines(at.filter, Len(base)),
            TRUE)

\* Mutant of Removal: a blank line takes the place of the statements.
RemovalBlank(s) ==
    LET base == Strip("pf.conf", s) IN Join(base \o (IF base = s THEN <<>> ELSE <<Blank>>), base # <<>>)

\* planPfConfRemoval.
Removal(s) == LET base == Strip("pf.conf", s) IN Join(base, base # <<>>)

\* pfctl -n: options, normalization, translation, filtering, in that order,
\* and a last line that ends.
Rank(k) == CASE k \in {"nat", "rdr"} -> 2 [] k \in {"pass", "anchor"} -> 3 [] OTHER -> 1
Ranked(l) == l.kind \notin {"note", "macro"} \cup Marker
Parses(f) ==
    /\ f.newline \/ f.lines = <<>>
    /\ \A i, j \in 1 .. Len(f.lines) :
          (i < j /\ Ranked(f.lines[i]) /\ Ranked(f.lines[j])) =>
              Rank(f.lines[i].kind) <= Rank(f.lines[j].kind)

-----------------------------------------------------------------------------
(* Hosts.planLocked and extractBlock.                                      *)

\* Mutant of HostsPlan: the old block is left where it is.
HostsPlanTwice(f, entries) ==
    IF entries = <<>> THEN Join(Strip("hosts", f.lines), f.newline)
                      ELSE Join(f.lines \o Block(entries), TRUE)

HostsPlan(f, entries) ==
    LET base == Strip("hosts", f.lines)
    IN IF entries = <<>> THEN Join(base, f.newline) ELSE Join(base \o Block(entries), TRUE)

\* extractBlock: the lines of the first complete block.
Applied(s) ==
    LET b == FirstOf(s, {"begin"})
        ends == {j \in b + 1 .. Len(s) : s[j].kind = "end"}
    IN IF b = 0 \/ ends = {} THEN <<>>
       ELSE [i \in 1 .. Min(ends) - b - 1 |-> s[b + i].kind]

-----------------------------------------------------------------------------
PfConfInit ==
    /\ which \in {"pf.conf", "hosts"}
    /\ \E n \in 0 .. MaxLines : \E kinds \in [1 .. n -> ForeignKinds(which)] :
           file = [lines |-> [i \in 1 .. n |-> Theirs(kinds[i])], newline |-> n > 0]
    /\ which = "pf.conf" => Parses(file)
    /\ before = file
    /\ last = "none" /\ wanted = <<>> /\ foreign = 0

\* PF.EnsureAnchorStatements, in the mode that edits the file: a candidate
\* pfctl does not parse never reaches the disk.
EnsureStatements ==
    LET plan == Plan(file.lines) IN
    /\ which = "pf.conf"
    /\ IF plan = file \/ Parses(plan) THEN file' = plan /\ last' = "patched"
                                      ELSE last' = "refused" /\ UNCHANGED file
    /\ UNCHANGED <<which, wanted, before, foreign>>

\* PF.RemoveAnchorStatements.
RemoveStatements ==
    LET plan == Removal(file.lines) IN
    /\ which = "pf.conf"
    /\ IF plan = file \/ Parses(plan) THEN file' = plan /\ last' = "removed"
                                      ELSE last' = "refused" /\ UNCHANGED file
    /\ UNCHANGED <<which, wanted, before, foreign>>

\* Hosts.Apply; without entries it is Remove. What would be written has to
\* read back as the entries asked for.
Apply(entries) ==
    LET plan == HostsPlan(file, entries) IN
    /\ which = "hosts"
    /\ IF plan = file \/ Applied(plan.lines) = entries
       THEN file' = plan /\ last' = (IF entries = <<>> THEN "removed" ELSE "patched")
       ELSE last' = "refused" /\ UNCHANGED file
    /\ wanted' = entries
    /\ UNCHANGED <<which, before, foreign>>

\* A third party inserts a line of its own, deletes a line or cuts the newline.
Edit ==
    /\ foreign < MaxForeign
    /\ \/ \E i \in 0 .. Len(file.lines), k \in ForeignKinds(which) :
              file' = [file EXCEPT !.lines = InsertAt(@, i + 1, Theirs(k)), !.newline = TRUE]
       \/ \E i \in 1 .. Len(file.lines) : file' = [file EXCEPT !.lines = RemoveAt(@, i)]
       \/ file.newline /\ file' = [file EXCEPT !.newline = FALSE]
    /\ foreign' = foreign + 1
    /\ last' = "none" /\ before' = file'
    /\ UNCHANGED <<which, wanted>>

Ours == EnsureStatements \/ RemoveStatements \/ \E e \in {<<>>, <<"e1">>, <<"e1", "e2">>} : Apply(e)

PfConfNext == Ours \/ Edit

PfConfSpec == PfConfInit /\ [][PfConfNext]_pfConfVars

-----------------------------------------------------------------------------
Foreigners(s) == LinesAt(s, {n \in 1 .. Len(s) : ~s[n].ours})
HasKind(s, kinds) == FirstOf(s, kinds) # 0

\* Between an opening marker and the closing one that follows it within reach
\* there are only lines of ours.
Tidy(p, s) ==
    \A i, j \in 1 .. Len(s) :
        (s[i].kind = "begin" /\ s[j].kind = "end" /\ i < j /\ j <= i + Reach(p, s)) =>
            (\A k \in i .. j : s[k].ours) \/ \E k \in i .. j - 1 : s[k].kind = "end"

\* A patch or a removal keeps every line of others, in its order, however the
\* markers were damaged, as long as no line of others stands between two
\* markers that pair ("Foreign lines are never reordered, rewritten or removed").
ForeignKept ==
    [][Ours /\ Tidy(which, file.lines) => Foreigners(file'.lines) = Foreigners(file.lines)]_pfConfVars

\* In a patched pf.conf pf reaches our two anchors, once each, before every
\* translation and every filter rule of others: theirs may be quick.
AnchorsComeFirst ==
    (which = "pf.conf" /\ last = "patched") =>
        LET s == file.lines
            Only(k) == Cardinality({i \in 1 .. Len(s) : s[i].kind = k}) = 1
            Ahead(k, others) == \A i \in 1 .. Len(s) : s[i].kind \in others => FirstOf(s, {k}) < i
        IN /\ Only("rdr") /\ Only("anchor")
           /\ Ahead("rdr", {"nat"}) /\ Ahead("anchor", {"pass"})

\* A file pfctl parses is still parsed once patched, unless translation rules
\* are all it has: the daemon exits when the patch is refused, and launchd
\* starts it again every ten seconds.
PatchParses ==
    (which = "pf.conf" /\ Parses(file)) =>
        \/ Parses(Plan(file.lines))
        \/ LET base == Strip(which, file.lines) IN HasKind(base, {"nat"}) /\ ~HasKind(base, {"pass"})

\* The comment of sectionInsertPoints: with a translation section only "put the
\* filter anchor right after the translation one so the order still holds".
PatchKeepsOrder == (which = "pf.conf" /\ Parses(file)) => Parses(Plan(file.lines))

\* A second patch changes nothing, whatever state the first one found.
PatchSettles ==
    last = "patched" => file = (IF which = "pf.conf" THEN Plan(file.lines) ELSE HostsPlan(file, wanted))

\* Taking the patch out restores the file as others left it, newline aside;
\* an empty hosts file becomes one blank line.
RemovalRestores ==
    (last = "removed" /\ before.lines # <<>> /\ \A i \in 1 .. Len(before.lines) : ~before.lines[i].ours) =>
        file.lines = before.lines

\* The resolver finds the entries asked for in our block and nowhere a second
\* time, whatever was done to the blocks of earlier commands.
EntriesOnce ==
    (which = "hosts" /\ last = "patched") =>
        /\ Applied(file.lines) = wanted
        /\ Cardinality({i \in 1 .. Len(file.lines) : file.lines[i].kind \in Marker}) = 2
=============================================================================
