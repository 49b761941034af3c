------------------------------ MODULE CidrSet ------------------------------
(***************************************************************************)
(* lists.CIDRSet: address prefixes kept in a slice that is sorted when it  *)
(* is next read, asked by the packet loop while the control socket reloads *)
(* the list. An address is its bits; a prefix is its length and the masked *)
(* address.                                                                *)
(***************************************************************************)
EXTENDS Integers, FiniteSets, Sequences

CONSTANTS
    Width,     \* bits of an address
    Contents,  \* what the list file may hold: sets of prefixes
    Reader,    \* concurrent callers of Match
    MaxAdds, MaxLooks  \* bounds on the changes and the lookups of a behaviour

Address == [1 .. Width -> {0, 1}]

\* Mask: the network of the given length an address is in.
Masked(a, bits) == [i \in 1 .. Width |-> IF i <= bits THEN a[i] ELSE 0]

Prefix == {[bits |-> b, net |-> Masked(a, b)] : b \in 0 .. Width, a \in Address}

ASSUME CidrAssumption ==
    /\ Width \in Nat /\ MaxAdds \in Nat /\ MaxLooks \in Nat
    /\ \A set \in Contents : set \subseteq Prefix /\ IsFiniteSet(set)

VARIABLES
    ps,      \* the slice
    sorted,  \* CIDRSet.sorted
    any,     \* CIDRSet.Any
    loads,   \* CIDRSet.Files: how often the list file was loaded into the set
    cidrFile,\* disk: the list file
    rpc,     \* where each reader is
    asked,   \* the address it asks for
    answer,  \* what it was told
    members, \* history: the prefixes added or loaded since the last reload
    truth,   \* history: what it should have been told
    adds, looks  \* history: how often bounded things happened

cidrVars == <<ps, sorted, any, loads, cidrFile, rpc, asked, answer, members, truth, adds, looks>>

CidrTypeOK ==
    /\ ps \in Seq(Prefix) /\ sorted \in BOOLEAN /\ any \in BOOLEAN /\ loads \in 0 .. MaxAdds
    /\ cidrFile \in Contents /\ members \subseteq Prefix
    /\ rpc \in [Reader -> {"idle", "ensured", "told"}]
    /\ asked \in [Reader -> Address] /\ answer \in [Reader -> BOOLEAN] /\ truth \in [Reader -> BOOLEAN]
    /\ adds \in 0 .. MaxAdds /\ looks \in 0 .. MaxLooks

-----------------------------------------------------------------------------
Covers(p, a) == Masked(a, p.bits) = p.net

\* Addr.Compare: the first bit that differs decides.
Lower(x, y) == \E i \in 1 .. Width : x[i] < y[i] /\ \A j \in 1 .. i - 1 : x[j] = y[j]

\* comparePrefix.
Before(p, q) == p.bits < q.bits \/ (p.bits = q.bits /\ Lower(p.net, q.net))

\* sortPrefixes: in order, and each prefix once.
Sorted(s) ==
    LET set == {s[i] : i \in 1 .. Len(s)}
    IN CHOOSE t \in [1 .. Cardinality(set) -> set] :
           \A i, j \in 1 .. Cardinality(set) : i < j => t[i] # t[j] /\ ~Before(t[j], t[i])

\* lowerBoundBits, lowerBoundAddr: the first index of [lo, hi) whose prefix is
\* not low, by halving; hi when there is none.
LowerBound(lo, hi, low) ==
    LET search[r \in (lo .. hi) \X (lo .. hi)] ==
            LET mid == (r[1] + r[2]) \div 2
            IN IF r[1] >= r[2] THEN r[1]
               ELSE IF low[mid] THEN search[<<mid + 1, r[2]>>] ELSE search[<<r[1], mid>>]
    IN search[<<lo, hi>>]

\* containsSorted: the runs of one length, from the longest prefixes down.
ContainsSorted(s, a) ==
    LET run[hi \in 1 .. Len(s) + 1] ==
            IF hi = 1 THEN FALSE
            ELSE LET bits == s[hi - 1].bits
                     shorter == [j \in 1 .. hi - 1 |-> s[j].bits < bits]
                     below == [j \in 1 .. hi - 1 |-> Lower(s[j].net, Masked(a, bits))]
                     lo == LowerBound(1, hi, shorter)
                     i == LowerBound(lo, hi, below)
                 IN (i < hi /\ s[i].net = Masked(a, bits)) \/ run[lo]
    IN run[Len(s) + 1]

ContainsLinear(s, a) == \E i \in 1 .. Len(s) : Covers(s[i], a)

-----------------------------------------------------------------------------
\* The lines of a file, in any order a map of them may have.
Lines(set) == CHOOSE s \in [1 .. Cardinality(set) -> set] : \A i, j \in DOMAIN s : i # j => s[i] # s[j]

Add(p) ==
    /\ adds < MaxAdds /\ adds' = adds + 1
    /\ ps' = Append(ps, p) /\ sorted' = FALSE
    /\ members' = members \cup {p}
    /\ UNCHANGED <<any, loads, cidrFile, rpc, asked, answer, truth, looks>>

\* LoadFile adds to the set, and sorts it; a file without a prefix means any.
LoadFile ==
    /\ adds < MaxAdds /\ adds' = adds + 1
    /\ ps' = Sorted(ps \o Lines(cidrFile)) /\ sorted' = TRUE
    /\ any' = (any \/ cidrFile = {})
    /\ loads' = loads + 1 /\ members' = members \cup cidrFile
    /\ UNCHANGED <<cidrFile, rpc, asked, answer, truth, looks>>

\* Reload: the file replaces the contents, in one step for the readers; a set
\* without a file stays as it is.
ReloadSet ==
    /\ loads > 0
    /\ ps' = Sorted(Lines(cidrFile)) /\ sorted' = TRUE /\ any' = (cidrFile = {})
    /\ members' = cidrFile
    /\ UNCHANGED <<loads, cidrFile, rpc, asked, answer, truth, adds, looks>>

Rewrite ==
    /\ adds < MaxAdds /\ adds' = adds + 1
    /\ cidrFile' \in Contents
    /\ UNCHANGED <<ps, sorted, any, loads, rpc, asked, answer, members, truth, looks>>

\* Match sorts first, if need be, and then reads: the lock is free in between.
EnsureSorted(r) ==
    /\ rpc[r] = "idle" /\ looks < MaxLooks /\ looks' = looks + 1
    /\ \E a \in Address : asked' = [asked EXCEPT ![r] = a]
    /\ IF sorted THEN UNCHANGED <<ps, sorted>> ELSE ps' = Sorted(ps) /\ sorted' = TRUE
    /\ rpc' = [rpc EXCEPT ![r] = "ensured"]
    /\ UNCHANGED <<any, loads, cidrFile, answer, members, truth, adds>>

\* Mutant of Found: the slice is taken to be sorted still.
FoundSorted(a) == any \/ ContainsSorted(ps, a)

\* A slice that became unsorted in the meantime is scanned.
Found(a) == any \/ (IF sorted THEN ContainsSorted(ps, a) ELSE ContainsLinear(ps, a))

Look(r) ==
    /\ rpc[r] = "ensured"
    /\ answer' = [answer EXCEPT ![r] = Found(asked[r])]
    /\ truth' = [truth EXCEPT ![r] = any \/ \E p \in members : Covers(p, asked[r])]
    /\ rpc' = [rpc EXCEPT ![r] = "told"]
    /\ UNCHANGED <<ps, sorted, any, loads, cidrFile, asked, members, adds, looks>>

Again(r) ==
    /\ rpc[r] = "told" /\ rpc' = [rpc EXCEPT ![r] = "idle"]
    /\ UNCHANGED <<ps, sorted, any, loads, cidrFile, asked, answer, members, truth, adds, looks>>

CidrInit ==
    /\ members = {} /\ ps = <<>> /\ sorted = TRUE /\ any = FALSE /\ loads = 0
    /\ cidrFile \in Contents
    /\ rpc = [r \in Reader |-> "idle"] /\ asked = [r \in Reader |-> [i \in 1 .. Width |-> 0]]
    /\ answer = [r \in Reader |-> FALSE] /\ truth = [r \in Reader |-> FALSE]
    /\ adds = 0 /\ looks = 0

CidrNext ==
    \/ \E p \in Prefix : Add(p)
    \/ LoadFile \/ ReloadSet \/ Rewrite
    \/ \E r \in Reader : EnsureSorted(r) \/ Look(r) \/ Again(r)

CidrSpec == CidrInit /\ [][CidrNext]_cidrVars

-----------------------------------------------------------------------------
\* A lookup finds an address exactly when one of the prefixes added or loaded by
\* that moment contains it, or a file of the list says any: whatever the order
\* they came in, and whatever came between the sorting and the search.
MatchIsMembership == \A r \in Reader : rpc[r] = "told" => answer[r] = truth[r]

=============================================================================
