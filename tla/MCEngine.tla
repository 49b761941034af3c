------------------------------- MODULE MCEngine -------------------------------
(* Instances of Engine for TLC: profiles of the shapes the shipped strategies  *)
(* use, in the orders that matter.                                              *)
EXTENDS Engine, TLC

CONSTANTS k1, h1, h2, stun, auto, f1, f2, r1, r2

OneKey == {k1}
TwoHandlers == {r1, r2}
TwoHosts == {h1, h2}
OneProtocol == {stun}
OneList == {auto}
\* One for the table and one for a relay that lost its own to another's end.
Entries == {f1, f2}
Symmetry == Permutations(Entries) \cup Permutations(TwoHandlers)

No == [kind |-> "none", n |-> 0]
Open == [on |-> {k1}, l7 |-> {}, gated |-> FALSE, hosts |-> {}, except |-> {},
        auto |-> NoList, start |-> No, cutoff |-> No]
Listed == [Open EXCEPT !.gated = TRUE, !.hosts = {h1}]
Cut == [Open EXCEPT !.cutoff = [kind |-> "n", n |-> 1]]
Data == [Open EXCEPT !.start = [kind |-> "d", n |-> 1], !.cutoff = [kind |-> "d", n |-> 2]]
Learning1 == [Open EXCEPT !.auto = auto]
Except == [Open EXCEPT !.except = {h2}]
CutExcept == [Cut EXCEPT !.except = {h2}]

\* The profiles for voice wait for a protocol, one of them for a list, too.
Voice == [Open EXCEPT !.l7 = {stun}]
VoiceListed == [Listed EXCEPT !.l7 = {stun}, !.except = {h2}]

Plain == {<<Data>>, <<Learning1, Cut>>, <<Listed, Learning1>>, <<Listed, CutExcept>>, <<VoiceListed, Voice>>}
ASSUME PlainSettles == \A s \in Plain : Settles(s)
\* The last profile of the shipped strategies: every host but the excluded.
Excluding == {<<Listed, Except>>, <<Except>>}
=============================================================================
