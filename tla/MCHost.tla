-------------------------------- MODULE MCHost --------------------------------
(* What chooses and tries strategies, explored by one run: `part' picks the      *)
(* commands on strategies (Activation), the compiler of strategy files           *)
(* (StrategyLoad), zaprctl's VPN commands (Vpn), its self-test (SelfTest) or its *)
(* sweep (Autopick). The state of the other parts stays at one initial state.    *)
EXTENDS Integers, TLC, Activation, Vpn, SelfTest, Autopick, StrategyLoad

VARIABLE part

-----------------------------------------------------------------------------
\* The second version of strategy a has another window; so has strategy b.
Windows == [v \in {"a", "b"} \X {1, 2} |-> IF v \in {<<"a", 1>>, <<"b", 1>>} THEN "w1" ELSE "w2"]

Probing(kind, control) == [kind |-> kind, control |-> control, expect |-> control]

Tests == <<Probing("https", TRUE), Probing("wss", FALSE), Probing("tls", FALSE)>>

Replied(ok, class, time) == [ok |-> ok, class |-> class, time |-> time]

Replies ==
    {Replied(TRUE, "ok", 1), Replied(TRUE, "ok", 2), Replied(FALSE, "timeout", 0), Replied(FALSE, "refused", 0)}
Menu == <<1, 2, 3, 4>>
Asked == <<2>>
Lacks == <<0, 0, 1, 0>>

-----------------------------------------------------------------------------
\* What is compiled: list files in every state, some windows, some operations.
Content(there, readable, entries, junk) ==
    [there |-> there, readable |-> readable, entries |-> entries, junk |-> junk]
FileContents ==
    {Absent, Content(TRUE, FALSE, {}, FALSE), Content(TRUE, TRUE, {}, FALSE), Content(TRUE, TRUE, {}, TRUE),
     Content(TRUE, TRUE, {"x"}, FALSE), Content(TRUE, TRUE, {"x", "y"}, TRUE)}

Pos(off) == [m |-> "abs", off |-> off]
Op(name, changes) ==
    changes @@ [op |-> name, pos |-> <<>>, ovl |-> 0, order |-> 0, mid |-> <<>>, grow |-> 0, ttl |-> 0, fool |-> {},
                reps |-> 1, ipid |-> "default", frag |-> 0, win |-> 0, active |-> TRUE, inc |-> 0, auto |-> <<>>,
                wrong |-> FALSE]
Split == <<Op("multisplit", [ovl |-> 2, pos |-> <<Pos(1)>>])>>
Ports(lo, hi) == [lo |-> lo, hi |-> hi]
SectionOf(include, exclude, inline, ops) ==
    [wrong |-> FALSE, ports |-> <<Ports(443, 443)>>, proto |-> "tcp", unsupported |-> "degrade",
     lists |-> <<include, exclude, <<>>, <<>>>>, inline |-> <<{}, inline, {}, {}>>, ops |-> ops]
Text(window, profiles) == [window |-> window, profiles |-> profiles]

ListTexts ==
    {Text(<<Ports(80, 80)>>, <<SectionOf(<<"l">>, <<"u", "m">>, {}, Split), SectionOf(<<>>, <<"u">>, {}, Split)>>),
     Text(<<Ports(80, 80)>>, <<SectionOf(<<>>, <<"u">>, {}, Split), SectionOf(<<"l", "m">>, <<"u", "m">>, {}, Split)>>),
     Text(<<Ports(80, 80)>>, <<SectionOf(<<>>, <<"u">>, {"y"}, Split)>>)}

WindowTexts ==
    {Text(<<Ports(lo, hi), Ports(low, high), Ports(443, 500)>>, <<SectionOf(<<>>, <<>>, {}, Split)>>) :
        lo \in {0, 1, 400, 442, 501, 502}, hi \in {441, 443, 600, 65535}, low \in {1, 443, 600, 65535}, high \in {500, 65535}}

TriedOps ==
    {Op(name, [ovl |-> ovl, pos |-> pos]) :
        name \in {"multisplit", "multidisorder", "fakedsplit", "fakeddisorder"}, ovl \in 0 .. 3,
        pos \in {<<>>, <<Pos(2)>>, <<Pos(2), Pos(3)>>, <<Pos(-1)>>}}
    \cup {Op("ip_id", [ipid |-> "zero"]), Op("tamper", [grow |-> 1]), Op("wssize", [win |-> 1]),
          Op("ipfrag2", [frag |-> 24]), Op("ipfrag2", [frag |-> 12]), Op("hostfakesplit", [order |-> 1]),
          Op("fake", [auto |-> <<[delta |-> -1, min |-> 3, max |-> 20]>>])}

OpTexts ==
    {Text(<<Ports(80, 80)>>, <<[SectionOf(<<>>, <<>>, {}, <<op, Op("fake", [ttl |-> 4])>>) EXCEPT !.unsupported = policy]>>) :
        op \in TriedOps, policy \in {"degrade", "error"}}

EveryCap == {"segment", "drop", "seq", "inject", "ttl", "fooling", "ipid", "udp", "ipv6ext", "frag", "tlsrec"}
ProxyCaps == {"segment", "tlsrec", "drop"}
Hello ==
    [udp |-> FALSE, v6 |-> FALSE, syn |-> FALSE, fin |-> FALSE, len |-> 8, http |-> FALSE, tls |-> TRUE, known |-> TRUE,
     host |-> 2, hostLen |-> 5, sld |-> 2, sldLen |-> 3, sni |-> 1, caps |-> EveryCap, seen |-> 0]
NoText == Text(<<>>, <<>>)

AllTexts == ListTexts \cup WindowTexts \cup OpTexts \cup {NoText}
Packets == {Hello, [Hello EXCEPT !.caps = @ \ {"ipid", "ipv6ext"}], [Hello EXCEPT !.caps = ProxyCaps]}

-----------------------------------------------------------------------------
MCInit ==
    /\ part \in {"switch", "compile", "tunnel", "test", "sweep"}
    /\ ActivationInit
    /\ SelfTestInit /\ (part # "test" => ~quit)
    /\ AutopickInit /\ (part # "sweep" => active = 1)
    /\ VpnInit /\ (part # "tunnel" => loaded = {} /\ holders = {} /\ ~alien)
    /\ IF part = "compile" THEN StrategyLoadInit
       ELSE StrategyLoadInit /\ text = NoText

MCNext ==
    \/ part = "switch" /\ ActivationNext /\ UNCHANGED <<part, load, vpn, selftest, autopick>>
    \/ part = "compile" /\ StrategyLoadNext /\ UNCHANGED <<part, activation, vpn, selftest, autopick>>
    \/ part = "tunnel" /\ VpnNext /\ UNCHANGED <<part, activation, load, selftest, autopick>>
    \/ part = "test" /\ SelfTestNext /\ UNCHANGED <<part, activation, load, vpn, autopick>>
    \/ part = "sweep" /\ AutopickNext /\ UNCHANGED <<part, activation, load, vpn, selftest>>

\* The fairness of each part.
MCSpec ==
    /\ MCInit /\ [][MCNext]_<<part, activation, load, vpn, selftest, autopick>>
    /\ WF_activation(part = "switch" /\ SessionStep /\ Watch)
    /\ WF_activation(part = "switch" /\ CommandStep(1) /\ Watch)
    /\ WF_load(part = "compile" /\ Compiling)
    /\ WF_vpn(part = "tunnel" /\ (StopStep \/ StartStep))
    /\ \A i \in 1 .. 3 : WF_selftest(part = "test" /\ Own(i))
    /\ WF_selftest(part = "test" /\ ReturnRun)
    /\ WF_autopick(part = "sweep" /\ PickStep)

-----------------------------------------------------------------------------
(* A `use' takes effect, by a restart if need be; a compile, a `vpn' command, a *)
(* self-test and a sweep end.                                                   *)
CommandsEnd ==
    /\ part = "switch" => UseTakesEffect
    /\ part = "compile" => CompileEnds
    /\ part = "test" => RunEnds
    /\ VpnEnds /\ PickEnds
===============================================================================
