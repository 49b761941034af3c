------------------------------ MODULE MCDatapath ------------------------------
(* The datapath of the divert transport and the relays of the proxy, each over *)
(* requests and profiles that take every operation through its cases.          *)
EXTENDS Emit, Relay, TLC

Op(name, changes) ==
    changes @@ [op |-> name, pos |-> <<>>, ovl |-> 0, order |-> 0, mid |-> <<>>, grow |-> 0, ttl |-> 0,
                fool |-> {}, reps |-> 1, ipid |-> "default", frag |-> 0, win |-> 0, active |-> TRUE, inc |-> 0, auto |-> <<>>]
Plainly(name) == Op(name, [op |-> name])
At_(m, off) == [m |-> m, off |-> off]

Tls == [udp |-> FALSE, v6 |-> FALSE, syn |-> FALSE, fin |-> FALSE, len |-> 8, http |-> FALSE, tls |-> TRUE,
        known |-> TRUE, host |-> 2, hostLen |-> 5, sld |-> 2, sldLen |-> 3, sni |-> 1, caps |-> FullCaps, seen |-> 0]
Http == [Tls EXCEPT !.seen = 55, !.tls = FALSE, !.http = TRUE, !.sni = 0, !.fin = TRUE]
Nothing == [Tls EXCEPT !.tls = FALSE, !.known = FALSE, !.len = 0, !.host = 0, !.hostLen = 0, !.sld = 0, !.sldLen = 0, !.sni = 0]
MCContexts ==
    {Tls, Http, Nothing, [Nothing EXCEPT !.syn = TRUE], [Nothing EXCEPT !.len = 1, !.fin = TRUE],
     [Tls EXCEPT !.v6 = TRUE, !.seen = 120], [Tls EXCEPT !.len = 12], [Http EXCEPT !.caps = RawCaps],
     [Nothing EXCEPT !.udp = TRUE, !.len = 6, !.known = TRUE], [Nothing EXCEPT !.udp = TRUE, !.v6 = TRUE, !.len = 1]}

\* The operations, each with the parameters that tell its cases apart.
Splitting ==
    {Op("multisplit", [pos |-> <<At_("midsld", 0)>>]),
     Op("multisplit", [pos |-> <<At_("abs", 1), At_("endhost", 0), At_("abs", -1)>>, ovl |-> 2, ipid |-> "seqgroup"]),
     Op("multidisorder", [pos |-> <<At_("midsld", 0), At_("sniext", 1)>>, ipid |-> "seq"]),
     Op("multidisorder", [pos |-> <<At_("host", 0), At_("midsld", 0)>>, ovl |-> 1]),
     Op("fakedsplit", [pos |-> <<At_("midsld", 0)>>, reps |-> 2, ipid |-> "seq"]),
     Op("fakedsplit", [pos |-> <<At_("method", 2)>>, ovl |-> 1, order |-> 1]),
     Op("fakeddisorder", [pos |-> <<At_("midsld", 0)>>, ipid |-> "seq"]),
     Op("fakeddisorder", [pos |-> <<At_("abs", 3)>>, ovl |-> 2, order |-> 18]),
     Op("hostfakesplit", [mid |-> <<At_("midsld", 0)>>]), Op("hostfakesplit", [order |-> 1])}
Injecting ==
    {Op("fake", [reps |-> 2, auto |-> <<[delta |-> -1, min |-> 3, max |-> 20]>>]), Op("fakeknown", [reps |-> 9, ttl |-> 3]), Plainly("rst"), Plainly("syndata")}
Shaping ==
    {Op("ipfrag2", [frag |-> 24]), Plainly("ipfrag1"), Plainly("hopbyhop"), Op("udplen", [inc |-> 3]),
     Op("udplen", [inc |-> -9]), Op("wssize", [win |-> 1]), Op("ip_id", [ipid |-> "zero"]), Op("ip_id", [ipid |-> "seq"]),
     Plainly("tamper"), Op("tamper", [grow |-> 1]), Plainly("tlsrec")}
Every == Splitting \cup Injecting \cup Shaping \cup {Plainly("block")}
Prof(ops, unsupported) == [ops |-> ops, unsupported |-> unsupported]
MCProfiles ==
    {Prof(<<>>, "degrade")} \cup {Prof(<<o>>, u) : o \in Every, u \in {"degrade", "skip", "error"}}
    \cup {Prof(<<a, b>>, "degrade") : a \in Shaping \cup Injecting, b \in Splitting}
    \cup {Prof(<<a, b>>, "degrade") : a \in Shaping \cup Injecting, b \in Injecting}
    \cup {Prof(<<a, b>>, "skip") : a \in Shaping, b \in Shaping}
    \cup {Prof(<<Op("ip_id", [ipid |-> "seq"]), a, b>>, "degrade") : a \in Splitting, b \in Injecting}

\* The relays: requests under ProxyCaps, and the profiles a relay can degrade.
MCRequests == {[c EXCEPT !.caps = ProxyCaps] : c \in {Tls, Http, [Nothing EXCEPT !.len = 1]}}
MCPlans ==
    {Prof(<<>>, "degrade"), Prof(<<Plainly("rst")>>, "error")}
    \cup {Prof(<<o>>, "degrade") : o \in Splitting \cup {Plainly("block"), Op("tamper", [grow |-> 1]), Plainly("tlsrec")}}
    \cup {Prof(<<a, b>>, "degrade") : a \in Splitting, b \in {Plainly("tamper"), Plainly("tlsrec")}}

VARIABLE part
emitted == <<phase, errors, why, pkt, prof, out, built, sent, drop, issued, wire, fails>>
InitDatapath == Init /\ RelayInit /\ part \in {"emit", "relay"}
RelayStep(A) == part = "relay" /\ A /\ UNCHANGED <<part, emitted>>
NextDatapath ==
    \/ part = "emit" /\ Next /\ UNCHANGED <<part, relayVars>>
    \/ part = "relay" /\ RelayNext /\ UNCHANGED <<part, emitted>>
FairDatapath ==
    /\ WF_<<part, relayVars>>(RelayStep(ServeReturns))
    /\ \A r \in Clients: WF_<<part, relayVars>>(RelayStep(HandleConn(r))) /\ WF_<<part, relayVars>>(RelayStep(Splice(r)))
SpecDatapath == InitDatapath /\ [][NextDatapath]_<<part, emitted, relayVars>> /\ FairDatapath
=============================================================================
