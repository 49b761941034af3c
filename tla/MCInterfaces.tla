----------------------------- MODULE MCInterfaces -----------------------------
(* The parts of Interfaces, explored by one run: `part' picks the one that       *)
(* moves; the others stay at one initial state.                                  *)
EXTENDS Interfaces

Daemons == {"d1", "d2"}
Calls == {1, 2}
CallsAsk == <<{"command", "logs", "follow", "bad", "none"}, {"command"}>>

ThreeWindows ==
    {[tcp |-> {80, 443}, udp |-> {443}], [tcp |-> {443}, udp |-> {}], [tcp |-> {}, udp |-> {443}]}

SomeHosts == {<<"x">>, <<"x", "c">>, <<"x", "">>}

TwoFiles == {{}, {[bits |-> 2, net |-> <<1, 1>>], [bits |-> 1, net |-> <<0, 0>>]}}

VARIABLE part

MCInit ==
    /\ part \in {"socket", "log", "conf", "rules", "learn", "prefixes", "ipset"}
    /\ ControlInit /\ (part # "socket" => path = NoOne)
    /\ LogTailInit /\ AutoListInit
    /\ PfConfInit /\ (part # "conf" => which = "hosts" /\ file.lines = <<>>)
    /\ CidrInit /\ (part # "prefixes" => cidrFile = {})
    /\ IpsetInit /\ (part # "ipset" => list = "real")
    /\ PfRulesInit
    /\ part # "rules" =>
           /\ opts = [dp |-> "divert", injector |-> "bpf", exemptRoot |-> TRUE, ipv6 |-> FALSE, blockQUIC |-> FALSE]
           /\ window = [tcp |-> {443}, udp |-> {}]

\* Bound: two connections or two daemons, not both.
Small == cl[2] = "idle" \/ life["d2"] = "off"

MCNext ==
    \/ /\ part = "socket" /\ ControlNext /\ Small'
       /\ UNCHANGED <<part, tail, pfConfVars, pfRulesVars, autoListVars, cidrVars, ipsetVars>>
    \/ part = "log" /\ LogTailNext
       /\ UNCHANGED <<part, control, pfConfVars, pfRulesVars, autoListVars, cidrVars, ipsetVars>>
    \/ part = "conf" /\ PfConfNext
       /\ UNCHANGED <<part, control, tail, pfRulesVars, autoListVars, cidrVars, ipsetVars>>
    \/ part = "rules" /\ PfRulesNext
       /\ UNCHANGED <<part, control, tail, pfConfVars, autoListVars, cidrVars, ipsetVars>>
    \/ part = "learn" /\ AutoListNext
       /\ UNCHANGED <<part, control, tail, pfConfVars, pfRulesVars, cidrVars, ipsetVars>>
    \/ part = "prefixes" /\ CidrNext
       /\ UNCHANGED <<part, control, tail, pfConfVars, pfRulesVars, autoListVars, ipsetVars>>
    \/ part = "ipset" /\ IpsetNext
       /\ UNCHANGED <<part, control, tail, pfConfVars, pfRulesVars, autoListVars, cidrVars>>

\* The fairness of Control, of LogTail and of AutoList.
MCSpec ==
    /\ MCInit
    /\ [][MCNext]_<<part, control, tail, pfConfVars, pfRulesVars, autoListVars, cidrVars, ipsetVars>>
    /\ \A s \in Server : WF_control(part = "socket" /\ Listening(s))
    /\ \A c \in Client : WF_control(part = "socket" /\ Conn(c))
    /\ WF_tail(part = "log" /\ Tailing) /\ WF_tail(part = "log" /\ Flush)
    /\ WF_autoListVars(part = "learn" /\ FlushList)
===============================================================================
