------------------------------ MODULE PfRules ------------------------------
(***************************************************************************)
(* The rules a datapath puts into our anchor and what pf makes of a packet *)
(* under them: the log-and-drop rules of the divert transport, the         *)
(* redirection of the proxy, the table of excluded destinations filled     *)
(* after the load, and the reload of a running transport.                  *)
(*                                                                         *)
(* A rule is what it matches and what it does with it. All our filter      *)
(* rules are `quick': the first that matches decides.                      *)
(***************************************************************************)
EXTENDS Integers, SequencesExt

CONSTANTS
    Windows,     \* the strategies: their TCP and UDP ports
    Ports,       \* destination ports
    Excluded,    \* the destinations of the exclude lists
    Others,      \* the other destinations
    Uplink, Vpn, \* interfaces beside lo0
    MaxFails,    \* bound on the pfctl calls that fail
    MaxReloads   \* bound on the reloads of a behaviour

ASSUME PfRulesAssumption ==
    /\ \A w \in Windows : w.tcp \subseteq Ports /\ w.udp \subseteq Ports
    /\ Excluded \cap Others = {} /\ Uplink # Vpn /\ "lo0" \notin {Uplink, Vpn}
    /\ MaxFails \in Nat /\ MaxReloads \in Nat

VARIABLES
    opts,      \* the transport, its injector and its options
    window,    \* Transport.strat: the window of the strategy it holds
    believed,  \* divert: Transport.loadedRules
    kernel,    \* pf: the rules of our anchor
    table,     \* pf: the contents of its table zmx
    phase,     \* "down", "fill": loaded, the table not filled yet, "up"
    reply,     \* what the last Start or Reload answered
    fails, reloads  \* history: how often bounded things happened

pfRulesVars == <<opts, window, believed, kernel, table, phase, reply, fails, reloads>>

Iface == {"lo0", Uplink, Vpn}

\* An outgoing packet: the interface it is routed to, lo0 for every address of this
\* machine, and whether it comes from the loopback network, as it does when it goes
\* there, and not when it goes to another address of this machine.
Packet == {p \in [iface: Iface, loop: BOOLEAN, v6: BOOLEAN, proto: {"tcp", "udp"},
                   dst: Excluded \cup Others, port: Ports, root: BOOLEAN] : p.loop => p.iface = "lo0"}

Options == [dp: {"divert", "proxy"}, injector: {"bpf", "raw"}, exemptRoot: BOOLEAN, ipv6: BOOLEAN, blockQUIC: BOOLEAN]

PfRulesTypeOK ==
    /\ opts \in Options
    /\ window \in Windows
    /\ table \subseteq Excluded
    /\ phase \in {"down", "fill", "up"} /\ reply \in {"none", "ok", "error"}
    /\ fails \in 0 .. MaxFails /\ reloads \in 0 .. MaxReloads

-----------------------------------------------------------------------------
(* Rendering: LogDropRules, RedirectRules and the two mergeRulesets.       *)

Rule(does, ifaces, loops, v6, proto, ports, unless, roots) ==
    [does |-> does, ifaces |-> ifaces, loops |-> loops, v6 |-> v6, proto |-> proto, ports |-> ports,
     unless |-> unless, roots |-> roots]

Loopback == Rule("pass", {"lo0"}, BOOLEAN, BOOLEAN, {"tcp", "udp"}, Ports, FALSE, BOOLEAN)

\* A rule for an empty list of ports is left out.
When(ports, rule) == IF ports = {} THEN <<>> ELSE <<rule>>

\* Mutant of Exempt: the option alone decides.
ExemptAsAsked == IF opts.exemptRoot THEN {FALSE} ELSE BOOLEAN

\* Whose packets the rules match: what a raw socket re-emits comes through pf
\* again, and the relay's own connections do, so root is left out for both.
Exempt == IF opts.exemptRoot \/ opts.injector = "raw" \/ opts.dp = "proxy" THEN {FALSE} ELSE BOOLEAN

\* Mutant of LogDropRules: not bound to the uplink.
LogDropAnywhere(w, v6) ==
    <<Loopback>>
    \o When(w.tcp, Rule("divert", Iface, BOOLEAN, {v6}, {"tcp"}, w.tcp, TRUE, Exempt))
    \o When(w.udp, Rule("divert", Iface, BOOLEAN, {v6}, {"udp"}, w.udp, TRUE, Exempt))

\* divert: log to our pflog interface and drop, on the uplink only.
LogDropRules(w, v6) ==
    <<Loopback>>
    \o When(w.tcp, Rule("divert", {Uplink}, BOOLEAN, {v6}, {"tcp"}, w.tcp, TRUE, Exempt))
    \o When(w.udp, Rule("divert", {Uplink}, BOOLEAN, {v6}, {"udp"}, w.udp, TRUE, Exempt))

\* Mutant of RedirectRules: the redirection for every source.
RedirectRulesAnySource(w, v6) ==
    When(w.tcp, Rule("rdr", {"lo0"}, BOOLEAN, {v6}, {"tcp"}, w.tcp, FALSE, BOOLEAN))
    \o When(w.tcp, Rule("relay", Iface, BOOLEAN, {v6}, {"tcp"}, w.tcp, FALSE, Exempt))

\* proxy: what route-to forces onto lo0 is redirected to the listener there. Options
\* of the daemon name no interface, so the second rule is for all of them, lo0 too;
\* the first asks for a source outside the loopback network, but not for the user.
RedirectRules(w, v6) ==
    When(w.tcp, Rule("rdr", {"lo0"}, {FALSE}, {v6}, {"tcp"}, w.tcp, FALSE, BOOLEAN))
    \o When(w.tcp, Rule("relay", Iface, BOOLEAN, {v6}, {"tcp"}, w.tcp, FALSE, Exempt))

\* The rules of s that are in W, in their order.
Kept(s, W) ==
    LET kept[n \in 0 .. Len(s)] ==
            IF n = 0 THEN <<>> ELSE IF s[n] \in W THEN Append(kept[n - 1], s[n]) ELSE kept[n - 1]
    IN kept[Len(s)]

\* mergeRulesets: no line twice, none moved.
Merged(a, b) == a \o Kept(b, ToSet(b) \ ToSet(a))

Rendered(w) ==
    LET rules(v6) == IF opts.dp = "divert" THEN LogDropRules(w, v6) ELSE RedirectRules(w, v6)
    IN IF opts.ipv6 THEN Merged(rules(FALSE), rules(TRUE)) ELSE rules(FALSE)

\* pfctl takes translation rules before filter rules or not at all.
InOrder(rules) == \A i, j \in 1 .. Len(rules) : (i < j /\ rules[j].does = "rdr") => rules[i].does = "rdr"

\* loadRules: the proxy falls back to the IPv4 half of rules that do not parse.
Accepted(w) ==
    LET rules == Rendered(w)
    IN IF InOrder(rules) THEN rules ELSE Kept(rules, {r \in ToSet(rules) : r.v6 # {TRUE}})

-----------------------------------------------------------------------------
(* pf: the verdict on a packet that leaves the machine.                    *)

Matches(r, p) ==
    /\ p.iface \in r.ifaces /\ p.loop \in r.loops /\ p.v6 \in r.v6 /\ p.proto \in r.proto /\ p.port \in r.ports
    /\ p.root \in r.roots
    /\ r.unless => p.dst \notin table

\* On its way out the first filter rule that matches decides.
Outward(p) ==
    LET hits == {i \in 1 .. Len(kernel) : kernel[i].does # "rdr" /\ Matches(kernel[i], p)}
    IN IF hits = {} THEN "pass" ELSE kernel[CHOOSE i \in hits : \A j \in hits : i <= j].does

\* A packet that comes in on lo0 meets a redirection there.
Redirected(p) ==
    \E i \in 1 .. Len(kernel) : kernel[i].does = "rdr" /\ Matches(kernel[i], [p EXCEPT !.iface = "lo0"])

\* What goes out by lo0, forced or for an address of this machine, comes in there:
\* to the listener, to its destination, or nowhere if that is elsewhere.
Verdict(p) ==
    IF Outward(p) = "relay" \/ (Outward(p) = "pass" /\ p.iface = "lo0")
    THEN IF Redirected(p) THEN "relay" ELSE IF p.iface = "lo0" THEN "pass" ELSE "lost"
    ELSE Outward(p)

-----------------------------------------------------------------------------
PfRulesInit ==
    /\ opts \in {o \in Options : (o.dp = "proxy" => o.injector = "bpf" /\ o.exemptRoot)}
    /\ window \in Windows /\ (opts.dp = "proxy" => window.tcp # {})
    /\ believed = <<>> /\ kernel = <<>> /\ table = {}
    /\ phase = "down" /\ reply = "none" /\ fails = 0 /\ reloads = 0

Fails == fails < MaxFails /\ fails' = fails + 1

\* LoadRules; the load declares the table anew, which may empty it.
Loads(w) ==
    /\ kernel' = Accepted(w)
    /\ table' \in {table, {}}
    /\ phase' = "fill" /\ reply' = "none"
    /\ UNCHANGED fails

\* setupPF. A transport that cannot load its rules does not start.
Start ==
    /\ phase = "down"
    /\ \/ Loads(window) /\ believed' = Rendered(window)
       \/ Fails /\ reply' = "error" /\ UNCHANGED <<believed, kernel, table, phase>>
    /\ UNCHANGED <<opts, window, reloads>>

\* syncTable: filled, counted, and filled once more when it came back empty.
\* The proxy has no table.
Filled == table' = (IF opts.dp = "divert" THEN Excluded ELSE table)

\* A table that cannot be filled is a warning.
FillTable ==
    /\ phase = "fill" /\ phase' = "up" /\ reply' = "ok"
    /\ \/ Filled /\ UNCHANGED fails
       \/ Fails /\ UNCHANGED table
    /\ UNCHANGED <<opts, window, believed, kernel, reloads>>

\* Mutant of Unchanged: the windows are compared, not what was loaded.
UnchangedWindow(w) == w = window

\* divert compares with what it has loaded, the proxy with what the strategy it
\* held before would render.
Unchanged(w) == IF opts.dp = "divert" THEN Rendered(w) = believed ELSE Rendered(w) = Rendered(window)

\* Transport.Reload: the strategy first, then the rules, if they differ. The
\* proxy refuses a strategy without a TCP window.
Reload(w) ==
    /\ phase = "up" /\ reloads < MaxReloads /\ reloads' = reloads + 1
    /\ IF opts.dp = "proxy" /\ w.tcp = {}
       THEN reply' = "error" /\ UNCHANGED <<window, believed, kernel, table, phase, fails>>
       ELSE /\ window' = w
            /\ \/ /\ Unchanged(w) /\ reply' = "ok"
                  /\ UNCHANGED <<believed, kernel, table, phase, fails>>
               \/ ~Unchanged(w) /\ Loads(w) /\ believed' = Rendered(w)
               \/ /\ ~Unchanged(w) /\ Fails /\ reply' = "error"
                  /\ UNCHANGED <<believed, kernel, table, phase>>
    /\ UNCHANGED opts

\* teardown flushes the anchor, its table with it.
Stop ==
    /\ phase = "up" /\ phase' = "down"
    /\ kernel' = <<>> /\ table' = {} /\ believed' = <<>> /\ reply' = "none"
    /\ UNCHANGED <<opts, window, fails, reloads>>

PfRulesNext == Start \/ FillTable \/ (\E w \in Windows : Reload(w)) \/ Stop

PfRulesSpec == PfRulesInit /\ [][PfRulesNext]_pfRulesVars

-----------------------------------------------------------------------------
\* What a transport is to see: the ports of its strategy, on the uplink for
\* divert and anywhere but on lo0 for the proxy, of users or of everybody.
Wanted(p) ==
    /\ IF opts.dp = "divert" THEN p.iface = Uplink /\ p.dst \notin Excluded ELSE p.iface # "lo0"
    /\ p.port \in (IF p.proto = "tcp" THEN window.tcp ELSE IF opts.dp = "divert" THEN window.udp ELSE {})
    /\ p.v6 => opts.ipv6 /\ opts.dp = "divert"
    /\ p.root => ~opts.exemptRoot /\ opts.injector = "bpf" /\ opts.dp = "divert"

\* What the rules of the proxy take without meaning to: packets to an address of
\* this machine outside the loopback network. They are on lo0 and not from there.
OwnAddress(p) == opts.dp = "proxy" /\ p.iface = "lo0" /\ ~p.loop

\* While a transport is up and nothing failed, it gets every packet of its
\* window and no other: not those of a VPN, of the loopback network, of excluded
\* destinations, of another family or port, whatever was loaded and reloaded
\* before. The exception is OwnAddress.
SteersExactly ==
    (phase = "up" /\ fails = 0) =>
        \A p \in Packet : OwnAddress(p) \/
            Verdict(p) = (IF Wanted(p) THEN IF opts.dp = "divert" THEN "divert" ELSE "relay" ELSE "pass")

\* What the daemon sends in the place of an intercepted packet, as root, is
\* intercepted again. BPF writes do not pass pf.
Loops(p) ==
    /\ opts.dp = "proxy" \/ opts.injector = "raw"
    /\ Verdict(p) # "pass" /\ Verdict([p EXCEPT !.root = TRUE]) # "pass"

\* No packet comes back, with the same exception.
NoLoop == \A p \in Packet : OwnAddress(p) \/ ~Loops(p)

\* "Only a connection the route-to rule already pushed onto lo0 can ever reach" the
\* redirection (RedirOpts): without the exception this does not hold. The relay dials
\* such an address as root, pf gives the connection to the listener, and so on; the
\* breaker in the relay (isSelf) knows the port of the listener only.
NothingLoops == \A p \in Packet : ~Loops(p)

\* A reload of the divert transport that reports success has its strategy's
\* rules in pf, also when it repeats one that failed.
RetryLoads ==
    (opts.dp = "divert" /\ phase = "up" /\ reply = "ok") => kernel = Accepted(window)

\* "When the TCP window changed, the anchor ruleset is reloaded" (Reload of the
\* proxy): when a reload reports success, its strategy's rules are in pf.
RetryRedirects ==
    (opts.dp = "proxy" /\ phase = "up" /\ reply = "ok") => kernel = Accepted(window)

\* "BlockQUIC installs the pf rule that drops UDP/443 to the target set, forcing
\* browsers back to TCP."
QuicBlocked ==
    (opts.blockQUIC /\ opts.dp = "divert" /\ phase = "up") =>
        \A p \in Packet : (p.iface = Uplink /\ ~p.v6 /\ p.proto = "udp" /\ p.port = 443 /\ p.dst \in Others) =>
            Verdict(p) = "block"
=============================================================================
