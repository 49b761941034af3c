------------------------------- MODULE SelfTest -------------------------------
(* A run of the connectivity probes (internal/diag/selftest.go): one goroutine   *)
(* for each probe, a semaphore, a deadline for every probe, and a caller that    *)
(* may give up. What the network answers is left open.                           *)
EXTENDS Naturals, Sequences, FiniteSets, Measure

CONSTANTS
    Probes,         \* the sequence of probes: [kind, control, expect]
    Concurrency     \* how many may be under way

Index == DOMAIN Probes
Kinds == {"tcp", "tls", "wss", "stun", "https"}

ASSUME SelfTestAssumption ==
    /\ Probes \in Seq([kind : Kinds, control : BOOLEAN, expect : BOOLEAN])
    /\ Concurrency \in Nat \ {0}

VARIABLES
    runner,     \* Run: "running" "refused" "returned"
    stage,      \* where the goroutine of a probe is
    slots,      \* tokens in the semaphore
    results,    \* results[i]; the class "none" until there is one
    fault,      \* who made the probe fail: "path" "local" "caller"
    quit        \* ctx is done

selftest == <<runner, stage, slots, results, fault, quit>>

\* runTCPProbe, runTLSProbe, runWebSocketProbe, runSTUNProbe and runHTTPProbe.
Stages(kind) ==
    CASE kind = "tcp" -> <<"resolve", "connect">>
      [] kind = "tls" -> <<"resolve", "connect", "handshake">>
      [] kind = "wss" -> <<"resolve", "connect", "handshake", "exchange">>
      [] kind = "stun" -> <<"resolve", "exchange">>
      [] kind = "https" -> <<"resolve", "connect", "handshake", "answer", "body">>

Underway == {"resolve", "connect", "handshake", "exchange", "answer", "body"}

Classes == {"ok", "timeout", "rst", "refused", "tls-handshake", "tls-alert", "tls-cert", "dns", "dns-nxdomain",
            "unreachable", "eof", "canceled", "http-status", "bad-url", "other"}

SelfTestTypeOK ==
    /\ runner \in {"running", "refused", "returned"} /\ slots \in 0 .. Concurrency /\ quit \in BOOLEAN
    /\ stage \in [Index -> {"queued", "done"} \cup Underway]
    /\ results \in [Index -> [control : BOOLEAN, ok : BOOLEAN, class : Classes \cup {"none"}, time : 0 .. 1]]
    /\ fault \in [Index -> {"none", "path", "local", "caller"}]

\* Run: a context that is already done is the only error.
SelfTestInit ==
    /\ quit \in BOOLEAN /\ runner = (IF quit THEN "refused" ELSE "running")
    /\ stage = [i \in Index |-> "queued"] /\ slots = 0
    /\ results = [i \in Index |-> [control |-> Probes[i].control, ok |-> FALSE, class |-> "none", time |-> 0]]
    /\ fault = [i \in Index |-> "none"]

-----------------------------------------------------------------------------
\* The errors a stage may meet besides the deadline and the end of the context.
PathErrors(kind, s) ==
    CASE s = "connect" -> {{"timed-out", "net-timeout"}}
      [] s = "handshake" -> {{"record-header"}, {"certificate"}, {"alert"}, {"reset"}, {"eof"}}
      [] s = "exchange" /\ kind = "wss" -> {{"reset"}, {"eof"}}
      [] s \in {"answer", "body"} -> {{"reset"}, {"eof"}}
      [] OTHER -> {}

LocalErrors(kind, s) ==
    CASE s = "resolve" -> {{"dns", "not-found"}, {"dns", "net-timeout"}}
      [] s = "exchange" /\ kind = "stun" -> {{"refused"}}
      [] s = "connect" -> {{"refused"}, {"no-route"}}
      [] OTHER -> {}

\* An answer that is not the one expected: a class without an error.
Misfits(p, s) ==
    CASE s = "exchange" /\ p.kind = "wss" -> {"http-status", "other"}
      [] s = "exchange" /\ p.kind = "stun" -> {"other"}
      [] s = "body" /\ p.expect -> {"http-status"}
      [] OTHER -> {}

\* Mutant of Watched: Handshake in the place of HandshakeContext.
WatchedLess(s) == s \in {"resolve", "connect", "answer", "body"}

\* A dial, a handshake and an HTTP request end with the context; a read from the
\* connection of a WebSocket or of STUN only knows the deadline.
Watched(s) == s # "exchange"

\* The resolver wraps whatever ended it.
Wrapped(s, e) == IF s = "resolve" THEN e \cup {"dns"} ELSE e

Live(i) == runner = "running" /\ stage[i] \in Underway

\* RunProbe returns, and the goroutine frees its slot.
Report(i, class, who) ==
    /\ stage' = [stage EXCEPT ![i] = "done"] /\ slots > 0 /\ slots' = slots - 1
    /\ results' = [results EXCEPT ![i].ok = class = "ok", ![i].class = class,
                                  ![i].time = IF class = "ok" /\ Probes[i].kind # "tcp" THEN 1 ELSE 0]
    /\ fault' = [fault EXCEPT ![i] = who]
    /\ UNCHANGED <<runner, quit>>

\* Mutant of Acquire: a slot is not waited for.
AcquireAny(i) ==
    /\ runner = "running" /\ stage[i] = "queued"
    /\ slots' = IF slots < Concurrency THEN slots + 1 ELSE slots
    /\ stage' = [stage EXCEPT ![i] = Stages(Probes[i].kind)[1]]
    /\ UNCHANGED <<runner, results, fault, quit>>

Acquire(i) ==
    /\ runner = "running" /\ stage[i] = "queued" /\ slots < Concurrency
    /\ slots' = slots + 1 /\ stage' = [stage EXCEPT ![i] = Stages(Probes[i].kind)[1]]
    /\ UNCHANGED <<runner, results, fault, quit>>

\* Mutant of Unqueue: no result is left.
UnqueueSilently(i) ==
    /\ runner = "running" /\ stage[i] = "queued" /\ quit
    /\ stage' = [stage EXCEPT ![i] = "done"] /\ fault' = [fault EXCEPT ![i] = "caller"]
    /\ UNCHANGED <<runner, slots, results, quit>>

\* The context ends before a slot is free; where there is one, either may be taken.
Unqueue(i) ==
    /\ runner = "running" /\ stage[i] = "queued" /\ quit
    /\ stage' = [stage EXCEPT ![i] = "done"] /\ fault' = [fault EXCEPT ![i] = "caller"]
    /\ results' = [results EXCEPT ![i].class = "canceled"]
    /\ UNCHANGED <<runner, slots, quit>>

BadURL(i) == Live(i) /\ stage[i] = "resolve" /\ Report(i, "bad-url", "local")

Advance(i) ==
    /\ Live(i)
    /\ LET todo == Stages(Probes[i].kind)
           n == CHOOSE k \in DOMAIN todo : todo[k] = stage[i]
       IN IF n = Len(todo) THEN Report(i, "ok", "none")
          ELSE stage' = [stage EXCEPT ![i] = todo[n + 1]] /\ UNCHANGED <<runner, slots, results, fault, quit>>

PathFails(i) ==
    Live(i) /\ \E e \in PathErrors(Probes[i].kind, stage[i]) : Report(i, ClassifyError(Wrapped(stage[i], e)), "path")

LocalFails(i) ==
    Live(i) /\ \E e \in LocalErrors(Probes[i].kind, stage[i]) : Report(i, ClassifyError(Wrapped(stage[i], e)), "local")

Misfit(i) == Live(i) /\ \E c \in Misfits(Probes[i], stage[i]) : Report(i, c, "local")

\* Mutant of Expire: SetDeadline is left out.
ExpireWatched(i) ==
    /\ Live(i) /\ Watched(stage[i])
    /\ Report(i, ClassifyError(Wrapped(stage[i], {"net-timeout", "deadline"})),
              IF stage[i] = "resolve" THEN "local" ELSE "path")

\* A read that the caller has given up on runs into the deadline, too.
Expire(i) ==
    /\ Live(i)
    /\ Report(i, ClassifyError(Wrapped(stage[i], {"net-timeout"} \cup IF Watched(stage[i]) THEN {"deadline"} ELSE {})),
              IF stage[i] = "resolve" THEN "local" ELSE IF quit /\ ~Watched(stage[i]) THEN "caller" ELSE "path")

Interrupt(i) ==
    /\ Live(i) /\ quit /\ Watched(stage[i])
    /\ Report(i, ClassifyError(Wrapped(stage[i], {"canceled"})), "caller")

\* wg.Wait.
ReturnRun ==
    /\ runner = "running" /\ (\A i \in Index : stage[i] = "done") /\ runner' = "returned"
    /\ UNCHANGED <<stage, slots, results, fault, quit>>

CancelRun == runner = "running" /\ ~quit /\ quit' = TRUE /\ UNCHANGED <<runner, stage, slots, results, fault>>

Own(i) == Acquire(i) \/ Unqueue(i) \/ Interrupt(i) \/ Expire(i)

SelfTestNext ==
    \/ \E i \in Index : Own(i) \/ BadURL(i) \/ Advance(i) \/ PathFails(i) \/ LocalFails(i) \/ Misfit(i)
    \/ ReturnRun \/ CancelRun

\* The network may never answer; deadlines pass.
SelfTestFairness == (\A i \in Index : WF_selftest(Own(i))) /\ WF_selftest(ReturnRun)

SelfTestSpec == SelfTestInit /\ [][SelfTestNext]_selftest /\ SelfTestFairness

-----------------------------------------------------------------------------
(* Run: "concurrently, bounded by o.Concurrency", whatever is cancelled.        *)
BoundedFlight == Cardinality({i \in Index : stage[i] \in Underway}) <= Concurrency

(* Run: "one Result per probe", also of those that were still waiting.          *)
EveryProbeReported == runner = "returned" => \A i \in Index : results[i].class # "none"

(* ClassifyError, Blocked and Verdict: the strategy is only blamed when the path *)
(* did something to a probe. A WebSocket or STUN exchange that the caller gave   *)
(* up on is the exception: it ends with its deadline, like one that is dropped.  *)
BlameNeedsPath ==
    runner = "returned" /\ Verdict(Summarise(results)) = "strategy-fails" =>
        \E i \in Index : fault[i] = "path" \/ (fault[i] = "caller" /\ Probes[i].kind \in {"wss", "stun"})

(* All of these, and the type invariant.                                        *)
ProbesReported == SelfTestTypeOK /\ EveryProbeReported /\ BlameNeedsPath /\ BoundedFlight

(* Run: it returns, although no server answers and the caller waits for ever.   *)
RunEnds == runner = "running" ~> runner = "returned"
===============================================================================
