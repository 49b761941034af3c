------------------------------- MODULE Autopick -------------------------------
(* diag.Pick: the strategies are activated one after another, measured and       *)
(* ranked; the caller may give up at any moment, and the daemon may carry out an *)
(* activation whose answer is lost. A strategy is a number, in the order of      *)
(* names; None is the empty name.                                                *)
EXTENDS Naturals, Sequences, FiniteSets, Measure

CONSTANTS
    Loaded,         \* the strategies, in the order of the menu
    Wanted,         \* PickOpts.Order, without repetitions
    MaxCandidates,  \* 0 for all
    Missing,        \* for each strategy, how many of its operators the transport lacks
    SkipUnsupported, NoEarlyStop, Rounds,
    Other,          \* a strategy that is no candidate
    Controls, Targets,   \* how many probes of either sort
    Answers         \* results a target may give: [ok, class, time]

None == 0
Name == {Loaded[i] : i \in DOMAIN Loaded}

\* applyOrder, and the cut of Pick.
Candidates ==
    LET arranged == SelectSeq(Wanted, LAMBDA s : s \in Name)
                    \o SelectSeq(Loaded, LAMBDA s : \A i \in DOMAIN Wanted : Wanted[i] # s)
    IN SubSeq(arranged, 1, IF MaxCandidates > 0 /\ Len(arranged) > MaxCandidates THEN MaxCandidates ELSE Len(arranged))

\* What is tried is named, each strategy once; an answer is ok or has a class.
ASSUME AutopickAssumption ==
    /\ Name \subseteq Nat \ {None, Other} /\ Candidates # <<>> /\ Missing \in [Name -> Nat]
    /\ Candidates \in Seq(Name) /\ \A i, j \in DOMAIN Candidates : Candidates[i] = Candidates[j] => i = j
    /\ Rounds \in Nat \ {0} /\ Controls \in Nat /\ Targets \in Nat /\ Other \in Nat \ {None}
    /\ Loaded[1] \in Name
    /\ \A a \in Answers : a.ok \in BOOLEAN /\ (a.ok <=> a.class = "ok") /\ a.time \in Nat

VARIABLES
    ctx,            \* the context is done
    active,         \* the strategy the daemon runs
    ppc, n, round,  \* where Pick is: the candidate and the round
    original, activated, restored, best, dry,      \* PickResult and the local best
    sofar, alive,   \* results of this candidate; its controls passed in every round
    score, measured, breaks,    \* Candidate: Score, no Skipped, BreaksTraffic
    mishap,         \* the daemon failed to go back or to the winner, or an answer was lost
    outcome         \* what Pick returned: "none" "nil" "error"

autopick == <<ctx, active, ppc, n, round, original, activated, restored, best, dry, sofar, alive,
              score, measured, breaks, mishap, outcome>>

Zero == ScoreResults(<<>>)

AutopickTypeOK ==
    /\ ctx \in BOOLEAN /\ {active, original} \subseteq Name \cup {None, Other} /\ dry \in BOOLEAN
    /\ ppc \in {"begin", "next", "settle", "measure", "judge", "recheck", "finish", "returned"}
    /\ n \in 1 .. Len(Candidates) + 1 /\ round \in 1 .. Rounds + 1
    /\ activated \in Name \cup {None, Other} /\ restored \in BOOLEAN /\ best \in Name \cup {None}
    /\ Len(sofar) <= Rounds * (Controls + Targets) /\ alive \in BOOLEAN
    /\ DOMAIN score = Name /\ measured \subseteq Name /\ breaks \subseteq Name \ measured
    /\ mishap \in BOOLEAN /\ outcome \in {"none", "nil", "error"}

AutopickInit ==
    /\ ctx = FALSE /\ active \in {None, Other, Loaded[1]} /\ ppc = "begin" /\ n = 1 /\ round = 1
    /\ original = None /\ activated = None /\ restored = FALSE /\ best = None /\ dry = FALSE
    /\ sofar = <<>> /\ alive = TRUE /\ score = [s \in Name |-> Zero] /\ measured = {} /\ breaks = {}
    /\ mishap = FALSE /\ outcome = "none"

c == Candidates[n]

-----------------------------------------------------------------------------
\* Client.Activate: the daemon does it, refuses, or does it and the answer is lost.
\* A call whose context is done does not reach the daemon.
Use(live) == IF live THEN {"done", "failed", "lost"} ELSE {"failed"}

Effect(name, out) == active' = IF out = "failed" THEN active ELSE name

Return(what) == ppc' = "returned" /\ outcome' = what

\* Mutant of Immune: restoring uses the context that is done.
NotImmune == ~ctx

\* The context of restore: cancelling Pick does not cancel it.
Immune == TRUE

\* restore: nothing to do if nothing was running, or if it runs already.
Restore ==
    IF original = None \/ original = activated THEN UNCHANGED <<active, activated, restored, mishap>>
    ELSE \E out \in Use(Immune) :
            /\ Effect(original, out) /\ mishap' = (mishap \/ (Immune /\ out # "done"))
            /\ activated' = (IF out = "done" THEN original ELSE activated)
            /\ restored' = (restored \/ out = "done")

\* A dry run activates nothing: the best is the first that is fully supported.
DryRun ==
    /\ ppc = "begin" /\ dry' = TRUE /\ Return("nil")
    /\ LET fit == {s \in Name : Missing[s] = 0 /\ \E i \in DOMAIN Candidates : Candidates[i] = s}
       IN \/ fit = {} /\ best' = None
          \/ best' \in fit /\ \A s \in fit : best' <= s
    /\ UNCHANGED <<ctx, active, n, round, original, activated, restored, sofar, alive, score, measured, breaks, mishap>>

\* The running strategy is read up front; if that fails there is none to restore.
BeginPick ==
    /\ ppc = "begin" /\ ppc' = "next" /\ original' \in {active, None}
    /\ UNCHANGED <<ctx, active, n, round, activated, restored, best, dry, sofar, alive, score, measured, breaks,
                   mishap, outcome>>

\* Cancelled before a candidate, while it settles, or between two rounds.
StopSweep ==
    /\ ctx /\ (ppc \in {"settle", "measure"} \/ (ppc = "next" /\ n <= Len(Candidates)))
    /\ Restore /\ Return("error")
    /\ UNCHANGED <<ctx, n, round, original, best, dry, sofar, alive, score, measured, breaks>>

SkipCandidate ==
    /\ ppc = "next" /\ n <= Len(Candidates) /\ ~ctx /\ Missing[c] > 0 /\ SkipUnsupported /\ n' = n + 1
    /\ UNCHANGED <<ctx, active, ppc, round, original, activated, restored, best, dry, sofar, alive, score, measured,
                   breaks, mishap, outcome>>

TryCandidate ==
    /\ ppc = "next" /\ n <= Len(Candidates) /\ ~ctx /\ ~(Missing[c] > 0 /\ SkipUnsupported)
    /\ \E out \in Use(TRUE) :
        /\ Effect(c, out) /\ mishap' = (mishap \/ out = "lost")
        /\ ppc' = (IF out = "done" THEN "settle" ELSE "next")
        /\ n' = (IF out = "done" THEN n ELSE n + 1)
        /\ activated' = (IF out = "done" THEN c ELSE activated)
    /\ round' = 1 /\ sofar' = <<>> /\ alive' = TRUE
    /\ UNCHANGED <<ctx, original, restored, best, dry, score, measured, breaks, outcome>>

Settle ==
    /\ ppc = "settle" /\ ~ctx /\ ppc' = "measure"
    /\ UNCHANGED <<ctx, active, n, round, original, activated, restored, best, dry, sofar, alive, score, measured,
                   breaks, mishap, outcome>>

\* What one Run may return; when the caller gives up meanwhile, some are cancelled.
Runs(gaveUp) ==
    LET late == IF gaveUp THEN {[ok |-> FALSE, class |-> "canceled", time |-> 0]} ELSE {}
        controls == {[ok |-> TRUE, class |-> "ok", time |-> 1], [ok |-> FALSE, class |-> "timeout", time |-> 0]} \cup late
        Result(a, isControl) == [control |-> isControl, ok |-> a.ok, class |-> a.class, time |-> a.time]
    IN {[i \in 1 .. Controls + Targets |-> IF i <= Controls THEN Result(x[i], TRUE) ELSE Result(y[i - Controls], FALSE)] :
          x \in [1 .. Controls -> controls], y \in [1 .. Targets -> Answers \cup late]}

\* One round. Cancelling during Run is no error: the results tell.
MeasureRound ==
    /\ ppc = "measure" /\ ~ctx /\ ctx' \in BOOLEAN
    /\ \E r \in Runs(ctx') : sofar' = sofar \o r /\ alive' = (alive /\ Valid(ScoreResults(r)))
    /\ round' = round + 1 /\ ppc' = (IF round < Rounds THEN "measure" ELSE "judge")
    /\ UNCHANGED <<active, n, original, activated, restored, best, dry, score, measured, breaks, mishap, outcome>>

\* The score of the candidate: all targets of all rounds, controls alive in each.
Measurement ==
    LET s == ScoreResults(sofar) IN IF alive THEN s ELSE [s EXCEPT !.controlsPassed = 0]

Beats(s) == best = None \/ Better(s, score[best])

Judge ==
    /\ ppc = "judge" /\ Valid(Measurement)
    /\ score' = [score EXCEPT ![c] = Measurement] /\ measured' = measured \cup {c}
    /\ best' = IF Beats(Measurement) THEN c ELSE best
    /\ ppc' = (IF Perfect(Measurement) /\ ~NoEarlyStop THEN "finish" ELSE "next")
    /\ n' = n + 1 /\ sofar' = <<>> /\ alive' = TRUE
    /\ UNCHANGED <<ctx, active, round, original, activated, restored, dry, breaks, mishap, outcome>>

\* Mutant of Suspect: that the original is back is not noted.
SuspectUnnoted ==
    /\ ppc = "judge" /\ ~Valid(Measurement) /\ score' = [score EXCEPT ![c] = Measurement]
    /\ IF original = None \/ original = c THEN ppc' = "next" /\ n' = n + 1 /\ UNCHANGED <<active, mishap>>
       ELSE \E out \in Use(~ctx) :
                /\ Effect(original, out) /\ mishap' = (mishap \/ out = "lost")
                /\ ppc' = (IF out = "done" THEN "recheck" ELSE "next") /\ n' = IF out = "done" THEN n ELSE n + 1
    /\ sofar' = <<>> /\ alive' = TRUE
    /\ UNCHANGED <<ctx, round, original, activated, restored, best, dry, measured, breaks, outcome>>

\* The controls failed: the original comes back, to tell the strategy from the uplink.
Suspect ==
    /\ ppc = "judge" /\ ~Valid(Measurement) /\ score' = [score EXCEPT ![c] = Measurement]
    /\ IF original = None \/ original = c
       THEN ppc' = "next" /\ n' = n + 1 /\ UNCHANGED <<active, activated, restored, mishap>>
       ELSE \E out \in Use(~ctx) :
                /\ Effect(original, out) /\ mishap' = (mishap \/ out = "lost")
                /\ ppc' = (IF out = "done" THEN "recheck" ELSE "next") /\ n' = (IF out = "done" THEN n ELSE n + 1)
                /\ activated' = (IF out = "done" THEN original ELSE activated)
                /\ restored' = (restored \/ out = "done")
    /\ sofar' = <<>> /\ alive' = TRUE
    /\ UNCHANGED <<ctx, round, original, best, dry, measured, breaks, outcome>>

\* Mutant of Recheck: a candidate that broke the controls has another try.
RecheckAndRetry ==
    /\ ppc = "recheck" /\ ppc' = "next"
    /\ UNCHANGED <<ctx, active, n, round, original, activated, restored, best, dry, sofar, alive, score, measured,
                   breaks, mishap, outcome>>

\* controlsPass: all of them, in a Run that the context lets begin.
Recheck ==
    /\ ppc = "recheck" /\ ppc' = "next" /\ n' = n + 1
    /\ \E recovered \in (IF ctx THEN {FALSE} ELSE BOOLEAN) : breaks' = IF recovered THEN breaks \cup {c} ELSE breaks
    /\ UNCHANGED <<ctx, active, round, original, activated, restored, best, dry, sofar, alive, score, measured,
                   mishap, outcome>>

\* finishPick.
Best == IF dry \/ (best # None /\ score[best].passed > 0) THEN best ELSE None

\* Mutant of Finish: the last candidate stays.
FinishOnLast ==
    /\ ppc = "finish" \/ (ppc = "next" /\ n > Len(Candidates))
    /\ Return("nil")
    /\ IF Best = None THEN Restore ELSE UNCHANGED <<active, activated, restored, mishap>>
    /\ UNCHANGED <<ctx, n, round, original, best, dry, sofar, alive, score, measured, breaks>>

\* The winner stays, or what was running before if no target passed.
Finish ==
    /\ ppc = "finish" \/ (ppc = "next" /\ n > Len(Candidates))
    /\ Return("nil")
    /\ IF Best = None THEN Restore
       ELSE IF activated = Best THEN UNCHANGED <<active, activated, restored, mishap>>
       ELSE \E out \in Use(~ctx) :
                /\ Effect(Best, out) /\ mishap' = (mishap \/ (~ctx /\ out # "done"))
                /\ activated' = (IF out = "done" THEN Best ELSE activated) /\ UNCHANGED restored
    /\ UNCHANGED <<ctx, n, round, original, best, dry, sofar, alive, score, measured, breaks>>

\* The user interrupts zaprctl.
GiveUpPick ==
    /\ ppc \notin {"begin", "returned"} /\ ~ctx /\ ctx' = TRUE
    /\ UNCHANGED <<active, ppc, n, round, original, activated, restored, best, dry, sofar, alive, score, measured,
                   breaks, mishap, outcome>>

PickStep ==
    \/ BeginPick \/ StopSweep \/ SkipCandidate \/ TryCandidate \/ Settle \/ MeasureRound \/ Judge \/ Suspect
    \/ Recheck \/ Finish

AutopickNext == DryRun \/ PickStep \/ GiveUpPick

\* Activations, rounds and waits are bounded in time.
AutopickFairness == WF_autopick(PickStep)

AutopickSpec == AutopickInit /\ [][AutopickNext]_autopick /\ AutopickFairness

-----------------------------------------------------------------------------
\* rankCandidates: the measured ones first, by score and then by name.
Outranks(s, t) ==
    IF (s \in measured) # (t \in measured) THEN s \in measured
    ELSE IF s \in measured /\ Better(score[s], score[t]) THEN TRUE
    ELSE IF s \in measured /\ Better(score[t], score[s]) THEN FALSE ELSE s < t

\* The first row of the table.
Heads(s) == \A t \in Name \ {s} : (\E i \in DOMAIN Candidates : Candidates[i] = t) => Outranks(s, t)

(* Pick and rankCandidates: what was reported as the best heads the table, or    *)
(* ties with what does; no measured strategy let more targets through.           *)
BestIsBest ==
    ppc = "returned" /\ ~dry =>
        /\ \A s \in Name : Best # None /\ Heads(s) =>
                s \in measured /\ ~Better(score[s], score[Best]) /\ ~Better(score[Best], score[s])
        /\ \A s \in measured : score[s].passed <= (IF Best = None THEN 0 ELSE score[Best].passed)

(* PickResult: "Activated is the strategy left running when Pick returned",     *)
(* unless an answer of the daemon was lost.                                     *)
ActivatedIsRunning ==
    ppc = "returned" /\ activated # None /\ ~mishap => active = activated

(* Pick: a call that was not cancelled leaves the winner running, and without   *)
(* a winner what was running before.                                            *)
LeftOnBest ==
    ppc = "returned" /\ ~dry /\ outcome = "nil" /\ ~ctx /\ ~mishap /\ (Best # None \/ original # None) =>
        active = IF Best # None THEN Best ELSE original

(* Pick: a call that returns because it was cancelled has put back what ran.    *)
CancelledRestores ==
    ppc = "returned" /\ outcome = "error" /\ original # None /\ ~mishap => active = original

(* All of these, and the type invariant.                                        *)
PickLeaves == AutopickTypeOK /\ LeftOnBest /\ CancelledRestores /\ ActivatedIsRunning /\ BestIsBest

(* Pick returns.                                                                *)
PickEnds == ppc = "next" ~> ppc = "returned"

(* Pick: "the strategy that was active before Pick started is captured up front *)
(* and restored on context cancellation" (autopick.go), or at least a winner    *)
(* stays.                                                                       *)
NotLeftHalfTested ==
    ppc = "returned" /\ ctx /\ original # None /\ ~mishap => active \in {original, Best}
===============================================================================
