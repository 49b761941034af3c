------------------------------- MODULE Measure --------------------------------
(* What the probes of internal/diag tell: the class of an error, the score of a  *)
(* strategy, and which of two scores is the better one.                          *)
(* A result is [control, ok, class, time]; `time' is the first byte or, for a    *)
(* probe that ends with the handshake, the handshake; 0 when there was neither.  *)
LOCAL INSTANCE Integers
LOCAL INSTANCE Sequences
LOCAL INSTANCE FiniteSets

Count(n, P(_)) == Cardinality({i \in 1 .. n : P(i)})

\* An error nests others: it is the set of what errors.As and errors.Is find in it.
\* Earlier entries win.
ErrorOrder == <<
    <<"not-found", "dns-nxdomain">>, <<"dns", "dns">>,
    <<"record-header", "tls-handshake">>, <<"certificate", "tls-cert">>, <<"alert", "tls-alert">>,
    <<"canceled", "canceled">>, <<"deadline", "timeout">>,
    <<"reset", "rst">>, <<"refused", "refused">>, <<"no-route", "unreachable">>, <<"timed-out", "timeout">>,
    <<"net-timeout", "timeout">>, <<"eof", "eof">> >>

\* Mutant of ClassifyError: a timeout is looked for first.
TimeoutsFirst(e) ==
    IF e \cap {"deadline", "timed-out", "net-timeout"} # {} THEN "timeout"
    ELSE LET hits == {i \in DOMAIN ErrorOrder : ErrorOrder[i][1] \in e}
         IN IF hits = {} THEN "other" ELSE ErrorOrder[CHOOSE i \in hits : \A j \in hits : i <= j][2]

ClassifyError(e) ==
    LET hits == {i \in DOMAIN ErrorOrder : ErrorOrder[i][1] \in e}
    IN IF hits = {} THEN "other" ELSE ErrorOrder[CHOOSE i \in hits : \A j \in hits : i <= j][2]

\* The classes that DPI produces.
Blocked(class) == class \in {"timeout", "rst", "tls-handshake", "tls-alert", "eof"}

\* The lower middle of the times of the results in I; 0 if there is none.
Median(rs, I) ==
    LET half == (Cardinality(I) + 1) \div 2
        middle == {i \in I : /\ Cardinality({j \in I : rs[j].time < rs[i].time}) < half
                             /\ half <= Cardinality({j \in I : rs[j].time <= rs[i].time})}
    IN IF middle = {} THEN 0 ELSE rs[CHOOSE i \in middle : TRUE].time

MedianOf(rs, I) == Median(rs, {i \in I : rs[i].ok /\ rs[i].time > 0})

\* Summary of a whole run.
Summarise(rs) ==
    LET n == Len(rs) IN
    [total |-> n,
     failed |-> Count(n, LAMBDA i : ~rs[i].ok),
     controls |-> Count(n, LAMBDA i : rs[i].control),
     controlsPassed |-> Count(n, LAMBDA i : rs[i].control /\ rs[i].ok),
     blocked |-> Count(n, LAMBDA i : ~rs[i].ok /\ Blocked(rs[i].class)),
     median |-> MedianOf(rs, 1 .. n)]

Verdict(s) ==
    CASE s.total = 0 -> "nothing-ran"
      [] s.total > 0 /\ s.controls > 0 /\ s.controlsPassed = 0 -> "no-internet"
      [] s.failed = 0 /\ s.total > 0 /\ ~(s.controls > 0 /\ s.controlsPassed = 0) -> "all-passed"
      [] s.failed > 0 /\ s.blocked > 0 /\ ~(s.controls > 0 /\ s.controlsPassed = 0) -> "strategy-fails"
      [] OTHER -> "local-cause"

\* Score of a strategy: the controls only tell whether the measurement counts.
ScoreResults(rs) ==
    LET n == Len(rs) IN
    [targets |-> Count(n, LAMBDA i : ~rs[i].control),
     passed |-> Count(n, LAMBDA i : ~rs[i].control /\ rs[i].ok),
     blocked |-> Count(n, LAMBDA i : ~rs[i].control /\ ~rs[i].ok /\ Blocked(rs[i].class)),
     controls |-> Count(n, LAMBDA i : rs[i].control),
     controlsPassed |-> Count(n, LAMBDA i : rs[i].control /\ rs[i].ok),
     median |-> MedianOf(rs, {i \in 1 .. n : ~rs[i].control})]

Valid(s) == s.controls = 0 \/ s.controlsPassed > 0

Perfect(s) == Valid(s) /\ s.targets > 0 /\ s.passed = s.targets

\* A median of zero, which is none, is the slowest of all.
Faster(m, n) == m # n /\ m # 0 /\ (n = 0 \/ m < n)

\* Mutant of Better: fewer signatures of DPI count more than targets passed.
BetterUnblocked(s, t) ==
    IF Valid(s) # Valid(t) THEN Valid(s)
    ELSE IF s.blocked # t.blocked THEN s.blocked < t.blocked
    ELSE IF s.passed # t.passed THEN s.passed > t.passed ELSE Faster(s.median, t.median)

Better(s, t) ==
    IF Valid(s) # Valid(t) THEN Valid(s)
    ELSE IF s.passed # t.passed THEN s.passed > t.passed
    ELSE IF s.blocked # t.blocked THEN s.blocked < t.blocked ELSE Faster(s.median, t.median)
===============================================================================
