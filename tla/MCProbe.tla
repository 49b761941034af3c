------------------------------- MODULE MCProbe --------------------------------
(* The capability probe over every machine it tells apart, with one failing     *)
(* call, a panic, or a signal at any step.                                       *)
EXTENDS Probe

\* The goroutines are scheduled, every wait of a stage has a deadline, pfctl returns.
SpecProbe ==
    Init /\ [][Next]_probing /\ WF_probing(Main) /\ WF_probing(Cleanup) /\ WF_probing(SignalHandler) /\ WF_probing(ReaderEnds)
===============================================================================
