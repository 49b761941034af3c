----------------------------- MODULE PfReference -----------------------------
(***************************************************************************)
(* What netcfg promises about `pfctl -E` references, whoever takes them:   *)
(* at most one at a time is known to a process's memory alone, and only    *)
(* such a reference can be lost, by the death of that process. Once it is  *)
(* recorded on disk it stays accounted for until it is released.           *)
(***************************************************************************)
CONSTANT Token

VARIABLE status  \* per reference

Status == {"free", "held", "recorded", "lost"}

Init == status = [t \in Token |-> "free"]

Become(t, s) == status' = [status EXCEPT ![t] = s]

Take(t) ==
    /\ status[t] = "free"
    /\ \A u \in Token : status[u] # "held"
    /\ Become(t, "held")

Persist(t) == status[t] = "held" /\ Become(t, "recorded")

Release(t) == status[t] \in {"held", "recorded"} /\ Become(t, "free")

\* The holder died between `pfctl -E` and the first durable record.
Lose(t) == status[t] = "held" /\ Become(t, "lost")

Reboot == status' = [t \in Token |-> "free"]

Next == Reboot \/ \E t \in Token : Take(t) \/ Persist(t) \/ Release(t) \/ Lose(t)

Spec == Init /\ [][Next]_status
=============================================================================
