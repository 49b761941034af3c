----------------------------- MODULE Supervisor ------------------------------
(***************************************************************************)
(* The goroutines of one running daemon (cmd/zapretd/daemon.go) around its *)
(* datapath: supervise and session, the goroutine that runs tr.Start, the  *)
(* control commands, the pf drift watcher and the shutdown in Run.         *)
(*                                                                         *)
(* The desired state is d.enabled. The only ways to reach a datapath are   *)
(* d.tr and d.sessionCancel, which the session registers and every caller  *)
(* of cancelSession copies before it uses them. Using a copy that names a  *)
(* finished datapath does nothing, so a finished datapath is forgotten     *)
(* here, in the fields and in every copy.                                  *)
(*                                                                         *)
(* A transport is its lifecycle as DivertLifecycle shows it: Start loads   *)
(* rules, ends when cancelled or closed and undoes what it loaded; Close   *)
(* returns when that is done.                                              *)
(***************************************************************************)
EXTENDS Integers, FiniteSets

CONSTANTS
    Handler,    \* goroutines of ctl.Server that run one command each
    Command,    \* the commands they may run
    NumCands,   \* transports to try: 1 (explicit) or 2 (auto)
    Signals,    \* TRUE: the daemon may be told to exit
    MaxFails,   \* bound: how many times a build or a datapath fails
    MaxDrifts   \* bound: how many times something else wipes our rules

ASSUME ParamAssumption ==
    /\ Command \subseteq {"start", "stop", "switch", "reload"}
    /\ NumCands \in Nat \ {0}
    /\ Signals \in BOOLEAN /\ MaxFails \in Nat /\ MaxDrifts \in Nat
    /\ Handler \cap {"watch", "main"} = {}

Actor == Handler \cup {"watch", "main"}

VARIABLES
    enabled,    \* d.enabled
    wake,       \* d.wake holds a token
    down,       \* the context of Run is cancelled
    spc, cand,  \* supervise and session: where, and at which candidate
    dp,         \* the goroutine running tr.Start
    cancelled,  \* the session context is cancelled
    closedT,    \* the transport was told to close
    cancelReg,  \* d.sessionCancel names the current session
    running,    \* d.running, and d.tr names the current transport
    rules,      \* pf: the steering rules in our anchor; "stray" if a Reload
                \* loaded them after its datapath had flushed its own
    base,       \* PF.haveBase: Verify has a ruleset to compare with
    pc, cmd,    \* per actor: where, and what for
    hasTr,      \* actors whose copy of d.tr is the current transport
    hasCancel,  \* actors whose copy of d.sessionCancel is the current one
    fails, drifts

vars == <<enabled, wake, down, spc, cand, dp, cancelled, closedT, cancelReg,
          running, rules, base, pc, cmd, hasTr, hasCancel, fails, drifts>>

SupPc == {"top", "dozing", "asleep", "build", "launch", "probation", "drain", "await",
          "ended", "backoff", "exited"}
ActorPc == {"idle", "disable", "disableKick", "snapshot", "cancel", "close",
            "closeWait", "poll", "flush", "enable", "kick", "reload",
            "reloadTr", "reloadLoad", "restart", "join", "cleanup", "leave",
            "done", "exited"}

TypeOK ==
    /\ enabled \in BOOLEAN /\ wake \in BOOLEAN /\ down \in BOOLEAN
    /\ spc \in SupPc /\ cand \in 1 .. NumCands
    /\ dp \in {"none", "starting", "up", "stopping", "returned"}
    /\ cancelled \in BOOLEAN /\ closedT \in BOOLEAN
    /\ cancelReg \in BOOLEAN /\ running \in BOOLEAN
    /\ rules \in {"none", "loaded", "stray"} /\ base \in BOOLEAN
    /\ pc \in [Actor -> ActorPc]
    /\ cmd \in [Actor -> Command \cup {"none", "repair", "shutdown"}]
    /\ hasTr \subseteq Actor /\ hasCancel \subseteq Actor
    /\ fails \in 0 .. MaxFails /\ drifts \in 0 .. MaxDrifts

desired   == <<enabled, wake, down>>
super     == <<spc, cand>>
instance  == <<dp, cancelled, closedT, cancelReg, running>>
pf        == <<rules, base>>
actors    == <<pc, cmd>>
copies    == <<hasTr, hasCancel>>
budgets   == <<fails, drifts>>

\* setEnabled(true) has kicked the supervisor that is about to look at it.
Init ==
    /\ enabled = TRUE /\ wake = TRUE /\ down = FALSE
    /\ spc = "top" /\ cand = 1
    /\ dp = "none" /\ cancelled = FALSE /\ closedT = FALSE
    /\ cancelReg = FALSE /\ running = FALSE
    /\ rules = "none" /\ base = FALSE
    /\ pc = [a \in Actor |-> "idle"]
    /\ cmd = [a \in Actor |-> CASE a = "watch" -> "repair"
                                [] a = "main" -> "shutdown"
                                [] OTHER -> "none"]
    /\ hasTr = {} /\ hasCancel = {}
    /\ fails = 0 /\ drifts = 0

Alive == pc["main"] # "exited"

Fail == fails < MaxFails /\ fails' = fails + 1 /\ UNCHANGED drifts

-----------------------------------------------------------------------------
(* supervise                                                               *)

Decide ==
    /\ spc = "top"
    /\ spc' = IF down THEN "exited" ELSE IF enabled THEN "build" ELSE "dozing"
    /\ cand' = 1
    /\ UNCHANGED <<desired, instance, pf, actors, copies, budgets>>

\* isEnabled was false: on to the select.
Doze ==
    /\ spc = "dozing" /\ spc' = "asleep"
    /\ UNCHANGED <<desired, cand, instance, pf, actors, copies, budgets>>

\* Mutant of Sleep: the supervisor waits for a wake token only.
SleepDeaf ==
    /\ spc = "asleep"
    /\ wake /\ wake' = FALSE /\ spc' = "top"
    /\ UNCHANGED <<enabled, down, cand, instance, pf, actors, copies, budgets>>

Sleep ==
    /\ spc = "asleep"
    /\ \/ down /\ spc' = "exited" /\ UNCHANGED wake
       \/ wake /\ wake' = FALSE /\ spc' = "top"
    /\ UNCHANGED <<enabled, down, cand, instance, pf, actors, copies, budgets>>

SessionOver ==
    /\ spc = "ended"
    /\ spc' = IF down THEN "exited" ELSE IF enabled THEN "backoff" ELSE "top"
    /\ UNCHANGED <<desired, cand, instance, pf, actors, copies, budgets>>

\* Sleeps for the backoff interval, or until woken.
Backoff ==
    /\ spc = "backoff"
    /\ \/ down /\ spc' = "exited" /\ UNCHANGED wake
       \/ wake /\ wake' = FALSE /\ spc' = "top"
       \/ spc' = "top" /\ UNCHANGED wake
    /\ UNCHANGED <<enabled, down, cand, instance, pf, actors, copies, budgets>>

-----------------------------------------------------------------------------
(* session                                                                 *)

\* Mutant of NextCandidate: off by one at the last candidate.
NextCandidatePastEnd ==
    IF cand <= NumCands
    THEN spc' = "build" /\ cand' = cand + 1
    ELSE spc' = "ended" /\ UNCHANGED cand

NextCandidate ==
    IF cand < NumCands
    THEN spc' = "build" /\ cand' = cand + 1
    ELSE spc' = "ended" /\ UNCHANGED cand

\* The current datapath is over; every copy of a reference to it is dead.
Retire ==
    /\ dp' = "none" /\ cancelled' = FALSE /\ closedT' = FALSE
    /\ cancelReg' = FALSE /\ running' = FALSE
    /\ hasTr' = {} /\ hasCancel' = {}

Build ==
    /\ spc = "build"
    /\ \/ spc' = "launch" /\ UNCHANGED <<cand, budgets>>
       \/ Fail /\ NextCandidate
    /\ UNCHANGED <<desired, instance, pf, actors, copies>>

\* Mutant of Launch: the cancel function is registered by activate, later.
LaunchUnregistered ==
    /\ spc = "launch" /\ spc' = "probation"
    /\ dp' = "starting" /\ cancelled' = down
    /\ UNCHANGED <<closedT, cancelReg, running>>
    /\ UNCHANGED <<desired, cand, pf, actors, copies, budgets>>

\* Registers the cancel function and runs Start in a goroutine. The session
\* context is a child of the context of Run.
Launch ==
    /\ spc = "launch" /\ spc' = "probation"
    /\ dp' = "starting" /\ cancelled' = down /\ cancelReg' = TRUE
    /\ UNCHANGED <<closedT, running>>
    /\ UNCHANGED <<desired, cand, pf, actors, copies, budgets>>

\* The select after Start is launched: it returned ...
StartReturned ==
    /\ spc = "probation" /\ dp = "returned"
    /\ Retire /\ NextCandidate
    /\ UNCHANGED <<desired, pf, actors, budgets>>

\* ... or the session context is cancelled, and Start is waited for ...
StopSeen ==
    /\ spc = "probation" /\ cancelled
    /\ spc' = "drain"
    /\ UNCHANGED <<desired, cand, instance, pf, actors, copies, budgets>>

Drain ==
    /\ spc = "drain" /\ dp = "returned"
    /\ Retire /\ spc' = "ended"
    /\ UNCHANGED <<desired, cand, pf, actors, budgets>>

\* ... or 400 ms have passed and it counts as running.
Activate ==
    /\ spc = "probation" /\ spc' = "await"
    /\ running' = TRUE
    /\ UNCHANGED <<desired, cand, dp, cancelled, closedT, cancelReg, pf, actors,
                   copies, budgets>>

\* Mutant of Deactivate: d.running is left standing.
DeactivateHalf ==
    /\ spc = "await" /\ dp = "returned" /\ spc' = "ended"
    /\ dp' = "none" /\ cancelled' = FALSE /\ closedT' = FALSE /\ cancelReg' = FALSE
    /\ hasTr' = {} /\ hasCancel' = {}
    /\ UNCHANGED <<desired, cand, running, pf, actors, budgets>>

Deactivate ==
    /\ spc = "await" /\ dp = "returned"
    /\ Retire /\ spc' = "ended"
    /\ UNCHANGED <<desired, cand, pf, actors, budgets>>

-----------------------------------------------------------------------------
(* The goroutine that runs tr.Start.                                       *)

\* setup: the rules are loaded. A cancelled context does not stop setup.
Install ==
    /\ dp = "starting" /\ ~closedT
    /\ dp' = "up" /\ rules' = "loaded" /\ base' = TRUE
    /\ UNCHANGED <<desired, super, cancelled, closedT, cancelReg, running, actors,
                   copies, budgets>>

Abort ==
    /\ dp = "starting" /\ dp' = "returned"
    /\ \/ closedT /\ UNCHANGED budgets
       \/ Fail
    /\ UNCHANGED <<desired, super, cancelled, closedT, cancelReg, running, pf, actors,
                   copies>>

LeaveRun ==
    /\ dp = "up" /\ dp' = "stopping"
    /\ cancelled \/ closedT
    /\ UNCHANGED <<desired, super, cancelled, closedT, cancelReg, running, pf, actors,
                   copies, budgets>>

RunDies ==
    /\ dp = "up" /\ dp' = "stopping"
    /\ Fail
    /\ UNCHANGED <<desired, super, cancelled, closedT, cancelReg, running, pf, actors,
                   copies>>

Teardown ==
    /\ dp = "stopping" /\ dp' = "returned"
    /\ rules' = "none" /\ base' = FALSE
    /\ UNCHANGED <<desired, super, cancelled, closedT, cancelReg, running, actors,
                   copies, budgets>>

-----------------------------------------------------------------------------
(* cancelSession, and the commands that use it.                            *)

Goto(a, label) == pc' = [pc EXCEPT ![a] = label]

\* Where cancelSession returns to.
Resume(a) == CASE cmd[a] \in {"stop", "switch"} -> "poll"
               [] cmd[a] = "shutdown" -> "join"
               [] OTHER -> "kick"

\* A control command arrives.
Receive(h) ==
    /\ pc[h] = "idle"
    /\ \E c \in Command :
         /\ cmd' = [cmd EXCEPT ![h] = c]
         /\ Goto(h, CASE c = "start" -> "enable" [] c = "reload" -> "reload"
                       [] OTHER -> "disable")
    /\ UNCHANGED <<desired, super, instance, pf, copies, budgets>>

\* setEnabled(false); the supervisor is kicked if that changed anything.
Disable(a) ==
    /\ pc[a] = "disable"
    /\ enabled' = FALSE
    /\ Goto(a, IF enabled THEN "disableKick" ELSE "snapshot")
    /\ UNCHANGED <<wake, down, super, instance, pf, cmd, copies, budgets>>

\* Mutant of Kick: the token is sent only to a supervisor that is waiting.
KickUnbuffered(a) ==
    /\ pc[a] \in {"disableKick", "kick"}
    /\ wake' = (spc \in {"asleep", "backoff"})
    /\ Goto(a, IF pc[a] = "disableKick" THEN "snapshot"
               ELSE IF a = "watch" THEN "idle" ELSE "done")
    /\ UNCHANGED <<enabled, down, super, instance, pf, cmd, copies, budgets>>

Kick(a) ==
    /\ pc[a] \in {"disableKick", "kick"}
    /\ wake' = TRUE
    /\ Goto(a, IF pc[a] = "disableKick" THEN "snapshot"
               ELSE IF a = "watch" THEN "idle" ELSE "done")
    /\ UNCHANGED <<enabled, down, super, instance, pf, cmd, copies, budgets>>

\* cancelSession copies d.tr and d.sessionCancel under d.mu ...
Snapshot(a) ==
    /\ pc[a] = "snapshot"
    /\ hasTr' = IF running THEN hasTr \cup {a} ELSE hasTr \ {a}
    /\ hasCancel' = IF cancelReg THEN hasCancel \cup {a} ELSE hasCancel \ {a}
    /\ Goto(a, "cancel")
    /\ UNCHANGED <<desired, super, instance, pf, cmd, budgets>>

\* ... cancels the context, then closes the transport, both from the copies.
Cancel(a) ==
    /\ pc[a] = "cancel"
    /\ cancelled' = (cancelled \/ a \in hasCancel)
    /\ hasCancel' = hasCancel \ {a}
    /\ Goto(a, IF a \in hasTr THEN "close" ELSE Resume(a))
    /\ UNCHANGED <<desired, super, dp, closedT, cancelReg, running, pf, cmd, hasTr,
                   budgets>>

Close(a) ==
    /\ pc[a] = "close"
    /\ closedT' = (closedT \/ a \in hasTr)
    /\ Goto(a, "closeWait")
    /\ UNCHANGED <<desired, super, dp, cancelled, cancelReg, running, pf, cmd, copies,
                   budgets>>

CloseReturns(a) ==
    /\ pc[a] = "closeWait"
    /\ a \in hasTr => dp = "returned"
    /\ hasTr' = hasTr \ {a}
    /\ Goto(a, Resume(a))
    /\ UNCHANGED <<desired, super, instance, pf, cmd, hasCancel, budgets>>

\* Stop polls d.running until it is false or datapathStopWait has passed.
Poll(h) ==
    /\ pc[h] = "poll"
    /\ Goto(h, IF running THEN "done" ELSE "flush")
    /\ UNCHANGED <<desired, super, instance, pf, cmd, copies, budgets>>

\* Stop's own FlushRules, through the PF it shares with the transport.
Flush(h) ==
    /\ pc[h] = "flush"
    /\ rules' = "none" /\ base' = FALSE
    /\ Goto(h, IF cmd[h] = "switch" THEN "enable" ELSE "done")
    /\ UNCHANGED <<desired, super, instance, cmd, copies, budgets>>

\* Start: setEnabled(true), unless the datapath is up already. It then waits
\* for the datapath, changing nothing.
Enable(h) ==
    /\ pc[h] = "enable"
    /\ enabled' = TRUE
    /\ Goto(h, IF enabled THEN "done" ELSE "kick")
    /\ UNCHANGED <<wake, down, super, instance, pf, cmd, copies, budgets>>

\* Reload with another port window: tr.Reload loads the new rules into
\* whatever transport d.tr named, then the datapath is restarted.
ReloadCopy(h) ==
    /\ pc[h] = "reload"
    /\ hasTr' = IF running THEN hasTr \cup {h} ELSE hasTr
    /\ Goto(h, IF running THEN "reloadTr" ELSE "restart")
    /\ UNCHANGED <<desired, super, instance, pf, cmd, hasCancel, budgets>>

ReloadTr(h) ==
    /\ pc[h] = "reloadTr"
    /\ Goto(h, IF h \in hasTr /\ dp = "up" THEN "reloadLoad" ELSE "restart")
    /\ UNCHANGED <<desired, super, instance, pf, cmd, copies, budgets>>

ReloadLoad(h) ==
    /\ pc[h] = "reloadLoad"
    /\ rules' = IF dp \in {"up", "stopping"} THEN "loaded" ELSE "stray"
    /\ base' = TRUE
    /\ Goto(h, "restart")
    /\ UNCHANGED <<desired, super, instance, cmd, copies, budgets>>

\* Mutant of Restart: the supervisor is woken, the datapath is left running.
RestartByKick(a) ==
    /\ pc[a] = "restart"
    /\ Goto(a, IF enabled THEN "kick" ELSE IF a = "watch" THEN "idle" ELSE "done")
    /\ UNCHANGED <<desired, super, instance, pf, cmd, copies, budgets>>

Restart(a) ==
    /\ pc[a] = "restart"
    /\ Goto(a, IF enabled THEN "snapshot" ELSE IF a = "watch" THEN "idle" ELSE "done")
    /\ UNCHANGED <<desired, super, instance, pf, cmd, copies, budgets>>

-----------------------------------------------------------------------------
(* watchPF, the shutdown of Run, and the world outside.                    *)

\* Verify finds the anchor empty although a ruleset was loaded.
WatchPF ==
    /\ pc["watch"] = "idle"
    /\ \/ down /\ Goto("watch", "done")
       \/ /\ enabled /\ running /\ base /\ rules = "none"
          /\ Goto("watch", "restart")
    /\ UNCHANGED <<desired, super, instance, pf, cmd, copies, budgets>>

\* SIGTERM. Every context is a child of the one of Run.
Terminate ==
    /\ Signals /\ pc["main"] = "idle"
    /\ down' = TRUE /\ cancelled' = (dp # "none")
    /\ Goto("main", "disable")
    /\ UNCHANGED <<enabled, wake, super, dp, closedT, cancelReg, running, pf, cmd,
                   copies, budgets>>

\* Mutant of Join: only the watcher is waited for.
JoinWatcherOnly ==
    /\ pc["main"] = "join" /\ pc["watch"] = "done"
    /\ Goto("main", "cleanup")
    /\ UNCHANGED <<desired, super, instance, pf, cmd, copies, budgets>>

\* srv.Close does not wait for running commands: they answer at once that the
\* daemon is shutting down, and go on.
Join ==
    /\ pc["main"] = "join" /\ spc = "exited" /\ pc["watch"] = "done"
    /\ Goto("main", "cleanup")
    /\ UNCHANGED <<desired, super, instance, pf, cmd, copies, budgets>>

Cleanup ==
    /\ pc["main"] = "cleanup"
    /\ rules' = "none" /\ base' = FALSE
    /\ Goto("main", "leave")
    /\ UNCHANGED <<desired, super, instance, cmd, copies, budgets>>

\* cleanup still releases the reference, clears the journal and closes it.
Exit ==
    /\ pc["main"] = "leave"
    /\ Goto("main", "exited")
    /\ UNCHANGED <<desired, super, instance, pf, cmd, copies, budgets>>

\* A VPN or an OS update reloads /etc/pf.conf.
ForeignFlush ==
    /\ drifts < MaxDrifts /\ drifts' = drifts + 1
    /\ rules # "none" /\ rules' = "none"
    /\ UNCHANGED <<desired, super, instance, base, actors, copies, fails>>

-----------------------------------------------------------------------------
Supervise ==
    \/ Decide \/ Doze \/ Sleep \/ SessionOver \/ Backoff
    \/ Build \/ Launch \/ StartReturned \/ StopSeen \/ Drain \/ Activate \/ Deactivate

Datapath == Install \/ LeaveRun \/ Teardown

CancelStep(a) ==
    \/ Disable(a) \/ Kick(a) \/ Snapshot(a) \/ Cancel(a) \/ Close(a)
    \/ CloseReturns(a) \/ Restart(a)

Work(h) ==
    \/ CancelStep(h) \/ Poll(h) \/ Flush(h) \/ Enable(h)
    \/ ReloadCopy(h) \/ ReloadTr(h) \/ ReloadLoad(h)

Watch == WatchPF \/ CancelStep("watch")

Shutdown == CancelStep("main") \/ Join \/ Cleanup \/ Exit

Next ==
    /\ Alive
    /\ \/ Supervise \/ Datapath \/ Abort \/ RunDies
       \/ \E h \in Handler : Receive(h) \/ Work(h)
       \/ Watch \/ Terminate \/ Shutdown \/ ForeignFlush

Spec == Init /\ [][Next]_vars

(* Goroutines are scheduled, and everything they wait for is bounded by a  *)
(* timer of the code. Commands, signals, failures and foreign reloads of   *)
(* pf do not have to happen.                                               *)
Fairness ==
    /\ WF_vars(Alive /\ Supervise)
    /\ WF_vars(Alive /\ (Datapath \/ Abort))
    /\ \A h \in Handler : WF_vars(Alive /\ Work(h))
    /\ WF_vars(Alive /\ Watch)
    /\ WF_vars(Alive /\ Shutdown)

FairSpec == Spec /\ Fairness

-----------------------------------------------------------------------------
(* A datapath that holds rules, or is about to, can always be told to stop: *)
(* its cancel function is registered, or it has been used.                  *)
Stoppable == dp \in {"starting", "up"} => cancelReg \/ cancelled

(* The process leaves no datapath running and no rules behind: Run waits   *)
(* for the supervisor, and the supervisor starts nothing after the signal,  *)
(* whatever the commands still in flight do to d.enabled. The one exception *)
(* is a Reload in flight, which srv.Close does not wait for.               *)
ExitClean == pc["main"] = "exited" => rules # "loaded" /\ dp = "none"

(* A start request is not lost: whenever the supervisor sleeps although the *)
(* datapath is wanted, a wake token is there or on its way.                 *)
NoLostWakeup ==
    enabled /\ spc \in {"dozing", "asleep"} =>
        wake \/ \E a \in Actor : pc[a] \in {"kick", "disableKick"}

(* A wanted datapath comes up, unless it is stopped or the daemon ends.     *)
EnabledComesUp == enabled ~> (running \/ ~enabled \/ down)

(* A stop (or a restart) that finds a running datapath takes it down.      *)
StopTakesDown == \A a \in Actor : pc[a] = "snapshot" /\ running ~> ~running

(* The daemon exits after a signal.                                        *)
ShutdownCompletes == down ~> pc["main"] = "exited"

(* A stopped datapath stays stopped, even if it was only being built when   *)
(* the stop came.                                                          *)
StopIsFinal == ~enabled ~> (enabled \/ (~running /\ dp \in {"none", "returned"}))

(* Rules lost to another program are noticed and the datapath restarted.    *)
DriftRepaired ==
    running /\ base /\ rules = "none" ~> (rules # "none" \/ ~base \/ ~running \/ ~enabled)

(* So is every loss of the rules of a running datapath: without that "the   *)
(* bypass would just quietly stop working" (watchPF).                      *)
LossNoticed ==
    running /\ rules = "none" ~> (rules # "none" \/ ~running \/ ~enabled)

(* What a command or a signal asks for happens: a wanted datapath comes up, a *)
(* stopped one goes down, and the daemon exits.                               *)
CommandsTakeEffect == EnabledComesUp /\ StopTakesDown /\ ShutdownCompletes
=============================================================================
