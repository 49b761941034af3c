--------------------------------- MODULE Vpn ----------------------------------
(* Stopping and starting VPN software (internal/vpn, and Daemon.VPN, which runs  *)
(* it for the `vpn' command), one call after another. The machine around it is   *)
(* launchd's jobs, the processes, and which of them holds a tunnel default       *)
(* route. A job and the process it keeps have one name.                          *)
EXTENDS Naturals

CONSTANTS
    NumJobs,    \* launchd jobs of known VPN software, in the order of their labels
    App,        \* the process of its application, which has no job
    KeepAlive,  \* jobs that launchd starts again when their process dies
    MaxCalls    \* bound: calls of the command

Job == 1 .. NumJobs
Proc == Job \cup {App}

ASSUME VpnAssumption == NumJobs \in Nat /\ App \notin Job /\ KeepAlive \subseteq Job /\ MaxCalls \in Nat

VARIABLES
    loaded, up,   \* jobs launchd has, processes that run
    holders,      \* processes that hold a tunnel default route while they run
    alien,        \* another program holds one
    file,         \* stoppedState on disk: the jobs to bring back
    vpc, job,     \* where Stop or Start is, and at which job
    force,        \* StopOpts.Force
    procs,        \* Report: the process ids that were detected
    took,         \* stoppedState in memory, or what Start has read
    seen,         \* what the last look at the default routes saw, kept in StopResult
    unloaded,     \* jobs that were loaded until this call removed them
    blind,        \* the route table could not be read at some look
    owed,         \* jobs that a Stop unloaded and nothing has loaded since
    result, calls,
    spoiled        \* a crash, or a record that could not be written

machine == <<loaded, up, holders, alien>>
vpn == <<machine, file, vpc, job, force, procs, took, seen, unloaded, blind, owed, result, calls, spoiled>>

Stopping == {"quit", "quitWait", "look", "bootout", "bootoutWait", "lookAgain", "term", "termWait",
             "kill", "killWait", "write"}

VpnTypeOK ==
    /\ loaded \subseteq Job /\ up \subseteq Proc /\ holders \subseteq Proc /\ alien \in BOOLEAN
    /\ file \subseteq Job /\ vpc \in {"idle", "bootstrap", "forget"} \cup Stopping
    /\ job \in 1 .. NumJobs + 1 /\ force \in BOOLEAN /\ procs \subseteq Proc /\ took \subseteq Job
    /\ seen \in {"nothing", "held", "clear"} /\ unloaded \subseteq Job /\ blind \in BOOLEAN /\ owed \subseteq Job
    /\ result \in {"none", "ok", "err"} /\ calls \in 0 .. MaxCalls /\ spoiled \in BOOLEAN

VpnInit ==
    /\ loaded \in SUBSET Job /\ up = loaded \cup {App}
    /\ holders \in {{App}, Job, {}} /\ alien \in BOOLEAN
    /\ file = {} /\ vpc = "idle" /\ job = 1 /\ force = FALSE /\ procs = {} /\ took = {}
    /\ seen = "nothing" /\ unloaded = {} /\ blind = FALSE /\ owed = {}
    /\ result = "none" /\ calls = 0 /\ spoiled = FALSE

\* Blocking: a default route leads into a tunnel.
Held == alien \/ up \cap holders # {}

\* What a look tells.
Sight == IF Held THEN "held" ELSE "clear"

Unmoved == UNCHANGED <<file, force, procs, unloaded, owed, calls, spoiled>>

-----------------------------------------------------------------------------
(* Stop                                                                      *)

\* Detect and the choice of VPN: without the route table there is no report.
BeginStop ==
    /\ vpc = "idle" /\ calls < MaxCalls /\ calls' = calls + 1
    /\ force' \in BOOLEAN /\ procs' = up /\ took' = {} /\ unloaded' = {} /\ job' = 1
    /\ seen' = "nothing" /\ blind' = FALSE
    /\ \/ vpc' = (IF App \in up THEN "quit" ELSE "look") /\ result' = "none"
       \/ UNCHANGED vpc /\ result' = "err"
    /\ UNCHANGED <<machine, file, owed, spoiled>>

\* The application is asked to quit; it may stay.
QuitApp ==
    /\ vpc = "quit" /\ vpc' = "quitWait"
    /\ up' \in {up, up \ {App}}
    /\ Unmoved /\ UNCHANGED <<loaded, holders, alien, job, took, seen, blind, result>>

\* Mutant of Look: a route table that cannot be read counts as clear.
LookHopefully(from, cleared, else) ==
    /\ vpc = from
    /\ \/ vpc' = (IF Held THEN else ELSE cleared) /\ seen' = Sight /\ UNCHANGED blind
       \/ vpc' = cleared /\ UNCHANGED <<seen, blind>>
    /\ Unmoved /\ UNCHANGED <<machine, job, took, result>>

\* Mutant of Look: a wait has no deadline.
LookForEver(from, cleared, else) ==
    /\ vpc = from
    /\ from \in {"look", "lookAgain"} \/ ~Held
    /\ vpc' = (IF Held THEN else ELSE cleared) /\ seen' = Sight
    /\ Unmoved /\ UNCHANGED <<machine, job, took, blind, result>>

\* clear, once or as the last look of waitUntil: an error counts as held.
Look(from, cleared, else) ==
    /\ vpc = from
    /\ \/ vpc' = (IF Held THEN else ELSE cleared) /\ seen' = Sight /\ UNCHANGED blind
       \/ vpc' = else /\ blind' = TRUE /\ UNCHANGED seen
    /\ Unmoved /\ UNCHANGED <<machine, job, took, result>>

\* Mutant of NextJob: the last job is forgotten.
NextJobShort(j) == IF j < NumJobs - 1 THEN "bootout" ELSE "lookAgain"

NextJob(j) == IF j < NumJobs THEN "bootout" ELSE "lookAgain"

\* Mutant of Bootout: the job is noted only if its removal left no default route.
BootoutNotedLate ==
    /\ vpc = "bootout" /\ vpc' = "bootoutWait" /\ job <= NumJobs
    /\ loaded' = loaded \ {job} /\ up' = up \ {job}
    /\ took' = IF up' \cap holders = {} THEN took \cup {job} ELSE took
    /\ unloaded' = unloaded \cup ({job} \cap loaded) /\ owed' = owed \cup ({job} \cap loaded)
    /\ UNCHANGED <<holders, alien, file, job, force, procs, seen, blind, result, calls, spoiled>>

\* launchctl bootout: a job that is not loaded counts as taken down.
Bootout ==
    /\ vpc = "bootout" /\ vpc' = "bootoutWait" /\ job <= NumJobs
    /\ loaded' = loaded \ {job} /\ up' = up \ {job}
    /\ took' = took \cup {job}
    /\ unloaded' = unloaded \cup ({job} \cap loaded) /\ owed' = owed \cup ({job} \cap loaded)
    /\ UNCHANGED <<holders, alien, file, job, force, procs, seen, blind, result, calls, spoiled>>

BootoutFails ==
    /\ vpc = "bootout" /\ job \in loaded /\ vpc' = NextJob(job) /\ job' = job + 1
    /\ Unmoved /\ UNCHANGED <<machine, took, seen, blind, result>>

\* waitUntil after a bootout: either the way is clear, or on to the next job.
BootoutWait ==
    /\ job <= NumJobs /\ vpc = "bootoutWait"
    /\ \/ vpc' = (IF Held THEN NextJob(job) ELSE "write") /\ seen' = Sight /\ UNCHANGED blind
       \/ vpc' = NextJob(job) /\ blind' = TRUE /\ UNCHANGED seen
    /\ job' = IF vpc' = "write" THEN job ELSE job + 1
    /\ Unmoved /\ UNCHANGED <<machine, took, result>>

\* Only with Force are processes signalled.
Escalate == IF force THEN "term" ELSE "write"

\* SIGTERM to the detected processes, which may ignore it.
Term ==
    /\ vpc = "term" /\ vpc' = "termWait"
    /\ \E p \in {{}, procs} : up' = up \ p
    /\ Unmoved /\ UNCHANGED <<loaded, holders, alien, job, took, seen, blind, result>>

KillProcs ==
    /\ vpc = "kill" /\ vpc' = "killWait" /\ up' = up \ procs
    /\ Unmoved /\ UNCHANGED <<loaded, holders, alien, job, took, seen, blind, result>>

\* writeState, by rename. What is still held decides what the caller is told.
WriteState ==
    /\ vpc = "write" /\ vpc' = "idle"
    /\ \/ file' = took /\ result' = (IF seen = "held" THEN "err" ELSE "ok") /\ UNCHANGED spoiled
       \/ result' = "err" /\ spoiled' = TRUE /\ UNCHANGED file
    /\ UNCHANGED <<machine, job, force, procs, took, seen, unloaded, blind, owed, calls>>

-----------------------------------------------------------------------------
(* Start                                                                     *)

\* readState: without a record there is nothing to bring back.
BeginStart ==
    /\ vpc = "idle" /\ calls < MaxCalls /\ calls' = calls + 1
    /\ took' = file /\ job' = 1 /\ unloaded' = {} /\ blind' = FALSE
    /\ vpc' = (IF file = {} THEN "idle" ELSE "bootstrap")
    /\ result' = (IF file = {} THEN "err" ELSE "none")
    /\ UNCHANGED <<machine, file, force, procs, seen, owed, spoiled>>

\* Mutant of Bootstrap: a job that fails to load is passed over.
BootstrapNext ==
    /\ vpc = "bootstrap" /\ took # {}
    /\ \E j \in took :
        /\ took' = took \ {j} /\ vpc' = (IF took' = {} THEN "forget" ELSE "bootstrap")
        /\ UNCHANGED result
        /\ \/ loaded' = loaded \cup {j} /\ up' = up \cup {j} /\ owed' = owed \ {j}
           \/ UNCHANGED <<loaded, up, owed>>
    /\ UNCHANGED <<holders, alien, file, job, force, procs, seen, unloaded, blind, calls, spoiled>>

\* launchctl bootstrap: the first failure ends Start and keeps the record.
Bootstrap ==
    /\ vpc = "bootstrap" /\ took # {}
    /\ \E j \in took :
        \/ /\ took' = took \ {j} /\ vpc' = (IF took' = {} THEN "forget" ELSE "bootstrap")
           /\ loaded' = loaded \cup {j} /\ up' = up \cup {j} /\ owed' = owed \ {j}
           /\ UNCHANGED result
        \/ /\ j \notin loaded /\ vpc' = "idle" /\ result' = "err"
           /\ UNCHANGED <<loaded, up, took, owed>>
    /\ UNCHANGED <<holders, alien, file, job, force, procs, seen, unloaded, blind, calls, spoiled>>

Forget ==
    /\ vpc = "forget" /\ vpc' = "idle" /\ file' = {} /\ result' = "ok"
    /\ UNCHANGED <<machine, job, force, procs, took, seen, unloaded, blind, owed, calls, spoiled>>

-----------------------------------------------------------------------------
(* launchd, the user, and a crash of the daemon                              *)

\* The new process has another id, so a signal sent by id does not reach it.
Respawn(j) ==
    /\ j \in loaded \cap KeepAlive /\ j \notin up
    /\ up' = up \cup {j} /\ procs' = procs \ {j}
    /\ UNCHANGED <<loaded, holders, alien, file, vpc, job, force, took, seen, unloaded, blind,
                   owed, result, calls, spoiled>>

Crash ==
    /\ vpc # "idle" /\ vpc' = "idle" /\ spoiled' = TRUE /\ result' = "none"
    /\ UNCHANGED <<machine, file, job, force, procs, took, seen, unloaded, blind, owed, calls>>

-----------------------------------------------------------------------------
StopStep ==
    \/ QuitApp \/ Look("quitWait", "look", "look") \/ Look("look", "write", IF NumJobs = 0 THEN "lookAgain" ELSE "bootout")
    \/ Bootout \/ BootoutWait \/ Look("lookAgain", "write", Escalate)
    \/ Term \/ Look("termWait", "write", "kill") \/ KillProcs \/ Look("killWait", "write", "write") \/ WriteState

StartStep == Bootstrap \/ Forget

VpnNext ==
    \/ BeginStop \/ StopStep \/ BootoutFails \/ BeginStart \/ StartStep
    \/ \E j \in Job : Respawn(j)
    \/ Crash

\* Every wait is bounded, and the tools that are run return.
VpnFairness == WF_vpn(StopStep \/ StartStep)

VpnSpec == VpnInit /\ [][VpnNext]_vpn /\ VpnFairness

-----------------------------------------------------------------------------
(* Stop: a success means that the last look at the routes found no tunnel       *)
(* default; only when no look could read them may it be wrong.                  *)
OkMeansClear ==
    [][vpc = "write" /\ result' = "ok" => seen = "clear" \/ blind]_vpn

(* Stop: a process is signalled only with Force, when every job has been taken  *)
(* down or refused to go, and while a tunnel default was still seen.            *)
SignalsComeLast ==
    vpc \in {"term", "kill"} => force /\ job = NumJobs + 1 /\ (seen = "held" \/ blind)

(* Stop and writeState: when a Stop has returned, every job it unloaded is on   *)
(* record, whichever step ended it.                                             *)
ReturnRecords ==
    vpc = "idle" /\ ~spoiled => unloaded \subseteq file

(* All of these, and the type invariant.                                        *)
StopRecords == VpnTypeOK /\ ReturnRecords /\ SignalsComeLast

(* Start: the record goes only when every job on it has been brought back.      *)
RecordOutlivesFailure ==
    [][file' # file /\ vpc = "forget" => file \cap owed = {}]_vpn

(* Both of a success and of the record.                                         *)
VpnHonest == OkMeansClear /\ RecordOutlivesFailure

(* Stop and Start come to an end, although launchd keeps starting the software  *)
(* again.                                                                       *)
VpnEnds == vpc # "idle" ~> vpc = "idle"

(* The package promises that "the reversal is recorded, so `vpn start` brings   *)
(* back exactly what `vpn stop` took down" (vpn.go).                            *)
StopIsReversible == vpc = "idle" /\ ~spoiled => owed \subseteq file
=============================================================================
