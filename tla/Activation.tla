------------------------------ MODULE Activation -------------------------------
(* Which strategy runs: the commands `use' and `reload' (Daemon.Use and          *)
(* Daemon.Reload, one goroutine for each connection) beside the session that     *)
(* builds, starts and restarts the datapath (cmd/zapretd/daemon.go). A strategy  *)
(* has up to six homes: the remembered name, d.stratPath, d.strat, the engine,   *)
(* the transport and, for its port window, pf. Dead engines and transports are   *)
(* not kept: a copy of a pointer to one has no effect.                           *)
EXTENDS Naturals

CONSTANTS
    Strategy,       \* the names
    Window,         \* Window[s, v]: the ports of version v of strategy s
    Handler,        \* goroutines that run a command
    First,          \* the strategy the daemon came up with
    MaxCommands, MaxFails, MaxEdits     \* bounds

Bad == 0                \* a file that does not compile
Version == {1, 2}
Value == Strategy \X Version
NoRules == "none"
Fresh == <<First, 1>>   \* also the value of a variable that is out of use

ASSUME ActivationAssumption ==
    /\ First \in Strategy /\ {"reload", "none"} \cap Strategy = {} /\ DOMAIN Window = Value /\ NoRules \notin {Window[v] : v \in Value}
    /\ MaxCommands \in Nat /\ MaxFails \in Nat /\ MaxEdits \in Nat

VARIABLES
    disk,           \* the version in the file of each strategy
    remembered,     \* the file `active'
    path, strat,    \* d.stratPath, d.strat
    eng, tstrat,    \* what the latest engine and the latest transport hold
    rules,          \* the window of the rules in pf
    setup, want,    \* tr.Start: how far it is, and the window it has rendered
    spc, spec, made, attempt,   \* session and build
    cancelled, regTr, regCancel,    \* as in Supervisor
    cpc, cmd, val, prev, hasEng, hasTr,  \* the commands and their copies
    commands, fails, edits,
    calm,           \* history: since an undisturbed `use' no command met another or a build
    told            \* history: the strategy of the latest `use' that was answered well

homes == <<remembered, path, strat, eng, tstrat>>
session == <<spc, spec, made, attempt>>
datapath == <<rules, setup, want, cancelled, regTr, regCancel>>
copies == <<val, prev, hasEng, hasTr>>
budgets == <<commands, fails, edits>>
activation == <<disk, homes, datapath, session, cpc, cmd, copies, budgets, calm, told>>

ActivationTypeOK ==
    /\ disk \in [Strategy -> Version \cup {Bad}] /\ {remembered, path, spec, told} \subseteq Strategy
    /\ {strat, eng, tstrat, made} \subseteq Value
    /\ {rules, want} \subseteq {NoRules} \cup {Window[v] : v \in Value}
    /\ setup \in {"none", "render", "load", "up"} /\ attempt \in 0 .. 1
    /\ spc \in {"rest", "compile", "path", "install", "register", "probation", "await"}
    /\ cancelled \in BOOLEAN /\ regTr \in BOOLEAN /\ regCancel \in BOOLEAN
    /\ cpc \in [Handler -> {"idle", "compile", "write", "swap", "engine", "transport", "rules", "window"}]
    /\ cmd \in [Handler -> Strategy \cup {"reload", "none"}]
    /\ val \in [Handler -> Value] /\ prev \in [Handler -> Value]
    /\ hasEng \in [Handler -> BOOLEAN] /\ hasTr \in [Handler -> BOOLEAN]
    /\ commands \in 0 .. MaxCommands /\ fails \in 0 .. MaxFails /\ edits \in 0 .. MaxEdits
    /\ calm \in {"no", "trying", "yes"}

\* Run after loadActiveStrategy.
ActivationInit ==
    LET v == Fresh IN
    /\ disk = [s \in Strategy |-> 1] /\ remembered = First /\ path = First
    /\ strat = v /\ eng = v /\ tstrat = v /\ made = v /\ spec = First
    /\ rules = NoRules /\ want = NoRules /\ setup = "none" /\ spc = "rest" /\ attempt = 0
    /\ cancelled = FALSE /\ regTr = FALSE /\ regCancel = FALSE
    /\ cpc = [h \in Handler |-> "idle"] /\ cmd = [h \in Handler |-> "none"]
    /\ val = [h \in Handler |-> v] /\ prev = [h \in Handler |-> v]
    /\ hasEng = [h \in Handler |-> FALSE] /\ hasTr = [h \in Handler |-> FALSE]
    /\ commands = 0 /\ fails = 0 /\ edits = 0 /\ calm = "yes" /\ told = First

Busy(h) == cpc[h] # "idle"
Building == spc \in {"compile", "path", "install", "register", "probation"} \/ setup \in {"render", "load"}

\* A command meets another, or a datapath that is being built.
Overlap == \E h \in Handler : Busy(h) /\ (Building \/ \E g \in Handler \ {h} : Busy(g))

-----------------------------------------------------------------------------
\* session and build.
Begin ==
    /\ spc = "rest" /\ spc' = "compile" /\ spec' = path /\ attempt' = 0
    /\ UNCHANGED <<disk, homes, datapath, made, cpc, cmd, copies, budgets, told>>

BuildCompile ==
    /\ spc = "compile"
    /\ IF disk[spec] = Bad THEN spc' = "rest" /\ spec' = First /\ UNCHANGED made
       ELSE spc' = "path" /\ made' = <<spec, disk[spec]>> /\ UNCHANGED spec
    /\ UNCHANGED <<disk, homes, datapath, attempt, cpc, cmd, copies, budgets, told>>

TakePath ==
    /\ spc = "path" /\ spc' = "install" /\ path' = spec /\ spec' = First
    /\ UNCHANGED <<disk, remembered, strat, eng, tstrat, datapath, made, attempt, cpc, cmd, copies, budgets, told>>

\* The transport is new, and so is its engine: no copy leads to them.
Install ==
    /\ spc = "install" /\ spc' = "register" /\ strat' = made /\ eng' = made /\ tstrat' = made
    /\ hasEng' = [h \in Handler |-> FALSE] /\ hasTr' = [h \in Handler |-> FALSE]
    /\ UNCHANGED <<disk, remembered, path, datapath, spec, made, attempt, cpc, cmd, val, prev, budgets, told>>

\* Other capabilities than the contract's: once more, with the real ones.
Rebuild ==
    /\ spc = "install" /\ attempt = 0 /\ attempt' = 1 /\ spc' = "compile" /\ spec' = path /\ made' = Fresh
    /\ UNCHANGED <<disk, homes, datapath, cpc, cmd, copies, budgets, told>>

Register ==
    /\ spc = "register" /\ spc' = "probation" /\ regCancel' = TRUE /\ cancelled' = FALSE /\ setup' = "render"
    /\ attempt' = 0
    /\ UNCHANGED <<disk, homes, rules, want, regTr, spec, made, cpc, cmd, copies, budgets, told>>

Render ==
    /\ setup = "render" /\ setup' = "load" /\ want' = Window[tstrat]
    /\ UNCHANGED <<disk, homes, rules, cancelled, regTr, regCancel, session, cpc, cmd, copies, budgets, told>>

LoadRules ==
    /\ setup = "load" /\ setup' = "up" /\ rules' = want /\ want' = NoRules
    /\ UNCHANGED <<disk, homes, cancelled, regTr, regCancel, session, cpc, cmd, copies, budgets, told>>

\* 400 ms after tr.Start began, however far it is.
Activate ==
    /\ spc = "probation" /\ ~cancelled /\ spc' = "await" /\ regTr' = TRUE /\ strat' = made /\ made' = Fresh
    /\ UNCHANGED <<disk, remembered, path, eng, tstrat, rules, setup, want, cancelled, regCancel, spec, attempt,
                   cpc, cmd, copies, budgets, told>>

\* Mutant of EndSession: a blocked tr.Start does not notice that it is cancelled.
EndSessionFailed ==
    /\ spc \in {"probation", "await"} /\ ~cancelled /\ fails < MaxFails /\ fails' = fails + 1
    /\ spc' = "rest" /\ rules' = NoRules /\ setup' = "none" /\ want' = NoRules
    /\ regTr' = FALSE /\ regCancel' = FALSE /\ made' = Fresh
    /\ UNCHANGED <<disk, homes, cancelled, spec, attempt, cpc, cmd, copies, commands, edits, told>>

\* tr.Start returns, cancelled or failing; its rules are gone, deactivate.
EndSession ==
    /\ spc \in {"probation", "await"}
    /\ IF cancelled THEN UNCHANGED fails ELSE fails < MaxFails /\ fails' = fails + 1
    /\ spc' = "rest" /\ rules' = NoRules /\ setup' = "none" /\ want' = NoRules
    /\ regTr' = FALSE /\ regCancel' = FALSE /\ cancelled' = FALSE /\ made' = Fresh
    /\ UNCHANGED <<disk, homes, spec, attempt, cpc, cmd, copies, commands, edits, told>>

\* The user changes a file.
Edit ==
    /\ edits < MaxEdits /\ edits' = edits + 1
    /\ \E s \in Strategy, v \in (Version \cup {Bad}) : v # disk[s] /\ disk' = [disk EXCEPT ![s] = v]
    /\ UNCHANGED <<homes, datapath, session, cpc, cmd, copies, commands, fails, told>>

-----------------------------------------------------------------------------
At(h, here, next) == cpc[h] = here /\ cpc' = [cpc EXCEPT ![h] = next]
Answer(h) ==
    /\ cmd' = [cmd EXCEPT ![h] = "none"]
    /\ val' = [val EXCEPT ![h] = Fresh] /\ prev' = [prev EXCEPT ![h] = Fresh]
    /\ hasEng' = [hasEng EXCEPT ![h] = FALSE] /\ hasTr' = [hasTr EXCEPT ![h] = FALSE]

\* Use, and Reload, which copies d.strat, d.tr and the path before it compiles.
Call(h, c) ==
    /\ commands < MaxCommands /\ commands' = commands + 1
    /\ At(h, "idle", "compile") /\ cmd' = [cmd EXCEPT ![h] = c]
    /\ val' = [val EXCEPT ![h] = <<IF c = "reload" THEN path ELSE c, 1>>]
    /\ prev' = [prev EXCEPT ![h] = strat] /\ hasTr' = [hasTr EXCEPT ![h] = regTr]
    /\ UNCHANGED <<disk, homes, datapath, session, hasEng, fails, edits, told>>

Compile(h) ==
    LET name == val[h][1] IN
    /\ disk[name] # Bad /\ val' = [val EXCEPT ![h] = <<name, disk[name]>>]
    /\ At(h, "compile", IF cmd[h] = "reload" THEN "swap" ELSE "write")
    /\ UNCHANGED <<disk, homes, datapath, session, cmd, prev, hasEng, hasTr, budgets, told>>

CompileFails(h) ==
    /\ disk[val[h][1]] = Bad /\ At(h, "compile", "idle") /\ Answer(h)
    /\ UNCHANGED <<disk, homes, datapath, session, budgets, told>>

WriteActiveName(h) ==
    /\ At(h, "write", "swap") /\ remembered' = cmd[h]
    /\ UNCHANGED <<disk, path, strat, eng, tstrat, datapath, session, cmd, copies, budgets, told>>

\* Mutant of Swap: d.stratPath stays.
SwapStrategyOnly(h) ==
    /\ At(h, "swap", "engine") /\ strat' = val[h]
    /\ hasEng' = [hasEng EXCEPT ![h] = TRUE]
    /\ IF cmd[h] = "reload" THEN UNCHANGED <<prev, hasTr>>
       ELSE prev' = [prev EXCEPT ![h] = strat] /\ hasTr' = [hasTr EXCEPT ![h] = regTr]
    /\ UNCHANGED <<disk, remembered, path, eng, tstrat, datapath, session, cmd, val, budgets, told>>

\* The section under d.mu.
Swap(h) ==
    /\ At(h, "swap", "engine") /\ strat' = val[h] /\ path' = val[h][1]
    /\ hasEng' = [hasEng EXCEPT ![h] = TRUE]
    /\ IF cmd[h] = "reload" THEN UNCHANGED <<prev, hasTr>>
       ELSE prev' = [prev EXCEPT ![h] = strat] /\ hasTr' = [hasTr EXCEPT ![h] = regTr]
    /\ UNCHANGED <<disk, remembered, eng, tstrat, datapath, session, cmd, val, budgets, told>>

EngineReload(h) ==
    /\ At(h, "engine", IF hasTr[h] THEN "transport" ELSE "window")
    /\ eng' = IF hasEng[h] THEN val[h] ELSE eng
    /\ UNCHANGED <<disk, remembered, path, strat, tstrat, datapath, session, cmd, copies, budgets, told>>

\* Transport.Reload: the strategy, the engine once more, then the rules.
TransportReload(h) ==
    /\ At(h, "transport", "rules")
    /\ IF hasTr[h] THEN tstrat' = val[h] /\ eng' = val[h] ELSE UNCHANGED <<tstrat, eng>>
    /\ UNCHANGED <<disk, remembered, path, strat, datapath, session, cmd, copies, budgets, told>>

\* Mutant of ReloadRules: the rules are those of the time the transport started.
KeepRules(h) ==
    /\ At(h, "rules", "window")
    /\ UNCHANGED <<disk, homes, datapath, session, cmd, copies, budgets, told>>

\* It renders what the transport holds by now, and loads that if it is new.
ReloadRules(h) ==
    /\ At(h, "rules", "window")
    /\ rules' = IF hasTr[h] /\ setup \in {"load", "up"} THEN Window[tstrat] ELSE rules
    /\ UNCHANGED <<disk, homes, setup, want, cancelled, regTr, regCancel, session, cmd, copies, budgets, told>>

\* The command fails when its strategy is already in place.
ReloadRulesFails(h) ==
    /\ At(h, "rules", "idle") /\ hasTr[h] /\ setup \in {"load", "up"} /\ rules # Window[tstrat]
    /\ fails < MaxFails /\ fails' = fails + 1 /\ Answer(h)
    /\ UNCHANGED <<disk, homes, datapath, session, commands, edits, told>>

\* samePortSet, and cancelSession when it does not hold; then the answer.
RestartForWindow(h) ==
    /\ At(h, "window", "idle") /\ Answer(h)
    /\ cancelled' = (cancelled \/ (Window[prev[h]] # Window[val[h]] /\ regCancel))
    /\ told' = IF cmd[h] = "reload" THEN told ELSE cmd[h]
    /\ UNCHANGED <<disk, homes, rules, setup, want, regTr, regCancel, session, budgets>>

-----------------------------------------------------------------------------
SessionStep ==
    Begin \/ BuildCompile \/ TakePath \/ Install \/ Rebuild \/ Register \/ Render \/ LoadRules \/ Activate \/ EndSession

CommandStep(h) ==
    \/ Compile(h) \/ CompileFails(h) \/ WriteActiveName(h) \/ Swap(h) \/ EngineReload(h) \/ TransportReload(h)
    \/ ReloadRules(h) \/ ReloadRulesFails(h) \/ RestartForWindow(h)

\* History: what `calm' becomes.
Watch ==
    calm' = IF \/ Overlap'
               \/ \E h \in Handler : ReloadRulesFails(h)
               \/ calm = "trying" /\ \E h \in Handler : CompileFails(h)
            THEN "no"
            ELSE IF calm = "no" /\ \E h \in Handler : ~Busy(h) /\ cmd'[h] \in Strategy THEN "trying"
            ELSE IF calm = "trying" /\ \E h \in Handler : RestartForWindow(h) THEN "yes"
            ELSE calm

ActivationNext ==
    /\ \/ SessionStep \/ Edit
       \/ \E h \in Handler : CommandStep(h) \/ \E c \in Strategy \cup {"reload"} : Call(h, c)
    /\ Watch

ActivationFairness ==
    /\ WF_activation(SessionStep /\ Watch)
    /\ \A h \in Handler : WF_activation(CommandStep(h) /\ Watch)

ActivationSpec == ActivationInit /\ [][ActivationNext]_activation /\ ActivationFairness

\* The datapath runs and no command is under way.
Quiet == spc = "await" /\ setup = "up" /\ ~cancelled /\ \A h \in Handler : ~Busy(h)

(* After a `use' that met no other command and no build, and until a command     *)
(* meets one, a datapath that runs, restarted or not, runs that strategy in      *)
(* every home it has: the remembered name, the path and the strategy of the      *)
(* daemon, the engine, the transport and the window of the pf rules.             *)
LastWordHolds ==
    calm = "yes" /\ Quiet =>
        /\ remembered = told /\ path = told /\ strat[1] = told
        /\ eng = strat /\ tstrat = strat /\ rules = Window[strat]

(* currentSpec says the path is what "makes `zaprctl use` stick for the rest of  *)
(* this process's life": with nothing else said since, the engine of a running   *)
(* datapath has the strategy of the latest `use' that was answered well.         *)
UseSticks == Quiet => eng[1] = told

(* An undisturbed `use' is followed by a datapath that runs it, unless its file  *)
(* is spoiled or something else happens.                                         *)
UseTakesEffect ==
    (calm = "yes" /\ \A h \in Handler : ~Busy(h))
        ~> (calm # "yes" \/ Quiet \/ disk[path] = Bad \/ \E h \in Handler : Busy(h))
===============================================================================
