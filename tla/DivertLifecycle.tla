--------------------------- MODULE DivertLifecycle ---------------------------
(***************************************************************************)
(* The life of one divert.Transport (internal/transport/divert/divert.go): *)
(* the goroutine in Start sets the datapath up, runs it and tears it down  *)
(* while other goroutines call Close and Reload.                           *)
(*                                                                         *)
(* lifeMu serialises setup and teardown. The handles in t.* are the only   *)
(* memory of what has to be undone: a teardown claims them all and undoes  *)
(* what it claimed. While rules of ours are loaded, pf blocks the packets  *)
(* of the window and hands them to the pflog interface, so the rules are   *)
(* safe only while that interface is open.                                 *)
(***************************************************************************)
EXTENDS Integers, FiniteSets

CONSTANTS
    Closer,     \* goroutines that may call Close
    Reloader,   \* goroutines that may call Reload with another port window
    NoOne,      \* lifeMu is free
    StepFails   \* TRUE: a step of setup or teardown may fail, the read loop may die

ASSUME ActorAssumption ==
    /\ Closer \cap Reloader = {}
    /\ "start" \notin Closer \cup Reloader
    /\ NoOne \notin {"start"} \cup Closer \cup Reloader
    /\ StepFails \in BOOLEAN

Actor  == {"start"} \cup Closer \cup Reloader
Handle == {"pf", "plog", "inj", "obs"}

VARIABLES
    lifeMu,     \* holder of t.lifeMu
    closed,     \* the closed channel is closed
    cancelled,  \* the context given to Start is cancelled
    running,    \* t.running
    done,       \* the done channel is closed
    handles,    \* the fields of t.* that are not nil
    ref,        \* pf: the reference of PF.Enable is held
    steering,   \* pf: the steering rules in the anchor; "stray" if a Reload
                \* loaded them after a teardown had taken the handles away
    pflog,      \* the pflog interface: "open", "unread" once our descriptor on it
                \* is closed and ifconfig has refused to destroy it, or "none"
    refused,    \* history: what failed in a teardown, which goes on without it
    claimed,    \* per actor: the handles its teardown took
    dpc

divertVars == <<lifeMu, closed, cancelled, running, done, handles, ref, steering,
                pflog, refused, claimed, dpc>>

SetupPc    == {"uplink", "plog", "inject", "claimPF", "enable", "load", "observe"}
TeardownPc == {"tdFlush", "tdRelease", "tdClose"}
StartPc    == {"idle", "ready", "run", "tdLock", "returned"} \cup SetupPc \cup TeardownPc
CloserPc   == {"idle", "wait", "tdLock", "returned"} \cup TeardownPc
ReloaderPc == {"idle", "render", "load", "returned"}

DivertTypeOK ==
    /\ lifeMu \in Actor \cup {NoOne}
    /\ closed \in BOOLEAN /\ cancelled \in BOOLEAN
    /\ running \in BOOLEAN /\ done \in BOOLEAN
    /\ handles \subseteq Handle
    /\ ref \in BOOLEAN /\ pflog \in {"none", "open", "unread"}
    /\ refused \subseteq {"flush", "release", "destroy"}
    /\ steering \in {"none", "loaded", "stray"}
    /\ claimed \in [Actor -> SUBSET Handle]
    /\ dpc \in [Actor -> StartPc \cup CloserPc \cup ReloaderPc]
    /\ dpc["start"] \in StartPc
    /\ \A c \in Closer : dpc[c] \in CloserPc
    /\ \A r \in Reloader : dpc[r] \in ReloaderPc

DivertInit ==
    /\ lifeMu = NoOne
    /\ closed = FALSE /\ cancelled = FALSE /\ running = FALSE /\ done = FALSE
    /\ handles = {}
    /\ ref = FALSE /\ steering = "none" /\ pflog = "none" /\ refused = {}
    /\ claimed = [a \in Actor |-> {}]
    /\ dpc = [a \in Actor |-> "idle"]

flags   == <<closed, cancelled, running, done>>
devices == <<ref, steering, pflog, refused>>

DivertGoto(a, label) == dpc' = [dpc EXCEPT ![a] = label]

-----------------------------------------------------------------------------
(* setup: the five privileged steps, under lifeMu.                         *)

\* Mutant of EnterSetup: setup runs without lifeMu.
EnterSetupUnlocked ==
    /\ dpc["start"] = "idle"
    /\ DivertGoto("start", "uplink")
    /\ UNCHANGED <<lifeMu, flags, handles, devices, claimed>>

EnterSetup ==
    /\ dpc["start"] = "idle" /\ lifeMu = NoOne
    /\ lifeMu' = "start"
    /\ DivertGoto("start", "uplink")
    /\ UNCHANGED <<flags, handles, devices, claimed>>

ResolveUplink ==
    /\ dpc["start"] = "uplink"
    /\ DivertGoto("start", "plog")
    /\ UNCHANGED <<lifeMu, flags, handles, devices, claimed>>

\* Each of the next steps is preceded by stopRequested.
CreatePFLog ==
    /\ dpc["start"] = "plog" /\ ~closed
    /\ pflog' = "open" /\ handles' = handles \cup {"plog"}
    /\ DivertGoto("start", "inject")
    /\ UNCHANGED <<lifeMu, flags, ref, steering, refused, claimed>>

OpenInjector ==
    /\ dpc["start"] = "inject" /\ ~closed
    /\ handles' = handles \cup {"inj"}
    /\ DivertGoto("start", "claimPF")
    /\ UNCHANGED <<lifeMu, flags, devices, claimed>>

\* setupPF: the handle first, then the reference, then the rules.
ClaimPF ==
    /\ dpc["start"] = "claimPF" /\ ~closed
    /\ handles' = handles \cup {"pf"}
    /\ DivertGoto("start", "enable")
    /\ UNCHANGED <<lifeMu, flags, devices, claimed>>

EnablePF ==
    /\ dpc["start"] = "enable"
    /\ ref' = TRUE
    /\ DivertGoto("start", "load")
    /\ UNCHANGED <<lifeMu, flags, handles, steering, pflog, refused, claimed>>

LoadSteering ==
    /\ dpc["start"] = "load"
    /\ steering' = "loaded"
    /\ DivertGoto("start", "observe")
    /\ UNCHANGED <<lifeMu, flags, handles, ref, pflog, refused, claimed>>

\* Mutant of StartObserver: setup returns with lifeMu held.
StartObserverLocked ==
    /\ dpc["start"] = "observe" /\ ~closed
    /\ handles' \in {handles, handles \cup {"obs"}}
    /\ DivertGoto("start", "ready")
    /\ UNCHANGED <<lifeMu, flags, devices, claimed>>

\* The inbound tap is optional: it may not start.
StartObserver ==
    /\ dpc["start"] = "observe" /\ ~closed
    /\ handles' \in {handles, handles \cup {"obs"}}
    /\ lifeMu' = NoOne
    /\ DivertGoto("start", "ready")
    /\ UNCHANGED <<flags, devices, claimed>>

\* A step failed, or stopRequested saw the closed channel before it.
AbortSetup ==
    /\ \/ StepFails /\ dpc["start"] \in SetupPc
       \/ closed /\ dpc["start"] \in {"plog", "inject", "claimPF", "observe"}
    /\ lifeMu' = NoOne
    /\ DivertGoto("start", "tdLock")
    /\ UNCHANGED <<flags, handles, devices, claimed>>

-----------------------------------------------------------------------------
(* run, and the deferred exit of Start.                                    *)

EnterRun ==
    /\ dpc["start"] = "ready"
    /\ running' = TRUE
    /\ DivertGoto("start", "run")
    /\ UNCHANGED <<lifeMu, closed, cancelled, done, handles, devices, claimed>>

\* The deferred function of Start: not running any more, done, then teardown.
ExitRun(label) ==
    /\ dpc["start"] = "run"
    /\ running' = FALSE /\ done' = TRUE
    /\ DivertGoto("start", label)
    /\ UNCHANGED <<lifeMu, closed, cancelled, handles, devices, claimed>>

\* Mutant of LeaveRun: Start ends in Close, which waits for its own loop.
LeaveRunByClose == (closed \/ cancelled) /\ ExitRun("wait")

\* Mutant of LeaveRun: the loop looks at its context only.
LeaveRunCancelledOnly == cancelled /\ ExitRun("tdLock")

LeaveRun == (closed \/ cancelled) /\ ExitRun("tdLock")

\* The read loop gives up: a revoked descriptor, or too many errors in a row.
RunDies == StepFails /\ ExitRun("tdLock")

-----------------------------------------------------------------------------
(* teardown, by Start or by a Close.                                       *)

\* Mutant of ClaimHandles: mu protects the fields, nothing the undoing.
ClaimHandlesUnlocked(a) ==
    /\ dpc[a] = "tdLock"
    /\ claimed' = [claimed EXCEPT ![a] = handles]
    /\ handles' = {}
    /\ DivertGoto(a, IF handles = {} THEN "returned" ELSE "tdFlush")
    /\ UNCHANGED <<lifeMu, flags, devices>>

ClaimHandles(a) ==
    /\ dpc[a] = "tdLock" /\ lifeMu = NoOne
    /\ IF handles = {}
       THEN DivertGoto(a, "returned") /\ UNCHANGED <<lifeMu, claimed, handles>>
       ELSE /\ lifeMu' = a
            /\ claimed' = [claimed EXCEPT ![a] = handles]
            /\ handles' = {}
            /\ DivertGoto(a, "tdFlush")
    /\ UNCHANGED <<flags, devices>>

\* Mutant of FlushSteering: the interceptor is closed first.
FlushSteeringLate(a) ==
    /\ dpc[a] = "tdFlush"
    /\ pflog' = IF "plog" \in claimed[a] THEN "none" ELSE pflog
    /\ DivertGoto(a, "tdRelease")
    /\ UNCHANGED <<lifeMu, flags, handles, ref, steering, refused, claimed>>

\* pfctl may fail; it may have flushed all the same. The error is collected and
\* the teardown goes on, with the handles gone from t.*: nobody tries again.
FlushSteering(a) ==
    /\ dpc[a] = "tdFlush"
    /\ \/ /\ steering' = IF "pf" \in claimed[a] THEN "none" ELSE steering
          /\ UNCHANGED refused
       \/ /\ StepFails /\ "pf" \in claimed[a]
          /\ steering' \in {steering, "none"}
          /\ refused' = refused \cup {"flush"}
    /\ DivertGoto(a, "tdRelease")
    /\ UNCHANGED <<lifeMu, flags, handles, ref, pflog, claimed>>

ReleasePF(a) ==
    /\ dpc[a] = "tdRelease"
    /\ \/ /\ ref' = (ref /\ "pf" \notin claimed[a])
          /\ UNCHANGED refused
       \/ /\ StepFails /\ "pf" \in claimed[a]
          /\ ref' \in {ref, FALSE}
          /\ refused' = refused \cup {"release"}
    /\ DivertGoto(a, "tdClose")
    /\ UNCHANGED <<lifeMu, flags, handles, steering, pflog, claimed>>

\* The descriptor is closed in any case, then ifconfig destroys the interface.
TeardownClose(a) ==
    /\ dpc[a] = "tdClose"
    /\ \/ /\ pflog' = IF "plog" \in claimed[a] THEN "none" ELSE pflog
          /\ UNCHANGED refused
       \/ /\ StepFails /\ "plog" \in claimed[a]
          /\ pflog' = "unread"
          /\ refused' = refused \cup {"destroy"}
    /\ claimed' = [claimed EXCEPT ![a] = {}]
    /\ lifeMu' = NoOne
    /\ DivertGoto(a, "returned")
    /\ UNCHANGED <<flags, handles, ref, steering>>

Teardown(a) ==
    \/ ClaimHandles(a) \/ FlushSteering(a) \/ ReleasePF(a) \/ TeardownClose(a)

-----------------------------------------------------------------------------
(* The other goroutines.                                                   *)

\* The session cancels the context it gave to Start.
Cancel ==
    /\ ~cancelled
    /\ cancelled' = TRUE
    /\ UNCHANGED <<lifeMu, closed, running, done, handles, devices, claimed, dpc>>

Close(c) ==
    /\ dpc[c] = "idle"
    /\ closed' = TRUE
    /\ DivertGoto(c, IF running THEN "wait" ELSE "tdLock")
    /\ UNCHANGED <<lifeMu, cancelled, running, done, handles, devices, claimed>>

\* Close waits for the run loop, but no longer than shutdownGrace: past it the
\* teardown goes ahead under a loop that is still running.
CloseWaited(c) ==
    /\ dpc[c] = "wait"
    /\ DivertGoto(c, "tdLock")
    /\ UNCHANGED <<lifeMu, flags, handles, devices, claimed>>

\* Reload reads t.pf and t.plog, renders the rules (steerRules looks at t.plog
\* again) and loads them, without lifeMu.
ReloadRead(r) ==
    /\ dpc[r] = "idle"
    /\ DivertGoto(r, IF {"pf", "plog"} \subseteq handles THEN "render" ELSE "returned")
    /\ UNCHANGED <<lifeMu, flags, handles, devices, claimed>>

ReloadRender(r) ==
    /\ dpc[r] = "render"
    /\ DivertGoto(r, IF "plog" \in handles THEN "load" ELSE "returned")
    /\ UNCHANGED <<lifeMu, flags, handles, devices, claimed>>

ReloadLoad(r) ==
    /\ dpc[r] = "load"
    /\ steering' = IF "pf" \in handles THEN "loaded" ELSE "stray"
    /\ DivertGoto(r, "returned")
    /\ UNCHANGED <<lifeMu, flags, handles, ref, pflog, refused, claimed>>

-----------------------------------------------------------------------------
Setup ==
    \/ EnterSetup \/ ResolveUplink \/ CreatePFLog \/ OpenInjector
    \/ ClaimPF \/ EnablePF \/ LoadSteering \/ StartObserver \/ AbortSetup

Start == Setup \/ EnterRun \/ LeaveRun \/ Teardown("start")

Closing(c) == CloseWaited(c) \/ Teardown(c)

Reload(r) == ReloadRead(r) \/ ReloadRender(r) \/ ReloadLoad(r)

DivertNext ==
    \/ Start
    \/ RunDies
    \/ Cancel
    \/ \E c \in Closer : Close(c) \/ Closing(c)
    \/ \E r \in Reloader : Reload(r)

DivertSpec == DivertInit /\ [][DivertNext]_divertVars

(* Goroutines are scheduled; every blocking call in them is bounded (pfctl *)
(* by its timeout, the read loop by its poll interval). Nobody has to      *)
(* cancel, close or reload, and the read loop does not have to die.        *)
DivertFairness ==
    /\ WF_divertVars(Start)
    /\ \A c \in Closer : WF_divertVars(Closing(c))
    /\ \A r \in Reloader : WF_divertVars(Reload(r))

DivertFairSpec == DivertSpec /\ DivertFairness

-----------------------------------------------------------------------------
(* Rules without a reader on pflog are a black hole: pf blocks the originals *)
(* and nobody reads, rewrites and re-injects them. Setup opens the interface *)
(* before the rules, teardown flushes before it closes. So rules are without *)
(* a reader only where pf has refused the flush, or where a Reload has      *)
(* loaded them behind a teardown ("stray").                                *)
RulesHaveReader == steering = "loaded" => pflog = "open" \/ "flush" \in refused

(* What the last sentence costs: with a failing pfctl this does not hold,   *)
(* since teardown closes the descriptor whether or not the flush worked.   *)
NeverUnread == steering = "loaded" => pflog = "open"

(* What is still installed, by the step of teardown that should have undone it. *)
Installed ==
    {s \in {"flush", "release", "destroy"} :
        \/ s = "flush" /\ steering = "loaded"
        \/ s = "release" /\ ref
        \/ s = "destroy" /\ pflog # "none"}

(* Start undoes everything it installed, however it ends and whoever closes *)
(* or reloads at the same time ("Everything it installs is undone on the   *)
(* way out"): what is left is what a failing call left, and one that fails *)
(* keeps no other from being made ("doing every step even if an earlier one *)
(* failed"). The exception is again a Reload behind a teardown.            *)
ReturnedMeansUndone ==
    dpc["start"] = "returned" => handles = {} /\ pflog # "open" /\ Installed \subseteq refused

(* Once a Close has returned nothing of this transport is installed, with   *)
(* the same exceptions, and nothing will be, even if it landed before or in *)
(* the middle of setup.                                                    *)
ClosedStaysDown ==
    \A c \in Closer : dpc[c] = "returned" => pflog # "open" /\ Installed \subseteq refused

(* Stopping ends: a cancelled or closed transport that was started returns. *)
StopCompletes ==
    (closed \/ cancelled) /\ dpc["start"] # "idle" ~> dpc["start"] = "returned"

(* And every Close returns.                                                *)
CloseCompletes ==
    \A c \in Closer : dpc[c] # "idle" ~> dpc[c] = "returned"

(* Neither a Start that has returned nor a Close leaves anything installed but *)
(* what pfctl or ifconfig refused to undo.                                    *)
NothingLeft == ReturnedMeansUndone /\ ClosedStaysDown
=============================================================================
