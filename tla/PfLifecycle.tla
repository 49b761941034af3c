----------------------------- MODULE PfLifecycle -----------------------------
(***************************************************************************)
(* Who may change pf on behalf of zapret-mac, and what is left behind when *)
(* a process dies.                                                         *)
(*                                                                         *)
(* Several processes share one state directory (the instance lock, the     *)
(* token file, the rollback journal) and the kernel's pf (our rules in an  *)
(* anchor, our `pfctl -E` references): daemons (cmd/zapretd/daemon.go) and *)
(* the periodic guard (cmd/zapretd/guard.go), both through netcfg.PF, and  *)
(* `zaprctl doctor --repair' (internal/diag/doctor.go), without the lock.  *)
(* Each step below is one pfctl call or one durable write, so a SIGKILL    *)
(* can land between any two of them.                                       *)
(***************************************************************************)
EXTENDS Integers, FiniteSets

CONSTANTS
    Daemon,       \* zapretd processes that may be started
    Guard,        \* `zapretd guard` processes
    Repairer,     \* `zaprctl doctor --repair` processes
    Token,        \* references `pfctl -E` can hand out
    NoToken,      \* p.token = "" / no token file
    NoProc,       \* nobody holds the instance lock
    RulesRecord,  \* a StepPfRules (or StepPfTable) record of the journal
    MainMode,     \* what the running main ruleset supports (ResolveAnchor)
    PfctlFails,   \* TRUE: pfctl calls may fail
    DiskFails,    \* TRUE: writes to the state directory may fail
    ReadFails,    \* TRUE: the journal may be unreadable at start
    MaxCrashes    \* bound on the number of SIGKILLs in a behaviour

Proc == Daemon \cup Guard \cup Repairer
Anchor == {"plain", "apple"}          \* <anchor> and com.apple/<anchor>
Record == Token \cup {RulesRecord}    \* a StepPfToken record is its token

ASSUME ProcAssumption == /\ Daemon \cap Guard = {}
                         /\ Repairer \cap (Daemon \cup Guard) = {}
                         /\ NoProc \notin Proc
ASSUME RecordAssumption == NoToken \notin Token /\ RulesRecord \notin Token
ASSUME ModeAssumption == MainMode \in Anchor
ASSUME FaultAssumption == /\ PfctlFails \in BOOLEAN
                          /\ DiskFails \in BOOLEAN
                          /\ ReadFails \in BOOLEAN
                          /\ MaxCrashes \in Nat

VARIABLES
    rules,      \* kernel: the anchors that hold rules of ours
    refs,       \* kernel: the pf references taken by us and still live
    tokenFile,  \* disk: the token file
    journal,    \* disk: the distinct records of the rollback journal
    lock,       \* kernel: holder of the flock on <state>/zapretd.lock
    pc,         \* where each process is
    mode,       \* memory: PF.mode
    tok,        \* memory: PF.token
    probeTok,   \* memory: the token of the capability probe's own PF
    todo,       \* memory of the rollback: records still to revert ...
    kept,       \* ... and records whose reversal failed
    crashes     \* number of SIGKILLs so far

kernel == <<rules, refs>>
disk   == <<tokenFile, journal>>
memory == <<mode, tok, probeTok>>
replay == <<todo, kept>>
vars   == <<kernel, disk, lock, pc, memory, replay, crashes>>

EnablePc  == {"enable", "enFresh", "enRecord", "enWrite"}
LoadedPc  == {"load", "loadRecord", "up"}
CleanupPc == {"clFlush", "clRelease", "clClear", "clClose"}
ProbePc   == {"detect", "dtLoad", "dtFlush", "dtRelease"}
DaemonPc  == {"off", "rollback", "preflight", "starting", "serving", "tdFlush", "tdRelease"}
                \cup ProbePc \cup EnablePc \cup LoadedPc \cup CleanupPc
GuardPc   == {"off", "gResolve", "gRead", "gFlush", "gRelease", "gClose"}
RepairPc  == {"off", "rpRollback", "rpRelease", "rpRead", "rpFlush", "rpClose"}

TypeOK ==
    /\ rules \subseteq Anchor
    /\ refs \subseteq Token
    /\ tokenFile \in Token \cup {NoToken}
    /\ journal \subseteq Record
    /\ lock \in Proc \cup {NoProc}
    /\ pc \in [Proc -> DaemonPc \cup GuardPc \cup RepairPc]
    /\ \A d \in Daemon : pc[d] \in DaemonPc
    /\ \A g \in Guard : pc[g] \in GuardPc
    /\ \A r \in Repairer : pc[r] \in RepairPc
    /\ mode \in [Proc -> Anchor \cup {"unresolved"}]
    /\ tok \in [Proc -> Token \cup {NoToken}]
    /\ probeTok \in Token \cup {NoToken}
    /\ todo \subseteq Record
    /\ kept \subseteq Record
    /\ crashes \in 0 .. MaxCrashes

Init ==
    /\ rules = {} /\ refs = {}
    /\ tokenFile = NoToken /\ journal = {}
    /\ lock = NoProc
    /\ pc = [p \in Proc |-> "off"]
    /\ mode = [p \in Proc |-> "unresolved"]
    /\ tok = [p \in Proc |-> NoToken] /\ probeTok = NoToken
    /\ todo = {} /\ kept = {}
    /\ crashes = 0

-----------------------------------------------------------------------------
(* Building blocks: the netcfg.PF methods and process life.                *)

Goto(p, label) == pc' = [pc EXCEPT ![p] = label]

\* PF.effAnchorLocked: the plain anchor until the mode is resolved.
EffAnchor(p) == IF mode[p] = "apple" THEN "apple" ELSE "plain"

\* What resolveAnchorLocked may conclude: an unreadable main ruleset means the
\* pf.conf anchor.
Resolved == IF PfctlFails THEN {MainMode, "plain"} ELSE {MainMode}

\* A durable write: it lands, or (a failing disk) leaves the old content.
Written(new, old) == IF DiskFails THEN {new, old} ELSE {new}

\* PF.FlushRules.
FlushRules(p) == \/ rules' = rules \ {EffAnchor(p)}
                 \/ PfctlFails /\ UNCHANGED rules

\* Mutant of HandleOf: only this process's memory is consulted.
HandleInMemoryOnly(p) == tok[p]

\* The token PF.Release acts on: the one in memory, else the token file.
HandleOf(p) == IF tok[p] # NoToken THEN tok[p] ELSE tokenFile

\* The tokens `pfctl -E` may hand out next.
Unused == Token \ (refs \cup journal \cup {tokenFile})

\* PF.Release: a failed `pfctl -X` keeps the token in memory and on disk.
Release(p) ==
    \/ /\ HandleOf(p) \in refs
       /\ refs' = refs \ {HandleOf(p)}
       /\ tokenFile' = NoToken
       /\ tok' = [tok EXCEPT ![p] = NoToken]
    \/ /\ HandleOf(p) \notin refs \/ PfctlFails
       /\ UNCHANGED <<refs, tokenFile, tok>>

\* The end of a process, clean or not: the kernel drops its flock and the
\* process memory is gone. (A guard replays no journal.)
Gone(p) ==
    /\ Goto(p, "off")
    /\ lock' = IF lock = p THEN NoProc ELSE lock
    /\ mode' = [mode EXCEPT ![p] = "unresolved"]
    /\ tok' = [tok EXCEPT ![p] = NoToken] /\ probeTok' = IF p \in Daemon THEN NoToken ELSE probeTok
    /\ todo' = IF p \in Guard THEN todo ELSE {}
    /\ kept' = IF p \in Guard THEN kept ELSE {}

-----------------------------------------------------------------------------
(* The daemon: start of Run.                                               *)

NoRepair == \A r \in Repairer : pc[r] = "off"

\* acquireInstanceLock; a daemon that finds the lock taken exits unchanged. No
\* daemon is started while a repair is under way.
Launch(d) ==
    /\ pc[d] = "off" /\ lock = NoProc /\ NoRepair
    /\ lock' = d
    /\ Goto(d, "rollback")
    /\ todo' = journal /\ kept' = {}
    /\ UNCHANGED <<kernel, disk, memory, crashes>>

\* Mutant of RollbackToken: every failure of `pfctl -X` counts as "not found".
RollbackTokenAnyFailure(d) ==
    /\ pc[d] = "rollback"
    /\ \E t \in todo \cap Token : todo' = todo \ {t}
    /\ UNCHANGED <<kernel, disk, lock, pc, memory, kept, crashes>>

\* The rollback handler on one record. The code walks newest first; the order
\* does not matter here and every order is allowed.
RollbackToken(d) ==
    /\ pc[d] = "rollback"
    /\ \E t \in todo \cap Token :
          /\ todo' = todo \ {t}
          /\ \/ refs' = refs \ {t} /\ UNCHANGED kept  \* released or "not found"
             \/ PfctlFails /\ kept' = kept \cup {t} /\ UNCHANGED refs
    /\ UNCHANGED <<rules, disk, lock, pc, memory, crashes>>

RollbackRules(d) ==
    /\ pc[d] = "rollback" /\ RulesRecord \in todo
    /\ todo' = todo \ {RulesRecord}
    /\ \/ rules' = rules \ {EffAnchor(d)} /\ UNCHANGED kept
       \/ PfctlFails /\ kept' = kept \cup {RulesRecord} /\ UNCHANGED rules
    /\ UNCHANGED <<refs, disk, lock, pc, memory, crashes>>

\* Journal.Rollback rewrites the journal once, at the end. A journal that
\* cannot be read is logged and skipped.
RollbackDone(d) ==
    /\ pc[d] = "rollback"
    /\ todo = {} \/ ReadFails
    /\ journal' \in IF todo = {} THEN Written(kept, journal) ELSE {journal}
    /\ todo' = {} /\ kept' = {}
    /\ Goto(d, "preflight")
    /\ UNCHANGED <<kernel, tokenFile, lock, memory, crashes>>

\* EnsureAnchorStatements: resolves the mode; in pf.conf mode it may patch the
\* file and reload the main ruleset, which flushes the anchors.
EnsureAnchor(d) ==
    /\ pc[d] = "preflight"
    /\ \E m \in Resolved :
          /\ mode' = [mode EXCEPT ![d] = m]
          /\ rules' \in IF m = "plain" THEN {rules, {}} ELSE {rules}
    /\ Goto(d, "detect")
    /\ UNCHANGED <<refs, disk, lock, tok, probeTok, replay, crashes>>

\* Preflight, the anchor patch or the strategy failed: Run returns its error
\* without calling cleanup.
StartupFails(d) ==
    /\ pc[d] \in {"preflight", "starting"}
    /\ Gone(d)
    /\ UNCHANGED <<kernel, disk, crashes>>

-----------------------------------------------------------------------------
(* The daemon: diag.Detect, with --transport auto. The probe has a PF of its *)
(* own, without a state directory (nothing of it is recorded) and with a     *)
(* mode nobody resolves (the rule goes to the plain anchor, whichever one pf *)
(* evaluates).                                                              *)

\* An explicit transport, an anchor that is not empty or not evaluated, a
\* utun or a pfctl call that fails: the experiment is left out.
DetectSkips(d) ==
    /\ pc[d] = "detect"
    /\ Goto(d, "starting")
    /\ UNCHANGED <<kernel, disk, lock, memory, replay, crashes>>

\* pf is disabled (nobody's reference is live), or its status cannot be read.
DetectEnable(d) ==
    /\ pc[d] = "detect" /\ "plain" \notin rules
    /\ refs = {} \/ PfctlFails
    /\ \E t \in Unused :
          /\ refs' = refs \cup {t}
          /\ \/ probeTok' = t /\ Goto(d, "dtLoad")
             \/ PfctlFails /\ UNCHANGED probeTok /\ Goto(d, "starting") \* no token printed
    /\ UNCHANGED <<rules, disk, lock, mode, tok, replay, crashes>>

\* The rule that steers one connection into the probe's utun.
DetectLoad(d) ==
    /\ pc[d] \in {"detect", "dtLoad"}
    /\ pc[d] = "detect" => "plain" \notin rules
    /\ \/ rules' = rules \cup {"plain"} /\ Goto(d, "dtFlush")
       \/ PfctlFails /\ UNCHANGED rules /\ Goto(d, "dtRelease")
    /\ UNCHANGED <<refs, disk, lock, memory, replay, crashes>>

\* The probe's cleanup stack, newest first; a step that fails is only noted.
DetectFlush(d) ==
    /\ pc[d] = "dtFlush"
    /\ \/ rules' = rules \ {"plain"}
       \/ PfctlFails /\ UNCHANGED rules
    /\ Goto(d, "dtRelease")
    /\ UNCHANGED <<refs, disk, lock, memory, replay, crashes>>

\* Mutant of DetectRelease: the release is never pushed on the stack.
DetectReleaseForgets(d) ==
    /\ pc[d] = "dtRelease"
    /\ probeTok' = NoToken
    /\ Goto(d, "starting")
    /\ UNCHANGED <<kernel, disk, lock, mode, tok, replay, crashes>>

DetectRelease(d) ==
    /\ pc[d] = "dtRelease"
    /\ \/ refs' = refs \ {probeTok}
       \/ PfctlFails /\ UNCHANGED refs
    /\ probeTok' = NoToken
    /\ Goto(d, "starting")
    /\ UNCHANGED <<rules, disk, lock, mode, tok, replay, crashes>>

\* The control socket is up and the supervisor runs.
Serve(d) ==
    /\ pc[d] = "starting"
    /\ Goto(d, "serving")
    /\ UNCHANGED <<kernel, disk, lock, memory, replay, crashes>>

-----------------------------------------------------------------------------
(* The daemon: one datapath, from setupPF to teardown.                     *)

BeginSetup(d) ==
    /\ pc[d] = "serving"
    /\ Goto(d, "enable")
    /\ UNCHANGED <<kernel, disk, lock, memory, replay, crashes>>

\* PF.Enable, first half: a reference already held is kept; a token left on
\* disk by another run is released and forgotten, whatever pfctl answers.
EnableHeld(d) ==
    /\ pc[d] = "enable" /\ tok[d] # NoToken
    /\ Goto(d, "load")
    /\ UNCHANGED <<kernel, disk, lock, memory, replay, crashes>>

\* Mutant of EnableStale: the old token is forgotten, not released.
EnableStaleForgets(d) ==
    /\ pc[d] = "enable" /\ tok[d] = NoToken
    /\ tokenFile' = NoToken
    /\ Goto(d, "enFresh")
    /\ UNCHANGED <<kernel, journal, lock, memory, replay, crashes>>

EnableStale(d) ==
    /\ pc[d] = "enable" /\ tok[d] = NoToken
    /\ \/ refs' = refs \ {tokenFile}
       \/ PfctlFails /\ UNCHANGED refs
    /\ tokenFile' = NoToken
    /\ Goto(d, "enFresh")
    /\ UNCHANGED <<rules, journal, lock, memory, replay, crashes>>

\* PF.Enable, second half: `pfctl -E`, the journal record (a failure to write
\* it is only logged), the token file.
EnableTake(d) ==
    /\ pc[d] = "enFresh"
    /\ \E t \in Unused :
          /\ refs' = refs \cup {t}
          /\ \/ tok' = [tok EXCEPT ![d] = t] /\ Goto(d, "enRecord")
             \/ PfctlFails /\ UNCHANGED tok /\ Goto(d, "tdFlush") \* no token printed
    /\ UNCHANGED <<rules, disk, lock, mode, probeTok, replay, crashes>>

\* Mutant of EnableRecord: the record is built from the token file, which is
\* written only afterwards.
EnableRecordStale(d) ==
    /\ pc[d] = "enRecord"
    /\ journal' \in Written(journal \cup {tokenFile}, journal)
    /\ Goto(d, "enWrite")
    /\ UNCHANGED <<kernel, tokenFile, lock, memory, replay, crashes>>

EnableRecord(d) ==
    /\ pc[d] = "enRecord"
    /\ journal' \in Written(journal \cup {tok[d]}, journal)
    /\ Goto(d, "enWrite")
    /\ UNCHANGED <<kernel, tokenFile, lock, memory, replay, crashes>>

EnableWrite(d) ==
    /\ pc[d] = "enWrite"
    /\ tokenFile' = tok[d]
    /\ Goto(d, "load")
    /\ UNCHANGED <<kernel, journal, lock, memory, replay, crashes>>

\* The token could not be persisted: the reference is given back at once.
EnableUndo(d) ==
    /\ pc[d] = "enWrite" /\ DiskFails
    /\ \/ refs' = refs \ {tok[d]}
       \/ PfctlFails /\ UNCHANGED refs
    /\ tok' = [tok EXCEPT ![d] = NoToken]
    /\ Goto(d, "tdFlush")
    /\ UNCHANGED <<rules, disk, lock, mode, probeTok, replay, crashes>>

\* PF.LoadRules: `pfctl -f`, then the journal record. A Reload with another
\* port window loads again under the running datapath.
LoadRules(d) ==
    /\ pc[d] = "load"
    /\ rules' = rules \cup {EffAnchor(d)}
    /\ Goto(d, "loadRecord")
    /\ UNCHANGED <<refs, disk, lock, memory, replay, crashes>>

ReloadRules(d) ==
    /\ pc[d] = "up"
    /\ rules' = rules \cup {EffAnchor(d)}
    /\ Goto(d, "loadRecord")
    /\ UNCHANGED <<refs, disk, lock, memory, replay, crashes>>

LoadRecord(d) ==
    /\ pc[d] = "loadRecord"
    /\ journal' \in Written(journal \cup {RulesRecord}, journal)
    /\ Goto(d, "up")
    /\ UNCHANGED <<kernel, tokenFile, lock, memory, replay, crashes>>

\* Setup failed after the PF was claimed, or the session ended for any reason.
EndSession(d) ==
    /\ pc[d] \in {"enable", "enFresh", "load", "up"}
    /\ Goto(d, "tdFlush")
    /\ UNCHANGED <<kernel, disk, lock, memory, replay, crashes>>

\* Transport.teardown: both steps are taken even if the first one fails.
TeardownFlush(d) ==
    /\ pc[d] = "tdFlush"
    /\ FlushRules(d)
    /\ Goto(d, "tdRelease")
    /\ UNCHANGED <<refs, disk, lock, memory, replay, crashes>>

TeardownRelease(d) ==
    /\ pc[d] = "tdRelease"
    /\ Release(d)
    /\ Goto(d, "serving")
    /\ UNCHANGED <<rules, journal, lock, mode, probeTok, replay, crashes>>

\* Daemon.Stop flushes the anchor from a control handler, wherever the
\* supervisor's goroutine is between two PF calls.
StopFlush(d) ==
    /\ pc[d] \in {"serving", "enable", "load", "up", "tdFlush", "tdRelease"}
    /\ FlushRules(d)
    /\ UNCHANGED <<refs, disk, lock, pc, memory, replay, crashes>>

-----------------------------------------------------------------------------
(* The daemon: cleanup, the end of Run.                                    *)

BeginCleanup(d) ==
    /\ pc[d] \in {"starting", "serving"}
    /\ Goto(d, "clFlush")
    /\ UNCHANGED <<kernel, disk, lock, memory, replay, crashes>>

CleanupFlush(d) ==
    /\ pc[d] = "clFlush"
    /\ FlushRules(d)
    /\ Goto(d, "clRelease")
    /\ UNCHANGED <<refs, disk, lock, memory, replay, crashes>>

CleanupRelease(d) ==
    /\ pc[d] = "clRelease"
    /\ Release(d)
    /\ Goto(d, "clClear")
    /\ UNCHANGED <<rules, journal, lock, mode, probeTok, replay, crashes>>

\* ClearExcept(StepHosts), whether or not the two steps before succeeded.
CleanupClear(d) ==
    /\ pc[d] = "clClear"
    /\ journal' \in Written({}, journal)
    /\ Goto(d, "clClose")
    /\ UNCHANGED <<kernel, tokenFile, lock, memory, replay, crashes>>

\* PF.Close retries Release, then Run returns and drops the lock.
CleanupClose(d) ==
    /\ pc[d] = "clClose"
    /\ \/ /\ HandleOf(d) \in refs
          /\ refs' = refs \ {HandleOf(d)} /\ tokenFile' = NoToken
       \/ /\ HandleOf(d) \notin refs \/ PfctlFails
          /\ UNCHANGED <<refs, tokenFile>>
    /\ Gone(d)
    /\ UNCHANGED <<rules, journal, crashes>>

-----------------------------------------------------------------------------
(* The guard: one run of `zapretd guard`.                                  *)

\* Mutant of GuardLock: the flock is not consulted.
GuardLockBlind(g) ==
    /\ pc[g] = "off"
    /\ lock' = g
    /\ Goto(g, "gResolve")
    /\ UNCHANGED <<kernel, disk, memory, replay, crashes>>

\* A guard that finds the lock taken exits unchanged.
GuardLock(g) ==
    /\ pc[g] = "off" /\ lock = NoProc
    /\ lock' = g
    /\ Goto(g, "gResolve")
    /\ UNCHANGED <<kernel, disk, memory, replay, crashes>>

\* Mutant of GuardResolve: the anchor path is used without being resolved.
GuardResolveSkipped(g) ==
    /\ pc[g] = "gResolve"
    /\ Goto(g, "gRead")
    /\ UNCHANGED <<kernel, disk, lock, memory, replay, crashes>>

GuardResolve(g) ==
    /\ pc[g] = "gResolve"
    /\ \E m \in Resolved : mode' = [mode EXCEPT ![g] = m]
    /\ Goto(g, "gRead")
    /\ UNCHANGED <<kernel, disk, lock, tok, probeTok, replay, crashes>>

\* Mutant of GuardRead: an empty anchor ends the run without PF.Close.
GuardReadNoClose(g) ==
    /\ pc[g] = "gRead"
    /\ \/ /\ EffAnchor(g) \in rules
          /\ Goto(g, "gFlush")
          /\ UNCHANGED <<lock, memory, replay>>
       \/ EffAnchor(g) \notin rules /\ Gone(g)
    /\ UNCHANGED <<kernel, disk, crashes>>

\* An empty or unreadable anchor: nothing to flush, but the deferred PF.Close
\* still runs.
GuardRead(g) ==
    /\ pc[g] = "gRead"
    /\ \/ EffAnchor(g) \in rules /\ Goto(g, "gFlush")
       \/ (EffAnchor(g) \notin rules \/ PfctlFails) /\ Goto(g, "gClose")
    /\ UNCHANGED <<kernel, disk, lock, memory, replay, crashes>>

GuardFlush(g) ==
    /\ pc[g] = "gFlush"
    /\ FlushRules(g)
    /\ Goto(g, "gRelease")
    /\ UNCHANGED <<refs, disk, lock, memory, replay, crashes>>

GuardRelease(g) ==
    /\ pc[g] = "gRelease"
    /\ Release(g)
    /\ Goto(g, "gClose")
    /\ UNCHANGED <<rules, journal, lock, mode, probeTok, replay, crashes>>

\* PF.Close releases once more before the deferred unlock.
GuardClose(g) ==
    /\ pc[g] = "gClose"
    /\ \/ /\ HandleOf(g) \in refs
          /\ refs' = refs \ {HandleOf(g)} /\ tokenFile' = NoToken
       \/ /\ HandleOf(g) \notin refs \/ PfctlFails
          /\ UNCHANGED <<refs, tokenFile>>
    /\ Gone(g)
    /\ UNCHANGED <<rules, journal, crashes>>

-----------------------------------------------------------------------------
(* `zaprctl doctor --repair`, diag.Repair: no lock, only a look whether a   *)
(* daemon answers. Its PF resolves no anchor mode.                          *)

NoDaemon == \A d \in Daemon : pc[d] = "off"

\* One repair at a time. It opens the journal as Launch does.
RepairStart(r) ==
    /\ pc[r] = "off" /\ NoDaemon /\ NoRepair
    /\ Goto(r, "rpRollback")
    /\ todo' = journal /\ kept' = {}
    /\ UNCHANGED <<kernel, disk, lock, memory, crashes>>

\* revertJournalStep of a token record: PF.Release, which looks for the token
\* in the file, not in the record, and has nothing to do without one.
RepairToken(r) ==
    /\ pc[r] = "rpRollback"
    /\ \E t \in todo \cap Token :
          /\ todo' = todo \ {t}
          /\ \/ /\ tokenFile \in refs \cup {NoToken}
                /\ refs' = refs \ {tokenFile} /\ tokenFile' = NoToken
                /\ UNCHANGED kept
             \/ /\ tokenFile # NoToken
                /\ tokenFile \notin refs \/ PfctlFails
                /\ kept' = kept \cup {t}
                /\ UNCHANGED <<refs, tokenFile>>
    /\ UNCHANGED <<rules, journal, lock, pc, memory, crashes>>

RepairRules(r) ==
    /\ pc[r] = "rpRollback" /\ RulesRecord \in todo
    /\ todo' = todo \ {RulesRecord}
    /\ \/ rules' = rules \ {EffAnchor(r)} /\ UNCHANGED kept
       \/ PfctlFails /\ kept' = kept \cup {RulesRecord} /\ UNCHANGED rules
    /\ UNCHANGED <<refs, disk, lock, pc, memory, crashes>>

RepairDone(r) ==
    /\ pc[r] = "rpRollback"
    /\ todo = {} \/ ReadFails
    /\ journal' \in IF todo = {} THEN Written(kept, journal) ELSE {journal}
    /\ todo' = {} /\ kept' = {}
    /\ Goto(r, "rpRelease")
    /\ UNCHANGED <<kernel, tokenFile, lock, memory, crashes>>

\* Then the token file and the anchor, whatever the journal said.
RepairRelease(r) ==
    /\ pc[r] = "rpRelease"
    /\ Release(r)
    /\ Goto(r, "rpRead")
    /\ UNCHANGED <<rules, journal, lock, mode, probeTok, replay, crashes>>

RepairRead(r) ==
    /\ pc[r] = "rpRead"
    /\ \/ EffAnchor(r) \in rules /\ Goto(r, "rpFlush")
       \/ (EffAnchor(r) \notin rules \/ PfctlFails) /\ Goto(r, "rpClose")
    /\ UNCHANGED <<kernel, disk, lock, memory, replay, crashes>>

RepairFlush(r) ==
    /\ pc[r] = "rpFlush"
    /\ FlushRules(r)
    /\ Goto(r, "rpClose")
    /\ UNCHANGED <<refs, disk, lock, memory, replay, crashes>>

\* The deferred PF.Close releases once more.
RepairClose(r) ==
    /\ pc[r] = "rpClose"
    /\ \/ /\ tokenFile \in refs
          /\ refs' = refs \ {tokenFile} /\ tokenFile' = NoToken
       \/ /\ tokenFile \notin refs \/ PfctlFails
          /\ UNCHANGED <<refs, tokenFile>>
    /\ Gone(r)
    /\ UNCHANGED <<rules, journal, crashes>>

-----------------------------------------------------------------------------
(* The environment.                                                        *)

\* SIGKILL, a panic or a power cut for one process.
Crash(p) ==
    /\ pc[p] # "off" /\ crashes < MaxCrashes
    /\ crashes' = crashes + 1
    /\ Gone(p)
    /\ UNCHANGED <<kernel, disk>>

\* A reboot empties the kernel and leaves the state directory.
Reboot ==
    /\ rules' = {} /\ refs' = {}
    /\ lock' = NoProc
    /\ pc' = [p \in Proc |-> "off"]
    /\ mode' = [p \in Proc |-> "unresolved"]
    /\ tok' = [p \in Proc |-> NoToken] /\ probeTok' = NoToken
    /\ todo' = {} /\ kept' = {}
    /\ UNCHANGED <<disk, crashes>>

\* Another program runs `pfctl -f /etc/pf.conf`, which wipes our anchor.
ForeignReload ==
    /\ rules # {}
    /\ rules' = {}
    /\ UNCHANGED <<refs, disk, lock, pc, memory, replay, crashes>>

-----------------------------------------------------------------------------
StartupStep(d) ==
    \/ RollbackToken(d) \/ RollbackRules(d) \/ RollbackDone(d)
    \/ EnsureAnchor(d) \/ StartupFails(d) \/ Serve(d)
    \/ DetectSkips(d) \/ DetectEnable(d) \/ DetectLoad(d)
    \/ DetectFlush(d) \/ DetectRelease(d)

SetupStep(d) ==
    \/ EnableHeld(d) \/ EnableStale(d) \/ EnableTake(d) \/ EnableRecord(d)
    \/ EnableWrite(d) \/ EnableUndo(d) \/ LoadRules(d) \/ LoadRecord(d)

TeardownStep(d) == TeardownFlush(d) \/ TeardownRelease(d)

CleanupStep(d) ==
    \/ CleanupFlush(d) \/ CleanupRelease(d) \/ CleanupClear(d) \/ CleanupClose(d)

DaemonStep(d) ==
    \/ Launch(d) \/ StartupStep(d)
    \/ BeginSetup(d) \/ SetupStep(d) \/ ReloadRules(d) \/ EndSession(d)
    \/ TeardownStep(d) \/ StopFlush(d)
    \/ BeginCleanup(d) \/ CleanupStep(d)

GuardStep(g) ==
    \/ GuardLock(g) \/ GuardResolve(g) \/ GuardRead(g)
    \/ GuardFlush(g) \/ GuardRelease(g) \/ GuardClose(g)

RepairStep(r) ==
    \/ RepairStart(r) \/ RepairToken(r) \/ RepairRules(r) \/ RepairDone(r)
    \/ RepairRelease(r) \/ RepairRead(r) \/ RepairFlush(r) \/ RepairClose(r)

Next ==
    \/ \E d \in Daemon : DaemonStep(d)
    \/ \E g \in Guard : GuardStep(g)
    \/ \E r \in Repairer : RepairStep(r)
    \/ \E p \in Proc : Crash(p)
    \/ Reboot
    \/ ForeignReload

Spec == Init /\ [][Next]_vars

(* launchd starts the guard every GuardInterval seconds and a run of it is  *)
(* a straight line; so are start-up, setup, teardown and cleanup once they  *)
(* began. Nothing makes a daemon start, or a session reach setupPF: the     *)
(* steps before it (the uplink, pflog, BPF) may fail for as long as they    *)
(* like.                                                                    *)
Fairness ==
    /\ \A g \in Guard : WF_vars(GuardStep(g))
    /\ \A d \in Daemon :
          /\ WF_vars(StartupStep(d)) /\ WF_vars(SetupStep(d))
          /\ WF_vars(TeardownStep(d)) /\ WF_vars(CleanupStep(d))

FairSpec == Spec /\ Fairness

-----------------------------------------------------------------------------
(* A SIGKILL can strike whenever rules are, or are about to be, in the      *)
(* anchor. From PF.Enable's return until teardown releases it, the          *)
(* reference under the datapath is live, whatever other daemons and guards  *)
(* attempt, and the token file names it, so the guard of a killed daemon    *)
(* can release it.                                                          *)
RunningIsRecoverable ==
    \A d \in Daemon : pc[d] \in LoadedPc => tok[d] \in refs /\ tokenFile = tok[d]

(* The journal forgets a reference only once it is released.               *)
TokenRecordKept == [][(journal \ journal') \cap refs' = {}]_vars

(* The same for every record: a rules record is dropped when the anchor that *)
(* pf evaluates holds no rules of ours any more ("the records are the sole   *)
(* memory of what must be undone", Journal.Clear).                          *)
RecordKeptUntilReverted ==
    [][/\ (journal \ journal') \cap refs' = {}
       /\ RulesRecord \in journal \ journal' => MainMode \notin rules']_vars

(* When cleanup is about to return, pf evaluates no rule of ours and neither *)
(* the token in memory nor the one on disk is a live reference. Unless a     *)
(* process has been killed, there is no rule in either anchor and no         *)
(* reference at all, the probe's included.                                  *)
CleanupUndoes ==
    \A d \in Daemon : pc[d] = "clClose" =>
        /\ MainMode \notin rules
        /\ {tok[d], tokenFile} \cap refs = {}
        /\ crashes = 0 => rules = {} /\ refs = {}

(* A reference known to a dying process only is the one thing that is ever  *)
(* lost: PfReference, with the references seen through the state directory. *)
RefStatus(t) ==
    CASE t \notin refs -> "free"
      [] t \in refs /\ t \in journal \cup {tokenFile} -> "recorded"
      [] t \in refs /\ t \notin journal \cup {tokenFile} ->
            IF probeTok = t \/ \E p \in Proc : tok[p] = t THEN "held" ELSE "lost"

ReferenceStatus == [t \in Token |-> RefStatus(t)]
Reference == INSTANCE PfReference WITH status <- ReferenceStatus
ReferenceSpec == Reference!Spec

(* Every reference follows PfReference, and the journal forgets it only     *)
(* once it is released.                                                     *)
TokensAccounted == ReferenceSpec /\ TokenRecordKept

(* Rules of a dead daemon that pf evaluates are flushed, unless a daemon     *)
(* takes over.                                                              *)
OrphanRulesFlushed ==
    (NoDaemon /\ MainMode \in rules) ~> (MainMode \notin rules \/ ~NoDaemon)

(* The same for the other anchor, where a probe that is killed in wildcard   *)
(* mode leaves its rule: no guard looks there, and the next probe takes it   *)
(* for a running daemon and gives up.                                       *)
EveryAnchorFlushed ==
    (NoDaemon /\ rules # {}) ~> (rules = {} \/ ~NoDaemon)

(* So is a reference the token file names.                                  *)
OrphanReferenceReleased ==
    (NoDaemon /\ tokenFile \in refs) ~> (tokenFile \notin refs \/ ~NoDaemon)

=============================================================================
