----------------------------- MODULE SystemFiles -----------------------------
(***************************************************************************)
(* The two system files zapret-mac patches, /etc/hosts (netcfg.Hosts) and  *)
(* /etc/pf.conf (netcfg.PF, when the anchor is reached through it), the    *)
(* rollback journal that makes the patches reversible, and everybody who   *)
(* touches them:                                                           *)
(*   daemon   the main goroutine and the supervisor of zapretd,            *)
(*   handler  a `hosts apply' or `hosts remove' command of the daemon,     *)
(*   cli      `zaprctl doctor --repair' or `zapretd uninstall-daemon',     *)
(* and third parties: an editor, an OS update, a VPN client.               *)
(*                                                                         *)
(* A file is our block (there or not) and a version of everything else.    *)
(***************************************************************************)
EXTENDS Journal, Integers

CONSTANTS
    LoadFails,    \* TRUE: a pfctl call may fail
    Uninstalls,   \* TRUE: the daemon may be uninstalled
    Beside,       \* TRUE: a repair may run beside a daemon that is starting
    MaxEdits,     \* bound on the foreign edits of a behaviour
    MaxLosses     \* bound on the SIGKILLs and power losses of a behaviour

File == {"hosts", "pf.conf"}
Party == {"daemon", "handler", "cli"}
Handles == {"pf", "hosts", "cli", "cliHosts"}

ASSUME FilesAssumption ==
    /\ DiskAssumption /\ Subject = File /\ Handle = Handles
    /\ LoadFails \in BOOLEAN /\ Uninstalls \in BOOLEAN /\ Beside \in BOOLEAN
    /\ MaxEdits \in Nat /\ MaxLosses \in Nat

VARIABLES
    file,     \* disk: the content of each file
    main,     \* kernel: the loaded main ruleset holds our anchor statements
    intact,   \* kernel: our anchor holds the rules the datapath loaded
    place,    \* where the daemon and the cli are
    kind,     \* what the cli was started as
    job,      \* the patch each process is in the middle of
    read,     \* memory: the records a rollback or a clear read ...
    unread,   \* ... those not replayed yet ...
    left,     \* ... and those it leaves
    verified, \* memory: the last PF.Verify found no drift
    edits,    \* history: number of foreign edits
    backed,   \* history: the newest foreign version a backup has secured
    adopted,  \* history: a clean exit left our statements in pf.conf
    excused,  \* history: pfctl refused a load or a removal, or a third party
              \* loaded a main ruleset
    losses    \* history: number of crashes

files == <<file, main, intact>>
replaying == <<read, unread, left>>
history == <<edits, backed, adopted, excused, losses>>
filesVars == <<journalVars, files, place, kind, job, replaying, verified, history>>

Content == [ours: BOOLEAN, theirs: 0 .. MaxEdits]
DaemonPlace == {"down", "replay", "ensure", "ensured", "startup", "serving",
             "resetup", "clRead", "clRewrite", "clClose"}
CliPlace == {"idle", "replay", "conf", "hosts", "clear", "done"}
Job == [at: {"none", "backup", "open", "record", "write", "verify", "restore",
             "reload", "done"},
        file: File, want: BOOLEAN, orig: Content, ok: BOOLEAN]
Idle == [at |-> "none", file |-> "hosts", want |-> FALSE,
         orig |-> [ours |-> FALSE, theirs |-> 0], ok |-> TRUE]

FilesTypeOK ==
    /\ JournalTypeOK
    /\ file \in [File -> Content]
    /\ main \in BOOLEAN /\ intact \in BOOLEAN
    /\ place \in [{"daemon", "cli"} -> DaemonPlace \cup CliPlace]
    /\ place.daemon \in DaemonPlace /\ place.cli \in CliPlace
    /\ kind \in {"none", "repair", "uninstall"}
    /\ job \in [Party -> Job]
    /\ read \in [{"daemon", "cli"} -> SUBSET Subject]
    /\ unread \in [{"daemon", "cli"} -> SUBSET Subject]
    /\ left \in [{"daemon", "cli"} -> SUBSET Subject]
    /\ verified \in BOOLEAN
    /\ edits \in 0 .. MaxEdits
    /\ backed \in [File -> 0 .. MaxEdits]
    /\ adopted \in BOOLEAN
    /\ excused \in BOOLEAN
    /\ losses \in 0 .. MaxLosses

FilesInit ==
    /\ JournalInit
    /\ file = [f \in File |-> [ours |-> FALSE, theirs |-> 0]]
    /\ main = FALSE /\ intact = TRUE
    /\ place = [p \in {"daemon", "cli"} |-> IF p = "daemon" THEN "down" ELSE "idle"]
    /\ kind = "none"
    /\ job = [p \in Party |-> Idle]
    /\ read = [p \in {"daemon", "cli"} |-> {}]
    /\ unread = read /\ left = read
    /\ verified = FALSE
    /\ edits = 0 /\ backed = [f \in File |-> 0]
    /\ adopted = FALSE /\ excused = FALSE /\ losses = 0

-----------------------------------------------------------------------------
(* One patch of one file: Hosts.Apply, PF.EnsureAnchorStatements,          *)
(* PF.RemoveAnchorStatements.                                              *)

MoveTo(p, label) == place' = [place EXCEPT ![p] = label]
At(p, step) == job[p].at = step
Step(p, step) == job' = [job EXCEPT ![p].at = step]
Finish(p, good) == job' = [job EXCEPT ![p].at = "done", ![p].ok = good]
Forget(p) == job' = [job EXCEPT ![p] = Idle]

\* Which handle the patch of process p records with.
PatchHandle(p) == CASE p = "daemon" -> "pf" [] p = "handler" -> "hosts" [] p = "cli" -> "cliHosts"

\* Taking our statements out of pf.conf is not recorded; the rest is.
Recorded(p) == job[p].file = "hosts" \/ job[p].want

\* Mutant of Planned: a line of the rest is dropped with our block.
PlannedShort(p) == [ours |-> job[p].want, theirs |-> job[p].orig.theirs - 1]

\* The content the patch writes: our block as wanted, the rest as it was read.
Planned(p) == [ours |-> job[p].want, theirs |-> job[p].orig.theirs]

\* The file is read and the change planned; nothing to change is success.
Begin(p, f, w) ==
    job' = [job EXCEPT ![p] = [at |-> IF file[f].ours = w THEN "done" ELSE "backup",
                               file |-> f, want |-> w, orig |-> file[f], ok |-> TRUE]]

\* Mutant of Backup: the copy is made from the bytes read before the pfctl check.
BackupStale(p) ==
    /\ At(p, "backup")
    /\ LET f == job[p].file IN backed' = [backed EXCEPT ![f] = file[f].theirs]
    /\ Step(p, IF Recorded(p) THEN "open" ELSE "write")
    /\ UNCHANGED <<journalVars, files, place, kind, replaying, verified, edits, adopted,
                   excused, losses>>

\* backupLocked, backupPfConf: the file must still be what was read; the copy
\* then secures every foreign edit made so far.
Backup(p) ==
    /\ At(p, "backup")
    /\ LET f == job[p].file IN
          /\ file[f] = job[p].orig
          /\ backed' = [backed EXCEPT ![f] = file[f].theirs]
    /\ Step(p, IF Recorded(p) THEN "open" ELSE "write")
    /\ UNCHANGED <<journalVars, files, place, kind, replaying, verified, edits, adopted,
                   excused, losses>>

\* The candidate does not parse, the file changed under the backup, or the
\* backup or the write failed: an error, nothing written.
Refuse(p) ==
    /\ \/ At(p, "backup") /\ file[job[p].file] # job[p].orig
       \/ At(p, "backup") /\ job[p].file = "pf.conf" /\ LoadFails
       \/ (At(p, "backup") \/ At(p, "write")) /\ WritesFail
    /\ Finish(p, FALSE)
    /\ excused' = TRUE
    /\ UNCHANGED <<journalVars, files, place, kind, replaying, verified, edits, backed,
                   adopted, losses>>

\* journalLocked opens the journal at the first record.
OpenHandle(p) ==
    /\ At(p, "open")
    /\ IF fd[PatchHandle(p)] = "closed" THEN Open(PatchHandle(p)) ELSE UNCHANGED journalVars
    /\ Step(p, "record")
    /\ UNCHANGED <<files, place, kind, replaying, verified, history>>

\* Mutant of RecordPatch: nothing is recorded.
RecordPatchSkipped(p) ==
    /\ At(p, "record")
    /\ Step(p, "write")
    /\ UNCHANGED <<journalVars, files, place, kind, replaying, verified, history>>

\* The record names the change before it is made; its failure is only logged.
RecordPatch(p) ==
    /\ At(p, "record")
    /\ Append(PatchHandle(p), job[p].file)
    /\ Step(p, "write")
    /\ UNCHANGED <<files, place, kind, replaying, verified, history>>

\* writeFileAtomic.
Write(p) ==
    /\ At(p, "write")
    /\ file' = [file EXCEPT ![job[p].file] = Planned(p)]
    /\ adopted' = (adopted /\ job[p].file # "pf.conf")
    /\ Step(p, "verify")
    /\ UNCHANGED <<journalVars, main, intact, place, kind, replaying, verified, edits,
                   backed, excused, losses>>

\* The file is read again and compared (and pf.conf parsed by pfctl).
Verify(p) ==
    /\ At(p, "verify")
    /\ LET f == job[p].file IN
          \/ /\ file[f] = Planned(p)
             /\ IF f = "pf.conf" THEN Step(p, "reload") ELSE Finish(p, TRUE)
          \/ /\ file[f] # Planned(p) \/ (f = "pf.conf" /\ LoadFails)
             /\ Step(p, "restore")
    /\ UNCHANGED <<journalVars, files, place, kind, replaying, verified, history>>

\* A mismatch writes back what was read at the start.
Restore(p) ==
    /\ At(p, "restore")
    /\ \/ file' = [file EXCEPT ![job[p].file] = job[p].orig]
       \/ WritesFail /\ UNCHANGED file
    /\ Finish(p, FALSE)
    /\ excused' = TRUE
    /\ UNCHANGED <<journalVars, main, intact, place, kind, replaying, verified, edits,
                   backed, adopted, losses>>

\* reloadMainLocked: a failure is the error of EnsureAnchorStatements and a log
\* line of RemoveAnchorStatements. Loading a main ruleset wipes our anchor.
Reload(p) ==
    /\ At(p, "reload")
    /\ \/ /\ main' = file["pf.conf"].ours
          /\ intact' = FALSE
          /\ Finish(p, TRUE)
          /\ UNCHANGED excused
       \/ /\ LoadFails
          /\ Finish(p, ~job[p].want)
          /\ excused' = TRUE
          /\ UNCHANGED <<main, intact>>
    /\ UNCHANGED <<journalVars, file, place, kind, replaying, verified, edits, backed,
                   adopted, losses>>

PatchStep(p) ==
    \/ Backup(p) \/ Refuse(p) \/ OpenHandle(p) \/ RecordPatch(p) \/ Write(p)
    \/ Verify(p) \/ Restore(p) \/ Reload(p)

-----------------------------------------------------------------------------
(* Journal.Rollback, by the daemon at start and by a repair.               *)

ReplayHandle(p) == IF p = "daemon" THEN "pf" ELSE "cli"

\* The records are read once. The code walks them newest first; the handles of
\* one daemon number their records independently, so any order is possible.
BeginReplay(p) ==
    /\ read' = [read EXCEPT ![p] = records]
    /\ unread' = [unread EXCEPT ![p] = records]
    /\ left' = [left EXCEPT ![p] = {}]

EndReplay(p) ==
    /\ read' = [read EXCEPT ![p] = {}]
    /\ unread' = [unread EXCEPT ![p] = {}]
    /\ left' = [left EXCEPT ![p] = {}]

\* One record. The daemon keeps the hosts record on purpose; a repair removes
\* the block. (The records about pf itself are those of PfLifecycle.)
ReplayRecord(p) ==
    /\ place[p] = "replay" /\ At(p, "none")
    /\ \E r \in unread[p] :
          /\ unread' = [unread EXCEPT ![p] = @ \ {r}]
          /\ IF r = "hosts" /\ p = "daemon"
             THEN left' = [left EXCEPT ![p] = @ \cup {r}] /\ UNCHANGED job
             ELSE Begin(p, r, FALSE) /\ UNCHANGED left
    /\ UNCHANGED <<journalVars, files, place, kind, read, verified, history>>

\* Mutant of ReplayReverted: a failed removal drops its record too.
ReplayRevertedAnyway(p) ==
    /\ place[p] = "replay" /\ At(p, "done")
    /\ Forget(p)
    /\ UNCHANGED <<journalVars, files, place, kind, replaying, verified, history>>

\* A handler that failed keeps the record for a later run.
ReplayReverted(p) ==
    /\ place[p] = "replay" /\ At(p, "done")
    /\ left' = [left EXCEPT ![p] = IF job[p].ok THEN @ ELSE @ \cup {job[p].file}]
    /\ Forget(p)
    /\ UNCHANGED <<journalVars, files, place, kind, read, unread, verified, history>>

\* The journal is rewritten once, at the end; an empty one is left alone.
ReplayDone(p) ==
    /\ place[p] = "replay" /\ At(p, "none") /\ unread[p] = {}
    /\ IF read[p] = {} THEN UNCHANGED journalVars
                       ELSE Rewrite(ReplayHandle(p), read[p], left[p])
    /\ MoveTo(p, IF p = "daemon" THEN "ensure" ELSE "hosts")
    /\ EndReplay(p)
    /\ UNCHANGED <<files, kind, job, verified, history>>

-----------------------------------------------------------------------------
(* The daemon.                                                             *)

\* The death of the daemon: descriptors, memory and pending patches are gone.
DaemonGone ==
    /\ MoveTo("daemon", "down")
    /\ Close({"pf", "hosts"})
    /\ job' = [job EXCEPT !.daemon = Idle, !.handler = Idle]
    /\ EndReplay("daemon")
    /\ verified' = FALSE

\* launchd starts the daemon while it is installed, a repair or not.
StartDaemon ==
    /\ place.daemon = "down" /\ kind # "uninstall"
    /\ Beside \/ place.cli \in {"idle", "done"}
    /\ Open("pf")
    /\ BeginReplay("daemon")
    /\ MoveTo("daemon", "replay")
    /\ UNCHANGED <<files, kind, job, verified, history>>

\* Run patches pf.conf before anything holds rules, and so does setupPF for
\* every datapath it starts, which then loads the rules.
Ensure ==
    /\ \/ place.daemon = "ensure" /\ MoveTo("daemon", "ensured")
       \/ place.daemon = "serving" /\ MoveTo("daemon", "resetup")
    /\ Begin("daemon", "pf.conf", TRUE)
    /\ UNCHANGED <<journalVars, files, kind, replaying, verified, history>>

Ensured ==
    /\ place.daemon = "ensured" /\ At("daemon", "done") /\ job.daemon.ok
    /\ MoveTo("daemon", "startup") /\ Forget("daemon")
    /\ UNCHANGED <<journalVars, files, kind, replaying, verified, history>>

\* Run returns an error without calling cleanup: the patch failed, or the
\* strategy does not load.
RunFails ==
    /\ \/ place.daemon = "ensured" /\ At("daemon", "done") /\ ~job.daemon.ok
       \/ place.daemon \in {"ensure", "startup"}
    /\ DaemonGone
    /\ UNCHANGED <<records, torn, lost, files, kind, history>>

ServeCommands ==
    /\ place.daemon = "startup"
    /\ MoveTo("daemon", "serving")
    /\ UNCHANGED <<journalVars, files, kind, job, replaying, verified, history>>

\* setupPF goes on to LoadRules, or the session fails.
SetUp ==
    /\ place.daemon = "resetup" /\ At("daemon", "done")
    /\ intact' = (intact \/ job.daemon.ok)
    /\ MoveTo("daemon", "serving") /\ Forget("daemon")
    /\ UNCHANGED <<journalVars, file, main, kind, replaying, verified, history>>

\* PF.Verify in pf.conf mode looks at the file and at our anchor.
VerifyPF ==
    /\ place.daemon = "serving"
    /\ verified' = (file["pf.conf"].ours /\ intact)
    /\ UNCHANGED <<journalVars, files, place, kind, job, replaying, history>>

\* `hosts apply' and `hosts remove': Hosts.mu lets one in at a time.
HostsCommand ==
    /\ place.daemon \in {"serving", "resetup"} /\ At("handler", "none")
    /\ \E w \in BOOLEAN : Begin("handler", "hosts", w)
    /\ UNCHANGED <<journalVars, files, place, kind, replaying, verified, history>>

HostsDone ==
    /\ At("handler", "done")
    /\ Forget("handler")
    /\ UNCHANGED <<journalVars, files, place, kind, replaying, verified, history>>

\* cleanup. Server.Close does not wait for a command that is still running.
BeginClear ==
    /\ place.daemon \in {"startup", "serving"}
    /\ MoveTo("daemon", "clRead")
    /\ UNCHANGED <<journalVars, files, kind, job, replaying, verified, history>>

ClearRead ==
    /\ place.daemon = "clRead"
    /\ BeginReplay("daemon")
    /\ MoveTo("daemon", "clRewrite")
    /\ UNCHANGED <<journalVars, files, kind, job, verified, history>>

\* Mutant of ClearRewrite: Clear instead of ClearExcept(StepHosts).
ClearRewriteAll ==
    /\ place.daemon = "clRewrite"
    /\ Rewrite("pf", read.daemon, {})
    /\ adopted' = (adopted \/ file["pf.conf"].ours)
    /\ EndReplay("daemon")
    /\ MoveTo("daemon", "clClose")
    /\ UNCHANGED <<files, kind, job, verified, edits, backed, excused, losses>>

\* ClearExcept(StepHosts): the pinned block outlives the process; our
\* statements in pf.conf are left there and no longer recorded.
ClearRewrite ==
    /\ place.daemon = "clRewrite"
    /\ Rewrite("pf", read.daemon, read.daemon \cap {"hosts"})
    /\ adopted' = (adopted \/ file["pf.conf"].ours)
    /\ EndReplay("daemon")
    /\ MoveTo("daemon", "clClose")
    /\ UNCHANGED <<files, kind, job, verified, edits, backed, excused, losses>>

\* Hosts.Close waits for Hosts.mu, hence for a patch in progress.
Exit ==
    /\ place.daemon = "clClose" /\ At("handler", "none")
    /\ DaemonGone
    /\ UNCHANGED <<records, torn, lost, files, kind, history>>

-----------------------------------------------------------------------------
(* `zaprctl doctor --repair' and `zapretd uninstall-daemon'.                *)

\* Repair refuses while the control socket answers; a daemon that is still
\* starting does not answer yet. It opens the journal if it holds anything.
Repair ==
    /\ place.cli = "idle"
    /\ \/ place.daemon = "down"
       \/ Beside /\ place.daemon \in {"replay", "ensure", "ensured", "startup"}
    /\ kind' = "repair"
    /\ IF records = {} THEN UNCHANGED journalVars ELSE Open("cli")
    /\ BeginReplay("cli")
    /\ MoveTo("cli", "replay")
    /\ UNCHANGED <<files, job, verified, history>>

\* The service is booted out first and its plist removed.
Uninstall ==
    /\ Uninstalls /\ place.cli = "idle" /\ place.daemon = "down"
    /\ kind' = "uninstall"
    /\ MoveTo("cli", "conf")
    /\ UNCHANGED <<journalVars, files, job, replaying, verified, history>>

\* RemoveAnchorStatements (uninstall), then Hosts.Remove (both).
CliRemove ==
    /\ place.cli \in {"conf", "hosts"} /\ At("cli", "none")
    /\ Begin("cli", IF place.cli = "conf" THEN "pf.conf" ELSE "hosts", FALSE)
    /\ UNCHANGED <<journalVars, files, place, kind, replaying, verified, history>>

\* A step that failed is reported and the next one runs all the same.
CliRemoved ==
    /\ place.cli \in {"conf", "hosts"} /\ At("cli", "done")
    /\ MoveTo("cli", CASE place.cli = "conf" -> "hosts"
                     [] place.cli = "hosts" /\ kind = "uninstall" -> "clear"
                     [] place.cli = "hosts" /\ kind = "repair" -> "done")
    /\ Forget("cli")
    /\ IF place.cli = "hosts" THEN Close({"cli", "cliHosts"}) ELSE UNCHANGED fd
    /\ UNCHANGED <<records, torn, lost, files, kind, replaying, verified, history>>

\* Journal.Clear.
CliClear ==
    /\ place.cli = "clear"
    /\ \/ records' = {} /\ torn' = FALSE
       \/ WritesFail /\ UNCHANGED <<records, torn>>
    /\ MoveTo("cli", "done")
    /\ UNCHANGED <<fd, lost, files, kind, job, replaying, verified, history>>

\* The next repair.
CliAgain ==
    /\ place.cli = "done" /\ kind = "repair"
    /\ MoveTo("cli", "idle") /\ kind' = "none"
    /\ UNCHANGED <<journalVars, files, job, replaying, verified, history>>

-----------------------------------------------------------------------------
(* The environment.                                                        *)

\* A third party rewrites a file, keeping our block or not.
ForeignEdit ==
    /\ edits < MaxEdits
    /\ edits' = edits + 1
    /\ \E f \in File, k \in BOOLEAN :
          file' = [file EXCEPT ![f] = [ours |-> file[f].ours /\ k, theirs |-> edits + 1]]
    /\ verified' = FALSE
    /\ UNCHANGED <<journalVars, main, intact, place, kind, job, replaying, backed,
                   adopted, excused, losses>>

\* A third party loads pf.conf or a ruleset of its own; our anchor is wiped.
ForeignLoad ==
    /\ main' \in {FALSE, file["pf.conf"].ours}
    /\ intact' = FALSE
    /\ verified' = FALSE
    /\ excused' = TRUE
    /\ UNCHANGED <<journalVars, file, place, kind, job, replaying, edits, backed,
                   adopted, losses>>

\* SIGKILL of the daemon.
Kill ==
    /\ place.daemon # "down" /\ losses < MaxLosses
    /\ losses' = losses + 1
    /\ DaemonGone
    /\ UNCHANGED <<records, torn, lost, files, kind, edits, backed, adopted,
                   excused>>

\* A power loss ends every process and may tear the line being appended; at
\* boot the kernel loads /etc/pf.conf.
PowerLoss ==
    /\ losses < MaxLosses
    /\ losses' = losses + 1
    /\ torn' \in IF \E p \in Party : At(p, "record") THEN {torn, TRUE} ELSE {torn}
    /\ fd' = [h \in Handle |-> "closed"]
    /\ main' = file["pf.conf"].ours
    /\ intact' = FALSE
    /\ job' = [p \in Party |-> Idle]
    /\ place' = [p \in {"daemon", "cli"} |->
                    IF p = "daemon" THEN "down" ELSE IF kind = "uninstall" THEN "done" ELSE "idle"]
    /\ kind' = (IF kind = "uninstall" THEN kind ELSE "none")
    /\ read' = [p \in {"daemon", "cli"} |-> {}] /\ unread' = read' /\ left' = read'
    /\ verified' = FALSE
    /\ UNCHANGED <<records, lost, file, edits, backed, adopted, excused>>

-----------------------------------------------------------------------------
DaemonAction ==
    \/ StartDaemon \/ Ensure \/ Ensured \/ RunFails \/ ServeCommands \/ SetUp \/ VerifyPF
    \/ BeginClear \/ ClearRead \/ ClearRewrite \/ Exit

ReplayStep(p) == ReplayRecord(p) \/ ReplayReverted(p) \/ ReplayDone(p)

CliStep == Repair \/ Uninstall \/ CliRemove \/ CliRemoved \/ CliClear \/ CliAgain

FilesNext ==
    \/ \E p \in Party : PatchStep(p)
    \/ \E p \in {"daemon", "cli"} : ReplayStep(p)
    \/ DaemonAction
    \/ HostsCommand \/ HostsDone
    \/ CliStep
    \/ ForeignEdit \/ ForeignLoad \/ Kill \/ PowerLoss

FilesSpec == FilesInit /\ [][FilesNext]_filesVars

-----------------------------------------------------------------------------
(* "A change with no record is not [harmless]" (Journal.Record): whatever   *)
(* of ours is in a system file has a readable record, except statements a   *)
(* clean exit left in pf.conf on purpose. The exceptions are a record that  *)
(* never reached the file, a repair beside a starting daemon, and an        *)
(* uninstallation, which clears the journal whatever failed before.         *)
ChangesRecorded ==
    Beside \/ lost \/ kind = "uninstall"
    \/ \A f \in File : file[f].ours => f \in records \/ (f = "pf.conf" /\ adopted)

(* What a third party wrote before our backup of the file was taken is      *)
(* never overwritten by us, by a patch or by the restore after one.         *)
EditsKept == Beside \/ \A f \in File : file[f].theirs >= backed[f]

(* A rollback drops the record of a patch only when the patch is gone.      *)
DropMeansReverted ==
    [][\A p \in {"daemon", "cli"}, f \in File :
          /\ place[p] = "replay" /\ place'[p] # "replay" /\ ~Beside
          /\ f \in records \ records'
          => ~file'[f].ours]_filesVars

(* A daemon that finds pf.conf already patched trusts that the kernel       *)
(* loaded it. Crashes alone never make that wrong: a daemon that serves has *)
(* its statements in the loaded ruleset, unless pfctl refused a load or a   *)
(* removal, a record was lost or a third party loaded something else.       *)
ServedIsLoaded ==
    place.daemon = "serving" => main \/ excused \/ lost \/ edits > 0 \/ Beside

(* The type invariant and both: whatever of ours is in a system file has a  *)
(* readable record, and a serving daemon's statements are in the ruleset.   *)
FilesBacked == FilesTypeOK /\ ChangesRecorded /\ ServedIsLoaded

(* Verify finds no drift only while the main ruleset still names our anchor *)
(* (pf.go: "the main ruleset still names our anchor").                      *)
VerifiedIsLoaded == verified => main

(* "`zapretd uninstall-daemon` and `zaprctl doctor --repair` remove them"   *)
(* (Daemon.cleanup, of the statements in pf.conf): after a repair in which  *)
(* nothing failed none is left.                                             *)
RepairRemovesStatements ==
    [][place.cli = "hosts" /\ place'.cli = "done" /\ ~excused => ~file["pf.conf"].ours]_filesVars
=============================================================================
