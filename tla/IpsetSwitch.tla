----------------------------- MODULE IpsetSwitch -----------------------------
(***************************************************************************)
(* `zaprctl ipset any|none|loaded' (Daemon.IPSet): the list file and its   *)
(* backup change places. Commands come from connections, each served by a  *)
(* goroutine of its own, and nothing keeps two of them apart. The daemon   *)
(* may be killed between two steps, and a write may fail.                  *)
(***************************************************************************)
EXTENDS Integers

CONSTANTS
    Caller,       \* connections with a command
    MaxSwitches,  \* bound on the commands of a behaviour
    MaxFaults     \* bound on its crashes and failed writes

ASSUME IpsetAssumption == MaxSwitches \in Nat /\ MaxFaults \in Nat

Mode == {"any", "none", "loaded"}
\* What a file holds: the real list, the sentinel, nothing; or it is missing.
FileState == {"real", "sentinel", "empty", "absent"}

VARIABLES
    list, backup,  \* disk: ipset-all.txt and ipset-all.txt.backup
    ipc,           \* where each command is
    mode,          \* what it asks for
    cur,           \* the mode it read at first; "unknown" when there is no file
    hadBackup,     \* whether it saw a backup then
    told,          \* what its last command answered
    compiled,      \* what the strategy was last compiled against
    switches, faults  \* history: how often bounded things happened

ipsetVars == <<list, backup, ipc, mode, cur, hadBackup, told, compiled, switches, faults>>

IpsetTypeOK ==
    /\ {list, backup} \subseteq FileState
    /\ ipc \in [Caller -> {"idle", "read", "remove", "keep", "write", "restore", "reload"}]
    /\ mode \in [Caller -> Mode] /\ cur \in [Caller -> Mode \cup {"unknown"}]
    /\ hadBackup \in [Caller -> BOOLEAN]
    /\ told \in [Caller -> {"none", "ok", "error"}]
    /\ compiled \in FileState
    /\ switches \in 0 .. MaxSwitches /\ faults \in 0 .. MaxFaults

\* ipsetState.
ModeOf(f) == CASE f = "real" -> "loaded" [] f = "sentinel" -> "none" [] f = "empty" -> "any"
               [] f = "absent" -> "unknown"
Body(m) == IF m = "none" THEN "sentinel" ELSE "empty"

IpsetInit ==
    /\ list \in {"real", "sentinel", "empty"} /\ backup = (IF list = "real" THEN "absent" ELSE "real")
    /\ ipc = [c \in Caller |-> "idle"] /\ mode = [c \in Caller |-> "any"]
    /\ cur = [c \in Caller |-> "unknown"] /\ hadBackup = [c \in Caller |-> FALSE]
    /\ told = [c \in Caller |-> "none"]
    /\ compiled = list
    /\ switches = 0 /\ faults = 0

Go(c, label) == ipc' = [ipc EXCEPT ![c] = label]
Tell(c, r) == told' = [told EXCEPT ![c] = r] /\ Go(c, "idle")

\* The command arrives and reads the state. A file that cannot be read stops
\* only a query: its mode is then none of those asked for.
Arrive(c, m) ==
    /\ ipc[c] = "idle" /\ switches < MaxSwitches /\ switches' = switches + 1
    /\ mode' = [mode EXCEPT ![c] = m]
    /\ cur' = [cur EXCEPT ![c] = ModeOf(list)]
    /\ hadBackup' = [hadBackup EXCEPT ![c] = list # "absent" /\ backup # "absent"]
    /\ told' = [told EXCEPT ![c] = "none"]
    /\ Go(c, "read")
    /\ UNCHANGED <<list, backup, compiled, faults>>

\* Nothing to do, nothing to restore from, or one of the two ways.
Choose(c) ==
    /\ ipc[c] = "read"
    /\ \/ mode[c] = cur[c] /\ Tell(c, "ok")
       \/ mode[c] # cur[c] /\ mode[c] = "loaded" /\ ~hadBackup[c] /\ Tell(c, "error")
       \/ mode[c] # cur[c] /\ mode[c] = "loaded" /\ hadBackup[c] /\ Go(c, "restore") /\ UNCHANGED told
       \/ /\ mode[c] # cur[c] /\ mode[c] # "loaded"
          /\ Go(c, IF cur[c] = "loaded" THEN "remove" ELSE "write") /\ UNCHANGED told
    /\ UNCHANGED <<list, backup, mode, cur, hadBackup, compiled, switches, faults>>

\* Mutant of RemoveBackup: the list itself is emptied before it is kept.
RemoveList(c) ==
    /\ ipc[c] = "remove" /\ Go(c, "keep")
    /\ list' = "empty" /\ UNCHANGED <<backup, mode, cur, hadBackup, told, compiled, switches, faults>>

\* os.Remove of the old backup.
RemoveBackup(c) ==
    /\ ipc[c] = "remove" /\ Go(c, "keep")
    /\ backup' = "absent" /\ UNCHANGED <<list, mode, cur, hadBackup, told, compiled, switches, faults>>

\* The list becomes the backup.
KeepList(c) ==
    /\ ipc[c] = "keep"
    /\ IF list = "absent" THEN Tell(c, "error") /\ UNCHANGED <<list, backup>>
       ELSE Go(c, "write") /\ backup' = list /\ list' = "absent" /\ UNCHANGED told
    /\ UNCHANGED <<mode, cur, hadBackup, compiled, switches, faults>>

\* writeFileAtomic.
WriteList(c) ==
    /\ ipc[c] = "write"
    /\ \/ list' = Body(mode[c]) /\ Go(c, "reload") /\ UNCHANGED <<told, faults>>
       \/ faults < MaxFaults /\ faults' = faults + 1 /\ Tell(c, "error") /\ UNCHANGED list
    /\ UNCHANGED <<backup, mode, cur, hadBackup, compiled, switches>>

\* The backup becomes the list.
RestoreList(c) ==
    /\ ipc[c] = "restore"
    /\ IF backup = "absent" THEN Tell(c, "error") /\ UNCHANGED <<list, backup>>
       ELSE Go(c, "reload") /\ list' = backup /\ backup' = "absent" /\ UNCHANGED told
    /\ UNCHANGED <<mode, cur, hadBackup, compiled, switches, faults>>

\* Mutant of Recompile: the strategy in force is taken to be up to date.
RecompileNot(c) ==
    /\ ipc[c] = "reload" /\ Tell(c, "ok")
    /\ UNCHANGED <<list, backup, mode, cur, hadBackup, compiled, switches, faults>>

\* Reload compiles the strategy against the list there is; without one it fails.
Recompile(c) ==
    /\ ipc[c] = "reload"
    /\ IF list = "absent" THEN Tell(c, "error") /\ UNCHANGED compiled
                          ELSE Tell(c, "ok") /\ compiled' = list
    /\ UNCHANGED <<list, backup, mode, cur, hadBackup, switches, faults>>

\* The daemon is killed and started again.
Die ==
    /\ faults < MaxFaults /\ faults' = faults + 1
    /\ \E c \in Caller : ipc[c] # "idle"
    /\ ipc' = [c \in Caller |-> "idle"] /\ told' = [c \in Caller |-> "none"]
    /\ compiled' = list
    /\ UNCHANGED <<list, backup, mode, cur, hadBackup, switches>>

Serving(c) == Choose(c) \/ RemoveBackup(c) \/ KeepList(c) \/ WriteList(c) \/ RestoreList(c) \/ Recompile(c)

IpsetNext ==
    \/ \E c \in Caller : Serving(c) \/ \E m \in Mode : Arrive(c, m)
    \/ Die

IpsetSpec == IpsetInit /\ [][IpsetNext]_ipsetVars

-----------------------------------------------------------------------------
\* "Keep the real list: it is 32k prefixes nobody wants to re-download": whatever
\* switch, crash or failed write, one of the two files holds it.
RealListKept == "real" \in {list, backup}

\* A command that answers "ok" leaves the mode it was asked for, on the disk and
\* in the strategy that runs.
OkMeansSwitched ==
    \A c \in Caller : told[c] = "ok" =>
        \/ ModeOf(list) = mode[c] /\ ModeOf(compiled) = mode[c]
        \/ \E d \in Caller \ {c} : ipc[d] # "idle" \/ told[d] # "none"
=============================================================================
