-------------------------------- MODULE Probe ---------------------------------
(* The capability probe (src/cmd/zaprctl/probe.go and the four *_probe_darwin   *)
(* files): ten stages run by one goroutine, each of which changes the machine   *)
(* and pushes what undoes the change; a second goroutine that waits for SIGINT  *)
(* and drains the same stack; and the reader of the utun.  `host` is the        *)
(* machine, `p` the fields of the probe, `undo` its cleanup stack.              *)
EXTENDS Naturals, Sequences, Functions

CONSTANT MaxFaults  \* bound on the system calls and pfctl runs that fail
VARIABLES
    conf,     \* what the run finds on the machine and was asked on the command line
    host,     \* what the run has changed on the machine
    pc,       \* the next step of the main goroutine
    p,        \* the probe's fields
    verified, \* what stage 10 found
    undo,     \* the cleanup stack
    cleaner,  \* the goroutine that drains it, or "none"
    doing,    \* the undo action being executed, for that of the utun its step, or "none"
    failed,   \* the undo actions that failed
    intr,     \* the goroutine that waits for a signal
    reader,   \* the goroutine that reads the utun
    exit,     \* the exit status, or "none"
    faults    \* system calls that have failed

probing == <<conf, host, pc, p, verified, undo, cleaner, doing, failed, intr, reader, exit, faults>>

Undos == {"pf", "ref", "witness", "anchor", "sub", "main", "utun", "bpfR", "bpfW", "raw"}
\* The configurations: root or not, what stages 2 and 3 yield, where the main ruleset
\* reaches (the probe's own anchor, the wildcard one, both or neither), and whether
\* --replace-main-ruleset was given.
Confs == [root : BOOLEAN, route : {"none", "full"}, reach : SUBSET {"probe", "wildcard"}, replaceMain : BOOLEAN]
NoConf == [root |-> FALSE, route |-> "none", reach |-> {}, replaceMain |-> FALSE]

\* utun: the interface exists; ref: a pf enable reference is held; anchor, sub, main: what
\* the probe's anchor, the borrowed sub-anchor and the main ruleset hold of ours; witness:
\* the token file; fds: descriptors; others: what services and a daemon loaded at run time.
UntouchedHost == [utun |-> FALSE, ref |-> FALSE, anchor |-> "none", sub |-> "none", main |-> "none",
                  witness |-> FALSE, fds |-> {}, others |-> TRUE]
Init ==
    /\ conf = NoConf /\ pc = "begin" /\ verified = "none"
    /\ host = UntouchedHost
    /\ p = [utun |-> FALSE, pfFD |-> FALSE, token |-> FALSE, path |-> "none", anchorLoaded |-> FALSE, subLoaded |-> FALSE,
            mainReplaced |-> FALSE, stop |-> "none"]
    /\ undo = <<>> /\ cleaner = "none" /\ doing = "none" /\ failed = {}
    /\ intr = "waiting" /\ reader = "off" /\ exit = "none" /\ faults = 0

Alive == exit = "none"
Fault == faults < MaxFaults /\ faults' = faults + 1
NoFault == UNCHANGED faults
OnCleanup(what) == undo' = Append(undo, what)
Cleaning == UNCHANGED <<cleaner, doing, failed, intr, exit, verified>>
AtStep(step) == Alive /\ pc = step

(* run: stages 1 to 3 only look; without root the others are skipped. *)
Environment ==
    /\ AtStep("begin")
    /\ \E c \in Confs:
         /\ conf' = c
         /\ pc' = IF c.root THEN "stage4" ELSE "deferred"
    /\ UNCHANGED <<host, p, undo, reader, faults>> /\ Cleaning

(* stage4UTUN: createUTUN closes its socket when a later step fails, and the      *)
(* interface goes with it; the undo is pushed once it has returned.              *)
CreateUTUN ==
    /\ AtStep("stage4")
    /\ \/ /\ host' = [host EXCEPT !.utun = TRUE] /\ pc' = "stage4_push" /\ NoFault
       \/ /\ Fault /\ pc' = "stage5" /\ UNCHANGED host
    /\ UNCHANGED <<conf, p, undo, reader>> /\ Cleaning
RegisterUTUN ==
    /\ AtStep("stage4_push")
    /\ p' = [p EXCEPT !.utun = TRUE] /\ OnCleanup("utun") /\ pc' = "stage5"
    /\ UNCHANGED <<conf, host, reader, faults>> /\ Cleaning

(* stage5PF: the descriptor and its undo; the release of the reference is pushed  *)
(* before pfctl -E runs, but it reads p.pfToken, which is set after it.           *)
OpenPFDevice ==
    /\ AtStep("stage5")
    /\ \/ /\ p' = [p EXCEPT !.pfFD = TRUE] /\ host' = [host EXCEPT !.fds = @ \cup {"pf"}]
          /\ undo' = undo \o <<"pf", "ref">> /\ pc' = "pfEnable" /\ NoFault
       \/ /\ Fault /\ pc' = "stage6" /\ UNCHANGED <<host, p, undo>>
    /\ UNCHANGED <<conf, reader>> /\ Cleaning
PfEnable ==
    /\ AtStep("pfEnable")
    /\ \/ host' = [host EXCEPT !.ref = TRUE] /\ pc' = "token" /\ NoFault
       \/ UNCHANGED host /\ pc' = "anchor" /\ Fault
    /\ UNCHANGED <<conf, p, undo, reader>> /\ Cleaning
SetToken ==
    /\ AtStep("token") /\ p' = [p EXCEPT !.token = TRUE] /\ pc' = "witness"
    /\ UNCHANGED <<conf, host, undo, reader, faults>> /\ Cleaning
\* Mutant of WriteTokenWitness: the removal of the file is not pushed.
MutWitness ==
    /\ AtStep("witness")
    /\ host' = [host EXCEPT !.witness = TRUE] /\ UNCHANGED undo /\ NoFault
    /\ pc' = "anchor"
    /\ UNCHANGED <<conf, p, reader>> /\ Cleaning
WriteTokenWitness ==
    /\ AtStep("witness")
    /\ \/ host' = [host EXCEPT !.witness = TRUE] /\ OnCleanup("witness") /\ NoFault
       \/ UNCHANGED <<host, undo>> /\ Fault
    /\ pc' = "anchor"
    /\ UNCHANGED <<conf, p, reader>> /\ Cleaning
(* The dry run and the load of the probe's anchor; the flush is pushed afterwards. *)
LoadAnchor ==
    /\ AtStep("anchor")
    /\ \/ /\ ~p.utun /\ pc' = "stage6" /\ NoFault /\ UNCHANGED host
       \/ /\ p.utun /\ Fault /\ pc' = "stage6" /\ UNCHANGED host
       \/ /\ p.utun /\ host' = [host EXCEPT !.anchor = "route"] /\ pc' = "anchor_push" /\ NoFault
    /\ UNCHANGED <<conf, p, undo, reader>> /\ Cleaning
RegisterAnchor ==
    /\ AtStep("anchor_push")
    /\ OnCleanup("anchor")
    /\ IF "probe" \in conf.reach
         THEN p' = [p EXCEPT !.anchorLoaded = TRUE, !.path = "anchor"] /\ pc' = "stage6"
         ELSE p' = [p EXCEPT !.anchorLoaded = TRUE] /\ pc' = "sub5"
    /\ UNCHANGED <<conf, host, reader, faults>> /\ Cleaning

(* installViaAppleSubAnchor: refused when no wildcard covers it or the dry run     *)
(* fails; the undo is pushed once and before the load.                           *)
SubCovered == "wildcard" \in conf.reach
StageOf(step) == IF step \in {"sub5", "sub5_load", "main5", "main5_load"} THEN 5 ELSE 9
InstallViaAppleSubAnchor(from, load, refused) ==
    /\ AtStep(from)
    /\ \/ /\ ~SubCovered /\ pc' = refused /\ NoFault /\ UNCHANGED <<p, undo>>
       \/ /\ SubCovered /\ Fault /\ pc' = refused /\ UNCHANGED <<p, undo>>
       \/ /\ SubCovered /\ NoFault /\ pc' = load
          /\ p' = [p EXCEPT !.subLoaded = TRUE]
          /\ IF p.subLoaded THEN UNCHANGED undo ELSE OnCleanup("sub")
    /\ UNCHANGED <<conf, host, reader>> /\ Cleaning
(* The load, which may fail, or seem to: pfctl took the rules and shows none.      *)
LoadSubAnchor(from, rules, done, refused) ==
    /\ AtStep(from)
    /\ \/ /\ host' = [host EXCEPT !.sub = rules] /\ NoFault /\ pc' = done
          /\ IF StageOf(from) = 5 THEN p' = [p EXCEPT !.path = "sub"] ELSE UNCHANGED p
       \/ /\ Fault /\ pc' = refused /\ host' \in {host, [host EXCEPT !.sub = rules]} /\ UNCHANGED p
    /\ UNCHANGED <<conf, undo, reader>> /\ Cleaning

\* Mutant of InstallMainRuleset: it does not ask for the flag.
MutUngated(from, load, refused) ==
    /\ AtStep(from)
    /\ p' = [p EXCEPT !.mainReplaced = TRUE] /\ pc' = load /\ NoFault
    /\ IF p.mainReplaced THEN UNCHANGED undo ELSE OnCleanup("main")
    /\ UNCHANGED <<conf, host, reader>> /\ Cleaning
(* installMainRuleset: only when it was asked for, nothing shows a live daemon and *)
(* the check of the spliced ruleset passes (the two last may always fail); the     *)
(* restore is pushed once and before the load, which empties every anchor that was *)
(* filled at run time.                                                           *)
InstallMainRuleset(from, load, refused) ==
    /\ AtStep(from)
    /\ \/ /\ pc' = refused /\ NoFault /\ UNCHANGED <<p, undo>>
       \/ /\ conf.replaceMain /\ NoFault
          /\ p' = [p EXCEPT !.mainReplaced = TRUE] /\ pc' = load
          /\ IF p.mainReplaced THEN UNCHANGED undo ELSE OnCleanup("main")
    /\ UNCHANGED <<conf, host, reader>> /\ Cleaning
LoadMain(from, rules, done, refused) ==
    /\ AtStep(from)
    /\ \/ /\ host' = [host EXCEPT !.main = rules, !.anchor = "none", !.sub = "none", !.others = FALSE] /\ NoFault /\ pc' = done
          /\ IF StageOf(from) = 5 THEN p' = [p EXCEPT !.path = "main"] ELSE UNCHANGED p
       \/ /\ Fault /\ pc' = refused /\ UNCHANGED <<host, p>>
    /\ UNCHANGED <<conf, undo, reader>> /\ Cleaning

(* stage6RouteToGate: starts the reader of the utun and a dial, and waits for a    *)
(* packet or its time.                                                           *)
Stage6RouteToGate ==
    /\ AtStep("stage6")
    /\ IF ~p.utun \/ p.path = "none"
         THEN pc' = "stage7" /\ UNCHANGED <<p, reader>>
         ELSE reader' = "reading" /\ p' = [p EXCEPT !.stop = "open"] /\ pc' = "gate"
    /\ UNCHANGED <<conf, host, undo, faults>> /\ Cleaning
Gate ==
    /\ AtStep("gate") /\ pc' = "stage7"
    /\ UNCHANGED <<conf, host, p, undo, reader, faults>> /\ Cleaning

(* stage7BPFWrite: a reader, which it can do without, and a writer of BPF, each      *)
(* pushed once it is open; then the frame, and the relay of what else the utun     *)
(* yields until the dial ends.                                                   *)
OpenBPF ==
    /\ AtStep("stage7")
    /\ \E opened \in {<<>>, <<"bpfR">>, <<"bpfW">>, <<"bpfR", "bpfW">>}:
         /\ conf.route = "none" => opened = <<>>
         /\ host' = [host EXCEPT !.fds = @ \cup Range(opened)] /\ undo' = undo \o opened
         /\ pc' = IF "bpfW" \in Range(opened) THEN "stage7_write" ELSE "stage8"
         /\ IF Len(opened) = 2 \/ conf.route = "none" THEN NoFault ELSE Fault
    /\ UNCHANGED <<conf, p, reader>> /\ Cleaning
WriteFrame ==
    /\ AtStep("stage7_write") /\ pc' = "stage8" /\ (NoFault \/ Fault)
    /\ UNCHANGED <<conf, host, p, undo, reader>> /\ Cleaning

(* stage8RawSocket *)
Stage8RawSocket ==
    /\ AtStep("stage8")
    /\ \/ /\ conf.route = "none" /\ NoFault /\ UNCHANGED <<host, undo>>
       \/ /\ conf.route # "none" /\ Fault /\ UNCHANGED <<host, undo>>
       \/ /\ conf.route # "none"
          /\ host' = [host EXCEPT !.fds = @ \cup {"raw"}] /\ OnCleanup("raw")
          /\ (NoFault \/ Fault)
    /\ pc' = "stage9"
    /\ UNCHANGED <<conf, p, reader>> /\ Cleaning

(* stage9Natlook: flushes the anchor of stage 5, listens, installs the rdr pair by  *)
(* the same two ways, accepts one connection and looks its destination up.        *)
Stage9Natlook ==
    /\ AtStep("stage9")
    /\ IF ~p.pfFD
         THEN pc' = "stage10" /\ NoFault /\ UNCHANGED host
         ELSE /\ host' \in {IF p.anchorLoaded THEN [host EXCEPT !.anchor = "none"] ELSE host, host}
              /\ \/ pc' = "sub9" /\ NoFault
                 \/ pc' = "stage10" /\ Fault
    /\ UNCHANGED <<conf, p, undo, reader>> /\ Cleaning
Natlook ==
    /\ AtStep("natlook") /\ pc' = "stage10"
    /\ (NoFault \/ Fault)
    /\ UNCHANGED <<conf, host, p, undo, reader>> /\ Cleaning
\* Mutant of Panic: the recovery reports before the deferred cleanup has run.
MutPanic ==
    /\ Alive /\ pc \in {"gate", "stage7_write", "natlook"} /\ Fault /\ pc' = "report"
    /\ UNCHANGED <<conf, host, p, undo, reader>> /\ Cleaning
(* A panic of a stage takes run to its deferred cleanup. *)
Panic ==
    /\ Alive /\ pc \in {"gate", "stage7_write", "natlook"} /\ Fault /\ pc' = "deferred"
    /\ UNCHANGED <<conf, host, p, undo, reader>> /\ Cleaning

(* cleanup: the first caller drains, any other returns at once. *)
CallCleanup(step, drain, next) ==
    /\ AtStep(step)
    /\ IF cleaner = "none"
         THEN cleaner' = "main" /\ pc' = drain
         ELSE pc' = next /\ UNCHANGED cleaner
    /\ UNCHANGED <<conf, host, p, verified, undo, doing, failed, intr, reader, exit, faults>>
\* Mutant of PopUndo: first in, first out.
MutPopUndo ==
    /\ Alive /\ cleaner # "none" /\ doing = "none" /\ undo # <<>>
    /\ doing' = Head(undo) /\ undo' = Tail(undo)
    /\ UNCHANGED <<conf, host, pc, p, verified, cleaner, failed, intr, reader, exit, faults>>
PopUndo ==
    /\ Alive /\ cleaner # "none" /\ doing = "none" /\ undo # <<>>
    /\ doing' = undo[Len(undo)] /\ undo' = SubSeq(undo, 1, Len(undo) - 1)
    /\ UNCHANGED <<conf, host, pc, p, verified, cleaner, failed, intr, reader, exit, faults>>
\* The undo of the utun takes three steps, and holds no lock in any of them: it tells the
\* reader to stop if it sees one, waits until none runs, and closes the interface (RunUndo).
StopReader ==
    /\ Alive /\ doing = "utun"
    /\ p' = IF p.stop = "open" THEN [p EXCEPT !.stop = "closed"] ELSE p
    /\ doing' = "utun_wait"
    /\ UNCHANGED <<conf, host, pc, verified, undo, cleaner, failed, intr, reader, exit, faults>>
\* Mutant of AwaitReader: it does not wait.
MutUndoWait ==
    /\ Alive /\ doing = "utun_wait"
    /\ doing' = "utun_close"
    /\ UNCHANGED <<conf, host, pc, p, verified, undo, cleaner, failed, intr, reader, exit, faults>>
AwaitReader ==
    /\ Alive /\ doing = "utun_wait" /\ reader # "reading"
    /\ doing' = "utun_close"
    /\ UNCHANGED <<conf, host, pc, p, verified, undo, cleaner, failed, intr, reader, exit, faults>>
\* The undo action that runs, and the last or only step of it.
Undoing == IF doing \in {"utun_wait", "utun_close"} THEN "utun" ELSE doing
LastStep == doing \notin {"none", "utun", "utun_wait"}
Undone(what) ==
    CASE what = "utun" -> [host EXCEPT !.utun = FALSE]
      [] what = "ref" -> [host EXCEPT !.ref = IF p.token THEN FALSE ELSE @]
      [] what = "witness" -> [host EXCEPT !.witness = FALSE]
      [] what = "anchor" -> [host EXCEPT !.anchor = "none"]
      [] what = "sub" -> [host EXCEPT !.sub = "none"]
      [] what = "main" -> [host EXCEPT !.main = "none", !.anchor = "none", !.sub = "none", !.others = FALSE]
      [] OTHER -> [host EXCEPT !.fds = @ \ {what}]
\* Mutant of RunUndo: the log names the action after it has been forgotten.
MutUndoName ==
    /\ Alive /\ LastStep
    /\ doing' = "none"
    /\ \/ host' = Undone(Undoing) /\ NoFault /\ UNCHANGED failed
       \/ UNCHANGED host /\ Fault /\ failed' = failed \cup {doing'}
    /\ p' = IF doing = "pf" THEN [p EXCEPT !.pfFD = FALSE] ELSE p
    /\ UNCHANGED <<conf, pc, verified, undo, cleaner, intr, reader, exit>>
RunUndo ==
    /\ Alive /\ LastStep
    /\ \/ host' = Undone(Undoing) /\ NoFault /\ UNCHANGED failed
       \/ UNCHANGED host /\ Fault /\ failed' = failed \cup {doing} /\ doing \in {"ref", "witness", "anchor", "sub", "main"}
    /\ p' = IF doing = "pf" THEN [p EXCEPT !.pfFD = FALSE] ELSE p
    /\ doing' = "none"
    /\ UNCHANGED <<conf, pc, verified, undo, cleaner, intr, reader, exit>>
Drained ==
    /\ Alive /\ cleaner # "none" /\ doing = "none" /\ undo = <<>>
    /\ IF cleaner = "main"
         THEN pc' = (IF pc = "stage10_drained" THEN "verify" ELSE "report") /\ UNCHANGED intr
         ELSE intr' = "exiting" /\ UNCHANGED pc
    /\ cleaner' = "none"
    /\ UNCHANGED <<conf, host, p, verified, undo, doing, failed, reader, exit, faults>>

\* Mutant of Stage10Verify: it looks at /etc/pf.conf alone.
MutVerify ==
    /\ AtStep("verify")
    /\ verified' = "PASS" /\ pc' = "deferred"
    /\ UNCHANGED <<conf, host, p, undo, cleaner, doing, failed, intr, reader, exit, faults>>
(* stage10Cleanup judges what the stack logged. *)
Stage10Verify ==
    /\ AtStep("verify")
    /\ verified' = (IF failed = {} THEN "PASS" ELSE "FAIL") /\ pc' = "deferred"
    /\ UNCHANGED <<conf, host, p, undo, cleaner, doing, failed, intr, reader, exit, faults>>
ExitMain ==
    /\ AtStep("report") /\ exit' = (IF conf.root THEN "0" ELSE "2")
    /\ UNCHANGED <<conf, host, pc, p, verified, undo, cleaner, doing, failed, intr, reader, faults>>

(* The goroutine that waits for SIGINT or SIGTERM. *)
Signal ==
    /\ Alive /\ intr = "waiting" /\ pc # "begin"
    /\ intr' = "cleaning"
    /\ UNCHANGED <<conf, host, pc, p, verified, undo, cleaner, doing, failed, reader, exit, faults>>
HandlerCleanup ==
    /\ Alive /\ intr = "cleaning" /\ cleaner # "sig"
    /\ IF cleaner = "none" THEN cleaner' = "sig" /\ UNCHANGED intr ELSE intr' = "exiting" /\ UNCHANGED cleaner
    /\ UNCHANGED <<conf, host, pc, p, verified, undo, doing, failed, reader, exit, faults>>
ExitHandler ==
    /\ Alive /\ intr = "exiting" /\ exit' = "3"
    /\ UNCHANGED <<conf, host, pc, p, verified, undo, cleaner, doing, failed, intr, reader, faults>>

\* Mutant of ReaderEnds: the reader does not look at its stop channel.
MutReaderEnds ==
    /\ Alive /\ reader = "reading" /\ ~host.utun
    /\ reader' = "ended"
    /\ UNCHANGED <<conf, host, pc, p, verified, undo, cleaner, doing, failed, intr, exit, faults>>
(* The reader of the utun ends when it is told to, or on a closed descriptor. *)
ReaderEnds ==
    /\ Alive /\ reader = "reading" /\ (p.stop = "closed" \/ ~host.utun)
    /\ reader' = "ended"
    /\ UNCHANGED <<conf, host, pc, p, verified, undo, cleaner, doing, failed, intr, exit, faults>>

Main ==
    \/ Environment \/ CreateUTUN \/ RegisterUTUN \/ OpenPFDevice \/ PfEnable \/ SetToken \/ WriteTokenWitness
    \/ LoadAnchor \/ RegisterAnchor
    \/ InstallViaAppleSubAnchor("sub5", "sub5_load", "main5") \/ LoadSubAnchor("sub5_load", "route", "stage6", "main5")
    \/ InstallMainRuleset("main5", "main5_load", "stage6") \/ LoadMain("main5_load", "route", "stage6", "stage6")
    \/ Stage6RouteToGate \/ Gate \/ OpenBPF \/ WriteFrame \/ Stage8RawSocket \/ Stage9Natlook
    \/ InstallViaAppleSubAnchor("sub9", "sub9_load", "main9") \/ LoadSubAnchor("sub9_load", "rdr", "natlook", "main9")
    \/ InstallMainRuleset("main9", "main9_load", "stage10") \/ LoadMain("main9_load", "rdr", "natlook", "stage10")
    \/ Natlook \/ CallCleanup("stage10", "stage10_drained", "verify") \/ Stage10Verify \/ CallCleanup("deferred", "deferred_drained", "report")
    \/ ExitMain
Cleanup == PopUndo \/ StopReader \/ AwaitReader \/ RunUndo \/ Drained
SignalHandler == HandlerCleanup \/ ExitHandler
Done == ~Alive /\ UNCHANGED probing
Next == Main \/ Panic \/ Cleanup \/ Signal \/ SignalHandler \/ ReaderEnds \/ Done

-------------------------------------------------------------------------------
TypeOK ==
    /\ host.fds \subseteq {"pf", "bpfR", "bpfW", "raw"} /\ failed \subseteq Undos
    /\ \A i \in DOMAIN undo: undo[i] \in Undos
    /\ cleaner \in {"none", "main", "sig"} /\ doing \in Undos \cup {"utun_wait", "utun_close", "none"}
    /\ verified \in {"none", "PASS", "FAIL"}

Restored ==
    /\ ~host.utun /\ ~host.ref /\ ~host.witness /\ host.fds = {}
    /\ host.anchor = "none" /\ host.sub = "none" /\ host.main = "none"
Pending == {undo[i] : i \in DOMAIN undo} \cup {Undoing}
\* A run that was not interrupted and whose undo actions all worked leaves nothing behind,
\* whichever stages failed, were skipped or panicked: every change of every path is pushed.
QuietExitUndoes == exit \in {"0", "2"} /\ intr = "waiting" /\ failed = {} => Restored

\* Stage 10 says PASS only of a machine that is as it was found: what it counts are the undo
\* actions that failed, and those stand for every change.
Stage10Honest == pc = "deferred" /\ verified = "PASS" /\ intr = "waiting" => Restored

\* While the stages run, a rule that steers traffic into the utun exists only beside the utun:
\* the stack is drained last in, first out, and the interface is the first thing pushed.
\* Only a flush or restore that failed, or a signal that races a stage, may break it.
NoRouteIntoNothing ==
    intr = "waiting" /\ failed = {} /\ (host.anchor = "route" \/ host.sub = "route" \/ host.main = "route") => host.utun

\* Rules that a service or a daemon loaded at run time are emptied only by a run that was
\* told to replace the main ruleset.
OthersKept == ~host.others => conf.replaceMain

\* A reader that the undo of the utun found has ended when the interface goes, whoever drains
\* the stack. A reader it did not find can only be one that stage 6 started beside a signal:
\* its stop channel is still open.
ClosedAfterReader ==
    [][host.utun /\ ~host'.utun => reader # "reading" \/ (p.stop = "open" /\ intr # "waiting")]_probing
\* That the handle is closed under no reader at all, which the wait in its undo suggests.
NeverClosedUnderReader == [][host.utun /\ ~host'.utun => reader # "reading"]_probing

\* As long as no signal has come, whatever has been changed is on the stack, being undone, or
\* has failed to be, except in the steps between a change and its push.
Windows == {"stage4_push", "token", "witness", "anchor_push"}
ChangesPushed ==
    Alive /\ intr = "waiting" /\ pc \notin Windows =>
        /\ host.utun => "utun" \in Pending \cup failed
        /\ host.ref => "ref" \in Pending \cup failed
        /\ host.witness => "witness" \in Pending \cup failed
        /\ host.anchor # "none" => "anchor" \in Pending \cup failed
        /\ host.sub # "none" => "sub" \in Pending \cup failed
        /\ host.main # "none" => "main" \in Pending \cup failed
        /\ host.fds \subseteq Pending \cup failed

\* What the head of the file claims: "each undoing whatever it changed - on normal exit, on
\* SIGINT or SIGTERM, and on panic" (as far as the undo actions work).
ProbeUndoes == ~Alive /\ failed = {} => Restored
\* "an interrupted probe produced no verdict, so it must not look like a successful run"
\* (the comment on exitInterrupted).
InterruptedSaysSo == intr # "waiting" => exit \notin {"0"}

\* A run ends, and so does the reader it waits for.
ProbeEnds == <>(~Alive)

\* What a run without a signal leaves behind and says of it, and what is true of its
\* stack, of the rules of others and of those that steer into the utun on the way.
ProbeCleansUp ==
    /\ TypeOK /\ QuietExitUndoes /\ Stage10Honest
    /\ NoRouteIntoNothing /\ OthersKept /\ ChangesPushed

\* A reader that the undo of the utun found ends before the interface goes, and the run ends.
ProbeWindsUp == ClosedAfterReader /\ ProbeEnds
===============================================================================
