-------------------------- MODULE StateDir_proofs ---------------------------
(***************************************************************************)
(* Proofs about PfLifecycle, for every set of daemons, guards and tokens   *)
(* and whatever pfctl, the disk and the journal do, and about SystemFiles, *)
(* for any number of foreign edits and crashes.                            *)
(***************************************************************************)
EXTENDS PfLifecycle, SystemFiles, TLAPS

(* The flock: a process past its lock step is the one the kernel names.    *)
LockHeld == \A p \in Daemon \cup Guard : pc[p] # "off" => lock = p

(* A repair, which takes no lock, has no daemon beside it.                  *)
RepairAlone == NoDaemon \/ NoRepair

(* Where a process may have a token in memory.                             *)
HoldingPc == {"serving", "enable", "enRecord", "enWrite", "tdFlush", "tdRelease"}
                \cup LoadedPc \cup CleanupPc

(* A token in memory is a live reference and, outside the two steps of     *)
(* PF.Enable that record it, also the content of the token file.           *)
MemoryTrue ==
    \A p \in Proc : tok[p] # NoToken =>
        /\ p \in Daemon /\ pc[p] \in HoldingPc
        /\ tok[p] \in refs
        /\ tokenFile = IF pc[p] \in {"enRecord", "enWrite"} THEN NoToken ELSE tok[p]

(* PF.Enable has cleared the token file before it takes a reference, and   *)
(* the datapath is only reached with one.                                  *)
EnableOrder ==
    \A p \in Proc :
        /\ pc[p] = "enFresh" => tokenFile = NoToken
        /\ pc[p] \in {"enRecord", "enWrite"} \cup LoadedPc => tok[p] # NoToken

(* The probe's token is a live reference, and its daemon is in the probe.   *)
ProbeOrder ==
    probeTok # NoToken =>
        /\ probeTok \in refs
        /\ \E d \in Daemon : pc[d] \in {"dtLoad", "dtFlush", "dtRelease"}

IInv == TypeOK /\ LockHeld /\ RepairAlone /\ MemoryTrue /\ EnableOrder /\ ProbeOrder

-----------------------------------------------------------------------------
LEMMA InitIInv == Init => IInv
  BY ProcAssumption, RecordAssumption, FaultAssumption
  DEF Init, IInv, TypeOK, LockHeld, RepairAlone, NoDaemon, NoRepair, RepairPc, MemoryTrue, EnableOrder, ProbeOrder, ProbePc, Proc, Anchor, Record,
      DaemonPc, GuardPc, EnablePc, LoadedPc, CleanupPc

(* The start of a daemon: memory holds no token yet.                       *)
LEMMA StartupKeepsIInv ==
    ASSUME IInv, NEW d \in Daemon, Launch(d) \/ StartupStep(d)
    PROVE  IInv'
<1> USE ProcAssumption, RecordAssumption, ModeAssumption
        DEF TypeOK, LockHeld, RepairAlone, NoDaemon, NoRepair, RepairPc, MemoryTrue, EnableOrder, ProbeOrder, ProbePc, Proc, Record, Goto,
            DaemonPc, GuardPc, EnablePc, LoadedPc, CleanupPc, HoldingPc,
            kernel, disk, memory, replay
<1>0. d \in Proc
  OBVIOUS
<1>1. CASE Launch(d)
  BY <1>0, <1>1 DEF IInv, Launch
<1>2. CASE RollbackToken(d)
  BY <1>0, <1>2 DEF IInv, RollbackToken
<1>3. CASE RollbackRules(d)
  BY <1>0, <1>3 DEF IInv, RollbackRules
<1>4. CASE RollbackDone(d)
  BY <1>0, <1>4 DEF IInv, RollbackDone, Written
<1>5. CASE EnsureAnchor(d)
  BY <1>0, <1>5 DEF IInv, EnsureAnchor, Resolved, Anchor
<1>6. CASE StartupFails(d)
  BY <1>0, <1>6 DEF IInv, StartupFails, Gone, Anchor
<1>7. CASE Serve(d)
  BY <1>0, <1>7 DEF IInv, Serve
<1>8. CASE DetectSkips(d)
  BY <1>0, <1>8 DEF IInv, DetectSkips
<1>9. CASE DetectEnable(d)
  <2>1. PICK t \in Unused :
          /\ refs' = refs \cup {t}
          /\ \/ probeTok' = t /\ pc' = [pc EXCEPT ![d] = "dtLoad"]
             \/ UNCHANGED probeTok /\ pc' = [pc EXCEPT ![d] = "starting"]
    BY <1>9 DEF DetectEnable
  <2>2. TypeOK' /\ LockHeld' /\ RepairAlone' /\ MemoryTrue' /\ EnableOrder'
    BY <1>0, <1>9, <2>1 DEF IInv, DetectEnable, Unused
  <2>3. ProbeOrder'
    BY <1>0, <1>9, <2>1 DEF IInv, DetectEnable, Unused
  <2> QED BY <2>2, <2>3 DEF IInv
<1>10. CASE DetectLoad(d)
  <2>1. pc'[d] \in {"dtFlush", "dtRelease"} /\ rules' \subseteq Anchor
    BY <1>0, <1>10 DEF IInv, DetectLoad, Anchor
  <2>2. TypeOK' /\ LockHeld' /\ RepairAlone' /\ MemoryTrue' /\ EnableOrder'
    BY <1>0, <1>10, <2>1 DEF IInv, DetectLoad
  <2>3. ProbeOrder'
    BY <1>0, <1>10, <2>1 DEF IInv, DetectLoad
  <2> QED BY <2>2, <2>3 DEF IInv
<1>11. CASE DetectFlush(d)
  BY <1>0, <1>11 DEF IInv, DetectFlush
<1>12. CASE DetectRelease(d)
  BY <1>0, <1>12 DEF IInv, DetectRelease
<1> QED BY <1>1, <1>2, <1>3, <1>4, <1>5, <1>6, <1>7, <1>8, <1>9, <1>10, <1>11, <1>12
        DEF StartupStep

(* PF.Enable and PF.LoadRules.                                              *)
LEMMA SetupKeepsIInv ==
    ASSUME IInv, NEW d \in Daemon, BeginSetup(d) \/ SetupStep(d) \/ ReloadRules(d)
    PROVE  IInv'
<1> USE ProcAssumption, RecordAssumption, ModeAssumption
        DEF TypeOK, LockHeld, RepairAlone, NoDaemon, NoRepair, RepairPc, MemoryTrue, EnableOrder, ProbeOrder, ProbePc, Proc, Record, Goto,
            DaemonPc, GuardPc, EnablePc, LoadedPc, CleanupPc, HoldingPc,
            kernel, disk, memory, replay
<1>0. d \in Proc
  OBVIOUS
<1>1. CASE BeginSetup(d)
  BY <1>0, <1>1 DEF IInv, BeginSetup
<1>2. CASE EnableHeld(d)
  BY <1>0, <1>2 DEF IInv, EnableHeld
<1>3. CASE EnableStale(d)
  BY <1>0, <1>3 DEF IInv, EnableStale
<1>4. CASE EnableTake(d)
  BY <1>0, <1>4 DEF IInv, EnableTake, Unused
<1>5. CASE EnableRecord(d)
  BY <1>0, <1>5 DEF IInv, EnableRecord, Written
<1>6. CASE EnableWrite(d)
  BY <1>0, <1>6 DEF IInv, EnableWrite
<1>7. CASE EnableUndo(d)
  BY <1>0, <1>7 DEF IInv, EnableUndo
<1>8. CASE LoadRules(d)
  BY <1>0, <1>8 DEF IInv, LoadRules, EffAnchor, Anchor
<1>9. CASE ReloadRules(d)
  BY <1>0, <1>9 DEF IInv, ReloadRules, EffAnchor, Anchor
<1>10. CASE LoadRecord(d)
  BY <1>0, <1>10 DEF IInv, LoadRecord, Written
<1> QED BY <1>1, <1>2, <1>3, <1>4, <1>5, <1>6, <1>7, <1>8, <1>9, <1>10 DEF SetupStep

(* The end of a session and of a daemon.                                    *)
LEMMA TeardownKeepsIInv ==
    ASSUME IInv, NEW d \in Daemon,
           EndSession(d) \/ TeardownStep(d) \/ StopFlush(d) \/ BeginCleanup(d) \/ CleanupStep(d)
    PROVE  IInv'
<1> USE ProcAssumption, RecordAssumption, ModeAssumption
        DEF TypeOK, LockHeld, RepairAlone, NoDaemon, NoRepair, RepairPc, MemoryTrue, EnableOrder, ProbeOrder, ProbePc, Proc, Record, Goto,
            DaemonPc, GuardPc, EnablePc, LoadedPc, CleanupPc, HoldingPc,
            kernel, disk, memory, replay
<1>0. d \in Proc
  OBVIOUS
<1>1. CASE EndSession(d)
  BY <1>0, <1>1 DEF IInv, EndSession
<1>2. CASE TeardownFlush(d)
  BY <1>0, <1>2 DEF IInv, TeardownFlush, FlushRules
<1>3. CASE TeardownRelease(d)
  BY <1>0, <1>3 DEF IInv, TeardownRelease, Release, HandleOf
<1>4. CASE StopFlush(d)
  BY <1>0, <1>4 DEF IInv, StopFlush, FlushRules
<1>5. CASE BeginCleanup(d)
  BY <1>0, <1>5 DEF IInv, BeginCleanup
<1>6. CASE CleanupFlush(d)
  BY <1>0, <1>6 DEF IInv, CleanupFlush, FlushRules
<1>7. CASE CleanupRelease(d)
  BY <1>0, <1>7 DEF IInv, CleanupRelease, Release, HandleOf
<1>8. CASE CleanupClear(d)
  BY <1>0, <1>8 DEF IInv, CleanupClear, Written
<1>9. CASE CleanupClose(d)
  BY <1>0, <1>9 DEF IInv, CleanupClose, HandleOf, Gone, Anchor
<1> QED BY <1>1, <1>2, <1>3, <1>4, <1>5, <1>6, <1>7, <1>8, <1>9 DEF TeardownStep, CleanupStep

(* The guard: while it works no daemon has a token in memory.               *)
LEMMA GuardKeepsIInv ==
    ASSUME IInv, NEW g \in Guard, GuardStep(g)
    PROVE  IInv'
<1> USE ProcAssumption, RecordAssumption, ModeAssumption
        DEF TypeOK, LockHeld, RepairAlone, NoDaemon, NoRepair, RepairPc, MemoryTrue, EnableOrder, ProbeOrder, ProbePc, Proc, Record, Goto,
            DaemonPc, GuardPc, EnablePc, LoadedPc, CleanupPc, HoldingPc,
            kernel, disk, memory, replay
<1>0. g \in Proc
  OBVIOUS
<1>1. CASE GuardLock(g)
  BY <1>0, <1>1 DEF IInv, GuardLock
<1>2. CASE GuardResolve(g)
  BY <1>0, <1>2 DEF IInv, GuardResolve, Resolved, Anchor
<1>3. CASE GuardRead(g)
  BY <1>0, <1>3 DEF IInv, GuardRead
<1>4. CASE GuardFlush(g)
  BY <1>0, <1>4 DEF IInv, GuardFlush, FlushRules
<1>5. CASE GuardRelease(g)
  BY <1>0, <1>5 DEF IInv, GuardRelease, Release, HandleOf
<1>6. CASE GuardClose(g)
  BY <1>0, <1>6 DEF IInv, GuardClose, HandleOf, Gone, Anchor
<1> QED BY <1>1, <1>2, <1>3, <1>4, <1>5, <1>6 DEF GuardStep

(* A repair: nobody has a token in memory.                                  *)
LEMMA RepairKeepsIInv ==
    ASSUME IInv, NEW r \in Repairer, RepairStep(r)
    PROVE  IInv'
<1> USE ProcAssumption, RecordAssumption, ModeAssumption
        DEF TypeOK, LockHeld, RepairAlone, NoDaemon, NoRepair, RepairPc, MemoryTrue, EnableOrder,
            ProbeOrder, ProbePc, Proc, Record, Goto,
            DaemonPc, GuardPc, EnablePc, LoadedPc, CleanupPc, HoldingPc,
            kernel, disk, memory, replay
<1>0. r \in Proc
  OBVIOUS
<1>1. CASE RepairStart(r)
  BY <1>0, <1>1 DEF IInv, RepairStart
<1>2. CASE RepairToken(r)
  BY <1>0, <1>2 DEF IInv, RepairToken
<1>3. CASE RepairRules(r)
  BY <1>0, <1>3 DEF IInv, RepairRules
<1>4. CASE RepairDone(r)
  BY <1>0, <1>4 DEF IInv, RepairDone, Written
<1>5. CASE RepairRelease(r)
  BY <1>0, <1>5 DEF IInv, RepairRelease, Release, HandleOf
<1>6. CASE RepairRead(r)
  BY <1>0, <1>6 DEF IInv, RepairRead
<1>7. CASE RepairFlush(r)
  BY <1>0, <1>7 DEF IInv, RepairFlush, FlushRules
<1>8. CASE RepairClose(r)
  BY <1>0, <1>8 DEF IInv, RepairClose, Gone, Anchor
<1> QED BY <1>1, <1>2, <1>3, <1>4, <1>5, <1>6, <1>7, <1>8 DEF RepairStep

(* Crashes, reboots and foreign pf reloads.                                *)
LEMMA EnvironmentKeepsIInv ==
    ASSUME IInv, Reboot \/ ForeignReload \/ (\E p \in Proc : Crash(p))
    PROVE  IInv'
<1> USE ProcAssumption, RecordAssumption, ModeAssumption
        DEF TypeOK, LockHeld, RepairAlone, NoDaemon, NoRepair, RepairPc, MemoryTrue, EnableOrder, ProbeOrder, ProbePc, Proc, Record, Goto,
            DaemonPc, GuardPc, EnablePc, LoadedPc, CleanupPc, HoldingPc,
            kernel, disk, memory, replay
<1>1. CASE Reboot
  BY FaultAssumption, <1>1 DEF IInv, Reboot, Anchor
<1>2. CASE ForeignReload
  BY FaultAssumption, <1>2 DEF IInv, ForeignReload
<1>3. CASE \E p \in Proc : Crash(p)
  BY FaultAssumption, <1>3 DEF IInv, Crash, Gone, Anchor
<1> QED BY <1>1, <1>2, <1>3

LEMMA IInvStep == IInv /\ [Next]_vars => IInv'
<1> SUFFICES ASSUME IInv, [Next]_vars PROVE IInv'
  OBVIOUS
<1>1. CASE \E d \in Daemon : DaemonStep(d)
  BY <1>1, StartupKeepsIInv, SetupKeepsIInv, TeardownKeepsIInv DEF DaemonStep
<1>2. CASE \E g \in Guard : GuardStep(g)
  BY <1>2, GuardKeepsIInv
<1>5. CASE \E r \in Repairer : RepairStep(r)
  BY <1>5, RepairKeepsIInv
<1>3. CASE Reboot \/ ForeignReload \/ (\E p \in Proc : Crash(p))
  BY <1>3, EnvironmentKeepsIInv
<1>4. CASE UNCHANGED vars
  BY <1>4 DEF IInv, TypeOK, LockHeld, RepairAlone, NoDaemon, NoRepair, RepairPc, MemoryTrue, EnableOrder, ProbeOrder, vars, kernel, disk,
       memory, replay
<1> QED BY <1>1, <1>2, <1>3, <1>4, <1>5 DEF Next

THEOREM Inductive == Spec => []IInv
  BY InitIInv, IInvStep, PTL DEF Spec

(* Every variable keeps its type whatever fails.                           *)
THEOREM TypeCorrect == Spec => []TypeOK
<1>1. IInv => TypeOK
  BY DEF IInv
<1> QED BY Inductive, <1>1, PTL

(* A datapath killed at any moment, under any number of daemons, guards and *)
(* failures, leaves a live reference that the token file names.            *)
THEOREM Recoverable == Spec => []RunningIsRecoverable
<1>1. IInv => RunningIsRecoverable
  BY DEF IInv, TypeOK, MemoryTrue, EnableOrder, RunningIsRecoverable, LoadedPc, Proc
<1> QED BY Inductive, <1>1, PTL

-----------------------------------------------------------------------------
(* Refinement of PfReference, when pfctl and reading the journal succeed.   *)
(* The repair, which looks for the token in the wrong place, stays away.    *)
Faultless == PfctlFails = FALSE /\ ReadFails = FALSE /\ Repairer = {}

(* The journal names no live reference but the ones a rollback has still to *)
(* release and the one of the daemon that holds the lock.                   *)
JournalSettled ==
    \A d \in Daemon : pc[d] # "off" =>
        IF pc[d] = "rollback" THEN /\ journal \cap refs \subseteq todo
                                   /\ todo \subseteq journal /\ kept = {}
                              ELSE journal \cap refs \subseteq {tok[d]}

RInv == IInv /\ JournalSettled

LEMMA InitRInv == Init => RInv
  BY InitIInv DEF Init, RInv, JournalSettled, Proc

LEMMA NextRInv ==
    ASSUME Faultless, RInv, [Next]_vars
    PROVE  RInv'
<1> USE ProcAssumption, RecordAssumption
        DEF Faultless, RInv, JournalSettled, IInv, TypeOK, LockHeld, RepairAlone, NoDaemon, NoRepair, RepairPc, MemoryTrue,
            EnableOrder, ProbeOrder, ProbePc, Proc, Record, Goto, DaemonPc, GuardPc, EnablePc, LoadedPc,
            CleanupPc, HoldingPc, kernel, disk, memory, replay
<1>1. IInv'
  BY IInvStep
<1>2. CASE \E d \in Daemon : DaemonStep(d)
  <2> PICK d \in Daemon : DaemonStep(d)
    BY <1>2
  <2>1. CASE Launch(d)
    BY <1>1, <2>1 DEF Launch
  <2>2. CASE RollbackToken(d)
    BY <1>1, <2>2 DEF RollbackToken
  <2>3. CASE RollbackRules(d)
    BY <1>1, <2>3 DEF RollbackRules
  <2>4. CASE RollbackDone(d)
    BY <1>1, <2>4 DEF RollbackDone, Written
  <2>5. CASE EnsureAnchor(d)
    BY <1>1, <2>5 DEF EnsureAnchor
  <2>6. CASE StartupFails(d)
    BY <1>1, <2>6 DEF StartupFails, Gone
  <2>7. CASE Serve(d)
    BY <1>1, <2>7 DEF Serve
  <2>8. CASE BeginSetup(d)
    BY <1>1, <2>8 DEF BeginSetup
  <2>9. CASE EnableHeld(d)
    BY <1>1, <2>9 DEF EnableHeld
  <2>10. CASE EnableStale(d)
    BY <1>1, <2>10 DEF EnableStale
  <2>11. CASE EnableTake(d)
    BY <1>1, <2>11 DEF EnableTake, Unused
  <2>12. CASE EnableRecord(d)
    BY <1>1, <2>12 DEF EnableRecord, Written
  <2>13. CASE EnableWrite(d)
    BY <1>1, <2>13 DEF EnableWrite
  <2>14. CASE EnableUndo(d)
    BY <1>1, <2>14 DEF EnableUndo
  <2>15. CASE LoadRules(d)
    BY <1>1, <2>15 DEF LoadRules
  <2>16. CASE ReloadRules(d)
    BY <1>1, <2>16 DEF ReloadRules
  <2>17. CASE LoadRecord(d)
    BY <1>1, <2>17 DEF LoadRecord, Written
  <2>18. CASE EndSession(d)
    BY <1>1, <2>18 DEF EndSession
  <2>19. CASE TeardownFlush(d)
    BY <1>1, <2>19 DEF TeardownFlush
  <2>20. CASE TeardownRelease(d)
    BY <1>1, <2>20 DEF TeardownRelease, Release, HandleOf
  <2>21. CASE StopFlush(d)
    BY <1>1, <2>21 DEF StopFlush
  <2>22. CASE BeginCleanup(d)
    BY <1>1, <2>22 DEF BeginCleanup
  <2>23. CASE CleanupFlush(d)
    BY <1>1, <2>23 DEF CleanupFlush
  <2>24. CASE CleanupRelease(d)
    BY <1>1, <2>24 DEF CleanupRelease, Release, HandleOf
  <2>25. CASE CleanupClear(d)
    BY <1>1, <2>25 DEF CleanupClear, Written
  <2>26. CASE CleanupClose(d)
    BY <1>1, <2>26 DEF CleanupClose, HandleOf, Gone
  <2>27. CASE DetectSkips(d)
    BY <1>1, <2>27 DEF DetectSkips
  <2>28. CASE DetectEnable(d)
    BY <1>1, <2>28 DEF DetectEnable, Unused
  <2>29. CASE DetectLoad(d)
    BY <1>1, <2>29 DEF DetectLoad
  <2>30. CASE DetectFlush(d)
    BY <1>1, <2>30 DEF DetectFlush
  <2>31. CASE DetectRelease(d)
    BY <1>1, <2>31 DEF DetectRelease
  <2> QED BY <2>27, <2>28, <2>29, <2>30, <2>31, <2>1, <2>2, <2>3, <2>4, <2>5, <2>6, <2>7, <2>8, <2>9, <2>10, <2>11, <2>12, <2>13, <2>14, <2>15, <2>16, <2>17, <2>18, <2>19, <2>20, <2>21, <2>22, <2>23, <2>24, <2>25, <2>26
          DEF DaemonStep, StartupStep, SetupStep, TeardownStep, CleanupStep
<1>3. CASE \E g \in Guard : GuardStep(g)
  <2> PICK g \in Guard : GuardStep(g)
    BY <1>3
  <2> QED BY <1>1 DEF GuardStep, GuardLock, GuardResolve, GuardRead, GuardFlush,
          GuardRelease, GuardClose, Release, HandleOf, Gone
<1>4. CASE Reboot \/ ForeignReload \/ (\E p \in Proc : Crash(p))
  BY <1>1, <1>4 DEF Reboot, ForeignReload, Crash, Gone
<1>5. CASE UNCHANGED vars
  BY <1>1, <1>5 DEF vars
<1> QED BY <1>2, <1>3, <1>4, <1>5 DEF Next

(* The refinement mapping changes as PfReference!Become says.              *)
LEMMA Mapped ==
    ASSUME NEW t \in Token, NEW s, RefStatus(t)' = s,
           \A u \in Token \ {t} : RefStatus(u)' = RefStatus(u)
    PROVE  ReferenceStatus' = [ReferenceStatus EXCEPT ![t] = s]
  BY DEF ReferenceStatus

(* Steps that leave the references, their records and their holders alone. *)
LEMMA Unmapped ==
    ASSUME \A u \in Token : RefStatus(u)' = RefStatus(u)
    PROVE  UNCHANGED ReferenceStatus
  BY DEF ReferenceStatus

(* A free token that a process takes is held, if nobody holds one.         *)
LEMMA TakeStep ==
    ASSUME NEW t \in Token, RefStatus(t) = "free", RefStatus(t)' = "held",
           \A u \in Token \ {t} : RefStatus(u)' = RefStatus(u),
           \A u \in Token : RefStatus(u) # "held"
    PROVE  Reference!Take(t)
<1>1. ReferenceStatus' = [ReferenceStatus EXCEPT ![t] = "held"]
  BY Mapped
<1> QED BY <1>1 DEF Reference!Take, Reference!Become, ReferenceStatus

(* A reference dropped while it is recorded or held is free again.         *)
LEMMA ReleaseStep ==
    ASSUME NEW t \in refs, refs \subseteq Token, refs' = refs \ {t},
           RefStatus(t) \in {"held", "recorded"},
           \A u \in Token \ {t} : RefStatus(u)' = RefStatus(u)
    PROVE  Reference!Release(t)
<1>1. RefStatus(t)' = "free"
  BY DEF RefStatus
<1> QED BY <1>1, Mapped DEF Reference!Release, Reference!Become, ReferenceStatus

(* PF.Release acts on the token the file names, if any.                 *)
LEMMA ReleaseSimulates ==
    ASSUME RInv, NEW p \in Proc, pc[p] \notin {"enRecord", "enWrite"},
           HandleOf(p) \in refs, refs' = refs \ {HandleOf(p)},
           tokenFile' = NoToken, UNCHANGED <<journal, probeTok>>,
           tok' = [tok EXCEPT ![p] = NoToken]
    PROVE  Reference!Next
<1> USE RecordAssumption DEF RInv, IInv, TypeOK, MemoryTrue, HandleOf
<1>1. HandleOf(p) = tokenFile
  OBVIOUS
<1>2. RefStatus(tokenFile) = "recorded"
  BY <1>1 DEF RefStatus
<1>3. \A u \in Token \ {tokenFile} : RefStatus(u)' = RefStatus(u)
  BY <1>1 DEF RefStatus
<1> QED BY <1>1, <1>2, <1>3, ReleaseStep DEF Reference!Next

(* The first durable record of a reference, or one more of them.           *)
LEMMA PersistSimulates ==
    ASSUME NEW t \in Token, t \in refs, t \in (journal \cup {tokenFile})',
           \E p \in Proc : tok[p] = t, UNCHANGED <<refs, tok>>,
           \A u \in Token \ {t} : RefStatus(u)' = RefStatus(u)
    PROVE  [Reference!Next]_ReferenceStatus
<1>1. RefStatus(t) \in {"held", "recorded"} /\ RefStatus(t)' = "recorded"
  BY DEF RefStatus
<1>2. CASE RefStatus(t) = "held"
  BY <1>1, <1>2, Mapped
  DEF Reference!Next, Reference!Persist, Reference!Become, ReferenceStatus
<1>3. CASE RefStatus(t) = "recorded"
  BY <1>1, <1>3, Unmapped
<1> QED BY <1>1, <1>2, <1>3

(* Every step is a step of PfReference or leaves it alone.                  *)
LEMMA DaemonSimulates ==
    ASSUME Faultless, RInv, NEW d \in Daemon, DaemonStep(d)
    PROVE  [Reference!Next]_ReferenceStatus
<1> USE ProcAssumption, RecordAssumption
        DEF Faultless, RInv, JournalSettled, IInv, TypeOK, LockHeld, RepairAlone, NoDaemon, NoRepair, RepairPc, MemoryTrue,
            EnableOrder, ProbeOrder, ProbePc, Proc, Record, Goto, DaemonPc, GuardPc, EnablePc, LoadedPc,
            CleanupPc, HoldingPc, kernel, disk, memory, replay
<1>0. d \in Proc
  OBVIOUS
<1>1. CASE Launch(d) \/ RollbackRules(d) \/ EnsureAnchor(d) \/ Serve(d) \/ BeginSetup(d) \/
           EnableHeld(d) \/ LoadRules(d) \/ ReloadRules(d) \/ EndSession(d) \/ TeardownFlush(d) \/
           StopFlush(d) \/ BeginCleanup(d) \/ CleanupFlush(d) \/ DetectSkips(d) \/
           DetectLoad(d) \/ DetectFlush(d)
  BY <1>1, Unmapped DEF RefStatus, DetectSkips, DetectLoad, DetectFlush, Launch, RollbackRules, EnsureAnchor, Serve, BeginSetup, EnableHeld, LoadRules, ReloadRules, EndSession, TeardownFlush, StopFlush, BeginCleanup, CleanupFlush
<1>2. CASE RollbackToken(d)
  <2> PICK t \in todo \cap Token : refs' = refs \ {t}
    BY <1>2 DEF RollbackToken
  <2>1. \A u \in Token \ {t} : RefStatus(u)' = RefStatus(u)
    BY <1>2 DEF RefStatus, RollbackToken
  <2>2. CASE t \in refs
    <3>1. RefStatus(t) \in {"held", "recorded"}
      BY <1>2, <2>2 DEF RefStatus, RollbackToken
    <3> QED BY <2>1, <2>2, <3>1, ReleaseStep DEF Reference!Next
  <2>3. CASE t \notin refs
    BY <1>2, <2>1, <2>3, Unmapped DEF RefStatus, RollbackToken
  <2> QED BY <2>2, <2>3
<1>3. CASE RollbackDone(d)
  BY <1>0, <1>3, Unmapped DEF RefStatus, RollbackDone, Written
<1>4. CASE StartupFails(d)
  BY <1>0, <1>4, Unmapped DEF RefStatus, StartupFails, Gone
<1>5. CASE EnableStale(d)
  <2>1. \A u \in Token \ {tokenFile} : RefStatus(u)' = RefStatus(u)
    BY <1>5 DEF RefStatus, EnableStale
  <2>2. CASE tokenFile \in refs
    <3>1. RefStatus(tokenFile) = "recorded"
      BY <2>2 DEF RefStatus
    <3> QED BY <1>5, <2>1, <2>2, <3>1, ReleaseStep DEF EnableStale, Reference!Next
  <2>3. CASE tokenFile \notin refs
    BY <1>5, <2>1, <2>3, Unmapped DEF RefStatus, EnableStale
  <2> QED BY <2>2, <2>3
<1>6. CASE EnableTake(d)
  <2> PICK t \in Unused : /\ refs' = refs \cup {t}
                          /\ tok' = [tok EXCEPT ![d] = t]
    BY <1>6 DEF EnableTake
  <2>1. \A p \in Proc : tok[p] = NoToken
    BY <1>0, <1>6 DEF EnableTake
  <2>2. /\ RefStatus(t) = "free" /\ RefStatus(t)' = "held"
        /\ \A u \in Token \ {t} : RefStatus(u)' = RefStatus(u)
        /\ \A u \in Token : RefStatus(u) # "held"
    BY <1>0, <1>6, <2>1 DEF RefStatus, EnableTake, Unused
  <2> QED BY <2>2, TakeStep DEF Unused, Reference!Next
<1>7. CASE EnableRecord(d)
  <2>1. tok[d] \in refs /\ \A u \in Token \ {tok[d]} : RefStatus(u)' = RefStatus(u)
    BY <1>0, <1>7 DEF EnableRecord, Written, RefStatus
  <2>2. CASE journal' = journal
    BY <1>7, <2>2, Unmapped DEF EnableRecord, RefStatus
  <2>3. CASE journal' = journal \cup {tok[d]}
    BY <1>0, <1>7, <2>1, <2>3, PersistSimulates DEF EnableRecord
  <2> QED BY <1>7, <2>2, <2>3 DEF EnableRecord, Written
<1>8. CASE EnableWrite(d)
  <2>1. tok[d] \in refs /\ \A u \in Token \ {tok[d]} : RefStatus(u)' = RefStatus(u)
    BY <1>0, <1>8 DEF EnableWrite, RefStatus
  <2> QED BY <1>0, <1>8, <2>1, PersistSimulates DEF EnableWrite
<1>9. CASE EnableUndo(d)
  <2>1. tok[d] \in refs /\ RefStatus(tok[d]) \in {"held", "recorded"}
    BY <1>0, <1>9 DEF EnableUndo, RefStatus
  <2>2. \A u \in Token \ {tok[d]} : RefStatus(u)' = RefStatus(u)
    BY <1>0, <1>9 DEF EnableUndo, RefStatus
  <2> QED BY <1>9, <2>1, <2>2, ReleaseStep DEF EnableUndo, Reference!Next
<1>10. CASE LoadRecord(d)
  BY <1>10, Unmapped DEF LoadRecord, Written, RefStatus
<1>11. CASE TeardownRelease(d) \/ CleanupRelease(d)
  <2>1. CASE UNCHANGED <<refs, tokenFile, tok>>
    BY <1>11, <2>1, Unmapped DEF TeardownRelease, CleanupRelease, RefStatus
  <2>2. CASE ~ UNCHANGED <<refs, tokenFile, tok>>
    BY <1>0, <1>11, <2>2, ReleaseSimulates DEF TeardownRelease, CleanupRelease, Release
  <2> QED BY <2>1, <2>2
<1>12. CASE CleanupClear(d)
  BY <1>0, <1>12, Unmapped DEF CleanupClear, Written, RefStatus
<1>13. CASE CleanupClose(d)
  <2>1. CASE HandleOf(d) \in refs
    BY <1>0, <1>13, <2>1, ReleaseSimulates DEF CleanupClose, Gone
  <2>2. CASE HandleOf(d) \notin refs
    BY <1>0, <1>13, <2>2, Unmapped DEF CleanupClose, Gone, HandleOf, RefStatus
  <2> QED BY <2>1, <2>2
<1>14. CASE DetectEnable(d)
  <2> PICK t \in Unused : refs' = {t} /\ probeTok' = t
    BY <1>14 DEF DetectEnable
  <2>1. refs = {} /\ UNCHANGED <<journal, tokenFile, tok>>
    BY <1>14 DEF DetectEnable
  <2>2. /\ RefStatus(t) = "free" /\ RefStatus(t)' = "held"
        /\ \A u \in Token \ {t} : RefStatus(u)' = RefStatus(u)
        /\ \A u \in Token : RefStatus(u) # "held"
    BY <2>1 DEF RefStatus, Unused
  <2> QED BY <2>2, TakeStep DEF Unused, Reference!Next
<1>15. CASE DetectRelease(d)
  <2>1. \A u \in Token \ {probeTok} : RefStatus(u)' = RefStatus(u)
    BY <1>15 DEF RefStatus, DetectRelease
  <2>2. CASE probeTok \in refs
    <3>1. RefStatus(probeTok) \in {"held", "recorded"}
      BY <2>2 DEF RefStatus
    <3> QED BY <1>15, <2>1, <2>2, <3>1, ReleaseStep DEF DetectRelease, Reference!Next
  <2>3. CASE probeTok \notin refs
    BY <1>15, <2>1, <2>3, Unmapped DEF RefStatus, DetectRelease
  <2> QED BY <2>2, <2>3
<1> QED BY <1>14, <1>15, <1>1, <1>2, <1>3, <1>4, <1>5, <1>6, <1>7, <1>8, <1>9, <1>10, <1>11, <1>12, <1>13
        DEF DaemonStep, StartupStep, SetupStep, TeardownStep, CleanupStep

LEMMA GuardSimulates ==
    ASSUME Faultless, RInv, NEW g \in Guard, GuardStep(g)
    PROVE  [Reference!Next]_ReferenceStatus
<1> USE ProcAssumption, RecordAssumption
        DEF Faultless, RInv, JournalSettled, IInv, TypeOK, LockHeld, RepairAlone, NoDaemon, NoRepair, RepairPc, MemoryTrue,
            EnableOrder, ProbeOrder, ProbePc, Proc, Record, Goto, DaemonPc, GuardPc, EnablePc, LoadedPc,
            CleanupPc, HoldingPc, kernel, disk, memory, replay
<1>0. g \in Proc
  OBVIOUS
<1>1. CASE GuardLock(g) \/ GuardResolve(g) \/ GuardRead(g) \/ GuardFlush(g)
  BY <1>1, Unmapped DEF RefStatus, GuardLock, GuardResolve, GuardRead, GuardFlush
<1>2. CASE GuardRelease(g)
  <2>1. CASE UNCHANGED <<refs, tokenFile, tok>>
    BY <1>2, <2>1, Unmapped DEF GuardRelease, RefStatus
  <2>2. CASE ~ UNCHANGED <<refs, tokenFile, tok>>
    BY <1>0, <1>2, <2>2, ReleaseSimulates DEF GuardRelease, Release
  <2> QED BY <2>1, <2>2
<1>3. CASE GuardClose(g)
  <2>1. CASE HandleOf(g) \in refs
    BY <1>0, <1>3, <2>1, ReleaseSimulates DEF GuardClose, Gone
  <2>2. CASE HandleOf(g) \notin refs
    BY <1>0, <1>3, <2>2, Unmapped DEF GuardClose, Gone, HandleOf, RefStatus
  <2> QED BY <2>1, <2>2
<1> QED BY <1>1, <1>2, <1>3 DEF GuardStep

(* A crash loses the reference its process alone knew of, if there is one. *)
LEMMA CrashSimulates ==
    ASSUME RInv, NEW p \in Proc, Crash(p)
    PROVE  [Reference!Next]_ReferenceStatus
<1> USE ProcAssumption, RecordAssumption
        DEF Faultless, RInv, JournalSettled, IInv, TypeOK, LockHeld, RepairAlone, NoDaemon, NoRepair, RepairPc, MemoryTrue,
            EnableOrder, ProbeOrder, ProbePc, Proc, Record, Goto, DaemonPc, GuardPc, EnablePc, LoadedPc,
            CleanupPc, HoldingPc, kernel, disk, memory, replay
<1>1. CASE \E t \in Token : t \in {tok[p], probeTok} /\ RefStatus(t) = "held"
  <2> PICK t \in Token : t \in {tok[p], probeTok} /\ RefStatus(t) = "held"
    BY <1>1
  <2>1. \A u \in Token \ {t} : RefStatus(u)' = RefStatus(u)
    BY DEF Crash, Gone, RefStatus
  <2>2. RefStatus(t)' = "lost"
    BY <1>1 DEF Crash, Gone, RefStatus
  <2> QED BY <2>1, <2>2, Mapped
          DEF Reference!Next, Reference!Lose, Reference!Become, ReferenceStatus
<1>2. CASE \A t \in Token : t \in {tok[p], probeTok} => RefStatus(t) # "held"
  BY <1>2, Unmapped DEF Crash, Gone, RefStatus
<1> QED BY <1>1, <1>2

LEMMA RebootSimulates == Reboot => Reference!Next
  BY DEF Reboot, Reference!Next, Reference!Reboot, ReferenceStatus, RefStatus

(* While pfctl and the journal can be read, the daemons and guards, with    *)
(* every crash, reboot and failing write, implement PfReference: a recorded *)
(* reference is never lost.                                                *)
THEOREM Implements == Faultless => (Spec => ReferenceSpec)
<1> SUFFICES ASSUME Faultless PROVE Spec => ReferenceSpec
  OBVIOUS
<1>1. Init => Reference!Init
  BY DEF Init, Reference!Init, ReferenceStatus, RefStatus
<1>2. RInv /\ [Next]_vars => RInv'
  BY NextRInv
<1>3. RInv /\ [Next]_vars => [Reference!Next]_ReferenceStatus
  <2> SUFFICES ASSUME RInv, [Next]_vars PROVE [Reference!Next]_ReferenceStatus
    OBVIOUS
  <2>1. CASE ForeignReload \/ UNCHANGED vars
    BY <2>1, Unmapped DEF ForeignReload, RefStatus, vars, kernel, disk, memory
  <2> QED BY <2>1, DaemonSimulates, GuardSimulates, CrashSimulates, RebootSimulates DEF Next, Faultless
<1> QED BY <1>1, <1>2, <1>3, InitRInv, PTL DEF Spec, ReferenceSpec, Reference!Spec

-----------------------------------------------------------------------------
(* What cleanup leaves, when pfctl and reading the journal succeed.         *)

(* All rules but those of a probe, or of one that was killed, are in the      *)
(* anchor that the main ruleset supports, and a daemon past its preflight    *)
(* knows it.                                                                *)
AnchorKnown ==
    /\ rules \subseteq {MainMode, "plain"}
    /\ rules \ {MainMode} # {} => crashes > 0 \/ \E d \in Daemon : pc[d] = "dtFlush"
    /\ \A d \in Daemon : pc[d] \notin {"off", "rollback", "preflight"} => mode[d] = MainMode
    /\ \A p \in Proc : mode[p] \in {"unresolved", MainMode}

(* Each step of cleanup has done its part.                                  *)
CleanedSoFar ==
    \A d \in Daemon :
        /\ pc[d] \in {"clRelease", "clClear", "clClose"} => MainMode \notin rules
        /\ pc[d] \in {"clClear", "clClose"} => tok[d] = NoToken /\ tokenFile \notin refs

(* Before a crash, whoever holds the lock has every live reference in hand. *)
InHand ==
    crashes = 0 => \A t \in refs : t = probeTok \/ (lock \in Daemon /\ tok[lock] = t)

CInv == RInv /\ AnchorKnown /\ CleanedSoFar /\ InHand

LEMMA InitCInv == Init => CInv
  BY InitRInv, RecordAssumption DEF Init, CInv, AnchorKnown, CleanedSoFar, InHand, Proc

(* Steps of a daemon. The others are off: one process holds the lock.       *)
LEMMA DaemonKeepsCInv ==
    ASSUME Faultless, CInv, RInv', NEW d \in Daemon, DaemonStep(d)
    PROVE  CInv'
<1> USE ProcAssumption, RecordAssumption, ModeAssumption
        DEF Faultless, CInv, RInv, IInv, TypeOK, LockHeld, RepairAlone, NoDaemon, NoRepair, RepairPc, MemoryTrue, ProbeOrder, AnchorKnown, CleanedSoFar, InHand,
            ProbePc, HoldingPc, Proc, Record, Goto, DaemonPc, GuardPc, EnablePc, LoadedPc, CleanupPc,
            kernel, disk, memory, replay
<1>1. CASE Launch(d)
  BY <1>1 DEF Launch
<1>2. CASE RollbackToken(d)
  BY <1>2 DEF RollbackToken
<1>3. CASE RollbackRules(d)
  BY <1>3 DEF RollbackRules, EffAnchor, Anchor
<1>4. CASE RollbackDone(d)
  BY <1>4 DEF RollbackDone, Written
<1>5. CASE EnsureAnchor(d)
  <2>1. /\ rules' \subseteq rules /\ UNCHANGED <<refs, tok, probeTok, lock, tokenFile, crashes>>
        /\ pc' = [pc EXCEPT ![d] = "detect"] /\ mode' = [mode EXCEPT ![d] = MainMode]
    BY <1>5 DEF EnsureAnchor, Resolved
  <2>2. \A p \in Daemon : pc[p] # "dtFlush"
    BY <1>5 DEF EnsureAnchor
  <2>3. rules' \subseteq {MainMode, "plain"} /\ (rules' \ {MainMode} # {} => crashes' > 0)
    BY <2>1, <2>2
  <2>4. /\ \A p \in Daemon : pc'[p] \notin {"off", "rollback", "preflight"} => mode'[p] = MainMode
        /\ \A p \in Proc : mode'[p] \in {"unresolved", MainMode}
    BY <2>1
  <2>5. AnchorKnown'
    BY <2>3, <2>4
  <2> QED BY <1>5, <2>1, <2>5 DEF EnsureAnchor
<1>6. CASE StartupFails(d)
  BY <1>6 DEF StartupFails, Gone
<1>7. CASE Serve(d)
  BY <1>7 DEF Serve
<1>8. CASE BeginSetup(d)
  BY <1>8 DEF BeginSetup
<1>9. CASE EnableHeld(d)
  BY <1>9 DEF EnableHeld
<1>10. CASE EnableStale(d)
  BY <1>10 DEF EnableStale
<1>11. CASE EnableTake(d)
  BY <1>11 DEF EnableTake, Unused
<1>12. CASE EnableRecord(d)
  BY <1>12 DEF EnableRecord, Written
<1>13. CASE EnableWrite(d)
  BY <1>13 DEF EnableWrite
<1>14. CASE EnableUndo(d)
  BY <1>14 DEF EnableUndo
<1>15. CASE LoadRules(d)
  BY <1>15 DEF LoadRules, EffAnchor, Anchor
<1>16. CASE ReloadRules(d)
  BY <1>16 DEF ReloadRules, EffAnchor, Anchor
<1>17. CASE LoadRecord(d)
  BY <1>17 DEF LoadRecord, Written
<1>18. CASE EndSession(d)
  BY <1>18 DEF EndSession
<1>19. CASE TeardownFlush(d)
  BY <1>19 DEF TeardownFlush, FlushRules
<1>20. CASE TeardownRelease(d)
  BY <1>20 DEF TeardownRelease, Release, HandleOf
<1>21. CASE StopFlush(d)
  BY <1>21 DEF StopFlush, FlushRules
<1>22. CASE BeginCleanup(d)
  BY <1>22 DEF BeginCleanup
<1>23. CASE CleanupFlush(d)
  BY <1>23 DEF CleanupFlush, FlushRules, EffAnchor, Anchor
<1>24. CASE CleanupRelease(d)
  BY <1>24 DEF CleanupRelease, Release, HandleOf
<1>25. CASE CleanupClear(d)
  BY <1>25 DEF CleanupClear, Written
<1>26. CASE CleanupClose(d)
  BY <1>26 DEF CleanupClose, HandleOf, Gone
<1>27. CASE DetectSkips(d)
  BY <1>27 DEF DetectSkips
<1>28. CASE DetectEnable(d)
  BY <1>28 DEF DetectEnable, Unused
<1>29. CASE DetectLoad(d)
  BY <1>29 DEF DetectLoad
<1>30. CASE DetectFlush(d)
  BY <1>30 DEF DetectFlush
<1>31. CASE DetectRelease(d)
  BY <1>31 DEF DetectRelease
<1> QED BY <1>27, <1>28, <1>29, <1>30, <1>31, <1>1, <1>2, <1>3, <1>4, <1>5, <1>6, <1>7, <1>8, <1>9, <1>10, <1>11, <1>12, <1>13, <1>14, <1>15, <1>16, <1>17, <1>18, <1>19, <1>20, <1>21, <1>22, <1>23, <1>24, <1>25, <1>26
        DEF DaemonStep, StartupStep, SetupStep, TeardownStep, CleanupStep

LEMMA NextCInv == ASSUME Faultless, CInv, [Next]_vars PROVE CInv'
<1>1. RInv'
  BY NextRInv DEF CInv
<1> USE ProcAssumption, RecordAssumption, ModeAssumption
        DEF Faultless, CInv, RInv, IInv, TypeOK, LockHeld, RepairAlone, NoDaemon, NoRepair, RepairPc, MemoryTrue, ProbeOrder, AnchorKnown, CleanedSoFar, InHand,
            ProbePc, HoldingPc, Proc, Record, Goto, DaemonPc, GuardPc, EnablePc, LoadedPc, CleanupPc,
            kernel, disk, memory, replay
<1>2. CASE \E d \in Daemon : DaemonStep(d)
  BY <1>1, <1>2, DaemonKeepsCInv
<1>3. CASE \E g \in Guard : GuardStep(g)
  <2> PICK g \in Guard : GuardStep(g)
    BY <1>3
  <2>1. CASE GuardLock(g) \/ GuardRead(g)
    BY <1>1, <2>1 DEF GuardLock, GuardRead
  <2>2. CASE GuardResolve(g)
    BY <1>1, <2>2 DEF GuardResolve, Resolved
  <2>3. CASE GuardFlush(g)
    BY <1>1, <2>3 DEF GuardFlush, FlushRules
  <2>4. CASE GuardRelease(g)
    BY <1>1, <2>4 DEF GuardRelease, Release, HandleOf
  <2>5. CASE GuardClose(g)
    BY <1>1, <2>5 DEF GuardClose, Gone, HandleOf
  <2> QED BY <2>1, <2>2, <2>3, <2>4, <2>5 DEF GuardStep
<1>4. CASE Reboot
  BY <1>1, <1>4 DEF Reboot
<1>5. CASE ForeignReload
  BY <1>1, <1>5 DEF ForeignReload
<1>6. CASE \E p \in Proc : Crash(p)
  BY <1>1, <1>6 DEF Crash, Gone
<1>7. CASE UNCHANGED vars
  BY <1>1, <1>7 DEF vars
<1> QED BY <1>2, <1>3, <1>4, <1>5, <1>6, <1>7 DEF Next

(* Daemon.cleanup: when Run is about to return, pf evaluates no rule of ours *)
(* and no token a process or the disk remembers is a live reference; before  *)
(* any crash no anchor has a rule of ours and no reference is left.         *)
THEOREM CleanExit == Faultless => (Spec => []CleanupUndoes)
<1> SUFFICES ASSUME Faultless PROVE Spec => []CleanupUndoes
  OBVIOUS
<1>1. CInv => CleanupUndoes
  BY ProcAssumption, RecordAssumption
  DEF CInv, RInv, IInv, TypeOK, LockHeld, ProbeOrder, AnchorKnown, CleanedSoFar, InHand,
      CleanupUndoes, Proc
<1>2. CInv /\ [Next]_vars => CInv'
  BY NextCInv
<1> QED BY <1>1, <1>2, InitCInv, PTL DEF Spec

(* Only two writes shrink the journal. After a rollback its references are  *)
(* released; at ClearExcept the last of them was that of the daemon, which  *)
(* has been released just before.                                           *)
LEMMA RecordsKept ==
    ASSUME Faultless, CInv, [Next]_vars
    PROVE  (journal \ journal') \cap refs' = {}
<1> USE ProcAssumption, RecordAssumption
        DEF kernel, disk, memory, replay
<1>1. CASE \E d \in Daemon : RollbackDone(d)
  BY <1>1 DEF RollbackDone, Written, CInv, RInv, JournalSettled
<1>2. CASE \E d \in Daemon : CleanupClear(d)
  BY <1>2 DEF CleanupClear, Written, CInv, RInv, IInv, TypeOK, JournalSettled, CleanedSoFar
<1>3. ASSUME NEW d \in Daemon, DaemonStep(d), ~RollbackDone(d), ~CleanupClear(d)
      PROVE  journal \subseteq journal'
  BY <1>3 DEF DaemonStep, StartupStep, SetupStep, TeardownStep, CleanupStep, Launch,
       RollbackToken, RollbackRules, EnsureAnchor, StartupFails, Serve, DetectSkips,
       DetectEnable, DetectLoad, DetectFlush, DetectRelease, BeginSetup,
       EnableHeld, EnableStale, EnableTake, EnableRecord, EnableWrite, EnableUndo,
       LoadRules, ReloadRules, LoadRecord, EndSession, TeardownFlush, TeardownRelease,
       StopFlush, BeginCleanup, CleanupFlush, CleanupRelease, CleanupClose, Written
<1>4. ASSUME NEW g \in Guard, GuardStep(g) PROVE journal \subseteq journal'
  BY <1>4 DEF GuardStep, GuardLock, GuardResolve, GuardRead, GuardFlush, GuardRelease, GuardClose
<1>5. CASE Reboot \/ ForeignReload \/ (\E p \in Proc : Crash(p)) \/ UNCHANGED vars
  BY <1>5 DEF Reboot, ForeignReload, Crash, vars
<1> QED BY <1>1, <1>2, <1>3, <1>4, <1>5 DEF Next, Faultless

(* With the disk failing and processes dying as they may, every reference   *)
(* follows PfReference and the journal forgets it only once it is released. *)
THEOREM AllAccounted == Faultless => (Spec => TokensAccounted)
<1> SUFFICES ASSUME Faultless PROVE Spec => TokensAccounted
  OBVIOUS
<1>1. CInv /\ [Next]_vars => CInv'
  BY NextCInv
<1>2. CInv /\ [Next]_vars => [(journal \ journal') \cap refs' = {}]_vars
  BY RecordsKept
<1>3. Spec => TokenRecordKept
  BY <1>1, <1>2, InitCInv, PTL DEF Spec, TokenRecordKept
<1>4. Spec => ReferenceSpec
  BY Implements
<1> QED BY <1>3, <1>4 DEF TokensAccounted

-----------------------------------------------------------------------------
(* SystemFiles                                                               *)

Busy(p) == ~At(p, "none")

\* What the command line was started as is known while it works.
CliKind ==
    /\ place.cli = "idle" => kind = "none"
    /\ place.cli = "replay" => kind = "repair"
    /\ place.cli \in {"conf", "clear"} => kind = "uninstall"
    /\ place.cli = "hosts" => kind # "none"

FilesTyped == FilesTypeOK /\ CliKind

\* Who patches which file, and when: no two at once.
Apartness ==
    /\ place.daemon # "down" => place.cli \in {"idle", "done"} /\ kind # "uninstall"
    /\ Busy("daemon") =>
          /\ place.daemon \in {"replay", "ensured", "resetup"} /\ job["daemon"].file = "pf.conf"
          /\ job["daemon"].want = (place.daemon # "replay")
    /\ place.daemon \in {"ensured", "resetup"} => Busy("daemon")
    /\ Busy("handler") =>
          /\ place.daemon \in {"serving", "resetup", "clRead", "clRewrite", "clClose"}
          /\ job["handler"].file = "hosts"
    /\ Busy("cli") =>
          /\ place.cli \in {"replay", "conf", "hosts"} /\ ~job["cli"].want
          /\ job["cli"].file = "pf.conf" => place.cli # "hosts"

\* A rollback has read the journal as it is, and what it has reverted is gone.
Replays(p) ==
    place[p] = "replay" =>
        /\ read[p] = records /\ unread[p] \subseteq read[p]
        /\ Busy(p) => job[p].file \in read[p]
        /\ \A f \in read[p] \ (unread[p] \cup left[p]) : file[f].ours => Busy(p) /\ job[p].file = f

\* Who rewrites the journal has opened it.
Opened ==
    /\ place.daemon # "down" => fd["pf"] # "closed"
    /\ place.cli = "replay" /\ read["cli"] # {} => fd["cli"] # "closed"

\* What a patch has come to.
Patched(p) ==
    /\ At(p, "done") /\ job[p].ok /\ ~job[p].want => ~file[job[p].file].ours
    /\ At(p, "reload") => job[p].file = "pf.conf" /\ (~job[p].want => ~file["pf.conf"].ours)

\* What a patch has read or secured is not newer than what is there.
Secured(p) ==
    /\ job[p].orig.theirs <= edits
    /\ job[p].at \in {"open", "record", "write", "verify", "restore"} =>
          backed[job[p].file] <= job[p].orig.theirs

Versions ==
    /\ \A f \in File : backed[f] <= file[f].theirs /\ file[f].theirs <= edits
    /\ \A p \in Party : Secured(p)

\* The journal, unless a line was lost or the daemon uninstalled.
Recording ==
    ~lost =>
        /\ torn => \A h \in Handle : fd[h] = "closed"
        /\ kind # "uninstall" =>
              /\ \A f \in File : file[f].ours => f \in records \/ (f = "pf.conf" /\ adopted)
              /\ \A p \in Party :
                    \/ job[p].at \in {"write", "verify", "restore"}
                    \/ job[p].at \in {"backup", "open", "record"} /\ ~job[p].want
                    => job[p].file \in records

\* The statements are in the ruleset, as long as nobody else changes it and nothing is refused.
Loading ==
    ~excused /\ ~lost /\ edits = 0 =>
        /\ place.daemon \in {"startup", "serving", "resetup", "clRead", "clRewrite", "clClose"} =>
              main /\ file["pf.conf"].ours
        /\ place.daemon = "resetup" => At("daemon", "done")
        /\ adopted => main /\ file["pf.conf"].ours
        /\ place.daemon = "replay" /\ file["pf.conf"].ours => main \/ "pf.conf" \in unread["daemon"] \/ Busy("daemon")
        /\ place.daemon = "ensure" /\ file["pf.conf"].ours => main
        /\ \A p \in {"daemon", "cli"} :
              job[p].at \in {"verify", "reload"} /\ job[p].file = "pf.conf" => file["pf.conf"].ours = job[p].want
        /\ At("daemon", "done") =>
              job["daemon"].ok /\ (IF job["daemon"].want THEN main /\ file["pf.conf"].ours ELSE ~file["pf.conf"].ours)

FilesInv ==
    /\ FilesTyped
    /\ ~Beside =>
          /\ Apartness /\ Opened
          /\ \A p \in {"daemon", "cli"} : Replays(p)
          /\ \A p \in Party : Patched(p)
          /\ Versions /\ Recording /\ Loading

\* Where a patch may be.
JobPlaces == {"none", "backup", "open", "record", "write", "verify", "restore", "reload", "done"}

\* What the building blocks make of the patches.
JobOf(p, at, ok) ==
    /\ job' \in [Party -> Job]
    /\ \A q \in Party \ {p} : job'[q] = job[q]
    /\ job'[p].at = at /\ job'[p].ok = ok
    /\ job'[p].file = job[p].file /\ job'[p].want = job[p].want /\ job'[p].orig = job[p].orig

\* The constants and the shape of a patch.
LEMMA FilesKnown ==
    /\ Subject = File /\ Handle = Handles /\ File = {"hosts", "pf.conf"}
    /\ "daemon" \in Party /\ "handler" \in Party /\ "cli" \in Party
    /\ Idle \in Job /\ Idle.at = "none" /\ Idle.orig.theirs = 0
    /\ \A j \in Job : j.at \in JobPlaces /\ j.file \in File /\ j.want \in BOOLEAN /\ j.orig \in Content /\ j.ok \in BOOLEAN
    /\ \A v \in Content : v.ours \in BOOLEAN /\ v.theirs \in 0 .. MaxEdits
<1>1. 0 \in 0 .. MaxEdits
  BY FilesAssumption
<1> QED
  BY <1>1, FilesAssumption DEF File, Party, Idle, Job, Content, JobPlaces

\* Step, Finish, Forget and Begin, in the words of JobOf.
LEMMA StepMoves ==
  ASSUME job \in [Party -> Job], NEW p \in Party, NEW at \in JobPlaces, Step(p, at)
  PROVE  JobOf(p, at, job[p].ok)
<1>1. job' = [job EXCEPT ![p] = [job[p] EXCEPT !.at = at]]
  BY DEF Step
<1>2. job[p] \in Job
  OBVIOUS
<1>3. /\ [job[p] EXCEPT !.at = at] \in Job
      /\ [job[p] EXCEPT !.at = at].at = at /\ [job[p] EXCEPT !.at = at].ok = job[p].ok
      /\ [job[p] EXCEPT !.at = at].file = job[p].file /\ [job[p] EXCEPT !.at = at].want = job[p].want
      /\ [job[p] EXCEPT !.at = at].orig = job[p].orig
  BY <1>2 DEF Job, JobPlaces
<1> HIDE DEF Step
<1> QED
  BY <1>1, <1>3 DEF JobOf

\* A patch that ends keeps what it was about.
LEMMA FinishMoves ==
  ASSUME job \in [Party -> Job], NEW p \in Party, NEW good \in BOOLEAN, Finish(p, good)
  PROVE  JobOf(p, "done", good)
<1> DEFINE j == [[job[p] EXCEPT !.at = "done"] EXCEPT !.ok = good]
<1>1. job' = [job EXCEPT ![p] = j]
  BY DEF Finish
<1>2. job[p] \in Job
  OBVIOUS
<1>3. [job[p] EXCEPT !.at = "done"] \in Job
  BY <1>2 DEF Job
<1>4. /\ j \in Job /\ j.at = "done" /\ j.ok = good
      /\ j.file = job[p].file /\ j.want = job[p].want /\ j.orig = job[p].orig
  BY <1>2, <1>3 DEF Job
<1> HIDE DEF j
<1> QED
  BY <1>1, <1>4 DEF JobOf

\* A patch that is forgotten leaves the others alone.
LEMMA ForgetMoves ==
  ASSUME job \in [Party -> Job], NEW p \in Party, Forget(p)
  PROVE  job' \in [Party -> Job] /\ job'[p] = Idle /\ \A q \in Party \ {p} : job'[q] = job[q]
  BY FilesKnown DEF Forget

\* A patch begins with what the file holds.
LEMMA BeginMoves ==
  ASSUME job \in [Party -> Job], file \in [File -> Content], NEW p \in Party, NEW f \in File, NEW w \in BOOLEAN,
         Begin(p, f, w)
  PROVE  /\ job' \in [Party -> Job] /\ \A q \in Party \ {p} : job'[q] = job[q]
         /\ job'[p].at = (IF file[f].ours = w THEN "done" ELSE "backup")
         /\ job'[p].file = f /\ job'[p].want = w /\ job'[p].orig = file[f] /\ job'[p].ok
<1> DEFINE at == IF file[f].ours = w THEN "done" ELSE "backup"
           j == [at |-> at, file |-> f, want |-> w, orig |-> file[f], ok |-> TRUE]
<1>1. job' = [job EXCEPT ![p] = j]
  BY DEF Begin
<1>2. at \in {"done", "backup"}
  OBVIOUS
<1>3. j \in Job
  BY <1>2 DEF Job
<1>4. j.at = at /\ j.file = f /\ j.want = w /\ j.orig = file[f] /\ j.ok
  OBVIOUS
<1> HIDE DEF j
<1> QED
  BY <1>1, <1>3, <1>4

\* A step of a patch: who it concerns, what it leaves alone.
LEMMA PatchMoves ==
  ASSUME FilesTypeOK, NEW p \in Party, PatchStep(p)
  PROVE  /\ \E at \in JobPlaces \ {"none", "backup"}, ok \in BOOLEAN : JobOf(p, at, ok)
         /\ Busy(p) /\ Busy(p)'
         /\ UNCHANGED <<place, kind, read, unread, left, verified, edits, losses>>
<1> USE FilesKnown
<1>1. job \in [Party -> Job] /\ job[p] \in Job /\ job[p].ok \in BOOLEAN /\ job[p].want \in BOOLEAN
  BY DEF FilesTypeOK
<1>2. \A at \in JobPlaces \ {"none", "backup"}, ok \in BOOLEAN :
         JobOf(p, at, ok) => \E a \in JobPlaces \ {"none", "backup"}, o \in BOOLEAN : JobOf(p, a, o) /\ Busy(p)'
  BY DEF JobOf, Busy, At, JobPlaces
<1>3. \A at \in JobPlaces \ {"none", "backup"} :
         Step(p, at) => \E a \in JobPlaces \ {"none", "backup"}, o \in BOOLEAN : JobOf(p, a, o) /\ Busy(p)'
  BY <1>1, <1>2, StepMoves
<1>4. \A good \in BOOLEAN :
         Finish(p, good) => \E a \in JobPlaces \ {"none", "backup"}, o \in BOOLEAN : JobOf(p, a, o) /\ Busy(p)'
  BY <1>1, <1>2, FinishMoves DEF JobPlaces
<1>5. \/ \E at \in JobPlaces \ {"none", "backup"} : Step(p, at)
      \/ \E good \in BOOLEAN : Finish(p, good)
  <2>1. CASE Backup(p)
    BY <2>1 DEF Backup, JobPlaces
  <2>2. CASE Refuse(p)
    BY <2>2 DEF Refuse
  <2>3. CASE OpenHandle(p)
    BY <2>3 DEF OpenHandle, JobPlaces
  <2>4. CASE RecordPatch(p)
    BY <2>4 DEF RecordPatch, JobPlaces
  <2>5. CASE Write(p)
    BY <2>5 DEF Write, JobPlaces
  <2>6. CASE Verify(p)
    BY <2>6 DEF Verify, JobPlaces
  <2>7. CASE Restore(p)
    BY <2>7 DEF Restore
  <2>8. CASE Reload(p)
    BY <1>1, <2>8 DEF Reload
  <2> QED
    BY <2>1, <2>2, <2>3, <2>4, <2>5, <2>6, <2>7, <2>8 DEF PatchStep
<1>6. Busy(p) /\ UNCHANGED <<place, kind, read, unread, left, verified, edits, losses>>
  BY DEF PatchStep, Backup, Refuse, OpenHandle, RecordPatch, Write, Verify, Restore, Reload, At, Busy,
         replaying, history
<1> QED
  BY <1>3, <1>4, <1>5, <1>6

\* What the calls of the journal leave.
LEMMA OpenTypes == ASSUME JournalTypeOK, NEW h \in Handle, Open(h) PROVE JournalTypeOK'
  BY DEF Open, JournalTypeOK

\* A record is appended.
LEMMA AppendTypes == ASSUME JournalTypeOK, NEW h \in Handle, NEW r \in Subject, Append(h, r) PROVE JournalTypeOK'
  BY DEF Append, JournalTypeOK

\* Handles are closed.
LEMMA CloseTypes ==
  ASSUME JournalTypeOK, NEW hs, Close(hs) PROVE fd' \in [Handle -> {"closed", "current", "stale"}]
  BY DEF Close, JournalTypeOK

\* The journal is rewritten.
LEMMA RewriteTypes ==
  ASSUME JournalTypeOK, NEW h \in Handle, NEW had \in SUBSET Subject, NEW stays \in SUBSET Subject, Rewrite(h, had, stays)
  PROVE  JournalTypeOK'
<1> USE DEF JournalTypeOK
<1>1. fd' \in [Handle -> {"closed", "current", "stale"}]
  BY DEF Rewrite
<1>2. records' \in SUBSET Subject /\ torn' \in BOOLEAN /\ lost' \in BOOLEAN
  BY DEF Rewrite
<1> QED
  BY <1>1, <1>2


\* Who rolls back.
Replayer == {"daemon", "cli"}

\* Where a move leads, and what the memory of a rollback becomes.
LEMMA PlaceMoves ==
  ASSUME place \in [{"daemon", "cli"} -> DaemonPlace \cup CliPlace], NEW p \in {"daemon", "cli"},
         NEW l \in DaemonPlace \cup CliPlace, MoveTo(p, l)
  PROVE  /\ place' \in [{"daemon", "cli"} -> DaemonPlace \cup CliPlace]
         /\ place'[p] = l /\ \A q \in {"daemon", "cli"} \ {p} : place'[q] = place[q]
  BY DEF MoveTo

\* The memory of the rollbacks.
MemoryTyped ==
    /\ read \in [{"daemon", "cli"} -> SUBSET Subject]
    /\ unread \in [{"daemon", "cli"} -> SUBSET Subject]
    /\ left \in [{"daemon", "cli"} -> SUBSET Subject]

\* A rollback begins and ends.
LEMMA MemoryMoves ==
  ASSUME MemoryTyped, records \in SUBSET Subject, NEW p \in {"daemon", "cli"}
  PROVE  /\ BeginReplay(p) =>
               /\ MemoryTyped' /\ read'[p] = records /\ unread'[p] = records /\ left'[p] = {}
               /\ \A q \in {"daemon", "cli"} \ {p} : read'[q] = read[q] /\ unread'[q] = unread[q] /\ left'[q] = left[q]
         /\ EndReplay(p) =>
               /\ MemoryTyped' /\ read'[p] = {} /\ unread'[p] = {} /\ left'[p] = {}
               /\ \A q \in {"daemon", "cli"} \ {p} : read'[q] = read[q] /\ unread'[q] = unread[q] /\ left'[q] = left[q]
  BY DEF MemoryTyped, BeginReplay, EndReplay

\* A daemon that is gone: its patches, its memory and its descriptors.
LEMMA DaemonGoes ==
  ASSUME FilesTyped, DaemonGone
  PROVE  /\ place' \in [{"daemon", "cli"} -> DaemonPlace \cup CliPlace]
         /\ place'["daemon"] = "down" /\ place'["cli"] = place["cli"]
         /\ job' \in [Party -> Job]
         /\ job'["daemon"] = Idle /\ job'["handler"] = Idle /\ job'["cli"] = job["cli"]
         /\ MemoryTyped' /\ read'["cli"] = read["cli"] /\ unread'["cli"] = unread["cli"] /\ left'["cli"] = left["cli"]
         /\ fd' \in [Handle -> {"closed", "current", "stale"}]
         /\ fd' = [h \in Handle |-> IF h \in {"pf", "hosts"} THEN "closed" ELSE fd[h]]
         /\ verified' = FALSE
<1> USE FilesKnown DEF FilesTyped, FilesTypeOK
<1>1. MoveTo("daemon", "down") /\ EndReplay("daemon") /\ verified' = FALSE /\ Close({"pf", "hosts"})
      /\ job' = [[job EXCEPT !["daemon"] = Idle] EXCEPT !["handler"] = Idle]
  BY DEF DaemonGone
<1>2. /\ place' \in [{"daemon", "cli"} -> DaemonPlace \cup CliPlace]
      /\ place'["daemon"] = "down" /\ place'["cli"] = place["cli"]
  BY <1>1, PlaceMoves DEF DaemonPlace
<1>3. MemoryTyped' /\ read'["cli"] = read["cli"] /\ unread'["cli"] = unread["cli"] /\ left'["cli"] = left["cli"]
  BY <1>1, MemoryMoves DEF MemoryTyped, JournalTypeOK
<1>4. fd' \in [Handle -> {"closed", "current", "stale"}]
      /\ fd' = [h \in Handle |-> IF h \in {"pf", "hosts"} THEN "closed" ELSE fd[h]]
  BY <1>1 DEF Close, JournalTypeOK
<1>5. /\ job' \in [Party -> Job]
      /\ job'["daemon"] = Idle /\ job'["handler"] = Idle /\ job'["cli"] = job["cli"]
  BY <1>1
<1> QED
  BY <1>1, <1>2, <1>3, <1>4, <1>5

\* Every variable keeps its type, and the command line knows what it was started as.
LEMMA FilesTypeStep == FilesTyped /\ [FilesNext]_filesVars => FilesTyped'
<1> SUFFICES ASSUME FilesTyped, [FilesNext]_filesVars PROVE FilesTyped'
  OBVIOUS
<1> USE FilesKnown
<1>0. /\ FilesTypeOK /\ CliKind /\ MemoryTyped /\ JournalTypeOK /\ job \in [Party -> Job] /\ file \in [File -> Content]
      /\ place \in [{"daemon", "cli"} -> DaemonPlace \cup CliPlace]
      /\ \A p \in Party : job[p] \in Job
  BY DEF FilesTyped, FilesTypeOK, MemoryTyped
<1>1. ASSUME NEW p \in Party, PatchStep(p) PROVE FilesTyped'
  <2>1. job' \in [Party -> Job] /\ UNCHANGED <<place, kind, read, unread, left, verified, edits, losses>>
    BY <1>0, <1>1, PatchMoves DEF JobOf
  <2>2. JournalTypeOK'
    <3>1. CASE OpenHandle(p) \/ RecordPatch(p)
      <4>1. PatchHandle(p) \in Handle /\ job[p].file \in Subject
        BY <1>0 DEF PatchHandle, Handles, Party
      <4>2. \A h \in Handle, r \in Subject : (Open(h) => JournalTypeOK') /\ (Append(h, r) => JournalTypeOK')
        BY <1>0, OpenTypes, AppendTypes, CloseTypes, RewriteTypes
      <4>3. UNCHANGED journalVars => JournalTypeOK'
        BY <1>0 DEF journalVars, JournalTypeOK
      <4> QED
        BY <3>1, <4>1, <4>2, <4>3 DEF OpenHandle, RecordPatch
    <3>2. CASE ~(OpenHandle(p) \/ RecordPatch(p))
      <4>1. UNCHANGED journalVars
        BY <1>1, <3>2 DEF PatchStep, Backup, Refuse, Write, Verify, Restore, Reload
      <4> QED
        BY <1>0, <4>1 DEF journalVars, JournalTypeOK
    <3> QED
      BY <3>1, <3>2
  <2>3. file' \in [File -> Content] /\ main' \in BOOLEAN /\ intact' \in BOOLEAN
    <3>1. Planned(p) \in Content /\ job[p].orig \in Content /\ job[p].file \in File
      BY <1>0 DEF Planned, Content
    <3>2. /\ file' \in {file, [file EXCEPT ![job[p].file] = Planned(p)], [file EXCEPT ![job[p].file] = job[p].orig]}
          /\ main' \in {main, file["pf.conf"].ours} /\ intact' \in {intact, FALSE}
      BY <1>1 DEF PatchStep, Backup, Refuse, OpenHandle, RecordPatch, Write, Verify, Restore, Reload, files
    <3>3. file["pf.conf"].ours \in BOOLEAN /\ main \in BOOLEAN /\ intact \in BOOLEAN
      BY <1>0 DEF FilesTypeOK
    <3> QED
      BY <1>0, <3>1, <3>2, <3>3
  <2>4. backed' \in [File -> 0 .. MaxEdits] /\ adopted' \in BOOLEAN /\ excused' \in BOOLEAN
    <3>1. job[p].file \in File /\ file[job[p].file].theirs \in 0 .. MaxEdits
      BY <1>0
    <3> QED
      BY <1>0, <1>1, <3>1 DEF PatchStep, Backup, Refuse, OpenHandle, RecordPatch, Write, Verify, Restore, Reload, history,
                               FilesTypeOK
  <2> QED
    BY <1>0, <2>1, <2>2, <2>3, <2>4 DEF FilesTyped, FilesTypeOK, CliKind
<1>2. ASSUME NEW p \in {"daemon", "cli"}, ReplayStep(p) PROVE FilesTyped'
  <2>0. p \in Party
    BY DEF Party
  <2>1. CASE ReplayRecord(p)
    <3>1. PICK r \in unread[p] :
            /\ unread' = [unread EXCEPT ![p] = @ \ {r}]
            /\ \/ left' = [left EXCEPT ![p] = @ \cup {r}] /\ UNCHANGED job
               \/ Begin(p, r, FALSE) /\ UNCHANGED left
      BY <2>1 DEF ReplayRecord
    <3>2. r \in File
      BY <1>0, <3>1 DEF MemoryTyped
    <3>3. job' \in [Party -> Job]
      BY <1>0, <2>0, <3>1, <3>2, BeginMoves
    <3>4. unread' \in [{"daemon", "cli"} -> SUBSET Subject] /\ left' \in [{"daemon", "cli"} -> SUBSET Subject]
      <4>1. unread[p] \ {r} \in SUBSET Subject /\ left[p] \cup {r} \in SUBSET Subject
        BY <1>0, <3>2 DEF MemoryTyped
      <4>2. unread' = [unread EXCEPT ![p] = unread[p] \ {r}]
            /\ (left' = [left EXCEPT ![p] = left[p] \cup {r}] \/ left' = left)
        BY <3>1
      <4> QED
        BY <1>0, <4>1, <4>2 DEF MemoryTyped
    <3> QED
      BY <1>0, <2>1, <3>3, <3>4 DEF ReplayRecord, FilesTyped, FilesTypeOK, CliKind, journalVars, files, history, JournalTypeOK
  <2>2. CASE ReplayReverted(p)
    <3>1. job' \in [Party -> Job] /\ job[p].file \in File
      BY <1>0, <2>0, <2>2, ForgetMoves DEF ReplayReverted
    <3>2. left' \in [{"daemon", "cli"} -> SUBSET Subject]
      BY <1>0, <2>2, <3>1 DEF ReplayReverted, MemoryTyped
    <3> QED
      BY <1>0, <2>2, <3>1, <3>2 DEF ReplayReverted, FilesTyped, FilesTypeOK, CliKind, journalVars, files, history,
                                    JournalTypeOK
  <2>3. CASE ReplayDone(p)
    <3>1. MemoryTyped' /\ ReplayHandle(p) \in Handle /\ read[p] \in SUBSET Subject /\ left[p] \in SUBSET Subject
      BY <1>0, <2>3, MemoryMoves DEF ReplayDone, MemoryTyped, ReplayHandle, Handles, JournalTypeOK
    <3>2. JournalTypeOK'
      BY <1>0, <2>3, <3>1, OpenTypes, AppendTypes, CloseTypes, RewriteTypes DEF ReplayDone, journalVars, JournalTypeOK
    <3>3. place' \in [{"daemon", "cli"} -> DaemonPlace \cup CliPlace] /\ place'.daemon \in DaemonPlace
          /\ place'.cli \in CliPlace /\ (place'.cli # place.cli => place.cli = "replay" /\ place'.cli = "hosts")
      BY <1>0, <2>3, PlaceMoves DEF ReplayDone, DaemonPlace, CliPlace, FilesTypeOK
    <3> QED
      BY <1>0, <2>3, <3>1, <3>2, <3>3 DEF ReplayDone, FilesTyped, FilesTypeOK, CliKind, files, history, MemoryTyped
  <2> QED
    BY <1>2, <2>1, <2>2, <2>3 DEF ReplayStep
<1>3. CASE DaemonAction
  <2> USE <1>0
  <2>1. CASE StartDaemon
    <3>1. MemoryTyped' /\ JournalTypeOK'
      BY <2>1, MemoryMoves, OpenTypes, AppendTypes, CloseTypes, RewriteTypes DEF StartDaemon, Handles, JournalTypeOK
    <3>2. place' \in [{"daemon", "cli"} -> DaemonPlace \cup CliPlace] /\ place'["daemon"] = "replay"
          /\ place'["cli"] = place["cli"]
      BY <2>1, PlaceMoves DEF StartDaemon, DaemonPlace
    <3> QED
      BY <2>1, <3>1, <3>2 DEF StartDaemon, FilesTyped, FilesTypeOK, CliKind, files, history, MemoryTyped, DaemonPlace
  <2>2. CASE Ensure
    <3>1. job' \in [Party -> Job]
      BY <2>2, BeginMoves DEF Ensure
    <3>2. place' \in [{"daemon", "cli"} -> DaemonPlace \cup CliPlace] /\ place'["daemon"] \in {"ensured", "resetup"}
          /\ place'["cli"] = place["cli"]
      BY <2>2, PlaceMoves DEF Ensure, DaemonPlace
    <3> QED
      BY <2>2, <3>1, <3>2 DEF Ensure, FilesTyped, FilesTypeOK, CliKind, files, history, DaemonPlace, replaying, journalVars,
                              JournalTypeOK
  <2>3. CASE Ensured
    <3>1. job' \in [Party -> Job]
      BY <2>3, ForgetMoves DEF Ensured
    <3>2. place' \in [{"daemon", "cli"} -> DaemonPlace \cup CliPlace] /\ place'["daemon"] = "startup"
          /\ place'["cli"] = place["cli"]
      BY <2>3, PlaceMoves DEF Ensured, DaemonPlace
    <3> QED
      BY <2>3, <3>1, <3>2 DEF Ensured, FilesTyped, FilesTypeOK, CliKind, files, history, DaemonPlace, replaying, journalVars,
                              JournalTypeOK
  <2>4. CASE RunFails \/ Exit
    <3>1. DaemonGone /\ UNCHANGED <<records, torn, lost, files, kind, history>>
      BY <2>4 DEF RunFails, Exit
    <3> QED
      BY <3>1, DaemonGoes DEF FilesTyped, FilesTypeOK, CliKind, files, history, DaemonPlace, MemoryTyped, JournalTypeOK
  <2>5. CASE ServeCommands \/ BeginClear
    <3>1. place' \in [{"daemon", "cli"} -> DaemonPlace \cup CliPlace] /\ place'["daemon"] \in {"serving", "clRead"}
          /\ place'["cli"] = place["cli"]
      BY <2>5, PlaceMoves DEF ServeCommands, BeginClear, DaemonPlace
    <3> QED
      BY ZenonT(40), <2>5, <3>1 DEF ServeCommands, BeginClear, FilesTyped, FilesTypeOK, CliKind, files, history, DaemonPlace, replaying,
                        journalVars, JournalTypeOK
  <2>6. CASE SetUp
    <3>1. job' \in [Party -> Job] /\ intact' \in BOOLEAN
      BY <2>6, ForgetMoves DEF SetUp, FilesTypeOK
    <3>2. place' \in [{"daemon", "cli"} -> DaemonPlace \cup CliPlace] /\ place'["daemon"] = "serving"
          /\ place'["cli"] = place["cli"]
      BY <2>6, PlaceMoves DEF SetUp, DaemonPlace
    <3> QED
      BY <2>6, <3>1, <3>2 DEF SetUp, FilesTyped, FilesTypeOK, CliKind, history, DaemonPlace, replaying, journalVars,
                              JournalTypeOK
  <2>7. CASE VerifyPF
    <3>1. verified' \in BOOLEAN
      BY <2>7 DEF VerifyPF, FilesTypeOK
    <3> QED
      BY <2>7, <3>1 DEF VerifyPF, FilesTyped, FilesTypeOK, CliKind, history, files, replaying, journalVars, JournalTypeOK
  <2>8. CASE ClearRead
    <3>1. MemoryTyped'
      BY <2>8, MemoryMoves DEF ClearRead, JournalTypeOK
    <3>2. place' \in [{"daemon", "cli"} -> DaemonPlace \cup CliPlace] /\ place'["daemon"] = "clRewrite"
          /\ place'["cli"] = place["cli"]
      BY <2>8, PlaceMoves DEF ClearRead, DaemonPlace
    <3> QED
      BY <2>8, <3>1, <3>2 DEF ClearRead, FilesTyped, FilesTypeOK, CliKind, files, history, MemoryTyped, DaemonPlace,
                              journalVars, JournalTypeOK
  <2>9. CASE ClearRewrite
    <3>1. MemoryTyped' /\ read["daemon"] \in SUBSET Subject
      BY <2>9, MemoryMoves DEF ClearRewrite, JournalTypeOK, MemoryTyped
    <3>2. JournalTypeOK'
      BY <2>9, <3>1, OpenTypes, AppendTypes, CloseTypes, RewriteTypes DEF ClearRewrite, Handles
    <3>3. place' \in [{"daemon", "cli"} -> DaemonPlace \cup CliPlace] /\ place'["daemon"] = "clClose"
          /\ place'["cli"] = place["cli"]
      BY <2>9, PlaceMoves DEF ClearRewrite, DaemonPlace
    <3>4. adopted' \in BOOLEAN
      BY <2>9 DEF ClearRewrite, FilesTypeOK
    <3> QED
      BY <2>9, <3>1, <3>2, <3>3, <3>4 DEF ClearRewrite, FilesTyped, FilesTypeOK, CliKind, files, MemoryTyped, DaemonPlace
  <2> QED
    BY <1>3, <2>1, <2>2, <2>3, <2>4, <2>5, <2>6, <2>7, <2>8, <2>9 DEF DaemonAction
<1>4. CASE HostsCommand \/ HostsDone
  <2> USE <1>0
  <2>1. job' \in [Party -> Job]
    <3>1. CASE HostsCommand
      BY <3>1, BeginMoves DEF HostsCommand
    <3>2. CASE HostsDone
      BY <3>2, ForgetMoves DEF HostsDone
    <3> QED
      BY <1>4, <3>1, <3>2
  <2> QED
    BY ZenonT(40), <1>4, <2>1 DEF HostsCommand, HostsDone, FilesTyped, FilesTypeOK, CliKind, files, history, replaying, journalVars,
                      JournalTypeOK
<1>5. CASE CliStep
  <2> USE <1>0
  <2>1. CASE Repair
    <3>1. MemoryTyped'
      BY <2>1, MemoryMoves DEF Repair, JournalTypeOK
    <3>2. JournalTypeOK'
      BY <2>1, OpenTypes, AppendTypes, CloseTypes, RewriteTypes DEF Repair, JournalTypeOK, Handles, journalVars
    <3>3. place' \in [{"daemon", "cli"} -> DaemonPlace \cup CliPlace] /\ place'["cli"] = "replay"
          /\ place'["daemon"] = place["daemon"]
      BY <2>1, PlaceMoves DEF Repair, CliPlace
    <3> QED
      BY <2>1, <3>1, <3>2, <3>3 DEF Repair, FilesTyped, FilesTypeOK, CliKind, files, history, MemoryTyped, CliPlace
  <2>2. CASE Uninstall
    <3>1. place' \in [{"daemon", "cli"} -> DaemonPlace \cup CliPlace] /\ place'["cli"] = "conf"
          /\ place'["daemon"] = place["daemon"]
      BY <2>2, PlaceMoves DEF Uninstall, CliPlace
    <3> QED
      BY <2>2, <3>1 DEF Uninstall, FilesTyped, FilesTypeOK, CliKind, files, history, CliPlace, replaying, journalVars,
                        JournalTypeOK
  <2>3. CASE CliRemove
    <3>1. job' \in [Party -> Job]
      BY <2>3, BeginMoves DEF CliRemove
    <3> QED
      BY <2>3, <3>1 DEF CliRemove, FilesTyped, FilesTypeOK, CliKind, files, history, replaying, journalVars, JournalTypeOK
  <2>4. CASE CliRemoved
    <3>1. job' \in [Party -> Job]
      BY <2>4, ForgetMoves DEF CliRemoved
    <3>2. \E l \in {"hosts", "clear", "done"} :
             /\ MoveTo("cli", l) /\ (l = "clear" => kind = "uninstall") /\ (l = "hosts" => place.cli = "conf")
      BY <2>4 DEF CliRemoved, FilesTypeOK, CliKind
    <3>3. place' \in [{"daemon", "cli"} -> DaemonPlace \cup CliPlace] /\ place'["cli"] \in {"hosts", "clear", "done"}
          /\ place'["daemon"] = place["daemon"] /\ (place'["cli"] = "clear" => kind = "uninstall")
          /\ (place'["cli"] = "hosts" => place.cli = "conf")
      BY <3>2, PlaceMoves DEF CliPlace
    <3>4. fd' \in [Handle -> {"closed", "current", "stale"}]
      BY <2>4, OpenTypes, AppendTypes, CloseTypes, RewriteTypes DEF CliRemoved, Handles, JournalTypeOK
    <3>5. CliKind'
      BY <2>4, <3>3 DEF CliRemoved, CliKind
    <3> QED
      BY <2>4, <3>1, <3>3, <3>4, <3>5 DEF CliRemoved, FilesTyped, FilesTypeOK, files, history, CliPlace, replaying,
                                    JournalTypeOK
  <2>5. CASE CliClear \/ CliAgain
    <3>1. place' \in [{"daemon", "cli"} -> DaemonPlace \cup CliPlace] /\ place'["cli"] \in {"done", "idle"}
          /\ place'["daemon"] = place["daemon"] /\ (CliClear => place'["cli"] = "done")
      BY <2>5, PlaceMoves DEF CliClear, CliAgain, CliPlace
    <3>2. JournalTypeOK'
      BY <2>5 DEF CliClear, CliAgain, JournalTypeOK, journalVars
    <3> QED
      BY <2>5, <3>1, <3>2 DEF CliClear, CliAgain, FilesTyped, FilesTypeOK, CliKind, files, history, CliPlace, replaying
  <2> QED
    BY <1>5, <2>1, <2>2, <2>3, <2>4, <2>5 DEF CliStep
<1>6. CASE ForeignEdit \/ ForeignLoad \/ Kill \/ PowerLoss
  <2> USE <1>0
  <2>1. CASE ForeignEdit
    <3>1. edits' \in 0 .. MaxEdits
      BY <2>1, FilesAssumption DEF ForeignEdit, FilesTypeOK
    <3>2. PICK f \in File, k \in BOOLEAN : file' = [file EXCEPT ![f] = [ours |-> file[f].ours /\ k, theirs |-> edits + 1]]
      BY <2>1 DEF ForeignEdit
    <3>3. [ours |-> file[f].ours /\ k, theirs |-> edits + 1] \in Content
      <4>1. edits + 1 \in 0 .. MaxEdits
        BY <2>1, <3>1 DEF ForeignEdit
      <4>2. (file[f].ours /\ k) \in BOOLEAN
        OBVIOUS
      <4> QED
        BY <4>1, <4>2 DEF Content
    <3>4. file' \in [File -> Content]
      BY <3>2, <3>3
    <3> QED
      BY <2>1, <3>1, <3>4 DEF ForeignEdit, FilesTyped, FilesTypeOK, CliKind, replaying, journalVars, JournalTypeOK
  <2>2. CASE ForeignLoad
    <3>1. main' \in BOOLEAN
      BY <2>2 DEF ForeignLoad
    <3> QED
      BY <2>2, <3>1 DEF ForeignLoad, FilesTyped, FilesTypeOK, CliKind, replaying, journalVars, JournalTypeOK
  <2>3. CASE Kill
    <3>1. losses' \in 0 .. MaxLosses
      BY <2>3, FilesAssumption DEF Kill, FilesTypeOK
    <3> QED
      BY <2>3, <3>1, DaemonGoes DEF Kill, FilesTyped, FilesTypeOK, CliKind, files, DaemonPlace, MemoryTyped, JournalTypeOK
  <2>4. CASE PowerLoss
    <3>1. losses' \in 0 .. MaxLosses
      BY <2>4, FilesAssumption DEF PowerLoss, FilesTypeOK
    <3>2. torn' \in BOOLEAN
      BY <2>4 DEF PowerLoss, JournalTypeOK
    <3>3. JournalTypeOK'
      BY <2>4, <3>2 DEF PowerLoss, JournalTypeOK
    <3>4. job' \in [Party -> Job] /\ MemoryTyped'
      BY <2>4 DEF PowerLoss, MemoryTyped
    <3>5. place' \in [{"daemon", "cli"} -> DaemonPlace \cup CliPlace] /\ place'["daemon"] = "down"
          /\ place'["cli"] = (IF kind = "uninstall" THEN "done" ELSE "idle")
      BY <2>4 DEF PowerLoss, DaemonPlace, CliPlace
    <3>6. kind' \in {"none", "repair", "uninstall"} /\ main' \in BOOLEAN
      BY <2>4 DEF PowerLoss, FilesTypeOK
    <3> QED
      BY <2>4, <3>1, <3>3, <3>4, <3>5, <3>6 DEF PowerLoss, FilesTyped, FilesTypeOK, CliKind, DaemonPlace, CliPlace, MemoryTyped
  <2> QED
    BY <1>6, <2>1, <2>2, <2>3, <2>4
<1>7. CASE UNCHANGED filesVars
  BY <1>0, <1>7 DEF filesVars, files, replaying, history, journalVars, FilesTyped, FilesTypeOK, CliKind, JournalTypeOK
<1> QED
  BY <1>1, <1>2, <1>3, <1>4, <1>5, <1>6, <1>7 DEF FilesNext

-----------------------------------------------------------------------------
\* The facts about the types that the steps below keep needing.
Shapes ==
    /\ FilesTyped /\ MemoryTyped /\ JournalTypeOK
    /\ job \in [Party -> Job] /\ \A p \in Party : job[p] \in Job
    /\ file \in [File -> Content] /\ \A f \in File : file[f] \in Content
    /\ place \in [{"daemon", "cli"} -> DaemonPlace \cup CliPlace]
    /\ records \subseteq File

\* The types give those facts.
LEMMA FilesShapes == ASSUME FilesTyped PROVE Shapes
<1>1. JournalTypeOK /\ job \in [Party -> Job] /\ file \in [File -> Content]
      /\ place \in [{"daemon", "cli"} -> DaemonPlace \cup CliPlace]
  BY DEF FilesTyped, FilesTypeOK
<1>2. \A p \in Party : job[p] \in Job
  BY <1>1
<1>3. \A f \in File : file[f] \in Content
  BY <1>1
<1>4. MemoryTyped
  BY DEF FilesTyped, FilesTypeOK, MemoryTyped
<1>5. records \subseteq File
  BY <1>1, FilesKnown DEF JournalTypeOK
<1> QED
  BY <1>1, <1>2, <1>3, <1>4, <1>5 DEF Shapes

\* One record of a rollback: kept, or the beginning of a removal.
LEMMA RecordMoves ==
  ASSUME Shapes, NEW p \in Replayer, ReplayRecord(p)
  PROVE  \E r \in unread[p] :
            /\ r \in File /\ ~Busy(p)
            /\ unread'[p] = unread[p] \ {r} /\ \A q \in Replayer \ {p} : unread'[q] = unread[q] /\ left'[q] = left[q]
            /\ IF r = "hosts" /\ p = "daemon" THEN left'[p] = left[p] \cup {r} /\ UNCHANGED job
                                              ELSE left'[p] = left[p] /\ Begin(p, r, FALSE)
            /\ UNCHANGED <<journalVars, files, place, kind, read, verified, history>>
<1>1. PICK r \in unread[p] :
         /\ unread' = [unread EXCEPT ![p] = @ \ {r}]
         /\ IF r = "hosts" /\ p = "daemon" THEN left' = [left EXCEPT ![p] = @ \cup {r}] /\ UNCHANGED job
                                           ELSE Begin(p, r, FALSE) /\ UNCHANGED left
  BY DEF ReplayRecord
<1>2. r \in File
  BY FilesKnown DEF Shapes, MemoryTyped, Replayer
<1>3. unread'[p] = unread[p] \ {r} /\ \A q \in Replayer \ {p} : unread'[q] = unread[q]
  BY <1>1 DEF Shapes, MemoryTyped, Replayer
<1>4. /\ \A q \in Replayer \ {p} : left'[q] = left[q]
      /\ IF r = "hosts" /\ p = "daemon" THEN left'[p] = left[p] \cup {r} /\ UNCHANGED job
                                        ELSE left'[p] = left[p] /\ Begin(p, r, FALSE)
  BY <1>1 DEF Shapes, MemoryTyped, Replayer
<1>5. ~Busy(p) /\ UNCHANGED <<journalVars, files, place, kind, read, verified, history>>
  BY DEF ReplayRecord, Busy
<1> QED
  BY <1>2, <1>3, <1>4, <1>5

\* Every step keeps the patches apart.
LEMMA ApartStep ==
  ASSUME Shapes, ~Beside, Apartness, [FilesNext]_filesVars PROVE Apartness'
<1> USE FilesKnown, ~Beside, Shapes, Apartness DEF Shapes, FilesTyped, CliKind
<1>1. ASSUME NEW p \in Party, PatchStep(p) PROVE Apartness'
  <2>1. PICK at \in JobPlaces \ {"none", "backup"}, ok \in BOOLEAN : JobOf(p, at, ok)
    BY <1>1, PatchMoves
  <2>2. Busy(p) /\ Busy(p)' /\ UNCHANGED <<place, kind>>
    BY <1>1, PatchMoves
  <2> QED
    BY <2>1, <2>2 DEF JobOf, Apartness, Busy, At
<1>2. ASSUME NEW p \in Replayer, ReplayStep(p) PROVE Apartness'
  <2>0. p \in Party
    BY DEF Party, Replayer
  <2>1. CASE ReplayRecord(p)
    <3>1. PICK r \in unread[p] :
            /\ r \in File /\ ~Busy(p)
            /\ IF r = "hosts" /\ p = "daemon" THEN UNCHANGED job ELSE Begin(p, r, FALSE)
            /\ UNCHANGED <<place, kind>>
      BY <2>1, RecordMoves
    <3>2. place[p] = "replay"
      BY <2>1 DEF ReplayRecord
    <3>3. CASE UNCHANGED job
      BY <3>1, <3>3 DEF Apartness, Busy, At
    <3>4. CASE Begin(p, r, FALSE) /\ ~(r = "hosts" /\ p = "daemon")
      <4>1. job'[p].file = r /\ job'[p].want = FALSE /\ \A q \in Party \ {p} : job'[q] = job[q]
        BY ZenonT(40), <2>0, <3>1, <3>4, BeginMoves
      <4>2. CASE p = "daemon"
        BY <3>1, <3>2, <3>4, <4>1, <4>2 DEF Apartness, Busy, At, Party
      <4>3. CASE p = "cli"
        BY <3>1, <3>2, <3>4, <4>1, <4>3 DEF Apartness, Busy, At, Party
      <4> QED
        BY <4>2, <4>3 DEF Replayer
    <3> QED
      BY <3>1, <3>3, <3>4
  <2>2. CASE ReplayReverted(p)
    <3>1. job'[p] = Idle /\ \A q \in Party \ {p} : job'[q] = job[q]
      BY <2>0, <2>2, ForgetMoves DEF ReplayReverted
    <3> QED
      BY <2>0, <2>2, <3>1 DEF ReplayReverted, Apartness, Busy, At, Replayer
  <2>3. CASE ReplayDone(p)
    <3>1. place'[p] = (IF p = "daemon" THEN "ensure" ELSE "hosts") /\ \A q \in Replayer \ {p} : place'[q] = place[q]
      BY <2>3, PlaceMoves DEF ReplayDone, DaemonPlace, CliPlace, Replayer
    <3> QED
      BY <2>0, <2>3, <3>1 DEF ReplayDone, Apartness, Busy, At, Replayer
  <2> QED
    BY <1>2, <2>1, <2>2, <2>3 DEF ReplayStep
<1>3. CASE DaemonAction
  <2>1. CASE StartDaemon \/ ServeCommands \/ BeginClear \/ ClearRead \/ ClearRewrite
    <3>1. place'["daemon"] \in {"replay", "serving", "clRead", "clRewrite", "clClose"} /\ place'["cli"] = place["cli"]
      BY <2>1, PlaceMoves DEF StartDaemon, ServeCommands, BeginClear, ClearRead, ClearRewrite, DaemonPlace
    <3>2. /\ UNCHANGED <<job, kind>> /\ ~Busy("daemon")
          /\ Busy("handler") => place'["daemon"] \in {"serving", "clRead", "clRewrite", "clClose"}
      BY <2>1, PlaceMoves DEF StartDaemon, ServeCommands, BeginClear, ClearRead, ClearRewrite, DaemonPlace, Apartness
    <3>3. place["daemon"] = "down" => StartDaemon
      BY <2>1 DEF ServeCommands, BeginClear, ClearRead, ClearRewrite
    <3> QED
      BY <3>1, <3>2, <3>3 DEF StartDaemon, Apartness, Busy, At
  <2>2. CASE Ensure
    <3>1. /\ job'["daemon"].file = "pf.conf" /\ job'["daemon"].want = TRUE /\ job'["daemon"].at \in {"done", "backup"}
          /\ \A q \in Party \ {"daemon"} : job'[q] = job[q]
      BY <2>2, BeginMoves DEF Ensure
    <3>2. /\ place'["cli"] = place["cli"] /\ UNCHANGED kind
          /\ \/ place["daemon"] = "ensure" /\ place'["daemon"] = "ensured"
             \/ place["daemon"] = "serving" /\ place'["daemon"] = "resetup"
      BY <2>2, PlaceMoves DEF Ensure, DaemonPlace
    <3> QED
      BY <3>1, <3>2 DEF Apartness, Busy, At
  <2>3. CASE Ensured \/ SetUp
    <3>1. job'["daemon"] = Idle /\ \A q \in Party \ {"daemon"} : job'[q] = job[q]
      BY <2>3, ForgetMoves DEF Ensured, SetUp
    <3>2. /\ place'["cli"] = place["cli"] /\ UNCHANGED kind
          /\ \/ place["daemon"] = "ensured" /\ place'["daemon"] = "startup"
             \/ place["daemon"] = "resetup" /\ place'["daemon"] = "serving"
      BY <2>3, PlaceMoves DEF Ensured, SetUp, DaemonPlace
    <3> QED
      BY <3>1, <3>2 DEF Apartness, Busy, At
  <2>4. CASE RunFails \/ Exit
    <3>1. DaemonGone /\ UNCHANGED kind
      BY <2>4 DEF RunFails, Exit
    <3> QED
      BY <3>1, DaemonGoes DEF Apartness, Busy, At
  <2>5. CASE VerifyPF
    BY <2>5 DEF VerifyPF, Apartness, Busy, At
  <2> QED
    BY <1>3, <2>1, <2>2, <2>3, <2>4, <2>5 DEF DaemonAction
<1>4. CASE HostsCommand \/ HostsDone
  <2>1. CASE HostsCommand
    <3>1. PICK w \in BOOLEAN : Begin("handler", "hosts", w)
      BY <2>1 DEF HostsCommand
    <3>2. job'["handler"].file = "hosts" /\ \A q \in Party \ {"handler"} : job'[q] = job[q]
      BY <3>1, BeginMoves
    <3> QED
      BY <2>1, <3>2 DEF HostsCommand, Apartness, Busy, At, Party
  <2>2. CASE HostsDone
    <3>1. job'["handler"] = Idle /\ \A q \in Party \ {"handler"} : job'[q] = job[q]
      BY <2>2, ForgetMoves DEF HostsDone
    <3> QED
      BY <2>2, <3>1 DEF HostsDone, Apartness, Busy, At, Party
  <2> QED
    BY <1>4, <2>1, <2>2
<1>5. CASE CliStep
  <2>1. CASE Repair \/ Uninstall
    <3>1. place'["cli"] \in {"replay", "conf"} /\ place'["daemon"] = place["daemon"] /\ place["daemon"] = "down"
      BY <2>1, PlaceMoves DEF Repair, Uninstall, CliPlace
    <3> QED
      BY <2>1, <3>1 DEF Repair, Uninstall, Apartness, Busy, At
  <2>2. CASE CliRemove
    <3>1. /\ job'["cli"].file = (IF place.cli = "conf" THEN "pf.conf" ELSE "hosts") /\ job'["cli"].want = FALSE
          /\ \A q \in Party \ {"cli"} : job'[q] = job[q]
      BY <2>2, BeginMoves DEF CliRemove
    <3> QED
      BY <2>2, <3>1 DEF CliRemove, Apartness, Busy, At
  <2>3. CASE CliRemoved
    <3>1. job'["cli"] = Idle /\ \A q \in Party \ {"cli"} : job'[q] = job[q]
      BY <2>3, ForgetMoves DEF CliRemoved
    <3>2. place["daemon"] = "down" /\ UNCHANGED kind
      BY <2>3 DEF CliRemoved, Apartness
    <3>3. \E l \in {"hosts", "clear", "done"} : MoveTo("cli", l)
      BY <2>3 DEF CliRemoved, FilesTypeOK
    <3>4. place'["daemon"] = place["daemon"]
      BY <3>3, PlaceMoves DEF CliPlace
    <3> QED
      BY <3>1, <3>2, <3>4 DEF Apartness, Busy, At
  <2>4. CASE CliClear \/ CliAgain
    <3>1. place'["cli"] \in {"done", "idle"} /\ place'["daemon"] = place["daemon"] /\ UNCHANGED job
          /\ place["cli"] \in {"clear", "done"} /\ (kind = kind' \/ kind' = "none")
      BY <2>4, PlaceMoves DEF CliClear, CliAgain, CliPlace
    <3> QED
      BY <3>1 DEF Apartness, Busy, At
  <2> QED
    BY <1>5, <2>1, <2>2, <2>3, <2>4 DEF CliStep
<1>6. CASE ForeignEdit \/ ForeignLoad
  BY <1>6 DEF ForeignEdit, ForeignLoad, Apartness, Busy, At
<1>7. CASE Kill
  BY <1>7, DaemonGoes DEF Kill, Apartness, Busy, At
<1>8. CASE PowerLoss
  BY <1>8 DEF PowerLoss, Apartness, Busy, At
<1>9. CASE UNCHANGED filesVars
  BY <1>9 DEF filesVars, Apartness, Busy, At
<1> QED
  BY <1>1, <1>2, <1>3, <1>4, <1>5, <1>6, <1>7, <1>8, <1>9 DEF FilesNext, Replayer

\* No two processes patch one file, and a rollback is alone.
LEMMA AloneApart ==
  ASSUME Shapes, Apartness, NEW p \in Party, NEW q \in Party \ {p}
  PROVE  /\ Busy(p) /\ Busy(q) => job[p].file # job[q].file
         /\ p \in Replayer /\ place[p] = "replay" => ~Busy(q) /\ (p = "daemon" => place["cli"] # "replay")
                                                     /\ (p = "cli" => place["daemon"] # "replay")
  BY FilesKnown DEF Apartness, Shapes, FilesTyped, FilesTypeOK, Party, Replayer

\* A patch writes its own file only: what it planned, or what it had read.
LEMMA PatchWrites ==
  ASSUME Shapes, NEW p \in Party, PatchStep(p)
  PROVE  /\ file' \in [File -> Content] /\ job[p].file \in File
         /\ \A f \in File \ {job[p].file} : file'[f] = file[f]
         /\ \/ UNCHANGED file
            \/ At(p, "write") /\ file'[job[p].file] = Planned(p)
            \/ At(p, "restore") /\ file'[job[p].file] = job[p].orig
<1> USE FilesKnown DEF Shapes
<1>1. Planned(p) \in Content /\ job[p].orig \in Content /\ job[p].file \in File
  BY DEF Planned, Content
<1>2. \/ UNCHANGED file
      \/ At(p, "write") /\ file' = [file EXCEPT ![job[p].file] = Planned(p)]
      \/ At(p, "restore") /\ file' = [file EXCEPT ![job[p].file] = job[p].orig]
  BY DEF PatchStep, Backup, Refuse, OpenHandle, RecordPatch, Write, Verify, Restore, Reload, files
<1> QED
  BY <1>1, <1>2

\* The records grow by that patch only.
LEMMA PatchRecords ==
  ASSUME Shapes, NEW p \in Party, PatchStep(p)
  PROVE  records \subseteq records' /\ records' \subseteq records \cup {job[p].file} /\ (records' # records => At(p, "record"))
  BY DEF PatchStep, Backup, Refuse, OpenHandle, RecordPatch, Write, Verify, Restore, Reload, journalVars, Append, Open

\* A third party takes our block out or leaves it.
LEMMA EditMoves ==
  ASSUME Shapes, ForeignEdit
  PROVE  /\ file' \in [File -> Content]
         /\ \A f \in File : (file'[f].ours => file[f].ours) /\ (file'[f] = file[f] \/ file'[f].theirs = edits + 1)
<1>1. PICK f \in File, k \in BOOLEAN : file' = [file EXCEPT ![f] = [ours |-> file[f].ours /\ k, theirs |-> edits + 1]]
  BY DEF ForeignEdit
<1> DEFINE new == [ours |-> file[f].ours /\ k, theirs |-> edits + 1]
<1>2. new \in Content
  <2>1. edits + 1 \in 0 .. MaxEdits
    BY FilesAssumption DEF ForeignEdit, Shapes, FilesTyped, FilesTypeOK
  <2>2. (file[f].ours /\ k) \in BOOLEAN
    OBVIOUS
  <2> QED
    BY <2>1, <2>2 DEF Content
<1>3. new.theirs = edits + 1 /\ new.ours = (file[f].ours /\ k)
  OBVIOUS
<1>4. file' = [file EXCEPT ![f] = new]
  BY <1>1
<1>5. new.ours => file[f].ours
  BY <1>3
<1> HIDE DEF new
<1> QED
  BY <1>2, <1>3, <1>4, <1>5 DEF Shapes

\* Every step keeps what a rollback knows.
LEMMA ReplaysStep ==
  ASSUME Shapes, ~Beside, Apartness, NEW p \in Replayer, Replays(p), Patched(p), [FilesNext]_filesVars
  PROVE  Replays(p)'
<1> USE FilesKnown, ~Beside, Shapes DEF Shapes, FilesTyped
<1>0. p \in Party
  BY DEF Party, Replayer
<1>1. ASSUME NEW q \in Party, PatchStep(q) PROVE Replays(p)'
  <2>0. /\ UNCHANGED <<place, read, unread, left>> /\ Busy(q)
        /\ \E at \in JobPlaces \ {"none", "backup"}, ok \in BOOLEAN : JobOf(q, at, ok)
        /\ Busy(q)'
    BY <1>1, PatchMoves
  <2>1. CASE place[p] = "replay" /\ q # p
    BY <1>0, <2>0, <2>1, AloneApart
  <2>2. CASE place[p] = "replay" /\ q = p
    <3>1. records' = records
      <4>1. records \subseteq records' /\ records' \subseteq records \cup {job[p].file}
        BY <1>1, <2>2, PatchRecords
      <4>2. job[p].file \in records
        BY <2>0, <2>2 DEF Replays
      <4> QED
        BY <4>1, <4>2
    <3>2. \A f \in File \ {job[p].file} : file'[f] = file[f]
      BY <1>1, <2>2, PatchWrites
    <3>3. job'[p].file = job[p].file /\ Busy(p)' /\ Busy(p)
      BY <2>0, <2>2 DEF JobOf
    <3>4. \A f \in read[p] : f \in File
      BY DEF MemoryTyped, Replayer
    <3> QED
      BY <2>0, <2>2, <3>1, <3>2, <3>3, <3>4 DEF Replays
  <2> QED
    BY <2>0, <2>1, <2>2 DEF Replays
<1>2. ASSUME NEW q \in Replayer, ReplayStep(q) PROVE Replays(p)'
  <2>0. q \in Party /\ place[q] = "replay"
    BY <1>2 DEF Party, Replayer, ReplayStep, ReplayRecord, ReplayReverted, ReplayDone
  <2>1. CASE p # q
    <3>1. place[p] # "replay"
      BY <1>0, <2>0, <2>1, AloneApart DEF Replayer
    <3>2. place'[p] = place[p]
      BY ZenonT(40), <1>2, <2>1, PlaceMoves DEF ReplayStep, ReplayRecord, ReplayReverted, ReplayDone, DaemonPlace, CliPlace, Replayer
    <3> QED
      BY <3>1, <3>2 DEF Replays
  <2>2. CASE p = q /\ ReplayRecord(p)
    <3>1. PICK r \in unread[p] :
            /\ r \in File /\ ~Busy(p)
            /\ unread'[p] = unread[p] \ {r}
            /\ IF r = "hosts" /\ p = "daemon" THEN left'[p] = left[p] \cup {r} /\ UNCHANGED job
                                              ELSE left'[p] = left[p] /\ Begin(p, r, FALSE)
            /\ UNCHANGED <<journalVars, files, place, kind, read, verified, history>>
      BY <2>2, RecordMoves
    <3>2. UNCHANGED <<records, file, place, read>>
      BY <3>1 DEF journalVars, files
    <3>3. CASE r = "hosts" /\ p = "daemon"
      BY <2>0, <2>2, <3>1, <3>2, <3>3 DEF Replays, Busy, At
    <3>4. CASE ~(r = "hosts" /\ p = "daemon")
      <4>1. job'[p].file = r /\ Busy(p)'
        BY <1>0, <3>1, <3>4, BeginMoves DEF Busy, At
      <4> QED
        BY <2>0, <2>2, <3>1, <3>2, <3>4, <4>1 DEF Replays
    <3> QED
      BY <3>3, <3>4
  <2>3. CASE p = q /\ ReplayReverted(p)
    <3>1. job'[p] = Idle /\ UNCHANGED <<records, file, place, read, unread>>
      BY <1>0, <2>3, ForgetMoves DEF ReplayReverted, journalVars, files
    <3>2. left'[p] = IF job[p].ok THEN left[p] ELSE left[p] \cup {job[p].file}
      BY <2>3 DEF ReplayReverted, MemoryTyped, Replayer
    <3>3. ~Busy(p)'
      BY <3>1 DEF Busy, At
    <3>4. job[p].ok => ~file[job[p].file].ours
      <4>1. ~job[p].want
        BY <1>0, <2>0, <2>2, <2>3 DEF Apartness, Replayer, ReplayReverted, Busy, At
      <4> QED
        BY <2>3, <4>1 DEF Patched, ReplayReverted
    <3> QED
      BY <2>0, <2>3, <3>1, <3>2, <3>3, <3>4 DEF Replays
  <2>4. CASE p = q /\ ReplayDone(p)
    <3>1. place'[p] # "replay"
      BY <2>4, PlaceMoves DEF ReplayDone, DaemonPlace, CliPlace, Replayer
    <3> QED
      BY <3>1 DEF Replays
  <2> QED
    BY <1>2, <2>1, <2>2, <2>3, <2>4 DEF ReplayStep
<1>3. CASE StartDaemon
  <2>1. place'["daemon"] = "replay" /\ place'["cli"] = place["cli"] /\ place["cli"] # "replay"
    BY <1>3, PlaceMoves DEF StartDaemon, DaemonPlace
  <2>2. CASE p = "daemon"
    <3>1. read'[p] = records /\ unread'[p] = records /\ left'[p] = {} /\ UNCHANGED <<records, job>>
      BY <1>3, <2>2, MemoryMoves DEF StartDaemon, Open
    <3>2. ~Busy(p)
      BY <1>3, <2>2 DEF StartDaemon, Apartness
    <3> QED
      BY <3>1, <3>2 DEF Replays, Busy, At
  <2> QED
    BY <2>1, <2>2 DEF Replays, Replayer
<1>4. CASE Repair
  <2>1. place'["cli"] = "replay" /\ place'["daemon"] = place["daemon"] /\ place["daemon"] # "replay"
    BY <1>4, PlaceMoves DEF Repair, CliPlace
  <2>2. CASE p = "cli"
    <3>1. read'[p] = records /\ unread'[p] = records /\ left'[p] = {} /\ UNCHANGED <<records, job>>
      BY <1>4, <2>2, MemoryMoves DEF Repair, Open, journalVars
    <3>2. ~Busy(p)
      BY <1>4, <2>2 DEF Repair, Apartness
    <3> QED
      BY <3>1, <3>2 DEF Replays, Busy, At
  <2> QED
    BY <2>1, <2>2 DEF Replays, Replayer
<1>5. CASE HostsCommand \/ HostsDone \/ ServeCommands \/ BeginClear \/ ClearRead \/ ClearRewrite \/ Ensure \/ Ensured \/ SetUp
           \/ RunFails \/ Exit \/ Kill
  <2>1. place["daemon"] \in DaemonPlace \ {"down"} /\ (place["daemon"] = "replay" => Kill)
    <3>1. place["daemon"] \in DaemonPlace
      BY DEF FilesTyped, FilesTypeOK
    <3>2. CASE HostsDone
      BY <3>1, <3>2 DEF HostsDone, Apartness, Busy, At
    <3>3. CASE ~HostsDone
      BY <1>5, <3>1, <3>3 DEF HostsCommand, ServeCommands, BeginClear, ClearRead, ClearRewrite, Ensure, Ensured, SetUp,
                              RunFails, Exit, Kill
    <3> QED
      BY <3>2, <3>3
  <2>2. place["cli"] # "replay" /\ place'["cli"] = place["cli"] /\ place'["daemon"] # "replay"
    <3>1. place["cli"] # "replay"
      BY <2>1 DEF Apartness
    <3>2. CASE HostsCommand \/ HostsDone
      <4>1. UNCHANGED place /\ (HostsDone => Busy("handler")) /\ (HostsCommand => place["daemon"] # "replay")
        BY <3>2 DEF HostsCommand, HostsDone, Busy, At
      <4>2. place["daemon"] # "replay"
        BY <3>2, <4>1 DEF Apartness
      <4> QED
        BY <3>1, <4>1, <4>2
    <3>3. CASE RunFails \/ Exit \/ Kill
      BY <3>1, <3>3, DaemonGoes DEF RunFails, Exit, Kill
    <3>4. CASE ServeCommands \/ BeginClear \/ ClearRead \/ ClearRewrite \/ Ensure \/ Ensured \/ SetUp
      <4>1. \E l \in DaemonPlace \ {"replay"} : MoveTo("daemon", l)
        BY <3>4 DEF ServeCommands, BeginClear, ClearRead, ClearRewrite, Ensure, Ensured, SetUp, DaemonPlace
      <4> QED
        BY <3>1, <4>1, PlaceMoves
    <3> QED
      BY <1>5, <3>2, <3>3, <3>4
  <2> QED
    BY <2>2 DEF Replays, Replayer
<1>6. CASE Uninstall \/ CliRemove \/ CliRemoved \/ CliClear
  <2>1. place["cli"] # "replay" /\ place["daemon"] # "replay"
    BY <1>6 DEF Uninstall, CliRemove, CliRemoved, CliClear, Apartness, CliKind
  <2>2. place'["cli"] # "replay" /\ place'["daemon"] = place["daemon"]
    <3>1. CASE CliRemove
      BY <2>1, <3>1 DEF CliRemove
    <3>2. CASE ~CliRemove
      <4>1. \E l \in CliPlace \ {"replay"} : MoveTo("cli", l)
        BY <1>6, <3>2 DEF Uninstall, CliRemoved, CliClear, CliPlace, FilesTypeOK, CliKind
      <4> QED
        BY <2>1, <4>1, PlaceMoves
    <3> QED
      BY <3>1, <3>2
  <2> QED
    BY <2>1, <2>2 DEF Replays, Replayer
<1>10. CASE CliAgain
  <2>1. UNCHANGED <<records, file, read, unread, left, job>> /\ place'["daemon"] = place["daemon"] /\ place'["cli"] = "idle"
    BY <1>10, PlaceMoves DEF CliAgain, journalVars, files, replaying, CliPlace
  <2> QED
    BY <2>1 DEF Replays, Busy, At, Replayer
<1>7. CASE ForeignEdit
  <2>1. UNCHANGED <<records, place, read, unread, left, job>>
    BY <1>7 DEF ForeignEdit, journalVars, replaying
  <2>2. \A f \in read[p] : f \in File
    BY DEF MemoryTyped, Replayer
  <2> QED
    BY <1>7, <2>1, <2>2, EditMoves DEF Replays, Busy, At
<1>8. CASE PowerLoss
  BY <1>8 DEF PowerLoss, Replays, Replayer
<1>9. CASE ForeignLoad \/ VerifyPF \/ UNCHANGED filesVars
  <2>1. UNCHANGED <<records, file, place, read, unread, left, job>>
    BY <1>9 DEF ForeignLoad, VerifyPF, filesVars, journalVars, files, replaying
  <2> QED
    BY <2>1 DEF Replays, Busy, At
<1> QED
  BY <1>1, <1>2, <1>3, <1>4, <1>5, <1>6, <1>7, <1>8, <1>9, <1>10 DEF FilesNext, DaemonAction, CliStep, Replayer

\* The steps of a patch one by one: what becomes of it.
LEMMA PatchCourse ==
  ASSUME Shapes, NEW p \in Party, PatchStep(p)
  PROVE  /\ job' \in [Party -> Job] /\ \A q \in Party \ {p} : job'[q] = job[q]
         /\ job'[p].file = job[p].file /\ job'[p].want = job[p].want /\ job'[p].orig = job[p].orig
         /\ Backup(p) => At(p, "backup") /\ job'[p].at = (IF Recorded(p) THEN "open" ELSE "write") /\ job'[p].ok = job[p].ok
         /\ OpenHandle(p) => At(p, "open") /\ job'[p].at = "record" /\ job'[p].ok = job[p].ok
         /\ RecordPatch(p) => At(p, "record") /\ job'[p].at = "write" /\ job'[p].ok = job[p].ok
         /\ Write(p) => At(p, "write") /\ job'[p].at = "verify" /\ job'[p].ok = job[p].ok
         /\ Refuse(p) \/ Restore(p) => job'[p].at = "done" /\ job'[p].ok = FALSE
         /\ Verify(p) =>
              /\ At(p, "verify")
              /\ \/ file[job[p].file] = Planned(p) /\ job[p].file # "pf.conf" /\ job'[p].at = "done" /\ job'[p].ok = TRUE
                 \/ file[job[p].file] = Planned(p) /\ job[p].file = "pf.conf" /\ job'[p].at = "reload"
                    /\ job'[p].ok = job[p].ok
                 \/ job'[p].at = "restore" /\ job'[p].ok = job[p].ok
         /\ Reload(p) =>
              /\ At(p, "reload") /\ job'[p].at = "done"
              /\ \/ job'[p].ok = TRUE /\ main' = file["pf.conf"].ours /\ UNCHANGED excused
                 \/ job'[p].ok = ~job[p].want /\ main' = main /\ excused' = TRUE
<1> USE FilesKnown DEF Shapes
<1>1. \A at \in JobPlaces : Step(p, at) => JobOf(p, at, job[p].ok)
  BY StepMoves
<1>2. \A ok \in BOOLEAN : Finish(p, ok) => JobOf(p, "done", ok)
  BY FinishMoves
<1>3. \E at \in JobPlaces, ok \in BOOLEAN : JobOf(p, at, ok)
  BY PatchMoves DEF FilesTyped
<1>4. /\ job' \in [Party -> Job] /\ \A q \in Party \ {p} : job'[q] = job[q]
      /\ job'[p].file = job[p].file /\ job'[p].want = job[p].want /\ job'[p].orig = job[p].orig
  BY <1>3 DEF JobOf
<1>5. Backup(p) => At(p, "backup") /\ job'[p].at = (IF Recorded(p) THEN "open" ELSE "write") /\ job'[p].ok = job[p].ok
  BY <1>1 DEF Backup, JobOf, JobPlaces
<1>6. /\ OpenHandle(p) => At(p, "open") /\ job'[p].at = "record" /\ job'[p].ok = job[p].ok
      /\ RecordPatch(p) => At(p, "record") /\ job'[p].at = "write" /\ job'[p].ok = job[p].ok
      /\ Write(p) => At(p, "write") /\ job'[p].at = "verify" /\ job'[p].ok = job[p].ok
  BY <1>1 DEF OpenHandle, RecordPatch, Write, JobOf, JobPlaces
<1>7. Refuse(p) \/ Restore(p) => job'[p].at = "done" /\ job'[p].ok = FALSE
  BY <1>2 DEF Refuse, Restore, JobOf
<1>8. Verify(p) =>
              /\ At(p, "verify")
              /\ \/ file[job[p].file] = Planned(p) /\ job[p].file # "pf.conf" /\ job'[p].at = "done" /\ job'[p].ok = TRUE
                 \/ file[job[p].file] = Planned(p) /\ job[p].file = "pf.conf" /\ job'[p].at = "reload"
                    /\ job'[p].ok = job[p].ok
                 \/ job'[p].at = "restore" /\ job'[p].ok = job[p].ok
  <2>1. SUFFICES ASSUME Verify(p)
        PROVE  \/ file[job[p].file] = Planned(p) /\ job[p].file # "pf.conf" /\ JobOf(p, "done", TRUE)
               \/ file[job[p].file] = Planned(p) /\ job[p].file = "pf.conf" /\ JobOf(p, "reload", job[p].ok)
               \/ JobOf(p, "restore", job[p].ok)
    BY DEF Verify, JobOf
  <2> QED
    BY <1>1, <1>2, <2>1 DEF Verify, JobPlaces
<1>9. Reload(p) =>
              /\ At(p, "reload") /\ job'[p].at = "done"
              /\ \/ job'[p].ok = TRUE /\ main' = file["pf.conf"].ours /\ UNCHANGED excused
                 \/ job'[p].ok = ~job[p].want /\ main' = main /\ excused' = TRUE
  <2>1. job[p].want \in BOOLEAN /\ (~job[p].want) \in BOOLEAN
    OBVIOUS
  <2> QED
    BY <1>2, <2>1 DEF Reload, JobOf
<1> QED
  BY <1>4, <1>5, <1>6, <1>7, <1>8, <1>9

\* Every step keeps what a patch has come to.
LEMMA PatchedStep ==
  ASSUME Shapes, ~Beside, Apartness, NEW p \in Party, Patched(p), [FilesNext]_filesVars
  PROVE  Patched(p)'
<1> USE FilesKnown, ~Beside, Shapes DEF Shapes, FilesTyped
<1>1. ASSUME NEW q \in Party, PatchStep(q) PROVE Patched(p)'
  <2>0. Busy(q)
    BY <1>1, PatchMoves
  <2>1. CASE q # p
    <3>1. job'[p] = job[p]
      <4>1. \A r \in Party \ {q} : job'[r] = job[r]
        BY <1>1, PatchCourse
      <4> QED
        BY <2>1, <4>1
    <3>2. Busy(p) => file'[job[p].file] = file[job[p].file]
      BY <1>1, <2>0, <2>1, AloneApart, PatchWrites
    <3>3. At(p, "reload") \/ At(p, "done") => Busy(p)
      BY DEF At, Busy
    <3> QED
      BY <3>1, <3>2, <3>3 DEF Patched, At
  <2>2. CASE q = p
    <3>1. /\ job'[p].file = job[p].file /\ job'[p].want = job[p].want
          /\ Backup(p) => job'[p].at \in {"open", "write"}
          /\ OpenHandle(p) \/ RecordPatch(p) \/ Write(p) => job'[p].at \in {"record", "write", "verify"}
          /\ Refuse(p) \/ Restore(p) => job'[p].at = "done" /\ job'[p].ok = FALSE
      BY <1>1, <2>2, PatchCourse
    <3>2. CASE Backup(p) \/ OpenHandle(p) \/ RecordPatch(p) \/ Write(p) \/ Refuse(p) \/ Restore(p)
      BY <3>1, <3>2 DEF Patched, At
    <3>3. CASE Verify(p)
      <4>1. \/ file[job[p].file] = Planned(p) /\ job[p].file # "pf.conf" /\ job'[p].at = "done" /\ job'[p].ok = TRUE
            \/ file[job[p].file] = Planned(p) /\ job[p].file = "pf.conf" /\ job'[p].at = "reload"
            \/ job'[p].at = "restore"
        BY <1>1, <2>2, <3>3, PatchCourse
      <4>2. UNCHANGED file /\ Planned(p).ours = job[p].want
        BY <3>3 DEF Verify, files, Planned
      <4> QED
        BY <3>1, <4>1, <4>2 DEF Patched, At
    <3>4. CASE Reload(p)
      <4>1. At(p, "reload") /\ job'[p].at = "done"
        BY <1>1, <2>2, <3>4, PatchCourse
      <4>2. UNCHANGED file
        BY <3>4 DEF Reload
      <4> QED
        BY <3>1, <4>1, <4>2 DEF Patched, At
    <3> QED
      BY <1>1, <2>2, <3>2, <3>3, <3>4 DEF PatchStep
  <2> QED
    BY <2>1, <2>2
<1>2. ASSUME NEW q \in Party, NEW f \in File, NEW w \in BOOLEAN, Begin(q, f, w), UNCHANGED file PROVE Patched(p)'
  <2>1. CASE p = q
    BY <1>2, <2>1, BeginMoves DEF Patched, At
  <2>2. CASE p # q
    BY <1>2, <2>2, BeginMoves DEF Patched, At
  <2> QED
    BY <2>1, <2>2
<1>3. ASSUME \A q \in Party : job'[q] \in {job[q], Idle}, UNCHANGED file PROVE Patched(p)'
  BY <1>3 DEF Patched, At
<1>4. ASSUME NEW q \in Replayer, ReplayStep(q) PROVE Patched(p)'
  <2>1. CASE ReplayRecord(q)
    <3>1. UNCHANGED file /\ \E r \in File : UNCHANGED job \/ Begin(q, r, FALSE)
      BY <2>1, RecordMoves DEF files
    <3> QED
      BY <1>2, <1>3, <3>1 DEF Party, Replayer
  <2>2. CASE ReplayReverted(q)
    <3>1. q \in Party
      BY DEF Party, Replayer
    <3>2. UNCHANGED file /\ Forget(q)
      BY <2>2 DEF ReplayReverted, files
    <3> QED
      BY <1>3, <3>1, <3>2, ForgetMoves
  <2>3. CASE ReplayDone(q)
    BY <1>3, <2>3 DEF ReplayDone, files
  <2> QED
    BY <1>4, <2>1, <2>2, <2>3 DEF ReplayStep
<1>5. CASE Ensure \/ HostsCommand \/ CliRemove
  <2>1. UNCHANGED file
    BY <1>5 DEF Ensure, HostsCommand, CliRemove, files
  <2>2. \E q \in Party, f \in File, w \in BOOLEAN : Begin(q, f, w)
    BY <1>5 DEF Ensure, HostsCommand, CliRemove
  <2> QED
    BY <1>2, <2>1, <2>2
<1>6. CASE Ensured \/ SetUp \/ HostsDone \/ CliRemoved
  <2>1. UNCHANGED file /\ \E q \in Party : Forget(q)
    BY <1>6 DEF Ensured, SetUp, HostsDone, CliRemoved, files
  <2> QED
    BY <1>3, <2>1, ForgetMoves
<1>7. CASE RunFails \/ Exit \/ Kill
  <2>1. DaemonGone /\ UNCHANGED file
    BY <1>7 DEF RunFails, Exit, Kill, files
  <2> QED
    BY <1>3, <2>1, DaemonGoes DEF Party
<1>8. CASE PowerLoss
  BY <1>3, <1>8 DEF PowerLoss
<1>9. CASE ForeignEdit
  <2>1. UNCHANGED job
    BY <1>9 DEF ForeignEdit
  <2> QED
    BY <1>9, <2>1, EditMoves DEF Patched, At
<1>10. CASE StartDaemon \/ ServeCommands \/ VerifyPF \/ BeginClear \/ ClearRead \/ ClearRewrite \/ Repair \/ Uninstall \/ CliClear
            \/ CliAgain \/ ForeignLoad \/ UNCHANGED filesVars
  <2>1. UNCHANGED <<job, file>>
    BY <1>10 DEF StartDaemon, ServeCommands, VerifyPF, BeginClear, ClearRead, ClearRewrite, Repair, Uninstall, CliClear,
                 CliAgain, ForeignLoad, filesVars, files
  <2> QED
    BY <1>3, <2>1
<1> QED
  BY <1>1, <1>4, <1>5, <1>6, <1>7, <1>8, <1>9, <1>10 DEF FilesNext, DaemonAction, CliStep, Replayer

\* Every step leaves the journal open to who rewrites it.
LEMMA OpenedStep ==
  ASSUME Shapes, ~Beside, Apartness, Opened, [FilesNext]_filesVars PROVE Opened'
<1> USE FilesKnown, ~Beside, Shapes, Opened DEF Shapes, FilesTyped, JournalTypeOK
<1>1. ASSUME NEW h \in Handle PROVE Open(h) => \A g \in Handle : fd[g] # "closed" \/ g = h => fd'[g] # "closed"
  BY DEF Open
<1>2. ASSUME NEW h \in Handle, NEW r \in SUBSET Subject, NEW l \in SUBSET Subject
      PROVE Rewrite(h, r, l) => \A g \in Handle : fd[g] # "closed" => fd'[g] # "closed"
  <2>1. SUFFICES ASSUME Rewrite(h, r, l), NEW g \in Handle, fd[g] # "closed" PROVE fd'[g] # "closed"
    OBVIOUS
  <2>2. \/ fd'[g] = (CASE g = h -> "current"
                       [] g # h /\ fd[g] = "closed" -> "closed"
                       [] g # h /\ fd[g] # "closed" -> "stale")
        \/ fd' = [fd EXCEPT ![h] = "current"]
    BY <2>1 DEF Rewrite
  <2> QED
    BY <2>1, <2>2
<1>3. "pf" \in Handle /\ "cli" \in Handle /\ \A p \in Party : PatchHandle(p) \in Handle
  BY DEF Handles, PatchHandle, Party
<1>4. ASSUME NEW p \in Party, PatchStep(p) PROVE Opened'
  <2>1. UNCHANGED <<place, read>>
    BY <1>4, PatchMoves
  <2>2. fd' = fd \/ Open(PatchHandle(p))
    BY <1>4 DEF PatchStep, Backup, Refuse, OpenHandle, RecordPatch, Write, Verify, Restore, Reload, journalVars, Append
  <2> QED
    BY <1>1, <1>3, <2>1, <2>2 DEF Opened
<1>5. ASSUME NEW p \in Replayer, ReplayStep(p) PROVE Opened'
  <2>1. CASE ReplayRecord(p) \/ ReplayReverted(p)
    BY <2>1 DEF ReplayRecord, ReplayReverted, journalVars, Opened
  <2>2. CASE ReplayDone(p)
    <3>1. \A g \in Handle : fd[g] # "closed" => fd'[g] # "closed"
      <4>1. ReplayHandle(p) \in Handle /\ read[p] \in SUBSET Subject /\ left[p] \in SUBSET Subject
        BY <1>3 DEF ReplayHandle, MemoryTyped, Replayer
      <4> QED
        BY <1>2, <2>2, <4>1 DEF ReplayDone, journalVars
    <3>2. place'[p] = (IF p = "daemon" THEN "ensure" ELSE "hosts") /\ \A q \in Replayer \ {p} : place'[q] = place[q]
      BY <2>2, PlaceMoves DEF ReplayDone, DaemonPlace, CliPlace, Replayer
    <3>3. \A q \in Replayer \ {p} : read'[q] = read[q]
      BY <2>2, MemoryMoves DEF ReplayDone, Replayer
    <3>4. place[p] = "replay"
      BY <2>2 DEF ReplayDone
    <3> QED
      BY <1>3, <3>1, <3>2, <3>3, <3>4 DEF Opened, Replayer
  <2> QED
    BY <1>5, <2>1, <2>2 DEF ReplayStep
<1>6. CASE StartDaemon
  <2>1. \A g \in Handle : fd[g] # "closed" \/ g = "pf" => fd'[g] # "closed"
    BY <1>1, <1>3, <1>6 DEF StartDaemon
  <2>2. place'["cli"] = place["cli"] /\ place["cli"] # "replay"
    BY <1>6, PlaceMoves DEF StartDaemon, DaemonPlace
  <2> QED
    BY <1>3, <2>1, <2>2 DEF Opened
<1>7. CASE Repair
  <2>1. records # {} => Open("cli")
    BY <1>7 DEF Repair
  <2>2. records # {} => fd'["cli"] # "closed" /\ (fd["pf"] # "closed" => fd'["pf"] # "closed")
    BY <1>1, <1>3, <2>1
  <2>3. records = {} => fd' = fd
    BY <1>7 DEF Repair, journalVars
  <2>4. read'["cli"] = records /\ place'["daemon"] = place["daemon"]
    BY <1>7, MemoryMoves, PlaceMoves DEF Repair, CliPlace
  <2> QED
    BY <2>2, <2>3, <2>4 DEF Opened
<1>8. CASE RunFails \/ Exit \/ Kill
  <2>1. DaemonGone
    BY <1>8 DEF RunFails, Exit, Kill
  <2>2. place["cli"] # "replay"
    BY <1>8 DEF RunFails, Exit, Kill, Apartness
  <2> QED
    BY <2>1, <2>2, DaemonGoes DEF Opened
<1>9. CASE ClearRewrite
  <2>1. \A g \in Handle : fd[g] # "closed" => fd'[g] # "closed"
    <3>1. read["daemon"] \in SUBSET Subject /\ read["daemon"] \cap {"hosts"} \in SUBSET Subject
      BY DEF MemoryTyped
    <3> QED
      BY <1>2, <1>3, <1>9, <3>1 DEF ClearRewrite
  <2>2. place'["cli"] = place["cli"] /\ place["cli"] # "replay"
    BY <1>9, PlaceMoves DEF ClearRewrite, DaemonPlace, Apartness
  <2>3. place["daemon"] # "down"
    BY <1>9 DEF ClearRewrite
  <2> QED
    BY <1>3, <2>1, <2>2, <2>3 DEF Opened
<1>10. CASE CliRemoved
  <2>1. place["cli"] \in {"conf", "hosts"} /\ place["daemon"] = "down"
    BY <1>10 DEF CliRemoved, Apartness
  <2>2. place'["daemon"] = "down" /\ place'["cli"] # "replay"
    <3>1. \E l \in {"hosts", "clear", "done"} : MoveTo("cli", l)
      BY <1>10 DEF CliRemoved, CliKind, FilesTypeOK
    <3> QED
      BY <2>1, <3>1, PlaceMoves DEF CliPlace
  <2> QED
    BY <2>2 DEF Opened
<1>11. CASE PowerLoss
  BY <1>11 DEF PowerLoss, Opened
<1>12. CASE Ensure \/ Ensured \/ ServeCommands \/ SetUp \/ BeginClear \/ ClearRead
  <2>1. UNCHANGED fd /\ place["daemon"] # "down"
    BY <1>12 DEF Ensure, Ensured, ServeCommands, SetUp, BeginClear, ClearRead, journalVars
  <2>2. \E l \in DaemonPlace : MoveTo("daemon", l)
    BY <1>12 DEF Ensure, Ensured, ServeCommands, SetUp, BeginClear, ClearRead, DaemonPlace
  <2>3. place'["cli"] = place["cli"] /\ place["cli"] # "replay"
    BY <2>1, <2>2, PlaceMoves DEF Apartness
  <2> QED
    BY <2>1, <2>3 DEF Opened
<1>13. CASE Uninstall \/ CliClear \/ CliAgain
  <2>1. UNCHANGED fd /\ place'["daemon"] = place["daemon"] /\ place'["cli"] # "replay"
    BY <1>13, PlaceMoves DEF Uninstall, CliClear, CliAgain, journalVars, CliPlace
  <2> QED
    BY <2>1 DEF Opened
<1>14. CASE VerifyPF \/ HostsCommand \/ HostsDone \/ CliRemove \/ ForeignEdit \/ ForeignLoad \/ UNCHANGED filesVars
  BY <1>14 DEF VerifyPF, HostsCommand, HostsDone, CliRemove, ForeignEdit, ForeignLoad, filesVars, journalVars, replaying, Opened
<1> QED
  BY <1>4, <1>5, <1>6, <1>7, <1>8, <1>9, <1>10, <1>11, <1>12, <1>13, <1>14 DEF FilesNext, DaemonAction, CliStep, Replayer

\* No step overwrites a version that a backup has secured.
LEMMA VersionsStep ==
  ASSUME Shapes, ~Beside, Apartness, Versions, [FilesNext]_filesVars PROVE Versions'
<1> USE FilesKnown, ~Beside, Shapes DEF Shapes, FilesTyped
<1>0. /\ edits \in Nat /\ \A f \in File : file[f].theirs \in Nat /\ backed[f] \in Nat /\ file[f].theirs <= edits
      /\ \A f \in File : backed[f] <= file[f].theirs
      /\ \A p \in Party : job[p].orig.theirs \in Nat /\ Secured(p)
  BY DEF FilesTypeOK, Versions
<1>1. ASSUME NEW q \in Party, NEW f \in File, NEW w \in BOOLEAN, Begin(q, f, w), UNCHANGED <<file, edits, backed>>
      PROVE  Versions'
  <2>1. /\ job'[q].orig = file[f] /\ job'[q].at \in {"done", "backup"}
        /\ \A r \in Party \ {q} : job'[r] = job[r]
    BY <1>1, BeginMoves
  <2> QED
    BY <1>0, <1>1, <2>1 DEF Versions, Secured
<1>2. ASSUME \A q \in Party : job'[q] \in {job[q], Idle}, UNCHANGED <<file, edits, backed>> PROVE Versions'
  BY <1>0, <1>2 DEF Versions, Secured
<1>3. ASSUME NEW p \in Party, PatchStep(p) PROVE Versions'
  <2>0. UNCHANGED edits /\ Busy(p)
    BY <1>3, PatchMoves
  <2> DEFINE f == job[p].file
  <2>1. f \in File /\ job'[p].file = f /\ job'[p].orig = job[p].orig /\ \A q \in Party \ {p} : job'[q] = job[q]
    BY <1>3, PatchCourse
  <2>2. \A q \in Party \ {p} : Busy(q) => job[q].file # f
    BY <2>0, AloneApart
  <2>3. CASE Backup(p)
    <3>1. file[f] = job[p].orig /\ backed' = [backed EXCEPT ![f] = file[f].theirs] /\ UNCHANGED file
      BY <2>3 DEF Backup, files
    <3>2. backed'[f] = job[p].orig.theirs /\ \A g \in File \ {f} : backed'[g] = backed[g]
      BY <2>1, <3>1 DEF FilesTypeOK
    <3>3. \A g \in File : backed'[g] <= file'[g].theirs /\ file'[g].theirs <= edits'
      BY <1>0, <2>0, <3>1, <3>2
    <3>4. \A q \in Party : Secured(q)'
      <4>1. Secured(p)'
        BY <1>0, <2>0, <2>1, <3>2 DEF Secured
      <4>2. ASSUME NEW q \in Party \ {p} PROVE Secured(q)'
        <5>1. job'[q] = job[q] /\ job[q].file \in File
          BY <2>1
        <5>2. Busy(q) => backed'[job[q].file] = backed[job[q].file]
          BY <2>2, <3>2, <5>1
        <5>3. job[q].at \in {"open", "record", "write", "verify", "restore"} => Busy(q)
          BY DEF Busy, At
        <5> QED
          BY <1>0, <2>0, <5>1, <5>2, <5>3 DEF Secured
      <4> QED
        BY <4>1, <4>2
    <3> QED
      BY <3>3, <3>4 DEF Versions
  <2>4. CASE ~Backup(p)
    <3>1. UNCHANGED backed
      BY <1>3, <2>4 DEF PatchStep, Refuse, OpenHandle, RecordPatch, Write, Verify, Restore, Reload, history
    <3>2. \A q \in Party : Secured(q)'
      <4>1. /\ OpenHandle(p) => At(p, "open")
            /\ RecordPatch(p) => At(p, "record")
            /\ Write(p) => At(p, "write")
            /\ Refuse(p) \/ Restore(p) \/ Reload(p) => job'[p].at = "done"
            /\ Verify(p) => At(p, "verify")
        BY <1>3, PatchCourse
      <4>2. \/ job'[p].at = "done"
            \/ job[p].at \in {"open", "record", "write", "verify", "restore"}
        BY <1>3, <2>4, <4>1 DEF PatchStep, At
      <4>3. Secured(p)'
        BY <1>0, <2>0, <2>1, <3>1, <4>2 DEF Secured
      <4> QED
        BY <1>0, <2>0, <2>1, <3>1, <4>3 DEF Secured
    <3>3. \A g \in File : backed'[g] <= file'[g].theirs /\ file'[g].theirs <= edits'
      <4>1. \A g \in File \ {f} : file'[g] = file[g]
        BY <1>3, PatchWrites
      <4>2. file'[f] = file[f] \/ (job[p].at \in {"write", "restore"} /\ file'[f].theirs = job[p].orig.theirs)
        <5>1. Planned(p).theirs = job[p].orig.theirs
          BY DEF Planned
        <5>2. \/ UNCHANGED file
              \/ At(p, "write") /\ file'[f] = Planned(p)
              \/ At(p, "restore") /\ file'[f] = job[p].orig
          BY <1>3, PatchWrites
        <5> QED
          BY <5>1, <5>2 DEF At
      <4> QED
        BY <1>0, <2>0, <2>1, <3>1, <4>1, <4>2 DEF Secured
    <3> QED
      BY <3>2, <3>3 DEF Versions
  <2> QED
    BY <2>3, <2>4
<1>4. ASSUME NEW q \in Replayer, ReplayStep(q) PROVE Versions'
  <2>1. CASE ReplayRecord(q)
    <3>1. UNCHANGED <<file, edits, backed>> /\ \E r \in File : UNCHANGED job \/ Begin(q, r, FALSE)
      BY <2>1, RecordMoves DEF files, history
    <3> QED
      BY <1>1, <1>2, <3>1 DEF Party, Replayer
  <2>2. CASE ReplayReverted(q)
    <3>1. q \in Party
      BY DEF Party, Replayer
    <3>2. UNCHANGED <<file, edits, backed>> /\ Forget(q)
      BY <2>2 DEF ReplayReverted, files, history
    <3> QED
      BY <1>2, <3>1, <3>2, ForgetMoves
  <2>3. CASE ReplayDone(q)
    BY <1>2, <2>3 DEF ReplayDone, files, history
  <2> QED
    BY <1>4, <2>1, <2>2, <2>3 DEF ReplayStep
<1>5. CASE Ensure \/ HostsCommand \/ CliRemove
  <2>1. UNCHANGED <<file, edits, backed>>
    BY <1>5 DEF Ensure, HostsCommand, CliRemove, files, history
  <2>2. \E q \in Party, f \in File, w \in BOOLEAN : Begin(q, f, w)
    BY <1>5 DEF Ensure, HostsCommand, CliRemove
  <2> QED
    BY <1>1, <2>1, <2>2
<1>6. CASE Ensured \/ SetUp \/ HostsDone \/ CliRemoved
  <2>1. UNCHANGED <<file, edits, backed>> /\ \E q \in Party : Forget(q)
    BY <1>6 DEF Ensured, SetUp, HostsDone, CliRemoved, files, history
  <2> QED
    BY <1>2, <2>1, ForgetMoves
<1>7. CASE RunFails \/ Exit \/ Kill
  <2>1. DaemonGone /\ UNCHANGED <<file, edits, backed>>
    BY <1>7 DEF RunFails, Exit, Kill, files, history
  <2> QED
    BY <1>2, <2>1, DaemonGoes DEF Party
<1>8. CASE PowerLoss
  BY <1>2, <1>8 DEF PowerLoss
<1>9. CASE ForeignEdit
  <2>1. UNCHANGED <<job, backed>> /\ edits' = edits + 1
    BY <1>9 DEF ForeignEdit
  <2>2. \A f \in File : file'[f] = file[f] \/ file'[f].theirs = edits + 1
    BY <1>9, EditMoves
  <2>3. \A f \in File : backed'[f] <= file'[f].theirs /\ file'[f].theirs <= edits'
    BY <1>0, <2>1, <2>2
  <2>4. \A p \in Party : Secured(p)'
    BY <1>0, <2>1 DEF Secured
  <2> QED
    BY <2>3, <2>4 DEF Versions
<1>10. CASE StartDaemon \/ ServeCommands \/ VerifyPF \/ BeginClear \/ ClearRead \/ ClearRewrite \/ Repair \/ Uninstall \/ CliClear
            \/ CliAgain \/ ForeignLoad \/ UNCHANGED filesVars
  <2>1. UNCHANGED <<job, file, edits, backed>>
    BY <1>10 DEF StartDaemon, ServeCommands, VerifyPF, BeginClear, ClearRead, ClearRewrite, Repair, Uninstall, CliClear,
                 CliAgain, ForeignLoad, filesVars, files, history
  <2> QED
    BY <1>2, <2>1
<1> QED
  BY <1>3, <1>4, <1>5, <1>6, <1>7, <1>8, <1>9, <1>10 DEF FilesNext, DaemonAction, CliStep, Replayer

\* What of ours is there has a record, and so has what is being patched.
Noted == \A f \in File : file[f].ours => f \in records \/ (f = "pf.conf" /\ adopted)

\* A patch about to write has its record, and so has a removal.
NotedPatch(p) ==
    \/ job[p].at \in {"write", "verify", "restore"}
    \/ job[p].at \in {"backup", "open", "record"} /\ ~job[p].want
    => job[p].file \in records

\* A record that is lost stays lost.
LEMMA LostStays == ASSUME [FilesNext]_filesVars, ~lost' PROVE ~lost
<1>1. UNCHANGED lost \/ lost' = TRUE \/ \E h, r, l : Rewrite(h, r, l)
  <2>1. ASSUME NEW p \in Party, PatchStep(p) PROVE UNCHANGED lost \/ lost' = TRUE
    BY <2>1 DEF PatchStep, Backup, Refuse, OpenHandle, RecordPatch, Write, Verify, Restore, Reload, journalVars, Append, Open
  <2>2. ASSUME NEW p \in Replayer, ReplayStep(p) PROVE UNCHANGED lost \/ \E h, r, l : Rewrite(h, r, l)
    BY <2>2 DEF ReplayStep, ReplayRecord, ReplayReverted, ReplayDone, journalVars
  <2>3. CASE DaemonAction
    BY <2>3 DEF DaemonAction, StartDaemon, Ensure, Ensured, RunFails, ServeCommands, SetUp, VerifyPF, BeginClear, ClearRead,
                ClearRewrite, Exit, journalVars, Open
  <2>4. CASE HostsCommand \/ HostsDone \/ CliStep
    BY <2>4 DEF HostsCommand, HostsDone, CliStep, Repair, Uninstall, CliRemove, CliRemoved, CliClear, CliAgain, journalVars,
                Open
  <2>5. CASE ForeignEdit \/ ForeignLoad \/ Kill \/ PowerLoss \/ UNCHANGED filesVars
    BY <2>5 DEF ForeignEdit, ForeignLoad, Kill, PowerLoss, filesVars, journalVars
  <2> QED
    BY <2>1, <2>2, <2>3, <2>4, <2>5 DEF FilesNext, Replayer
<1>2. ASSUME NEW h, NEW r, NEW l, Rewrite(h, r, l) PROVE UNCHANGED lost \/ lost' = (lost \/ ~(records \subseteq r))
  BY <1>2 DEF Rewrite
<1> QED
  BY <1>1, <1>2

\* Every step leaves a record of what is in the files and of what is being patched.
LEMMA RecordingStep ==
  ASSUME Shapes, ~Beside, Apartness, Opened, \A p \in Replayer : Replays(p), \A p \in Party : Patched(p), Recording,
         [FilesNext]_filesVars
  PROVE  Recording'
<1> SUFFICES ASSUME ~lost'
             PROVE  /\ (torn => \A h \in Handle : fd[h] = "closed")'
                    /\ (kind # "uninstall" => Noted /\ \A p \in Party : NotedPatch(p))'
  BY DEF Recording, Noted, NotedPatch
<1> USE FilesKnown, ~Beside, Shapes DEF Shapes, FilesTyped, JournalTypeOK
<1>0. ~lost
  BY LostStays
<1>1. /\ torn => \A h \in Handle : fd[h] = "closed"
      /\ kind # "uninstall" => Noted /\ \A p \in Party : NotedPatch(p)
  BY <1>0 DEF Recording, Noted, NotedPatch
<1>2. "pf" \in Handle /\ "cli" \in Handle /\ \A p \in Party : PatchHandle(p) \in Handle
  BY DEF Handles, PatchHandle, Party
<1>3. ASSUME UNCHANGED <<torn, fd>> PROVE (torn => \A h \in Handle : fd[h] = "closed")'
  BY <1>1, <1>3
<1>4. ASSUME \A q \in Party : job'[q] \in {job[q], Idle}, UNCHANGED <<records, file>>, adopted => adopted',
             kind' # "uninstall" => kind # "uninstall"
      PROVE  (kind # "uninstall" => Noted /\ \A p \in Party : NotedPatch(p))'
  BY <1>1, <1>4 DEF Noted, NotedPatch
<1>5. ASSUME NEW q \in Party, NEW f \in File, NEW w \in BOOLEAN, Begin(q, f, w), UNCHANGED <<records, file, adopted, kind>>,
             ~w => f \in records \/ ~file[f].ours \/ kind = "uninstall"
      PROVE  (kind # "uninstall" => Noted /\ \A p \in Party : NotedPatch(p))'
  <2>1. /\ job'[q].at = (IF file[f].ours = w THEN "done" ELSE "backup") /\ job'[q].file = f /\ job'[q].want = w
        /\ \A r \in Party \ {q} : job'[r] = job[r]
    BY <1>5, BeginMoves
  <2>2. file[f].ours \in BOOLEAN
    OBVIOUS
  <2>3. kind' # "uninstall" => NotedPatch(q)'
    BY <1>5, <2>1, <2>2 DEF NotedPatch
  <2>4. ASSUME NEW r \in Party \ {q}, kind' # "uninstall" PROVE NotedPatch(r)'
    BY <1>1, <1>5, <2>1, <2>4 DEF NotedPatch
  <2>5. kind' # "uninstall" => Noted'
    BY <1>1, <1>5 DEF Noted
  <2> QED
    BY <2>3, <2>4, <2>5
<1>6. ASSUME NEW p \in Party, PatchStep(p)
      PROVE  /\ (torn => \A h \in Handle : fd[h] = "closed")'
             /\ (kind # "uninstall" => Noted /\ \A q \in Party : NotedPatch(q))'
  <2> DEFINE f == job[p].file
  <2>0. Busy(p) /\ UNCHANGED kind
    BY <1>6, PatchMoves
  <2>1. /\ f \in File /\ job'[p].file = f /\ job'[p].want = job[p].want /\ job'[p].orig = job[p].orig
        /\ \A q \in Party \ {p} : job'[q] = job[q]
    BY <1>6, PatchCourse
  <2>2. records \subseteq records'
    BY <1>6, PatchRecords
  <2>3. (torn => \A h \in Handle : fd[h] = "closed")'
    <3>1. CASE OpenHandle(p)
      BY <1>1, <1>2, <1>3, <3>1 DEF OpenHandle, Open, journalVars
    <3>2. CASE RecordPatch(p)
      <4>1. UNCHANGED fd /\ ((fd[PatchHandle(p)] = "current" /\ torn' = FALSE) \/ UNCHANGED torn)
        BY <3>2 DEF RecordPatch, Append
      <4> QED
        BY <1>1, <4>1
    <3>3. CASE ~OpenHandle(p) /\ ~RecordPatch(p)
      BY <1>3, <1>6, <3>3 DEF PatchStep, Backup, Refuse, Write, Verify, Restore, Reload, journalVars
    <3> QED
      BY <3>1, <3>2, <3>3
  <2>4. CASE kind = "uninstall"
    BY <2>0, <2>3, <2>4
  <2>5. CASE kind # "uninstall"
    <3>0. Noted /\ \A q \in Party : NotedPatch(q)
      BY <1>1, <2>5
    <3>1. job[p].at \in {"write", "verify", "restore"} => f \in records
      BY <3>0 DEF NotedPatch
    <3>2. job'[p].at \in {"write", "verify", "restore"} => f \in records'
      <4>1. CASE Backup(p)
        <5>1. job'[p].at = (IF Recorded(p) THEN "open" ELSE "write") /\ At(p, "backup")
          BY <1>6, <4>1, PatchCourse
        <5>2. job'[p].at = "write" => ~job[p].want
          BY <5>1 DEF Recorded
        <5> QED
          BY <2>2, <3>0, <5>1, <5>2 DEF NotedPatch, At
      <4>2. CASE RecordPatch(p)
        <5>1. fd[PatchHandle(p)] = "current" /\ records' = IF torn THEN records ELSE records \cup {f}
          BY <4>2 DEF RecordPatch, Append
        <5> QED
          BY <1>1, <1>2, <5>1
      <4>3. CASE Write(p) \/ Verify(p)
        <5>1. job[p].at \in {"write", "verify"}
          BY <4>3 DEF Write, Verify, At
        <5> QED
          BY <2>2, <3>1, <5>1
      <4>4. CASE OpenHandle(p) \/ Refuse(p) \/ Restore(p) \/ Reload(p)
        <5>1. job'[p].at \in {"record", "done"}
          <6>1. /\ OpenHandle(p) => job'[p].at = "record"
                /\ Refuse(p) \/ Restore(p) => job'[p].at = "done"
                /\ Reload(p) => job'[p].at = "done"
            BY <1>6, PatchCourse
          <6> QED
            BY <4>4, <6>1
        <5> QED
          BY <5>1
      <4> QED
        BY <1>6, <4>1, <4>2, <4>3, <4>4 DEF PatchStep
    <3>3. job'[p].at \in {"backup", "open", "record"} /\ ~job'[p].want => f \in records'
      <4>1. job'[p].at \in {"backup", "open", "record"} => job[p].at \in {"backup", "open", "record"}
        <5>1. /\ Backup(p) => At(p, "backup")
              /\ OpenHandle(p) => At(p, "open")
              /\ RecordPatch(p) => At(p, "record")
              /\ Write(p) => job'[p].at = "verify"
              /\ Refuse(p) \/ Restore(p) => job'[p].at = "done"
              /\ Reload(p) => job'[p].at = "done"
              /\ Verify(p) => job'[p].at \in {"done", "reload", "restore"}
          BY <1>6, PatchCourse
        <5> QED
          BY <1>6, <5>1 DEF PatchStep, At
      <4> QED
        BY <2>1, <2>2, <3>0, <4>1 DEF NotedPatch
    <3>4. \A q \in Party : NotedPatch(q)'
      BY <2>1, <2>2, <3>0, <3>2, <3>3 DEF NotedPatch
    <3>5. Noted'
      <4>1. \A g \in File \ {f} : file'[g] = file[g]
        BY <1>6, PatchWrites
      <4>2. file'[f] = file[f] \/ f \in records
        BY <1>6, <3>1, PatchWrites DEF At
      <4>3. adopted' = adopted \/ (f = "pf.conf" /\ f \in records)
        BY <1>6, <3>1 DEF PatchStep, Backup, Refuse, OpenHandle, RecordPatch, Write, Verify, Restore, Reload, history, At,
                          FilesTypeOK
      <4> QED
        BY <2>1, <2>2, <3>0, <4>1, <4>2, <4>3 DEF Noted
    <3> QED
      BY <2>3, <3>4, <3>5
  <2> QED
    BY <2>4, <2>5
<1>7. ASSUME NEW p \in Replayer, ReplayStep(p)
      PROVE  /\ (torn => \A h \in Handle : fd[h] = "closed")'
             /\ (kind # "uninstall" => Noted /\ \A q \in Party : NotedPatch(q))'
  <2>0. p \in Party /\ place[p] = "replay" /\ UNCHANGED <<kind, adopted>>
    BY <1>7 DEF Party, Replayer, ReplayStep, ReplayRecord, ReplayReverted, ReplayDone, history
  <2>1. CASE ReplayRecord(p)
    <3>1. PICK r \in unread[p] :
             /\ r \in File /\ UNCHANGED <<journalVars, files, kind, history>>
             /\ UNCHANGED job \/ Begin(p, r, FALSE)
      BY <2>1, RecordMoves
    <3>2. r \in records
      BY <2>0 DEF Replays, Replayer
    <3>3. UNCHANGED <<records, torn, fd, file, adopted, kind>>
      BY <3>1 DEF journalVars, files, history
    <3>4. CASE Begin(p, r, FALSE)
      <4>1. (kind # "uninstall" => Noted /\ \A q \in Party : NotedPatch(q))'
        BY <1>5, <2>0, <3>1, <3>2, <3>3, <3>4
      <4> QED
        BY <1>3, <3>3, <4>1
    <3>5. CASE UNCHANGED job
      BY <1>3, <1>4, <3>3, <3>5
    <3> QED
      BY <3>1, <3>4, <3>5
  <2>2. CASE ReplayReverted(p)
    <3>1. \A q \in Party : job'[q] \in {job[q], Idle}
      BY <2>0, <2>2, ForgetMoves DEF ReplayReverted
    <3>2. UNCHANGED <<records, torn, fd, file, adopted, kind>>
      BY <2>2 DEF ReplayReverted, journalVars, files, history
    <3> QED
      BY <1>3, <1>4, <3>1, <3>2
  <2>3. CASE ReplayDone(p)
    <3>1. UNCHANGED <<file, job, kind, adopted>> /\ unread[p] = {} /\ ~Busy(p)
      BY <2>3 DEF ReplayDone, files, history, Busy
    <3>2. CASE UNCHANGED journalVars
      BY <1>3, <1>4, <3>1, <3>2 DEF journalVars
    <3>3. CASE Rewrite(ReplayHandle(p), read[p], left[p]) /\ read[p] # {}
      <4>1. ReplayHandle(p) \in Handle /\ fd[ReplayHandle(p)] # "closed"
        BY <1>2, <2>0, <3>3 DEF ReplayHandle, Opened, Replayer
      <4>2. ~torn
        BY <1>1, <4>1
      <4>3. (torn => \A h \in Handle : fd[h] = "closed")'
        BY <3>3, <4>2 DEF Rewrite
      <4>4. \A q \in Party : ~Busy(q)
        BY <2>0, <3>1, AloneApart
      <4>5. records' = records \/ records' = left[p]
        BY <3>3 DEF Rewrite
      <4>6. \A f \in File : file[f].ours /\ f \in records => f \in records'
        BY <2>0, <3>1, <4>5 DEF Replays, Replayer
      <4>7. Noted => Noted'
        BY <3>1, <4>6 DEF Noted
      <4>8. \A q \in Party : NotedPatch(q)'
        BY <3>1, <4>4 DEF NotedPatch, Busy, At
      <4> QED
        BY <1>1, <3>1, <4>3, <4>7, <4>8
    <3> QED
      BY <2>3, <3>2, <3>3 DEF ReplayDone
  <2> QED
    BY <1>7, <2>1, <2>2, <2>3 DEF ReplayStep
<1>8. ASSUME RunFails \/ Exit \/ Kill
      PROVE  /\ (torn => \A h \in Handle : fd[h] = "closed")'
             /\ (kind # "uninstall" => Noted /\ \A q \in Party : NotedPatch(q))'
  <2>1. DaemonGone /\ UNCHANGED <<records, torn, file, adopted, kind>>
    BY <1>8 DEF RunFails, Exit, Kill, files, history
  <2>2. fd' = [h \in Handle |-> IF h \in {"pf", "hosts"} THEN "closed" ELSE fd[h]]
    BY <2>1, DaemonGoes
  <2>3. \A q \in Party : job'[q] \in {job[q], Idle}
    BY <2>1, DaemonGoes DEF Party
  <2> QED
    BY <1>1, <1>4, <2>1, <2>2, <2>3
<1>9. CASE DaemonAction
  <2>1. CASE StartDaemon
    <3>1. UNCHANGED <<records, file, adopted, kind, job>> /\ torn' = FALSE
      BY <2>1 DEF StartDaemon, Open, files, history
    <3> QED
      BY <1>4, <3>1
  <2>2. CASE Ensure
    <3>1. UNCHANGED <<records, torn, fd, file, adopted, kind>> /\ Begin("daemon", "pf.conf", TRUE)
      BY <2>2 DEF Ensure, journalVars, files, history
    <3> QED
      BY <1>3, <1>5, <3>1
  <2>3. CASE Ensured \/ SetUp
    <3>1. UNCHANGED <<records, torn, fd, file, adopted, kind>> /\ Forget("daemon")
      BY <2>3 DEF Ensured, SetUp, journalVars, files, history
    <3> QED
      BY <1>3, <1>4, <3>1, ForgetMoves
  <2>4. CASE ServeCommands \/ VerifyPF \/ BeginClear \/ ClearRead
    <3>1. UNCHANGED <<records, torn, fd, file, adopted, kind, job>>
      BY <2>4 DEF ServeCommands, VerifyPF, BeginClear, ClearRead, journalVars, files, history
    <3> QED
      BY <1>3, <1>4, <3>1
  <2>5. CASE ClearRewrite
    <3>1. UNCHANGED <<file, job, kind>> /\ adopted' = (adopted \/ file["pf.conf"].ours) /\ place["daemon"] = "clRewrite"
          /\ Rewrite("pf", read["daemon"], read["daemon"] \cap {"hosts"})
      BY <2>5 DEF ClearRewrite, files
    <3>2. ~torn
      BY <1>1, <1>2, <3>1 DEF Opened
    <3>3. (torn => \A h \in Handle : fd[h] = "closed")'
      BY <3>1, <3>2 DEF Rewrite
    <3>4. CASE records' = records
      <4>1. adopted => adopted'
        BY <3>1
      <4> QED
        BY <1>4, <3>1, <3>3, <3>4, <4>1
    <3>5. CASE records' # records
      <4>1. records' = read["daemon"] \cap {"hosts"} /\ records \subseteq read["daemon"]
        BY <3>1, <3>5 DEF Rewrite
      <4>2. "hosts" \in records => "hosts" \in records'
        BY <4>1
      <4>3. Noted => Noted'
        BY <3>1, <4>2 DEF Noted
      <4>4. ASSUME NEW q \in Party PROVE NotedPatch(q) => NotedPatch(q)'
        <5>1. Busy(q) => job[q].file = "hosts"
          BY <3>1 DEF Apartness, Party
        <5>2. UNCHANGED job
          BY <3>1
        <5> QED
          BY <4>2, <5>1, <5>2 DEF NotedPatch, Busy, At
      <4> QED
        BY <1>1, <3>1, <3>3, <4>3, <4>4
    <3> QED
      BY <3>4, <3>5
  <2> QED
    BY <1>8, <1>9, <2>1, <2>2, <2>3, <2>4, <2>5 DEF DaemonAction
<1>10. CASE HostsCommand \/ HostsDone
  <2>1. CASE HostsCommand
    <3>1. UNCHANGED <<records, torn, fd, file, adopted, kind>> /\ \E w \in BOOLEAN : Begin("handler", "hosts", w)
      BY <2>1 DEF HostsCommand, journalVars, files, history
    <3>2. kind = "uninstall" \/ ~file["hosts"].ours \/ "hosts" \in records
      BY <1>1 DEF Noted
    <3> QED
      BY <1>3, <1>5, <3>1, <3>2
  <2>2. CASE HostsDone
    <3>1. UNCHANGED <<records, torn, fd, file, adopted, kind>> /\ Forget("handler")
      BY <2>2 DEF HostsDone, journalVars, files, history
    <3> QED
      BY <1>3, <1>4, <3>1, ForgetMoves
  <2> QED
    BY <1>10, <2>1, <2>2
<1>11. CASE CliStep
  <2>1. CASE Repair
    <3>1. UNCHANGED <<records, file, adopted, job>> /\ kind = "none" /\ (torn' = FALSE \/ UNCHANGED <<torn, fd>>)
      BY <2>1 DEF Repair, Open, journalVars, files, history, CliKind
    <3> QED
      BY <1>3, <1>4, <3>1
  <2>2. CASE Uninstall \/ CliAgain
    <3>1. UNCHANGED <<records, torn, fd, file, adopted, job>> /\ (kind' # "uninstall" => kind # "uninstall")
      BY <2>2 DEF Uninstall, CliAgain, journalVars, files, history
    <3> QED
      BY <1>3, <1>4, <3>1
  <2>3. CASE CliRemove
    <3>1. UNCHANGED <<records, torn, fd, file, adopted, kind>>
      BY <2>3 DEF CliRemove, journalVars, files, history
    <3>2. Begin("cli", IF place.cli = "conf" THEN "pf.conf" ELSE "hosts", FALSE)
          /\ (place.cli = "conf" => kind = "uninstall")
      BY <2>3 DEF CliRemove, CliKind
    <3>3. kind = "uninstall" \/ ~file["hosts"].ours \/ "hosts" \in records
      BY <1>1 DEF Noted
    <3> QED
      BY <1>3, <1>5, <3>1, <3>2, <3>3
  <2>4. CASE CliRemoved
    <3>1. UNCHANGED <<records, torn, file, adopted, kind>> /\ Forget("cli")
      BY <2>4 DEF CliRemoved, files, history
    <3>2. \A h \in Handle : fd[h] = "closed" => fd'[h] = "closed"
      BY <2>4 DEF CliRemoved, Close
    <3> QED
      BY <1>1, <1>4, <3>1, <3>2, ForgetMoves
  <2>5. CASE CliClear
    <3>1. kind' = "uninstall" /\ (torn' = FALSE \/ UNCHANGED torn) /\ UNCHANGED fd
      BY <2>5 DEF CliClear, CliKind
    <3> QED
      BY <1>1, <3>1
  <2> QED
    BY <1>11, <2>1, <2>2, <2>3, <2>4, <2>5 DEF CliStep
<1>12. CASE ForeignEdit
  <2>1. UNCHANGED <<records, torn, fd, adopted, kind, job>> /\ \A f \in File : file'[f].ours => file[f].ours
    BY <1>12, EditMoves DEF ForeignEdit, journalVars
  <2>2. Noted => Noted'
    BY <2>1 DEF Noted
  <2>3. \A p \in Party : NotedPatch(p) => NotedPatch(p)'
    BY <2>1 DEF NotedPatch
  <2> QED
    BY <1>1, <1>3, <2>1, <2>2, <2>3
<1>13. CASE PowerLoss
  <2>1. UNCHANGED <<records, file, adopted>> /\ (kind' # "uninstall" => kind # "uninstall") /\ \A h \in Handle : fd'[h] = "closed"
    BY <1>13 DEF PowerLoss
  <2>2. \A q \in Party : job'[q] \in {job[q], Idle}
    BY <1>13 DEF PowerLoss
  <2> QED
    BY <1>4, <2>1, <2>2
<1>14. CASE ForeignLoad \/ UNCHANGED filesVars
  <2>1. UNCHANGED <<records, torn, fd, file, adopted, kind, job>>
    BY <1>14 DEF ForeignLoad, filesVars, journalVars, files, history
  <2> QED
    BY <1>3, <1>4, <2>1
<1> QED
  BY <1>6, <1>7, <1>8, <1>9, <1>10, <1>11, <1>12, <1>13, <1>14 DEF FilesNext, Replayer

\* Nothing was refused, lost or changed by others.
Calm == ~excused /\ ~lost /\ edits = 0

\* What the place of the daemon says of the ruleset.
Placed ==
    /\ place["daemon"] \in {"startup", "serving", "resetup", "clRead", "clRewrite", "clClose"} => main /\ file["pf.conf"].ours
    /\ place["daemon"] = "resetup" => At("daemon", "done")
    /\ place["daemon"] = "replay" /\ file["pf.conf"].ours => main \/ "pf.conf" \in unread["daemon"] \/ Busy("daemon")
    /\ place["daemon"] = "ensure" /\ file["pf.conf"].ours => main

\* Statements left on purpose are loaded.
Adopted == adopted => main /\ file["pf.conf"].ours

\* A patch that was written and not yet ended is in the file.
Reached(p) == job[p].at \in {"verify", "reload"} /\ job[p].file = "pf.conf" => file["pf.conf"].ours = job[p].want

\* A patch of the daemon that ended did what it was for.
Achieved ==
    At("daemon", "done") =>
        job["daemon"].ok /\ (IF job["daemon"].want THEN main /\ file["pf.conf"].ours ELSE ~file["pf.conf"].ours)

\* What was refused, lost or edited stays so.
LEMMA CalmBefore == ASSUME Shapes, [FilesNext]_filesVars, Calm' PROVE Calm
<1> USE DEF Shapes
<1>1. ~excused
  <2>1. UNCHANGED excused \/ excused' = TRUE
    <3>1. ASSUME NEW p \in Party, PatchStep(p) PROVE UNCHANGED excused \/ excused' = TRUE
      BY <3>1 DEF PatchStep, Backup, Refuse, OpenHandle, RecordPatch, Write, Verify, Restore, Reload, history
    <3>2. ASSUME NEW p \in Replayer, ReplayStep(p) PROVE UNCHANGED excused
      BY <3>2 DEF ReplayStep, ReplayRecord, ReplayReverted, ReplayDone, history
    <3>3. CASE DaemonAction
      BY <3>3 DEF DaemonAction, StartDaemon, Ensure, Ensured, RunFails, ServeCommands, SetUp, VerifyPF, BeginClear, ClearRead,
                  ClearRewrite, Exit, history
    <3>4. CASE HostsCommand \/ HostsDone \/ CliStep
      BY <3>4 DEF HostsCommand, HostsDone, CliStep, Repair, Uninstall, CliRemove, CliRemoved, CliClear, CliAgain, history
    <3>5. CASE ForeignEdit \/ ForeignLoad \/ Kill \/ PowerLoss \/ UNCHANGED filesVars
      BY <3>5 DEF ForeignEdit, ForeignLoad, Kill, PowerLoss, filesVars, history
    <3> QED
      BY <3>1, <3>2, <3>3, <3>4, <3>5 DEF FilesNext, Replayer
  <2> QED
    BY <2>1 DEF Calm
<1>2. edits = 0
  <2>1. UNCHANGED edits \/ edits' = edits + 1
    <3>1. ASSUME NEW p \in Party, PatchStep(p) PROVE UNCHANGED edits
      BY <3>1 DEF PatchStep, Backup, Refuse, OpenHandle, RecordPatch, Write, Verify, Restore, Reload, history
    <3>2. ASSUME NEW p \in Replayer, ReplayStep(p) PROVE UNCHANGED edits
      BY <3>2 DEF ReplayStep, ReplayRecord, ReplayReverted, ReplayDone, history
    <3>3. CASE DaemonAction
      BY <3>3 DEF DaemonAction, StartDaemon, Ensure, Ensured, RunFails, ServeCommands, SetUp, VerifyPF, BeginClear, ClearRead,
                  ClearRewrite, Exit, history
    <3>4. CASE HostsCommand \/ HostsDone \/ CliStep
      BY <3>4 DEF HostsCommand, HostsDone, CliStep, Repair, Uninstall, CliRemove, CliRemoved, CliClear, CliAgain, history
    <3>5. CASE ForeignEdit \/ ForeignLoad \/ Kill \/ PowerLoss \/ UNCHANGED filesVars
      BY <3>5 DEF ForeignEdit, ForeignLoad, Kill, PowerLoss, filesVars, history
    <3> QED
      BY <3>1, <3>2, <3>3, <3>4, <3>5 DEF FilesNext, Replayer
  <2>2. edits \in Nat
    BY DEF FilesTyped, FilesTypeOK
  <2> QED
    BY <2>1, <2>2 DEF Calm
<1>3. ~lost
  BY LostStays DEF Calm
<1> QED
  BY <1>1, <1>2, <1>3 DEF Calm

\* Every step leaves the statements in the ruleset.
LEMMA LoadingStep ==
  ASSUME Shapes, ~Beside, Apartness, \A p \in Replayer : Replays(p), \A p \in Party : Patched(p), Recording, Loading,
         [FilesNext]_filesVars
  PROVE  Loading'
<1> DEFINE Loaded == Placed /\ Adopted /\ (\A p \in Replayer : Reached(p)) /\ Achieved
<1> SUFFICES ASSUME Calm' PROVE Loaded'
  BY DEF Loading, Calm, Placed, Adopted, Reached, Achieved, Replayer
<1>0. Calm /\ Loaded
  <2>1. Calm
    BY CalmBefore
  <2> QED
    BY <2>1 DEF Loading, Calm, Placed, Adopted, Reached, Achieved, Replayer
<1> USE FilesKnown, ~Beside, Shapes DEF Shapes, FilesTyped
<1>1. main \in BOOLEAN /\ file["pf.conf"].ours \in BOOLEAN /\ \A p \in Party : job[p].want \in BOOLEAN
  BY DEF FilesTypeOK
\* Steps that leave the file, the ruleset and the daemon where they are.
<1>2. ASSUME UNCHANGED <<file, main, adopted>>, place'["daemon"] = place["daemon"], unread'["daemon"] = unread["daemon"],
             job'["daemon"] = job["daemon"], job'["cli"] = job["cli"] \/ job'["cli"].at \in {"none", "backup", "done"}
      PROVE  Loaded'
  BY <1>0, <1>2 DEF Placed, Adopted, Reached, Achieved, Replayer, At, Busy
\* Steps of the daemon that leave the file, the ruleset and the command line alone.
<1>3. ASSUME UNCHANGED <<file, main>>, adopted' => adopted \/ (main /\ file["pf.conf"].ours), job'["cli"] = job["cli"],
             job'["daemon"].at \in {"none", "backup", "done"}, Placed', Achieved'
      PROVE  Loaded'
  BY <1>0, <1>3 DEF Adopted, Reached, Replayer
<1>4. ASSUME NEW p \in Party, PatchStep(p) PROVE Loaded'
  <2>1. Busy(p) /\ Busy(p)' /\ UNCHANGED <<place, kind, read, unread, left>>
    BY <1>4, PatchMoves
  <2>2. /\ job'[p].file = job[p].file /\ job'[p].want = job[p].want /\ \A q \in Party \ {p} : job'[q] = job[q]
    BY <1>4, PatchCourse
  <2>3. ~(Refuse(p) \/ Restore(p))
    BY DEF Refuse, Restore, Calm
  <2>4. p = "handler" => ~At(p, "reload") /\ job[p].file = "hosts"
    BY <2>1 DEF Apartness, Patched
  <2>5. p = "cli" => place["daemon"] = "down" /\ ~Busy("daemon")
    BY <2>1 DEF Apartness
  <2>6. p = "daemon" => place["daemon"] \in {"replay", "ensured", "resetup"} /\ job["daemon"].file = "pf.conf"
    BY <2>1 DEF Apartness
  <2>7. p = "daemon" => ~Busy("cli")
    BY <2>1 DEF Apartness
  <2>8. p = "daemon" => place["daemon"] # "resetup"
    <3>1. ~At(p, "done")
      BY <1>4 DEF PatchStep, Backup, Refuse, OpenHandle, RecordPatch, Write, Verify, Restore, Reload, At
    <3> QED
      BY <1>0, <3>1 DEF Placed
  <2>9. CASE Backup(p) \/ OpenHandle(p) \/ RecordPatch(p)
    <3>1. UNCHANGED <<file, main, adopted>>
      BY <2>9 DEF Backup, OpenHandle, RecordPatch, files, history
    <3>2. job'[p].at \in {"open", "record", "write"}
      <4>1. /\ Backup(p) => job'[p].at \in {"open", "write"}
            /\ OpenHandle(p) => job'[p].at = "record"
            /\ RecordPatch(p) => job'[p].at = "write"
        BY <1>4, PatchCourse
      <4> QED
        BY <2>9, <4>1
    <3>3. Placed'
      BY <1>0, <2>1, <2>2, <2>8, <3>1, <3>2 DEF Placed, At, Busy
    <3>4. Adopted' /\ Achieved' /\ \A q \in Replayer : Reached(q)'
      BY <1>0, <2>2, <3>1, <3>2 DEF Adopted, Achieved, Reached, At, Replayer, Party
    <3> QED
      BY <3>3, <3>4
  <2>10. CASE Write(p)
    <3>1. At(p, "write") /\ job'[p].at = "verify"
      BY <1>4, <2>10, PatchCourse
    <3>2. UNCHANGED main /\ adopted' = (adopted /\ job[p].file # "pf.conf") /\ file' = [file EXCEPT ![job[p].file] = Planned(p)]
      BY <2>10 DEF Write
    <3>3. Planned(p).ours = job[p].want /\ job[p].file \in File
      BY DEF Planned
    <3>4. IF job[p].file = "pf.conf" THEN file'["pf.conf"].ours = job[p].want ELSE file'["pf.conf"] = file["pf.conf"]
      BY <3>2, <3>3
    <3>5. CASE job[p].file = "pf.conf"
      <4>1. p = "daemon" \/ p = "cli"
        BY <2>4, <3>5 DEF Party
      <4>2. Adopted'
        BY <3>2, <3>5 DEF Adopted
      <4>3. Placed'
        BY <2>1, <2>5, <2>6, <2>8, <4>1 DEF Placed, Busy, At
      <4>4. Achieved'
        BY <2>2, <2>5, <3>1, <4>1 DEF Achieved, At, Busy
      <4>5. \A q \in Replayer : Reached(q)'
        <5>1. Reached(p)'
          BY <2>2, <3>4, <3>5 DEF Reached
        <5>2. ASSUME NEW q \in Replayer, q # p PROVE Reached(q)'
          <6>1. job'[q] = job[q] /\ ~Busy(q)
            BY <2>2, <2>5, <2>7, <4>1, <5>2 DEF Replayer
          <6> QED
            BY <6>1 DEF Reached, Busy, At
        <5> QED
          BY <5>1, <5>2
      <4> QED
        BY <4>2, <4>3, <4>4, <4>5
    <3>6. CASE job[p].file # "pf.conf"
      <4>1. file'["pf.conf"] = file["pf.conf"] /\ UNCHANGED <<main, adopted>> /\ p # "daemon"
        BY <2>6, <3>2, <3>4, <3>6, <1>0 DEF FilesTypeOK
      <4>2. job'["daemon"] = job["daemon"]
        BY <2>2, <4>1
      <4>3. Placed' /\ Adopted' /\ Achieved'
        BY <1>0, <2>1, <4>1, <4>2 DEF Placed, Adopted, Achieved, At, Busy
      <4>4. \A q \in Replayer : Reached(q)'
        BY <1>0, <2>2, <3>6, <4>1 DEF Reached, Party, Replayer
      <4> QED
        BY <4>3, <4>4
    <3> QED
      BY <3>5, <3>6
  <2>11. CASE Verify(p)
    <3>1. UNCHANGED <<file, main, adopted>>
      BY <2>11 DEF Verify, files, history
    <3>2. /\ At(p, "verify")
          /\ \/ job[p].file # "pf.conf" /\ job'[p].at = "done"
             \/ job[p].file = "pf.conf" /\ job'[p].at = "reload"
             \/ job'[p].at = "restore"
      BY <1>4, <2>11, PatchCourse
    <3>3. Placed' /\ Adopted'
      BY <1>0, <2>1, <2>2, <2>8, <3>1, <3>2 DEF Placed, Adopted, At, Busy
    <3>4. Achieved'
      BY <1>0, <2>2, <2>6, <3>1, <3>2 DEF Achieved, At
    <3>5. \A q \in Replayer : Reached(q)'
      BY <1>0, <2>2, <3>1, <3>2 DEF Reached, At, Party, Replayer
    <3> QED
      BY <3>3, <3>4, <3>5
  <2>12. CASE Reload(p)
    <3>1. UNCHANGED <<file, adopted>> /\ At(p, "reload")
      BY <2>12 DEF Reload
    <3>2. job'[p].at = "done" /\ job'[p].ok = TRUE /\ main' = file["pf.conf"].ours
      <4>1. /\ job'[p].at = "done"
            /\ \/ job'[p].ok = TRUE /\ main' = file["pf.conf"].ours
               \/ excused' = TRUE
        BY <1>4, <2>12, PatchCourse
      <4> QED
        BY <4>1 DEF Calm
    <3>3. (p = "daemon" \/ p = "cli") /\ job[p].file = "pf.conf"
      BY <2>4, <3>1 DEF Party, Patched
    <3>4. Placed'
      BY <2>1, <2>5, <2>6, <2>8, <3>3 DEF Placed
    <3>5. Adopted'
      BY <1>0, <3>1, <3>2 DEF Adopted
    <3>6. Achieved'
      <4>1. CASE p = "daemon"
        <5>1. file["pf.conf"].ours = job[p].want
          BY <1>0, <3>1, <3>3, <4>1 DEF Reached, At, Replayer
        <5> QED
          BY <1>1, <2>2, <3>1, <3>2, <4>1, <5>1 DEF Achieved
      <4>2. CASE p = "cli"
        BY <2>2, <2>5, <4>2 DEF Achieved, Busy, At
      <4> QED
        BY <3>3, <4>1, <4>2
    <3>7. \A q \in Replayer : Reached(q)'
      BY <1>0, <2>2, <3>1, <3>2 DEF Reached, Party, Replayer
    <3> QED
      BY <3>4, <3>5, <3>6, <3>7
  <2> QED
    BY <1>4, <2>3, <2>9, <2>10, <2>11, <2>12 DEF PatchStep
<1>5. ASSUME NEW p \in Replayer, ReplayStep(p) PROVE Loaded'
  <2>0. p \in Party /\ place[p] = "replay" /\ UNCHANGED <<file, main, adopted>>
    BY <1>5 DEF Party, Replayer, ReplayStep, ReplayRecord, ReplayReverted, ReplayDone, history, files
  <2>1. CASE p = "cli"
    <3>1. job'["daemon"] = job["daemon"] /\ (job'["cli"] = job["cli"] \/ job'["cli"].at \in {"none", "backup", "done"})
      <4>1. CASE ReplayRecord(p)
        <5>1. \E r \in File : UNCHANGED job \/ Begin(p, r, FALSE)
          BY <4>1, RecordMoves
        <5>2. ASSUME NEW r \in File, Begin(p, r, FALSE)
              PROVE  job'["daemon"] = job["daemon"] /\ job'["cli"].at \in {"none", "backup", "done"}
          <6>1. job'["cli"].at \in {"backup", "done"} /\ \A q \in Party \ {"cli"} : job'[q] = job[q]
            BY <2>1, <5>2, BeginMoves
          <6> QED
            BY <6>1
        <5> QED
          BY <5>1, <5>2
      <4>2. CASE ReplayReverted(p)
        BY <2>1, <4>2, ForgetMoves DEF ReplayReverted
      <4>3. CASE ReplayDone(p)
        BY <4>3 DEF ReplayDone
      <4> QED
        BY <1>5, <4>1, <4>2, <4>3 DEF ReplayStep
    <3>2. place["daemon"] = "down" /\ ~Busy("daemon")
      BY <2>0, <2>1 DEF Apartness
    <3>3. place'["daemon"] = place["daemon"]
      BY <1>5, <2>1, PlaceMoves DEF ReplayStep, ReplayRecord, ReplayReverted, ReplayDone, CliPlace
    <3>4. Placed' /\ Achieved'
      BY <3>1, <3>2, <3>3 DEF Placed, Achieved, Busy, At
    <3> QED
      BY <1>0, <2>0, <3>1, <3>4 DEF Adopted, Reached, Replayer
  <2>2. CASE p = "daemon"
    <3>1. CASE ReplayRecord(p)
      <4>1. PICK r \in unread[p] :
               /\ r \in File /\ UNCHANGED place
               /\ unread'[p] = unread[p] \ {r}
               /\ IF r = "hosts" /\ p = "daemon" THEN UNCHANGED job ELSE Begin(p, r, FALSE)
        BY <3>1, RecordMoves
      <4>2. ~Busy("daemon")
        BY <2>2, <3>1 DEF ReplayRecord, Busy
      <4>3. CASE r = "hosts"
        <5>1. UNCHANGED job /\ job["daemon"].at = "none"
          BY <2>2, <4>1, <4>2, <4>3 DEF Busy, At
        <5>2. Placed' /\ Achieved'
          BY <1>0, <2>0, <2>2, <4>1, <4>3, <5>1 DEF Placed, Achieved, Busy, At
        <5> QED
          BY <1>3, <2>0, <5>1, <5>2
      <4>4. CASE r = "pf.conf"
        <5>1. /\ job'["daemon"].at = (IF file["pf.conf"].ours = FALSE THEN "done" ELSE "backup")
              /\ job'["daemon"].want = FALSE /\ job'["daemon"].ok /\ job'["cli"] = job["cli"]
          <6>1. Begin("daemon", "pf.conf", FALSE)
            BY <2>2, <4>1, <4>4
          <6>2. \A q \in Party \ {"daemon"} : job'[q] = job[q]
            BY <6>1, BeginMoves
          <6>3. /\ job'["daemon"].at = (IF file["pf.conf"].ours = FALSE THEN "done" ELSE "backup")
                /\ job'["daemon"].want = FALSE /\ job'["daemon"].ok
            BY <6>1, BeginMoves
          <6> QED
            BY <6>2, <6>3
        <5>2. Placed'
          BY <2>0, <2>2, <4>1, <5>1 DEF Placed, Busy, At
        <5>3. Achieved'
          BY <1>1, <2>0, <5>1 DEF Achieved, At
        <5> QED
          BY <1>3, <2>0, <5>1, <5>2, <5>3
      <4> QED
        BY <4>1, <4>3, <4>4
    <3>2. CASE ReplayReverted(p)
      <4>1. job'["daemon"].at = "none" /\ job'["cli"] = job["cli"] /\ At("daemon", "done") /\ place' = place
        BY <2>2, <3>2, ForgetMoves DEF ReplayReverted
      <4>2. ~job["daemon"].want
        BY <2>0, <2>2, <4>1 DEF Apartness, Busy, At
      <4>3. ~file["pf.conf"].ours
        BY <1>0, <4>1, <4>2 DEF Achieved
      <4>4. Placed' /\ Achieved'
        BY <2>0, <2>2, <4>1, <4>3 DEF Placed, Achieved, At
      <4> QED
        BY <1>3, <2>0, <4>1, <4>4
    <3>3. CASE ReplayDone(p)
      <4>1. UNCHANGED job /\ ~Busy("daemon") /\ unread["daemon"] = {} /\ place'["daemon"] = "ensure"
        BY <2>2, <3>3, PlaceMoves DEF ReplayDone, Busy, DaemonPlace
      <4>2. job'["daemon"].at = "none"
        BY <4>1 DEF Busy, At
      <4>3. Placed' /\ Achieved'
        BY <1>0, <2>0, <2>2, <4>1, <4>2 DEF Placed, Achieved, At
      <4> QED
        BY <1>3, <2>0, <4>1, <4>2, <4>3
    <3> QED
      BY <1>5, <3>1, <3>2, <3>3 DEF ReplayStep
  <2> QED
    BY <2>1, <2>2 DEF Replayer
<1>6. ASSUME RunFails \/ Exit \/ Kill PROVE Loaded'
  <2>1. DaemonGone /\ UNCHANGED <<file, main, adopted>>
    BY <1>6 DEF RunFails, Exit, Kill, files, history
  <2>2. place'["daemon"] = "down" /\ job'["daemon"].at = "none" /\ job'["cli"] = job["cli"]
    BY <2>1, DaemonGoes
  <2>3. Placed' /\ Achieved'
    BY <2>2 DEF Placed, Achieved, At
  <2> QED
    BY <1>3, <2>1, <2>2, <2>3
<1>7. CASE DaemonAction
  <2>1. CASE StartDaemon
    <3>1. /\ UNCHANGED <<file, main, adopted, job, kind, records>> /\ place["daemon"] = "down" /\ kind # "uninstall"
          /\ place'["daemon"] = "replay" /\ unread'["daemon"] = records
      BY <2>1, PlaceMoves, MemoryMoves DEF StartDaemon, Open, files, history, DaemonPlace
    <3>2. job["daemon"].at = "none"
      BY <3>1 DEF Apartness, Busy, At
    <3>3. file["pf.conf"].ours => "pf.conf" \in records \/ adopted
      BY <1>0, <3>1 DEF Recording, Calm
    <3>4. Placed' /\ Achieved'
      BY <1>0, <3>1, <3>2, <3>3 DEF Placed, Adopted, Achieved, At
    <3> QED
      BY <1>3, <3>1, <3>2, <3>4
  <2>2. CASE Ensure
    <3>1. /\ UNCHANGED <<file, main, adopted>>
          /\ \/ place["daemon"] = "ensure" /\ place'["daemon"] = "ensured"
             \/ place["daemon"] = "serving" /\ place'["daemon"] = "resetup"
      BY <2>2, PlaceMoves DEF Ensure, files, history, DaemonPlace
    <3>2. /\ job'["daemon"].at = (IF file["pf.conf"].ours = TRUE THEN "done" ELSE "backup")
          /\ job'["daemon"].want = TRUE /\ job'["daemon"].ok /\ job'["cli"] = job["cli"]
      <4>1. Begin("daemon", "pf.conf", TRUE)
        BY <2>2 DEF Ensure
      <4>2. \A q \in Party \ {"daemon"} : job'[q] = job[q]
        BY <4>1, BeginMoves
      <4>3. /\ job'["daemon"].at = (IF file["pf.conf"].ours = TRUE THEN "done" ELSE "backup")
            /\ job'["daemon"].want = TRUE /\ job'["daemon"].ok
        BY <4>1, BeginMoves
      <4> QED
        BY <4>2, <4>3
    <3>3. Placed' /\ Achieved'
      BY <1>0, <1>1, <3>1, <3>2 DEF Placed, Achieved, At
    <3> QED
      BY <1>3, <3>1, <3>2, <3>3
  <2>3. CASE Ensured \/ SetUp
    <3>1. /\ UNCHANGED <<file, main, adopted>> /\ At("daemon", "done")
          /\ \/ place["daemon"] = "ensured" /\ place'["daemon"] = "startup"
             \/ place["daemon"] = "resetup" /\ place'["daemon"] = "serving"
      BY <2>3, PlaceMoves DEF Ensured, SetUp, files, history, DaemonPlace
    <3>2. job'["daemon"].at = "none" /\ job'["cli"] = job["cli"]
      BY <2>3, ForgetMoves DEF Ensured, SetUp
    <3>3. job["daemon"].want
      BY <1>1, <3>1 DEF Apartness, Busy, At
    <3>4. Placed' /\ Achieved'
      BY <1>0, <3>1, <3>2, <3>3 DEF Placed, Achieved, At
    <3> QED
      BY <1>3, <3>1, <3>2, <3>4
  <2>4. CASE ServeCommands \/ BeginClear \/ ClearRead \/ ClearRewrite
    <3>1. /\ UNCHANGED <<file, main, job>> /\ place["daemon"] \in {"startup", "serving", "clRead", "clRewrite"}
          /\ place'["daemon"] \in {"serving", "clRead", "clRewrite", "clClose"}
          /\ adopted' \in {adopted, adopted \/ file["pf.conf"].ours}
      BY <2>4, PlaceMoves DEF ServeCommands, BeginClear, ClearRead, ClearRewrite, files, history, DaemonPlace
    <3>2. job["daemon"].at = "none"
      BY <3>1 DEF Apartness, Busy, At
    <3>3. main /\ file["pf.conf"].ours
      BY <1>0, <3>1 DEF Placed
    <3>4. Placed' /\ Achieved'
      BY <3>1, <3>2, <3>3 DEF Placed, Achieved, At
    <3> QED
      BY <1>3, <3>1, <3>2, <3>3, <3>4
  <2>5. CASE VerifyPF
    BY <1>2, <2>5 DEF VerifyPF, files, history, replaying
  <2> QED
    BY <1>6, <1>7, <2>1, <2>2, <2>3, <2>4, <2>5 DEF DaemonAction
<1>8. CASE HostsCommand \/ HostsDone
  <2>1. UNCHANGED <<file, main, adopted, place, unread>>
    BY <1>8 DEF HostsCommand, HostsDone, files, history, replaying
  <2>2. job'["daemon"] = job["daemon"] /\ job'["cli"] = job["cli"]
    <3>1. CASE HostsCommand
      <4>1. PICK w \in BOOLEAN : Begin("handler", "hosts", w)
        BY <3>1 DEF HostsCommand
      <4> QED
        BY <4>1, BeginMoves
    <3>2. CASE HostsDone
      BY <3>2, ForgetMoves DEF HostsDone
    <3> QED
      BY <1>8, <3>1, <3>2
  <2> QED
    BY <1>2, <2>1, <2>2
<1>9. CASE CliStep
  <2>1. UNCHANGED <<file, main, adopted>> /\ place'["daemon"] = place["daemon"] /\ unread'["daemon"] = unread["daemon"]
    <3>1. UNCHANGED <<file, main, adopted>>
      BY <1>9 DEF CliStep, Repair, Uninstall, CliRemove, CliRemoved, CliClear, CliAgain, files, history
    <3>2. unread'["daemon"] = unread["daemon"]
      BY <1>9, MemoryMoves DEF CliStep, Repair, Uninstall, CliRemove, CliRemoved, CliClear, CliAgain, replaying
    <3>3. UNCHANGED place \/ \E l \in CliPlace : MoveTo("cli", l)
      BY <1>9 DEF CliStep, Repair, Uninstall, CliRemove, CliRemoved, CliClear, CliAgain, CliPlace, FilesTypeOK, CliKind
    <3> QED
      BY <3>1, <3>2, <3>3, PlaceMoves
  <2>2. job'["daemon"] = job["daemon"] /\ (job'["cli"] = job["cli"] \/ job'["cli"].at \in {"none", "backup", "done"})
    <3>1. CASE CliRemove
      <4>1. PICK f \in File : Begin("cli", f, FALSE)
        BY <3>1 DEF CliRemove
      <4>2. job'["cli"].at \in {"backup", "done"} /\ \A q \in Party \ {"cli"} : job'[q] = job[q]
        BY <4>1, BeginMoves
      <4> QED
        BY <4>2
    <3>2. CASE CliRemoved
      BY <3>2, ForgetMoves DEF CliRemoved
    <3>3. CASE ~CliRemove /\ ~CliRemoved
      BY <1>9, <3>3 DEF CliStep, Repair, Uninstall, CliClear, CliAgain
    <3> QED
      BY <3>1, <3>2, <3>3
  <2> QED
    BY <1>2, <2>1, <2>2
<1>10. CASE ForeignEdit \/ ForeignLoad
  <2>1. edits \in Nat
    BY DEF FilesTypeOK
  <2> QED
    BY <1>0, <1>10, <2>1 DEF ForeignEdit, ForeignLoad, Calm
<1>11. CASE PowerLoss
  <2>1. UNCHANGED <<file, adopted>> /\ main' = file["pf.conf"].ours /\ place'["daemon"] = "down"
        /\ \A p \in Party : job'[p].at = "none"
    BY <1>11 DEF PowerLoss
  <2>2. Placed' /\ Achieved' /\ \A p \in Replayer : Reached(p)'
    BY <2>1 DEF Placed, Achieved, Reached, At, Party, Replayer
  <2>3. Adopted'
    BY <1>0, <2>1 DEF Adopted
  <2> QED
    BY <2>2, <2>3
<1>12. CASE UNCHANGED filesVars
  BY <1>2, <1>12 DEF filesVars, files, history, replaying
<1> QED
  BY <1>4, <1>5, <1>6, <1>7, <1>8, <1>9, <1>10, <1>11, <1>12 DEF FilesNext, Replayer

\* The invariant is inductive.
LEMMA FilesStep == FilesInv /\ [FilesNext]_filesVars => FilesInv'
<1> SUFFICES ASSUME FilesInv, [FilesNext]_filesVars PROVE FilesInv'
  OBVIOUS
<1>1. FilesTyped /\ FilesTyped' /\ Shapes
  BY FilesTypeStep, FilesShapes DEF FilesInv
<1>2. CASE ~Beside
  <2>1. /\ Apartness /\ Opened /\ (\A p \in Replayer : Replays(p)) /\ (\A p \in Party : Patched(p))
        /\ Versions /\ Recording /\ Loading
    BY <1>2 DEF FilesInv, Replayer
  <2>2. Apartness' /\ Opened' /\ Versions'
    BY <1>1, <1>2, <2>1, ApartStep, OpenedStep, VersionsStep
  <2>3. \A p \in Party : Patched(p)'
    BY <1>1, <1>2, <2>1, PatchedStep
  <2>4. \A p \in Replayer : Replays(p)'
    <3>1. Replayer \subseteq Party
      BY DEF Party, Replayer
    <3> QED
      BY <1>1, <1>2, <2>1, <3>1, ReplaysStep
  <2>5. Recording'
    BY <1>1, <1>2, <2>1, RecordingStep
  <2>6. Loading'
    BY <1>1, <1>2, <2>1, LoadingStep
  <2> QED
    BY <1>1, <2>2, <2>3, <2>4, <2>5, <2>6 DEF FilesInv, Replayer
<1> QED
  BY <1>1, <1>2 DEF FilesInv

\* It holds at the start.
LEMMA FilesStart == FilesInit => FilesInv
<1> SUFFICES ASSUME FilesInit PROVE FilesInv
  OBVIOUS
<1> USE FilesKnown DEF FilesInit
<1>1. 0 \in 0 .. MaxEdits /\ 0 \in 0 .. MaxLosses
  BY FilesAssumption
<1>2. /\ \A f \in File : file[f] = [ours |-> FALSE, theirs |-> 0]
      /\ place["daemon"] = "down" /\ place["cli"] = "idle" /\ \A p \in Party : job[p] = Idle
  OBVIOUS
<1>3. FilesTyped
  <2>1. [ours |-> FALSE, theirs |-> 0] \in Content
    BY <1>1 DEF Content
  <2>2. file \in [File -> Content] /\ job \in [Party -> Job] /\ JournalTypeOK
    BY <2>1 DEF JournalInit, JournalTypeOK
  <2>3. place \in [{"daemon", "cli"} -> DaemonPlace \cup CliPlace] /\ place.daemon \in DaemonPlace /\ place.cli \in CliPlace
    BY DEF DaemonPlace, CliPlace
  <2>4. backed \in [File -> 0 .. MaxEdits] /\ edits \in 0 .. MaxEdits /\ losses \in 0 .. MaxLosses
    BY <1>1
  <2>5. /\ read \in [{"daemon", "cli"} -> SUBSET Subject] /\ unread \in [{"daemon", "cli"} -> SUBSET Subject]
        /\ left \in [{"daemon", "cli"} -> SUBSET Subject]
    OBVIOUS
  <2> QED
    BY <2>2, <2>3, <2>4, <2>5 DEF FilesTyped, FilesTypeOK, CliKind
<1>4. Apartness /\ Opened
  BY <1>2 DEF Apartness, Opened, Busy, At
<1>5. (\A p \in {"daemon", "cli"} : Replays(p)) /\ \A p \in Party : Patched(p)
  BY <1>2 DEF Replays, Patched, At
<1>6. Versions
  <2>1. \A f \in File : backed[f] = 0 /\ file[f].theirs = 0
    BY <1>2
  <2>2. \A p \in Party : Secured(p)
    BY <1>2 DEF Secured
  <2> QED
    BY <2>1, <2>2 DEF Versions
<1>7. Recording /\ Loading
  BY <1>2 DEF Recording, Loading, At, Busy, JournalInit
<1> QED
  BY <1>3, <1>4, <1>5, <1>6, <1>7 DEF FilesInv

\* The invariant in the words of the properties.
LEMMA FilesMeaning == FilesInv => FilesTypeOK /\ EditsKept /\ ChangesRecorded /\ ServedIsLoaded
<1> SUFFICES ASSUME FilesInv PROVE FilesTypeOK /\ EditsKept /\ ChangesRecorded /\ ServedIsLoaded
  OBVIOUS
<1>1. FilesTypeOK
  BY DEF FilesInv, FilesTyped
<1>2. EditsKept
  <2>1. \A f \in File : backed[f] \in Nat /\ file[f].theirs \in Nat
    BY <1>1, FilesKnown DEF FilesTypeOK
  <2> QED
    BY <2>1 DEF EditsKept, FilesInv, Versions
<1>3. ChangesRecorded
  BY DEF ChangesRecorded, FilesInv, Recording
<1>4. ServedIsLoaded
  <2>1. edits > 0 \/ edits = 0
    BY <1>1, FilesAssumption DEF FilesTypeOK
  <2> QED
    BY <2>1 DEF ServedIsLoaded, FilesInv, Loading
<1> QED
  BY <1>1, <1>2, <1>3, <1>4

(* SystemFiles: every variable keeps its type; unless a repair may run beside *)
(* a starting daemon, the patches of /etc/hosts and /etc/pf.conf stay apart,  *)
(* rollbacks know the journal, and the records and the ruleset follow.        *)
THEOREM FilesAlways == FilesSpec => []FilesInv
<1>1. FilesInv /\ UNCHANGED filesVars => FilesInv'
  BY FilesStep
<1> QED
  BY FilesStart, FilesStep, PTL DEF FilesSpec

(* SystemFiles: no patch, and no restore after one, overwrites what a third   *)
(* party wrote before the backup of the file (backupLocked, backupPfConf).    *)
THEOREM EditsSurvive == FilesSpec => []EditsKept
  BY FilesAlways, FilesMeaning, PTL

(* SystemFiles: what of ours is in a system file has a readable record, and a *)
(* serving daemon's statements are in the loaded ruleset, for any number of   *)
(* edits and crashes and with every fault (FilesBacked of the run state_dir). *)
THEOREM ChangesAreBacked == FilesSpec => []FilesBacked
<1>1. FilesInv => FilesBacked
  BY FilesMeaning DEF FilesBacked
<1> QED
  BY <1>1, FilesAlways, PTL

(* SystemFiles: Journal.Rollback drops a record only when its patch is gone.  *)
THEOREM DropsAreReverts == FilesSpec => DropMeansReverted
<1> DEFINE Drops == \A p \in {"daemon", "cli"}, f \in File :
                       /\ place[p] = "replay" /\ place'[p] # "replay" /\ ~Beside
                       /\ f \in records \ records'
                       => ~file'[f].ours
<1>1. ASSUME FilesInv, [FilesNext]_filesVars PROVE Drops
  <2> SUFFICES ASSUME NEW p \in Replayer, NEW f \in File, place[p] = "replay", place'[p] # "replay", ~Beside,
                      f \in records \ records'
               PROVE  ~file'[f].ours
    BY DEF Replayer
  <2>1. FilesTyped /\ Apartness /\ Replays(p)
    BY <1>1 DEF FilesInv, Replayer
  <2>2. Shapes
    BY <2>1, FilesShapes
  <2>3. PICK q \in Replayer : ReplayDone(q)
    <3>1. ASSUME NEW q \in Party, PatchStep(q) PROVE FALSE
      BY <2>1, <3>1, PatchMoves DEF FilesTyped
    <3>2. ASSUME NEW q \in Replayer, ReplayRecord(q) \/ ReplayReverted(q) PROVE FALSE
      BY <3>2 DEF ReplayRecord, ReplayReverted
    <3>3. CASE DaemonAction
      <4>1. UNCHANGED records \/ ClearRewrite
        BY <3>3 DEF DaemonAction, StartDaemon, Ensure, Ensured, RunFails, ServeCommands, SetUp, VerifyPF, BeginClear, ClearRead,
                    Exit, Open, journalVars
      <4>2. ClearRewrite => place["daemon"] = "clRewrite" /\ place'["cli"] = place["cli"]
        BY <2>2, PlaceMoves DEF ClearRewrite, Shapes, DaemonPlace
      <4> QED
        BY <4>1, <4>2 DEF Replayer
    <3>4. CASE HostsCommand \/ HostsDone
      BY <3>4 DEF HostsCommand, HostsDone
    <3>5. CASE CliStep
      <4>1. UNCHANGED records \/ CliClear
        BY <3>5 DEF CliStep, Repair, Uninstall, CliRemove, CliRemoved, CliAgain, journalVars, Open
      <4>2. CliClear => place["cli"] = "clear" /\ place'["daemon"] = place["daemon"]
        BY <2>2, PlaceMoves DEF CliClear, Shapes, CliPlace
      <4> QED
        BY <4>1, <4>2 DEF Replayer
    <3>6. CASE ForeignEdit \/ ForeignLoad \/ Kill \/ PowerLoss \/ UNCHANGED filesVars
      BY <3>6 DEF ForeignEdit, ForeignLoad, Kill, PowerLoss, filesVars, journalVars
    <3> QED
      BY <1>1, <3>1, <3>2, <3>3, <3>4, <3>5, <3>6 DEF FilesNext, ReplayStep, Replayer
  <2>4. q = p
    <3>1. ASSUME q # p PROVE FALSE
      <4>1. MoveTo(q, IF q = "daemon" THEN "ensure" ELSE "hosts")
        BY <2>3 DEF ReplayDone
      <4>2. place'[p] = place[p]
        BY <2>2, <3>1, <4>1, PlaceMoves DEF Shapes, DaemonPlace, CliPlace, Replayer
      <4> QED
        BY <4>2
    <3> QED
      BY <3>1
  <2>5. ReplayDone(p)
    BY <2>3, <2>4
  <2>6. UNCHANGED file /\ unread[p] = {} /\ ~Busy(p) /\ records' = left[p]
    BY <2>5 DEF ReplayDone, files, Busy, journalVars, Rewrite
  <2> QED
    BY <2>1, <2>6 DEF Replays
<1>2. FilesInv /\ [FilesNext]_filesVars => [Drops]_filesVars
  BY <1>1
<1>3. FilesSpec => [][Drops]_filesVars
  BY <1>2, FilesAlways, PTL DEF FilesSpec
<1> QED
  BY <1>3 DEF DropMeansReverted
=============================================================================
