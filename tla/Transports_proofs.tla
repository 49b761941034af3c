------------------------- MODULE Transports_proofs --------------------------
(* Proofs about the life cycles of the two transports: DivertLifecycle, for *)
(* every set of closing and of reloading goroutines, and ProxyLifecycle, for *)
(* any number of transports, closers and reloaders.                        *)
EXTENDS DivertLifecycle, ProxyLifecycle, TLAPS

------------------------------------------------------------------------------
(* The divert transport.                                                   *)

Critical(a) == dpc[a] \in TeardownPc \/ (a = "start" /\ dpc[a] \in SetupPc)

(* lifeMu: whoever is inside setup or teardown holds it.                   *)
LockHeld == \A a \in Actor : Critical(a) <=> lifeMu = a

(* A teardown has claimed everything: what it undoes is in claimed[a] and   *)
(* nowhere else.                                                           *)
Claims ==
    \A a \in Actor :
        /\ claimed[a] # {} => dpc[a] \in TeardownPc
        /\ dpc[a] \in TeardownPc => handles = {}

(* Whatever is installed is named by a handle somebody will still undo, or   *)
(* its undoing has failed.                                                 *)
Owned ==
    /\ "plog" \in handles => pflog = "open"
    /\ pflog = "open" => "plog" \in handles \/ \E a \in Actor : "plog" \in claimed[a]
    /\ pflog = "unread" => "destroy" \in refused
    /\ steering = "loaded" =>
         \/ "flush" \in refused
         \/ "pf" \in handles
         \/ \E a \in Actor : "pf" \in claimed[a] /\ dpc[a] = "tdFlush"
    /\ ref => \/ "release" \in refused
              \/ "pf" \in handles
              \/ \E a \in Actor : "pf" \in claimed[a] /\ dpc[a] \in {"tdFlush", "tdRelease"}

(* What setup has installed by the time it reaches each step.              *)
SetupOrder ==
    /\ dpc["start"] \in {"inject", "claimPF", "enable", "load", "observe"} => "plog" \in handles
    /\ dpc["start"] \in {"enable", "load", "observe"} => "pf" \in handles
    /\ dpc["start"] \in {"idle", "uplink", "plog"} => handles = {}
    /\ "pf" \in handles => "plog" \in handles
    /\ dpc["start"] \in {"tdFlush", "tdRelease", "tdClose"} => handles = {}

(* Nothing is left, or can be installed any more, once Start or a Close has *)
(* returned.                                                               *)
Settled ==
    /\ dpc["start"] = "returned" => handles = {} /\ \A a \in Actor : claimed[a] = {}
    /\ \A c \in Closer :
         /\ dpc[c] # "idle" => closed
         /\ dpc[c] = "returned" =>
              /\ handles = {}
              /\ \A a \in Actor : claimed[a] = {}
              /\ dpc["start"] \notin {"inject", "claimPF", "enable", "load", "observe"}

LifeInv == DivertTypeOK /\ LockHeld /\ Claims /\ Owned /\ SetupOrder /\ Settled /\ RulesHaveReader

-----------------------------------------------------------------------------
LEMMA InitLifeInv == DivertInit => LifeInv
  BY ActorAssumption
  DEF DivertInit, LifeInv, DivertTypeOK, LockHeld, Claims, Owned, SetupOrder, Settled, RulesHaveReader,
      Critical, Actor, Handle, StartPc, CloserPc, ReloaderPc, SetupPc, TeardownPc

(* The steps of setup: lifeMu is held, so no teardown runs.                *)
LEMMA SetupKeepsLifeInv ==
    ASSUME LifeInv, Setup
    PROVE  LifeInv'
<1> USE ActorAssumption
        DEF LifeInv, DivertTypeOK, LockHeld, Claims, Owned, SetupOrder, Settled, RulesHaveReader,
            Critical, Actor, Handle, StartPc, CloserPc, ReloaderPc, SetupPc, TeardownPc,
            DivertGoto, flags, devices
<1>1. CASE EnterSetup
  BY <1>1 DEF EnterSetup
<1>2. CASE ResolveUplink
  BY <1>2 DEF ResolveUplink
<1>3. CASE CreatePFLog
  BY <1>3 DEF CreatePFLog
<1>4. CASE OpenInjector
  BY <1>4 DEF OpenInjector
<1>5. CASE ClaimPF
  BY <1>5 DEF ClaimPF
<1>6. CASE EnablePF
  BY <1>6 DEF EnablePF
<1>7. CASE LoadSteering
  BY <1>7 DEF LoadSteering
<1>8. CASE StartObserver
  BY <1>8 DEF StartObserver
<1>9. CASE AbortSetup
  BY <1>9 DEF AbortSetup
<1> QED BY <1>1, <1>2, <1>3, <1>4, <1>5, <1>6, <1>7, <1>8, <1>9 DEF Setup

(* The run loop and the calls that only raise a flag.                      *)
LEMMA RunKeepsLifeInv ==
    ASSUME LifeInv, \/ EnterRun \/ LeaveRun \/ RunDies \/ Cancel
                 \/ \E c \in Closer : Close(c) \/ CloseWaited(c)
    PROVE  LifeInv'
<1> USE ActorAssumption
        DEF LifeInv, DivertTypeOK, LockHeld, Claims, Owned, SetupOrder, Settled, RulesHaveReader,
            Critical, Actor, Handle, StartPc, CloserPc, ReloaderPc, SetupPc, TeardownPc,
            DivertGoto, flags, devices
<1>1. CASE EnterRun
  BY <1>1 DEF EnterRun
<1>2. CASE LeaveRun \/ RunDies
  <2>0. /\ dpc["start"] = "run" /\ dpc' = [dpc EXCEPT !["start"] = "tdLock"]
        /\ running' = FALSE /\ done' = TRUE
        /\ UNCHANGED <<lifeMu, closed, cancelled, handles, ref, steering, pflog, refused, claimed>>
    BY <1>2 DEF LeaveRun, RunDies, ExitRun
  <2>1. DivertTypeOK'
    BY <2>0
  <2>2. LockHeld'
    BY <2>0
  <2>3. Claims'
    BY <2>0
  <2>4. Owned'
    BY <2>0
  <2>5. SetupOrder'
    BY <2>0
  <2>6. Settled'
    BY <2>0
  <2>7. RulesHaveReader'
    BY <2>0
  <2> QED BY <2>1, <2>2, <2>3, <2>4, <2>5, <2>6, <2>7
<1>3. CASE Cancel
  BY <1>3 DEF Cancel
<1>4. ASSUME NEW c \in Closer, Close(c) PROVE LifeInv'
  BY <1>4 DEF Close
<1>5. ASSUME NEW c \in Closer, CloseWaited(c) PROVE LifeInv'
  BY <1>5 DEF CloseWaited
<1> QED BY <1>1, <1>2, <1>3, <1>4, <1>5

(* A teardown, by Start or by a Close.                                     *)
LEMMA TeardownKeepsLifeInv ==
    ASSUME LifeInv, NEW a \in {"start"} \cup Closer, Teardown(a)
    PROVE  LifeInv'
<1> USE ActorAssumption
        DEF LifeInv, DivertTypeOK, LockHeld, Claims, Owned, SetupOrder, Settled, RulesHaveReader,
            Critical, Actor, Handle, StartPc, CloserPc, ReloaderPc, SetupPc, TeardownPc,
            DivertGoto, flags, devices
<1>1. CASE ClaimHandles(a)
  <2>1. CASE handles = {}
    <3>1. UNCHANGED <<lifeMu, flags, handles, devices, claimed>> /\ dpc' = [dpc EXCEPT ![a] = "returned"]
      BY <1>1, <2>1 DEF ClaimHandles
    <3>2. DivertTypeOK'
      BY <1>1, <2>1, <3>1 DEF ClaimHandles
    <3>3. LockHeld'
      BY <1>1, <2>1, <3>1 DEF ClaimHandles
    <3>4. Claims'
      BY <1>1, <2>1, <3>1 DEF ClaimHandles
    <3>5. Owned'
      BY <1>1, <2>1, <3>1 DEF ClaimHandles
    <3>6. SetupOrder'
      BY <1>1, <2>1, <3>1 DEF ClaimHandles
    <3>7. Settled'
      BY <1>1, <2>1, <3>1 DEF ClaimHandles
    <3>8. RulesHaveReader'
      BY <1>1, <2>1, <3>1 DEF ClaimHandles
    <3> QED BY <3>2, <3>3, <3>4, <3>5, <3>6, <3>7, <3>8
  <2>2. CASE handles # {}
    <3>1. /\ lifeMu' = a /\ handles' = {} /\ claimed' = [claimed EXCEPT ![a] = handles]
          /\ dpc' = [dpc EXCEPT ![a] = "tdFlush"] /\ UNCHANGED <<flags, devices>>
      BY <1>1, <2>2 DEF ClaimHandles
    <3>2. DivertTypeOK'
      BY <1>1, <2>2, <3>1 DEF ClaimHandles
    <3>3. LockHeld'
      BY <1>1, <2>2, <3>1 DEF ClaimHandles
    <3>4. Claims'
      BY <1>1, <2>2, <3>1 DEF ClaimHandles
    <3>5. Owned'
      BY <1>1, <2>2, <3>1 DEF ClaimHandles
    <3>6. SetupOrder'
      BY <1>1, <2>2, <3>1 DEF ClaimHandles
    <3>7. Settled'
      BY <1>1, <2>2, <3>1 DEF ClaimHandles
    <3>8. RulesHaveReader'
      BY <1>1, <2>2, <3>1 DEF ClaimHandles
    <3> QED BY <3>2, <3>3, <3>4, <3>5, <3>6, <3>7, <3>8
  <2> QED BY <2>1, <2>2
<1>2. CASE FlushSteering(a)
  <2>1. DivertTypeOK'
    <3>1. /\ steering' \in {"none", "loaded", "stray"} /\ ref' \in BOOLEAN
          /\ pflog' \in {"none", "open", "unread"}
          /\ refused' \subseteq {"flush", "release", "destroy"}
      BY <1>2 DEF FlushSteering
    <3>2. /\ lifeMu' \in Actor \cup {NoOne}
          /\ closed' \in BOOLEAN /\ cancelled' \in BOOLEAN
          /\ running' \in BOOLEAN /\ done' \in BOOLEAN
          /\ handles' \subseteq Handle /\ claimed' \in [Actor -> SUBSET Handle]
      BY <1>2 DEF FlushSteering
    <3>3. dpc' \in [Actor -> StartPc \cup CloserPc \cup ReloaderPc]
      BY <1>2 DEF FlushSteering
    <3>4. dpc'["start"] \in StartPc
      BY <1>2 DEF FlushSteering
    <3>5. \A c \in Closer : dpc'[c] \in CloserPc
      BY <1>2 DEF FlushSteering
    <3>6. \A r \in Reloader : dpc'[r] \in ReloaderPc
      BY <1>2 DEF FlushSteering
    <3> QED BY Zenon, <3>1, <3>2, <3>3, <3>4, <3>5, <3>6 DEF DivertTypeOK
  <2>2. LockHeld'
    BY <1>2 DEF FlushSteering
  <2>3. Claims'
    BY <1>2 DEF FlushSteering
  <2>4. Owned'
    BY <1>2 DEF FlushSteering
  <2>5. SetupOrder'
    BY <1>2 DEF FlushSteering
  <2>6. Settled'
    BY <1>2 DEF FlushSteering
  <2>7. RulesHaveReader'
    BY <1>2 DEF FlushSteering
  <2> QED BY <2>1, <2>2, <2>3, <2>4, <2>5, <2>6, <2>7
<1>3. CASE ReleasePF(a)
  <2>1. DivertTypeOK'
    <3>1. /\ steering' \in {"none", "loaded", "stray"} /\ ref' \in BOOLEAN
          /\ pflog' \in {"none", "open", "unread"}
          /\ refused' \subseteq {"flush", "release", "destroy"}
      BY <1>3 DEF ReleasePF
    <3>2. /\ lifeMu' \in Actor \cup {NoOne}
          /\ closed' \in BOOLEAN /\ cancelled' \in BOOLEAN
          /\ running' \in BOOLEAN /\ done' \in BOOLEAN
          /\ handles' \subseteq Handle /\ claimed' \in [Actor -> SUBSET Handle]
      BY <1>3 DEF ReleasePF
    <3>3. dpc' \in [Actor -> StartPc \cup CloserPc \cup ReloaderPc]
      BY <1>3 DEF ReleasePF
    <3>4. dpc'["start"] \in StartPc
      BY <1>3 DEF ReleasePF
    <3>5. \A c \in Closer : dpc'[c] \in CloserPc
      BY <1>3 DEF ReleasePF
    <3>6. \A r \in Reloader : dpc'[r] \in ReloaderPc
      BY <1>3 DEF ReleasePF
    <3> QED BY Zenon, <3>1, <3>2, <3>3, <3>4, <3>5, <3>6 DEF DivertTypeOK
  <2>2. LockHeld'
    BY <1>3 DEF ReleasePF
  <2>3. Claims'
    BY <1>3 DEF ReleasePF
  <2>4. Owned'
    BY <1>3 DEF ReleasePF
  <2>5. SetupOrder'
    BY <1>3 DEF ReleasePF
  <2>6. Settled'
    BY <1>3 DEF ReleasePF
  <2>7. RulesHaveReader'
    BY <1>3 DEF ReleasePF
  <2> QED BY <2>1, <2>2, <2>3, <2>4, <2>5, <2>6, <2>7
<1>4. CASE TeardownClose(a)
  <2>1. DivertTypeOK'
    <3>1. /\ steering' \in {"none", "loaded", "stray"} /\ ref' \in BOOLEAN
          /\ pflog' \in {"none", "open", "unread"}
          /\ refused' \subseteq {"flush", "release", "destroy"}
      BY <1>4 DEF TeardownClose
    <3>2. /\ lifeMu' \in Actor \cup {NoOne}
          /\ closed' \in BOOLEAN /\ cancelled' \in BOOLEAN
          /\ running' \in BOOLEAN /\ done' \in BOOLEAN
          /\ handles' \subseteq Handle /\ claimed' \in [Actor -> SUBSET Handle]
      BY <1>4 DEF TeardownClose
    <3>3. dpc' \in [Actor -> StartPc \cup CloserPc \cup ReloaderPc]
      BY <1>4 DEF TeardownClose
    <3>4. dpc'["start"] \in StartPc
      BY <1>4 DEF TeardownClose
    <3>5. \A c \in Closer : dpc'[c] \in CloserPc
      BY <1>4 DEF TeardownClose
    <3>6. \A r \in Reloader : dpc'[r] \in ReloaderPc
      BY <1>4 DEF TeardownClose
    <3> QED BY Zenon, <3>1, <3>2, <3>3, <3>4, <3>5, <3>6 DEF DivertTypeOK
  <2>2. LockHeld'
    BY <1>4 DEF TeardownClose
  <2>3. Claims'
    BY <1>4 DEF TeardownClose
  <2>4. Owned'
    BY <1>4 DEF TeardownClose
  <2>5. SetupOrder'
    BY <1>4 DEF TeardownClose
  <2>6. Settled'
    BY <1>4 DEF TeardownClose
  <2>7. RulesHaveReader'
    BY <1>4 DEF TeardownClose
  <2> QED BY <2>1, <2>2, <2>3, <2>4, <2>5, <2>6, <2>7
<1> QED BY <1>1, <1>2, <1>3, <1>4 DEF Teardown

(* A Reload: rules that it loads with no handle left are "stray".          *)
LEMMA ReloadKeepsLifeInv ==
    ASSUME LifeInv, NEW r \in Reloader, Reload(r)
    PROVE  LifeInv'
<1> USE ActorAssumption
        DEF LifeInv, DivertTypeOK, LockHeld, Claims, Owned, SetupOrder, Settled, RulesHaveReader,
            Critical, Actor, Handle, StartPc, CloserPc, ReloaderPc, SetupPc, TeardownPc,
            DivertGoto, flags, devices
<1>1. CASE ReloadRead(r)
  <2>1. DivertTypeOK'
    BY <1>1 DEF ReloadRead
  <2>2. LockHeld'
    BY <1>1 DEF ReloadRead
  <2>3. Claims'
    BY <1>1 DEF ReloadRead
  <2>4. Owned'
    BY <1>1 DEF ReloadRead
  <2>5. SetupOrder'
    BY <1>1 DEF ReloadRead
  <2>6. Settled'
    BY <1>1 DEF ReloadRead
  <2>7. RulesHaveReader'
    BY <1>1 DEF ReloadRead
  <2> QED BY <2>1, <2>2, <2>3, <2>4, <2>5, <2>6, <2>7
<1>2. CASE ReloadRender(r)
  <2>1. DivertTypeOK'
    BY <1>2 DEF ReloadRender
  <2>2. LockHeld'
    BY <1>2 DEF ReloadRender
  <2>3. Claims'
    BY <1>2 DEF ReloadRender
  <2>4. Owned'
    BY <1>2 DEF ReloadRender
  <2>5. SetupOrder'
    BY <1>2 DEF ReloadRender
  <2>6. Settled'
    BY <1>2 DEF ReloadRender
  <2>7. RulesHaveReader'
    BY <1>2 DEF ReloadRender
  <2> QED BY <2>1, <2>2, <2>3, <2>4, <2>5, <2>6, <2>7
<1>3. CASE ReloadLoad(r)
  <2>1. DivertTypeOK'
    BY <1>3 DEF ReloadLoad
  <2>2. LockHeld'
    BY <1>3 DEF ReloadLoad
  <2>3. Claims'
    BY <1>3 DEF ReloadLoad
  <2>4. Owned'
    BY <1>3 DEF ReloadLoad
  <2>5. SetupOrder'
    BY <1>3 DEF ReloadLoad
  <2>6. Settled'
    BY <1>3 DEF ReloadLoad
  <2>7. RulesHaveReader'
    BY <1>3 DEF ReloadLoad
  <2> QED BY <2>1, <2>2, <2>3, <2>4, <2>5, <2>6, <2>7
<1> QED BY <1>1, <1>2, <1>3 DEF Reload

LEMMA StutterKeepsLifeInv ==
    ASSUME LifeInv, UNCHANGED divertVars
    PROVE  LifeInv'
  BY DEF LifeInv, DivertTypeOK, LockHeld, Claims, Owned, SetupOrder, Settled, RulesHaveReader,
         Critical, divertVars

(* Every step keeps the inductive invariant.                               *)
THEOREM LifeInvHolds == DivertSpec => []LifeInv
<1>1. ASSUME LifeInv, [DivertNext]_divertVars PROVE LifeInv'
  <2>1. CASE Start
    BY <1>1, <2>1, SetupKeepsLifeInv, RunKeepsLifeInv, TeardownKeepsLifeInv DEF Start
  <2>2. CASE RunDies \/ Cancel
    BY <1>1, <2>2, RunKeepsLifeInv
  <2>3. ASSUME NEW c \in Closer, Close(c) \/ Closing(c) PROVE LifeInv'
    BY <1>1, <2>3, RunKeepsLifeInv, TeardownKeepsLifeInv DEF Closing
  <2>4. ASSUME NEW r \in Reloader, Reload(r) PROVE LifeInv'
    BY <1>1, <2>4, ReloadKeepsLifeInv
  <2>5. CASE UNCHANGED divertVars
    BY <1>1, <2>5, StutterKeepsLifeInv
  <2> QED BY <1>1, <2>1, <2>2, <2>3, <2>4, <2>5 DEF DivertNext
<1> QED BY InitLifeInv, <1>1, PTL DEF DivertSpec

(* While rules of this transport are loaded the pflog interface they hand   *)
(* packets to is open, whatever else fails and whoever closes, unless pf has *)
(* refused to flush them.                                                  *)
THEOREM NoBlackHole == DivertSpec => []RulesHaveReader
<1>1. LifeInv => RulesHaveReader
  BY DEF LifeInv
<1> QED BY LifeInvHolds, <1>1, PTL

(* When Start returns, nothing that was installed under a handle is left but *)
(* what a failing call of the teardown left.                               *)
THEOREM StartUndoes == DivertSpec => []ReturnedMeansUndone
<1>1. LifeInv => ReturnedMeansUndone
  BY DEF LifeInv, DivertTypeOK, Owned, Settled, ReturnedMeansUndone, Installed
<1> QED BY LifeInvHolds, <1>1, PTL

(* Nothing is installed after a Close has returned, wherever setup was, but  *)
(* what a failing call of the teardown left.                               *)
THEOREM CloseIsFinal == DivertSpec => []ClosedStaysDown
<1>1. LifeInv => ClosedStaysDown
  BY DEF LifeInv, DivertTypeOK, Owned, Settled, ClosedStaysDown, Installed
<1> QED BY LifeInvHolds, <1>1, PTL

(* Nothing of the transport is left by a Start that has returned or by a Close, *)
(* wherever setup was, but what a failing call of the teardown left.            *)
THEOREM DivertLeavesNothing == DivertSpec => []NothingLeft
<1>1. ReturnedMeansUndone /\ ClosedStaysDown => NothingLeft
  BY DEF NothingLeft
<1> QED BY StartUndoes, CloseIsFinal, <1>1, PTL

------------------------------------------------------------------------------
(***************************************************************************)
(* Proof that the undo stack of the proxy transports is complete.          *)
(*                                                                         *)
(* What is installed is covered: an undo step for it is on a stack or in   *)
(* the hands of an actor. That alone does not bring it down; the second    *)
(* half is that nobody is left holding steps when everything has returned. *)
(* A transport that was closed, but not in the middle of its setup, has    *)
(* pushed its last step, and the Close that marked it takes the stack.     *)
(***************************************************************************)

Covered ==
    /\ \A g \in Gen : /\ dev[g].open => Pending(g, "listener")
                      /\ dev[g].devpf => Pending(g, "devpf")
    /\ pf.ref => "ref" \in stuck \/ \E g \in Gen : Pending(g, "ref")
    /\ pf.rules => \/ "rules" \in stuck \/ overtaken # {}
                   \/ \E g \in Gen : Pending(g, "rules")

Held ==
    \A g \in Gen :
        /\ \A a \in ProxyActor : undoing[g][a] # {} => ppc[g][a] = "unwind"
        /\ ppc[g]["session"] # "idle" => tr[g].closed
        /\ tr[g].closed => ppc[g]["start"] \notin ProxySetupPc \/ g \in overtaken
        /\ tr[g].closed /\ tr[g].undo # {} =>
              g \in overtaken \/ \E a \in Stopper : ppc[g][a] = "wait"

StackInv == ProxyTypeOK /\ Covered /\ Held

-----------------------------------------------------------------------------
(* Nothing is installed and nothing is held.                               *)
LEMMA InitStackInv == ProxyInit => StackInv
  BY ProxyAssumption DEF ProxyInit, StackInv, ProxyTypeOK, Covered, Held, Pending, Gen, Step,
     ProxyActor, Stopper, ProxyStartPc, ProxySetupPc, ProxyCloserPc, RelayAt, PcOK, Transports, Devices

(* What was covered stays covered while no step is lost and nothing comes   *)
(* up without one.                                                         *)
LEMMA StillCovered ==
  ASSUME Covered,
         \A h \in Gen, s \in Step : Pending(h, s) => Pending(h, s)',
         \A h \in Gen : /\ dev'[h].open => dev[h].open \/ Pending(h, "listener")'
                        /\ dev'[h].devpf => dev[h].devpf \/ Pending(h, "devpf")',
         pf'.ref => pf.ref \/ \E h \in Gen : Pending(h, "ref")',
         pf'.rules => pf.rules \/ overtaken' # {} \/ \E h \in Gen : Pending(h, "rules")',
         stuck \subseteq stuck', overtaken \subseteq overtaken'
  PROVE  Covered'
<1>1. ASSUME NEW h \in Gen
      PROVE  /\ dev'[h].open => Pending(h, "listener")'
             /\ dev'[h].devpf => Pending(h, "devpf")'
  BY DEF Covered, Step
<1>2. pf'.ref => "ref" \in stuck' \/ \E h \in Gen : Pending(h, "ref")'
  BY DEF Covered, Step
<1>3. pf'.rules => "rules" \in stuck' \/ overtaken' # {} \/ \E h \in Gen : Pending(h, "rules")'
  BY DEF Covered, Step
<1> QED BY <1>1, <1>2, <1>3 DEF Covered

(* One actor moves.                                                        *)
LEMMA Moves ==
  ASSUME PcOK, NEW g \in Gen, NEW a \in ProxyActor, NEW l, ProxyGoto(g, a, l),
         IF a = "start" THEN l \in ProxyStartPc ELSE l \in ProxyCloserPc
  PROVE  /\ PcOK'
         /\ \A h \in Gen, b \in ProxyActor : ppc'[h][b] = IF h = g /\ b = a THEN l ELSE ppc[h][b]
<1>1. \A h \in Gen, b \in ProxyActor : ppc'[h][b] = IF h = g /\ b = a THEN l ELSE ppc[h][b]
  BY DEF ProxyGoto, PcOK
<1>2. ppc' \in [Gen -> [ProxyActor -> ProxyStartPc \cup ProxyCloserPc]]
  BY DEF ProxyGoto, PcOK
<1> QED BY <1>1, <1>2 DEF PcOK, ProxyActor, Stopper

(* Setup pushes the step for what it brings up. *)
LEMMA Pushes ==
  ASSUME ProxyTypeOK, NEW g \in Gen, NEW s \in Step, NEW t \in Transports,
         t.closed = tr[g].closed, t.undo = tr[g].undo \cup {s},
         tr' = [tr EXCEPT ![g] = t], undoing' = undoing
  PROVE  /\ tr' \in [Gen -> Transports]
         /\ \A h \in Gen : tr'[h].closed = tr[h].closed
         /\ \A h \in Gen \ {g} : tr'[h].undo = tr[h].undo
         /\ \A h \in Gen, u \in Step : Pending(h, u) => Pending(h, u)'
         /\ Pending(g, s)'
<1>1. \A h \in Gen : tr'[h] = IF h = g THEN t ELSE tr[h]
  BY DEF ProxyTypeOK
<1>2. tr' \in [Gen -> Transports]
  BY DEF ProxyTypeOK
<1>3. \A h \in Gen, u \in Step : Pending(h, u) => Pending(h, u)'
  BY <1>1 DEF Pending
<1>4. Pending(g, s)'
  BY <1>1 DEF Pending
<1> QED BY <1>1, <1>2, <1>3, <1>4

(* Start begins with nothing installed and nothing to undo.                *)
LEMMA BeginKeeps ==
  ASSUME StackInv, NEW g \in Gen, BeginProxy(g)
  PROVE  StackInv'
  BY DEF StackInv, BeginProxy, ProxyTypeOK, PcOK, Covered, Held, Pending, ProxyGoto, ProxyActor, Stopper,
         Step, history, ProxyStartPc, ProxySetupPc, ProxyCloserPc

(* The listener comes up with its step.                                    *)
LEMMA ListenKeeps ==
  ASSUME StackInv, NEW g \in Gen, Listen(g)
  PROVE  StackInv'
<1> DEFINE t == [tr[g] EXCEPT !.lns = TRUE, !.undo = @ \cup {"listener"}]
<1> USE DEF StackInv
<1>1. t \in Transports /\ t.closed = tr[g].closed /\ t.undo = tr[g].undo \cup {"listener"}
  <2>1. tr[g] \in Transports
    BY DEF ProxyTypeOK
  <2> QED BY <2>1 DEF Transports, Step
<1>2. tr' = [tr EXCEPT ![g] = t] /\ undoing' = undoing
  BY DEF Listen, ProxyTypeOK, Transports
<1> HIDE DEF t
<1>3. /\ tr' \in [Gen -> Transports]
      /\ \A h \in Gen : tr'[h].closed = tr[h].closed
      /\ \A h \in Gen \ {g} : tr'[h].undo = tr[h].undo
      /\ \A h \in Gen, u \in Step : Pending(h, u) => Pending(h, u)'
      /\ Pending(g, "listener")'
  BY <1>1, <1>2, Pushes DEF Step
<1>4. PcOK'
  BY DEF Listen, ProxyGoto, ProxyTypeOK, PcOK, ProxyActor, Stopper, ProxyStartPc, ProxySetupPc, ProxyCloserPc
<1>5. ProxyTypeOK'
  <2>1. dev' \in [Gen -> Devices]
    <3>1. dev[g] \in Devices
      BY DEF ProxyTypeOK
    <3>2. /\ [dev[g] EXCEPT !.open = TRUE] \in Devices
          /\ [dev[g] EXCEPT !.devpf = TRUE] \in Devices
      BY <3>1 DEF Devices
    <3> QED BY <3>2 DEF Listen, ProxyTypeOK
  <2> QED BY <1>3, <1>4, <2>1 DEF Listen, history, ProxyTypeOK
<1>6. /\ \A h \in Gen : dev'[h].devpf => dev[h].devpf
      /\ \A h \in Gen : dev'[h].open => dev[h].open \/ h = g
  BY DEF Listen, ProxyTypeOK, Devices
<1>7. Covered'
  <2>1. pf' = pf /\ stuck' = stuck /\ overtaken' = overtaken
    BY DEF Listen, history
  <2> QED BY <1>3, <1>6, <2>1, StillCovered
<1>8. Held'
  BY <1>2, <1>3 DEF Listen, ProxyGoto, history, Held, ProxyTypeOK, PcOK, ProxyActor, Stopper, ProxySetupPc
<1> QED BY <1>5, <1>7, <1>8

(* The descriptor comes up with its step.                                  *)
LEMMA OpenLookupKeeps ==
  ASSUME StackInv, NEW g \in Gen, OpenLookup(g)
  PROVE  StackInv'
<1> DEFINE t == [tr[g] EXCEPT !.wired = TRUE, !.undo = @ \cup {"devpf"}]
<1> USE DEF StackInv
<1>1. t \in Transports /\ t.closed = tr[g].closed /\ t.undo = tr[g].undo \cup {"devpf"}
  <2>1. tr[g] \in Transports
    BY DEF ProxyTypeOK
  <2> QED BY <2>1 DEF Transports, Step
<1>2. tr' = [tr EXCEPT ![g] = t] /\ undoing' = undoing
  BY DEF OpenLookup, ProxyTypeOK, Transports
<1> HIDE DEF t
<1>3. /\ tr' \in [Gen -> Transports]
      /\ \A h \in Gen : tr'[h].closed = tr[h].closed
      /\ \A h \in Gen \ {g} : tr'[h].undo = tr[h].undo
      /\ \A h \in Gen, u \in Step : Pending(h, u) => Pending(h, u)'
      /\ Pending(g, "devpf")'
  BY <1>1, <1>2, Pushes DEF Step
<1>4. PcOK'
  BY DEF OpenLookup, ProxyGoto, ProxyTypeOK, PcOK, ProxyActor, Stopper, ProxyStartPc, ProxySetupPc, ProxyCloserPc
<1>5. ProxyTypeOK'
  <2>1. dev' \in [Gen -> Devices]
    <3>1. dev[g] \in Devices
      BY DEF ProxyTypeOK
    <3>2. /\ [dev[g] EXCEPT !.open = TRUE] \in Devices
          /\ [dev[g] EXCEPT !.devpf = TRUE] \in Devices
      BY <3>1 DEF Devices
    <3> QED BY <3>2 DEF OpenLookup, ProxyTypeOK
  <2> QED BY <1>3, <1>4, <2>1 DEF OpenLookup, history, ProxyTypeOK
<1>6. /\ \A h \in Gen : dev'[h].open => dev[h].open
      /\ \A h \in Gen : dev'[h].devpf => dev[h].devpf \/ h = g
  BY DEF OpenLookup, ProxyTypeOK, Devices
<1>7. Covered'
  <2>1. pf' = pf /\ stuck' = stuck /\ overtaken' = overtaken
    BY DEF OpenLookup, history
  <2> QED BY <1>3, <1>6, <2>1, StillCovered
<1>8. Held'
  BY <1>2, <1>3 DEF OpenLookup, ProxyGoto, history, Held, ProxyTypeOK, PcOK, ProxyActor, Stopper, ProxySetupPc
<1> QED BY <1>5, <1>7, <1>8

(* The reference is taken with its step.                                   *)
LEMMA EnablePFKeeps ==
  ASSUME StackInv, NEW g \in Gen, HoldPF(g)
  PROVE  StackInv'
<1> DEFINE t == [tr[g] EXCEPT !.undo = @ \cup {"ref"}]
<1> USE DEF StackInv
<1>1. t \in Transports /\ t.closed = tr[g].closed /\ t.undo = tr[g].undo \cup {"ref"}
  <2>1. tr[g] \in Transports
    BY DEF ProxyTypeOK
  <2> QED BY <2>1 DEF Transports, Step
<1>2. tr' = [tr EXCEPT ![g] = t] /\ undoing' = undoing
  BY DEF HoldPF, ProxyTypeOK, Transports
<1> HIDE DEF t
<1>3. /\ tr' \in [Gen -> Transports]
      /\ \A h \in Gen : tr'[h].closed = tr[h].closed
      /\ \A h \in Gen \ {g} : tr'[h].undo = tr[h].undo
      /\ \A h \in Gen, u \in Step : Pending(h, u) => Pending(h, u)'
      /\ Pending(g, "ref")'
  BY <1>1, <1>2, Pushes DEF Step
<1>4. PcOK'
  BY DEF HoldPF, ProxyGoto, ProxyTypeOK, PcOK, ProxyActor, Stopper, ProxyStartPc, ProxySetupPc, ProxyCloserPc
<1>5. ProxyTypeOK'
  BY <1>3, <1>4 DEF HoldPF, history, ProxyTypeOK, Devices
<1>6. dev' = dev /\ pf'.rules = pf.rules /\ stuck' = stuck /\ overtaken' = overtaken
  BY DEF HoldPF, history, ProxyTypeOK
<1>7. Covered'
  BY <1>3, <1>6, StillCovered
<1>8. Held'
  BY <1>2, <1>3 DEF HoldPF, ProxyGoto, history, Held, ProxyTypeOK, PcOK, ProxyActor, Stopper, ProxySetupPc
<1> QED BY <1>5, <1>7, <1>8

(* The rules are loaded with their step.                                   *)
LEMMA LoadRulesKeeps ==
  ASSUME StackInv, NEW g \in Gen, LoadRedirects(g)
  PROVE  StackInv'
<1> DEFINE t == [tr[g] EXCEPT !.undo = @ \cup {"rules"}]
<1> USE DEF StackInv
<1>1. t \in Transports /\ t.closed = tr[g].closed /\ t.undo = tr[g].undo \cup {"rules"}
  <2>1. tr[g] \in Transports
    BY DEF ProxyTypeOK
  <2> QED BY <2>1 DEF Transports, Step
<1>2. tr' = [tr EXCEPT ![g] = t] /\ undoing' = undoing
  BY DEF LoadRedirects, ProxyTypeOK, Transports
<1> HIDE DEF t
<1>3. /\ tr' \in [Gen -> Transports]
      /\ \A h \in Gen : tr'[h].closed = tr[h].closed
      /\ \A h \in Gen \ {g} : tr'[h].undo = tr[h].undo
      /\ \A h \in Gen, u \in Step : Pending(h, u) => Pending(h, u)'
      /\ Pending(g, "rules")'
  BY <1>1, <1>2, Pushes DEF Step
<1>4. PcOK'
  BY DEF LoadRedirects, ProxyGoto, ProxyTypeOK, PcOK, ProxyActor, Stopper, ProxyStartPc, ProxySetupPc, ProxyCloserPc
<1>5. ProxyTypeOK'
  BY <1>3, <1>4 DEF LoadRedirects, history, ProxyTypeOK, Devices
<1>6. dev' = dev /\ pf'.ref = pf.ref /\ stuck' = stuck /\ overtaken' = overtaken
  BY DEF LoadRedirects, history, ProxyTypeOK
<1>7. Covered'
  BY <1>3, <1>6, StillCovered
<1>8. Held'
  BY <1>2, <1>3 DEF LoadRedirects, ProxyGoto, history, Held, ProxyTypeOK, PcOK, ProxyActor, Stopper, ProxySetupPc
<1> QED BY <1>5, <1>7, <1>8

-----------------------------------------------------------------------------
(* An actor that takes the stack had nothing in its hands, and holds it     *)
(* where unwind works it off.                                              *)
LEMMA TakeUndoKeeps ==
  ASSUME StackInv, NEW g \in Gen, NEW a \in ProxyActor, ppc[g][a] # "unwind", TakeUndo(g, a),
         a = "session" => ppc[g][a] # "idle",
         UNCHANGED <<dev, pf, ended, reload, conn, history>>
  PROVE  StackInv'
<1> USE DEF StackInv
<1>1. undoing[g][a] = {}
  BY DEF Held
<1>2. tr[g] \in Transports
  BY DEF ProxyTypeOK
<1>3. /\ [tr[g] EXCEPT !.undo = {}] \in Transports
      /\ [tr[g] EXCEPT !.undo = {}].undo = {}
      /\ [tr[g] EXCEPT !.undo = {}].closed = tr[g].closed
      /\ tr[g].undo \in SUBSET Step
  BY <1>2 DEF Transports
<1> DEFINE t == [tr[g] EXCEPT !.undo = {}]
<1>4. tr' = [tr EXCEPT ![g] = t]
  BY DEF TakeUndo, ProxyTypeOK
<1>5. t \in Transports /\ t.undo = {} /\ t.closed = tr[g].closed
  BY <1>3
<1> HIDE DEF t
<1>6. \A h \in Gen : tr'[h] = IF h = g THEN t ELSE tr[h]
  BY <1>4 DEF ProxyTypeOK
<1>7. \A h \in Gen, b \in ProxyActor :
         undoing'[h][b] = IF h = g /\ b = a THEN tr[g].undo ELSE undoing[h][b]
  BY DEF TakeUndo, ProxyTypeOK
<1>8. \A h \in Gen, s \in Step : Pending(h, s) => Pending(h, s)'
  BY <1>1, <1>5, <1>6, <1>7 DEF Pending
<1>9. dev' = dev /\ pf' = pf /\ stuck' = stuck /\ overtaken' = overtaken
  BY DEF history
<1>10. Covered'
  BY <1>8, <1>9, StillCovered
<1>11. /\ PcOK'
       /\ \A h \in Gen, b \in ProxyActor :
            ppc'[h][b] = IF h = g /\ b = a THEN "unwind" ELSE ppc[h][b]
  BY Moves DEF TakeUndo, ProxyTypeOK, ProxyStartPc, ProxyCloserPc
<1>12. ProxyTypeOK'
  <2>1. tr' \in [Gen -> Transports]
    BY <1>4, <1>5 DEF ProxyTypeOK
  <2>2. undoing' \in [Gen -> [ProxyActor -> SUBSET Step]]
    BY <1>3 DEF TakeUndo, ProxyTypeOK
  <2> QED BY <2>1, <2>2, <1>11 DEF ProxyTypeOK, history
<1>13. Held'
  <2> SUFFICES ASSUME NEW h \in Gen
      PROVE  /\ \A b \in ProxyActor : undoing'[h][b] # {} => ppc'[h][b] = "unwind"
             /\ ppc'[h]["session"] # "idle" => tr'[h].closed
             /\ tr'[h].closed => ppc'[h]["start"] \notin ProxySetupPc \/ h \in overtaken'
             /\ tr'[h].closed /\ tr'[h].undo # {} =>
                   h \in overtaken' \/ \E b \in Stopper : ppc'[h][b] = "wait"
    BY DEF Held
  <2>1. \A b \in ProxyActor : undoing'[h][b] # {} => ppc'[h][b] = "unwind"
    BY <1>7, <1>11 DEF Held
  <2>2. tr'[h].closed = tr[h].closed
    BY <1>5, <1>6
  <2>3. ppc'[h]["session"] # "idle" => tr'[h].closed
    <3>1. CASE h = g /\ a = "session"
      BY <2>2, <3>1 DEF Held
    <3>2. CASE ~(h = g /\ a = "session")
      BY <1>11, <2>2, <3>2 DEF Held, ProxyActor, Stopper
    <3> QED BY <3>1, <3>2
  <2>4. tr'[h].closed => ppc'[h]["start"] \notin ProxySetupPc \/ h \in overtaken'
    <3>1. ppc'[h]["start"] = "unwind" \/ ppc'[h]["start"] = ppc[h]["start"]
      BY <1>11 DEF ProxyActor
    <3> QED BY <1>9, <2>2, <3>1 DEF Held, ProxySetupPc
  <2>5. tr'[h].closed /\ tr'[h].undo # {} =>
           h \in overtaken' \/ \E b \in Stopper : ppc'[h][b] = "wait"
    BY <1>5, <1>6, <1>9, <1>11, <2>2 DEF Held, ProxyActor, Stopper
  <2> QED BY <2>1, <2>3, <2>4, <2>5
<1> QED BY <1>10, <1>12, <1>13

(* Start undoes a setup that failed.                                       *)
LEMMA AbortKeeps ==
  ASSUME StackInv, NEW g \in Gen, AbortProxy(g)
  PROVE  StackInv'
  BY TakeUndoKeeps DEF AbortProxy, ProxySetupPc, ProxyActor

(* Close undoes what Start set up.                                         *)
LEMMA CloseWaitedKeeps ==
  ASSUME StackInv, NEW g \in Gen, NEW a \in Stopper, ProxyWaited(g, a)
  PROVE  StackInv'
  BY TakeUndoKeeps DEF ProxyWaited, ProxyActor

-----------------------------------------------------------------------------
(* serve only closes listeners, whose undo step stays on the stack.        *)
LEMMA ServeKeeps ==
  ASSUME StackInv, NEW g \in Gen,
         ServeProxy(g) \/ CloseListeners(g) \/ AcceptEnds(g) \/ AcceptFails(g)
  PROVE  StackInv'
<1> USE DEF StackInv, ServeProxy, CloseListeners, AcceptEnds, AcceptFails, history
<1>1. dev' \in [Gen -> Devices]
  <2>1. dev[g] \in Devices
    BY DEF ProxyTypeOK
  <2>2. [dev[g] EXCEPT !.open = FALSE] \in Devices
    BY <2>1 DEF Devices
  <2> QED BY <2>2 DEF ProxyTypeOK
<1>2. \A h \in Gen : (dev'[h].open => dev[h].open) /\ (dev'[h].devpf => dev[h].devpf)
  BY DEF ProxyTypeOK, Devices
<1>3. tr' = tr /\ undoing' = undoing /\ pf' = pf /\ stuck' = stuck /\ overtaken' = overtaken
  OBVIOUS
<1>4. \A h \in Gen, s \in Step : Pending(h, s) => Pending(h, s)'
  BY <1>3 DEF Pending
<1>5. Covered'
  BY <1>2, <1>3, <1>4, StillCovered
<1>6. PcOK'
  <2>1. ppc' = ppc \/ ProxyGoto(g, "start", "serve") \/ ProxyGoto(g, "start", "returned")
    OBVIOUS
  <2>2. CASE ppc' = ppc
    BY <2>2 DEF ProxyTypeOK, PcOK
  <2> QED BY <2>1, <2>2, Moves DEF ProxyTypeOK, ProxyActor, ProxyStartPc
<1>7. ProxyTypeOK'
  BY <1>1, <1>6 DEF ProxyTypeOK
<1>8. /\ \A h \in Gen, a \in ProxyActor : h # g \/ a # "start" => ppc'[h][a] = ppc[h][a]
      /\ ppc[g]["start"] # "unwind"
      /\ ppc'[g]["start"] \notin ProxySetupPc
  BY DEF ProxyGoto, ProxyTypeOK, PcOK, ProxyActor, Stopper, ProxySetupPc
<1>9. Held'
  BY <1>3, <1>8 DEF Held, ProxyActor, Stopper
<1> QED BY <1>5, <1>7, <1>9

-----------------------------------------------------------------------------
(* The Close that marks a transport closed is the one that waits and takes  *)
(* the stack.                                                              *)
LEMMA CloseKeeps ==
  ASSUME StackInv, NEW g \in Gen, NEW a \in Stopper, CloseProxy(g, a)
  PROVE  StackInv'
<1> USE DEF StackInv
<1>1. PcOK'
  <2>1. ProxyGoto(g, a, "returned") \/ ProxyGoto(g, a, "wait")
    BY DEF CloseProxy
  <2> QED BY <2>1, Moves DEF ProxyTypeOK, ProxyActor, Stopper, ProxyCloserPc
<1>2. CASE tr[g].closed
  <2>1. /\ tr' = tr /\ dev' = dev /\ overtaken' = overtaken
        /\ pf' = pf /\ undoing' = undoing /\ stuck' = stuck
    BY <1>2 DEF CloseProxy
  <2>2. ProxyTypeOK'
    BY <1>1, <2>1 DEF CloseProxy, ProxyTypeOK
  <2>3. Covered'
    BY <2>1 DEF Covered, Pending
  <2>4. /\ \A h \in Gen, b \in ProxyActor : h # g \/ b # a => ppc'[h][b] = ppc[h][b]
        /\ ppc[g][a] = "idle"
    BY DEF CloseProxy, ProxyGoto, ProxyTypeOK, PcOK
  <2>5. Held'
    BY <1>2, <2>1, <2>4 DEF Held, ProxyActor, Stopper
  <2> QED BY <2>2, <2>3, <2>5
<1>3. CASE ~tr[g].closed
  <2> DEFINE t == [tr[g] EXCEPT !.closed = TRUE, !.lns = FALSE]
             d == [dev[g] EXCEPT !.open = @ /\ ~tr[g].lns]
  <2>1. tr' = [tr EXCEPT ![g] = t] /\ dev' = [dev EXCEPT ![g] = d]
    BY <1>3 DEF CloseProxy, ProxyTypeOK
  <2>2. t \in Transports /\ t.undo = tr[g].undo /\ t.closed
    <3>1. tr[g] \in Transports
      BY DEF ProxyTypeOK
    <3> QED BY <3>1 DEF Transports
  <2>3. d \in Devices /\ d.devpf = dev[g].devpf /\ (d.open => dev[g].open)
    <3>1. dev[g] \in Devices
      BY DEF ProxyTypeOK
    <3> QED BY <3>1 DEF Devices
  <2> HIDE DEF t, d
  <2>4. \A h \in Gen : /\ tr'[h] = IF h = g THEN t ELSE tr[h]
                       /\ dev'[h] = IF h = g THEN d ELSE dev[h]
    BY <2>1 DEF ProxyTypeOK
  <2>5. /\ pf' = pf /\ undoing' = undoing /\ stuck' = stuck /\ overtaken \subseteq overtaken'
        /\ ppc[g]["start"] \in ProxySetupPc => g \in overtaken'
        /\ overtaken' \subseteq overtaken \cup {g}
    BY <1>3 DEF CloseProxy
  <2>6. ProxyTypeOK'
    <3>1. tr' \in [Gen -> Transports] /\ dev' \in [Gen -> Devices]
      BY <2>1, <2>2, <2>3 DEF ProxyTypeOK
    <3> QED BY <1>1, <2>5, <3>1 DEF CloseProxy, ProxyTypeOK
  <2>7. Covered'
    <3>1. \A h \in Gen, s \in Step : Pending(h, s) => Pending(h, s)'
      BY <2>2, <2>4, <2>5 DEF Pending
    <3>2. \A h \in Gen : (dev'[h].open => dev[h].open) /\ (dev'[h].devpf => dev[h].devpf)
      BY <2>3, <2>4
    <3> QED BY <2>5, <3>1, <3>2, StillCovered
  <2>8. \A h \in Gen, b \in ProxyActor :
          ppc'[h][b] = IF h = g /\ b = a THEN "wait" ELSE ppc[h][b]
    BY <1>3 DEF CloseProxy, ProxyGoto, ProxyTypeOK, PcOK
  <2>9. ppc[g][a] = "idle"
    BY DEF CloseProxy
  <2>10. Held'
    BY <2>2, <2>4, <2>5, <2>8, <2>9 DEF Held, ProxyActor, Stopper
  <2> QED BY <2>6, <2>7, <2>10
<1> QED BY <1>2, <1>3

-----------------------------------------------------------------------------
(* Undoing: what leaves the hands of an actor is down, or stuck.            *)
LEMMA UndoKeeps ==
  ASSUME StackInv, NEW g \in Gen, NEW a \in ProxyActor, NEW s \in Step, ppc[g][a] = "unwind",
         undoing' = [undoing EXCEPT ![g][a] = @ \ {s}],
         UNCHANGED <<tr, ended, ppc, reload, conn, overtaken>>,
         dev' \in [Gen -> Devices], pf' \in [ref: BOOLEAN, rules: BOOLEAN],
         stuck \subseteq stuck', stuck' \subseteq Step,
         \A h \in Gen : /\ dev'[h].open => dev[h].open /\ (h # g \/ s # "listener")
                        /\ dev'[h].devpf => dev[h].devpf /\ (h # g \/ s # "devpf"),
         pf'.ref => pf.ref /\ (s # "ref" \/ s \in stuck'),
         pf'.rules => pf.rules /\ (s # "rules" \/ s \in stuck')
  PROVE  StackInv'
<1> USE DEF StackInv
<1>1. \A h \in Gen, b \in ProxyActor :
         undoing'[h][b] = IF h = g /\ b = a THEN undoing[h][b] \ {s} ELSE undoing[h][b]
  BY DEF ProxyTypeOK
<1>2. ProxyTypeOK'
  <2>1. undoing' \in [Gen -> [ProxyActor -> SUBSET Step]]
    BY DEF ProxyTypeOK
  <2> QED BY <2>1 DEF ProxyTypeOK, PcOK
<1>3. \A h \in Gen, u \in Step : Pending(h, u) => Pending(h, u)' \/ (h = g /\ u = s)
  BY <1>1 DEF Pending
<1>4. \A h \in Gen, u \in Step : u # s /\ Pending(h, u) => Pending(h, u)'
  BY <1>1 DEF Pending
<1>5. Covered'
  <2>1. ASSUME NEW h \in Gen
        PROVE  /\ dev'[h].open => Pending(h, "listener")'
               /\ dev'[h].devpf => Pending(h, "devpf")'
    BY <1>3 DEF Covered, Step
  <2>2. pf'.ref => "ref" \in stuck' \/ \E h \in Gen : Pending(h, "ref")'
    BY <1>4 DEF Covered, Step
  <2>3. pf'.rules => "rules" \in stuck' \/ overtaken' # {} \/ \E h \in Gen : Pending(h, "rules")'
    BY <1>4 DEF Covered, Step
  <2> QED BY <2>1, <2>2, <2>3 DEF Covered
<1>6. Held'
  <2>1. \A h \in Gen, b \in ProxyActor : undoing'[h][b] # {} => ppc'[h][b] = "unwind"
    BY <1>1 DEF Held
  <2> QED BY <2>1 DEF Held
<1> QED BY <1>2, <1>5, <1>6

(* unwind works the steps off one by one and keeps going after a failure.  *)
LEMMA UnwindKeeps ==
  ASSUME StackInv, NEW g \in Gen, NEW a \in ProxyActor, Unwind(g, a)
  PROVE  StackInv'
<1> USE DEF StackInv
<1>1. CASE Undo(g, a)
  <2>1. PICK s \in Step :
          /\ undoing' = [undoing EXCEPT ![g][a] = @ \ {s}]
          /\ pf' = [ref |-> pf.ref /\ s # "ref", rules |-> pf.rules /\ s # "rules"]
          /\ dev' = [dev EXCEPT ![g] = [open |-> @.open /\ s # "listener",
                                        devpf |-> @.devpf /\ s # "devpf"]]
    BY <1>1 DEF Undo
  <2> DEFINE d == [open |-> dev[g].open /\ s # "listener", devpf |-> dev[g].devpf /\ s # "devpf"]
  <2>2. d \in Devices
    BY DEF Devices
  <2>3. dev' = [dev EXCEPT ![g] = d]
    BY <2>1
  <2>4. /\ d.open => dev[g].open /\ s # "listener"
        /\ d.devpf => dev[g].devpf /\ s # "devpf"
    OBVIOUS
  <2> HIDE DEF d
  <2>5. dev' \in [Gen -> Devices]
    BY <2>2, <2>3 DEF ProxyTypeOK
  <2>6. \A h \in Gen : /\ dev'[h].open => dev[h].open /\ (h # g \/ s # "listener")
                       /\ dev'[h].devpf => dev[h].devpf /\ (h # g \/ s # "devpf")
    BY <2>3, <2>4 DEF ProxyTypeOK
  <2>7. /\ pf' \in [ref: BOOLEAN, rules: BOOLEAN]
        /\ pf'.ref => pf.ref /\ s # "ref"
        /\ pf'.rules => pf.rules /\ s # "rules"
    BY <2>1
  <2>8. ppc[g][a] = "unwind" /\ stuck' = stuck
        /\ UNCHANGED <<tr, ended, ppc, reload, conn, overtaken>>
    BY <1>1 DEF Undo, history
  <2>9. stuck' \subseteq Step
    BY <2>8 DEF ProxyTypeOK
  <2> QED BY <2>1, <2>5, <2>6, <2>7, <2>8, <2>9, UndoKeeps
<1>2. CASE UndoFails(g, a)
  <2>1. PICK s \in {"ref", "rules"} :
          undoing' = [undoing EXCEPT ![g][a] = @ \ {s}] /\ stuck' = stuck \cup {s}
    BY <1>2 DEF UndoFails
  <2>2. /\ ppc[g][a] = "unwind"
        /\ UNCHANGED <<tr, dev, pf, ended, ppc, reload, conn, overtaken>>
    BY <1>2 DEF UndoFails
  <2>3. s \in Step /\ stuck' \subseteq Step
    BY <2>1 DEF ProxyTypeOK, Step
  <2>4. dev' \in [Gen -> Devices] /\ pf' \in [ref: BOOLEAN, rules: BOOLEAN]
    BY <2>2 DEF ProxyTypeOK
  <2> QED BY <2>1, <2>2, <2>3, <2>4, UndoKeeps
<1>3. CASE Unwound(g, a)
  <2>1. /\ UNCHANGED <<tr, dev, pf, ended, undoing, reload, conn, stuck, overtaken>>
        /\ ppc[g][a] = "unwind" /\ undoing[g][a] = {} /\ ProxyGoto(g, a, "returned")
    BY <1>3 DEF Unwound, history
  <2>2. /\ PcOK'
        /\ \A h \in Gen, b \in ProxyActor : ppc'[h][b] = IF h = g /\ b = a THEN "returned" ELSE ppc[h][b]
    BY <2>1, Moves DEF ProxyTypeOK, ProxyStartPc, ProxyCloserPc
  <2>3. ProxyTypeOK'
    BY <2>1, <2>2 DEF ProxyTypeOK
  <2>4. Covered'
    BY <2>1 DEF Covered, Pending
  <2>5. Held'
    <3>1. \A h \in Gen, b \in ProxyActor : undoing'[h][b] # {} => ppc'[h][b] = "unwind"
      BY <2>1, <2>2 DEF Held
    <3>2. \A h \in Gen : ppc'[h]["session"] # "idle" => ppc[h]["session"] # "idle"
      BY <2>1, <2>2 DEF ProxyActor, Stopper
    <3>3. \A h \in Gen : ppc'[h]["start"] \in ProxySetupPc => ppc[h]["start"] \in ProxySetupPc
      BY <2>1, <2>2 DEF ProxyActor, ProxySetupPc
    <3>4. \A h \in Gen, b \in Stopper : ppc[h][b] = "wait" => ppc'[h][b] = "wait"
      BY <2>1, <2>2 DEF ProxyActor, Stopper
    <3> QED BY <2>1, <3>1, <3>2, <3>3, <3>4 DEF Held
  <2> QED BY <2>3, <2>4, <2>5
<1> QED BY <1>1, <1>2, <1>3 DEF Unwind

-----------------------------------------------------------------------------
(* A Reload that no undo step of its transport covers is on record.         *)
LEMMA ReloadKeeps ==
  ASSUME StackInv, NEW r \in ProxyReloader, ReloadRedirects(r)
  PROVE  StackInv'
<1> USE DEF StackInv
<1>1. UNCHANGED <<tr, dev, ended, undoing, ppc, conn, stuck>>
  BY DEF ReloadRedirects
<1>2. /\ pf' \in [ref: BOOLEAN, rules: BOOLEAN] /\ pf'.ref = pf.ref
      /\ reload[r].gen \in Gen
      /\ reload' \in [ProxyReloader -> [at: {"idle", "load", "returned"}, gen: Gen]]
      /\ overtaken \subseteq overtaken' /\ overtaken' \subseteq Gen
  BY DEF ReloadRedirects, ProxyTypeOK
<1>3. ProxyTypeOK'
  BY <1>1, <1>2 DEF ProxyTypeOK, PcOK
<1>4. \A h \in Gen, s \in Step : Pending(h, s) => Pending(h, s)'
  BY <1>1 DEF Pending
<1>5. pf'.rules => pf.rules \/ overtaken' # {} \/ \E h \in Gen : Pending(h, "rules")'
  BY <1>1, <1>2 DEF ReloadRedirects, Pending
<1>6. Covered'
  BY <1>1, <1>2, <1>4, <1>5, StillCovered
<1>7. Held'
  BY <1>1, <1>2 DEF Held
<1> QED BY <1>3, <1>6, <1>7

(* The rest of the daemon and the relays leave what is installed alone.     *)
LEMMA QuietKeeps ==
  ASSUME StackInv, UNCHANGED <<tr, dev, pf, undoing, ppc, stuck, overtaken>>,
         ended' \subseteq Gen,
         reload' \in [ProxyReloader -> [at: {"idle", "load", "returned"}, gen: Gen]],
         conn' \in [Conn -> [gen: Gen, at: {"absent", "queued", "gone"} \cup RelayAt]]
  PROVE  StackInv'
  BY DEF StackInv, ProxyTypeOK, PcOK, Covered, Held, Pending

(* What a connection does touches none of it.                              *)
LEMMA RelaysKeep ==
  ASSUME StackInv, NEW c \in Conn,
         \/ Connect(c) \/ HandleConn(c) \/ Watchdog(c) \/ ContextDone(c)
         \/ Traffic(c) \/ PeersEnd(c)
  PROVE  StackInv'
<1> USE DEF StackInv
<1>1. CASE Connect(c)
  BY <1>1, QuietKeeps DEF Connect, history, ProxyTypeOK
<1>2. ASSUME NEW place \in {"gone"} \cup RelayAt, Move(c, place)
      PROVE  StackInv'
  BY <1>2, QuietKeeps DEF Move, history, ProxyTypeOK
<1> QED BY <1>1, <1>2 DEF HandleConn, Reset, Accept, ReadDescriptor, AskPF, Dial, FirstPayload,
          Watchdog, ContextDone, Traffic, PeersEnd, RelayAt

-----------------------------------------------------------------------------
(* Every step of every goroutine keeps the invariant.                      *)
LEMMA NextKeeps ==
  ASSUME StackInv, [ProxyNext]_proxyVars
  PROVE  StackInv'
<1>1. ASSUME NEW g \in Gen, ProxyStart(g)
      PROVE  StackInv'
  BY <1>1, BeginKeeps, ListenKeeps, OpenLookupKeeps, EnablePFKeeps, LoadRulesKeeps, AbortKeeps,
     ServeKeeps, UnwindKeeps DEF ProxyStart, ProxyActor
<1>2. ASSUME NEW g \in Gen, CancelProxy(g)
      PROVE  StackInv'
  BY <1>2, QuietKeeps DEF CancelProxy, history, StackInv, ProxyTypeOK
<1>3. ASSUME NEW g \in Gen, NEW a \in Stopper, CloseProxy(g, a) \/ ProxyClosing(g, a)
      PROVE  StackInv'
  BY <1>3, CloseKeeps, CloseWaitedKeeps, UnwindKeeps DEF ProxyClosing, ProxyActor
<1>4. ASSUME NEW r \in ProxyReloader, ReloadSwap(r)
      PROVE  StackInv'
  BY <1>4, QuietKeeps DEF ReloadSwap, history, StackInv, ProxyTypeOK
<1>5. CASE UNCHANGED proxyVars
  BY <1>5, QuietKeeps DEF proxyVars, StackInv, ProxyTypeOK
<1> QED BY <1>1, <1>2, <1>3, <1>4, <1>5, ServeKeeps, ReloadKeeps, RelaysKeep DEF ProxyNext

(* When every transport is over, nobody holds a step and no stack has one.  *)
LEMMA StackInvUndone == StackInv => UndoneUnlessStuck
<1> SUFFICES ASSUME StackInv, \A g \in Gen : Over(g), overtaken = {}
             PROVE  /\ pf.ref => "ref" \in stuck
                    /\ pf.rules => "rules" \in stuck
                    /\ \A g \in Gen : ~dev[g].open /\ ~dev[g].devpf
  BY DEF UndoneUnlessStuck
<1>1. ASSUME NEW g \in Gen, NEW s \in Step
      PROVE  ~Pending(g, s)
  <2>1. \A a \in ProxyActor : undoing[g][a] = {}
    BY DEF StackInv, Held, Over, ProxyActor, Stopper
  <2>2. tr[g].undo = {}
    BY DEF StackInv, Held, Over, Stopper
  <2> QED BY <2>1, <2>2 DEF Pending
<1> QED BY <1>1 DEF StackInv, Covered, Step

(* Start's "nothing here is left behind on a clean stop" (proxy.go): for any *)
(* number of transports, clients and reloads, and whoever closes them, once  *)
(* every transport has returned and been closed, no listener, descriptor,    *)
(* reference or rule of theirs is left, except what its undo step failed on. *)
THEOREM CloseUndoes == ProxySpec => []UndoneUnlessStuck
<1>1. ProxyInit => StackInv
  BY InitStackInv
<1>2. StackInv /\ [ProxyNext]_proxyVars => StackInv'
  BY NextKeeps
<1>3. StackInv => UndoneUnlessStuck
  BY StackInvUndone
<1> QED BY <1>1, <1>2, <1>3, PTL DEF ProxySpec

-----------------------------------------------------------------------------
(***************************************************************************)
(* Rules that redirect have the reference and the descriptor behind them.  *)
(* For one transport that follows from the order of its stack (Sane). Two  *)
(* share the reference: the unwinding of one takes it from the next, if    *)
(* that is set up before the unwinding is over.                            *)
(***************************************************************************)

(* No transport is set up while another goroutine still closes an earlier  *)
(* one. session returns at once from the second of two Closes and goes on; *)
(* with one transport this always holds.                                   *)
Apart ==
    \A g, h \in Gen : h < g /\ ppc[g]["start"] # "idle" => ppc[h]["other"] \in {"idle", "returned"}

Layers(u) == ("rules" \in u => "ref" \in u) /\ ("ref" \in u => "devpf" \in u)
\* A transport that nothing has overtaken: its stack u, what its actors hold
\* (h), where they are (at), and whether its descriptor is open (up).
Sane(u, shut, h, at, up) ==
    /\ Layers(u) /\ \A a \in ProxyActor : Layers(h[a])
    /\ \A a \in ProxyActor : h[a] # {} =>
          u = {} /\ at["start"] \notin ProxySetupPc \cup {"idle"} /\ \A b \in ProxyActor : b # a => h[b] = {}
    /\ at["start"] \in ProxySetupPc => ~shut
    /\ at["start"] \in {"enable", "load", "ready"} => "devpf" \in u
    /\ at["start"] \in {"load", "ready"} => "ref" \in u
    /\ at["start"] = "idle" => u = {}
    /\ \A a \in Stopper : at[a] # "idle" => shut
    /\ ("devpf" \in u \/ \E a \in ProxyActor : "devpf" \in h[a]) => up

SaneAt(g) == Sane(tr[g].undo, tr[g].closed, undoing[g], ppc[g], dev[g].devpf)
Backed == overtaken = {} => \A g \in Gen : SaneAt(g)
\* session builds the next transport when the last has returned and been closed.
Sequential ==
    \A g \in Gen : /\ ppc[g]["session"] # "idle" => ppc[g]["start"] = "returned"
                   /\ ppc[g]["start"] # "idle" => \A h \in Gen : h < g => ppc[h]["session"] = "returned"
Referenced == overtaken = {} => \A g \in Gen : Pending(g, "ref") => pf.ref

TurnInv == StackInv /\ Backed /\ Sequential

LEMMA InitTurnInv == ProxyInit => TurnInv /\ Referenced
<1> SUFFICES ASSUME ProxyInit PROVE Backed /\ Sequential /\ Referenced
  BY InitStackInv DEF TurnInv
<1>1. \A g \in Gen : SaneAt(g)
  BY DEF ProxyInit, SaneAt, Sane, Layers, ProxyActor, Stopper, ProxySetupPc
<1>2. \A g \in Gen : ~Pending(g, "ref")
  BY DEF ProxyInit, Pending
<1> QED BY <1>1, <1>2 DEF ProxyInit, Backed, Sequential, Referenced, ProxyActor, Stopper

(* One transport moves, the others stay.                                   *)
LEMMA OneMoves ==
  ASSUME Backed, NEW g \in Gen, overtaken \subseteq overtaken',
         \A h \in Gen : h # g => /\ tr'[h] = tr[h] /\ undoing'[h] = undoing[h] /\ ppc'[h] = ppc[h]
                                 /\ dev'[h].devpf = dev[h].devpf,
         overtaken' = {} => SaneAt(g)'
  PROVE  Backed'
<1> SUFFICES ASSUME overtaken' = {}, NEW h \in Gen PROVE SaneAt(h)'
  BY DEF Backed
<1>1. SaneAt(h)
  BY DEF Backed
<1>2. CASE h # g
  BY <1>1, <1>2 DEF SaneAt
<1> QED BY <1>2

(* An actor moves: where the others are, and the order of the transports.  *)
LEMMA ActorMoves ==
  ASSUME StackInv, Sequential, NEW g \in Gen, NEW a \in ProxyActor, NEW l, ProxyGoto(g, a, l),
         a = "start" => ppc[g][a] # "returned" /\ l # "idle",
         a = "start" /\ ppc[g][a] = "idle" => Built(g),
         a = "session" => /\ ppc[g][a] # "returned" \/ l = "returned"
                          /\ ppc[g]["start"] = "returned"
  PROVE  /\ Sequential'
         /\ \A h \in Gen : h # g => ppc'[h] = ppc[h]
         /\ \A b \in ProxyActor : ppc'[g][b] = IF b = a THEN l ELSE ppc[g][b]
<1>1. \A h \in Gen, b \in ProxyActor : ppc'[h][b] = IF h = g /\ b = a THEN l ELSE ppc[h][b]
  BY DEF ProxyGoto, StackInv, ProxyTypeOK, PcOK
<1>2. \A h \in Gen : h # g => ppc'[h] = ppc[h]
  BY DEF ProxyGoto, StackInv, ProxyTypeOK, PcOK
<1>3. "start" \in ProxyActor /\ "session" \in ProxyActor /\ "start" # "session"
  BY DEF ProxyActor, Stopper
<1>4. Sequential'
  <2> SUFFICES ASSUME NEW h \in Gen
               PROVE  /\ ppc'[h]["session"] # "idle" => ppc'[h]["start"] = "returned"
                      /\ ppc'[h]["start"] # "idle" => \A k \in Gen : k < h => ppc'[k]["session"] = "returned"
    BY DEF Sequential
  <2>1. ppc'[h]["session"] # "idle" => ppc'[h]["start"] = "returned"
    BY <1>1, <1>3 DEF Sequential
  <2>2. ppc'[h]["start"] # "idle" => \A k \in Gen : k < h => ppc'[k]["session"] = "returned"
    BY <1>1, <1>3 DEF Sequential, Built
  <2> QED BY <2>1, <2>2
<1> QED BY <1>1, <1>2, <1>4

(* Setup and serve: where Start goes, and what its step pushes.            *)
LEMMA StartMoves ==
  ASSUME TurnInv, NEW g \in Gen, NEW l \in ProxyStartPc, NEW push \in SUBSET Step,
         ProxyGoto(g, "start", l), undoing' = undoing, overtaken' = overtaken, l # "idle",
         ppc[g]["start"] \notin {"returned", "unwind"},
         ppc[g]["start"] = "idle" => Built(g) /\ l \in {"listen", "returned"},
         ppc[g]["start"] = "idle" /\ l = "listen" => ~tr[g].closed,
         l \in ProxySetupPc => ppc[g]["start"] \in ProxySetupPc \cup {"idle"},
         l = "enable" => push = {"devpf"},
         l = "load" => push = {"ref"} /\ ppc[g]["start"] = "enable",
         l = "ready" => push = {"rules"} /\ ppc[g]["start"] = "load",
         l = "lookup" => push = {"listener"},
         l \notin {"lookup", "enable", "load", "ready"} => push = {},
         \A h \in Gen : h # g => tr'[h] = tr[h] /\ dev'[h].devpf = dev[h].devpf,
         IF l = "enable" THEN dev'[g].devpf ELSE dev'[g].devpf = dev[g].devpf,
         tr'[g].undo = tr[g].undo \cup push, tr'[g].closed = tr[g].closed
  PROVE  Backed' /\ Sequential'
<1>1. /\ Sequential'
      /\ \A h \in Gen : h # g => ppc'[h] = ppc[h]
      /\ \A b \in ProxyActor : ppc'[g][b] = IF b = "start" THEN l ELSE ppc[g][b]
  <2>1. "start" \in ProxyActor /\ "start" # "session" /\ StackInv /\ Sequential
    BY DEF TurnInv, ProxyActor
  <2>2. ppc[g]["start"] # "returned" /\ (ppc[g]["start"] = "idle" => Built(g))
    OBVIOUS
  <2> QED
    BY <2>1, <2>2, ActorMoves
<1>2. ASSUME overtaken' = {} PROVE SaneAt(g)'
  <2>1. SaneAt(g)
    BY <1>2 DEF TurnInv, Backed
  <2>2. ppc'[g]["start"] = l /\ \A b \in Stopper : ppc'[g][b] = ppc[g][b]
    BY <1>1 DEF ProxyActor, Stopper
  <2>3. \A a \in ProxyActor : undoing'[g][a] = undoing[g][a]
    OBVIOUS
  <2>4. IF l = "enable" THEN dev'[g].devpf ELSE dev'[g].devpf = dev[g].devpf
    OBVIOUS
  <2>5. ppc[g]["start"] \in ProxySetupPc \cup {"idle"} => \A a \in ProxyActor : undoing[g][a] = {}
    BY <2>1 DEF SaneAt, Sane
  <2>6. Layers(tr'[g].undo)
    BY <2>1 DEF SaneAt, Sane, Layers
  <2>7. \A a \in ProxyActor : undoing'[g][a] # {} =>
          tr'[g].undo = {} /\ l \notin ProxySetupPc \cup {"idle"} /\ \A b \in ProxyActor : b # a => undoing'[g][b] = {}
    <3> SUFFICES ASSUME NEW a \in ProxyActor, undoing[g][a] # {}
                 PROVE  tr'[g].undo = {} /\ l \notin ProxySetupPc \cup {"idle"} /\ \A b \in ProxyActor : b # a => undoing[g][b] = {}
      BY <2>3
    <3>1. tr[g].undo = {} /\ \A b \in ProxyActor : b # a => undoing[g][b] = {}
      BY <2>1 DEF SaneAt, Sane
    <3>2. l \notin ProxySetupPc \cup {"idle"}
      BY <2>5
    <3> QED BY <3>1, <3>2 DEF ProxySetupPc
  <2>8. /\ l \in ProxySetupPc => ~tr'[g].closed
        /\ l \in {"enable", "load", "ready"} => "devpf" \in tr'[g].undo
        /\ l \in {"load", "ready"} => "ref" \in tr'[g].undo
    BY <2>1 DEF SaneAt, Sane, ProxySetupPc
  <2>9. \A a \in Stopper : ppc'[g][a] # "idle" => tr'[g].closed
    BY <2>1, <2>2 DEF SaneAt, Sane
  <2>10. ("devpf" \in tr'[g].undo \/ \E a \in ProxyActor : "devpf" \in undoing'[g][a]) => dev'[g].devpf
    BY <2>1, <2>3, <2>4, <2>5 DEF SaneAt, Sane
  <2>11. \A a \in ProxyActor : Layers(undoing'[g][a])
    BY <2>1, <2>3 DEF SaneAt, Sane
  <2> QED BY <2>2, <2>6, <2>7, <2>8, <2>9, <2>10, <2>11 DEF SaneAt, Sane
<1> QED BY <1>1, <1>2, OneMoves DEF TurnInv

(* The fields of the transport and its devices after a step of setup.      *)
LEMMA SetupStays ==
  ASSUME TurnInv, NEW g \in Gen, Listen(g) \/ OpenLookup(g) \/ HoldPF(g) \/ LoadRedirects(g)
  PROVE  Backed' /\ Sequential'
<1>1. tr[g] \in Transports /\ dev[g] \in Devices /\ tr \in [Gen -> Transports] /\ dev \in [Gen -> Devices]
  BY DEF TurnInv, StackInv, ProxyTypeOK
<1> USE DEF Transports, Devices, history
<1>2. CASE Listen(g)
  <2>1. \A h \in Gen : h # g => tr'[h] = tr[h] /\ dev'[h] = dev[h]
    BY <1>1, <1>2 DEF Listen
  <2>2. tr'[g].undo = tr[g].undo \cup {"listener"} /\ tr'[g].closed = tr[g].closed /\ dev'[g].devpf = dev[g].devpf
    BY <1>1, <1>2 DEF Listen
  <2>3. ProxyGoto(g, "start", "lookup") /\ ppc[g]["start"] = "listen" /\ undoing' = undoing /\ overtaken' = overtaken
    BY <1>2 DEF Listen
  <2>4. "lookup" \in ProxyStartPc /\ {"listener"} \in SUBSET Step /\ {"listen", "lookup", "enable", "load"} \subseteq ProxySetupPc
    BY DEF ProxyStartPc, ProxySetupPc, Step
  <2> QED BY <2>1, <2>2, <2>3, <2>4, StartMoves
<1>3. CASE OpenLookup(g)
  <2>1. \A h \in Gen : h # g => tr'[h] = tr[h] /\ dev'[h] = dev[h]
    BY <1>1, <1>3 DEF OpenLookup
  <2>2. tr'[g].undo = tr[g].undo \cup {"devpf"} /\ tr'[g].closed = tr[g].closed /\ dev'[g].devpf = TRUE
    BY <1>1, <1>3 DEF OpenLookup
  <2>3. ProxyGoto(g, "start", "enable") /\ ppc[g]["start"] = "lookup" /\ undoing' = undoing /\ overtaken' = overtaken
    BY <1>3 DEF OpenLookup
  <2>4. "enable" \in ProxyStartPc /\ {"devpf"} \in SUBSET Step /\ {"listen", "lookup", "enable", "load"} \subseteq ProxySetupPc
    BY DEF ProxyStartPc, ProxySetupPc, Step
  <2> QED BY <2>1, <2>2, <2>3, <2>4, StartMoves
<1>4. CASE HoldPF(g)
  <2>1. \A h \in Gen : h # g => tr'[h] = tr[h]
    BY <1>1, <1>4 DEF HoldPF
  <2>2. tr'[g].undo = tr[g].undo \cup {"ref"} /\ tr'[g].closed = tr[g].closed /\ dev' = dev
    BY <1>1, <1>4 DEF HoldPF
  <2>3. ProxyGoto(g, "start", "load") /\ ppc[g]["start"] = "enable" /\ undoing' = undoing /\ overtaken' = overtaken
    BY <1>4 DEF HoldPF
  <2>4. "load" \in ProxyStartPc /\ {"ref"} \in SUBSET Step /\ {"listen", "lookup", "enable", "load"} \subseteq ProxySetupPc
    BY DEF ProxyStartPc, ProxySetupPc, Step
  <2> QED BY <2>1, <2>2, <2>3, <2>4, StartMoves
<1>5. CASE LoadRedirects(g)
  <2>1. \A h \in Gen : h # g => tr'[h] = tr[h]
    BY <1>1, <1>5 DEF LoadRedirects
  <2>2. tr'[g].undo = tr[g].undo \cup {"rules"} /\ tr'[g].closed = tr[g].closed /\ dev' = dev
    BY <1>1, <1>5 DEF LoadRedirects
  <2>3. ProxyGoto(g, "start", "ready") /\ ppc[g]["start"] = "load" /\ undoing' = undoing /\ overtaken' = overtaken
    BY <1>5 DEF LoadRedirects
  <2>4. "ready" \in ProxyStartPc /\ {"rules"} \in SUBSET Step /\ {"listen", "lookup", "enable", "load"} \subseteq ProxySetupPc
    BY DEF ProxyStartPc, ProxySetupPc, Step
  <2> QED BY <2>1, <2>2, <2>3, <2>4, StartMoves
<1> QED BY <1>2, <1>3, <1>4, <1>5

(* Start begins, serves and ends with the stack as it is.                  *)
LEMMA ServeStays ==
  ASSUME TurnInv, NEW g \in Gen,
         BeginProxy(g) \/ ServeProxy(g) \/ CloseListeners(g) \/ AcceptEnds(g) \/ AcceptFails(g)
  PROVE  Backed' /\ Sequential'
<1>1. dev \in [Gen -> Devices]
  BY DEF TurnInv, StackInv, ProxyTypeOK
<1>2. UNCHANGED <<tr, undoing, overtaken>> /\ \A h \in Gen : dev'[h].devpf = dev[h].devpf
  BY <1>1 DEF BeginProxy, ServeProxy, CloseListeners, AcceptEnds, AcceptFails, history, Devices
<1>3. CASE CloseListeners(g)
  BY <1>2, <1>3 DEF CloseListeners, TurnInv, Backed, SaneAt, Sequential
<1>4. ASSUME NEW l \in {"listen", "serve", "returned"}, ProxyGoto(g, "start", l),
             ppc[g]["start"] \in {"idle", "ready", "serve"},
             ppc[g]["start"] = "idle" => Built(g) /\ l \in {"listen", "returned"},
             l = "listen" => ppc[g]["start"] = "idle" /\ ~tr[g].closed
      PROVE  Backed' /\ Sequential'
  <2>1. l \in ProxyStartPc /\ {} \in SUBSET Step /\ (l \in ProxySetupPc => l = "listen")
    BY <1>4 DEF ProxyStartPc, ProxySetupPc
  <2>2. tr'[g].undo = tr[g].undo \cup {} /\ tr'[g].closed = tr[g].closed
    BY <1>2
  <2> QED BY <1>2, <1>4, <2>1, <2>2, StartMoves
<1>5. CASE BeginProxy(g)
  BY <1>4, <1>5 DEF BeginProxy
<1>6. CASE ServeProxy(g) \/ AcceptEnds(g) \/ AcceptFails(g)
  BY <1>4, <1>6 DEF ServeProxy, AcceptEnds, AcceptFails
<1> QED BY <1>3, <1>5, <1>6

(* Who takes the stack is the only one who has steps.                      *)
LEMMA TakeUndoStays ==
  ASSUME TurnInv, NEW g \in Gen, NEW a \in ProxyActor, TakeUndo(g, a), UNCHANGED <<dev, overtaken>>,
         IF a = "start" THEN ppc[g][a] \in ProxySetupPc ELSE ppc[g][a] = "wait"
  PROVE  Backed' /\ Sequential'
<1>1. tr \in [Gen -> Transports] /\ undoing \in [Gen -> [ProxyActor -> SUBSET Step]]
  BY DEF TurnInv, StackInv, ProxyTypeOK
<1>2. /\ \A h \in Gen : h # g => tr'[h] = tr[h] /\ undoing'[h] = undoing[h]
      /\ tr'[g].undo = {} /\ tr'[g].closed = tr[g].closed
      /\ \A b \in ProxyActor : undoing'[g][b] = IF b = a THEN tr[g].undo ELSE undoing[g][b]
  BY <1>1 DEF TakeUndo, Transports
<1>3. /\ Sequential'
      /\ \A h \in Gen : h # g => ppc'[h] = ppc[h]
      /\ \A b \in ProxyActor : ppc'[g][b] = IF b = a THEN "unwind" ELSE ppc[g][b]
  <2>1. a = "session" => ppc[g]["start"] = "returned"
    BY DEF TurnInv, Sequential
  <2> QED BY <2>1, ActorMoves DEF TurnInv, TakeUndo, ProxySetupPc
<1>4. ASSUME overtaken' = {} PROVE SaneAt(g)'
  <2>1. SaneAt(g)
    BY <1>4 DEF TurnInv, Backed
  <2>2. ppc'[g]["start"] = (IF a = "start" THEN "unwind" ELSE ppc[g]["start"])
        /\ \A b \in Stopper : ppc'[g][b] = IF b = a THEN "unwind" ELSE ppc[g][b]
    BY <1>3 DEF ProxyActor, Stopper
  <2>3. tr[g].undo # {} => ppc'[g]["start"] \notin ProxySetupPc \cup {"idle"} /\ \A b \in ProxyActor : undoing[g][b] = {}
    <3>1. a # "start" => tr[g].closed
      BY <2>1 DEF SaneAt, Sane, ProxyActor
    <3> QED BY <2>1, <2>2, <3>1 DEF SaneAt, Sane, ProxySetupPc
  <2>4. ASSUME NEW b \in ProxyActor, undoing'[g][b] # {}
        PROVE  /\ ppc'[g]["start"] \notin ProxySetupPc \cup {"idle"}
               /\ \A c \in ProxyActor : c # b => undoing'[g][c] = {}
    <3>1. CASE tr[g].undo # {}
      BY <1>2, <2>3, <2>4, <3>1
    <3>2. CASE tr[g].undo = {}
      <4>1. undoing[g][b] # {}
        BY <1>2, <2>4, <3>2
      <4>2. ppc[g]["start"] \notin ProxySetupPc \cup {"idle"} /\ \A c \in ProxyActor : c # b => undoing[g][c] = {}
        BY <2>1, <4>1 DEF SaneAt, Sane
      <4> QED BY <1>2, <2>2, <3>2, <4>2 DEF ProxySetupPc
    <3> QED BY <3>1, <3>2
  <2>5. Layers(tr'[g].undo) /\ \A b \in ProxyActor : Layers(undoing'[g][b])
    <3>1. Layers(tr[g].undo) /\ \A b \in ProxyActor : Layers(undoing[g][b])
      BY <2>1 DEF SaneAt, Sane
    <3>2. Layers({})
      BY DEF Layers
    <3> QED BY <1>2, <3>1, <3>2
  <2>6. /\ ppc'[g]["start"] \in ProxySetupPc => ~tr'[g].closed
        /\ ppc'[g]["start"] \notin {"enable", "load", "ready"}
    <3>1. a # "start" => tr[g].closed
      BY <2>1 DEF SaneAt, Sane, ProxyActor
    <3> QED BY <1>2, <2>1, <2>2, <3>1 DEF SaneAt, Sane, ProxySetupPc
  <2>7. \A b \in Stopper : ppc'[g][b] # "idle" => tr'[g].closed
    BY <1>2, <2>1, <2>2 DEF SaneAt, Sane, Stopper
  <2>8. ("devpf" \in tr'[g].undo \/ \E b \in ProxyActor : "devpf" \in undoing'[g][b]) => dev'[g].devpf
    BY <1>2, <2>1 DEF SaneAt, Sane
  <2> QED BY <1>2, <2>4, <2>5, <2>6, <2>7, <2>8 DEF SaneAt, Sane
<1> QED BY <1>2, <1>3, <1>4, OneMoves DEF TurnInv

(* A Close during setup is on record; any other finds the stack complete.  *)
LEMMA CloseStays ==
  ASSUME TurnInv, NEW g \in Gen, NEW a \in Stopper, CloseProxy(g, a)
  PROVE  Backed' /\ Sequential'
<1>1. tr \in [Gen -> Transports] /\ dev \in [Gen -> Devices]
  BY DEF TurnInv, StackInv, ProxyTypeOK
<1>2. PICK l \in {"returned", "wait"} : ProxyGoto(g, a, l) /\ ppc[g][a] = "idle"
  BY DEF CloseProxy
<1>3. /\ Sequential'
      /\ \A h \in Gen : h # g => ppc'[h] = ppc[h]
      /\ \A b \in ProxyActor : ppc'[g][b] = IF b = a THEN l ELSE ppc[g][b]
  BY <1>2, ActorMoves DEF TurnInv, ProxyActor, Stopper, CloseProxy
<1>4. /\ \A h \in Gen : h # g => tr'[h] = tr[h] /\ dev'[h] = dev[h]
      /\ tr'[g].undo = tr[g].undo /\ tr'[g].closed /\ dev'[g].devpf = dev[g].devpf
      /\ undoing' = undoing /\ overtaken \subseteq overtaken'
      /\ overtaken' = {} => ppc[g]["start"] \notin ProxySetupPc \/ tr[g].closed
  <2>1. CASE tr[g].closed
    BY <2>1 DEF CloseProxy
  <2>2. CASE ~tr[g].closed
    <3>1. /\ tr' = [tr EXCEPT ![g] = [tr[g] EXCEPT !.closed = TRUE, !.lns = FALSE]]
          /\ dev' = [dev EXCEPT ![g] = [dev[g] EXCEPT !.open = @ /\ ~tr[g].lns]]
      BY <1>1, <2>2 DEF CloseProxy
    <3>2. tr[g] \in Transports /\ dev[g] \in Devices
      BY <1>1
    <3>3. \A h \in Gen : h # g => tr'[h] = tr[h] /\ dev'[h] = dev[h]
      BY <1>1, <3>1
    <3>4. tr'[g].undo = tr[g].undo /\ tr'[g].closed /\ dev'[g].devpf = dev[g].devpf
      BY <1>1, <3>1, <3>2 DEF Transports, Devices
    <3>5. /\ undoing' = undoing /\ overtaken \subseteq overtaken'
          /\ overtaken' = {} => ppc[g]["start"] \notin ProxySetupPc \/ tr[g].closed
      BY <2>2 DEF CloseProxy
    <3> QED BY <3>3, <3>4, <3>5
  <2> QED BY <2>1, <2>2
<1>5. ASSUME overtaken' = {} PROVE SaneAt(g)'
  <2>1. SaneAt(g)
    BY <1>4, <1>5 DEF TurnInv, Backed
  <2>2. ppc'[g]["start"] = ppc[g]["start"] /\ "start" \in ProxyActor
    BY <1>3 DEF ProxyActor, Stopper
  <2>3. ppc[g]["start"] \notin ProxySetupPc
    BY <1>4, <1>5, <2>1 DEF SaneAt, Sane
  <2> QED BY <1>4, <2>1, <2>2, <2>3 DEF SaneAt, Sane, ProxySetupPc
<1> QED BY <1>3, <1>4, <1>5, OneMoves DEF TurnInv

(* One step leaves the hands of an actor, from the top.                    *)
LEMMA UndoStays ==
  ASSUME TurnInv, NEW g \in Gen, NEW a \in ProxyActor, NEW s \in Step, Top(g, a, s),
         undoing' = [undoing EXCEPT ![g][a] = @ \ {s}], UNCHANGED <<tr, ppc, overtaken>>,
         \A h \in Gen : dev'[h].devpf = dev[h].devpf \/ (h = g /\ s = "devpf")
  PROVE  Backed' /\ Sequential'
<1>1. undoing \in [Gen -> [ProxyActor -> SUBSET Step]]
  BY DEF TurnInv, StackInv, ProxyTypeOK
<1>2. /\ \A h \in Gen : h # g => undoing'[h] = undoing[h]
      /\ \A b \in ProxyActor : undoing'[g][b] = IF b = a THEN undoing[g][b] \ {s} ELSE undoing[g][b]
  BY <1>1
<1>3. Sequential'
  BY DEF TurnInv, Sequential
<1>4. ASSUME overtaken' = {} PROVE SaneAt(g)'
  <2>1. SaneAt(g)
    BY <1>4 DEF TurnInv, Backed
  <2>2. s \in undoing[g][a] /\ Above(s) \cap undoing[g][a] = {}
    BY DEF Top
  <2>3. tr[g].undo = {} /\ \A b \in ProxyActor : b # a => undoing[g][b] = {}
    BY <2>1, <2>2 DEF SaneAt, Sane
  <2>4. Layers(undoing'[g][a])
    BY <1>2, <2>1, <2>2 DEF SaneAt, Sane, Layers, Above, Step
  <2>5. ASSUME NEW b \in ProxyActor PROVE Layers(undoing'[g][b])
    <3>1. CASE b = a
      BY <2>4, <3>1
    <3>2. CASE b # a
      <4>1. Layers(undoing[g][b]) /\ undoing'[g][b] = undoing[g][b]
        BY <1>2, <2>1, <3>2 DEF SaneAt, Sane
      <4> QED BY <4>1
    <3> QED BY <3>1, <3>2
  <2>6. \A b \in ProxyActor : b # a => undoing'[g][b] = {}
    BY <1>2, <2>3
  <2>7. ASSUME NEW b \in ProxyActor, undoing'[g][b] # {}
        PROVE  /\ ppc'[g]["start"] \notin ProxySetupPc \cup {"idle"}
               /\ \A c \in ProxyActor : c # b => undoing'[g][c] = {}
    <3>1. b = a
      BY <2>6, <2>7
    <3>2. ppc[g]["start"] \notin ProxySetupPc \cup {"idle"}
      BY <2>1, <2>2 DEF SaneAt, Sane
    <3> QED BY <2>6, <3>1, <3>2
  <2>8. (\E b \in ProxyActor : "devpf" \in undoing'[g][b]) => dev'[g].devpf
    <3> SUFFICES ASSUME "devpf" \in undoing'[g][a] PROVE dev'[g].devpf
      BY <2>6
    <3>1. s # "devpf" /\ "devpf" \in undoing[g][a]
      <4>1. undoing'[g][a] = undoing[g][a] \ {s}
        BY <1>2
      <4> HIDE <1>1, <1>2
      <4> QED BY <4>1
    <3>2. dev[g].devpf
      BY <2>1, <3>1 DEF SaneAt, Sane
    <3> QED BY <3>1, <3>2
  <2> QED BY <2>1, <2>3, <2>5, <2>7, <2>8 DEF SaneAt, Sane
<1> QED BY <1>2, <1>3, <1>4, OneMoves DEF TurnInv

LEMMA UnwindStays ==
  ASSUME TurnInv, NEW g \in Gen, NEW a \in ProxyActor, Unwind(g, a)
  PROVE  Backed' /\ Sequential'
<1>1. CASE Undo(g, a)
  <2>1. PICK s \in Step : /\ Top(g, a, s) /\ undoing' = [undoing EXCEPT ![g][a] = @ \ {s}]
                          /\ dev' = [dev EXCEPT ![g] = [open |-> @.open /\ s # "listener",
                                                        devpf |-> @.devpf /\ s # "devpf"]]
    BY <1>1 DEF Undo
  <2>2. \A h \in Gen : dev'[h].devpf = dev[h].devpf \/ (h = g /\ s = "devpf")
    <3>1. dev \in [Gen -> Devices]
      BY DEF TurnInv, StackInv, ProxyTypeOK
    <3> QED BY <2>1, <3>1 DEF Devices
  <2> QED BY <1>1, <2>1, <2>2, UndoStays DEF Undo, history
<1>2. CASE UndoFails(g, a)
  BY <1>2, UndoStays DEF UndoFails, Step
<1>3. CASE Unwound(g, a)
  <2>1. /\ Sequential'
        /\ \A h \in Gen : h # g => ppc'[h] = ppc[h]
        /\ \A b \in ProxyActor : ppc'[g][b] = IF b = a THEN "returned" ELSE ppc[g][b]
    BY <1>3, ActorMoves DEF Unwound, TurnInv, Sequential
  <2>2. UNCHANGED <<tr, dev, undoing, overtaken>> /\ ppc[g][a] = "unwind"
    BY <1>3 DEF Unwound, history
  <2>3. ASSUME overtaken' = {} PROVE SaneAt(g)'
    <3>1. SaneAt(g)
      BY <2>2, <2>3 DEF TurnInv, Backed
    <3>2. ppc'[g]["start"] = ppc[g]["start"] \/ ppc'[g]["start"] = "returned"
      BY <2>1 DEF ProxyActor
    <3>3. \A b \in Stopper : ppc'[g][b] # "idle" => ppc[g][b] # "idle"
      BY <2>1, <2>2 DEF ProxyActor, Stopper
    <3> QED BY <2>2, <3>1, <3>2, <3>3 DEF SaneAt, Sane, ProxySetupPc
  <2> QED BY <2>1, <2>2, <2>3, OneMoves DEF TurnInv
<1> QED BY <1>1, <1>2, <1>3 DEF Unwind

(* Reloads, cancellations and relays leave stacks and descriptors alone.   *)
LEMMA RestStays ==
  ASSUME TurnInv, UNCHANGED <<tr, dev, undoing, ppc>>, overtaken \subseteq overtaken'
  PROVE  Backed' /\ Sequential'
  BY DEF TurnInv, Backed, SaneAt, Sequential

LEMMA RestMoves ==
  ASSUME TurnInv,
         \/ \E g \in Gen : CancelProxy(g)
         \/ \E r \in ProxyReloader : ReloadSwap(r) \/ ReloadRedirects(r)
         \/ \E c \in Conn : Connect(c) \/ HandleConn(c) \/ Watchdog(c) \/ ContextDone(c) \/ Traffic(c) \/ PeersEnd(c)
         \/ UNCHANGED proxyVars
  PROVE  UNCHANGED <<tr, dev, undoing, ppc>> /\ pf'.ref = pf.ref /\ overtaken \subseteq overtaken'
<1> USE DEF history
<1>1. ASSUME NEW g \in Gen, CancelProxy(g)
      PROVE  UNCHANGED <<tr, dev, undoing, ppc, pf, overtaken>>
  BY <1>1 DEF CancelProxy
<1>2. ASSUME NEW r \in ProxyReloader, ReloadSwap(r)
      PROVE  UNCHANGED <<tr, dev, undoing, ppc, pf, overtaken>>
  BY <1>2 DEF ReloadSwap
<1>3. ASSUME NEW r \in ProxyReloader, ReloadRedirects(r)
      PROVE  UNCHANGED <<tr, dev, undoing, ppc>> /\ pf'.ref = pf.ref /\ overtaken \subseteq overtaken'
  <2>1. pf \in [ref: BOOLEAN, rules: BOOLEAN]
    BY DEF TurnInv, StackInv, ProxyTypeOK
  <2> QED BY <1>3, <2>1 DEF ReloadRedirects
<1>4. ASSUME NEW c \in Conn,
             Connect(c) \/ HandleConn(c) \/ Watchdog(c) \/ ContextDone(c) \/ Traffic(c) \/ PeersEnd(c)
      PROVE  UNCHANGED <<tr, dev, undoing, ppc, pf, overtaken>>
  BY <1>4 DEF Connect, HandleConn, Reset, Accept, ReadDescriptor, AskPF, Dial, FirstPayload,
     Watchdog, ContextDone, Traffic, PeersEnd, Move
<1>5. CASE UNCHANGED proxyVars
  BY <1>5 DEF proxyVars
<1> QED BY <1>1, <1>2, <1>3, <1>4, <1>5

LEMMA NextStays ==
  ASSUME TurnInv, [ProxyNext]_proxyVars
  PROVE  TurnInv'
<1>1. StackInv'
  BY NextKeeps DEF TurnInv
<1>2. ASSUME NEW g \in Gen, ProxyStart(g) \/ AcceptFails(g)
      PROVE  Backed' /\ Sequential'
  <2>1. CASE AbortProxy(g)
    BY <2>1, TakeUndoStays DEF AbortProxy, history, ProxyActor, ProxySetupPc
  <2> QED BY <1>2, <2>1, ServeStays, SetupStays, UnwindStays DEF ProxyStart, ProxyActor
<1>3. ASSUME NEW g \in Gen, NEW a \in Stopper, CloseProxy(g, a) \/ ProxyClosing(g, a)
      PROVE  Backed' /\ Sequential'
  <2>1. CASE ProxyWaited(g, a)
    BY <2>1, TakeUndoStays DEF ProxyWaited, history, ProxyActor, Stopper
  <2> QED BY <1>3, <2>1, CloseStays, UnwindStays DEF ProxyClosing, ProxyActor
<1> QED BY <1>1, <1>2, <1>3, RestMoves, RestStays DEF ProxyNext, TurnInv

-----------------------------------------------------------------------------
(* Of two transports that are apart only one has anything to undo.         *)
LEMMA Alone ==
  ASSUME TurnInv, Apart, overtaken = {}, NEW g \in Gen, NEW h \in Gen,
         NEW s \in Step, NEW t \in Step, Pending(g, s), Pending(h, t)
  PROVE  g = h
<1>1. ASSUME NEW i \in Gen, NEW k \in Gen, k < i, ppc[i]["start"] # "idle"
      PROVE  tr[k].undo = {} /\ \A a \in ProxyActor : undoing[k][a] = {}
  <2>1. /\ ppc[k]["session"] = "returned" /\ ppc[k]["start"] = "returned"
        /\ ppc[k]["other"] \in {"idle", "returned"}
    BY <1>1 DEF TurnInv, Sequential, Apart
  <2>2. tr[k].closed /\ \A a \in ProxyActor : undoing[k][a] = {}
    BY <2>1 DEF TurnInv, StackInv, Held, ProxyActor, Stopper
  <2> QED BY <2>1, <2>2 DEF TurnInv, StackInv, Held, Stopper
<1>2. ASSUME NEW i \in Gen, NEW u \in Step, Pending(i, u)
      PROVE  ppc[i]["start"] # "idle"
  BY <1>2 DEF TurnInv, Backed, SaneAt, Sane, Pending
<1>3. ~(g < h) /\ ~(h < g)
  BY <1>1, <1>2 DEF Pending
<1> QED BY <1>3, ProxyAssumption DEF Gen

(* A reference somebody will release is held.                              *)
LEMMA NextReferenced ==
  ASSUME TurnInv, Referenced, Apart, [ProxyNext]_proxyVars
  PROVE  Referenced'
<1>1. ASSUME pf.ref => pf'.ref, overtaken \subseteq overtaken',
             \A h \in Gen : Pending(h, "ref")' => Pending(h, "ref") \/ pf'.ref
      PROVE  Referenced'
  BY <1>1 DEF Referenced
<1>2. tr \in [Gen -> Transports] /\ undoing \in [Gen -> [ProxyActor -> SUBSET Step]] /\ pf \in [ref: BOOLEAN, rules: BOOLEAN]
  BY DEF TurnInv, StackInv, ProxyTypeOK
<1>3. ASSUME NEW g \in Gen, BeginProxy(g) \/ ServeProxy(g) \/ CloseListeners(g) \/ AcceptEnds(g) \/ AcceptFails(g)
      PROVE  Referenced'
  <2>1. UNCHANGED <<tr, undoing, pf, overtaken>>
    BY <1>3 DEF BeginProxy, ServeProxy, CloseListeners, AcceptEnds, AcceptFails, history
  <2> QED BY <1>1, <2>1 DEF Pending
<1>4. ASSUME NEW g \in Gen, Listen(g) \/ OpenLookup(g) \/ LoadRedirects(g)
      PROVE  Referenced'
  <2>1. UNCHANGED <<undoing, overtaken>> /\ pf'.ref = pf.ref
    BY <1>2, <1>4 DEF Listen, OpenLookup, LoadRedirects, history
  <2>2. \A h \in Gen : "ref" \in tr'[h].undo => "ref" \in tr[h].undo
    <3>1. tr[g] \in Transports
      BY <1>2
    <3>2. CASE Listen(g)
      BY <1>2, <3>1, <3>2 DEF Listen, Transports
    <3>3. CASE OpenLookup(g)
      BY <1>2, <3>1, <3>3 DEF OpenLookup, Transports
    <3>4. CASE LoadRedirects(g)
      BY <1>2, <3>1, <3>4 DEF LoadRedirects, Transports
    <3> QED BY <1>4, <3>2, <3>3, <3>4
  <2> QED BY <1>1, <2>1, <2>2 DEF Pending
<1>5. ASSUME NEW g \in Gen, HoldPF(g)
      PROVE  Referenced'
  BY <1>1, <1>2, <1>5 DEF HoldPF, history
<1>6. ASSUME NEW g \in Gen, NEW a \in ProxyActor, TakeUndo(g, a), UNCHANGED <<pf, overtaken>>
      PROVE  Referenced'
  <2>1. /\ \A h \in Gen : "ref" \in tr'[h].undo => "ref" \in tr[h].undo
        /\ \A h \in Gen, b \in ProxyActor : "ref" \in undoing'[h][b] => "ref" \in undoing[h][b] \/ "ref" \in tr[h].undo
    BY <1>2, <1>6 DEF TakeUndo, Transports
  <2> QED BY <1>1, <1>6, <2>1 DEF Pending
<1>7. ASSUME NEW g \in Gen, NEW a \in Stopper, CloseProxy(g, a)
      PROVE  Referenced'
  <2>1. UNCHANGED <<undoing, pf>> /\ overtaken \subseteq overtaken'
    BY <1>7 DEF CloseProxy
  <2>2. \A h \in Gen : tr'[h].undo = tr[h].undo
    <3>1. CASE tr[g].closed
      BY <1>7, <3>1 DEF CloseProxy
    <3>2. CASE ~tr[g].closed
      <4>1. tr' = [tr EXCEPT ![g] = [tr[g] EXCEPT !.closed = TRUE, !.lns = FALSE]]
        BY <1>2, <1>7, <3>2 DEF CloseProxy
      <4>2. tr[g] \in Transports
        BY <1>2
      <4> QED BY <1>2, <4>1, <4>2 DEF Transports
    <3> QED BY <3>1, <3>2
  <2> QED BY <1>1, <2>1, <2>2 DEF Pending
<1>8. ASSUME NEW g \in Gen, NEW a \in ProxyActor, Unwind(g, a)
      PROVE  Referenced'
  <2>1. UNCHANGED <<tr, overtaken>>
    BY <1>8 DEF Unwind, Undo, UndoFails, Unwound, history
  <2>2. \A h \in Gen, b \in ProxyActor, u \in Step : u \in undoing'[h][b] => u \in undoing[h][b]
    <3>1. undoing' = undoing \/ \E s \in Step : undoing' = [undoing EXCEPT ![g][a] = @ \ {s}]
      BY <1>8 DEF Unwind, Undo, UndoFails, Unwound, Step
    <3> QED BY <1>2, <3>1
  <2>3. CASE pf'.ref = pf.ref
    BY <1>1, <2>1, <2>2, <2>3 DEF Pending, Step
  <2>4. CASE pf'.ref # pf.ref
    <3>1. /\ Top(g, a, "ref") /\ undoing' = [undoing EXCEPT ![g][a] = @ \ {"ref"}]
      BY <1>2, <1>8, <2>4 DEF Unwind, Undo, UndoFails, Unwound
    <3> SUFFICES ASSUME overtaken' = {}, NEW h \in Gen, Pending(h, "ref")' PROVE FALSE
      BY DEF Referenced
    <3>2. "ref" \in Step /\ Pending(g, "ref") /\ Pending(h, "ref")
      BY <2>1, <2>2, <3>1 DEF Step, Pending, Top
    <3>3. h = g
      BY <2>1, <3>2, Alone
    <3>4. tr[g].undo = {} /\ \A b \in ProxyActor : b # a => undoing[g][b] = {}
      BY <2>1, <3>1 DEF TurnInv, Backed, SaneAt, Sane, Top
    <3>5. \A b \in ProxyActor : "ref" \notin undoing'[g][b]
      BY <1>2, <3>1, <3>4
    <3> QED BY <2>1, <3>3, <3>4, <3>5 DEF Pending
  <2> QED BY <2>3, <2>4
<1>9. ASSUME UNCHANGED <<tr, dev, undoing, ppc>>, pf'.ref = pf.ref, overtaken \subseteq overtaken'
      PROVE  Referenced'
  BY <1>1, <1>9 DEF Pending
<1>10. ASSUME NEW g \in Gen, ProxyStart(g) \/ AcceptFails(g)
       PROVE  Referenced'
  <2>1. CASE AbortProxy(g)
    BY <1>6, <2>1 DEF AbortProxy, history, ProxyActor
  <2> QED BY <1>3, <1>4, <1>5, <1>8, <1>10, <2>1 DEF ProxyStart, ProxyActor
<1>11. ASSUME NEW g \in Gen, NEW a \in Stopper, CloseProxy(g, a) \/ ProxyClosing(g, a)
       PROVE  Referenced'
  BY <1>6, <1>7, <1>8, <1>11 DEF ProxyClosing, ProxyWaited, history, ProxyActor
<1> QED BY <1>9, <1>10, <1>11, RestMoves DEF ProxyNext

LEMMA ImpliesRulesBacked == TurnInv /\ Referenced => RulesBacked
<1> SUFFICES ASSUME TurnInv, Referenced, pf.rules, "rules" \notin stuck, overtaken = {}
             PROVE  pf.ref /\ \E g \in Gen : dev[g].devpf
  BY DEF RulesBacked
<1>1. PICK g \in Gen : Pending(g, "rules")
  BY DEF TurnInv, StackInv, Covered
<1>2. Pending(g, "ref") /\ dev[g].devpf
  BY <1>1 DEF TurnInv, Backed, SaneAt, Sane, Layers, Pending
<1> QED BY <1>2 DEF Referenced

(* Redirecting rules have the reference and the descriptor behind them,    *)
(* whatever setup reached, whoever closes and whatever undo step fails: for *)
(* one transport always, for several as long as session does not set up    *)
(* the next while somebody still closes the last.                          *)
THEOREM RulesStayBacked == ProxySpec /\ []Apart => []RulesBacked
<1>1. ProxyInit => TurnInv /\ Referenced
  BY InitTurnInv
<1>2. TurnInv /\ Referenced /\ Apart /\ [ProxyNext]_proxyVars => TurnInv' /\ Referenced'
  BY NextStays, NextReferenced
<1>3. TurnInv /\ Referenced => RulesBacked
  BY ImpliesRulesBacked
<1> QED BY <1>1, <1>2, <1>3, PTL DEF ProxySpec

(* Close "unwinds every privileged change" (proxy.go), in an order in which *)
(* no redirect is without what its relays need: everything the run checks  *)
(* of the proxy transports, for any number of them, of clients and reloads. *)
THEOREM ProxyLeavesNothing == ProxySpec /\ []Apart => []ProxyUndoes
<1>1. ProxyInit => StackInv
  BY InitStackInv
<1>2. StackInv /\ [ProxyNext]_proxyVars => StackInv'
  BY NextKeeps
<1>3. StackInv => ProxyTypeOK
  BY DEF StackInv
<1>4. ProxyTypeOK /\ UndoneUnlessStuck /\ RulesBacked => ProxyUndoes
  BY DEF ProxyUndoes
<1> QED BY <1>1, <1>2, <1>3, <1>4, CloseUndoes, RulesStayBacked, PTL DEF ProxySpec

(* One transport is never beside another, as the run has it.               *)
THEOREM OneIsApart == Last = 1 => Apart
  BY DEF Apart, Gen
==============================================================================
