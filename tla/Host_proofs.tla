---------------------------- MODULE Host_proofs -------------------------------
(* What holds of what chooses and tries strategies, for any number of jobs,      *)
(* probes, candidates and commands: zaprctl's VPN commands (Vpn), its self-test  *)
(* (SelfTest) and sweep (Autopick), and the commands on strategies (Activation). *)
EXTENDS Activation, Vpn, SelfTest, Autopick, Probe, TLAPS, FiniteSetTheorems, SequenceTheorems

-----------------------------------------------------------------------------
(* Activation                                                                *)

\* Where the session is, and what it has registered and set up.
ActPlaces ==
    /\ setup # "none" <=> spc \in {"probation", "await"}
    /\ regTr <=> spc = "await"
    /\ \A h \in Handler : ~Busy(h) => cmd[h] = "none"
    /\ \A h \in Handler : Busy(h) => cmd[h] # "none"
    /\ \A h \in Handler : cpc[h] = "write" => cmd[h] # "reload"

\* What the homes have that hold the strategy of the datapath that runs.
OneStrategy(v) == strat = v /\ eng = v /\ tstrat = v /\ v[1] = told

\* Before anybody has changed a home: what was told last is, or is becoming, what runs.
Settled ==
    /\ remembered = told /\ path = told
    /\ spc \in {"compile", "path"} => spec = told
    /\ spc \in {"path", "install"} => made[1] = told
    /\ spc \in {"register", "probation"} => OneStrategy(made)
    /\ spc = "await" => OneStrategy(strat)
    /\ setup = "load" => want = Window[tstrat]
    /\ setup = "up" => rules = Window[tstrat]

\* What a command that nobody disturbs has done by then.
Onwards(h) ==
    /\ Busy(h) /\ cmd[h] # "reload" => val[h][1] = cmd[h]
    /\ Busy(h) /\ cmd[h] = "reload" => val[h][1] = path /\ remembered = told /\ path = told
    /\ cpc[h] \notin {"idle", "compile", "write"} /\ cmd[h] # "reload" => remembered = cmd[h]
    /\ \/ cpc[h] \in {"engine", "transport", "rules", "window"}
       \/ Busy(h) /\ cmd[h] = "reload"
       => (spc = "await" => hasTr[h])
    /\ cpc[h] \in {"engine", "transport", "rules", "window"} => strat = val[h] /\ path = val[h][1]
    /\ cpc[h] = "engine" => hasEng[h]
    /\ cpc[h] \in {"transport", "rules", "window"} => eng = val[h]
    /\ cpc[h] \in {"rules", "window"} /\ spc = "await" => tstrat = val[h]
    /\ cpc[h] = "window" /\ spc = "await" => rules = Window[val[h]]

Alone ==
    calm # "no" =>
        /\ ~Overlap
        /\ \A h \in Handler : Onwards(h)
        /\ calm = "trying" => \E h \in Handler : cmd[h] \in Strategy
        /\ calm = "yes" /\ (\A h \in Handler : cpc[h] \in {"idle", "compile"}) => Settled

ActInv == ActivationTypeOK /\ ActPlaces /\ Alone

LEMMA ActivationInitInv == ActivationInit => ActInv
<1> SUFFICES ASSUME ActivationInit PROVE ActInv
  OBVIOUS
<1> USE ActivationAssumption DEF ActivationInit
<1>1. Fresh \in Value /\ Fresh[1] = First
  BY DEF Fresh, Value, Version
<1>2. ActivationTypeOK
  <2>1. 0 \in 0 .. MaxCommands /\ 0 \in 0 .. MaxFails /\ 0 \in 0 .. MaxEdits /\ 0 \in 0 .. 1
    OBVIOUS
  <2> QED
    BY <1>1, <2>1 DEF ActivationTypeOK, Version
<1>3. ActPlaces
  BY DEF ActPlaces, Busy
<1>4. Alone
  BY <1>1 DEF Alone, Onwards, Settled, OneStrategy, Overlap, Busy
<1> QED
  BY <1>2, <1>3, <1>4 DEF ActInv

LEMMA ValuesKnown ==
    /\ Fresh \in Value /\ Value # {} /\ "reload" \notin Strategy /\ "none" \notin Strategy /\ First \in Strategy
    /\ \A v \in Value : v[1] \in Strategy /\ v[2] \in Version
    /\ \A s \in Strategy, k \in Version : <<s, k>> \in Value /\ <<s, k>>[1] = s
    /\ 1 \in Version
    /\ 0 \in 0 .. MaxFails /\ 0 \in 0 .. 1 /\ 1 \in 0 .. 1
    /\ \A k \in 0 .. MaxFails : k < MaxFails => k + 1 \in 0 .. MaxFails
    /\ \A k \in 0 .. MaxEdits : k < MaxEdits => k + 1 \in 0 .. MaxEdits
    /\ \A k \in 0 .. MaxCommands : k < MaxCommands => k + 1 \in 0 .. MaxCommands
  BY ActivationAssumption DEF Fresh, Value, Version

\* What becomes of `calm'.
LEMMA WatchTells ==
  ASSUME Watch, calm \in {"no", "trying", "yes"}
  PROVE  /\ calm' \in {"no", "trying", "yes"}
         /\ calm' # "no" =>
                /\ ~Overlap' /\ \A h \in Handler : ~ReloadRulesFails(h)
                /\ calm = "no" => calm' = "trying" /\ \E h \in Handler : ~Busy(h) /\ cmd'[h] \in Strategy
                /\ calm = "trying" => \A h \in Handler : ~CompileFails(h)
                /\ calm = "trying" /\ calm' = "yes" => \E h \in Handler : RestartForWindow(h)
                /\ calm = "trying" /\ calm' = "trying" => \A h \in Handler : ~RestartForWindow(h)
                /\ calm = "yes" => calm' = "yes"
  BY DEF Watch

\* Every variable keeps its type.
LEMMA ActivationTypeStep == ActivationTypeOK /\ ActPlaces /\ [ActivationNext]_activation => ActivationTypeOK'
<1> SUFFICES ASSUME ActivationTypeOK, ActPlaces, [ActivationNext]_activation PROVE ActivationTypeOK'
  OBVIOUS
<1> USE ValuesKnown DEF ActivationTypeOK, homes, datapath, session, copies, budgets
<1>1. CASE UNCHANGED activation
  BY <1>1 DEF activation
<1>2. CASE ActivationNext
  <2>0. calm' \in {"no", "trying", "yes"}
    BY <1>2, WatchTells DEF ActivationNext
  <2> HIDE DEF ActivationTypeOK
  <2> USE <2>0
  <2>1. CASE SessionStep
    <3> USE DEF ActivationTypeOK
    <3>1. CASE Begin
      BY <3>1 DEF Begin
    <3>2. CASE BuildCompile
      BY <3>2 DEF BuildCompile, Bad
    <3>3. CASE TakePath
      BY <3>3 DEF TakePath
    <3>4. CASE Install
      BY <3>4 DEF Install
    <3>5. CASE Rebuild
      BY <3>5 DEF Rebuild
    <3>6. CASE Register
      BY <3>6 DEF Register
    <3>7. CASE Render
      BY <3>7 DEF Render
    <3>8. CASE LoadRules
      BY <3>8 DEF LoadRules
    <3>9. CASE Activate
      BY <3>9 DEF Activate
    <3>10. CASE EndSession
      <4>1. fails' \in 0 .. MaxFails
        BY <3>10 DEF EndSession
      <4>2. /\ spc' = "rest" /\ rules' = NoRules /\ setup' = "none" /\ want' = NoRules /\ made' = Fresh
            /\ regTr' = FALSE /\ regCancel' = FALSE /\ cancelled' = FALSE
            /\ UNCHANGED <<disk, homes, spec, attempt, cpc, cmd, copies, commands, edits, told>>
        BY <3>10 DEF EndSession
      <4>3. {rules, want}' \subseteq {NoRules} \cup {Window[v] : v \in Value} /\ {strat, eng, tstrat, made}' \subseteq Value
        BY <4>2
      <4>4. /\ setup' \in {"none", "render", "load", "up"} /\ attempt' \in 0 .. 1
            /\ spc' \in {"rest", "compile", "path", "install", "register", "probation", "await"}
            /\ cancelled' \in BOOLEAN /\ regTr' \in BOOLEAN /\ regCancel' \in BOOLEAN
        BY <4>2
      <4> QED
        BY <4>1, <4>2, <4>3, <4>4
    <3> QED
      BY <2>1, <3>1, <3>2, <3>3, <3>4, <3>5, <3>6, <3>7, <3>8, <3>9, <3>10 DEF SessionStep
  <2>2. CASE Edit
    BY <2>2 DEF Edit, ActivationTypeOK
  <2>3. ASSUME NEW h \in Handler, CommandStep(h) PROVE ActivationTypeOK'
    <3> USE DEF ActivationTypeOK, At
    <3>0. ASSUME Answer(h)
          PROVE  /\ cmd' \in [Handler -> Strategy \cup {"reload", "none"}]
                 /\ val' \in [Handler -> Value] /\ prev' \in [Handler -> Value]
                 /\ hasEng' \in [Handler -> BOOLEAN] /\ hasTr' \in [Handler -> BOOLEAN]
      BY <3>0 DEF Answer
    <3>1. CASE Compile(h)
      <4>1. disk[val[h][1]] \in Version
        BY <3>1 DEF Compile, Bad
      <4> QED
        BY <3>1, <4>1 DEF Compile
    <3>2. CASE CompileFails(h)
      BY <3>0, <3>2 DEF CompileFails
    <3>3. CASE WriteActiveName(h)
      BY <3>3 DEF WriteActiveName, ActPlaces, Busy
    <3>4. CASE Swap(h)
      BY <3>4 DEF Swap
    <3>5. CASE EngineReload(h)
      BY <3>5 DEF EngineReload
    <3>6. CASE TransportReload(h)
      BY <3>6 DEF TransportReload
    <3>7. CASE ReloadRules(h)
      BY <3>7 DEF ReloadRules
    <3>8. CASE ReloadRulesFails(h)
      BY <3>0, <3>8 DEF ReloadRulesFails
    <3>9. CASE RestartForWindow(h)
      BY <3>0, <3>9 DEF RestartForWindow, ActPlaces, Busy
    <3> QED
      BY <2>3, <3>1, <3>2, <3>3, <3>4, <3>5, <3>6, <3>7, <3>8, <3>9 DEF CommandStep
  <2>4. ASSUME NEW h \in Handler, NEW t \in Strategy \cup {"reload"}, Call(h, t) PROVE ActivationTypeOK'
    BY <2>4 DEF Call, At, ActivationTypeOK
  <2> QED
    BY <1>2, <2>1, <2>2, <2>3, <2>4 DEF ActivationNext
<1> QED
  BY <1>1, <1>2

\* So do the places of the session and the records of who is busy.
LEMMA ActivationPlacesStep == ActivationTypeOK /\ ActPlaces /\ [ActivationNext]_activation => ActPlaces'
<1> SUFFICES ASSUME ActivationTypeOK, ActPlaces, [ActivationNext]_activation PROVE ActPlaces'
  OBVIOUS
<1> USE ValuesKnown DEF ActivationTypeOK, ActPlaces, homes, datapath, session, copies, budgets, Busy
<1>1. CASE UNCHANGED activation
  BY <1>1 DEF activation
<1>2. CASE ActivationNext
  <2>1. CASE SessionStep
    BY <2>1 DEF SessionStep, Begin, BuildCompile, TakePath, Install, Rebuild, Register, Render, LoadRules, Activate,
                EndSession
  <2>2. CASE Edit
    BY <2>2 DEF Edit
  <2>3. ASSUME NEW h \in Handler, CommandStep(h) PROVE ActPlaces'
    <3> USE DEF At
    <3>1. CASE Compile(h)
      BY <3>1 DEF Compile
    <3>2. CASE CompileFails(h)
      BY <3>2 DEF CompileFails, Answer
    <3>3. CASE WriteActiveName(h)
      BY <3>3 DEF WriteActiveName
    <3>4. CASE Swap(h)
      BY <3>4 DEF Swap
    <3>5. CASE EngineReload(h)
      BY <3>5 DEF EngineReload
    <3>6. CASE TransportReload(h)
      BY <3>6 DEF TransportReload
    <3>7. CASE ReloadRules(h)
      BY <3>7 DEF ReloadRules
    <3>8. CASE ReloadRulesFails(h)
      BY <3>8 DEF ReloadRulesFails, Answer
    <3>9. CASE RestartForWindow(h)
      BY <3>9 DEF RestartForWindow, Answer
    <3> QED
      BY <2>3, <3>1, <3>2, <3>3, <3>4, <3>5, <3>6, <3>7, <3>8, <3>9 DEF CommandStep
  <2>4. ASSUME NEW h \in Handler, NEW t \in Strategy \cup {"reload"}, Call(h, t) PROVE ActPlaces'
    BY <2>4 DEF Call, At
  <2> QED
    BY <1>2, <2>1, <2>2, <2>3, <2>4 DEF ActivationNext
<1> QED
  BY <1>1, <1>2

LEMMA IdleOnwards == ASSUME NEW h \in Handler, ~Busy(h)' PROVE Onwards(h)'
  BY DEF Busy, Onwards

\* A session step: the session ends, or nobody is at a command.
LEMMA SessionAlone == ActInv /\ SessionStep /\ Watch => Alone'
<1> SUFFICES ASSUME ActInv, SessionStep, Watch, calm' # "no" PROVE Alone'
  BY DEF Alone
<1>0. ActivationTypeOK /\ ActPlaces /\ Alone
  BY DEF ActInv
<1>1. UNCHANGED <<cpc, cmd, val, remembered, told>>
  BY DEF SessionStep, Begin, BuildCompile, TakePath, Install, Rebuild, Register, Render, LoadRules, Activate, EndSession,
         homes, datapath, session, copies, budgets
<1>2. \A h \in Handler : (Busy(h)' <=> Busy(h)) /\ ~(~Busy(h) /\ cmd'[h] \in Strategy) /\ ~RestartForWindow(h)
  BY <1>0, <1>1, ValuesKnown DEF ActPlaces, Busy, RestartForWindow, At, ActivationTypeOK
<1>3. calm # "no" /\ calm' = calm /\ ~Overlap' /\ ~Overlap
  BY <1>0, <1>2, WatchTells DEF Alone, ActivationTypeOK
<1>4. calm' = "trying" => \E h \in Handler : cmd'[h] \in Strategy
  BY <1>0, <1>1, <1>3 DEF Alone
<1>5. CASE EndSession
  <2> USE <1>5 DEF EndSession, homes, datapath, session, copies, budgets
  <2>1. \A h \in Handler : Onwards(h)'
    BY <1>0, <1>1, <1>3 DEF Alone, Onwards, Busy
  <2>2. calm' = "yes" /\ (\A h \in Handler : cpc'[h] \in {"idle", "compile"}) => Settled'
    BY <1>0, <1>1, <1>3 DEF Alone, Settled
  <2> QED
    BY <1>3, <1>4, <2>1, <2>2 DEF Alone
<1>6. CASE ~EndSession
  <2>0. Begin \/ BuildCompile \/ TakePath \/ Install \/ Rebuild \/ Register \/ Render \/ LoadRules \/ Activate
    BY <1>6 DEF SessionStep
  <2>1. Building \/ Building'
    BY <2>0 DEF Begin, BuildCompile, TakePath, Install, Rebuild, Register, Render, LoadRules, Activate, Building
  <2>2. \A h \in Handler : ~Busy(h)
    BY <1>2, <1>3, <2>1 DEF Overlap
  <2>3. \A h \in Handler : Onwards(h)'
    BY <1>2, <2>2, IdleOnwards
  <2>4. calm' = "yes" => Settled'
    <3> SUFFICES ASSUME calm' = "yes" PROVE Settled'
      OBVIOUS
    <3>1. Settled
      BY <1>0, <1>3, <2>2 DEF Alone, Busy
    <3> USE <1>0, <1>1, <3>1, ValuesKnown
        DEF Settled, OneStrategy, ActPlaces, ActivationTypeOK, homes, datapath, session, copies, budgets
    <3>2. CASE Begin
      BY <3>2 DEF Begin
    <3>3. CASE BuildCompile
      BY <3>3 DEF BuildCompile, Bad
    <3>4. CASE TakePath
      BY <3>4 DEF TakePath
    <3>5. CASE Install
      BY <3>5 DEF Install
    <3>6. CASE Rebuild
      BY <3>6 DEF Rebuild
    <3>7. CASE Register
      BY <3>7 DEF Register
    <3>8. CASE Render
      BY <3>8 DEF Render
    <3>9. CASE LoadRules
      BY <3>9 DEF LoadRules
    <3>10. CASE Activate
      BY <3>10 DEF Activate
    <3> QED
      BY <2>0, <3>2, <3>3, <3>4, <3>5, <3>6, <3>7, <3>8, <3>9, <3>10
  <2> QED
    BY <1>3, <1>4, <2>3, <2>4 DEF Alone
<1> QED
  BY <1>5, <1>6

\* A step of a command that is under way: it is the only one, and nothing is being built.
LEMMA CommandAlone == ASSUME NEW h \in Handler, ActInv, CommandStep(h), Watch PROVE Alone'
<1> SUFFICES ASSUME calm' # "no" PROVE Alone'
  BY DEF Alone
<1> USE DEF homes, datapath, session, copies, budgets
<1>0. ActivationTypeOK /\ ActPlaces /\ Alone
  BY DEF ActInv
<1>1. /\ Busy(h) /\ \A g \in Handler \ {h} : cpc'[g] = cpc[g] /\ cmd'[g] = cmd[g]
      /\ cmd'[h] \in {cmd[h], "none"}
  BY <1>0 DEF CommandStep, Compile, CompileFails, WriteActiveName, Swap, EngineReload, TransportReload, ReloadRules,
              ReloadRulesFails, RestartForWindow, At, Answer, Busy, ActivationTypeOK
<1>2. \A g \in Handler : ~(~Busy(g) /\ cmd'[g] \in Strategy)
  BY <1>0, <1>1, ValuesKnown DEF ActPlaces
<1>3. calm # "no" /\ ~Overlap' /\ ~Overlap /\ \A g \in Handler : ~ReloadRulesFails(g)
  BY <1>0, <1>2, WatchTells DEF Alone, ActivationTypeOK
<1>4. /\ \A g \in Handler \ {h} : ~Busy(g) /\ ~Busy(g)' /\ cmd[g] \notin Strategy /\ Onwards(g)'
      /\ ~Building /\ spc \in {"rest", "await"} /\ setup \in {"none", "up"} /\ Onwards(h)
  <2>1. ~Building /\ \A g \in Handler \ {h} : ~Busy(g)
    BY <1>1, <1>3 DEF Overlap
  <2>2. \A g \in Handler \ {h} : ~Busy(g)' /\ cmd[g] \notin Strategy
    BY <1>0, <1>1, <2>1, ValuesKnown DEF Busy, ActPlaces
  <2>3. Onwards(h) /\ spc \in {"rest", "await"} /\ setup \in {"none", "up"}
    BY <1>0, <1>3, <2>1 DEF Alone, Building, ActivationTypeOK
  <2> QED
    BY <2>1, <2>2, <2>3, IdleOnwards
<1>5. calm = "trying" => cmd[h] \in Strategy
  BY <1>0, <1>4 DEF Alone
<1>6. /\ calm = "trying" => ~CompileFails(h)
      /\ ~RestartForWindow(h) => calm' = calm
      /\ RestartForWindow(h) => calm' = "yes"
  <2>1. \A g \in Handler : RestartForWindow(g) => g = h
    BY <1>0, <1>1 DEF RestartForWindow, At, ActivationTypeOK
  <2> QED
    BY <1>0, <1>3, <2>1, WatchTells DEF ActivationTypeOK
<1>7. ASSUME Onwards(h)', cmd' = cmd, ~RestartForWindow(h), cpc'[h] \notin {"idle", "compile"} PROVE Alone'
  BY <1>3, <1>4, <1>5, <1>6, <1>7 DEF Alone
<1> USE DEF At
<1>8. CASE Compile(h)
  <2>1. Onwards(h)'
    BY <1>0, <1>4, <1>8, ValuesKnown DEF Compile, Onwards, ActivationTypeOK, Busy
  <2> QED
    BY <1>0, <1>7, <1>8, <2>1 DEF Compile, RestartForWindow, ActivationTypeOK
<1>9. CASE CompileFails(h)
  <2>1. calm = "yes" /\ calm' = "yes"
    BY <1>0, <1>3, <1>6, <1>9 DEF ActivationTypeOK, CompileFails, RestartForWindow
  <2>2. Settled
    BY <1>0, <1>4, <1>9, <2>1 DEF Alone, Busy, CompileFails
  <2>3. Settled'
    BY <1>9, <2>2 DEF CompileFails, Settled, OneStrategy
  <2>4. ~Busy(h)'
    BY <1>0, <1>9 DEF CompileFails, Busy, ActivationTypeOK
  <2> QED
    BY <1>3, <1>4, <2>1, <2>3, <2>4, IdleOnwards DEF Alone
<1>10. CASE WriteActiveName(h)
  <2>1. Onwards(h)'
    BY <1>0, <1>4, <1>10, ValuesKnown DEF WriteActiveName, Onwards, ActivationTypeOK, Busy, ActPlaces
  <2> QED
    BY <1>0, <1>7, <1>10, <2>1 DEF WriteActiveName, RestartForWindow, ActivationTypeOK
<1>11. CASE Swap(h)
  <2>1. Onwards(h)'
    BY <1>0, <1>4, <1>11, ValuesKnown DEF Swap, Onwards, ActivationTypeOK, Busy, ActPlaces
  <2> QED
    BY <1>0, <1>7, <1>11, <2>1 DEF Swap, RestartForWindow, ActivationTypeOK
<1>12. CASE EngineReload(h)
  <2>1. Onwards(h)'
    BY <1>0, <1>4, <1>12, ValuesKnown DEF EngineReload, Onwards, ActivationTypeOK, Busy, ActPlaces
  <2> QED
    BY <1>0, <1>7, <1>12, <2>1 DEF EngineReload, RestartForWindow, ActivationTypeOK
<1>13. CASE TransportReload(h)
  <2>1. Onwards(h)'
    BY <1>0, <1>4, <1>13, ValuesKnown DEF TransportReload, Onwards, ActivationTypeOK, Busy, ActPlaces
  <2> QED
    BY <1>0, <1>7, <1>13, <2>1 DEF TransportReload, RestartForWindow, ActivationTypeOK
<1>14. CASE ReloadRules(h)
  <2>1. Onwards(h)'
    BY <1>0, <1>4, <1>14, ValuesKnown DEF ReloadRules, Onwards, ActivationTypeOK, Busy, ActPlaces
  <2> QED
    BY <1>0, <1>7, <1>14, <2>1 DEF ReloadRules, RestartForWindow, ActivationTypeOK
<1>15. CASE RestartForWindow(h)
  <2>1. ~Busy(h)' /\ calm' = "yes"
    BY <1>0, <1>6, <1>15 DEF RestartForWindow, Busy, ActivationTypeOK
  <2>2. /\ remembered = told' /\ path = told'
        /\ strat = val[h] /\ eng = val[h] /\ val[h][1] = told'
        /\ spc = "await" => tstrat = val[h] /\ rules = Window[val[h]]
    BY <1>0, <1>4, <1>15 DEF RestartForWindow, Onwards, OneStrategy, Busy, ActPlaces
  <2>3. Settled'
    <3>1. /\ UNCHANGED <<remembered, path, strat, eng, tstrat, rules, spc>>
          /\ setup' \in {"none", "up"} /\ (setup' = "up" => spc = "await") /\ spc \in {"rest", "await"}
      BY <1>0, <1>4, <1>15 DEF RestartForWindow, ActPlaces
    <3> QED
      BY <2>2, <3>1 DEF Settled, OneStrategy
  <2> QED
    BY <1>3, <1>4, <2>1, <2>3, IdleOnwards DEF Alone
<1> QED
  BY <1>3, <1>8, <1>9, <1>10, <1>11, <1>12, <1>13, <1>14, <1>15 DEF CommandStep

\* A new command: `calm' watches it when it is a `use' that meets nobody.
LEMMA CallAlone ==
  ASSUME NEW h \in Handler, NEW t \in Strategy \cup {"reload"}, ActInv, Call(h, t), Watch PROVE Alone'
<1> SUFFICES ASSUME calm' # "no" PROVE Alone'
  BY DEF Alone
<1> USE DEF homes, datapath, session, copies, budgets, At
<1>0. ActivationTypeOK /\ ActPlaces /\ Alone
  BY DEF ActInv
<1>1. /\ ~Busy(h) /\ Busy(h)' /\ cmd'[h] = t /\ cpc'[h] = "compile"
      /\ \A g \in Handler \ {h} : cpc'[g] = cpc[g] /\ cmd'[g] = cmd[g]
  BY <1>0 DEF Call, Busy, ActivationTypeOK
<1>2. ~Overlap' /\ \A g \in Handler : ~RestartForWindow(g)
  <2>1. \A g \in Handler : ~RestartForWindow(g)
    BY <1>0, <1>1 DEF RestartForWindow, ActivationTypeOK
  <2> QED
    BY <1>0, <2>1, WatchTells DEF ActivationTypeOK
<1>3. /\ ~Building' /\ ~Building
      /\ \A g \in Handler \ {h} : ~Busy(g)' /\ ~Busy(g) /\ cmd'[g] \notin Strategy
  <2>1. ~Building' /\ \A g \in Handler \ {h} : ~Busy(g)'
    BY <1>1, <1>2 DEF Overlap
  <2>2. ~Building
    BY <2>1 DEF Building, Call
  <2> QED
    BY <1>0, <1>1, <2>1, <2>2, ValuesKnown DEF Busy, ActPlaces
<1>4. \A g \in Handler \ {h} : Onwards(g)'
  BY <1>3, IdleOnwards
<1>5. CASE calm = "no"
  <2>1. calm' = "trying" /\ \E g \in Handler : ~Busy(g) /\ cmd'[g] \in Strategy
    BY <1>0, <1>5, WatchTells DEF ActivationTypeOK
  <2>2. t \in Strategy
    BY <1>1, <1>3, <2>1
  <2>3. Onwards(h)'
    BY <1>0, <1>1, <2>2, ValuesKnown DEF Call, Onwards, ActivationTypeOK, Busy
  <2> QED
    BY <1>1, <1>2, <1>4, <2>1, <2>2, <2>3 DEF Alone
<1>6. CASE calm # "no"
  <2>1. \A g \in Handler : ~Busy(g)
    BY <1>1, <1>3
  <2>2. calm # "trying"
    BY <1>0, <1>6, <2>1, ValuesKnown DEF Alone, ActPlaces
  <2>3. calm = "yes" /\ calm' = "yes"
    BY <1>0, <1>6, <2>2, WatchTells DEF ActivationTypeOK
  <2>4. Settled
    BY <1>0, <2>1, <2>3 DEF Alone, Busy
  <2>5. Settled'
    BY <2>4 DEF Call, Settled, OneStrategy
  <2>6. Onwards(h)'
    BY <1>0, <1>1, <2>4, ValuesKnown DEF Call, Onwards, ActivationTypeOK, Busy, Settled, ActPlaces
  <2> QED
    BY <1>2, <1>4, <2>3, <2>5, <2>6 DEF Alone
<1> QED
  BY <1>5, <1>6

LEMMA ActivationStep == ActInv /\ [ActivationNext]_activation => ActInv'
<1> SUFFICES ASSUME ActInv, [ActivationNext]_activation PROVE ActInv'
  OBVIOUS
<1>1. ActivationTypeOK' /\ ActPlaces'
  BY ActivationTypeStep, ActivationPlacesStep DEF ActInv
<1>2. Alone'
  <2>1. CASE SessionStep /\ Watch
    BY <2>1, SessionAlone
  <2>2. CASE Edit /\ Watch
    <3> SUFFICES ASSUME calm' # "no" PROVE Alone'
      BY DEF Alone
    <3> USE <2>2 DEF Edit, homes, datapath, session, copies, budgets
    <3>0. ActivationTypeOK /\ ActPlaces /\ Alone
      BY DEF ActInv
    <3>1. \A h \in Handler : ~(~Busy(h) /\ cmd'[h] \in Strategy) /\ ~RestartForWindow(h)
      BY <3>0, ValuesKnown DEF ActPlaces, RestartForWindow, At, ActivationTypeOK
    <3>2. calm # "no" /\ calm' = calm /\ ~Overlap'
      BY <3>0, <3>1, WatchTells DEF ActivationTypeOK
    <3>3. (\A h \in Handler : Onwards(h)) => \A h \in Handler : Onwards(h)'
      BY DEF Onwards, Busy
    <3>4. Settled => Settled'
      BY DEF Settled, OneStrategy
    <3> QED
      BY <3>0, <3>2, <3>3, <3>4 DEF Alone
  <2>3. ASSUME NEW h \in Handler, CommandStep(h), Watch PROVE Alone'
    BY <2>3, CommandAlone
  <2>4. ASSUME NEW h \in Handler, NEW t \in Strategy \cup {"reload"}, Call(h, t), Watch PROVE Alone'
    BY <2>4, CallAlone
  <2>5. CASE UNCHANGED activation
    BY <2>5 DEF activation, homes, datapath, session, copies, budgets, ActInv, Alone, Onwards, Settled, OneStrategy, Overlap,
                Building, Busy
  <2> QED
    BY <2>1, <2>2, <2>3, <2>4, <2>5 DEF ActivationNext
<1> QED
  BY <1>1, <1>2 DEF ActInv

LEMMA Activations == ActivationSpec => []ActInv
<1>1. ActInv /\ [ActivationNext]_activation => ActInv'
  BY ActivationStep
<1> QED
  BY <1>1, ActivationInitInv, PTL DEF ActivationSpec

\* Each variable keeps its type, for any strategies, commands, edits and failures.
THEOREM ActivationTyped == ActivationSpec => []ActivationTypeOK
<1>1. ActInv => ActivationTypeOK
  BY DEF ActInv
<1> QED
  BY <1>1, Activations, PTL

(* After a `use' that met nobody, every home of a strategy has the one it named, *)
(* whatever sessions ended and whatever else was asked without an overlap.       *)
THEOREM LastWordStays == ActivationSpec => []LastWordHolds
<1>1. ActInv => LastWordHolds
  <2> SUFFICES ASSUME ActInv, calm = "yes", Quiet PROVE Settled /\ OneStrategy(strat)
    BY DEF LastWordHolds, Settled, OneStrategy, Quiet
  <2>1. Settled
    BY DEF ActInv, Alone, Quiet, Busy
  <2> QED
    BY <2>1 DEF Settled, Quiet
<1> QED
  BY <1>1, Activations, PTL

-----------------------------------------------------------------------------
(* Vpn                                                                       *)

\* Before the first bootout, at the jobs, and after the last of them.
VpnPlaces ==
    /\ vpc \in {"quit", "quitWait", "look"} => job = 1
    /\ vpc \in {"bootout", "bootoutWait"} => job \in Job
    /\ vpc \in {"lookAgain", "term", "termWait", "kill", "killWait"} => job = NumJobs + 1

\* What has been seen by then; a signal is sent only after a look that told or failed.
VpnLooks ==
    /\ vpc \in Stopping \ {"quit", "quitWait", "look"} => seen # "nothing" \/ blind
    /\ vpc \in {"term", "termWait", "kill", "killWait"} => force /\ (seen = "held" \/ blind)

\* Where the jobs are on record that a Stop has unloaded and a Start has still to load.
VpnRecords ==
    /\ vpc # "idle" => result = "none"
    /\ vpc \in Stopping => unloaded \subseteq took
    /\ vpc \in {"bootstrap", "forget"} => unloaded = {} /\ file \cap owed \subseteq took
    /\ vpc = "forget" => took = {}
    /\ vpc = "idle" /\ ~spoiled => unloaded \subseteq file

VpnInv == VpnTypeOK /\ VpnPlaces /\ VpnLooks /\ VpnRecords

\* What the steps count.
LEMMA JobsCounted ==
    /\ 1 \in 1 .. NumJobs + 1 /\ Job \subseteq 1 .. NumJobs + 1
    /\ \A j \in Job : j + 1 \in 1 .. NumJobs + 1 /\ (j < NumJobs => j + 1 \in Job) /\ (~(j < NumJobs) => j = NumJobs)
    /\ \A j \in 1 .. NumJobs + 1 : j <= NumJobs => j \in Job
    /\ NumJobs # 0 => 1 \in Job
    /\ 0 \in 0 .. MaxCalls /\ \A k \in 0 .. MaxCalls : k < MaxCalls => k + 1 \in 0 .. MaxCalls
    /\ Job \subseteq Proc /\ App \in Proc
  BY VpnAssumption, SMT DEF Job, Proc

LEMMA VpnInitInv == VpnInit => VpnInv
<1> SUFFICES ASSUME VpnInit PROVE VpnInv
  OBVIOUS
<1> USE JobsCounted DEF VpnInit
<1>1. up \subseteq Proc /\ holders \subseteq Proc
  OBVIOUS
<1>2. VpnTypeOK
  BY <1>1 DEF VpnTypeOK
<1> QED
  BY <1>2 DEF VpnInv, VpnPlaces, VpnLooks, VpnRecords, Stopping

\* No step of Stop or Start, of launchd or of the user disturbs the invariant.
LEMMA VpnStep == VpnInv /\ [VpnNext]_vpn => VpnInv'
<1> SUFFICES ASSUME VpnInv, [VpnNext]_vpn PROVE VpnInv'
  OBVIOUS
<1> USE JobsCounted DEF VpnInv, VpnTypeOK, VpnPlaces, VpnLooks, VpnRecords, Stopping
<1>1. CASE BeginStop
  <2>1. VpnTypeOK'
    BY <1>1 DEF BeginStop, machine
  <2> QED
    BY <1>1, <2>1 DEF BeginStop, machine
<1>2. CASE QuitApp
  BY <1>2 DEF QuitApp, Unmoved
<1>3. ASSUME NEW from, NEW cleared, NEW else, Look(from, cleared, else),
             <<from, cleared, else>> \in {<<"quitWait", "look", "look">>,
                 <<"look", "write", IF NumJobs = 0 THEN "lookAgain" ELSE "bootout">>,
                 <<"lookAgain", "write", Escalate>>, <<"termWait", "write", "kill">>,
                 <<"killWait", "write", "write">>}
      PROVE  VpnInv'
  <2>1. Sight \in {"held", "clear"} /\ (Held <=> Sight = "held")
    BY DEF Sight
  <2>2. UNCHANGED <<file, force, procs, unloaded, owed, calls, spoiled, loaded, up, holders, alien, job, took, result>>
    BY <1>3 DEF Look, Unmoved, machine
  <2>3. /\ from = vpc
        /\ \/ vpc' = cleared /\ seen' = Sight /\ blind' = blind
           \/ vpc' = else /\ seen' = "held" /\ blind' = blind
           \/ vpc' = else /\ blind' = TRUE /\ seen' = seen
    BY <1>3, <2>1 DEF Look
  <2>4. CASE from = "quitWait" /\ cleared = "look" /\ else = "look"
    <3>1. vpc = "quitWait" /\ vpc' = "look"
      BY <2>3, <2>4
    <3> QED
      BY <2>1, <2>2, <2>3, <3>1
  <2>5. CASE from = "look" /\ cleared = "write" /\ else = (IF NumJobs = 0 THEN "lookAgain" ELSE "bootout")
    <3>1. vpc = "look" /\ job = 1 /\ (NumJobs = 0 => job = NumJobs + 1)
      BY <2>3, <2>5
    <3>2. \/ vpc' = "write" /\ (seen' # "nothing" \/ blind')
          \/ vpc' = "lookAgain" /\ NumJobs = 0 /\ (seen' # "nothing" \/ blind')
          \/ vpc' = "bootout" /\ NumJobs # 0 /\ (seen' # "nothing" \/ blind')
      BY <2>1, <2>3, <2>5
    <3>3. seen' \in {"nothing", "held", "clear"} /\ blind' \in BOOLEAN
      BY <2>1, <2>3
    <3> QED
      BY <2>2, <3>1, <3>2, <3>3
  <2>6. CASE from = "lookAgain" /\ cleared = "write" /\ else = Escalate
    BY <2>1, <2>2, <2>3, <2>6 DEF Escalate
  <2>7. CASE from = "termWait" /\ cleared = "write" /\ else = "kill"
    BY <2>1, <2>2, <2>3, <2>7
  <2>8. CASE from = "killWait" /\ cleared = "write" /\ else = "write"
    BY <2>1, <2>2, <2>3, <2>8
  <2> QED
    BY <1>3, <2>4, <2>5, <2>6, <2>7, <2>8
<1>4. CASE Bootout
  BY <1>4 DEF Bootout
<1>5. CASE BootoutWait
  <2>1. Sight \in {"held", "clear"} /\ job \in Job
    BY <1>5 DEF Sight, BootoutWait
  <2>2. UNCHANGED <<file, force, procs, unloaded, owed, calls, spoiled, loaded, up, holders, alien, took, result>>
    BY <1>5 DEF BootoutWait, Unmoved, machine
  <2>3. /\ vpc = "bootoutWait" /\ vpc' \in {NextJob(job), "write"} /\ job' = IF vpc' = "write" THEN job ELSE job + 1
        /\ \/ seen' = Sight /\ blind' = blind
           \/ blind' = TRUE /\ seen' = seen
    BY <1>5 DEF BootoutWait
  <2>4. CASE vpc' = "write"
    BY <2>1, <2>2, <2>3, <2>4
  <2>5. CASE vpc' # "write"
    <3>1. job' = job + 1 /\ vpc' = IF job < NumJobs THEN "bootout" ELSE "lookAgain"
      BY <2>3, <2>5 DEF NextJob
    <3> QED
      BY <2>1, <2>2, <2>3, <3>1
  <2> QED
    BY <2>4, <2>5
<1>6. CASE Term \/ KillProcs
  BY <1>6 DEF Term, KillProcs, Unmoved
<1>7. CASE WriteState
  BY <1>7 DEF WriteState, machine
<1>8. CASE BootoutFails
  BY <1>8 DEF BootoutFails, Unmoved, machine, NextJob
<1>9. CASE BeginStart
  <2>1. VpnTypeOK'
    BY <1>9 DEF BeginStart, machine
  <2> QED
    BY <1>9, <2>1 DEF BeginStart, machine
<1>10. CASE Bootstrap
  BY <1>10 DEF Bootstrap
<1>11. CASE Forget
  BY <1>11 DEF Forget, machine
<1>12. ASSUME NEW j \in Job, Respawn(j) PROVE VpnInv'
  BY <1>12 DEF Respawn
<1>13. CASE Crash
  BY <1>13 DEF Crash, machine
<1>14. CASE UNCHANGED vpn
  BY <1>14 DEF vpn, machine
<1>15. CASE StopStep
  BY <1>2, <1>3, <1>4, <1>5, <1>6, <1>7, <1>15 DEF StopStep
<1> QED
  BY <1>1, <1>8, <1>9, <1>10, <1>11, <1>12, <1>13, <1>14, <1>15 DEF VpnNext, StartStep

(* Vpn: a Stop leaves on record what it unloaded, and signals come last.        *)
THEOREM StopsAreRecorded == VpnSpec => []StopRecords
<1>1. VpnInv => StopRecords
  BY DEF VpnInv, StopRecords, VpnPlaces, VpnLooks, VpnRecords, ReturnRecords, SignalsComeLast
<1> QED
  BY <1>1, VpnInitInv, VpnStep, PTL DEF VpnSpec

(* Vpn: a success means that no tunnel default was seen, and the record goes    *)
(* only with a Start that has brought back all that is on it.                   *)
THEOREM AnswersAreHonest == VpnSpec => VpnHonest
<1> DEFINE Ok == vpc = "write" /\ result' = "ok" => seen = "clear" \/ blind
           Kept == file' # file /\ vpc = "forget" => file \cap owed = {}
<1>1. ASSUME VpnInv, [VpnNext]_vpn PROVE [Ok]_vpn
  <2>1. CASE WriteState
    BY <1>1, <2>1 DEF WriteState, VpnInv, VpnLooks, VpnRecords, VpnTypeOK, Stopping
  <2>2. ASSUME vpc = "write", ~WriteState PROVE result' # "ok"
    <3>1. result = "none"
      BY <1>1, <2>2 DEF VpnInv, VpnRecords
    <3>2. ASSUME NEW from \in Stopping \ {"write"}, NEW cleared, NEW else, Look(from, cleared, else) PROVE FALSE
      BY <2>2, <3>2 DEF Look
    <3>3. CASE StopStep
      BY <2>2, <3>2, <3>3 DEF StopStep, QuitApp, Bootout, BootoutWait, Term, KillProcs, Stopping
    <3>4. CASE StartStep \/ BeginStop \/ BeginStart \/ BootoutFails
      BY <2>2, <3>4 DEF StartStep, BeginStop, BeginStart, BootoutFails, Bootstrap, Forget
    <3>5. CASE Crash \/ \E j \in Job : Respawn(j)
      BY <3>1, <3>5 DEF Crash, Respawn
    <3> QED
      BY <1>1, <3>1, <3>3, <3>4, <3>5 DEF VpnNext, vpn
  <2> QED
    BY <2>1, <2>2
<1>2. ASSUME VpnInv, [VpnNext]_vpn PROVE [Kept]_vpn
  BY <1>2 DEF VpnInv, VpnRecords
<1> QED
  BY <1>1, <1>2, VpnInitInv, VpnStep, PTL DEF VpnSpec, VpnHonest, OkMeansClear, RecordOutlivesFailure
-----------------------------------------------------------------------------
(* SelfTest                                                                  *)

\* The stages of a probe, and the probes that are under way.
Route(i) == {Stages(Probes[i].kind)[j] : j \in DOMAIN Stages(Probes[i].kind)}
InFlight == {i \in Index : stage[i] \in Underway}

\* Whom a failure of probe i with the signature of DPI may be put down to.
Blameless(i) == fault[i] = "path" \/ (fault[i] = "caller" /\ Probes[i].kind \in {"wss", "stun"})

Flight == slots = Cardinality(InFlight)
OnRoute == \A i \in Index : stage[i] \in Underway => stage[i] \in Route(i)
Reported == \A i \in Index : stage[i] = "done" => results[i].class # "none"
Blamed == \A i \in Index : Blocked(results[i].class) => Blameless(i)
AllIn == runner = "returned" => \A i \in Index : stage[i] = "done"

SelfTestInv == SelfTestTypeOK /\ Flight /\ OnRoute /\ Reported /\ Blamed /\ AllIn

\* Every kind of probe begins with the resolver and passes through stages of Underway;
\* an exchange is part of two kinds only.
LEMMA StagesKnown ==
  ASSUME NEW kind \in Kinds
  PROVE  /\ Len(Stages(kind)) \in Nat /\ DOMAIN Stages(kind) = 1 .. Len(Stages(kind))
         /\ \A j \in DOMAIN Stages(kind) :
                Stages(kind)[j] \in Underway /\ (Stages(kind)[j] = "exchange" => kind \in {"wss", "stun"})
         /\ 1 \in DOMAIN Stages(kind)
<1>1. CASE kind = "tcp"
  <2>1. Stages(kind) = <<"resolve", "connect">>
    BY <1>1 DEF Stages
  <2> QED
    BY <2>1, <1>1 DEF Underway
<1>2. CASE kind = "tls"
  <2>1. Stages(kind) = <<"resolve", "connect", "handshake">>
    BY <1>2 DEF Stages
  <2> QED
    BY <2>1, <1>2 DEF Underway
<1>3. CASE kind = "wss"
  <2>1. Stages(kind) = <<"resolve", "connect", "handshake", "exchange">>
    BY <1>3 DEF Stages
  <2> QED
    BY <2>1, <1>3 DEF Underway
<1>4. CASE kind = "stun"
  <2>1. Stages(kind) = <<"resolve", "exchange">>
    BY <1>4 DEF Stages
  <2> QED
    BY <2>1, <1>4 DEF Underway
<1>5. CASE kind = "https"
  <2>1. Stages(kind) = <<"resolve", "connect", "handshake", "answer", "body">>
    BY <1>5 DEF Stages
  <2> QED
    BY <2>1, <1>5 DEF Underway
<1> QED
  BY <1>1, <1>2, <1>3, <1>4, <1>5 DEF Kinds

\* The table, entry by entry.
LEMMA Table ==
    /\ ErrorOrder[1][1] = "not-found" /\ ErrorOrder[1][2] = "dns-nxdomain"
    /\ ErrorOrder[2][1] = "dns" /\ ErrorOrder[2][2] = "dns"
    /\ ErrorOrder[3][1] = "record-header" /\ ErrorOrder[3][2] = "tls-handshake"
    /\ ErrorOrder[4][1] = "certificate" /\ ErrorOrder[4][2] = "tls-cert"
    /\ ErrorOrder[5][1] = "alert" /\ ErrorOrder[5][2] = "tls-alert"
    /\ ErrorOrder[6][1] = "canceled" /\ ErrorOrder[6][2] = "canceled"
    /\ ErrorOrder[7][1] = "deadline" /\ ErrorOrder[7][2] = "timeout"
    /\ ErrorOrder[8][1] = "reset" /\ ErrorOrder[8][2] = "rst"
    /\ ErrorOrder[9][1] = "refused" /\ ErrorOrder[9][2] = "refused"
    /\ ErrorOrder[10][1] = "no-route" /\ ErrorOrder[10][2] = "unreachable"
    /\ ErrorOrder[11][1] = "timed-out" /\ ErrorOrder[11][2] = "timeout"
    /\ ErrorOrder[12][1] = "net-timeout" /\ ErrorOrder[12][2] = "timeout"
    /\ ErrorOrder[13][1] = "eof" /\ ErrorOrder[13][2] = "eof"
    /\ DOMAIN ErrorOrder = 1 .. 13
  BY DEF ErrorOrder

\* The first entry of the table that an error contains decides.
LEMMA ClassOf ==
  ASSUME NEW e, NEW m \in 1 .. 13, ErrorOrder[m][1] \in e,
         \A j \in 1 .. 13 : j < m => ErrorOrder[j][1] \notin e
  PROVE  ClassifyError(e) = ErrorOrder[m][2]
<1> DEFINE hits == {i \in DOMAIN ErrorOrder : ErrorOrder[i][1] \in e}
<1>1. DOMAIN ErrorOrder = 1 .. 13
  BY Table
<1>2. m \in hits /\ \A j \in hits : m <= j
  BY <1>1
<1>3. \A i \in hits : (\A j \in hits : i <= j) => i = m
  BY <1>1, <1>2
<1>4. (CHOOSE i \in hits : \A j \in hits : i <= j) = m
  BY <1>2, <1>3
<1> QED
  BY <1>2, <1>4 DEF ClassifyError

\* What the errors of the stages are called.
LEMMA ErrorClasses ==
    /\ ClassifyError({"dns", "not-found"}) = "dns-nxdomain"
    /\ ClassifyError({"refused"}) = "refused"
    /\ ClassifyError({"no-route"}) = "unreachable"
    /\ ClassifyError({"canceled"}) = "canceled"
    /\ ClassifyError({"timed-out", "net-timeout"}) = "timeout"
    /\ ClassifyError({"net-timeout", "deadline"}) = "timeout"
    /\ ClassifyError({"net-timeout"}) = "timeout"
    /\ ClassifyError({"record-header"}) = "tls-handshake"
    /\ ClassifyError({"certificate"}) = "tls-cert"
    /\ ClassifyError({"alert"}) = "tls-alert"
    /\ ClassifyError({"reset"}) = "rst"
    /\ ClassifyError({"eof"}) = "eof"
    /\ \A e : "dns" \in e /\ "not-found" \notin e => ClassifyError(e) = "dns"
<1> USE Table
<1>1. ClassifyError({"dns", "not-found"}) = "dns-nxdomain"
  <2>1. \A j \in 1 .. 13 : j < 1 => ErrorOrder[j][1] \notin {"dns", "not-found"}
    OBVIOUS
  <2> QED
    BY <2>1, ClassOf
<1>2. ClassifyError({"refused"}) = "refused"
  <2>1. \A j \in 1 .. 13 : j < 9 => ErrorOrder[j][1] \notin {"refused"}
    OBVIOUS
  <2> QED
    BY <2>1, ClassOf
<1>3. ClassifyError({"no-route"}) = "unreachable"
  <2>1. \A j \in 1 .. 13 : j < 10 => ErrorOrder[j][1] \notin {"no-route"}
    OBVIOUS
  <2> QED
    BY <2>1, ClassOf
<1>4. ClassifyError({"canceled"}) = "canceled"
  <2>1. \A j \in 1 .. 13 : j < 6 => ErrorOrder[j][1] \notin {"canceled"}
    OBVIOUS
  <2> QED
    BY <2>1, ClassOf
<1>5. ClassifyError({"timed-out", "net-timeout"}) = "timeout"
  <2>1. \A j \in 1 .. 13 : j < 11 => ErrorOrder[j][1] \notin {"timed-out", "net-timeout"}
    OBVIOUS
  <2> QED
    BY <2>1, ClassOf
<1>6. ClassifyError({"net-timeout", "deadline"}) = "timeout"
  <2>1. \A j \in 1 .. 13 : j < 7 => ErrorOrder[j][1] \notin {"net-timeout", "deadline"}
    OBVIOUS
  <2> QED
    BY <2>1, ClassOf
<1>7. ClassifyError({"net-timeout"}) = "timeout"
  <2>1. \A j \in 1 .. 13 : j < 12 => ErrorOrder[j][1] \notin {"net-timeout"}
    OBVIOUS
  <2> QED
    BY <2>1, ClassOf
<1>8. ClassifyError({"record-header"}) = "tls-handshake"
  <2>1. \A j \in 1 .. 13 : j < 3 => ErrorOrder[j][1] \notin {"record-header"}
    OBVIOUS
  <2> QED
    BY <2>1, ClassOf
<1>9. ClassifyError({"certificate"}) = "tls-cert"
  <2>1. \A j \in 1 .. 13 : j < 4 => ErrorOrder[j][1] \notin {"certificate"}
    OBVIOUS
  <2> QED
    BY <2>1, ClassOf
<1>10. ClassifyError({"alert"}) = "tls-alert"
  <2>1. \A j \in 1 .. 13 : j < 5 => ErrorOrder[j][1] \notin {"alert"}
    OBVIOUS
  <2> QED
    BY <2>1, ClassOf
<1>11. ClassifyError({"reset"}) = "rst"
  <2>1. \A j \in 1 .. 13 : j < 8 => ErrorOrder[j][1] \notin {"reset"}
    OBVIOUS
  <2> QED
    BY <2>1, ClassOf
<1>12. ClassifyError({"eof"}) = "eof"
  <2>1. \A j \in 1 .. 13 : j < 13 => ErrorOrder[j][1] \notin {"eof"}
    OBVIOUS
  <2> QED
    BY <2>1, ClassOf
<1>13. ASSUME NEW e, "dns" \in e, "not-found" \notin e PROVE ClassifyError(e) = "dns"
  <2>1. \A j \in 1 .. 13 : j < 2 => ErrorOrder[j][1] \notin e
    BY <1>13
  <2> QED
    BY <1>13, <2>1, ClassOf
<1> QED
  BY <1>1, <1>2, <1>3, <1>4, <1>5, <1>6, <1>7, <1>8, <1>9, <1>10, <1>11, <1>12, <1>13

\* No class but those of DPI counts as blocked.
LEMMA Innocent ==
  \A class \in {"none", "ok", "refused", "unreachable", "dns", "dns-nxdomain", "canceled", "bad-url", "http-status",
                "other", "tls-cert"} : ~Blocked(class)
  BY DEF Blocked

LEMMA IndexFinite == IsFiniteSet(Index) /\ Index = 1 .. Len(Probes) /\ Len(Probes) \in Nat
                     /\ \A i \in Index : Probes[i].kind \in Kinds /\ Probes[i].control \in BOOLEAN
<1> DEFINE P == [kind : Kinds, control : BOOLEAN, expect : BOOLEAN]
<1>1. Index = 1 .. Len(Probes) /\ Len(Probes) \in Nat /\ Probes \in [Index -> P]
  BY SelfTestAssumption, LenProperties DEF Index
<1>2. IsFiniteSet(Index)
  BY <1>1, FS_Interval
<1> QED
  BY <1>1, <1>2

LEMMA SelfTestInitInv == SelfTestInit => SelfTestInv
<1> SUFFICES ASSUME SelfTestInit PROVE SelfTestInv
  OBVIOUS
<1> USE DEF SelfTestInit
<1>1. SelfTestTypeOK
  <2>1. \A i \in Index : Probes[i].control \in BOOLEAN
    BY IndexFinite
  <2>2. results \in [Index -> [control : BOOLEAN, ok : BOOLEAN, class : Classes \cup {"none"}, time : 0 .. 1]]
    BY <2>1
  <2> QED
    BY <2>2, SelfTestAssumption DEF SelfTestTypeOK, SelfTestAssumption
<1>2. Flight
  <2>1. InFlight = {}
    BY DEF InFlight, Underway
  <2> QED
    BY <2>1, FS_EmptySet DEF Flight
<1>3. OnRoute /\ Reported /\ AllIn
  BY DEF OnRoute, Underway, Reported, AllIn
<1>4. Blamed
  BY Innocent DEF Blamed
<1> QED
  BY <1>1, <1>2, <1>3, <1>4 DEF SelfTestInv

\* The result of one probe is written, those of the others stay.
LEMMA ResultWritten ==
  ASSUME SelfTestTypeOK, NEW i \in Index, NEW class \in Classes, NEW who, Report(i, class, who)
  PROVE  /\ results' \in [Index -> [control : BOOLEAN, ok : BOOLEAN, class : Classes \cup {"none"}, time : 0 .. 1]]
         /\ results'[i].class = class
         /\ \A j \in Index \ {i} : results'[j] = results[j]
<1> DEFINE R == [control : BOOLEAN, ok : BOOLEAN, class : Classes \cup {"none"}, time : 0 .. 1]
           ok == class = "ok"
           time == IF class = "ok" /\ Probes[i].kind # "tcp" THEN 1 ELSE 0
           r1 == [results[i] EXCEPT !.ok = ok]
           r2 == [r1 EXCEPT !.class = class]
           r3 == [r2 EXCEPT !.time = time]
<1>1. results[i] \in R /\ DOMAIN results = Index
  BY DEF SelfTestTypeOK
<1>2. r1 \in R
  BY <1>1
<1>3. r2 \in R /\ r2.class = class
  BY <1>2
<1>9. time \in 0 .. 1
  OBVIOUS
<1> HIDE DEF r2, time
<1>4. r3 \in R /\ r3.class = class
  BY <1>3, <1>9
<1> USE DEF r2, time
<1>5. DOMAIN results' = Index /\ \A j \in Index : results'[j] = IF j = i THEN r3 ELSE results[j]
  BY <1>1 DEF Report
<1>6. results' = [j \in Index |-> IF j = i THEN r3 ELSE results[j]]
  BY <1>5 DEF Report
<1>7. \A j \in Index : results[j] \in R
  BY DEF SelfTestTypeOK
<1> HIDE DEF r3, R
<1>8. results' \in [Index -> R]
  BY <1>4, <1>6, <1>7
<1> QED
  BY <1>4, <1>5, <1>8 DEF R

\* A probe under way frees its slot and leaves a result; it is blamed if need be.
LEMMA ReportStep ==
  ASSUME SelfTestInv, NEW i \in Index, stage[i] \in Underway, runner = "running",
         NEW class \in Classes, NEW who \in {"none", "path", "local", "caller"}, Report(i, class, who),
         Blocked(class) => who = "path" \/ (who = "caller" /\ Probes[i].kind \in {"wss", "stun"})
  PROVE  SelfTestInv'
<1> USE DEF SelfTestInv, SelfTestTypeOK, Report
<1>1. /\ stage' = [stage EXCEPT ![i] = "done"] /\ slots' = slots - 1 /\ slots > 0
      /\ fault' = [fault EXCEPT ![i] = who] /\ UNCHANGED <<runner, quit>>
  OBVIOUS
<1>2. /\ results' \in [Index -> [control : BOOLEAN, ok : BOOLEAN, class : Classes \cup {"none"}, time : 0 .. 1]]
      /\ results'[i].class = class
      /\ \A j \in Index \ {i} : results'[j] = results[j]
  BY ResultWritten
<1>3. SelfTestTypeOK'
  BY <1>1, <1>2, SelfTestAssumption DEF SelfTestAssumption
<1>4. Flight'
  <2>1. InFlight' = InFlight \ {i} /\ i \in InFlight /\ InFlight \subseteq Index
    BY <1>1 DEF InFlight, Underway
  <2>2. IsFiniteSet(InFlight)
    BY <2>1, IndexFinite, FS_Subset
  <2> QED
    BY <1>1, <2>1, <2>2, FS_RemoveElement DEF Flight
<1>5. OnRoute'
  BY <1>1 DEF OnRoute, Underway, Route
<1>6. Reported'
  BY <1>1, <1>2 DEF Reported, Classes
<1>7. Blamed'
  BY <1>1, <1>2 DEF Blamed, Blameless
<1>8. AllIn'
  BY <1>1 DEF AllIn
<1> QED
  BY <1>3, <1>4, <1>5, <1>6, <1>7, <1>8

\* A probe goes on to another stage of its kind.
LEMMA MoveStep ==
  ASSUME SelfTestInv, NEW i \in Index, stage[i] \in Underway, NEW s \in Route(i), runner = "running",
         stage' = [stage EXCEPT ![i] = s], UNCHANGED <<runner, slots, results, fault, quit>>
  PROVE  SelfTestInv'
<1> USE DEF SelfTestInv, SelfTestTypeOK
<1>1. s \in Underway
  BY StagesKnown, IndexFinite DEF Route
<1>2. SelfTestTypeOK'
  BY <1>1
<1>3. InFlight' = InFlight
  BY <1>1 DEF InFlight
<1>4. Flight' /\ OnRoute' /\ Reported' /\ Blamed' /\ AllIn'
  BY <1>1, <1>3 DEF Flight, OnRoute, Route, Reported, Blamed, Blameless, AllIn, Underway
<1> QED
  BY <1>2, <1>4

\* No step of the runner, of a probe or of the caller disturbs the invariant.
LEMMA SelfTestStep == SelfTestInv /\ [SelfTestNext]_selftest => SelfTestInv'
<1> SUFFICES ASSUME SelfTestInv, [SelfTestNext]_selftest PROVE SelfTestInv'
  OBVIOUS
<1> USE IndexFinite
<1>1. ASSUME NEW i \in Index, Acquire(i) PROVE SelfTestInv'
  <2> USE <1>1 DEF Acquire
  <2> DEFINE s == Stages(Probes[i].kind)[1]
  <2>1. s \in Route(i) /\ s \in Underway
    BY StagesKnown DEF Route
  <2>2. SelfTestTypeOK'
    BY <2>1, SelfTestAssumption DEF SelfTestInv, SelfTestTypeOK, SelfTestAssumption
  <2>3. Flight'
    <3>1. InFlight' = InFlight \cup {i} /\ i \notin InFlight /\ InFlight \subseteq Index
      BY <2>1 DEF SelfTestInv, SelfTestTypeOK, InFlight, Underway
    <3>2. IsFiniteSet(InFlight)
      BY <3>1, FS_Subset
    <3> QED
      BY <3>1, <3>2, FS_AddElement DEF SelfTestInv, Flight
  <2>4. \A j \in Index : stage'[j] = IF j = i THEN s ELSE stage[j]
    BY DEF SelfTestInv, SelfTestTypeOK
  <2>6. OnRoute'
    <3> HIDE DEF s
    <3> QED
      BY <2>1, <2>4 DEF SelfTestInv, OnRoute, Route
  <2>7. Reported' /\ AllIn'
    BY <2>1, <2>4 DEF SelfTestInv, Reported, AllIn, Underway
  <2>5. Blamed'
    BY DEF SelfTestInv, Blamed, Blameless
  <2> QED
    BY <2>2, <2>3, <2>5, <2>6, <2>7 DEF SelfTestInv
<1>2. ASSUME NEW i \in Index, Unqueue(i) PROVE SelfTestInv'
  <2> USE <1>2 DEF Unqueue
  <2> DEFINE R == [control : BOOLEAN, ok : BOOLEAN, class : Classes \cup {"none"}, time : 0 .. 1]
             new == [results[i] EXCEPT !.class = "canceled"]
  <2>1. new \in R /\ new.class = "canceled"
    BY DEF SelfTestInv, SelfTestTypeOK, Classes
  <2>2. results' = [results EXCEPT ![i] = new] /\ results \in [Index -> R]
    BY DEF SelfTestInv, SelfTestTypeOK
  <2> HIDE DEF new, R
  <2>3. results' \in [Index -> R] /\ results'[i].class = "canceled" /\ \A j \in Index \ {i} : results'[j] = results[j]
    BY <2>1, <2>2
  <2>4. SelfTestTypeOK'
    BY <2>3 DEF SelfTestInv, SelfTestTypeOK, R
  <2>5. InFlight' = InFlight
    BY DEF SelfTestInv, SelfTestTypeOK, InFlight, Underway
  <2>6. Flight' /\ OnRoute' /\ AllIn'
    BY <2>5 DEF SelfTestInv, SelfTestTypeOK, Flight, OnRoute, Route, AllIn, Underway
  <2>7. Reported'
    BY <2>3 DEF SelfTestInv, SelfTestTypeOK, Reported
  <2>8. Blamed'
    BY <2>3, Innocent DEF SelfTestInv, SelfTestTypeOK, Blamed, Blameless
  <2> QED
    BY <2>4, <2>6, <2>7, <2>8 DEF SelfTestInv
<1>3. ASSUME NEW i \in Index, BadURL(i) PROVE SelfTestInv'
  BY <1>3, ReportStep, Innocent DEF BadURL, Live, Classes
<1>4. ASSUME NEW i \in Index, Advance(i) PROVE SelfTestInv'
  <2> DEFINE todo == Stages(Probes[i].kind)
             m == CHOOSE k \in DOMAIN todo : todo[k] = stage[i]
  <2>1. stage[i] \in Underway /\ runner = "running"
    BY <1>4 DEF Advance, Live
  <2>2. m \in DOMAIN todo /\ DOMAIN todo = 1 .. Len(todo) /\ Len(todo) \in Nat
    BY <2>1, StagesKnown DEF SelfTestInv, OnRoute, Route
  <2>3. CASE m = Len(todo)
    <3>1. Report(i, "ok", "none")
      BY <1>4, <2>3 DEF Advance
    <3> QED
      BY <2>1, <3>1, ReportStep, Innocent DEF Classes
  <2>4. CASE m # Len(todo)
    <3>1. stage' = [stage EXCEPT ![i] = todo[m + 1]] /\ UNCHANGED <<runner, slots, results, fault, quit>>
      BY <1>4, <2>4 DEF Advance
    <3>2. m + 1 \in DOMAIN todo
      BY <2>2, <2>4
    <3>3. todo[m + 1] \in Route(i)
      BY <3>2 DEF Route
    <3> QED
      BY <2>1, <3>1, <3>3, MoveStep
  <2> QED
    BY <2>3, <2>4
<1>5. ASSUME NEW i \in Index, PathFails(i) PROVE SelfTestInv'
  <2>1. PICK e \in PathErrors(Probes[i].kind, stage[i]) : Report(i, ClassifyError(Wrapped(stage[i], e)), "path")
    BY <1>5 DEF PathFails
  <2>2. stage[i] # "resolve" /\ e \in {{"timed-out", "net-timeout"}, {"record-header"}, {"certificate"}, {"alert"},
                                         {"reset"}, {"eof"}}
    BY DEF PathErrors
  <2>3. ClassifyError(Wrapped(stage[i], e)) \in Classes
    BY ZenonT(40), <2>2, ErrorClasses DEF Wrapped, Classes
  <2> QED
    BY <1>5, <2>1, <2>3, ReportStep DEF PathFails, Live
<1>6. ASSUME NEW i \in Index, LocalFails(i) PROVE SelfTestInv'
  <2>1. PICK e \in LocalErrors(Probes[i].kind, stage[i]) : Report(i, ClassifyError(Wrapped(stage[i], e)), "local")
    BY <1>6 DEF LocalFails
  <2>2. \/ stage[i] = "resolve" /\ e \in {{"dns", "not-found"}, {"dns", "net-timeout"}}
        \/ stage[i] # "resolve" /\ e \in {{"refused"}, {"no-route"}}
    BY DEF LocalErrors
  <2>3. ClassifyError(Wrapped(stage[i], e)) \in {"dns", "dns-nxdomain", "refused", "unreachable"}
    <3>1. CASE e = {"dns", "not-found"} /\ stage[i] = "resolve"
      <4>1. Wrapped(stage[i], e) = {"dns", "not-found"}
        BY <3>1 DEF Wrapped
      <4> QED
        BY <4>1, ErrorClasses
    <3>2. CASE e = {"dns", "net-timeout"} /\ stage[i] = "resolve"
      <4>1. "dns" \in Wrapped(stage[i], e) /\ "not-found" \notin Wrapped(stage[i], e)
        BY <3>2 DEF Wrapped
      <4> QED
        BY <4>1, ErrorClasses
    <3>3. CASE stage[i] # "resolve" /\ e \in {{"refused"}, {"no-route"}}
      BY <3>3, ErrorClasses DEF Wrapped
    <3> QED
      BY <2>2, <3>1, <3>2, <3>3
  <2>4. ClassifyError(Wrapped(stage[i], e)) \in Classes /\ ~Blocked(ClassifyError(Wrapped(stage[i], e)))
    BY <2>3, Innocent DEF Classes
  <2> QED
    BY <1>6, <2>1, <2>4, ReportStep DEF LocalFails, Live
<1>7. ASSUME NEW i \in Index, Misfit(i) PROVE SelfTestInv'
  <2>1. PICK d \in Misfits(Probes[i], stage[i]) : Report(i, d, "local")
    BY <1>7 DEF Misfit
  <2>2. d \in {"http-status", "other"}
    BY DEF Misfits
  <2>3. d \in Classes /\ ~Blocked(d)
    BY <2>2, Innocent DEF Classes
  <2> QED
    BY <1>7, <2>1, <2>3, ReportStep DEF Misfit, Live
<1>8. ASSUME NEW i \in Index, Expire(i) PROVE SelfTestInv'
  <2> DEFINE e == {"net-timeout"} \cup IF Watched(stage[i]) THEN {"deadline"} ELSE {}
             class == ClassifyError(Wrapped(stage[i], e))
             who == IF stage[i] = "resolve" THEN "local" ELSE IF quit /\ ~Watched(stage[i]) THEN "caller" ELSE "path"
  <2>1. stage[i] \in Underway /\ runner = "running" /\ Report(i, class, who)
    BY <1>8 DEF Expire, Live
  <2>2. CASE stage[i] = "resolve"
    <3>1. "dns" \in Wrapped(stage[i], e) /\ "not-found" \notin Wrapped(stage[i], e)
      BY <2>2 DEF Wrapped
    <3>2. class = "dns" /\ who = "local"
      BY <2>2, <3>1, ErrorClasses
    <3>3. class \in Classes /\ ~Blocked(class)
      BY <3>2, Innocent DEF Classes
    <3> HIDE DEF class, who
    <3> QED
      BY <2>1, <3>2, <3>3, ReportStep
  <2>3. CASE stage[i] # "resolve"
    <3>1. Wrapped(stage[i], e) = {"net-timeout", "deadline"} \/ Wrapped(stage[i], e) = {"net-timeout"}
      BY <2>3 DEF Wrapped
    <3>2. class = "timeout" /\ class \in Classes
      BY <3>1, ErrorClasses DEF Classes
    <3>3. who = "path" \/ (who = "caller" /\ Probes[i].kind \in {"wss", "stun"})
      <4>1. CASE Watched(stage[i])
        BY <2>3, <4>1
      <4>2. CASE stage[i] = "exchange"
        <5>1. PICK j \in DOMAIN Stages(Probes[i].kind) : Stages(Probes[i].kind)[j] = "exchange"
          BY <2>1, <4>2 DEF SelfTestInv, OnRoute, Route
        <5> QED
          BY <2>3, <5>1, StagesKnown
      <4> QED
        BY <4>1, <4>2 DEF Watched
    <3> HIDE DEF class, who
    <3> QED
      BY <2>1, <3>2, <3>3, ReportStep
  <2> QED
    BY <2>2, <2>3
<1>9. ASSUME NEW i \in Index, Interrupt(i) PROVE SelfTestInv'
  <2> DEFINE class == ClassifyError(Wrapped(stage[i], {"canceled"}))
  <2>1. stage[i] \in Underway /\ runner = "running" /\ Report(i, class, "caller")
    BY <1>9 DEF Interrupt, Live
  <2>2. class \in {"dns", "canceled"}
    <3>1. \/ "dns" \in Wrapped(stage[i], {"canceled"}) /\ "not-found" \notin Wrapped(stage[i], {"canceled"})
          \/ Wrapped(stage[i], {"canceled"}) = {"canceled"}
      BY DEF Wrapped
    <3> QED
      BY <3>1, ErrorClasses
  <2>3. class \in Classes /\ ~Blocked(class)
    BY <2>2, Innocent DEF Classes
  <2> HIDE DEF class
  <2> QED
    BY <2>1, <2>3, ReportStep
<1>10. CASE ReturnRun \/ CancelRun \/ UNCHANGED selftest
  <2>1. UNCHANGED <<stage, slots, results, fault>> /\ InFlight' = InFlight
    BY <1>10 DEF ReturnRun, CancelRun, selftest, InFlight
  <2>2. SelfTestTypeOK'
    <3>1. quit' \in BOOLEAN
      BY <1>10, Zenon DEF ReturnRun, CancelRun, selftest, SelfTestInv, SelfTestTypeOK
    <3>2. runner' \in {"running", "refused", "returned"}
      <4>1. runner' \in {runner, "returned"}
        BY <1>10, SMT DEF ReturnRun, CancelRun, selftest
      <4> QED
        BY <4>1 DEF SelfTestInv, SelfTestTypeOK
    <3> QED
      BY <2>1, <3>1, <3>2 DEF SelfTestInv, SelfTestTypeOK
  <2>3. AllIn'
    BY <1>10 DEF ReturnRun, CancelRun, selftest, SelfTestInv, AllIn
  <2> QED
    BY <2>1, <2>2, <2>3 DEF SelfTestInv, Flight, OnRoute, Route, Reported, Blamed, Blameless
<1> QED
  BY <1>1, <1>2, <1>3, <1>4, <1>5, <1>6, <1>7, <1>8, <1>9, <1>10 DEF SelfTestNext, Own

(* SelfTest: every probe has a result, the strategy is blamed for what the path *)
(* did only, and no more probes are under way than allowed.                     *)
THEOREM RunsReport == SelfTestSpec => []ProbesReported
<1>1. ASSUME SelfTestInv PROVE ProbesReported
  <2>1. BoundedFlight
    BY <1>1, SelfTestAssumption DEF SelfTestInv, SelfTestTypeOK, Flight, InFlight, BoundedFlight, SelfTestAssumption
  <2>2. EveryProbeReported
    BY <1>1 DEF SelfTestInv, AllIn, Reported, EveryProbeReported
  <2>3. ASSUME Verdict(Summarise(results)) = "strategy-fails"
        PROVE  \E i \in Index : Blameless(i)
    <3> DEFINE hit == {i \in 1 .. Len(results) : ~results[i].ok /\ Blocked(results[i].class)}
    <3>1. Summarise(results).blocked = Cardinality(hit)
      BY DEF Summarise, Count
    <3>2. Summarise(results).blocked > 0
      BY <2>3 DEF Verdict
    <3>3. hit # {}
      BY <3>1, <3>2, FS_EmptySet
    <3>4. 1 .. Len(results) = Index
      BY <1>1, IndexFinite DEF SelfTestInv, SelfTestTypeOK
    <3> QED
      BY <1>1, <3>3, <3>4 DEF SelfTestInv, Blamed
  <2> QED
    BY <1>1, <2>1, <2>2, <2>3 DEF ProbesReported, BlameNeedsPath, Blameless, SelfTestInv
<1> QED
  BY <1>1, SelfTestInitInv, SelfTestStep, PTL DEF SelfTestSpec

-----------------------------------------------------------------------------
(* Measure: scores and their order                                           *)

Scores == [targets : Nat, passed : Nat, blocked : Nat, controls : Nat, controlsPassed : Nat, median : Nat]

\* Better is a strict order, and what is not beaten by one is not beaten by a lesser one.
LEMMA BetterIrreflexive == \A s \in Scores : ~Better(s, s)
  BY DEF Better, Faster, Scores

LEMMA BetterTransitive ==
  ASSUME NEW s \in Scores, NEW t \in Scores, NEW u \in Scores, Better(s, t), Better(t, u)
  PROVE  Better(s, u)
  BY DEF Better, Faster, Valid, Scores

\* How many of a sequence have a property.
LEMMA CountIsNat ==
  ASSUME NEW m \in Nat, NEW S \in SUBSET (1 .. m)
  PROVE  IsFiniteSet(S) /\ Cardinality(S) \in Nat
<1>1. IsFiniteSet(1 .. m)
  BY FS_Interval
<1> QED
  BY <1>1, FS_Subset, FS_CardinalityType

\* A median is one of the times, or 0.
LEMMA MedianIsNat ==
  ASSUME NEW rs, NEW I, \A i \in I : rs[i].time \in Nat
  PROVE  Median(rs, I) \in Nat
<1> DEFINE half == (Cardinality(I) + 1) \div 2
           middle == {i \in I : /\ Cardinality({j \in I : rs[j].time < rs[i].time}) < half
                                /\ half <= Cardinality({j \in I : rs[j].time <= rs[i].time})}
<1>1. Median(rs, I) = IF middle = {} THEN 0 ELSE rs[CHOOSE i \in middle : TRUE].time
  BY DEF Median
<1>2. middle \subseteq I
  OBVIOUS
<1> HIDE DEF middle
<1>3. middle # {} => (CHOOSE i \in middle : TRUE) \in middle
  OBVIOUS
<1> QED
  BY <1>1, <1>2, <1>3

LEMMA ScoresTyped ==
  ASSUME NEW rs, Len(rs) \in Nat, \A i \in 1 .. Len(rs) : rs[i].time \in Nat
  PROVE  ScoreResults(rs) \in Scores
<1> DEFINE m == Len(rs)
<1>1. \A S \in SUBSET (1 .. m) : Cardinality(S) \in Nat
  BY CountIsNat
<1>2. MedianOf(rs, {i \in 1 .. m : ~rs[i].control}) \in Nat
  BY MedianIsNat DEF MedianOf
<1>3. /\ {i \in 1 .. m : ~rs[i].control} \in SUBSET (1 .. m)
      /\ {i \in 1 .. m : ~rs[i].control /\ rs[i].ok} \in SUBSET (1 .. m)
      /\ {i \in 1 .. m : ~rs[i].control /\ ~rs[i].ok /\ Blocked(rs[i].class)} \in SUBSET (1 .. m)
      /\ {i \in 1 .. m : rs[i].control} \in SUBSET (1 .. m)
      /\ {i \in 1 .. m : rs[i].control /\ rs[i].ok} \in SUBSET (1 .. m)
  OBVIOUS
<1>4. ScoreResults(rs) =
        [targets |-> Cardinality({i \in 1 .. m : ~rs[i].control}),
         passed |-> Cardinality({i \in 1 .. m : ~rs[i].control /\ rs[i].ok}),
         blocked |-> Cardinality({i \in 1 .. m : ~rs[i].control /\ ~rs[i].ok /\ Blocked(rs[i].class)}),
         controls |-> Cardinality({i \in 1 .. m : rs[i].control}),
         controlsPassed |-> Cardinality({i \in 1 .. m : rs[i].control /\ rs[i].ok}),
         median |-> MedianOf(rs, {i \in 1 .. m : ~rs[i].control})]
  BY DEF ScoreResults, Count
<1> QED
  BY <1>1, <1>2, <1>3, <1>4 DEF Scores

-----------------------------------------------------------------------------
(* Autopick                                                                  *)

PickClasses == {a.class : a \in Answers} \cup {"ok", "timeout", "canceled"}
PickResults == [control : BOOLEAN, ok : BOOLEAN, class : PickClasses, time : Nat]
PerRound == Controls + Targets

PickTyped ==
    /\ AutopickTypeOK
    /\ score \in [Name -> Scores] /\ sofar \in Seq(PickResults)

\* Where the sweep is, and how many results it has by then.
PickPlaces ==
    /\ ppc = "begin" => activated = None /\ original = None /\ outcome = "none"
    /\ ppc \in {"settle", "measure", "judge", "recheck"} => n <= Len(Candidates)
    /\ ppc = "settle" => round = 1 /\ sofar = <<>>
    /\ ppc = "measure" => round <= Rounds /\ Len(sofar) = (round - 1) * PerRound
    /\ dry => ppc = "returned"

\* What has been judged lies behind.
Past == measured \cup breaks \subseteq {Candidates[i] : i \in 1 .. n - 1}

\* The best so far is one that was measured, and is beaten by none.
Standing ==
    ~dry =>
        /\ best # None => best \in measured
        /\ measured # {} => best # None
        /\ \A s \in measured : Valid(score[s]) /\ ~Better(score[s], score[best])

\* What the daemon runs, unless an answer was lost: what Pick last activated.
InForce ==
    ~mishap =>
        /\ activated # None => active = activated
        /\ activated = None /\ original # None => active = original

PickEnded ==
    /\ LeftOnBest
    /\ CancelledRestores

PickInv == PickTyped /\ PickPlaces /\ Past /\ Standing /\ InForce /\ PickEnded

LEMMA CandidatesKnown ==
    /\ Len(Candidates) \in Nat \ {0} /\ DOMAIN Candidates = 1 .. Len(Candidates)
    /\ \A i \in 1 .. Len(Candidates) : Candidates[i] \in Name
    /\ \A i, j \in 1 .. Len(Candidates) : Candidates[i] = Candidates[j] => i = j
    /\ PerRound \in Nat /\ Rounds \in Nat \ {0} /\ None \notin Name /\ Other # None
<1>1. Candidates \in Seq(Name) /\ Candidates # <<>>
  BY AutopickAssumption
<1>2. Len(Candidates) \in Nat /\ DOMAIN Candidates = 1 .. Len(Candidates)
      /\ \A i \in 1 .. Len(Candidates) : Candidates[i] \in Name
  BY <1>1, LenProperties
<1>3. Len(Candidates) # 0
  BY <1>1, EmptySeq
<1>4. /\ PerRound \in Nat /\ Rounds \in Nat \ {0} /\ None \notin Name /\ Other # None
      /\ \A i, j \in DOMAIN Candidates : Candidates[i] = Candidates[j] => i = j
  BY AutopickAssumption DEF PerRound
<1> QED
  BY <1>2, <1>3, <1>4

\* The results of a round: one for each probe.
LEMMA RoundTyped ==
  ASSUME NEW gaveUp \in BOOLEAN, NEW r \in Runs(gaveUp)
  PROVE  r \in Seq(PickResults) /\ Len(r) = PerRound
<1> DEFINE late == IF gaveUp THEN {[ok |-> FALSE, class |-> "canceled", time |-> 0]} ELSE {}
           controls == {[ok |-> TRUE, class |-> "ok", time |-> 1], [ok |-> FALSE, class |-> "timeout", time |-> 0]}
                       \cup late
           Result(a, isControl) == [control |-> isControl, ok |-> a.ok, class |-> a.class, time |-> a.time]
           A == controls \cup Answers \cup late
<1>1. \A a \in A : a.ok \in BOOLEAN /\ a.class \in PickClasses /\ a.time \in Nat
  <2>1. \A a \in Answers : a.ok \in BOOLEAN /\ a.class \in PickClasses /\ a.time \in Nat
    BY AutopickAssumption DEF PickClasses
  <2>4. "ok" \in PickClasses /\ "timeout" \in PickClasses /\ "canceled" \in PickClasses
    BY DEF PickClasses
  <2>2. ASSUME NEW a \in late PROVE a.ok \in BOOLEAN /\ a.class \in PickClasses /\ a.time \in Nat
    <3>1. a = [ok |-> FALSE, class |-> "canceled", time |-> 0]
      OBVIOUS
    <3> QED
      BY <2>4, <3>1
  <2>3. ASSUME NEW a \in controls PROVE a.ok \in BOOLEAN /\ a.class \in PickClasses /\ a.time \in Nat
    <3>1. \/ a = [ok |-> TRUE, class |-> "ok", time |-> 1]
          \/ a = [ok |-> FALSE, class |-> "timeout", time |-> 0]
          \/ a \in late
      OBVIOUS
    <3>2. CASE a \in late
      BY <2>2, <3>2
    <3>3. CASE a = [ok |-> TRUE, class |-> "ok", time |-> 1]
      BY <2>4, <3>3
    <3>4. CASE a = [ok |-> FALSE, class |-> "timeout", time |-> 0]
      BY <2>4, <3>4
    <3> QED
      BY <3>1, <3>2, <3>3, <3>4
  <2> HIDE DEF late, controls
  <2> QED
    BY <2>1, <2>2, <2>3
<1>2. PICK x \in [1 .. Controls -> controls], y \in [1 .. Targets -> Answers \cup late] :
        r = [i \in 1 .. Controls + Targets |->
                IF i <= Controls THEN Result(x[i], TRUE) ELSE Result(y[i - Controls], FALSE)]
  BY DEF Runs
<1>3. Controls \in Nat /\ Targets \in Nat
  BY AutopickAssumption
<1>4. \A a \in A, isControl \in BOOLEAN : Result(a, isControl) \in PickResults
  BY <1>1 DEF PickResults
<1> HIDE DEF Result
<1>5. ASSUME NEW i \in 1 .. PerRound PROVE r[i] \in PickResults
  <2>1. CASE i <= Controls
    <3>1. i \in 1 .. Controls
      BY <1>3, <2>1 DEF PerRound
    <3>2. x[i] \in A
      BY <3>1
    <3>3. r[i] = Result(x[i], TRUE)
      BY <1>2, <2>1 DEF PerRound
    <3> QED
      BY <1>4, <3>2, <3>3
  <2>2. CASE ~(i <= Controls)
    <3>1. i - Controls \in 1 .. Targets
      BY <1>3, <2>2 DEF PerRound
    <3>2. y[i - Controls] \in A
      BY <3>1
    <3>3. r[i] = Result(y[i - Controls], FALSE)
      BY <1>2, <2>2 DEF PerRound
    <3> QED
      BY <1>4, <3>2, <3>3
  <2> QED
    BY <2>1, <2>2
<1>6. r \in [1 .. PerRound -> PickResults] /\ PerRound \in Nat
  BY <1>2, <1>3, <1>5 DEF PerRound
<1>7. r \in Seq(PickResults)
  BY <1>6, SeqDef
<1> QED
  BY <1>6, <1>7, LenProperties

\* A score of what has been measured.
LEMMA MeasurementTyped ==
  ASSUME PickTyped PROVE Measurement \in Scores
<1>1. Len(sofar) \in Nat /\ \A i \in 1 .. Len(sofar) : sofar[i].time \in Nat
  <2>1. sofar \in Seq(PickResults)
    BY DEF PickTyped
  <2>2. Len(sofar) \in Nat /\ \A i \in 1 .. Len(sofar) : sofar[i] \in PickResults
    BY <2>1, LenProperties
  <2> QED
    BY <2>2 DEF PickResults
<1>2. ScoreResults(sofar) \in Scores
  BY <1>1, ScoresTyped
<1>3. \A s \in Scores : [s EXCEPT !.controlsPassed = 0] \in Scores
  BY DEF Scores
<1> QED
  BY <1>2, <1>3 DEF Measurement

LEMMA PickInitInv == AutopickInit => PickInv
<1> SUFFICES ASSUME AutopickInit PROVE PickInv
  OBVIOUS
<1> USE CandidatesKnown DEF AutopickInit
<1>1. Zero \in Scores
  BY ScoresTyped, EmptySeq DEF Zero
<1>2. Loaded[1] \in Name
  BY AutopickAssumption
<1>3. Len(sofar) = 0 /\ sofar \in Seq(PickResults)
  BY EmptySeq
<1>4. Rounds * PerRound \in Nat
  OBVIOUS
<1>8. n \in 1 .. Len(Candidates) + 1 /\ round \in 1 .. Rounds + 1
  OBVIOUS
<1>9. score \in [Name -> Scores] /\ DOMAIN score = Name
  BY <1>1
<1>10. Len(sofar) <= Rounds * (Controls + Targets)
  BY <1>3, <1>4 DEF PerRound
<1>5. PickTyped
  BY <1>2, <1>3, <1>8, <1>9, <1>10 DEF PickTyped, AutopickTypeOK
<1>6. PickPlaces /\ Past /\ Standing /\ InForce
  BY DEF PickPlaces, Past, Standing, InForce
<1>7. PickEnded
  BY DEF PickEnded, LeftOnBest, CancelledRestores
<1> QED
  BY <1>5, <1>6, <1>7 DEF PickInv


\* What lies behind stays behind as the sweep goes on.
LEMMA StaysBehind ==
  ASSUME NEW k \in Nat, NEW m, m = k \/ m = k + 1
  PROVE  \A i \in 1 .. k - 1 : i \in 1 .. m - 1
<1>1. CASE m = k
  BY <1>1
<1>2. CASE m = k + 1
  BY <1>2
<1> QED
  BY <1>1, <1>2
\* Restoring: what ran before runs again, unless the daemon does not do it.
LEMMA RestoreStep ==
  ASSUME PickTyped, InForce, Restore, original' = original
  PROVE  /\ active' \in Name \cup {None, Other} /\ activated' \in Name \cup {None, Other}
         /\ restored' \in BOOLEAN /\ mishap' \in BOOLEAN
         /\ InForce'
         /\ original # None /\ ~mishap' => active' = original
<1> USE DEF PickTyped, AutopickTypeOK
<1>1. CASE original = None \/ original = activated
  <2>1. UNCHANGED <<active, activated, restored, mishap>>
    BY <1>1 DEF Restore
  <2> QED
    BY <1>1, <2>1 DEF InForce
<1>2. CASE ~(original = None \/ original = activated)
  <2>1. PICK out \in Use(Immune) :
            /\ Effect(original, out) /\ mishap' = (mishap \/ (Immune /\ out # "done"))
            /\ activated' = (IF out = "done" THEN original ELSE activated)
            /\ restored' = (restored \/ out = "done")
    BY <1>2 DEF Restore
  <2>2. CASE out = "done"
    <3>1. active' = original /\ activated' = original /\ (mishap' <=> mishap) /\ restored' = TRUE
      BY <2>1, <2>2 DEF Effect
    <3>2. mishap' \in BOOLEAN /\ restored' \in BOOLEAN
      BY <2>1
    <3> QED
      BY <1>2, <3>1, <3>2 DEF InForce
  <2>3. CASE out # "done"
    <3>1. mishap' = TRUE /\ activated' = activated /\ active' \in {active, original}
      BY <2>1, <2>3 DEF Effect, Immune
    <3>2. restored' \in BOOLEAN
      BY <2>1
    <3> QED
      BY <3>1, <3>2 DEF InForce
  <2> QED
    BY <2>2, <2>3
<1> QED
  BY <1>1, <1>2

\* An activation that is not lost leaves the daemon on the strategy, or as it was.
LEMMA UseStep ==
  ASSUME PickTyped, InForce, NEW name \in Name \cup {Other}, name # None, NEW live \in BOOLEAN, NEW out \in Use(live),
         Effect(name, out), original' = original,
         activated' = IF out = "done" THEN name ELSE activated,
         mishap' \in BOOLEAN, mishap => mishap', out = "lost" => mishap'
  PROVE  /\ active' \in Name \cup {None, Other} /\ activated' \in Name \cup {None, Other}
         /\ InForce'
  BY DEF PickTyped, AutopickTypeOK, InForce, Use, Effect

\* The table of the judged does not change, and nobody returns: the invariants on both stay.
LEMMA TableStays ==
  ASSUME PickInv, UNCHANGED <<best, dry, score, measured>>, breaks' = breaks, n' \in {n, n + 1}
  PROVE  Past' /\ Standing'
<1>1. Past'
  <2>0. n \in Nat
    BY CandidatesKnown DEF PickInv, PickTyped, AutopickTypeOK
  <2>1. \A i \in 1 .. n - 1 : i \in 1 .. n' - 1
    BY <2>0, StaysBehind
  <2>2. measured' \cup breaks' \subseteq {Candidates[i] : i \in 1 .. n - 1}
    BY DEF PickInv, Past
  <2> QED
    BY <2>1, <2>2 DEF Past
<1>2. Standing'
  BY DEF PickInv, Standing
<1> QED
  BY <1>1, <1>2

LEMMA StillOut == ASSUME ppc' # "returned" PROVE PickEnded'
  BY DEF PickEnded, LeftOnBest, CancelledRestores

\* No step of the sweep or of the caller disturbs the invariant.
LEMMA PickStepInv == PickInv /\ [AutopickNext]_autopick => PickInv'
<1> SUFFICES ASSUME PickInv, [AutopickNext]_autopick PROVE PickInv'
  OBVIOUS
<1> USE CandidatesKnown
<1>0. /\ n \in Nat \ {0} /\ round \in Nat \ {0} /\ sofar \in Seq(PickResults) /\ Len(sofar) \in Nat
      /\ <<>> \in Seq(PickResults) /\ Len(<<>>) = 0
  BY LenProperties, EmptySeq DEF PickInv, PickTyped, AutopickTypeOK
<1>1. CASE DryRun
  <2> USE <1>1 DEF DryRun, Return
  <2>1. best' \in Name \cup {None}
    OBVIOUS
  <2>2. PickTyped'
    BY <2>1 DEF PickInv, PickTyped, AutopickTypeOK
  <2>3. PickPlaces' /\ Past' /\ Standing' /\ InForce'
    BY DEF PickInv, PickPlaces, Past, Standing, InForce
  <2>4. PickEnded'
    BY DEF PickEnded, LeftOnBest, CancelledRestores
  <2> QED
    BY <2>2, <2>3, <2>4 DEF PickInv
<1>2. CASE BeginPick
  <2> USE <1>2 DEF BeginPick
  <2>1. PickTyped'
    BY DEF PickInv, PickTyped, AutopickTypeOK
  <2>2. PickPlaces' /\ InForce'
    BY DEF PickInv, PickPlaces, InForce
  <2> QED
    BY <2>1, <2>2, TableStays, StillOut DEF PickInv
<1>3. CASE StopSweep
  <2> USE <1>3 DEF StopSweep, Return
  <2>1. /\ active' \in Name \cup {None, Other} /\ activated' \in Name \cup {None, Other}
        /\ restored' \in BOOLEAN /\ mishap' \in BOOLEAN /\ InForce'
        /\ (original # None /\ ~mishap' => active' = original)
    BY RestoreStep DEF PickInv
  <2>2. PickTyped'
    BY <2>1 DEF PickInv, PickTyped, AutopickTypeOK
  <2>3. PickPlaces'
    BY DEF PickInv, PickPlaces
  <2>4. PickEnded'
    BY <2>1 DEF PickEnded, LeftOnBest, CancelledRestores
  <2> QED
    BY <2>1, <2>2, <2>3, <2>4, TableStays DEF PickInv
<1>4. CASE SkipCandidate
  <2> USE <1>4 DEF SkipCandidate
  <2>1. n' \in 1 .. Len(Candidates) + 1
    BY <1>0
  <2>2. PickTyped'
    BY <2>1 DEF PickInv, PickTyped, AutopickTypeOK
  <2>3. PickPlaces' /\ InForce'
    BY DEF PickInv, PickPlaces, InForce
  <2> QED
    BY <2>2, <2>3, TableStays, StillOut DEF PickInv
<1>5. CASE TryCandidate
  <2> USE <1>5 DEF TryCandidate
  <2>1. PICK out \in Use(TRUE) :
          /\ Effect(c, out) /\ mishap' = (mishap \/ out = "lost")
          /\ ppc' = (IF out = "done" THEN "settle" ELSE "next")
          /\ n' = (IF out = "done" THEN n ELSE n + 1)
          /\ activated' = (IF out = "done" THEN c ELSE activated)
    OBVIOUS
  <2>2. c \in Name
    BY <1>0 DEF c
  <2>3. mishap' \in BOOLEAN /\ (mishap => mishap') /\ (out = "lost" => mishap')
    BY <2>1
  <2>4. /\ active' \in Name \cup {None, Other} /\ activated' \in Name \cup {None, Other}
        /\ InForce'
    BY <2>1, <2>2, <2>3, UseStep DEF PickInv
  <2>5. n' \in 1 .. Len(Candidates) + 1 /\ round' \in 1 .. Rounds + 1 /\ n' \in {n, n + 1}
        /\ (ppc' = "settle" => n' <= Len(Candidates))
    BY <1>0, <2>1
  <2>6. 0 <= Rounds * (Controls + Targets)
    BY DEF PerRound
  <2>7. PickTyped'
    BY <1>0, <2>1, <2>3, <2>4, <2>5, <2>6 DEF PickInv, PickTyped, AutopickTypeOK
  <2>8. PickPlaces'
    BY <2>1, <2>5 DEF PickInv, PickPlaces
  <2>9. ppc' # "returned"
    BY <2>1
  <2> QED
    BY <2>4, <2>5, <2>7, <2>8, <2>9, TableStays, StillOut DEF PickInv
<1>6. CASE Settle
  <2> USE <1>6 DEF Settle
  <2>1. PickTyped'
    BY DEF PickInv, PickTyped, AutopickTypeOK
  <2>2. (round - 1) * PerRound = 0 /\ round <= Rounds
    BY <1>0 DEF PickInv, PickPlaces
  <2>3. PickPlaces' /\ InForce'
    BY <1>0, <2>2 DEF PickInv, PickPlaces, InForce
  <2> QED
    BY <2>1, <2>3, TableStays, StillOut DEF PickInv
<1>7. CASE MeasureRound
  <2> USE <1>7 DEF MeasureRound
  <2>1. PICK r \in Runs(ctx') : sofar' = sofar \o r /\ alive' = (alive /\ Valid(ScoreResults(r)))
    OBVIOUS
  <2>2. r \in Seq(PickResults) /\ Len(r) = PerRound
    BY RoundTyped
  <2>3. sofar' \in Seq(PickResults) /\ Len(sofar') = Len(sofar) + PerRound
    <3>1. \A r1, r2 \in Seq(PickResults) : r1 \o r2 \in Seq(PickResults) /\ Len(r1 \o r2) = Len(r1) + Len(r2)
      BY ConcatProperties
    <3> QED
      BY <1>0, <2>1, <2>2, <3>1, Zenon
  <2>4. round <= Rounds /\ Len(sofar) = (round - 1) * PerRound
    BY DEF PickInv, PickPlaces
  <2>5. Len(sofar') = round * PerRound /\ round * PerRound <= Rounds * PerRound
    BY <1>0, <2>3, <2>4
  <2>6. round' \in 1 .. Rounds + 1 /\ alive' \in BOOLEAN /\ ppc' \in {"measure", "judge"}
    BY <1>0, <2>1, <2>4
  <2>7. PickTyped'
    BY <2>3, <2>5, <2>6 DEF PickInv, PickTyped, AutopickTypeOK, PerRound
  <2>8. PickPlaces' /\ InForce'
    BY <1>0, <2>5 DEF PickInv, PickPlaces, InForce
  <2>9. ppc' # "returned"
    BY <2>6
  <2> QED
    BY <2>7, <2>8, <2>9, TableStays, StillOut DEF PickInv
<1>8. CASE Judge
  <2> USE <1>8 DEF Judge
  <2>1. n <= Len(Candidates) /\ c \in Name /\ c \notin measured \cup breaks /\ ~dry
    BY <1>0 DEF PickInv, PickPlaces, Past, c
  <2>2. Measurement \in Scores /\ Valid(Measurement)
    BY MeasurementTyped DEF PickInv
  <2>3. score' = [score EXCEPT ![c] = Measurement] /\ score \in [Name -> Scores]
    BY DEF PickInv, PickTyped
  <2>4. score' \in [Name -> Scores] /\ score'[c] = Measurement /\ \A s \in Name \ {c} : score'[s] = score[s]
    BY <2>1, <2>2, <2>3
  <2>5. ppc' \in {"finish", "next"} /\ n' = n + 1 /\ n' \in 1 .. Len(Candidates) + 1 /\ best' \in {best, c}
    BY <1>0, <2>1
  <2>6. PickTyped'
    <3>1. measured' \subseteq Name /\ breaks' \subseteq Name \ measured'
      BY <2>1 DEF PickInv, PickTyped, AutopickTypeOK
    <3>2. 0 <= Rounds * (Controls + Targets)
      BY DEF PerRound
    <3> QED
      BY <1>0, <2>1, <2>4, <2>5, <3>1, <3>2 DEF PickInv, PickTyped, AutopickTypeOK
  <2>7. PickPlaces' /\ InForce'
    BY <2>5 DEF PickInv, PickPlaces, InForce
  <2>8. Past'
    <3>1. 1 .. n' - 1 = (1 .. n - 1) \cup {n}
      BY <1>0, <2>5
    <3> QED
      BY <3>1 DEF PickInv, Past, c
  <2>9. Standing'
    <3>1. measured \subseteq Name /\ best \in Name \cup {None}
      BY DEF PickInv, PickTyped, AutopickTypeOK
    <3>2. \A s \in measured : best \in measured /\ Valid(score[s]) /\ ~Better(score[s], score[best])
      BY <2>1 DEF PickInv, Standing
    <3>3. best = None => measured = {}
      BY <2>1 DEF PickInv, Standing
    <3>4. \A s \in measured : score'[s] = score[s] /\ score[s] \in Scores
      BY <2>1, <2>3, <2>4, <3>1
    <3>5. CASE Beats(Measurement)
      <4>1. best' = c
        BY <3>5
      <4>2. ASSUME NEW s \in measured PROVE ~Better(score[s], Measurement)
        <5>1. best \in measured /\ Better(Measurement, score[best]) /\ ~Better(score[s], score[best])
          BY <2>1, <3>2, <3>3, <3>5, <4>2 DEF Beats, PickInv, Standing
        <5> QED
          BY <2>2, <3>4, <5>1, BetterTransitive
      <4>3. ~Better(Measurement, Measurement)
        BY <2>2, BetterIrreflexive
      <4> QED
        BY <2>1, <2>2, <2>4, <3>2, <3>4, <4>1, <4>2, <4>3 DEF Standing
    <3>6. CASE ~Beats(Measurement)
      <4>1. best' = best /\ best # None /\ best \in measured /\ ~Better(Measurement, score[best])
        BY <2>1, <3>6 DEF Beats, PickInv, Standing
      <4> QED
        BY <2>1, <2>2, <2>4, <3>2, <3>4, <4>1 DEF Standing
    <3> QED
      BY <3>5, <3>6
  <2>10. ppc' # "returned"
    BY <2>5
  <2> QED
    BY <2>6, <2>7, <2>8, <2>9, <2>10, StillOut DEF PickInv
<1>9. CASE Suspect
  <2> USE <1>9 DEF Suspect
  <2>1. n <= Len(Candidates) /\ c \in Name /\ c \notin measured \cup breaks /\ ~dry
    BY <1>0 DEF PickInv, PickPlaces, Past, c
  <2>2. Measurement \in Scores
    BY MeasurementTyped DEF PickInv
  <2>3. score' = [score EXCEPT ![c] = Measurement] /\ score \in [Name -> Scores]
    BY DEF PickInv, PickTyped
  <2>4. score' \in [Name -> Scores] /\ \A s \in Name \ {c} : score'[s] = score[s]
    BY <2>1, <2>2, <2>3
  <2>5. /\ ppc' \in {"next", "recheck"} /\ n' \in {n, n + 1} /\ (ppc' = "recheck" => n' = n)
        /\ active' \in Name \cup {None, Other} /\ activated' \in Name \cup {None, Other}
        /\ restored' \in BOOLEAN /\ mishap' \in BOOLEAN /\ InForce'
    <3>1. CASE original = None \/ original = c
      BY <3>1 DEF PickInv, PickTyped, AutopickTypeOK, InForce
    <3>2. CASE ~(original = None \/ original = c)
      <4>1. PICK out \in Use(~ctx) :
                /\ Effect(original, out) /\ mishap' = (mishap \/ out = "lost")
                /\ ppc' = (IF out = "done" THEN "recheck" ELSE "next") /\ n' = (IF out = "done" THEN n ELSE n + 1)
                /\ activated' = (IF out = "done" THEN original ELSE activated)
                /\ restored' = (restored \/ out = "done")
        BY <3>2
      <4>2. mishap' \in BOOLEAN /\ (mishap => mishap') /\ (out = "lost" => mishap') /\ restored' \in BOOLEAN
        BY <4>1
      <4>3. original \in Name \cup {Other} /\ original # None /\ (~ctx) \in BOOLEAN
        BY <3>2 DEF PickInv, PickTyped, AutopickTypeOK
      <4>4. /\ active' \in Name \cup {None, Other} /\ activated' \in Name \cup {None, Other} /\ InForce'
        BY <4>1, <4>2, <4>3, UseStep DEF PickInv
      <4> QED
        BY <4>1, <4>2, <4>4
    <3> QED
      BY <3>1, <3>2
  <2>6. PickTyped'
    <3>1. 0 <= Rounds * (Controls + Targets) /\ n' \in 1 .. Len(Candidates) + 1
      BY <1>0, <2>1, <2>5 DEF PerRound
    <3> QED
      BY <1>0, <2>4, <2>5, <3>1 DEF PickInv, PickTyped, AutopickTypeOK
  <2>7. PickPlaces'
    BY <2>1, <2>5 DEF PickInv, PickPlaces
  <2>8. Past'
    <3>1. \A i \in 1 .. n - 1 : i \in 1 .. n' - 1
      <4>1. n \in Nat /\ (n' = n \/ n' = n + 1)
        BY <1>0, <2>5
      <4> QED
        BY <4>1, StaysBehind
    <3> QED
      BY <3>1 DEF PickInv, Past
  <2>9. Standing'
    <3>1. \A s \in measured : score'[s] = score[s]
      BY <2>1, <2>4 DEF PickInv, PickTyped, AutopickTypeOK
    <3> QED
      BY <3>1 DEF PickInv, Standing
  <2>10. ppc' # "returned"
    BY <2>5
  <2> QED
    BY <2>5, <2>6, <2>7, <2>8, <2>9, <2>10, StillOut DEF PickInv
<1>10. CASE Recheck
  <2> USE <1>10 DEF Recheck
  <2>1. n <= Len(Candidates) /\ c \in Name /\ c \notin measured \cup breaks
    BY <1>0 DEF PickInv, PickPlaces, Past, c
  <2>2. breaks' \in {breaks, breaks \cup {c}} /\ n' = n + 1 /\ n' \in 1 .. Len(Candidates) + 1
    BY <1>0, <2>1
  <2>3. PickTyped'
    BY <2>1, <2>2 DEF PickInv, PickTyped, AutopickTypeOK
  <2>4. PickPlaces' /\ InForce' /\ Standing'
    BY DEF PickInv, PickPlaces, InForce, Standing
  <2>5. Past'
    <3>1. 1 .. n' - 1 = (1 .. n - 1) \cup {n}
      BY <1>0, <2>2
    <3> QED
      BY <2>2, <3>1 DEF PickInv, Past, c
  <2> QED
    BY <2>3, <2>4, <2>5, StillOut DEF PickInv
<1>11. CASE Finish
  <2> USE <1>11 DEF Finish, Return
  <2>1. /\ active' \in Name \cup {None, Other} /\ activated' \in Name \cup {None, Other}
        /\ restored' \in BOOLEAN /\ mishap' \in BOOLEAN /\ InForce'
        /\ ~ctx /\ ~mishap' /\ (Best # None \/ original # None) =>
              active' = IF Best # None THEN Best ELSE original
    <3>1. CASE Best = None
      BY <3>1, RestoreStep DEF PickInv
    <3>2. CASE Best # None /\ activated = Best
      BY <3>2 DEF PickInv, PickTyped, AutopickTypeOK, InForce
    <3>3. CASE Best # None /\ activated # Best
      <4>1. PICK out \in Use(~ctx) :
                /\ Effect(Best, out) /\ mishap' = (mishap \/ (~ctx /\ out # "done"))
                /\ activated' = (IF out = "done" THEN Best ELSE activated) /\ UNCHANGED restored
        BY <3>3
      <4>2. mishap' \in BOOLEAN /\ (mishap => mishap') /\ (out = "lost" => mishap')
        BY <4>1 DEF Use
      <4>3. Best \in Name \cup {Other} /\ Best # None /\ (~ctx) \in BOOLEAN
        BY <3>3 DEF PickInv, PickTyped, AutopickTypeOK, Best
      <4>4. /\ active' \in Name \cup {None, Other} /\ activated' \in Name \cup {None, Other} /\ InForce'
        BY <4>1, <4>2, <4>3, UseStep DEF PickInv
      <4>5. ~ctx /\ ~mishap' => active' = Best
        BY <4>1 DEF Effect
      <4>6. restored' \in BOOLEAN
        BY <4>1 DEF PickInv, PickTyped, AutopickTypeOK
      <4> QED
        BY <3>3, <4>2, <4>4, <4>5, <4>6
    <3> QED
      BY <3>1, <3>2, <3>3
  <2>2. PickTyped'
    BY <2>1 DEF PickInv, PickTyped, AutopickTypeOK
  <2>3. PickPlaces'
    BY DEF PickInv, PickPlaces
  <2>4. Best' = Best
    BY DEF Best
  <2>5. PickEnded'
    BY <2>1, <2>4 DEF PickEnded, LeftOnBest, CancelledRestores
  <2> QED
    BY <2>1, <2>2, <2>3, <2>5, TableStays DEF PickInv
<1>12. CASE GiveUpPick
  <2> USE <1>12 DEF GiveUpPick
  <2>1. PickTyped'
    BY DEF PickInv, PickTyped, AutopickTypeOK
  <2>2. PickPlaces' /\ InForce'
    BY DEF PickInv, PickPlaces, InForce
  <2> QED
    BY <2>1, <2>2, TableStays, StillOut DEF PickInv
<1>13. CASE UNCHANGED autopick
  <2> USE <1>13 DEF autopick
  <2>1. PickTyped' /\ PickPlaces' /\ InForce'
    BY DEF PickInv, PickTyped, AutopickTypeOK, PickPlaces, InForce
  <2>2. PickEnded'
    BY DEF PickInv, PickEnded, LeftOnBest, CancelledRestores, Best
  <2> QED
    BY <2>1, <2>2, TableStays DEF PickInv
<1> QED
  BY <1>1, <1>2, <1>3, <1>4, <1>5, <1>6, <1>7, <1>8, <1>9, <1>10, <1>11, <1>12, <1>13 DEF AutopickNext, PickStep

(* Autopick: the winner, or else what ran before, is left running; what is      *)
(* reported as active or as the best is so.                                     *)
THEOREM PicksRight == AutopickSpec => []PickLeaves
<1>1. ASSUME PickInv PROVE PickLeaves
  <2>1. ActivatedIsRunning
    BY <1>1 DEF PickInv, InForce, ActivatedIsRunning
  <2>2. BestIsBest
    <3> SUFFICES ASSUME ppc = "returned", ~dry
        PROVE /\ \A s \in Name : Best # None /\ Heads(s) =>
                    s \in measured /\ ~Better(score[s], score[Best]) /\ ~Better(score[Best], score[s])
              /\ \A s \in measured : score[s].passed <= (IF Best = None THEN 0 ELSE score[Best].passed)
      BY DEF BestIsBest
    <3>1. /\ measured \subseteq Name /\ best \in Name \cup {None} /\ score \in [Name -> Scores]
          /\ (best # None => best \in measured) /\ (measured # {} => best # None)
          /\ \A s \in measured : Valid(score[s]) /\ ~Better(score[s], score[best])
      BY <1>1 DEF PickInv, PickTyped, AutopickTypeOK, Standing
    <3>2. ASSUME NEW s \in Name, Best # None, Heads(s)
          PROVE  s \in measured /\ ~Better(score[s], score[Best]) /\ ~Better(score[Best], score[s])
      <4>1. Best = best /\ best \in measured
        BY <3>1, <3>2 DEF Best
      <4>2. CASE s = best
        BY <3>1, <4>1, <4>2, BetterIrreflexive
      <4>3. CASE s # best
        <5>1. \E i \in DOMAIN Candidates : Candidates[i] = best
          <6>1. \E i \in 1 .. n - 1 : Candidates[i] = best
            BY <1>1, <4>1 DEF PickInv, Past
          <6>2. 1 .. n - 1 \subseteq DOMAIN Candidates
            BY <1>1, CandidatesKnown DEF PickInv, PickTyped, AutopickTypeOK
          <6> QED
            BY <6>1, <6>2
        <5>2. Outranks(s, best)
          BY <3>1, <3>2, <4>1, <4>3, <5>1 DEF Heads
        <5> QED
          BY <3>1, <4>1, <5>2 DEF Outranks
      <4> QED
        BY <4>2, <4>3
    <3>3. ASSUME NEW s \in measured
          PROVE  score[s].passed <= (IF Best = None THEN 0 ELSE score[Best].passed)
      <4>1. best \in measured /\ score[s] \in Scores /\ score[best] \in Scores
            /\ score[s].passed \in Nat /\ score[best].passed \in Nat
        BY <3>1, <3>3 DEF Scores
      <4>2. score[s].passed <= score[best].passed
        BY <3>1, <3>3, <4>1 DEF Better
      <4>3. Best = IF score[best].passed > 0 THEN best ELSE None
        BY <3>1, <4>1, CandidatesKnown DEF Best
      <4> QED
        BY <3>1, <4>1, <4>2, <4>3, CandidatesKnown
    <3> QED
      BY <3>2, <3>3
  <2> QED
    BY <1>1, <2>1, <2>2 DEF PickLeaves, PickInv, PickTyped, PickEnded
<1> QED
  BY <1>1, PickInitInv, PickStepInv, PTL DEF AutopickSpec

------------------------------------------------------------------------------
(***************************************************************************)
(* Proof that the capability probe undoes what it changed, for any number  *)
(* of system calls that fail.                                              *)
(*                                                                         *)
(* Until a signal comes, the stack belongs to the main goroutine (Sole):   *)
(* it pushes in the stages and drains where it calls cleanup. So every     *)
(* change is pushed, being undone or failed to be (Pushed), and an empty   *)
(* stack means an untouched machine. The undo of the utun is at the bottom *)
(* of the stack (Layered), so when it runs the rules that lead there are   *)
(* gone. What holds with signals too is in Typed and Gated.                *)
(***************************************************************************)

Descriptors == {"pf", "bpfR", "bpfW", "raw"}
Drains == {"stage10_drained", "deferred_drained"}
\* The stages from the first anchor rules to the last of stage 5, which need the utun.
Steered == {"anchor_push", "sub5", "sub5_load", "main5", "main5_load"}
BeforeDrain ==
    {"stage5", "pfEnable", "token", "witness", "anchor"} \cup Steered
Steps ==
    {"begin", "stage4", "stage4_push", "stage6", "gate", "stage7", "stage7_write", "stage8",
     "stage9", "sub9", "sub9_load", "main9", "main9_load", "natlook", "stage10", "verify",
     "deferred", "report"} \cup BeforeDrain \cup Drains

Hosts ==
    [utun : BOOLEAN, ref : BOOLEAN, anchor : {"none", "route"}, sub : {"none", "route", "rdr"},
     main : {"none", "route", "rdr"}, witness : BOOLEAN, fds : SUBSET Descriptors, others : BOOLEAN]
Fields ==
    [utun : BOOLEAN, pfFD : BOOLEAN, token : BOOLEAN, path : {"none", "anchor", "sub", "main"},
     anchorLoaded : BOOLEAN, subLoaded : BOOLEAN, mainReplaced : BOOLEAN, stop : {"none", "open", "closed"}]
Typed ==
    /\ conf \in Confs
    /\ host \in Hosts /\ p \in Fields
    /\ pc \in Steps /\ verified \in {"none", "PASS", "FAIL"}
    /\ undo \in Seq(Undos) /\ doing \in Undos \cup {"utun_wait", "utun_close", "none"} /\ failed \subseteq Undos
    /\ cleaner \in {"none", "main", "sig"} /\ intr \in {"waiting", "cleaning", "exiting"}
    /\ exit \in {"none", "0", "2", "3"}

\* A run that may not replace the main ruleset has no undo for it.
Gated ==
    /\ pc \in {"main5_load", "main9_load"} => conf.replaceMain
    /\ "main" \in Pending => conf.replaceMain
    /\ ~host.others => conf.replaceMain
    /\ pc = "begin" => undo = <<>> /\ doing = "none" /\ host.others

\* Only the main goroutine drains, and only where it calls cleanup.
Sole ==
    /\ cleaner = IF pc \in Drains THEN "main" ELSE "none"
    /\ doing # "none" => pc \in Drains
    /\ pc \in {"begin", "stage4", "stage4_push", "verify", "report"} => undo = <<>>
    /\ exit # "none" => pc = "report"
    /\ verified # "none" => pc \in {"deferred", "deferred_drained", "report"} /\ undo = <<>> /\ doing = "none"
    /\ verified = "PASS" => failed = {}

\* The stages are over; nothing is pushed any more.
Ended == Drains \cup {"verify", "deferred", "report"}
\* Every change is known: on the stack, being undone, or failed to be.
Known == Pending \cup failed
Pushed ==
    /\ host.utun => pc = "stage4_push" \/ "utun" \in Known
    /\ host.ref => "ref" \in Known /\ (pc = "token" \/ p.token)
    /\ host.witness => "witness" \in Known
    /\ host.anchor # "none" => pc = "anchor_push" \/ "anchor" \in Known
    /\ host.sub # "none" => "sub" \in Known
    /\ host.main # "none" => "main" \in Known
    /\ host.fds \subseteq Known
    /\ pc = "pfEnable" => "ref" \in Known
    /\ pc \in {"sub5_load", "sub9_load"} => p.subLoaded
    /\ pc \in {"main5_load", "main9_load"} => p.mainReplaced
    /\ p.subLoaded /\ pc \notin Ended => "sub" \in Known
    /\ p.mainReplaced /\ pc \notin Ended => "main" \in Known

UtunFirst == \A i \in DOMAIN undo : undo[i] = "utun" => i = 1
\* The undo of the utun is the first pushed and the last run.
Layered ==
    /\ UtunFirst
    /\ Undoing = "utun" => undo = <<>>
    /\ pc \in {"begin", "stage4", "stage4_push"} => ~p.utun
    /\ pc = "stage4_push" => host.utun
    /\ pc \in Steered => p.utun
    /\ pc \in BeforeDrain /\ p.utun => host.utun
    /\ failed = {} /\ (host.anchor = "route" \/ host.sub = "route" \/ host.main = "route") => host.utun

ProbeInv == Typed /\ Gated /\ (intr = "waiting" => Sole /\ Pushed /\ Layered)

-----------------------------------------------------------------------------
USE DEF Alive

(* The initial state.                                                      *)
LEMMA InitProbeInv == Init => ProbeInv
  BY DEF Init, ProbeInv, Typed, Hosts, Fields, Descriptors, Gated, Sole, Pushed, Layered, UtunFirst, Known, Pending, Undoing, UntouchedHost, NoConf, Confs,
     Steps, BeforeDrain, Steered, Drains, Ended, Undos

(* Pushing adds to what is pending, and the utun only to an empty stack.   *)
LEMMA Pushing ==
  ASSUME Typed, NEW s \in Seq(Undos), undo' = undo \o s, UNCHANGED doing
  PROVE  /\ undo' \in Seq(Undos) /\ Pending' = Pending \cup Range(s)
         /\ UtunFirst /\ "utun" \notin Range(s) => UtunFirst'
<1>1. /\ undo \in Seq(Undos) /\ Len(undo) \in Nat /\ Len(s) \in Nat
      /\ DOMAIN undo = 1 .. Len(undo) /\ DOMAIN s = 1 .. Len(s)
  BY DEF Typed
<1>2. undo' \in Seq(Undos) /\ DOMAIN undo' = 1 .. Len(undo) + Len(s)
  BY <1>1
<1>3. /\ \A i \in 1 .. Len(undo) : undo'[i] = undo[i]
      /\ \A i \in 1 .. Len(s) : undo'[Len(undo) + i] = s[i]
  BY <1>1
<1>4. \A i \in DOMAIN undo' : i \notin 1 .. Len(undo) => i - Len(undo) \in 1 .. Len(s) /\ undo'[i] = s[i - Len(undo)]
  BY <1>1, <1>2, <1>3
<1>5. {undo'[i] : i \in DOMAIN undo'} = {undo[i] : i \in DOMAIN undo} \cup Range(s)
  <2>1. ASSUME NEW i \in DOMAIN undo' PROVE undo'[i] \in {undo[k] : k \in DOMAIN undo} \cup Range(s)
    BY <1>1, <1>3, <1>4 DEF Range
  <2>2. ASSUME NEW i \in DOMAIN undo PROVE i \in DOMAIN undo' /\ undo'[i] = undo[i]
    BY <1>1, <1>2, <1>3
  <2>3. ASSUME NEW i \in DOMAIN s PROVE Len(undo) + i \in DOMAIN undo' /\ undo'[Len(undo) + i] = s[i]
    BY <1>1, <1>2, <1>3
  <2> QED BY SMTT(30), <2>1, <2>2, <2>3 DEF Range
<1>6. UtunFirst /\ "utun" \notin Range(s) => UtunFirst'
  BY <1>1, <1>3, <1>4 DEF UtunFirst, Range
<1>7. Undoing' = Undoing
  BY DEF Undoing
<1> QED BY <1>2, <1>5, <1>6, <1>7 DEF Pending

(* What a stage with one thing to undo does to the stack.                  *)
LEMMA PushesOne ==
  ASSUME Typed, NEW x \in Undos, x # "utun", UNCHANGED doing
  PROVE  /\ UNCHANGED undo => Pending' = Pending /\ undo' \in Seq(Undos) /\ (UtunFirst => UtunFirst')
         /\ OnCleanup(x) => Pending' = Pending \cup {x} /\ undo' \in Seq(Undos) /\ (UtunFirst => UtunFirst')
<1>1. <<x>> \in Seq(Undos) /\ Range(<<x>>) = {x}
  BY DEF Range
<1>2. Append(undo, x) = undo \o <<x>>
  BY DEF Typed
<1>3. UNCHANGED undo => Pending' = Pending /\ undo' \in Seq(Undos) /\ (UtunFirst => UtunFirst')
  BY DEF Pending, Undoing, UtunFirst, Typed
<1>4. ASSUME OnCleanup(x)
      PROVE  Pending' = Pending \cup {x} /\ undo' \in Seq(Undos) /\ (UtunFirst => UtunFirst')
  BY <1>1, <1>2, <1>4, Pushing DEF OnCleanup
<1> QED BY <1>3, <1>4

(* The same for two.                                                       *)
LEMMA PushesTwo ==
  ASSUME Typed, NEW x \in Undos \ {"utun"}, NEW y \in Undos \ {"utun"}, undo' = undo \o <<x, y>>, UNCHANGED doing
  PROVE  Pending' = Pending \cup {x, y} /\ undo' \in Seq(Undos) /\ (UtunFirst => UtunFirst')
<1>1. <<x, y>> \in Seq(Undos) /\ Range(<<x, y>>) = {x, y}
  BY DEF Range
<1> QED BY <1>1, Pushing

(* Popping leaves pending what it pops, as what is being undone.           *)
LEMMA Popping ==
  ASSUME Typed, PopUndo
  PROVE  /\ undo' \in Seq(Undos) /\ doing' \in Undos
         /\ Pending = Pending' \cup {"none"} /\ "none" \notin Pending'
         /\ Len(undo) > 0 /\ doing' = undo[Len(undo)]
         /\ DOMAIN undo' = 1 .. Len(undo) - 1
         /\ \A i \in 1 .. Len(undo) - 1 : undo'[i] = undo[i]
<1>1. undo \in Seq(Undos) /\ undo # <<>> /\ doing = "none" /\ doing' = undo[Len(undo)]
  BY DEF Typed, PopUndo
<1>2. Len(undo) \in Nat /\ Len(undo) > 0
  BY <1>1
<1>3. /\ undo' \in Seq(Undos) /\ DOMAIN undo' = 1 .. Len(undo) - 1
      /\ \A i \in 1 .. Len(undo) - 1 : undo'[i] = undo[i]
  BY <1>1, <1>2 DEF PopUndo
<1>4. doing' \in Undos /\ "none" \notin Undos /\ "utun_wait" \notin Undos /\ "utun_close" \notin Undos
  BY <1>1, <1>2 DEF Undos
<1>5. Pending = {undo[i] : i \in 1 .. Len(undo)} \cup {"none"}
  BY <1>1 DEF Pending, Undoing
<1>6. Pending' = {undo[i] : i \in 1 .. Len(undo) - 1} \cup {undo[Len(undo)]}
  BY <1>1, <1>3, <1>4 DEF Pending, Undoing
<1>7. {undo[i] : i \in 1 .. Len(undo)} = {undo[i] : i \in 1 .. Len(undo) - 1} \cup {undo[Len(undo)]}
  BY <1>2
<1>8. \A i \in 1 .. Len(undo) : undo[i] \in Undos
  BY <1>1
<1> QED BY <1>1, <1>2, <1>3, <1>4, <1>5, <1>6, <1>7, <1>8

(* What touches neither the stack nor the undo that runs.                  *)
LEMMA Resting ==
  ASSUME UNCHANGED <<undo, doing>>
  PROVE  Pending' = Pending /\ Undoing' = Undoing
  BY DEF Pending, Undoing

(* An empty stack leaves what is being undone.                             *)
LEMMA Empty ==
  ASSUME undo = <<>>
  PROVE  Pending = {Undoing}
  BY DEF Pending

(* Environment only looks.                                                       *)
LEMMA EnvironmentKeeps ==
  ASSUME ProbeInv, Environment
  PROVE  ProbeInv'
<1> USE DEF ProbeInv, Environment, AtStep, NoFault, Fault, Cleaning, Steps, BeforeDrain, Steered, Drains, Ended, Confs
<1>1. Pending' = Pending /\ Undoing' = Undoing
  BY Resting
<1>2. Typed'
  <2>1. host' \in Hosts
    BY DEF Typed, Hosts, Descriptors
  <2>2. p' \in Fields
    BY DEF Typed, Fields
  <2> QED BY <2>1, <2>2 DEF Typed
<1>3. Gated'
  BY <1>1, Empty DEF Typed, Hosts, Fields, Gated, Undoing
<1>4. ASSUME intr' = "waiting" PROVE Sole'
  BY <1>4 DEF Typed, Sole
<1>5. ASSUME intr' = "waiting" PROVE Pushed'
  BY <1>1, <1>5 DEF Typed, Hosts, Fields, Sole, Pushed, Known
<1>6. ASSUME intr' = "waiting" PROVE Layered'
  BY <1>1, <1>6 DEF Typed, Hosts, Fields, Sole, Layered, Known, UtunFirst
<1> QED BY <1>2, <1>3, <1>4, <1>5, <1>6

(* CreateUTUN opens the window that RegisterUTUN closes.                   *)
LEMMA CreateUTUNKeeps ==
  ASSUME ProbeInv, CreateUTUN
  PROVE  ProbeInv'
<1> USE DEF ProbeInv, CreateUTUN, AtStep, NoFault, Fault, Cleaning, Steps, BeforeDrain, Steered, Drains, Ended
<1>1. Pending' = Pending /\ Undoing' = Undoing
  BY Resting
<1>2. Typed'
  <2>1. host' \in Hosts
    BY DEF Typed, Hosts, Descriptors
  <2>2. p' \in Fields
    BY DEF Typed, Fields
  <2> QED BY <2>1, <2>2 DEF Typed
<1>3. Gated'
  BY <1>1 DEF Typed, Hosts, Fields, Gated
<1>4. ASSUME intr' = "waiting" PROVE Sole'
  BY <1>4 DEF Typed, Sole
<1>5. ASSUME intr' = "waiting" PROVE Pushed'
  BY <1>1, <1>5 DEF Typed, Hosts, Fields, Sole, Pushed, Known
<1>6. ASSUME intr' = "waiting" PROVE Layered'
  BY <1>1, <1>6 DEF Typed, Hosts, Fields, Sole, Layered, Known, UtunFirst
<1> QED BY <1>2, <1>3, <1>4, <1>5, <1>6

(* PfEnable takes the reference whose release is on the stack.             *)
LEMMA PfEnableKeeps ==
  ASSUME ProbeInv, PfEnable
  PROVE  ProbeInv'
<1> USE DEF ProbeInv, PfEnable, AtStep, NoFault, Fault, Cleaning, Steps, BeforeDrain, Steered, Drains, Ended
<1>1. Pending' = Pending /\ Undoing' = Undoing
  BY Resting
<1>2. Typed'
  <2>1. host' \in Hosts
    BY DEF Typed, Hosts, Descriptors
  <2>2. p' \in Fields
    BY DEF Typed, Fields
  <2> QED BY <2>1, <2>2 DEF Typed
<1>3. Gated'
  BY <1>1 DEF Typed, Hosts, Fields, Gated
<1>4. ASSUME intr' = "waiting" PROVE Sole'
  BY <1>4 DEF Typed, Sole
<1>5. ASSUME intr' = "waiting" PROVE Pushed'
  BY <1>1, <1>5 DEF Typed, Hosts, Fields, Sole, Pushed, Known
<1>6. ASSUME intr' = "waiting" PROVE Layered'
  BY <1>1, <1>6 DEF Typed, Hosts, Fields, Sole, Layered, Known, UtunFirst
<1> QED BY <1>2, <1>3, <1>4, <1>5, <1>6

(* SetToken makes that release able to work.                               *)
LEMMA SetTokenKeeps ==
  ASSUME ProbeInv, SetToken
  PROVE  ProbeInv'
<1> USE DEF ProbeInv, SetToken, AtStep, NoFault, Fault, Cleaning, Steps, BeforeDrain, Steered, Drains, Ended
<1>1. Pending' = Pending /\ Undoing' = Undoing
  BY Resting
<1>2. Typed'
  <2>1. host' \in Hosts
    BY DEF Typed, Hosts, Descriptors
  <2>2. p' \in Fields
    BY DEF Typed, Fields
  <2> QED BY <2>1, <2>2 DEF Typed
<1>3. Gated'
  BY <1>1 DEF Typed, Hosts, Fields, Gated
<1>4. ASSUME intr' = "waiting" PROVE Sole'
  BY <1>4 DEF Typed, Sole
<1>5. ASSUME intr' = "waiting" PROVE Pushed'
  BY <1>1, <1>5 DEF Typed, Hosts, Fields, Sole, Pushed, Known
<1>6. ASSUME intr' = "waiting" PROVE Layered'
  BY <1>1, <1>6 DEF Typed, Hosts, Fields, Sole, Layered, Known, UtunFirst
<1> QED BY <1>2, <1>3, <1>4, <1>5, <1>6

(* LoadAnchor steers into a utun that exists.                              *)
LEMMA LoadAnchorKeeps ==
  ASSUME ProbeInv, LoadAnchor
  PROVE  ProbeInv'
<1> USE DEF ProbeInv, LoadAnchor, AtStep, NoFault, Fault, Cleaning, Steps, BeforeDrain, Steered, Drains, Ended
<1>1. Pending' = Pending /\ Undoing' = Undoing
  BY Resting
<1>2. Typed'
  <2>1. host' \in Hosts
    BY DEF Typed, Hosts, Descriptors
  <2>2. p' \in Fields
    BY DEF Typed, Fields
  <2> QED BY <2>1, <2>2 DEF Typed
<1>3. Gated'
  BY <1>1 DEF Typed, Hosts, Fields, Gated
<1>4. ASSUME intr' = "waiting" PROVE Sole'
  BY <1>4 DEF Typed, Sole
<1>5. ASSUME intr' = "waiting" PROVE Pushed'
  BY <1>1, <1>5 DEF Typed, Hosts, Fields, Sole, Pushed, Known
<1>6. ASSUME intr' = "waiting" PROVE Layered'
  BY <1>1, <1>6 DEF Typed, Hosts, Fields, Sole, Layered, Known, UtunFirst
<1> QED BY <1>2, <1>3, <1>4, <1>5, <1>6

(* Stage6RouteToGate starts the reader.                                    *)
LEMMA Stage6RouteToGateKeeps ==
  ASSUME ProbeInv, Stage6RouteToGate
  PROVE  ProbeInv'
<1> USE DEF ProbeInv, Stage6RouteToGate, AtStep, NoFault, Fault, Cleaning, Steps, BeforeDrain, Steered, Drains, Ended
<1>1. Pending' = Pending /\ Undoing' = Undoing
  BY Resting
<1>2. Typed'
  <2>1. host' \in Hosts
    BY DEF Typed, Hosts, Descriptors
  <2>2. p' \in Fields
    BY DEF Typed, Fields
  <2> QED BY <2>1, <2>2 DEF Typed
<1>3. Gated'
  BY <1>1 DEF Typed, Hosts, Fields, Gated
<1>4. ASSUME intr' = "waiting" PROVE Sole'
  BY <1>4 DEF Typed, Sole
<1>5. ASSUME intr' = "waiting" PROVE Pushed'
  BY <1>1, <1>5 DEF Typed, Hosts, Fields, Sole, Pushed, Known
<1>6. ASSUME intr' = "waiting" PROVE Layered'
  BY <1>1, <1>6 DEF Typed, Hosts, Fields, Sole, Layered, Known, UtunFirst
<1> QED BY <1>2, <1>3, <1>4, <1>5, <1>6

(* Gate waits.                                                             *)
LEMMA GateKeeps ==
  ASSUME ProbeInv, Gate
  PROVE  ProbeInv'
<1> USE DEF ProbeInv, Gate, AtStep, NoFault, Fault, Cleaning, Steps, BeforeDrain, Steered, Drains, Ended
<1>1. Pending' = Pending /\ Undoing' = Undoing
  BY Resting
<1>2. Typed'
  <2>1. host' \in Hosts
    BY DEF Typed, Hosts, Descriptors
  <2>2. p' \in Fields
    BY DEF Typed, Fields
  <2> QED BY <2>1, <2>2 DEF Typed
<1>3. Gated'
  BY <1>1 DEF Typed, Hosts, Fields, Gated
<1>4. ASSUME intr' = "waiting" PROVE Sole'
  BY <1>4 DEF Typed, Sole
<1>5. ASSUME intr' = "waiting" PROVE Pushed'
  BY <1>1, <1>5 DEF Typed, Hosts, Fields, Sole, Pushed, Known
<1>6. ASSUME intr' = "waiting" PROVE Layered'
  BY <1>1, <1>6 DEF Typed, Hosts, Fields, Sole, Layered, Known, UtunFirst
<1> QED BY <1>2, <1>3, <1>4, <1>5, <1>6

(* WriteFrame changes nothing.                                             *)
LEMMA WriteFrameKeeps ==
  ASSUME ProbeInv, WriteFrame
  PROVE  ProbeInv'
<1> USE DEF ProbeInv, WriteFrame, AtStep, NoFault, Fault, Cleaning, Steps, BeforeDrain, Steered, Drains, Ended
<1>1. Pending' = Pending /\ Undoing' = Undoing
  BY Resting
<1>2. Typed'
  <2>1. host' \in Hosts
    BY DEF Typed, Hosts, Descriptors
  <2>2. p' \in Fields
    BY DEF Typed, Fields
  <2> QED BY <2>1, <2>2 DEF Typed
<1>3. Gated'
  BY <1>1 DEF Typed, Hosts, Fields, Gated
<1>4. ASSUME intr' = "waiting" PROVE Sole'
  BY <1>4 DEF Typed, Sole
<1>5. ASSUME intr' = "waiting" PROVE Pushed'
  BY <1>1, <1>5 DEF Typed, Hosts, Fields, Sole, Pushed, Known
<1>6. ASSUME intr' = "waiting" PROVE Layered'
  BY <1>1, <1>6 DEF Typed, Hosts, Fields, Sole, Layered, Known, UtunFirst
<1> QED BY <1>2, <1>3, <1>4, <1>5, <1>6

(* Stage9Natlook may flush the anchor.                                     *)
LEMMA Stage9NatlookKeeps ==
  ASSUME ProbeInv, Stage9Natlook
  PROVE  ProbeInv'
<1> USE DEF ProbeInv, Stage9Natlook, AtStep, NoFault, Fault, Cleaning, Steps, BeforeDrain, Steered, Drains, Ended
<1>1. Pending' = Pending /\ Undoing' = Undoing
  BY Resting
<1>2. Typed'
  <2>1. host' \in Hosts
    BY DEF Typed, Hosts, Descriptors
  <2>2. p' \in Fields
    BY DEF Typed, Fields
  <2> QED BY <2>1, <2>2 DEF Typed
<1>3. Gated'
  BY <1>1 DEF Typed, Hosts, Fields, Gated
<1>4. ASSUME intr' = "waiting" PROVE Sole'
  BY <1>4 DEF Typed, Sole
<1>5. ASSUME intr' = "waiting" PROVE Pushed'
  BY <1>1, <1>5 DEF Typed, Hosts, Fields, Sole, Pushed, Known
<1>6. ASSUME intr' = "waiting" PROVE Layered'
  BY <1>1, <1>6 DEF Typed, Hosts, Fields, Sole, Layered, Known, UtunFirst
<1> QED BY <1>2, <1>3, <1>4, <1>5, <1>6

(* Natlook changes nothing.                                                *)
LEMMA NatlookKeeps ==
  ASSUME ProbeInv, Natlook
  PROVE  ProbeInv'
<1> USE DEF ProbeInv, Natlook, AtStep, NoFault, Fault, Cleaning, Steps, BeforeDrain, Steered, Drains, Ended
<1>1. Pending' = Pending /\ Undoing' = Undoing
  BY Resting
<1>2. Typed'
  <2>1. host' \in Hosts
    BY DEF Typed, Hosts, Descriptors
  <2>2. p' \in Fields
    BY DEF Typed, Fields
  <2> QED BY <2>1, <2>2 DEF Typed
<1>3. Gated'
  BY <1>1 DEF Typed, Hosts, Fields, Gated
<1>4. ASSUME intr' = "waiting" PROVE Sole'
  BY <1>4 DEF Typed, Sole
<1>5. ASSUME intr' = "waiting" PROVE Pushed'
  BY <1>1, <1>5 DEF Typed, Hosts, Fields, Sole, Pushed, Known
<1>6. ASSUME intr' = "waiting" PROVE Layered'
  BY <1>1, <1>6 DEF Typed, Hosts, Fields, Sole, Layered, Known, UtunFirst
<1> QED BY <1>2, <1>3, <1>4, <1>5, <1>6

(* Stage10Verify judges an empty stack.                                    *)
LEMMA Stage10VerifyKeeps ==
  ASSUME ProbeInv, Stage10Verify
  PROVE  ProbeInv'
<1> USE DEF ProbeInv, Stage10Verify, AtStep, NoFault, Fault, Cleaning, Steps, BeforeDrain, Steered, Drains, Ended
<1>1. Pending' = Pending /\ Undoing' = Undoing
  BY Resting
<1>2. Typed'
  <2>1. host' \in Hosts
    BY DEF Typed, Hosts, Descriptors
  <2>2. p' \in Fields
    BY DEF Typed, Fields
  <2> QED BY <2>1, <2>2 DEF Typed
<1>3. Gated'
  BY <1>1 DEF Typed, Hosts, Fields, Gated
<1>4. ASSUME intr' = "waiting" PROVE Sole'
  BY <1>4 DEF Typed, Sole
<1>5. ASSUME intr' = "waiting" PROVE Pushed'
  BY <1>1, <1>5 DEF Typed, Hosts, Fields, Sole, Pushed, Known
<1>6. ASSUME intr' = "waiting" PROVE Layered'
  BY <1>1, <1>6 DEF Typed, Hosts, Fields, Sole, Layered, Known, UtunFirst
<1> QED BY <1>2, <1>3, <1>4, <1>5, <1>6

(* ExitMain comes after the last drain.                                    *)
LEMMA ExitMainKeeps ==
  ASSUME ProbeInv, ExitMain
  PROVE  ProbeInv'
<1> USE DEF ProbeInv, ExitMain, AtStep, NoFault, Fault, Cleaning, Steps, BeforeDrain, Steered, Drains, Ended
<1>1. Pending' = Pending /\ Undoing' = Undoing
  BY Resting
<1>2. Typed'
  <2>1. host' \in Hosts
    BY DEF Typed, Hosts, Descriptors
  <2>2. p' \in Fields
    BY DEF Typed, Fields
  <2> QED BY <2>1, <2>2 DEF Typed
<1>3. Gated'
  BY <1>1 DEF Typed, Hosts, Fields, Gated
<1>4. ASSUME intr' = "waiting" PROVE Sole'
  BY <1>4 DEF Typed, Sole
<1>5. ASSUME intr' = "waiting" PROVE Pushed'
  BY <1>1, <1>5 DEF Typed, Hosts, Fields, Sole, Pushed, Known
<1>6. ASSUME intr' = "waiting" PROVE Layered'
  BY <1>1, <1>6 DEF Typed, Hosts, Fields, Sole, Layered, Known, UtunFirst
<1> QED BY <1>2, <1>3, <1>4, <1>5, <1>6

(* Panic goes where the stack is drained.                                  *)
LEMMA PanicKeeps ==
  ASSUME ProbeInv, Panic
  PROVE  ProbeInv'
<1> USE DEF ProbeInv, Panic, AtStep, NoFault, Fault, Cleaning, Steps, BeforeDrain, Steered, Drains, Ended
<1>1. Pending' = Pending /\ Undoing' = Undoing
  BY Resting
<1>2. Typed'
  <2>1. host' \in Hosts
    BY DEF Typed, Hosts, Descriptors
  <2>2. p' \in Fields
    BY DEF Typed, Fields
  <2> QED BY <2>1, <2>2 DEF Typed
<1>3. Gated'
  BY <1>1 DEF Typed, Hosts, Fields, Gated
<1>4. ASSUME intr' = "waiting" PROVE Sole'
  BY <1>4 DEF Typed, Sole
<1>5. ASSUME intr' = "waiting" PROVE Pushed'
  BY <1>1, <1>5 DEF Typed, Hosts, Fields, Sole, Pushed, Known
<1>6. ASSUME intr' = "waiting" PROVE Layered'
  BY <1>1, <1>6 DEF Typed, Hosts, Fields, Sole, Layered, Known, UtunFirst
<1> QED BY <1>2, <1>3, <1>4, <1>5, <1>6

(* StopReader touches neither host nor stack.                               *)
LEMMA StopReaderKeeps ==
  ASSUME ProbeInv, StopReader
  PROVE  ProbeInv'
<1> USE DEF ProbeInv
<1>1. Pending' = Pending /\ Undoing' = Undoing
  BY DEF StopReader, Pending, Undoing
<1>2. UNCHANGED <<conf, host, pc, verified, undo, cleaner, failed, intr, exit>> /\ doing # "none"
  BY DEF StopReader
<1>3. /\ p' \in Fields /\ p'.utun = p.utun /\ p'.token = p.token
      /\ p'.subLoaded = p.subLoaded /\ p'.mainReplaced = p.mainReplaced
  BY DEF StopReader, Typed, Fields
<1>4. Typed'
  BY <1>2, <1>3 DEF StopReader, Typed
<1>5. Gated'
  BY <1>1, <1>2 DEF Gated
<1>6. ASSUME intr' = "waiting" PROVE Sole'
  BY <1>2, <1>6 DEF Sole
<1>7. ASSUME intr' = "waiting" PROVE Pushed'
  BY <1>1, <1>2, <1>3, <1>7 DEF Pushed, Known
<1>8. ASSUME intr' = "waiting" PROVE Layered'
  BY <1>1, <1>2, <1>3, <1>8 DEF Layered, UtunFirst
<1> QED BY <1>4, <1>5, <1>6, <1>7, <1>8

(* AwaitReader only goes on to the next step of the undo.                   *)
LEMMA AwaitReaderKeeps ==
  ASSUME ProbeInv, AwaitReader
  PROVE  ProbeInv'
<1> USE DEF ProbeInv
<1>1. Pending' = Pending /\ Undoing' = Undoing
  BY DEF AwaitReader, Pending, Undoing
<1>2. UNCHANGED <<conf, host, pc, verified, undo, cleaner, failed, intr, exit>> /\ doing # "none"
  BY DEF AwaitReader
<1>3. /\ p' \in Fields /\ p'.utun = p.utun /\ p'.token = p.token
      /\ p'.subLoaded = p.subLoaded /\ p'.mainReplaced = p.mainReplaced
  BY DEF AwaitReader, Typed, Fields
<1>4. Typed'
  BY <1>2, <1>3 DEF AwaitReader, Typed
<1>5. Gated'
  BY <1>1, <1>2 DEF Gated
<1>6. ASSUME intr' = "waiting" PROVE Sole'
  BY <1>2, <1>6 DEF Sole
<1>7. ASSUME intr' = "waiting" PROVE Pushed'
  BY <1>1, <1>2, <1>3, <1>7 DEF Pushed, Known
<1>8. ASSUME intr' = "waiting" PROVE Layered'
  BY <1>1, <1>2, <1>3, <1>8 DEF Layered, UtunFirst
<1> QED BY <1>4, <1>5, <1>6, <1>7, <1>8

(* Drained is the end of a drain.                                          *)
LEMMA DrainedKeeps ==
  ASSUME ProbeInv, Drained
  PROVE  ProbeInv'
<1> USE DEF ProbeInv, Drained, AtStep, NoFault, Fault, Cleaning, Steps, BeforeDrain, Steered, Drains, Ended
<1>1. Pending' = Pending /\ Undoing' = Undoing
  BY Resting
<1>2. Typed'
  <2>1. host' \in Hosts
    BY DEF Typed, Hosts, Descriptors
  <2>2. p' \in Fields
    BY DEF Typed, Fields
  <2> QED BY <2>1, <2>2 DEF Typed
<1>3. Gated'
  BY <1>1 DEF Typed, Hosts, Fields, Gated
<1>4. ASSUME intr' = "waiting" PROVE Sole'
  BY <1>4 DEF Typed, Sole
<1>5. ASSUME intr' = "waiting" PROVE Pushed'
  BY <1>1, <1>5 DEF Typed, Hosts, Fields, Sole, Pushed, Known
<1>6. ASSUME intr' = "waiting" PROVE Layered'
  BY <1>1, <1>6 DEF Typed, Hosts, Fields, Sole, Layered, Known, UtunFirst
<1> QED BY <1>2, <1>3, <1>4, <1>5, <1>6

(* Signal ends what is claimed of a quiet run.                             *)
LEMMA SignalKeeps ==
  ASSUME ProbeInv, Signal
  PROVE  ProbeInv'
<1> USE DEF ProbeInv, Signal, AtStep, NoFault, Fault, Cleaning, Steps, BeforeDrain, Steered, Drains, Ended
<1>1. Pending' = Pending /\ Undoing' = Undoing
  BY Resting
<1>2. Typed'
  <2>1. host' \in Hosts
    BY DEF Typed, Hosts, Descriptors
  <2>2. p' \in Fields
    BY DEF Typed, Fields
  <2> QED BY <2>1, <2>2 DEF Typed
<1>3. Gated'
  BY <1>1 DEF Typed, Hosts, Fields, Gated
<1>4. ASSUME intr' = "waiting" PROVE Sole'
  BY <1>4 DEF Typed, Sole
<1>5. ASSUME intr' = "waiting" PROVE Pushed'
  BY <1>1, <1>5 DEF Typed, Hosts, Fields, Sole, Pushed, Known
<1>6. ASSUME intr' = "waiting" PROVE Layered'
  BY <1>1, <1>6 DEF Typed, Hosts, Fields, Sole, Layered, Known, UtunFirst
<1> QED BY <1>2, <1>3, <1>4, <1>5, <1>6

(* HandlerCleanup comes after a signal.                                    *)
LEMMA HandlerCleanupKeeps ==
  ASSUME ProbeInv, HandlerCleanup
  PROVE  ProbeInv'
<1> USE DEF ProbeInv, HandlerCleanup, AtStep, NoFault, Fault, Cleaning, Steps, BeforeDrain, Steered, Drains, Ended
<1>1. Pending' = Pending /\ Undoing' = Undoing
  BY Resting
<1>2. Typed'
  <2>1. host' \in Hosts
    BY DEF Typed, Hosts, Descriptors
  <2>2. p' \in Fields
    BY DEF Typed, Fields
  <2> QED BY <2>1, <2>2 DEF Typed
<1>3. Gated'
  BY <1>1 DEF Typed, Hosts, Fields, Gated
<1>4. ASSUME intr' = "waiting" PROVE Sole'
  BY <1>4 DEF Typed, Sole
<1>5. ASSUME intr' = "waiting" PROVE Pushed'
  BY <1>1, <1>5 DEF Typed, Hosts, Fields, Sole, Pushed, Known
<1>6. ASSUME intr' = "waiting" PROVE Layered'
  BY <1>1, <1>6 DEF Typed, Hosts, Fields, Sole, Layered, Known, UtunFirst
<1> QED BY <1>2, <1>3, <1>4, <1>5, <1>6

(* ExitHandler comes after a signal.                                       *)
LEMMA ExitHandlerKeeps ==
  ASSUME ProbeInv, ExitHandler
  PROVE  ProbeInv'
<1> USE DEF ProbeInv, ExitHandler, AtStep, NoFault, Fault, Cleaning, Steps, BeforeDrain, Steered, Drains, Ended
<1>1. Pending' = Pending /\ Undoing' = Undoing
  BY Resting
<1>2. Typed'
  <2>1. host' \in Hosts
    BY DEF Typed, Hosts, Descriptors
  <2>2. p' \in Fields
    BY DEF Typed, Fields
  <2> QED BY <2>1, <2>2 DEF Typed
<1>3. Gated'
  BY <1>1 DEF Typed, Hosts, Fields, Gated
<1>4. ASSUME intr' = "waiting" PROVE Sole'
  BY <1>4 DEF Typed, Sole
<1>5. ASSUME intr' = "waiting" PROVE Pushed'
  BY <1>1, <1>5 DEF Typed, Hosts, Fields, Sole, Pushed, Known
<1>6. ASSUME intr' = "waiting" PROVE Layered'
  BY <1>1, <1>6 DEF Typed, Hosts, Fields, Sole, Layered, Known, UtunFirst
<1> QED BY <1>2, <1>3, <1>4, <1>5, <1>6

(* ReaderEnds touches neither host nor stack.                              *)
LEMMA ReaderEndsKeeps ==
  ASSUME ProbeInv, ReaderEnds
  PROVE  ProbeInv'
<1> USE DEF ProbeInv, ReaderEnds, AtStep, NoFault, Fault, Cleaning, Steps, BeforeDrain, Steered, Drains, Ended
<1>1. Pending' = Pending /\ Undoing' = Undoing
  BY Resting
<1>2. Typed'
  <2>1. host' \in Hosts
    BY DEF Typed, Hosts, Descriptors
  <2>2. p' \in Fields
    BY DEF Typed, Fields
  <2> QED BY <2>1, <2>2 DEF Typed
<1>3. Gated'
  BY <1>1 DEF Typed, Hosts, Fields, Gated
<1>4. ASSUME intr' = "waiting" PROVE Sole'
  BY <1>4 DEF Typed, Sole
<1>5. ASSUME intr' = "waiting" PROVE Pushed'
  BY <1>1, <1>5 DEF Typed, Hosts, Fields, Sole, Pushed, Known
<1>6. ASSUME intr' = "waiting" PROVE Layered'
  BY <1>1, <1>6 DEF Typed, Hosts, Fields, Sole, Layered, Known, UtunFirst
<1> QED BY <1>2, <1>3, <1>4, <1>5, <1>6

(* LoadSubAnchor comes after the push of its undo.                         *)
LEMMA LoadSubAnchor5Keeps ==
  ASSUME ProbeInv, LoadSubAnchor("sub5_load", "route", "stage6", "main5")
  PROVE  ProbeInv'
<1> USE DEF ProbeInv, LoadSubAnchor, AtStep, NoFault, Fault, Cleaning, Steps, BeforeDrain, Steered, Drains, Ended, StageOf
<1>1. Pending' = Pending /\ Undoing' = Undoing
  BY Resting
<1>2. Typed'
  <2>1. host' \in Hosts
    BY DEF Typed, Hosts, Descriptors
  <2>2. p' \in Fields
    BY DEF Typed, Fields
  <2> QED BY <2>1, <2>2 DEF Typed
<1>3. Gated'
  BY <1>1 DEF Typed, Hosts, Fields, Gated
<1>4. ASSUME intr' = "waiting" PROVE Sole'
  BY <1>4 DEF Typed, Sole
<1>5. ASSUME intr' = "waiting" PROVE Pushed'
  BY <1>1, <1>5 DEF Typed, Hosts, Fields, Sole, Pushed, Known
<1>6. ASSUME intr' = "waiting" PROVE Layered'
  BY <1>1, <1>6 DEF Typed, Hosts, Fields, Sole, Layered, Known, UtunFirst
<1> QED BY <1>2, <1>3, <1>4, <1>5, <1>6

(* LoadSubAnchor comes after the push of its undo.                         *)
LEMMA LoadSubAnchor9Keeps ==
  ASSUME ProbeInv, LoadSubAnchor("sub9_load", "rdr", "natlook", "main9")
  PROVE  ProbeInv'
<1> USE DEF ProbeInv, LoadSubAnchor, AtStep, NoFault, Fault, Cleaning, Steps, BeforeDrain, Steered, Drains, Ended, StageOf
<1>1. Pending' = Pending /\ Undoing' = Undoing
  BY Resting
<1>2. Typed'
  <2>1. host' \in Hosts
    BY DEF Typed, Hosts, Descriptors
  <2>2. p' \in Fields
    BY DEF Typed, Fields
  <2> QED BY <2>1, <2>2 DEF Typed
<1>3. Gated'
  BY <1>1 DEF Typed, Hosts, Fields, Gated
<1>4. ASSUME intr' = "waiting" PROVE Sole'
  BY <1>4 DEF Typed, Sole
<1>5. ASSUME intr' = "waiting" PROVE Pushed'
  BY <1>1, <1>5 DEF Typed, Hosts, Fields, Sole, Pushed, Known
<1>6. ASSUME intr' = "waiting" PROVE Layered'
  BY <1>1, <1>6 DEF Typed, Hosts, Fields, Sole, Layered, Known, UtunFirst
<1> QED BY <1>2, <1>3, <1>4, <1>5, <1>6

(* LoadMain comes after the push of its undo and empties the anchors.      *)
LEMMA LoadMain5Keeps ==
  ASSUME ProbeInv, LoadMain("main5_load", "route", "stage6", "stage6")
  PROVE  ProbeInv'
<1> USE DEF ProbeInv, LoadMain, AtStep, NoFault, Fault, Cleaning, Steps, BeforeDrain, Steered, Drains, Ended, StageOf
<1>1. Pending' = Pending /\ Undoing' = Undoing
  BY Resting
<1>2. Typed'
  <2>1. host' \in Hosts
    BY DEF Typed, Hosts, Descriptors
  <2>2. p' \in Fields
    BY DEF Typed, Fields
  <2> QED BY <2>1, <2>2 DEF Typed
<1>3. Gated'
  BY <1>1 DEF Typed, Hosts, Fields, Gated
<1>4. ASSUME intr' = "waiting" PROVE Sole'
  BY <1>4 DEF Typed, Sole
<1>5. ASSUME intr' = "waiting" PROVE Pushed'
  
  <2>1. /\ pc' \notin Ended \cup {"stage4_push", "token", "anchor_push", "pfEnable", "sub5_load", "sub9_load", "main5_load", "main9_load"}
        /\ p'.token = p.token /\ p'.subLoaded = p.subLoaded /\ p'.mainReplaced = p.mainReplaced
        /\ host'.utun = host.utun /\ host'.ref = host.ref /\ host'.witness = host.witness /\ host'.fds = host.fds
        /\ host'.anchor \in {host.anchor, "none"} /\ host'.sub \in {host.sub, "none"}
    BY DEF Typed, Hosts, Fields
  <2>2. "main" \in Known /\ Known' = Known /\ pc \notin {"stage4_push", "token", "anchor_push"}
    BY <1>1, <1>5 DEF Pushed, Known
  <2> QED BY <2>1, <2>2, <1>5 DEF Pushed
<1>6. ASSUME intr' = "waiting" PROVE Layered'
  BY ZenonT(40), <1>1, <1>6 DEF Typed, Hosts, Fields, Sole, Layered, Known, UtunFirst
<1> QED BY <1>2, <1>3, <1>4, <1>5, <1>6

(* LoadMain comes after the push of its undo and empties the anchors.      *)
LEMMA LoadMain9Keeps ==
  ASSUME ProbeInv, LoadMain("main9_load", "rdr", "natlook", "stage10")
  PROVE  ProbeInv'
<1> USE DEF ProbeInv, LoadMain, AtStep, NoFault, Fault, Cleaning, Steps, BeforeDrain, Steered, Drains, Ended, StageOf
<1>1. Pending' = Pending /\ Undoing' = Undoing
  BY Resting
<1>2. Typed'
  <2>1. host' \in Hosts
    BY DEF Typed, Hosts, Descriptors
  <2>2. p' \in Fields
    BY DEF Typed, Fields
  <2> QED BY <2>1, <2>2 DEF Typed
<1>3. Gated'
  BY <1>1 DEF Typed, Hosts, Fields, Gated
<1>4. ASSUME intr' = "waiting" PROVE Sole'
  BY <1>4 DEF Typed, Sole
<1>5. ASSUME intr' = "waiting" PROVE Pushed'
  
  <2>1. /\ pc' \notin Ended \cup {"stage4_push", "token", "anchor_push", "pfEnable", "sub5_load", "sub9_load", "main5_load", "main9_load"}
        /\ p'.token = p.token /\ p'.subLoaded = p.subLoaded /\ p'.mainReplaced = p.mainReplaced
        /\ host'.utun = host.utun /\ host'.ref = host.ref /\ host'.witness = host.witness /\ host'.fds = host.fds
        /\ host'.anchor \in {host.anchor, "none"} /\ host'.sub \in {host.sub, "none"}
    BY DEF Typed, Hosts, Fields
  <2>2. "main" \in Known /\ Known' = Known /\ pc \notin {"stage4_push", "token", "anchor_push"}
    BY <1>1, <1>5 DEF Pushed, Known
  <2> QED BY <2>1, <2>2, <1>5 DEF Pushed
<1>6. ASSUME intr' = "waiting" PROVE Layered'
  BY <1>1, <1>6 DEF Typed, Hosts, Fields, Sole, Layered, Known, UtunFirst
<1> QED BY <1>2, <1>3, <1>4, <1>5, <1>6

(* CallCleanup finds no other cleaner in a quiet run.                      *)
LEMMA CleanupInStage10Keeps ==
  ASSUME ProbeInv, CallCleanup("stage10", "stage10_drained", "verify")
  PROVE  ProbeInv'
<1> USE DEF ProbeInv, CallCleanup, AtStep, NoFault, Fault, Cleaning, Steps, BeforeDrain, Steered, Drains, Ended
<1>1. Pending' = Pending /\ Undoing' = Undoing
  BY Resting
<1>2. Typed'
  <2>1. host' \in Hosts
    BY DEF Typed, Hosts, Descriptors
  <2>2. p' \in Fields
    BY DEF Typed, Fields
  <2> QED BY <2>1, <2>2 DEF Typed
<1>3. Gated'
  BY <1>1 DEF Typed, Hosts, Fields, Gated
<1>4. ASSUME intr' = "waiting" PROVE Sole'
  BY <1>4 DEF Typed, Sole
<1>5. ASSUME intr' = "waiting" PROVE Pushed'
  BY <1>1, <1>5 DEF Typed, Hosts, Fields, Sole, Pushed, Known
<1>6. ASSUME intr' = "waiting" PROVE Layered'
  BY <1>1, <1>6 DEF Typed, Hosts, Fields, Sole, Layered, Known, UtunFirst
<1> QED BY <1>2, <1>3, <1>4, <1>5, <1>6

(* CallCleanup finds no other cleaner in a quiet run.                      *)
LEMMA CleanupDeferredKeeps ==
  ASSUME ProbeInv, CallCleanup("deferred", "deferred_drained", "report")
  PROVE  ProbeInv'
<1> USE DEF ProbeInv, CallCleanup, AtStep, NoFault, Fault, Cleaning, Steps, BeforeDrain, Steered, Drains, Ended
<1>1. Pending' = Pending /\ Undoing' = Undoing
  BY Resting
<1>2. Typed'
  <2>1. host' \in Hosts
    BY DEF Typed, Hosts, Descriptors
  <2>2. p' \in Fields
    BY DEF Typed, Fields
  <2> QED BY <2>1, <2>2 DEF Typed
<1>3. Gated'
  BY <1>1 DEF Typed, Hosts, Fields, Gated
<1>4. ASSUME intr' = "waiting" PROVE Sole'
  BY <1>4 DEF Typed, Sole
<1>5. ASSUME intr' = "waiting" PROVE Pushed'
  BY <1>1, <1>5 DEF Typed, Hosts, Fields, Sole, Pushed, Known
<1>6. ASSUME intr' = "waiting" PROVE Layered'
  BY <1>1, <1>6 DEF Typed, Hosts, Fields, Sole, Layered, Known, UtunFirst
<1> QED BY <1>2, <1>3, <1>4, <1>5, <1>6

(* WriteTokenWitness pushes in the same step.                              *)
LEMMA WriteTokenWitnessKeeps ==
  ASSUME ProbeInv, WriteTokenWitness
  PROVE  ProbeInv'
<1> USE DEF ProbeInv, WriteTokenWitness, AtStep, NoFault, Fault, Cleaning, Steps, BeforeDrain, Steered, Drains, Ended
<1>1. /\ UNCHANGED undo => Pending' = Pending /\ undo' \in Seq(Undos) /\ (UtunFirst => UtunFirst')
      /\ OnCleanup("witness") => Pending' = Pending \cup {"witness"} /\ undo' \in Seq(Undos) /\ (UtunFirst => UtunFirst')
  BY PushesOne DEF Undos
<1>2. Typed'
  <2>1. host' \in Hosts
    BY DEF Typed, Hosts, Descriptors
  <2>2. p' \in Fields
    BY DEF Typed, Fields
  <2> QED BY <1>1, <2>1, <2>2 DEF Typed
<1>3. Gated'
  BY <1>1 DEF Typed, Hosts, Fields, Gated
<1>4. ASSUME intr' = "waiting" PROVE Sole'
  BY <1>4 DEF Typed, Sole
<1>5. ASSUME intr' = "waiting" PROVE Pushed'
  <2>1. CASE OnCleanup("witness") /\ host' = [host EXCEPT !.witness = TRUE]
    <3>1. Known' = Known \cup {"witness"}
      BY <1>1, <2>1 DEF Known
    <3> QED BY <1>5, <2>1, <3>1 DEF Typed, Hosts, Fields, Sole, Pushed
  <2>2. CASE UNCHANGED <<host, undo>>
    <3>1. Known' = Known
      BY <1>1, <2>2 DEF Known
    <3> QED BY <1>5, <2>2, <3>1 DEF Typed, Fields, Sole, Pushed
  <2> QED BY <2>1, <2>2
<1>6. ASSUME intr' = "waiting" PROVE Layered'
  BY <1>1, <1>6 DEF Typed, Hosts, Fields, Sole, Layered, Known, Undoing
<1> QED BY <1>2, <1>3, <1>4, <1>5, <1>6

(* RegisterAnchor closes the window of LoadAnchor.                         *)
LEMMA RegisterAnchorKeeps ==
  ASSUME ProbeInv, RegisterAnchor
  PROVE  ProbeInv'
<1> USE DEF ProbeInv, RegisterAnchor, AtStep, NoFault, Fault, Cleaning, Steps, BeforeDrain, Steered, Drains, Ended
<1>1. /\ UNCHANGED undo => Pending' = Pending /\ undo' \in Seq(Undos) /\ (UtunFirst => UtunFirst')
      /\ OnCleanup("anchor") => Pending' = Pending \cup {"anchor"} /\ undo' \in Seq(Undos) /\ (UtunFirst => UtunFirst')
  BY PushesOne DEF Undos
<1>2. Typed'
  <2>1. host' \in Hosts
    BY DEF Typed, Hosts, Descriptors
  <2>2. p' \in Fields
    BY DEF Typed, Fields
  <2> QED BY <1>1, <2>1, <2>2 DEF Typed
<1>3. Gated'
  BY <1>1 DEF Typed, Hosts, Fields, Gated
<1>4. ASSUME intr' = "waiting" PROVE Sole'
  BY <1>4 DEF Typed, Sole
<1>5. ASSUME intr' = "waiting" PROVE Pushed'
  <2>1. /\ p'.utun = p.utun /\ p'.token = p.token /\ p'.subLoaded = p.subLoaded /\ p'.mainReplaced = p.mainReplaced
    BY DEF Typed, Fields
  <2>2. Known' = Known \cup {"anchor"} /\ pc' \in {"stage6", "sub5"} /\ UNCHANGED host
    BY <1>1, <1>5 DEF Sole, Known
  <2> QED BY <1>5, <2>1, <2>2 DEF Pushed
<1>6. ASSUME intr' = "waiting" PROVE Layered'
  BY <1>1, <1>6 DEF Typed, Hosts, Fields, Sole, Layered, Known, Undoing
<1> QED BY <1>2, <1>3, <1>4, <1>5, <1>6

(* InstallViaAppleSubAnchor pushes once.                                   *)
LEMMA InstallSub5Keeps ==
  ASSUME ProbeInv, InstallViaAppleSubAnchor("sub5", "sub5_load", "main5")
  PROVE  ProbeInv'
<1> USE DEF ProbeInv, InstallViaAppleSubAnchor, AtStep, NoFault, Fault, Cleaning, Steps, BeforeDrain, Steered, Drains, Ended
<1>1. /\ UNCHANGED undo => Pending' = Pending /\ undo' \in Seq(Undos) /\ (UtunFirst => UtunFirst')
      /\ OnCleanup("sub") => Pending' = Pending \cup {"sub"} /\ undo' \in Seq(Undos) /\ (UtunFirst => UtunFirst')
  BY PushesOne DEF Undos
<1>2. Typed'
  <2>1. host' \in Hosts
    BY DEF Typed, Hosts, Descriptors
  <2>2. p' \in Fields
    BY DEF Typed, Fields
  <2> QED BY <1>1, <2>1, <2>2 DEF Typed
<1>3. Gated'
  BY <1>1 DEF Typed, Hosts, Fields, Gated
<1>4. ASSUME intr' = "waiting" PROVE Sole'
  BY <1>4 DEF Typed, Sole
<1>5. ASSUME intr' = "waiting" PROVE Pushed'
  BY <1>1, <1>5 DEF Typed, Hosts, Fields, Sole, Pushed, Known
<1>6. ASSUME intr' = "waiting" PROVE Layered'
  BY <1>1, <1>6 DEF Typed, Hosts, Fields, Sole, Layered, Known, Undoing
<1> QED BY <1>2, <1>3, <1>4, <1>5, <1>6

(* InstallViaAppleSubAnchor pushes once.                                   *)
LEMMA InstallSub9Keeps ==
  ASSUME ProbeInv, InstallViaAppleSubAnchor("sub9", "sub9_load", "main9")
  PROVE  ProbeInv'
<1> USE DEF ProbeInv, InstallViaAppleSubAnchor, AtStep, NoFault, Fault, Cleaning, Steps, BeforeDrain, Steered, Drains, Ended
<1>1. /\ UNCHANGED undo => Pending' = Pending /\ undo' \in Seq(Undos) /\ (UtunFirst => UtunFirst')
      /\ OnCleanup("sub") => Pending' = Pending \cup {"sub"} /\ undo' \in Seq(Undos) /\ (UtunFirst => UtunFirst')
  BY PushesOne DEF Undos
<1>2. Typed'
  <2>1. host' \in Hosts
    BY DEF Typed, Hosts, Descriptors
  <2>2. p' \in Fields
    BY DEF Typed, Fields
  <2> QED BY <1>1, <2>1, <2>2 DEF Typed
<1>3. Gated'
  BY <1>1 DEF Typed, Hosts, Fields, Gated
<1>4. ASSUME intr' = "waiting" PROVE Sole'
  BY <1>4 DEF Typed, Sole
<1>5. ASSUME intr' = "waiting" PROVE Pushed'
  BY <1>1, <1>5 DEF Typed, Hosts, Fields, Sole, Pushed, Known
<1>6. ASSUME intr' = "waiting" PROVE Layered'
  BY <1>1, <1>6 DEF Typed, Hosts, Fields, Sole, Layered, Known, Undoing
<1> QED BY <1>2, <1>3, <1>4, <1>5, <1>6

(* InstallMainRuleset pushes once, and only if it was asked for.           *)
LEMMA InstallMain5Keeps ==
  ASSUME ProbeInv, InstallMainRuleset("main5", "main5_load", "stage6")
  PROVE  ProbeInv'
<1> USE DEF ProbeInv, InstallMainRuleset, AtStep, NoFault, Fault, Cleaning, Steps, BeforeDrain, Steered, Drains, Ended
<1>1. /\ UNCHANGED undo => Pending' = Pending /\ undo' \in Seq(Undos) /\ (UtunFirst => UtunFirst')
      /\ OnCleanup("main") => Pending' = Pending \cup {"main"} /\ undo' \in Seq(Undos) /\ (UtunFirst => UtunFirst')
  BY PushesOne DEF Undos
<1>2. Typed'
  <2>1. host' \in Hosts
    BY DEF Typed, Hosts, Descriptors
  <2>2. p' \in Fields
    BY DEF Typed, Fields
  <2> QED BY <1>1, <2>1, <2>2 DEF Typed
<1>3. Gated'
  BY <1>1 DEF Typed, Hosts, Fields, Gated
<1>4. ASSUME intr' = "waiting" PROVE Sole'
  BY <1>4 DEF Typed, Sole
<1>5. ASSUME intr' = "waiting" PROVE Pushed'
  BY <1>1, <1>5 DEF Typed, Hosts, Fields, Sole, Pushed, Known
<1>6. ASSUME intr' = "waiting" PROVE Layered'
  BY <1>1, <1>6 DEF Typed, Hosts, Fields, Sole, Layered, Known, Undoing
<1> QED BY <1>2, <1>3, <1>4, <1>5, <1>6

(* InstallMainRuleset pushes once, and only if it was asked for.           *)
LEMMA InstallMain9Keeps ==
  ASSUME ProbeInv, InstallMainRuleset("main9", "main9_load", "stage10")
  PROVE  ProbeInv'
<1> USE DEF ProbeInv, InstallMainRuleset, AtStep, NoFault, Fault, Cleaning, Steps, BeforeDrain, Steered, Drains, Ended
<1>1. /\ UNCHANGED undo => Pending' = Pending /\ undo' \in Seq(Undos) /\ (UtunFirst => UtunFirst')
      /\ OnCleanup("main") => Pending' = Pending \cup {"main"} /\ undo' \in Seq(Undos) /\ (UtunFirst => UtunFirst')
  BY PushesOne DEF Undos
<1>2. Typed'
  <2>1. host' \in Hosts
    BY DEF Typed, Hosts, Descriptors
  <2>2. p' \in Fields
    BY DEF Typed, Fields
  <2> QED BY <1>1, <2>1, <2>2 DEF Typed
<1>3. Gated'
  BY <1>1 DEF Typed, Hosts, Fields, Gated
<1>4. ASSUME intr' = "waiting" PROVE Sole'
  BY <1>4 DEF Typed, Sole
<1>5. ASSUME intr' = "waiting" PROVE Pushed'
  BY <1>1, <1>5 DEF Typed, Hosts, Fields, Sole, Pushed, Known
<1>6. ASSUME intr' = "waiting" PROVE Layered'
  BY <1>1, <1>6 DEF Typed, Hosts, Fields, Sole, Layered, Known, Undoing
<1> QED BY <1>2, <1>3, <1>4, <1>5, <1>6

(* Stage8RawSocket pushes what it opens.                                   *)
LEMMA Stage8RawSocketKeeps ==
  ASSUME ProbeInv, Stage8RawSocket
  PROVE  ProbeInv'
<1> USE DEF ProbeInv, Stage8RawSocket, AtStep, NoFault, Fault, Cleaning, Steps, BeforeDrain, Steered, Drains, Ended
<1>1. /\ UNCHANGED undo => Pending' = Pending /\ undo' \in Seq(Undos) /\ (UtunFirst => UtunFirst')
      /\ OnCleanup("raw") => Pending' = Pending \cup {"raw"} /\ undo' \in Seq(Undos) /\ (UtunFirst => UtunFirst')
  BY PushesOne DEF Undos
<1>2. Typed'
  <2>1. host' \in Hosts
    BY DEF Typed, Hosts, Descriptors
  <2>2. p' \in Fields
    BY DEF Typed, Fields
  <2> QED BY <1>1, <2>1, <2>2 DEF Typed
<1>3. Gated'
  BY <1>1 DEF Typed, Hosts, Fields, Gated
<1>4. ASSUME intr' = "waiting" PROVE Sole'
  BY <1>4 DEF Typed, Sole
<1>5. ASSUME intr' = "waiting" PROVE Pushed'
  <2>1. pc' = "stage9" /\ UNCHANGED <<p, failed>> /\ pc = "stage8"
    OBVIOUS
  <2>2. CASE UNCHANGED <<host, undo>>
    BY <1>1, <1>5, <2>1, <2>2 DEF Pushed, Known
  <2>3. CASE host' = [host EXCEPT !.fds = @ \cup {"raw"}] /\ OnCleanup("raw")
    <3>1. Known' = Known \cup {"raw"}
      BY <1>1, <2>3 DEF Known
    <3>2. /\ host'.utun = host.utun /\ host'.ref = host.ref /\ host'.anchor = host.anchor /\ host'.sub = host.sub
          /\ host'.main = host.main /\ host'.witness = host.witness /\ host'.fds = host.fds \cup {"raw"}
      BY <2>3 DEF Typed, Hosts
    <3> QED BY <1>5, <2>1, <3>1, <3>2 DEF Pushed
  <2> QED BY <2>1, <2>2, <2>3
<1>6. ASSUME intr' = "waiting" PROVE Layered'
  BY <1>1, <1>6 DEF Typed, Hosts, Fields, Sole, Layered, Known, Undoing
<1> QED BY <1>2, <1>3, <1>4, <1>5, <1>6

(* RegisterUTUN: nothing is on the stack before it.                        *)
LEMMA RegisterUTUNKeeps ==
  ASSUME ProbeInv, RegisterUTUN
  PROVE  ProbeInv'
<1> USE DEF ProbeInv, RegisterUTUN, AtStep, NoFault, Fault, Cleaning, Steps, BeforeDrain, Steered, Drains, Ended
<1>1. undo' \in Seq(Undos) /\ Pending' = Pending \cup {"utun"}
  <2>1. <<"utun">> \in Seq(Undos) /\ Range(<<"utun">>) = {"utun"} /\ undo' = undo \o <<"utun">>
    BY DEF Range, Undos, Typed, OnCleanup
  <2> QED BY <2>1, Pushing
<1>2. ASSUME intr' = "waiting" PROVE UtunFirst'
  <2>1. undo' = <<"utun">>
    BY <1>2 DEF Sole, OnCleanup
  <2> QED BY <2>1 DEF UtunFirst
<1>3. Typed'
  <2>1. p' \in Fields
    BY DEF Typed, Fields
  <2> QED BY <1>1, <2>1 DEF Typed
<1>4. Gated'
  BY <1>1 DEF Typed, Hosts, Fields, Gated
<1>5. ASSUME intr' = "waiting" PROVE Sole'
  BY <1>5 DEF Typed, Sole
<1>6. ASSUME intr' = "waiting" PROVE Pushed'
  BY <1>1, <1>6 DEF Typed, Hosts, Fields, Sole, Pushed, Known
<1>7. ASSUME intr' = "waiting" PROVE Layered'
  BY <1>1, <1>2, <1>7 DEF Typed, Hosts, Fields, Sole, Layered, Known, Pushed, Undoing
<1> QED BY <1>3, <1>4, <1>5, <1>6, <1>7

(* OpenPFDevice pushes two undos or nothing.                               *)
LEMMA OpenPFDeviceKeeps ==
  ASSUME ProbeInv, OpenPFDevice
  PROVE  ProbeInv'
<1> USE DEF ProbeInv, AtStep, NoFault, Fault, Cleaning, Steps, BeforeDrain, Steered, Drains, Ended
<1>1. CASE UNCHANGED <<host, p, undo>>
  <2>1. Pending' = Pending
    BY <1>1, Resting DEF OpenPFDevice
  <2>2. Typed' /\ Gated'
    BY <1>1, <2>1 DEF OpenPFDevice, Typed, Gated
  <2>3. ASSUME intr' = "waiting" PROVE Sole' /\ Pushed' /\ Layered'
    BY <1>1, <2>1, <2>3 DEF OpenPFDevice, Typed, Sole, Pushed, Layered, Known, UtunFirst, Undoing
  <2> QED BY <2>2, <2>3
<1>2. CASE undo' = undo \o <<"pf", "ref">> /\ pc' = "pfEnable"
           /\ p' = [p EXCEPT !.pfFD = TRUE] /\ host' = [host EXCEPT !.fds = @ \cup {"pf"}]
  <2>1. Pending' = Pending \cup {"pf", "ref"} /\ undo' \in Seq(Undos) /\ (UtunFirst => UtunFirst')
    BY <1>2, PushesTwo DEF OpenPFDevice, Undos
  <2>2. host' \in Hosts /\ p' \in Fields
    <3>1. host' \in Hosts
      BY <1>2 DEF Typed, Hosts, Descriptors
    <3>2. p' \in Fields
      BY <1>2 DEF Typed, Fields
    <3> QED BY <3>1, <3>2
  <2>3. /\ host'.utun = host.utun /\ host'.ref = host.ref /\ host'.anchor = host.anchor /\ host'.sub = host.sub
        /\ host'.main = host.main /\ host'.witness = host.witness /\ host'.others = host.others
        /\ host'.fds = host.fds \cup {"pf"}
    BY <1>2 DEF Typed, Hosts
  <2>4. /\ p'.utun = p.utun /\ p'.token = p.token /\ p'.subLoaded = p.subLoaded /\ p'.mainReplaced = p.mainReplaced
    BY <1>2 DEF Typed, Fields
  <2>5. Typed'
    BY <1>2, <2>1, <2>2 DEF OpenPFDevice, Typed
  <2>6. Gated'
    BY <1>2, <2>1, <2>3 DEF OpenPFDevice, Gated
  <2>7. ASSUME intr' = "waiting" PROVE Sole'
    BY <1>2, <2>7 DEF OpenPFDevice, Sole
  <2>8. ASSUME intr' = "waiting" PROVE Pushed'
    BY <1>2, <2>1, <2>3, <2>4, <2>8 DEF OpenPFDevice, Pushed, Known
  <2>9. ASSUME intr' = "waiting" PROVE Layered'
    BY <1>2, <2>1, <2>3, <2>4, <2>9 DEF OpenPFDevice, Layered, Sole, Undoing
  <2> QED BY <2>5, <2>6, <2>7, <2>8, <2>9
<1> QED BY <1>1, <1>2 DEF OpenPFDevice

(* OpenBPF pushes an undo for each descriptor it opens.                    *)
LEMMA OpenBPFKeeps ==
  ASSUME ProbeInv, OpenBPF
  PROVE  ProbeInv'
<1> USE DEF ProbeInv, AtStep, NoFault, Fault, Cleaning, Steps, BeforeDrain, Steered, Drains, Ended
<1>1. PICK opened \in {<<>>, <<"bpfR">>, <<"bpfW">>, <<"bpfR", "bpfW">>} :
        /\ host' = [host EXCEPT !.fds = @ \cup Range(opened)] /\ undo' = undo \o opened
        /\ pc' \in {"stage7_write", "stage8"}
  BY DEF OpenBPF
<1>2. opened \in Seq(Undos) /\ Range(opened) \subseteq {"bpfR", "bpfW"}
  <2>1. "bpfR" \in Undos /\ "bpfW" \in Undos
    BY DEF Undos
  <2>2. <<>> \in Seq(Undos) /\ <<"bpfR">> \in Seq(Undos) /\ <<"bpfW">> \in Seq(Undos) /\ <<"bpfR", "bpfW">> \in Seq(Undos)
    BY <2>1
  <2>3. CASE opened = <<>>
    BY <2>2, <2>3 DEF Range
  <2>4. CASE opened = <<"bpfR">>
    BY <2>2, <2>4 DEF Range
  <2>5. CASE opened = <<"bpfW">>
    BY <2>2, <2>5 DEF Range
  <2>6. CASE opened = <<"bpfR", "bpfW">>
    BY <2>2, <2>6 DEF Range
  <2> QED BY <2>3, <2>4, <2>5, <2>6
<1>3. /\ undo' \in Seq(Undos) /\ Pending' = Pending \cup Range(opened) /\ (UtunFirst => UtunFirst')
  BY <1>1, <1>2, Pushing DEF OpenBPF
<1>4. host' \in Hosts
  BY <1>1, <1>2 DEF Typed, Hosts, Descriptors
<1>5. /\ host'.utun = host.utun /\ host'.ref = host.ref /\ host'.anchor = host.anchor /\ host'.sub = host.sub
      /\ host'.main = host.main /\ host'.witness = host.witness /\ host'.others = host.others
      /\ host'.fds = host.fds \cup Range(opened)
  BY <1>1 DEF Typed, Hosts
<1>6. Typed'
  BY <1>1, <1>3, <1>4 DEF OpenBPF, Typed
<1>7. Gated'
  BY <1>1, <1>2, <1>3, <1>5 DEF OpenBPF, Gated
<1>8. ASSUME intr' = "waiting" PROVE Sole'
  BY <1>1, <1>8 DEF OpenBPF, Sole
<1>9. ASSUME intr' = "waiting" PROVE Pushed'
  BY <1>1, <1>3, <1>5, <1>9 DEF OpenBPF, Pushed, Known
<1>10. ASSUME intr' = "waiting" PROVE Layered'
  BY <1>1, <1>3, <1>5, <1>10 DEF OpenBPF, Layered, Sole, Undoing
<1> QED BY <1>6, <1>7, <1>8, <1>9, <1>10

(* PopUndo takes the undo of the utun only when it is the last one.        *)
LEMMA PopUndoKeeps ==
  ASSUME ProbeInv, PopUndo
  PROVE  ProbeInv'
<1> USE DEF ProbeInv
<1>1. /\ undo' \in Seq(Undos) /\ doing' \in Undos
      /\ Pending = Pending' \cup {"none"} /\ "none" \notin Pending'
      /\ Len(undo) > 0 /\ doing' = undo[Len(undo)]
      /\ DOMAIN undo' = 1 .. Len(undo) - 1
      /\ \A i \in 1 .. Len(undo) - 1 : undo'[i] = undo[i]
  BY Popping
<1>2. UNCHANGED <<conf, host, pc, p, verified, cleaner, failed, intr, exit>> /\ cleaner # "none" /\ undo # <<>>
      /\ exit = "none" /\ doing = "none"
  BY DEF PopUndo
<1>3. undo \in Seq(Undos) /\ Len(undo) \in Nat /\ DOMAIN undo = 1 .. Len(undo)
  BY DEF Typed
<1>4. Typed'
  BY <1>1, <1>2 DEF Typed
<1>5. Gated'
  <2>1. undo' = undo => FALSE
    BY <1>1, <1>3
  <2> QED BY <1>1, <1>2 DEF Gated
<1>6. ASSUME intr' = "waiting" PROVE Sole' /\ Pushed'
  <2>1. Sole'
    BY <1>2, <1>6 DEF Sole, Steps, BeforeDrain, Steered, Drains, Ended
  <2>2. Known = Known' \cup {"none"} /\ "none" \notin {"utun", "ref", "witness", "anchor", "sub", "main", "pf", "bpfR", "bpfW", "raw"}
    BY <1>1, <1>2 DEF Known
  <2>3. host.fds \subseteq {"pf", "bpfR", "bpfW", "raw"}
    BY DEF Typed, Hosts, Descriptors
  <2>4. Pushed'
    BY <1>2, <1>6, <2>2, <2>3 DEF Pushed
  <2> QED BY <2>1, <2>4
<1>7. ASSUME intr' = "waiting" PROVE Layered'
  <2>1. UtunFirst'
    BY <1>1, <1>2, <1>3, <1>7 DEF Layered, UtunFirst
  <2>2. ASSUME doing' = "utun" PROVE undo' = <<>>
    <3>1. Len(undo) = 1
      <4>1. UtunFirst
        BY <1>2, <1>7 DEF Layered
      <4>2. Len(undo) \in DOMAIN undo /\ undo[Len(undo)] = "utun"
        BY <1>1, <1>3, <2>2
      <4> QED BY <4>1, <4>2 DEF UtunFirst
    <3>2. Len(undo') = 0
      BY <1>1, <3>1
    <3> QED BY <1>1, <3>2
  <2>3. Undoing' = doing'
    BY <1>1 DEF Undoing, Undos
  <2> QED BY <1>2, <1>7, <2>1, <2>2, <2>3 DEF Layered
<1> QED BY <1>4, <1>5, <1>6, <1>7

(* RunUndo takes back the change it stands for, or fails.                  *)
LEMMA RunUndoKeeps ==
  ASSUME ProbeInv, RunUndo
  PROVE  ProbeInv'
<1> USE DEF ProbeInv
<1> DEFINE u == Undoing
<1>1. /\ u \in Undos /\ doing # "none" /\ doing' = "none" /\ undo \in Seq(Undos) /\ Undoing' = "none"
      /\ UNCHANGED <<conf, pc, verified, undo, cleaner, intr, exit>>
      /\ exit = "none" /\ "none" \notin Undos
      /\ (u \in Descriptors \cup {"ref", "witness", "anchor", "sub", "main"}) => u = doing
  BY DEF RunUndo, LastStep, Undoing, Typed, Undos, Descriptors
<1>2. /\ Pending = {undo[i] : i \in DOMAIN undo} \cup {u}
      /\ Pending' = {undo[i] : i \in DOMAIN undo} \cup {"none"}
  BY <1>1 DEF Pending
<1>3. p' \in Fields /\ p'.utun = p.utun /\ p'.token = p.token /\ p'.subLoaded = p.subLoaded /\ p'.mainReplaced = p.mainReplaced
  <2>1. p' \in Fields
    BY DEF RunUndo, Typed, Fields
  <2> QED BY <2>1 DEF RunUndo, Typed, Fields
<1>4. \/ host' = Undone(u) /\ UNCHANGED failed
      \/ UNCHANGED host /\ failed' = failed \cup {u}
  BY DEF RunUndo, Undoing
<1>5. ASSUME host' = Undone(u)
      PROVE  /\ host' \in Hosts
             /\ host'.utun = (host.utun /\ u # "utun")
             /\ host'.ref = (host.ref /\ ~(u = "ref" /\ p.token))
             /\ host'.witness = (host.witness /\ u # "witness")
             /\ host'.anchor = IF u \in {"anchor", "main"} THEN "none" ELSE host.anchor
             /\ host'.sub = IF u \in {"sub", "main"} THEN "none" ELSE host.sub
             /\ host'.main = IF u = "main" THEN "none" ELSE host.main
             /\ host'.fds = IF u \in Descriptors THEN host.fds \ {u} ELSE host.fds
             /\ host'.others = (host.others /\ u # "main")
  <2> USE <1>1, <1>5 DEF Undone, Typed, Hosts, Descriptors
  <2>1. CASE u = "utun"
    BY <2>1
  <2>2. CASE u = "ref"
    BY <2>2
  <2>3. CASE u = "witness"
    BY <2>3
  <2>4. CASE u = "anchor"
    BY <2>4
  <2>5. CASE u = "sub"
    BY <2>5
  <2>6. CASE u = "main"
    BY <2>6
  <2>7. CASE u \in Descriptors
    BY <2>7
  <2> QED BY <2>1, <2>2, <2>3, <2>4, <2>5, <2>6, <2>7 DEF Undos
<1>6. Typed'
  <2>1. host' \in Hosts
    BY <1>4, <1>5 DEF Typed
  <2> QED BY <1>1, <1>3, <1>4, <2>1 DEF Typed
<1>7. Gated'
  <2>1. conf' = conf /\ pc' = pc /\ (pc = "begin" => doing = "none")
    BY <1>1 DEF Gated
  <2>2. "main" \in Pending' => "main" \in Pending
    BY <1>1, <1>2
  <2>3. ~host'.others => ~host.others \/ u = "main"
    BY <1>4, <1>5 DEF Typed, Hosts
  <2>4. u = "main" => conf.replaceMain
    BY <1>2 DEF Gated
  <2> QED BY <1>1, <2>1, <2>2, <2>3, <2>4 DEF Gated
<1>8. ASSUME intr' = "waiting" PROVE Sole'
  BY <1>1, <1>4, <1>8 DEF Sole
<1>9. ASSUME intr = "waiting" PROVE pc \in Drains
  BY <1>1, <1>9 DEF Sole
<1>10. ASSUME intr' = "waiting" PROVE Pushed'
  <2>1. Pushed /\ pc \in Drains /\ pc' = pc
    BY <1>1, <1>9, <1>10
  <2>2. CASE UNCHANGED host /\ failed' = failed \cup {u}
    <3>1. Known \subseteq Known'
      BY <1>2, <2>2 DEF Known
    <3> QED BY <1>3, <2>1, <2>2, <3>1 DEF Pushed, Drains, Ended
  <2>3. CASE host' = Undone(u) /\ UNCHANGED failed
    <3>1. \A x \in Known : x # u => x \in Known'
      BY <1>1, <1>2, <2>3 DEF Known
    <3>2. host.fds \subseteq Known /\ host.fds \subseteq Descriptors
      BY <2>1 DEF Pushed, Typed, Hosts
    <3>3. host'.fds \subseteq Known'
      BY <1>5, <2>3, <3>1, <3>2
    <3>4. host'.ref => host.ref /\ u # "ref"
      BY <1>5, <2>1, <2>3 DEF Pushed, Drains
    <3> QED BY <1>3, <1>5, <2>1, <2>3, <3>1, <3>3, <3>4 DEF Pushed, Drains, Ended
  <2> QED BY <1>4, <2>2, <2>3
<1>11. ASSUME intr' = "waiting" PROVE Layered'
  <2>1. Pushed /\ Layered /\ pc \in Drains /\ pc' = pc
    BY <1>1, <1>9, <1>11
  <2>2. UtunFirst'
    BY <1>1, <2>1 DEF Layered, UtunFirst
  <2>3. ASSUME failed' = {}, host'.anchor = "route" \/ host'.sub = "route" \/ host'.main = "route"
        PROVE  host'.utun
    <3>1. host' = Undone(u) /\ failed = {}
      BY <1>4, <2>3
    <3>2. host.utun /\ (host.anchor = "route" \/ host.sub = "route" \/ host.main = "route")
      BY <1>5, <2>1, <2>3, <3>1 DEF Layered
    <3>3. CASE u = "utun"
      <4>1. Known = {"utun"}
        BY <1>2, <2>1, <3>1, <3>3 DEF Layered, Known
      <4> QED BY <2>1, <3>2, <4>1 DEF Pushed, Drains
    <3> QED BY <1>5, <3>1, <3>2, <3>3
  <2> QED BY <1>1, <1>3, <2>1, <2>2, <2>3 DEF Layered, Drains, BeforeDrain, Steered
<1> QED BY <1>6, <1>7, <1>8, <1>10, <1>11

-----------------------------------------------------------------------------
(* Every step keeps the invariant.                                         *)
LEMMA NextProbeInv == ProbeInv /\ [Next]_probing => ProbeInv'
<1> SUFFICES ASSUME ProbeInv, [Next]_probing PROVE ProbeInv'
  OBVIOUS
<1>1. CASE Main
  BY <1>1, EnvironmentKeeps, CreateUTUNKeeps, RegisterUTUNKeeps, OpenPFDeviceKeeps, PfEnableKeeps, SetTokenKeeps,
     WriteTokenWitnessKeeps, LoadAnchorKeeps, RegisterAnchorKeeps, InstallSub5Keeps, LoadSubAnchor5Keeps,
     InstallMain5Keeps, LoadMain5Keeps, Stage6RouteToGateKeeps, GateKeeps, OpenBPFKeeps, WriteFrameKeeps,
     Stage8RawSocketKeeps, Stage9NatlookKeeps, InstallSub9Keeps, LoadSubAnchor9Keeps, InstallMain9Keeps,
     LoadMain9Keeps, NatlookKeeps, CleanupInStage10Keeps, Stage10VerifyKeeps, CleanupDeferredKeeps,
     ExitMainKeeps DEF Main
<1>2. CASE Cleanup
  BY <1>2, PopUndoKeeps, StopReaderKeeps, AwaitReaderKeeps, RunUndoKeeps, DrainedKeeps DEF Cleanup
<1>3. CASE Panic \/ Signal \/ SignalHandler \/ ReaderEnds
  BY <1>3, PanicKeeps, SignalKeeps, HandlerCleanupKeeps, ExitHandlerKeeps, ReaderEndsKeeps DEF SignalHandler
<1>4. CASE UNCHANGED probing
  BY <1>4 DEF probing, ProbeInv, Typed, Gated, Sole, Pushed, Layered, Known, Pending, Undoing, UtunFirst
<1> QED BY <1>1, <1>2, <1>3, <1>4 DEF Next, Done

(* With no signal, an empty stack and no undo that failed the machine is as *)
(* it was found.                                                           *)
LEMMA NothingKnown ==
  ASSUME ProbeInv, intr = "waiting", undo = <<>>, doing = "none", failed = {},
         pc \notin {"stage4_push", "anchor_push"}
  PROVE  Restored
<1>1. Known = {"none"}
  BY Empty DEF Known, Undoing
<1>2. host.fds \subseteq Descriptors /\ "none" \notin Descriptors
  BY DEF ProbeInv, Typed, Hosts, Descriptors
<1>3. Pushed /\ host \in Hosts
  BY DEF ProbeInv, Typed
<1> QED BY <1>1, <1>2, <1>3 DEF Pushed, Restored, Hosts

LEMMA ImpliesProperty == ProbeInv => ProbeCleansUp
<1> SUFFICES ASSUME ProbeInv PROVE ProbeCleansUp
  OBVIOUS
<1> USE DEF ProbeInv
<1>1. TypeOK
  BY DEF TypeOK, Typed, Hosts, Descriptors
<1>2. QuietExitUndoes
  <2> SUFFICES ASSUME exit \in {"0", "2"}, intr = "waiting", failed = {} PROVE Restored
    BY DEF QuietExitUndoes
  <2>1. pc = "report" /\ undo = <<>> /\ doing = "none"
    BY DEF Sole, Drains
  <2> QED BY <2>1, NothingKnown
<1>3. Stage10Honest
  <2> SUFFICES ASSUME pc = "deferred", verified = "PASS", intr = "waiting" PROVE Restored
    BY DEF Stage10Honest
  <2>1. undo = <<>> /\ doing = "none" /\ failed = {}
    BY DEF Sole
  <2> QED BY <2>1, NothingKnown
<1>4. NoRouteIntoNothing /\ OthersKept
  BY DEF NoRouteIntoNothing, OthersKept, Layered, Gated, Typed, Hosts
<1>5. ChangesPushed
  BY DEF ChangesPushed, Pushed, Known, Windows
<1> QED BY <1>1, <1>2, <1>3, <1>4, <1>5 DEF ProbeCleansUp

(* The probe cleans up: without a signal everything it changed is on the   *)
(* stack, being undone or failed to be, stage 10 and the exit find the     *)
(* machine as it was unless an undo failed, and no rule leads into a utun  *)
(* that is gone; with one too, the rules of others stay unless the run was *)
(* told to replace them (probe.go and the *_probe_darwin.go files).        *)
THEOREM CleansUp == Init /\ [][Next]_probing => []ProbeCleansUp
<1>1. Init => ProbeInv
  BY InitProbeInv
<1>2. ProbeInv /\ [Next]_probing => ProbeInv'
  BY NextProbeInv
<1>3. ProbeInv => ProbeCleansUp
  BY ImpliesProperty
<1> QED BY <1>1, <1>2, <1>3, PTL
==============================================================================
