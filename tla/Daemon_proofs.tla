---------------------------- MODULE Daemon_proofs -----------------------------
(* Proofs about the daemon (cmd/zapretd), and the strategy files it compiles.    *)
(*                                                                               *)
(* Supervisor, for every number of concurrent commands and of candidates and     *)
(* without any bound on failures: what holds at every moment (IInv).             *)
(*                                                                               *)
(* StrategyLoad, for any files: what the compiler has of the lists is, at every  *)
(* moment, what the files it has read hold (LoadInv), however the user edits     *)
(* them; merged ports cover what the ranges do; and what Desync_proofs says of   *)
(* the operations tells what an accepted overlap, and an operation that no       *)
(* report names, do with a packet.                                               *)
EXTENDS Supervisor, Desync_proofs, StrategyLoad

(* session has a datapath between the moment it launches Start and the     *)
(* moment it has seen it return.                                           *)
Phases == dp # "none" <=> spc \in {"probation", "drain", "await"}

(* While it has one, the field d.sessionCancel leads to it.                *)
Registered == dp # "none" => cancelReg

(* The order of Run's shutdown.                                            *)
ShutdownOrder ==
    /\ pc["main"] \in {"cleanup", "leave", "exited"} => spc = "exited"
    /\ pc["main"] \in {"leave", "exited"} => rules # "loaded"

IInv == TypeOK /\ Phases /\ Registered /\ ShutdownOrder /\ NoLostWakeup

-----------------------------------------------------------------------------
LEMMA InitIInv == Init => IInv
<1> SUFFICES ASSUME Init PROVE IInv
  OBVIOUS
<1> USE ParamAssumption DEF Init, Actor, SupPc, ActorPc
<1>1. cmd \in [Actor -> Command \cup {"none", "repair", "shutdown"}]
  OBVIOUS
<1>2. pc \in [Actor -> ActorPc]
  OBVIOUS
<1>3. cand \in 1 .. NumCands /\ fails \in 0 .. MaxFails /\ drifts \in 0 .. MaxDrifts
  OBVIOUS
<1>4. TypeOK
  BY <1>1, <1>2, <1>3 DEF TypeOK
<1>5. Phases /\ Registered /\ ShutdownOrder /\ NoLostWakeup
  BY DEF Phases, Registered, ShutdownOrder, NoLostWakeup
<1> QED BY <1>4, <1>5 DEF IInv

(* supervise and session.                                                  *)
LEMMA SuperviseKeepsIInv ==
    ASSUME IInv, Supervise
    PROVE  IInv'
<1> USE ParamAssumption
        DEF IInv, TypeOK, Phases, Registered, ShutdownOrder, NoLostWakeup,
            Actor, SupPc, ActorPc, Goto, desired, super, instance, pf, actors, copies, budgets
<1>1. CASE Decide
  <2>1. TypeOK'
    BY <1>1 DEF Decide
  <2>2. Phases'
    BY <1>1 DEF Decide
  <2>3. Registered'
    BY <1>1 DEF Decide
  <2>4. ShutdownOrder'
    BY <1>1 DEF Decide
  <2>5. NoLostWakeup'
    BY <1>1 DEF Decide
  <2> QED BY <2>1, <2>2, <2>3, <2>4, <2>5
<1>2. CASE Doze
  BY <1>2 DEF Doze
<1>3. CASE Sleep
  <2>1. TypeOK'
    <3>1. spc' \in SupPc /\ wake' \in BOOLEAN
      BY <1>3 DEF Sleep
    <3>2. UNCHANGED <<enabled, down, cand, instance, pf, actors, copies, budgets>>
      BY <1>3 DEF Sleep
    <3> QED BY <3>1, <3>2
  <2>2. Phases'
    BY <1>3 DEF Sleep
  <2>3. Registered'
    BY <1>3 DEF Sleep
  <2>4. ShutdownOrder'
    BY <1>3 DEF Sleep
  <2>5. NoLostWakeup'
    BY <1>3 DEF Sleep
  <2> QED BY <2>1, <2>2, <2>3, <2>4, <2>5
<1>4. CASE SessionOver
  BY <1>4 DEF SessionOver
<1>5. CASE Backoff
  <2>1. TypeOK'
    BY ZenonT(40), <1>5 DEF Backoff
  <2>2. Phases'
    BY <1>5 DEF Backoff
  <2>3. Registered'
    BY <1>5 DEF Backoff
  <2>4. ShutdownOrder'
    BY <1>5 DEF Backoff
  <2>5. NoLostWakeup'
    BY <1>5 DEF Backoff
  <2> QED BY <2>1, <2>2, <2>3, <2>4, <2>5
<1>6. CASE Build
  BY <1>6 DEF Build, NextCandidate, Fail
<1>7. CASE Launch
  BY <1>7 DEF Launch
<1>8. CASE StartReturned
  <2>1. TypeOK'
    <3>1. cand' \in 1 .. NumCands /\ spc' \in {"build", "ended"}
      BY <1>8 DEF StartReturned, NextCandidate
    <3> QED BY <1>8, <3>1 DEF StartReturned, Retire
  <2>2. Phases'
    BY <1>8 DEF StartReturned, Retire, NextCandidate
  <2>3. Registered'
    BY <1>8 DEF StartReturned, Retire, NextCandidate
  <2>4. ShutdownOrder'
    BY <1>8 DEF StartReturned, Retire, NextCandidate
  <2>5. NoLostWakeup'
    BY <1>8 DEF StartReturned, Retire, NextCandidate
  <2> QED BY <2>1, <2>2, <2>3, <2>4, <2>5
<1>9. CASE StopSeen
  BY <1>9 DEF StopSeen
<1>10. CASE Drain
  BY <1>10 DEF Drain, Retire
<1>11. CASE Activate
  BY <1>11 DEF Activate
<1>12. CASE Deactivate
  BY <1>12 DEF Deactivate, Retire
<1> QED BY <1>1, <1>2, <1>3, <1>4, <1>5, <1>6, <1>7, <1>8, <1>9, <1>10, <1>11, <1>12 DEF Supervise

(* The goroutine that runs Start.                                          *)
LEMMA DatapathKeepsIInv ==
    ASSUME IInv, Datapath \/ Abort \/ RunDies
    PROVE  IInv'
<1> USE ParamAssumption
        DEF IInv, TypeOK, Phases, Registered, ShutdownOrder, NoLostWakeup,
            Actor, SupPc, ActorPc, Goto, desired, super, instance, pf, actors, copies, budgets
<1>1. CASE Install
  BY <1>1 DEF Install
<1>2. CASE Abort
  BY <1>2 DEF Abort, Fail
<1>3. CASE LeaveRun
  BY <1>3 DEF LeaveRun
<1>4. CASE RunDies
  BY <1>4 DEF RunDies, Fail
<1>5. CASE Teardown
  BY <1>5 DEF Teardown
<1> QED BY <1>1, <1>2, <1>3, <1>4, <1>5 DEF Datapath

(* cancelSession, whoever calls it.                                        *)
LEMMA CancelKeepsIInv ==
    ASSUME IInv, NEW a \in Actor, CancelStep(a)
    PROVE  IInv'
<1> USE ParamAssumption
        DEF IInv, TypeOK, Phases, Registered, ShutdownOrder, NoLostWakeup,
            Actor, SupPc, ActorPc, Goto, desired, super, instance, pf, actors, copies, budgets
<1>1. CASE Disable(a)
  <2>1. TypeOK'
    <3>1. pc' \in [Actor -> ActorPc]
      BY <1>1 DEF Disable
    <3>2. enabled' = FALSE /\ UNCHANGED <<wake, down, super, instance, pf, cmd, copies, budgets>>
      BY <1>1 DEF Disable
    <3>3. enabled' \in BOOLEAN /\ rules' \in {"none", "loaded", "stray"} /\ base' \in BOOLEAN
      BY <3>2
    <3> QED BY <3>1, <3>2, <3>3
  <2>2. Phases'
    BY <1>1 DEF Disable
  <2>3. Registered'
    BY <1>1 DEF Disable
  <2>4. ShutdownOrder'
    BY <1>1 DEF Disable
  <2>5. NoLostWakeup'
    BY <1>1 DEF Disable
  <2> QED BY <2>1, <2>2, <2>3, <2>4, <2>5
<1>2. CASE Kick(a)
  BY <1>2 DEF Kick
<1>3. CASE Snapshot(a)
  BY <1>3 DEF Snapshot
<1>4. CASE Cancel(a)
  BY <1>4 DEF Cancel, Resume
<1>5. CASE Close(a)
  BY <1>5 DEF Close
<1>6. CASE CloseReturns(a)
  BY <1>6 DEF CloseReturns, Resume
<1>7. CASE Restart(a)
  BY <1>7 DEF Restart
<1> QED BY <1>1, <1>2, <1>3, <1>4, <1>5, <1>6, <1>7 DEF CancelStep

(* A control command.                                                      *)
LEMMA WorkKeepsIInv ==
    ASSUME IInv, NEW h \in Handler, Receive(h) \/ Work(h)
    PROVE  IInv'
<1> USE ParamAssumption
        DEF IInv, TypeOK, Phases, Registered, ShutdownOrder, NoLostWakeup,
            Actor, SupPc, ActorPc, Goto, desired, super, instance, pf, actors, copies, budgets
<1>1. CASE Receive(h)
  BY <1>1 DEF Receive
<1>2. CASE Poll(h)
  BY <1>2 DEF Poll
<1>3. CASE Flush(h)
  <2>1. TypeOK'
    BY ZenonT(40), <1>3 DEF Flush
  <2>2. Phases'
    BY <1>3 DEF Flush
  <2>3. Registered'
    BY <1>3 DEF Flush
  <2>4. ShutdownOrder'
    BY <1>3 DEF Flush
  <2>5. NoLostWakeup'
    BY <1>3 DEF Flush
  <2> QED BY <2>1, <2>2, <2>3, <2>4, <2>5
<1>4. CASE Enable(h)
  BY <1>4 DEF Enable
<1>5. CASE ReloadCopy(h)
  BY <1>5 DEF ReloadCopy
<1>6. CASE ReloadTr(h)
  BY <1>6 DEF ReloadTr
<1>7. CASE ReloadLoad(h)
  BY <1>7 DEF ReloadLoad
<1>8. CASE CancelStep(h)
  BY <1>8, CancelKeepsIInv
<1> QED BY <1>1, <1>2, <1>3, <1>4, <1>5, <1>6, <1>7, <1>8 DEF Work

(* The watcher, the shutdown and the world outside.                        *)
LEMMA OutsideKeepsIInv ==
    ASSUME IInv, \/ WatchPF \/ Terminate \/ Join \/ Cleanup \/ Exit \/ ForeignFlush
    PROVE  IInv'
<1> USE ParamAssumption
        DEF IInv, TypeOK, Phases, Registered, ShutdownOrder, NoLostWakeup,
            Actor, SupPc, ActorPc, Goto, desired, super, instance, pf, actors, copies, budgets
<1>1. CASE WatchPF
  BY <1>1 DEF WatchPF
<1>2. CASE Terminate
  BY <1>2 DEF Terminate
<1>3. CASE Join
  BY <1>3 DEF Join
<1>4. CASE Cleanup
  BY <1>4 DEF Cleanup
<1>5. CASE Exit
  BY <1>5 DEF Exit
<1>6. CASE ForeignFlush
  <2>1. TypeOK'
    <3>1. drifts' \in 0 .. MaxDrifts
      BY <1>6 DEF ForeignFlush
    <3>2. UNCHANGED <<desired, super, instance, base, actors, copies, fails>> /\ rules' = "none"
      BY <1>6 DEF ForeignFlush
    <3>3. enabled' \in BOOLEAN /\ rules' \in {"none", "loaded", "stray"} /\ base' \in BOOLEAN
      BY <3>2
    <3>4. fails' \in 0 .. MaxFails
      BY <3>2
    <3> QED BY <3>1, <3>2, <3>3, <3>4
  <2>2. Phases'
    BY <1>6 DEF ForeignFlush
  <2>3. Registered'
    BY <1>6 DEF ForeignFlush
  <2>4. ShutdownOrder'
    BY <1>6 DEF ForeignFlush
  <2>5. NoLostWakeup'
    BY <1>6 DEF ForeignFlush
  <2> QED BY <2>1, <2>2, <2>3, <2>4, <2>5
<1> QED BY <1>1, <1>2, <1>3, <1>4, <1>5, <1>6

LEMMA StutterKeepsIInv ==
    ASSUME IInv, UNCHANGED vars
    PROVE  IInv'
  BY DEF IInv, TypeOK, Phases, Registered, ShutdownOrder, NoLostWakeup, vars

(* The inductive invariant holds in every behaviour.                      *)
THEOREM Inductive == Spec => []IInv
<1>1. ASSUME IInv, [Next]_vars PROVE IInv'
  <2>1. CASE Supervise
    BY <1>1, <2>1, SuperviseKeepsIInv
  <2>2. CASE Datapath \/ Abort \/ RunDies
    BY <1>1, <2>2, DatapathKeepsIInv
  <2>3. ASSUME NEW h \in Handler, Receive(h) \/ Work(h) PROVE IInv'
    BY <1>1, <2>3, WorkKeepsIInv
  <2>4. CASE Watch \/ Shutdown
    BY <1>1, <2>4, CancelKeepsIInv, OutsideKeepsIInv DEF Watch, Shutdown, Actor
  <2>5. CASE Terminate \/ ForeignFlush
    BY <1>1, <2>5, OutsideKeepsIInv
  <2>6. CASE UNCHANGED vars
    BY <1>1, <2>6, StutterKeepsIInv
  <2> QED BY <1>1, <2>1, <2>2, <2>3, <2>4, <2>5, <2>6 DEF Next
<1> QED BY InitIInv, <1>1, PTL DEF Spec

(* No start request is lost between the supervisor's look at d.enabled and  *)
(* its wait for a token.                                                   *)
THEOREM WakeupKept == Spec => []NoLostWakeup
<1>1. IInv => NoLostWakeup
  BY DEF IInv
<1> QED BY Inductive, <1>1, PTL

(* Every datapath that has rules or is about to load them can be cancelled. *)
THEOREM AlwaysStoppable == Spec => []Stoppable
<1>1. IInv => Stoppable
  BY DEF IInv, Registered, Stoppable
<1> QED BY Inductive, <1>1, PTL

(* Every variable keeps its type.                                          *)
THEOREM TypeCorrect == Spec => []TypeOK
<1>1. IInv => TypeOK
  BY DEF IInv
<1> QED BY Inductive, <1>1, PTL

(* When the process exits, no datapath is running and no rule of it is left. *)
THEOREM LeavesNothing == Spec => []ExitClean
<1>1. IInv => ExitClean
  BY DEF IInv, Phases, ShutdownOrder, ExitClean
<1> QED BY Inductive, <1>1, PTL

-----------------------------------------------------------------------------
(* The compiler of strategy files: what its lists mean.                    *)
FileNames == Seq(List)
Folders == [List -> Contents]
(* What a list has in the files fs: nothing if it is not there. *)
Held(fs, l) == IF fs[l].there THEN fs[l].entries ELSE {}
Joint(fs, ns, n) == UNION {Held(fs, ns[i]) : i \in 1 .. n}
(* No edit, and no line that does not parse. *)
Settled == edited = 0 /\ ~Unparsed
(* The names that dropEmptyLists has left of the first n of ns: one that it has  *)
(* dropped has no entry that stays (st), and where nothing is edited (ok) none   *)
(* at all; one that is left has some.                                            *)
Left(fs, st, ok, ns, n, left) ==
    /\ left \in FileNames
    /\ \A i \in 1 .. Len(left) : \E j \in 1 .. n : left[i] = ns[j]
    /\ \A j \in 1 .. n : st[ns[j]] = {} \/ \E i \in 1 .. Len(left) : left[i] = ns[j]
    /\ ok => \A j \in 1 .. n : Held(fs, ns[j]) = {} \/ \E i \in 1 .. Len(left) : left[i] = ns[j]
    /\ ok => \A i \in 1 .. Len(left) : Held(fs, left[i]) # {}
(* A set filled from the first n of the names ns has every entry that stays in   *)
(* one of them or matches everything; where nothing is edited it is their        *)
(* entries.                                                                      *)
FilledFrom(fs, st, ok, set, ns, n) ==
    /\ set \in Filters /\ ~set.nil
    /\ \A i \in 1 .. n : st[ns[i]] \subseteq set.entries
    /\ ok => ~set.any /\ set.entries = Joint(fs, ns, n)
(* What a compiled filter is for a field with the names ns and entries of its own. *)
FilterRight(fs, st, ok, set, ns, inline) ==
    /\ \A i \in 1 .. Len(ns) : \A h \in st[ns[i]] : Excluded(set, h)
    /\ ok /\ set.nil => inline \cup Joint(fs, ns, Len(ns)) = {}
    /\ ok /\ ~set.nil => /\ ~set.any /\ set.entries # {}
                         /\ set.entries = inline \cup Joint(fs, ns, Len(ns))
(* What stays in a list is in its file. *)
StaysThere(fs, st) == \A l \in List : st[l] \subseteq Held(fs, l)
(* ok is what Settled says of the files. *)
Clean(fs) == \A l \in List : ~(fs[l].there /\ fs[l].junk /\ fs[l].entries = {})

LEMMA LeftStart == ASSUME NEW fs, NEW st, NEW ok, NEW ns PROVE Left(fs, st, ok, ns, 0, <<>>)
  BY DEF Left, FileNames
LEMMA LeftStep ==
    ASSUME NEW fs \in Folders, NEW st, StaysThere(fs, st), NEW ok, ok => Clean(fs), NEW ns \in FileNames,
           NEW n \in Nat, n + 1 <= Len(ns), NEW left, Left(fs, st, ok, ns, n, left)
    PROVE  LET c == fs[ns[n + 1]] IN
           Left(fs, st, ok, ns, n + 1, IF c.there /\ HasEntries(c) THEN Append(left, ns[n + 1]) ELSE left)
  <1>. DEFINE l == ns[n + 1]
              c == fs[l]
              m == Len(left)
  <1>1. l \in List /\ left \in FileNames /\ m \in Nat
    BY DEF FileNames, Left
  <1>2. \A j \in 1 .. n + 1 : j \in 1 .. n \/ j = n + 1
    OBVIOUS
  <1>3. \A j \in 1 .. n : j \in 1 .. n + 1
    OBVIOUS
  <1>4. st[l] \subseteq Held(fs, l)
    BY <1>1 DEF StaysThere
  <1>5. n + 1 \in 1 .. n + 1
    OBVIOUS
  <1>6. CASE c.there /\ HasEntries(c)
    <2>. DEFINE new == Append(left, l)
    <2>1. new \in FileNames /\ Len(new) = m + 1 /\ new[m + 1] = l /\ \A i \in 1 .. m : new[i] = left[i]
      BY <1>1 DEF FileNames
    <2>2. \A i \in 1 .. m + 1 : i \in 1 .. m \/ i = m + 1
      BY <1>1
    <2>3. \A i \in 1 .. m : i \in 1 .. m + 1
      BY <1>1
    <2>4. ok => Held(fs, l) # {}
      BY <1>1, <1>6 DEF Clean, HasEntries, Held
    <2>5. m + 1 \in 1 .. m + 1
      BY <1>1
    <2>. HIDE DEF new, c, l, m
    <2>6. \A i \in 1 .. Len(new) : \E j \in 1 .. n + 1 : new[i] = ns[j]
      BY <1>3, <1>5, <2>1, <2>2 DEF Left, m, l
    <2>7. \A j \in 1 .. n + 1 : st[ns[j]] = {} \/ \E i \in 1 .. Len(new) : new[i] = ns[j]
      BY <1>2, <2>1, <2>3, <2>5 DEF Left, m, l
    <2>8. ok => \A j \in 1 .. n + 1 : Held(fs, ns[j]) = {} \/ \E i \in 1 .. Len(new) : new[i] = ns[j]
      BY <1>2, <2>1, <2>3, <2>5 DEF Left, m, l
    <2>9. ok => \A i \in 1 .. Len(new) : Held(fs, new[i]) # {}
      BY <2>1, <2>2, <2>4 DEF Left, m
    <2>10. Left(fs, st, ok, ns, n + 1, new)
      BY <2>1, <2>6, <2>7, <2>8, <2>9 DEF Left
    <2>. QED BY <1>6, <2>10 DEF new, c, l
  <1>7. CASE ~(c.there /\ HasEntries(c))
    <2>1. Held(fs, l) = {}
      BY <1>7 DEF HasEntries, Held
    <2>2. Left(fs, st, ok, ns, n + 1, left)
      BY <1>2, <1>3, <1>4, <2>1 DEF Left
    <2>. QED BY <1>7, <2>2
  <1>. QED BY <1>6, <1>7
LEMMA LoadFileIs ==
    ASSUME NEW set \in Filters, NEW c \in Contents
    PROVE  /\ LoadFile(set, c) \in Filters /\ LoadFile(set, c).nil = set.nil
           /\ LoadFile(set, c).entries = set.entries \cup c.entries
           /\ LoadFile(set, c).any <=> set.any \/ c.entries = {}
  BY StrategyLoadAssumption DEF LoadFile, Filters
LEMMA FilledStart == ASSUME NEW fs, NEW st, NEW ok, NEW ns PROVE FilledFrom(fs, st, ok, Blank, ns, 0)
  BY DEF FilledFrom, Blank, Filters, Joint
LEMMA FilledStep ==
    ASSUME NEW fs \in Folders, NEW st, StaysThere(fs, st), NEW ok, NEW ns \in FileNames,
           NEW n \in Nat, n + 1 <= Len(ns), ok => Held(fs, ns[n + 1]) # {},
           NEW set, FilledFrom(fs, st, ok, set, ns, n)
    PROVE  LET c == fs[ns[n + 1]] IN
           FilledFrom(fs, st, ok, IF c.there THEN LoadFile(set, c) ELSE set, ns, n + 1)
  <1>. DEFINE l == ns[n + 1]
              c == fs[l]
              new == IF c.there THEN LoadFile(set, c) ELSE set
  <1>1. l \in List /\ c \in Contents /\ set \in Filters /\ ~set.nil
    BY DEF FileNames, FilledFrom, Folders
  <1>2. \A j \in 1 .. n + 1 : j \in 1 .. n \/ j = n + 1
    OBVIOUS
  <1>3. \A j \in 1 .. n : j \in 1 .. n + 1
    OBVIOUS
  <1>4. st[l] \subseteq Held(fs, l) /\ n + 1 \in 1 .. n + 1
    BY <1>1 DEF StaysThere
  <1>5. new \in Filters /\ ~new.nil /\ new.entries = set.entries \cup Held(fs, l)
    BY <1>1, LoadFileIs DEF Held, Filters
  <1>6. ok => ~new.any
    BY <1>1, LoadFileIs DEF Held, FilledFrom
  <1>7. Joint(fs, ns, n + 1) = Joint(fs, ns, n) \cup Held(fs, l)
    BY <1>2, <1>3, <1>4 DEF Joint
  <1>. HIDE DEF new, c, l
  <1>8. \A i \in 1 .. n + 1 : st[ns[i]] \subseteq new.entries
    BY <1>2, <1>4, <1>5 DEF FilledFrom, l
  <1>9. ok => new.entries = Joint(fs, ns, n + 1)
    BY <1>5, <1>7 DEF FilledFrom
  <1>10. FilledFrom(fs, st, ok, new, ns, n + 1)
    BY <1>5, <1>6, <1>8, <1>9 DEF FilledFrom
  <1>. QED BY <1>10 DEF new, c, l
(* What is filled from the names left is right for the field. *)
LEMMA FilledRight ==
    ASSUME NEW fs, NEW st, NEW ok, NEW ns, NEW inline \in SUBSET Entry, NEW left, NEW set, NEW new,
           Left(fs, st, ok, ns, Len(ns), left), FilledFrom(fs, st, ok, set, left, Len(left)),
           left # <<>> \/ inline # {},
           new.nil = set.nil, new.any = set.any, new.entries = set.entries \cup inline
    PROVE  FilterRight(fs, st, ok, new, ns, inline)
  <1>1. Joint(fs, left, Len(left)) \subseteq Joint(fs, ns, Len(ns))
    BY DEF Joint, Left
  <1>2. ok => Joint(fs, ns, Len(ns)) \subseteq Joint(fs, left, Len(left))
    <2>. SUFFICES ASSUME ok, NEW j \in 1 .. Len(ns), NEW h \in Held(fs, ns[j]) PROVE h \in Joint(fs, left, Len(left))
      BY DEF Joint
    <2>1. PICK i \in 1 .. Len(left) : left[i] = ns[j]
      BY DEF Left
    <2>. QED BY <2>1 DEF Joint
  <1>3. ok /\ left # <<>> => Joint(fs, left, Len(left)) # {}
    <2>. SUFFICES ASSUME ok, left # <<>> PROVE Joint(fs, left, Len(left)) # {}
      OBVIOUS
    <2>1. 1 \in 1 .. Len(left)
      BY DEF Left, FileNames
    <2>2. Held(fs, left[1]) # {}
      BY <2>1 DEF Left
    <2>3. PICK h \in Held(fs, left[1]) : TRUE
      BY <2>2
    <2>4. h \in Joint(fs, left, Len(left))
      BY <2>1, <2>3 DEF Joint
    <2>. QED BY <2>4
  <1>4. \A i \in 1 .. Len(ns) : \A h \in st[ns[i]] : h \in set.entries
    <2>. SUFFICES ASSUME NEW i \in 1 .. Len(ns), NEW h \in st[ns[i]] PROVE h \in set.entries
      OBVIOUS
    <2>1. PICK j \in 1 .. Len(left) : left[j] = ns[i]
      BY DEF Left
    <2>. QED BY <2>1 DEF FilledFrom
  <1>5. ~new.nil
    BY DEF FilledFrom
  <1>6. \A i \in 1 .. Len(ns) : \A h \in st[ns[i]] : Excluded(new, h)
    BY <1>4, <1>5 DEF Excluded, Match
  <1>7. ok => ~new.any /\ set.entries = Joint(fs, left, Len(left))
    BY DEF FilledFrom
  <1>. QED BY <1>1, <1>2, <1>3, <1>5, <1>6, <1>7 DEF FilterRight
(* A field that names nothing, or whose files have nothing, restricts nothing. *)
LEMMA NothingRight ==
    ASSUME NEW fs, NEW st, NEW ok, NEW ns, Left(fs, st, ok, ns, Len(ns), <<>>)
    PROVE  FilterRight(fs, st, ok, Unrestricted, ns, {})
  <1>1. \A i \in 1 .. 0 : FALSE
    OBVIOUS
  <1>2. \A j \in 1 .. Len(ns) : st[ns[j]] = {} /\ (ok => Held(fs, ns[j]) = {})
    BY <1>1 DEF Left
  <1>. QED BY <1>2 DEF FilterRight, Unrestricted, Joint
(* An edit: less stays, and nothing is settled. *)
LEMMA EditedLeft ==
    ASSUME NEW fs, NEW st, NEW ok, NEW ns \in FileNames, NEW n \in Nat, n <= Len(ns), NEW left, Left(fs, st, ok, ns, n, left),
           NEW gs, NEW su, \A l \in List : su[l] \subseteq st[l]
    PROVE  Left(gs, su, FALSE, ns, n, left)
  <1>1. \A j \in 1 .. n : ns[j] \in List
    BY DEF FileNames
  <1>. QED BY <1>1 DEF Left
LEMMA EditedFilled ==
    ASSUME NEW fs, NEW st, NEW ok, NEW ns \in FileNames, NEW n \in Nat, n <= Len(ns), NEW set, FilledFrom(fs, st, ok, set, ns, n),
           NEW gs, NEW su, \A l \in List : su[l] \subseteq st[l]
    PROVE  FilledFrom(gs, su, FALSE, set, ns, n)
  <1>1. \A j \in 1 .. n : ns[j] \in List
    BY DEF FileNames
  <1>. QED BY <1>1 DEF FilledFrom
LEMMA EditedRight ==
    ASSUME NEW fs, NEW st, NEW ok, NEW ns \in FileNames, NEW set, NEW inline, FilterRight(fs, st, ok, set, ns, inline),
           NEW gs, NEW su, \A l \in List : su[l] \subseteq st[l]
    PROVE  FilterRight(gs, su, FALSE, set, ns, inline)
  <1>1. \A j \in 1 .. Len(ns) : ns[j] \in List
    BY DEF FileNames
  <1>. QED BY <1>1 DEF FilterRight
(* What a file of the model says. *)
Compilation == [filter: [1 .. 4 -> Filters], ops: Seq(WrittenOp)]
LEMMA FieldsAre == DOMAIN Fields = 1 .. 4 /\ Len(Fields) = 4
  BY DEF Fields
LEMMA SectionFacts ==
    ASSUME NEW t \in Texts, NEW p \in 1 .. Len(t.profiles)
    PROVE  LET s == t.profiles[p]
           IN  /\ s \in Section /\ s.ops \in Seq(WrittenOp)
               /\ \A f \in 1 .. 4 : s.lists[f] \in FileNames /\ s.inline[f] \in SUBSET Entry
  <1>1. t.profiles \in Seq(Section)
    BY StrategyLoadAssumption
  <1>2. t.profiles[p] \in Section
    BY <1>1
  <1>. QED BY <1>2, FieldsAre DEF Section, FileNames
LEMMA CompiledWritten ==
    ASSUME NEW ops \in Seq(WrittenOp)
    PROVE  /\ Compiled(ops) \in Seq(WrittenOp) /\ Len(Compiled(ops)) = Len(ops)
           /\ \A i \in 1 .. Len(ops) : \E j \in 1 .. Len(ops) : Compiled(ops)[i] = ops[j]
  <1>. DEFINE I == DOMAIN ops
              key == [i \in I |-> Phase(ops[i])]
              n == Len(ops)
              at == Sorted(I, key)
              todo == [k \in I |-> ops[at[k]]]
  <1>1. n \in Nat /\ I = 1 .. n /\ \A i \in 1 .. n : ops[i] \in WrittenOp
    OBVIOUS
  <1>2. IsFiniteSet(I) /\ Cardinality(I) = n
    <2>1. IsFiniteSet(1 .. n) /\ Cardinality(1 .. n) = IF 1 > n THEN 0 ELSE n - 1 + 1
      BY <1>1, FS_Interval
    <2>. HIDE DEF I, n
    <2>2. (IF 1 > n THEN 0 ELSE n - 1 + 1) = n
      BY <1>1
    <2>. QED BY <1>1, <2>1, <2>2
  <1>3. I \in SUBSET Int
    BY <1>1
  <1>4. key \in [I -> Int]
    BY PhaseRange
  <1>. HIDE DEF key, n
  <1>5. at \in [1 .. n -> I]
    BY <1>2, <1>3, <1>4, SortedFacts, ZenonT(40)
  <1>6. Compiled(ops) = todo
    BY DEF Compiled, key
  <1>. HIDE DEF at, I
  <1>7. DOMAIN todo = 1 .. n /\ \A k \in 1 .. n : todo[k] = ops[at[k]] /\ at[k] \in 1 .. n
    BY <1>1, <1>5
  <1>. HIDE DEF todo
  <1>8. \A k \in 1 .. n : todo[k] \in WrittenOp
    BY <1>1, <1>7
  <1>9. todo = [k \in 1 .. n |-> todo[k]]
    <2>1. todo = [k \in I |-> todo[k]]
      BY DEF todo
    <2>. QED BY <1>1, <2>1
  <1>10. todo \in Seq(WrittenOp) /\ Len(todo) = n
    BY <1>1, <1>8, <1>9
  <1>. QED BY <1>6, <1>7, <1>10 DEF n

Working == cstage \in {"field", "stat", "look", "load", "ops"}
(* The files, and what stays in them. *)
FilesInv ==
    /\ text \in Texts /\ files \in Folders /\ edited \in 0 .. MaxSaves
    /\ stays \in [List -> SUBSET Entry] /\ StaysThere(files, stays)
(* Where the compiler is. *)
PlaceInv ==
    /\ cstage \in {"window", "profile", "field", "stat", "look", "load", "ops", "done", "refused"}
    /\ section \in 1 .. Len(text.profiles) + 1 /\ field \in 1 .. 5 /\ item \in Nat \ {0}
    /\ names \in FileNames /\ acc \in Filters
    /\ compiled \in Seq(Compilation) /\ Len(compiled) <= section /\ Len(compiled) <= Len(text.profiles)
    /\ Working => Len(compiled) = section
    /\ cstage \in {"window", "profile", "done"} => Len(compiled) = section - 1
    /\ (cstage \in {"stat", "look", "load"} => field <= 4) /\ (cstage = "ops" => field = 5)
    /\ cstage \notin {"window", "refused"} => \A i \in 1 .. Len(text.window) : PortAccepted(text.window[i])
(* What it has of the field it is at. *)
FieldInv ==
    /\ cstage = "stat" => item <= Len(FieldNames) /\ names = <<>> /\ acc = Blank
    /\ cstage = "look" => item <= Len(FieldNames) /\ acc = Blank /\ Left(files, stays, Settled, FieldNames, item - 1, names)
    /\ cstage = "load" => /\ item <= Len(names) + 1 /\ (names # <<>> \/ Inline # {})
                          /\ Left(files, stays, Settled, FieldNames, Len(FieldNames), names)
                          /\ FilledFrom(files, stays, Settled, acc, names, item - 1)
    /\ Working => \A f \in 1 .. 4 : f >= field => compiled[section].filter[f] = Unrestricted
(* The sets it shares, and the filters it has compiled. *)
CacheInv == \A ns \in DOMAIN cache : ns \in FileNames /\ FilledFrom(files, stays, Settled, cache[ns], ns, Len(ns))
FiltersInv ==
    \A p \in 1 .. Len(compiled) : \A f \in 1 .. 4 :
        p < section \/ f < field => FilterRight(files, stays, Settled, compiled[p].filter[f],
                                               text.profiles[p].lists[f], text.profiles[p].inline[f])
(* The operations it has compiled are accepted ones of the file. *)
OpsInv ==
    \A p \in 1 .. Len(compiled) : \A i \in 1 .. Len(compiled[p].ops) : \E j \in 1 .. Len(text.profiles[p].ops) :
        /\ compiled[p].ops[i] = text.profiles[p].ops[j]
        /\ OpAccepted(text.profiles[p].ops[j], text.profiles[p])
LoadInv == FilesInv /\ PlaceInv /\ FieldInv /\ CacheInv /\ FiltersInv /\ OpsInv

LEMMA SettledClean == FilesInv /\ Settled => Clean(files)
  BY DEF Settled, Unparsed, Clean, FilesInv
LEMMA LoadInit == StrategyLoadInit => LoadInv
  <1>. SUFFICES ASSUME StrategyLoadInit PROVE LoadInv
    OBVIOUS
  <1>1. FilesInv
    <2>1. text \in Texts /\ files \in Folders /\ edited \in 0 .. MaxSaves
      BY StrategyLoadAssumption DEF StrategyLoadInit, Folders
    <2>2. \A l \in List : Held(files, l) \in SUBSET Entry
      BY <2>1, StrategyLoadAssumption DEF Folders, Held
    <2>3. stays = [l \in List |-> Held(files, l)]
      BY DEF StrategyLoadInit, Held
    <2>. QED BY <2>1, <2>2, <2>3 DEF FilesInv, StaysThere
  <1>2. PlaceInv
    <2>1. text.profiles \in Seq(Section)
      BY StrategyLoadAssumption DEF StrategyLoadInit
    <2>. QED BY <2>1 DEF StrategyLoadInit, PlaceInv, Working, FileNames, Filters, Blank
  <1>3. FieldInv /\ CacheInv /\ FiltersInv /\ OpsInv
    BY DEF StrategyLoadInit, FieldInv, CacheInv, FiltersInv, OpsInv, Working
  <1>. QED BY <1>1, <1>2, <1>3 DEF LoadInv
(* What the compiler does leaves the files alone. *)
FilesAlone == UNCHANGED <<text, files, edited, stays>>
LEMMA FilesAloneKeeps == FilesInv /\ FilesAlone => FilesInv' /\ Settled' = Settled
  BY DEF FilesInv, FilesAlone, Settled, Unparsed
LEMMA RefuseKeeps == LoadInv /\ Refuse /\ FilesAlone => LoadInv'
  <1>. SUFFICES ASSUME LoadInv, Refuse, FilesAlone PROVE LoadInv'
    OBVIOUS
  <1>1. FilesInv' /\ Settled' = Settled
    BY FilesAloneKeeps DEF LoadInv
  <1>2. PlaceInv'
    BY DEF LoadInv, PlaceInv, Refuse, FilesAlone, Working
  <1>3. FieldInv'
    BY DEF FieldInv, Refuse, Working
  <1>4. CacheInv' /\ FiltersInv' /\ OpsInv'
    BY <1>1, Zenon DEF LoadInv, CacheInv, FiltersInv, OpsInv, Refuse, FilesAlone
  <1>. QED BY <1>1, <1>2, <1>3, <1>4 DEF LoadInv
LEMMA WindowKeeps == LoadInv /\ PortWindow => LoadInv'
  <1>. SUFFICES ASSUME LoadInv, PortWindow PROVE LoadInv'
    OBVIOUS
  <1>1. FilesAlone /\ UNCHANGED <<section, field, item, names, acc, cache, compiled>> /\ cstage = "window"
    BY DEF PortWindow, FilesAlone
  <1>2. FilesInv' /\ Settled' = Settled
    BY <1>1, FilesAloneKeeps DEF LoadInv
  <1>3. cstage' = "profile" \/ cstage' = "refused"
    BY DEF PortWindow, Go
  <1>4. cstage' = "profile" => \A i \in 1 .. Len(text.window) : PortAccepted(text.window[i])
    <2>1. text.window \in Seq(PortRange)
      BY StrategyLoadAssumption DEF LoadInv, FilesInv
    <2>2. DOMAIN text.window = 1 .. Len(text.window)
      BY <2>1
    <2>. QED BY <2>2 DEF PortWindow, Go
  <1>5. PlaceInv'
    BY <1>1, <1>3, <1>4 DEF LoadInv, PlaceInv, Working, FilesAlone
  <1>6. FieldInv'
    BY <1>3 DEF FieldInv, Working
  <1>7. CacheInv' /\ FiltersInv' /\ OpsInv'
    BY <1>1, <1>2, Zenon DEF LoadInv, CacheInv, FiltersInv, OpsInv, FilesAlone
  <1>. QED BY <1>2, <1>5, <1>6, <1>7 DEF LoadInv
LEMMA SettingsKeep == LoadInv /\ ProfileSettings => LoadInv'
  <1>. SUFFICES ASSUME LoadInv, ProfileSettings PROVE LoadInv'
    OBVIOUS
  <1>1. FilesAlone /\ UNCHANGED <<section, item, names, acc, cache>> /\ cstage = "profile"
    BY DEF ProfileSettings, FilesAlone
  <1>2. FilesInv' /\ Settled' = Settled
    BY <1>1, FilesAloneKeeps DEF LoadInv
  <1>3. Len(compiled) = section - 1 /\ compiled \in Seq(Compilation) /\ section \in 1 .. Len(text.profiles) + 1
    BY <1>1 DEF LoadInv, PlaceInv
  <1>4. CASE cstage' \in {"done", "refused"} /\ UNCHANGED <<field, compiled>>
    <2>1. PlaceInv'
      BY <1>1, <1>4 DEF LoadInv, PlaceInv, Working, FilesAlone
    <2>2. FieldInv'
      BY <1>4 DEF FieldInv, Working
    <2>3. CacheInv' /\ FiltersInv' /\ OpsInv'
      BY <1>1, <1>2, <1>4, Zenon DEF LoadInv, CacheInv, FiltersInv, OpsInv, FilesAlone
    <2>. QED BY <1>2, <2>1, <2>2, <2>3 DEF LoadInv
  <1>5. CASE /\ cstage' = "field" /\ field' = 1 /\ compiled' = Append(compiled, [filter |-> NoFilter, ops |-> <<>>])
             /\ section <= Len(text.profiles)
    <2>. DEFINE new == [filter |-> NoFilter, ops |-> <<>>]
    <2>1. NoFilter = [f \in 1 .. 4 |-> Unrestricted] /\ Unrestricted \in Filters
      BY FieldsAre DEF NoFilter, Unrestricted, Filters
    <2>2. new \in Compilation /\ new.ops = <<>> /\ \A f \in 1 .. 4 : new.filter[f] = Unrestricted
      BY <2>1 DEF Compilation
    <2>. HIDE DEF new
    <2>3. compiled' = Append(compiled, new)
      BY <1>5 DEF new
    <2>4. /\ compiled' \in Seq(Compilation) /\ Len(compiled') = section /\ compiled'[section] = new
          /\ \A p \in 1 .. section - 1 : compiled'[p] = compiled[p]
      BY <1>3, <2>2, <2>3
    <2>5. \A p \in 1 .. section : p \in 1 .. section - 1 \/ p = section
      BY <1>3
    <2>6. PlaceInv'
      BY <1>1, <1>3, <1>5, <2>4 DEF LoadInv, PlaceInv, Working, FilesAlone
    <2>7. FieldInv'
      BY <1>1, <1>5, <2>2, <2>4 DEF FieldInv, Working
    <2>8. CacheInv'
      BY <1>1, <1>2, Zenon DEF LoadInv, CacheInv, FilesAlone
    <2>9. FiltersInv'
      <3>. SUFFICES ASSUME NEW p \in 1 .. section, NEW f \in 1 .. 4, p < section \/ f < 1
                    PROVE  FilterRight(files, stays, Settled, compiled'[p].filter[f], text.profiles[p].lists[f], text.profiles[p].inline[f])
        BY <1>1, <1>2, <1>5, <2>4, Zenon DEF FiltersInv, FilesAlone
      <3>1. p \in 1 .. Len(compiled) /\ p < section /\ compiled'[p] = compiled[p]
        BY <1>3, <2>4, <2>5
      <3>. QED BY <3>1, Zenon DEF LoadInv, FiltersInv
    <2>10. OpsInv'
      <3>1. ASSUME NEW p \in 1 .. section, NEW i \in 1 .. Len(compiled'[p].ops)
            PROVE  \E j \in 1 .. Len(text.profiles[p].ops) :
                       /\ compiled'[p].ops[i] = text.profiles[p].ops[j]
                       /\ OpAccepted(text.profiles[p].ops[j], text.profiles[p])
        <4>1. CASE p = section
          <5>1. i \in 1 .. 0
            BY <2>2, <2>4, <4>1
          <5>. QED BY <5>1
        <4>2. CASE p \in 1 .. section - 1
          <5>1. p \in 1 .. Len(compiled) /\ compiled'[p] = compiled[p]
            BY <1>3, <2>4, <4>2
          <5>2. i \in 1 .. Len(compiled[p].ops)
            BY <5>1
          <5>3. PICK j \in 1 .. Len(text.profiles[p].ops) :
                    compiled[p].ops[i] = text.profiles[p].ops[j] /\ OpAccepted(text.profiles[p].ops[j], text.profiles[p])
            BY <5>1, <5>2, Zenon DEF LoadInv, OpsInv
          <5>4. compiled'[p].ops[i] = text.profiles[p].ops[j]
            BY <5>1, <5>3
          <5>. QED BY <5>3, <5>4, Zenon
        <4>. QED BY <2>5, <4>1, <4>2
      <3>. QED BY <1>1, <2>4, <3>1, Zenon DEF OpsInv, FilesAlone
    <2>. QED BY <1>2, <2>6, <2>7, <2>8, <2>9, <2>10 DEF LoadInv
  <1>. QED BY <1>3, <1>4, <1>5 DEF ProfileSettings, Go
(* Where the lists and operations of the profile are. *)
LEMMA AtSection ==
    ASSUME LoadInv, Working
    PROVE  /\ section \in 1 .. Len(text.profiles) /\ text \in Texts /\ section = Len(compiled)
           /\ Described \in Section /\ compiled \in Seq(Compilation) /\ compiled[section] \in Compilation
           /\ \A f \in 1 .. 4 : Described.lists[f] \in FileNames /\ Described.inline[f] \in SUBSET Entry
  <1>1. text \in Texts /\ section \in 1 .. Len(text.profiles) /\ section = Len(compiled) /\ compiled \in Seq(Compilation)
    BY DEF LoadInv, FilesInv, PlaceInv
  <1>2. compiled[section] \in Compilation
    BY <1>1
  <1>. QED BY <1>1, <1>2, SectionFacts DEF Described
(* A step from field to field: the filters so far, and the one of this field. *)
LEMMA NextField ==
    ASSUME LoadInv, Working, FilesAlone, field <= 4, UNCHANGED <<section, compiled>>, field' = field + 1, cstage' = "field",
           FilterRight(files, stays, Settled, Unrestricted, FieldNames, Inline)
    PROVE  FiltersInv' /\ OpsInv' /\ FieldInv'
  <1>1. Settled' = Settled
    BY FilesAloneKeeps DEF LoadInv
  <1>2. field \in 1 .. 4 /\ compiled[section].filter[field] = Unrestricted
    BY DEF LoadInv, FieldInv, PlaceInv
  <1>3. FiltersInv'
    <2>. SUFFICES ASSUME NEW p \in 1 .. Len(compiled), NEW f \in 1 .. 4, p < section \/ f < field + 1
                  PROVE  FilterRight(files, stays, Settled, compiled[p].filter[f], text.profiles[p].lists[f], text.profiles[p].inline[f])
      BY <1>1, Zenon DEF FiltersInv, FilesAlone
    <2>1. CASE p < section \/ f < field
      BY <2>1, Zenon DEF LoadInv, FiltersInv
    <2>2. CASE ~(p < section \/ f < field)
      <3>1. p = section /\ f = field
        BY <1>2, <2>2, AtSection
      <3>. QED BY <1>2, <3>1 DEF FieldNames, Inline, Described
    <2>. QED BY <2>1, <2>2
  <1>4. OpsInv'
    BY Zenon DEF LoadInv, OpsInv, FilesAlone
  <1>5. FieldInv'
    <2>1. \A f \in 1 .. 4 : f >= field + 1 => compiled[section].filter[f] = Unrestricted
      BY <1>2 DEF LoadInv, FieldInv
    <2>. QED BY <2>1 DEF FieldInv
  <1>. QED BY <1>3, <1>4, <1>5
LEMMA FieldKeeps == LoadInv /\ Field => LoadInv'
  <1>. SUFFICES ASSUME LoadInv, Field PROVE LoadInv'
    OBVIOUS
  <1>1. /\ FilesAlone /\ UNCHANGED <<section, cache, compiled>> /\ cstage = "field"
        /\ item' = 1 /\ names' = <<>> /\ acc' = Blank
    BY DEF Field, FilesAlone
  <1>2. FilesInv' /\ Settled' = Settled
    BY <1>1, FilesAloneKeeps DEF LoadInv
  <1>3. Working /\ field \in 1 .. 5
    BY <1>1 DEF Working, LoadInv, PlaceInv
  <1>4. /\ cstage' \in {"ops", "stat", "load", "field"} /\ (cstage' \in {"stat", "load"} => field <= 4)
        /\ field' \in 1 .. 5 /\ (cstage' # "field" => field' = field) /\ (cstage' = "field" => field' = field + 1 /\ field <= 4)
        /\ (cstage' = "ops" => field = 5)
        /\ (cstage' = "stat" => FieldNames # <<>>) /\ (cstage' \in {"load", "field"} => FieldNames = <<>>)
        /\ (cstage' = "load" => Inline # {}) /\ (cstage' = "field" => Inline = {})
    BY <1>3, FieldsAre DEF Field, Go
  <1>5. PlaceInv'
    BY <1>1, <1>3, <1>4 DEF LoadInv, PlaceInv, Working, FilesAlone, FileNames, Filters, Blank
  <1>6. CacheInv'
    BY <1>1, <1>2, Zenon DEF LoadInv, CacheInv, FilesAlone
  <1>7. CASE cstage' = "field"
    <2>1. Left(files, stays, Settled, FieldNames, Len(FieldNames), <<>>)
      <3>1. FieldNames = <<>> /\ Len(FieldNames) = 0
        BY <1>4, <1>7
      <3>. QED BY <3>1, LeftStart
    <2>2. FilterRight(files, stays, Settled, Unrestricted, FieldNames, Inline)
      BY <1>4, <1>7, <2>1, NothingRight
    <2>3. FiltersInv' /\ OpsInv' /\ FieldInv'
      BY <1>1, <1>3, <1>4, <1>7, <2>2, NextField
    <2>. QED BY <1>2, <1>5, <1>6, <2>3 DEF LoadInv
  <1>8. CASE cstage' # "field"
    <2>1. field' = field /\ FieldNames' = FieldNames /\ Inline' = Inline
      BY <1>1, <1>4, <1>8 DEF FilesAlone, FieldNames, Inline, Described
    <2>2. FiltersInv' /\ OpsInv'
      BY <1>1, <1>2, <2>1, Zenon DEF LoadInv, FiltersInv, OpsInv, FilesAlone
    <2>3. \A f \in 1 .. 4 : f >= field' => compiled'[section'].filter[f] = Unrestricted
      BY <1>1, <1>3, <2>1 DEF LoadInv, FieldInv
    <2>4. cstage' = "stat" => item' <= Len(FieldNames')
      <3>. SUFFICES ASSUME cstage' = "stat" PROVE 1 <= Len(FieldNames)
        BY <1>1, <2>1
      <3>1. FieldNames \in FileNames /\ FieldNames # <<>>
        BY <1>3, <1>4, AtSection DEF FieldNames
      <3>. QED BY <3>1 DEF FileNames
    <2>5. cstage' = "load" => Left(files, stays, Settled, FieldNames, Len(FieldNames), <<>>)
      <3>1. cstage' = "load" => FieldNames = <<>> /\ Len(FieldNames) = 0
        BY <1>4
      <3>. QED BY <3>1, LeftStart
    <2>6. FilledFrom(files, stays, Settled, Blank, <<>>, 0)
      BY FilledStart
    <2>7. cstage' = "load" => item' <= Len(names') + 1 /\ item' - 1 = 0 /\ Inline' # {}
      BY <1>1, <1>4, <2>1
    <2>8. files' = files /\ stays' = stays /\ names' = <<>> /\ acc' = Blank
      BY <1>1 DEF FilesAlone
    <2>9. FieldInv'
      <3>1. cstage' # "look"
        BY <1>4
      <3>. QED BY <1>2, <2>1, <2>3, <2>4, <2>5, <2>6, <2>7, <2>8, <3>1, Zenon DEF FieldInv
    <2>. QED BY <1>2, <1>5, <1>6, <2>2, <2>9 DEF LoadInv
  <1>. QED BY <1>7, <1>8
(* A step within a field: the filters and the operations stay as they are. *)
LEMMA WithinField ==
    ASSUME LoadInv, FilesAlone, UNCHANGED <<section, field, compiled>>
    PROVE  /\ FiltersInv' /\ OpsInv' /\ FieldNames' = FieldNames /\ Inline' = Inline
           /\ Working => \A f \in 1 .. 4 : f >= field' => compiled'[section'].filter[f] = Unrestricted
  <1>1. Settled' = Settled
    BY FilesAloneKeeps DEF LoadInv
  <1>2. FiltersInv' /\ OpsInv'
    BY <1>1, Zenon DEF LoadInv, FiltersInv, OpsInv, FilesAlone
  <1>3. FieldNames' = FieldNames /\ Inline' = Inline
    BY DEF FilesAlone, FieldNames, Inline, Described
  <1>4. Working => \A f \in 1 .. 4 : f >= field => compiled[section].filter[f] = Unrestricted
    BY DEF LoadInv, FieldInv
  <1>. QED BY <1>2, <1>3, <1>4
LEMMA StatKeeps == LoadInv /\ Stat => LoadInv'
  <1>. SUFFICES ASSUME LoadInv, Stat PROVE LoadInv'
    OBVIOUS
  <1>1. FilesAlone /\ cstage = "stat" /\ Working
    BY DEF Stat, FilesAlone, Working
  <1>2. CASE Refuse
    BY <1>1, <1>2, RefuseKeeps
  <1>3. CASE /\ UNCHANGED <<section, field, names, acc, cache, compiled>>
             /\ \/ item = Len(FieldNames) /\ cstage' = "look" /\ item' = 1
                \/ item # Len(FieldNames) /\ cstage' = "stat" /\ item' = item + 1
    <2>1. FilesInv' /\ Settled' = Settled
      BY <1>1, FilesAloneKeeps DEF LoadInv
    <2>2. item \in Nat \ {0} /\ item <= Len(FieldNames) /\ names = <<>> /\ acc = Blank /\ FieldNames \in FileNames
          /\ Len(FieldNames) \in Nat
      <3>1. field \in 1 .. 4
        BY <1>1 DEF LoadInv, PlaceInv
      <3>2. FieldNames \in FileNames
        BY <1>1, <3>1, AtSection DEF FieldNames
      <3>. QED BY <1>1, <3>2 DEF LoadInv, FieldInv, PlaceInv, FileNames
    <2>3. /\ FiltersInv' /\ OpsInv' /\ FieldNames' = FieldNames
          /\ \A f \in 1 .. 4 : f >= field' => compiled'[section'].filter[f] = Unrestricted
      BY <1>1, <1>3, WithinField
    <2>4. PlaceInv'
      BY <1>1, <1>3, <2>2 DEF LoadInv, PlaceInv, Working, FilesAlone
    <2>5. CacheInv'
      BY <1>1, <1>3, <2>1, Zenon DEF LoadInv, CacheInv, FilesAlone
    <2>6. FieldInv'
      <3>1. CASE cstage' = "look"
        <4>1. item' = 1 /\ item' - 1 = 0 /\ 1 <= Len(FieldNames)
          BY <1>3, <2>2, <3>1
        <4>2. Left(files, stays, Settled, FieldNames, 0, <<>>)
          BY LeftStart
        <4>3. names' = <<>> /\ acc' = Blank /\ files' = files /\ stays' = stays
          BY <1>1, <1>3, <2>2 DEF FilesAlone
        <4>. QED BY <2>1, <2>3, <3>1, <4>1, <4>2, <4>3 DEF FieldInv
      <3>2. CASE cstage' = "stat"
        <4>1. item' <= Len(FieldNames)
          BY <1>3, <2>2, <3>2
        <4>. QED BY <1>3, <2>2, <2>3, <3>2, <4>1 DEF FieldInv
      <3>. QED BY <1>3, <3>1, <3>2
    <2>. QED BY <2>1, <2>3, <2>4, <2>5, <2>6 DEF LoadInv
  <1>. QED BY <1>2, <1>3 DEF Stat, Go
LEMMA LookKeeps == LoadInv /\ LookInto => LoadInv'
  <1>. SUFFICES ASSUME LoadInv, LookInto PROVE LoadInv'
    OBVIOUS
  <1>. DEFINE name == FieldNames[item]
              c == files[name]
              left == IF c.there /\ HasEntries(c) THEN Append(names, name) ELSE names
  <1>1. FilesAlone /\ cstage = "look" /\ Working
    BY DEF LookInto, FilesAlone, Working
  <1>2. CASE Refuse
    BY <1>1, <1>2, RefuseKeeps
  <1>3. CASE /\ names' = left /\ UNCHANGED <<section, acc, cache, compiled>>
             /\ IF item < Len(FieldNames) THEN cstage' = "look" /\ item' = item + 1 /\ field' = field
                ELSE IF left = <<>> /\ Inline = {} THEN cstage' = "field" /\ item' = 1 /\ field' = field + 1
                ELSE cstage' = "load" /\ item' = 1 /\ field' = field
    <2>1. FilesInv' /\ Settled' = Settled
      BY <1>1, FilesAloneKeeps DEF LoadInv
    <2>2. field \in 1 .. 4
      BY <1>1 DEF LoadInv, PlaceInv
    <2>3. FieldNames \in FileNames /\ Len(FieldNames) \in Nat /\ Inline \in SUBSET Entry
      <3>1. FieldNames \in FileNames /\ Inline \in SUBSET Entry
        BY <1>1, <2>2, AtSection DEF FieldNames, Inline
      <3>. QED BY <3>1 DEF FileNames
    <2>4. item \in Nat \ {0} /\ item <= Len(FieldNames) /\ acc = Blank /\ Left(files, stays, Settled, FieldNames, item - 1, names)
      BY <1>1 DEF LoadInv, FieldInv, PlaceInv
    <2>5. Left(files, stays, Settled, FieldNames, item, left)
      <3>1. files \in Folders /\ StaysThere(files, stays) /\ (Settled => Clean(files))
        BY SettledClean DEF LoadInv, FilesInv
      <3>2. item - 1 \in Nat /\ item - 1 + 1 = item
        BY <2>4
      <3>. QED BY <2>3, <2>4, <3>1, <3>2, LeftStep
    <2>6. left \in FileNames
      BY <2>5, Zenon DEF Left
    <2>. HIDE DEF left
    <2>7. PlaceInv'
      BY <1>1, <1>3, <2>2, <2>4, <2>6 DEF LoadInv, PlaceInv, Working, FilesAlone
    <2>8. CacheInv'
      BY <1>1, <1>3, <2>1, Zenon DEF LoadInv, CacheInv, FilesAlone
    <2>9. CASE cstage' = "field"
      <3>1. item = Len(FieldNames) /\ left = <<>> /\ Inline = {} /\ field' = field + 1 /\ field <= 4
        BY <1>3, <2>2, <2>3, <2>4, <2>9
      <3>2. FilterRight(files, stays, Settled, Unrestricted, FieldNames, Inline)
        BY <2>5, <3>1, NothingRight
      <3>3. FiltersInv' /\ OpsInv' /\ FieldInv'
        BY <1>1, <1>3, <2>9, <3>1, <3>2, NextField
      <3>. QED BY <2>1, <2>7, <2>8, <3>3 DEF LoadInv
    <2>10. CASE cstage' # "field"
      <3>1. field' = field
        BY <1>3, <2>10
      <3>2. /\ FiltersInv' /\ OpsInv' /\ FieldNames' = FieldNames /\ Inline' = Inline
            /\ \A f \in 1 .. 4 : f >= field' => compiled'[section'].filter[f] = Unrestricted
        BY <1>1, <1>3, <3>1, WithinField
      <3>3. files' = files /\ stays' = stays /\ acc' = Blank /\ names' = left
        BY <1>1, <1>3, <2>4 DEF FilesAlone
      <3>4. FieldInv'
        <4>1. CASE cstage' = "look"
          <5>1. item' - 1 = item /\ item' <= Len(FieldNames)
            BY <1>3, <2>3, <2>4, <4>1
          <5>. QED BY <2>1, <2>5, <3>2, <3>3, <4>1, <5>1 DEF FieldInv
        <4>2. CASE cstage' = "load"
          <5>1. item = Len(FieldNames) /\ item' - 1 = 0 /\ item' = 1 /\ (left # <<>> \/ Inline # {})
            BY <1>3, <2>3, <2>4, <4>2
          <5>2. FilledFrom(files, stays, Settled, Blank, left, 0)
            BY FilledStart
          <5>3. item' <= Len(left) + 1
            BY <2>6, <5>1 DEF FileNames
          <5>4. Left(files, stays, Settled, FieldNames, Len(FieldNames), left)
            BY <2>5, <5>1
          <5>. QED BY <2>1, <3>2, <3>3, <4>2, <5>1, <5>2, <5>3, <5>4 DEF FieldInv
        <4>. QED BY <1>3, <2>10, <4>1, <4>2
      <3>. QED BY <2>1, <2>7, <2>8, <3>2, <3>4 DEF LoadInv
    <2>. QED BY <2>9, <2>10
  <1>. QED BY <1>2, <1>3 DEF LookInto, Go
LEMMA LoadKeeps == LoadInv /\ LoadList => LoadInv'
  <1>. SUFFICES ASSUME LoadInv, LoadList PROVE LoadInv'
    OBVIOUS
  <1>. DEFINE name == names[item]
              c == files[name]
              new == IF c.there THEN LoadFile(acc, c) ELSE acc
  <1>1. FilesAlone /\ cstage = "load" /\ Working /\ item <= Len(names)
    BY DEF LoadList, FilesAlone, Working
  <1>2. CASE Refuse
    BY <1>1, <1>2, RefuseKeeps
  <1>3. CASE item' = item + 1 /\ acc' = new /\ UNCHANGED <<cstage, section, field, names, cache, compiled>>
    <2>1. FilesInv' /\ Settled' = Settled
      BY <1>1, FilesAloneKeeps DEF LoadInv
    <2>2. /\ item \in Nat \ {0} /\ names \in FileNames /\ Len(names) \in Nat /\ (names # <<>> \/ Inline # {})
          /\ FilledFrom(files, stays, Settled, acc, names, item - 1)
          /\ Left(files, stays, Settled, FieldNames, Len(FieldNames), names)
      BY <1>1 DEF LoadInv, FieldInv, PlaceInv, FileNames
    <2>3. item - 1 \in Nat /\ item - 1 + 1 = item /\ item \in 1 .. Len(names)
      BY <1>1, <2>2
    <2>4. FilledFrom(files, stays, Settled, new, names, item)
      <3>1. files \in Folders /\ StaysThere(files, stays)
        BY DEF LoadInv, FilesInv
      <3>2. Settled => Held(files, names[item]) # {}
        BY <2>2, <2>3 DEF Left
      <3>. QED BY <1>1, <2>2, <2>3, <3>1, <3>2, FilledStep
    <2>5. new \in Filters
      BY <2>4, Zenon DEF FilledFrom
    <2>. HIDE DEF new
    <2>6. PlaceInv'
      BY <1>1, <1>3, <2>2, <2>5 DEF LoadInv, PlaceInv, Working, FilesAlone
    <2>7. CacheInv'
      BY <1>1, <1>3, <2>1, Zenon DEF LoadInv, CacheInv, FilesAlone
    <2>8. /\ FiltersInv' /\ OpsInv' /\ FieldNames' = FieldNames /\ Inline' = Inline
          /\ \A f \in 1 .. 4 : f >= field' => compiled'[section'].filter[f] = Unrestricted
      BY <1>1, <1>3, WithinField
    <2>9. FieldInv'
      <3>1. item' - 1 = item /\ item' <= Len(names) + 1 /\ files' = files /\ stays' = stays
        BY <1>1, <1>3, <2>2 DEF FilesAlone
      <3>. QED BY <1>1, <1>3, <2>1, <2>2, <2>4, <2>8, <3>1 DEF FieldInv
    <2>. QED BY <2>1, <2>6, <2>7, <2>8, <2>9 DEF LoadInv
  <1>. QED BY <1>2, <1>3 DEF LoadList
LEMMA LoadedKeep == LoadInv /\ FieldLoaded => LoadInv'
  <1>. SUFFICES ASSUME LoadInv, FieldLoaded PROVE LoadInv'
    OBVIOUS
  <1>. DEFINE own == [acc EXCEPT !.entries = @ \cup Inline]
              set == IF Cached THEN cache[names] ELSE own
              here == compiled[section]
              done == [filter |-> [here.filter EXCEPT ![field] = set], ops |-> here.ops]
  <1>1. /\ FilesAlone /\ cstage = "load" /\ Working /\ (Cached \/ item > Len(names)) /\ cstage' = "field"
        /\ compiled' = [compiled EXCEPT ![section] = done]
        /\ cache' = (IF Inline # {} \/ Cached THEN cache
                     ELSE [ns \in DOMAIN cache \cup {names} |-> IF ns = names THEN set ELSE cache[ns]])
        /\ field' = field + 1 /\ item' = 1 /\ names' = <<>> /\ acc' = Blank /\ section' = section
    BY DEF FieldLoaded, FilesAlone, Working, Go, CacheKey
  <1>2. FilesInv' /\ Settled' = Settled
    BY <1>1, FilesAloneKeeps DEF LoadInv
  <1>3. field \in 1 .. 4 /\ item \in Nat \ {0} /\ names \in FileNames /\ Len(names) \in Nat /\ acc \in Filters
    BY <1>1 DEF LoadInv, PlaceInv, FileNames
  <1>4. /\ section \in 1 .. Len(text.profiles) /\ section = Len(compiled) /\ compiled \in Seq(Compilation) /\ here \in Compilation
        /\ FieldNames \in FileNames /\ Inline \in SUBSET Entry
    BY <1>1, <1>3, AtSection DEF FieldNames, Inline
  <1>5. /\ item <= Len(names) + 1 /\ (names # <<>> \/ Inline # {})
        /\ Left(files, stays, Settled, FieldNames, Len(FieldNames), names)
        /\ FilledFrom(files, stays, Settled, acc, names, item - 1)
    BY <1>1 DEF LoadInv, FieldInv
  <1>6. own \in Filters /\ own.nil = acc.nil /\ own.any = acc.any /\ own.entries = acc.entries \cup Inline
    BY <1>3, <1>4 DEF Filters
  <1>. HIDE DEF own
  <1>7. ~Cached => FilledFrom(files, stays, Settled, acc, names, Len(names))
    <2>1. ~Cached => item - 1 = Len(names)
      BY <1>1, <1>3, <1>5
    <2>. QED BY <1>5, <2>1
  <1>8. set \in Filters /\ FilterRight(files, stays, Settled, set, FieldNames, Inline)
    <2>1. CASE Cached
      <3>1. Inline = {} /\ names \in DOMAIN cache
        BY <2>1 DEF Cached, CacheKey
      <3>2. FilledFrom(files, stays, Settled, cache[names], names, Len(names))
        BY <3>1, Zenon DEF LoadInv, CacheInv
      <3>3. FilterRight(files, stays, Settled, cache[names], FieldNames, Inline)
        <4>1. cache[names].entries = cache[names].entries \cup Inline
          BY <3>1
        <4>. QED BY <1>4, <1>5, <3>2, <4>1, FilledRight
      <3>4. cache[names] \in Filters
        BY <3>2, Zenon DEF FilledFrom
      <3>. QED BY <2>1, <3>3, <3>4
    <2>2. CASE ~Cached
      <3>1. FilterRight(files, stays, Settled, own, FieldNames, Inline)
        BY <1>4, <1>5, <1>6, <1>7, <2>2, FilledRight
      <3>. QED BY <1>6, <2>2, <3>1
    <2>. QED BY <2>1, <2>2
  <1>9. CacheInv'
    <2>1. CASE Inline # {} \/ Cached
      BY <1>1, <1>2, <2>1, Zenon DEF LoadInv, CacheInv, FilesAlone
    <2>2. CASE ~(Inline # {} \/ Cached)
      <3>1. FilledFrom(files, stays, Settled, own, names, Len(names))
        <4>1. own.entries = acc.entries
          BY <1>6, <2>2
        <4>2. own \in Filters /\ own.nil = acc.nil /\ own.any = acc.any
          BY <1>6
        <4>3. FilledFrom(files, stays, Settled, acc, names, Len(names))
          BY <1>7, <2>2
        <4>. HIDE DEF own
        <4>. QED BY <4>1, <4>2, <4>3 DEF FilledFrom
      <3>2. set = own
        BY <2>2
      <3>3. ASSUME NEW ns \in DOMAIN cache' PROVE ns \in FileNames /\ FilledFrom(files, stays, Settled, cache'[ns], ns, Len(ns))
        <4>1. CASE ns = names
          <5>1. cache'[ns] = own
            BY <1>1, <2>2, <3>2, <4>1
          <5>. QED BY <1>3, <3>1, <4>1, <5>1
        <4>2. CASE ns # names
          <5>1. cache'[ns] = cache[ns] /\ ns \in DOMAIN cache
            BY <1>1, <2>2, <3>3, <4>2
          <5>. QED BY <5>1 DEF LoadInv, CacheInv
        <4>. QED BY <4>1, <4>2
      <3>. QED BY <1>1, <1>2, <3>3, Zenon DEF CacheInv, FilesAlone
    <2>. QED BY <2>1, <2>2
  <1>. HIDE DEF set
  <1>10. done \in Compilation /\ done.ops = here.ops /\ done.filter[field] = set
         /\ \A f \in 1 .. 4 : f # field => done.filter[f] = here.filter[f]
    BY <1>3, <1>4, <1>8 DEF Compilation
  <1>. HIDE DEF done, here
  <1>11. /\ compiled' \in Seq(Compilation) /\ Len(compiled') = Len(compiled) /\ compiled'[section] = done
         /\ \A p \in 1 .. Len(compiled) : p # section => compiled'[p] = compiled[p]
    BY <1>1, <1>4, <1>10
  <1>12. PlaceInv'
    BY <1>1, <1>3, <1>4, <1>11 DEF LoadInv, PlaceInv, Working, FilesAlone, FileNames, Filters, Blank
  <1>13. FiltersInv'
    <2>. SUFFICES ASSUME NEW p \in 1 .. Len(compiled), NEW f \in 1 .. 4, p < section \/ f < field + 1
                  PROVE  FilterRight(files, stays, Settled, compiled'[p].filter[f], text.profiles[p].lists[f], text.profiles[p].inline[f])
      BY <1>1, <1>2, <1>11, Zenon DEF FiltersInv, FilesAlone
    <2>1. CASE p = section /\ f = field
      BY <1>8, <1>10, <1>11, <2>1 DEF FieldNames, Inline, Described
    <2>2. CASE ~(p = section /\ f = field)
      <3>1. (p < section \/ f < field) /\ compiled'[p].filter[f] = compiled[p].filter[f]
        <4>1. CASE p = section
          <5>1. f < field /\ f # field
            BY <1>3, <1>4, <2>2, <4>1
          <5>. QED BY <1>10, <1>11, <4>1, <5>1 DEF here
        <4>2. CASE p # section
          <5>1. p < section
            BY <1>4, <4>2
          <5>. QED BY <1>11, <4>2, <5>1
        <4>. QED BY <4>1, <4>2
      <3>. QED BY <3>1 DEF LoadInv, FiltersInv
    <2>. QED BY <2>1, <2>2
  <1>14. OpsInv'
    <2>1. \A p \in 1 .. Len(compiled) : compiled'[p].ops = compiled[p].ops
      BY <1>10, <1>11 DEF here
    <2>. QED BY <1>1, <1>11, <2>1 DEF LoadInv, OpsInv, FilesAlone
  <1>15. FieldInv'
    <2>1. \A f \in 1 .. 4 : f >= field + 1 => done.filter[f] = Unrestricted
      <3>1. \A f \in 1 .. 4 : f >= field + 1 => f >= field /\ f # field
        BY <1>3
      <3>2. \A f \in 1 .. 4 : f >= field => here.filter[f] = Unrestricted
        BY <1>1 DEF LoadInv, FieldInv, here
      <3>. QED BY <1>10, <3>1, <3>2
    <2>. QED BY <1>1, <1>11, <2>1 DEF FieldInv
  <1>. QED BY <1>2, <1>9, <1>12, <1>13, <1>14, <1>15 DEF LoadInv
LEMMA OpsKeep == LoadInv /\ Ops => LoadInv'
  <1>. SUFFICES ASSUME LoadInv, Ops PROVE LoadInv'
    OBVIOUS
  <1>. DEFINE here == compiled[section]
              ops == Compiled(Described.ops)
              done == [filter |-> here.filter, ops |-> ops]
  <1>1. FilesAlone /\ cstage = "ops" /\ Working
    BY DEF Ops, FilesAlone, Working
  <1>2. CASE Refuse
    BY <1>1, <1>2, RefuseKeeps
  <1>3. CASE /\ \A i \in DOMAIN Described.ops : OpAccepted(Described.ops[i], Described)
             /\ cstage' = "profile" /\ section' = section + 1 /\ compiled' = [compiled EXCEPT ![section] = done]
             /\ UNCHANGED <<field, item, names, acc, cache>>
    <2>1. FilesInv' /\ Settled' = Settled
      BY <1>1, FilesAloneKeeps DEF LoadInv
    <2>2. /\ section \in 1 .. Len(text.profiles) /\ section = Len(compiled) /\ compiled \in Seq(Compilation)
          /\ here \in Compilation /\ Described.ops \in Seq(WrittenOp)
      BY <1>1, AtSection DEF Section
    <2>3. ops \in Seq(WrittenOp) /\ \A i \in 1 .. Len(ops) : \E j \in 1 .. Len(Described.ops) : ops[i] = Described.ops[j]
      <3>. DEFINE written == Described.ops
      <3>1. written \in Seq(WrittenOp)
        BY <2>2
      <3>. HIDE DEF written
      <3>2. /\ Compiled(written) \in Seq(WrittenOp) /\ Len(Compiled(written)) = Len(written)
            /\ \A i \in 1 .. Len(written) : \E j \in 1 .. Len(written) : Compiled(written)[i] = written[j]
        BY <3>1, CompiledWritten, Zenon
      <3>. QED BY <3>2, Zenon DEF written
    <2>. HIDE DEF ops
    <2>4. done \in Compilation /\ done.ops = ops /\ done.filter = here.filter
      BY <2>2, <2>3 DEF Compilation
    <2>. HIDE DEF done, here
    <2>5. /\ compiled' \in Seq(Compilation) /\ Len(compiled') = Len(compiled) /\ compiled'[section] = done
          /\ \A p \in 1 .. Len(compiled) : p # section => compiled'[p] = compiled[p]
      BY <1>3, <2>2, <2>4
    <2>6. PlaceInv'
      BY <1>1, <1>3, <2>2, <2>5 DEF LoadInv, PlaceInv, Working, FilesAlone
    <2>7. CacheInv'
      BY <1>1, <1>3, <2>1, Zenon DEF LoadInv, CacheInv, FilesAlone
    <2>8. FieldInv'
      BY <1>3 DEF FieldInv, Working
    <2>9. field = 5
      BY <1>1 DEF LoadInv, PlaceInv
    <2>10. FiltersInv'
      <3>. SUFFICES ASSUME NEW p \in 1 .. Len(compiled), NEW f \in 1 .. 4
                    PROVE  FilterRight(files, stays, Settled, compiled'[p].filter[f], text.profiles[p].lists[f], text.profiles[p].inline[f])
        BY <1>1, <2>1, <2>5, Zenon DEF FiltersInv, FilesAlone
      <3>1. compiled'[p].filter = compiled[p].filter
        BY <2>4, <2>5 DEF here
      <3>2. f < field
        BY <2>9
      <3>. QED BY <3>1, <3>2 DEF LoadInv, FiltersInv
    <2>11. OpsInv'
      <3>. SUFFICES ASSUME NEW p \in 1 .. Len(compiled), NEW i \in 1 .. Len(compiled'[p].ops)
                    PROVE  \E j \in 1 .. Len(text.profiles[p].ops) :
                               /\ compiled'[p].ops[i] = text.profiles[p].ops[j]
                               /\ OpAccepted(text.profiles[p].ops[j], text.profiles[p])
        BY <1>1, <2>5, Zenon DEF OpsInv, FilesAlone
      <3>1. CASE p = section
        <4>1. i \in 1 .. Len(ops) /\ compiled'[p].ops[i] = ops[i]
          BY <2>4, <2>5, <3>1
        <4>2. PICK j \in 1 .. Len(Described.ops) : ops[i] = Described.ops[j]
          BY <2>3, <4>1
        <4>3. j \in DOMAIN Described.ops
          BY <2>2
        <4>4. OpAccepted(Described.ops[j], Described)
          BY <1>3, <4>3, Zenon
        <4>. QED BY <3>1, <4>1, <4>2, <4>4, Zenon DEF Described
      <3>2. CASE p # section
        <4>1. compiled'[p] = compiled[p] /\ i \in 1 .. Len(compiled[p].ops)
          BY <2>5, <3>2
        <4>2. PICK j \in 1 .. Len(text.profiles[p].ops) :
                  compiled[p].ops[i] = text.profiles[p].ops[j] /\ OpAccepted(text.profiles[p].ops[j], text.profiles[p])
          BY <4>1, Zenon DEF LoadInv, OpsInv
        <4>3. compiled'[p].ops[i] = text.profiles[p].ops[j]
          BY <4>1, <4>2
        <4>. QED BY <4>2, <4>3, Zenon
      <3>. QED BY <3>1, <3>2
    <2>. QED BY <2>1, <2>6, <2>7, <2>8, <2>10, <2>11 DEF LoadInv
  <1>. QED BY <1>2, <1>3 DEF Ops, Go
LEMMA EditKeeps == LoadInv /\ EditList => LoadInv'
  <1>. SUFFICES ASSUME LoadInv, EditList PROVE LoadInv'
    OBVIOUS
  <1>1. UNCHANGED <<text, compiler>> /\ edited < MaxSaves /\ edited' = edited + 1 /\ cstage # "window"
    BY DEF EditList
  <1>2. PICK l \in FilesNamed, c \in Contents : /\ files' = [files EXCEPT ![l] = c]
                                               /\ stays' = [stays EXCEPT ![l] = IF c.there THEN @ \cap c.entries ELSE {}]
    BY DEF EditList
  <1>3. files \in Folders /\ stays \in [List -> SUBSET Entry] /\ edited \in 0 .. MaxSaves /\ MaxSaves \in Nat /\ text \in Texts
        /\ StaysThere(files, stays)
    BY StrategyLoadAssumption DEF LoadInv, FilesInv
  <1>4. \A m \in List : stays'[m] \subseteq stays[m]
    BY <1>2, <1>3
  <1>5. files' \in Folders
    BY <1>2, <1>3 DEF Folders
  <1>6. stays' \in [List -> SUBSET Entry]
    BY <1>2, <1>3
  <1>7. StaysThere(files', stays')
    <2>. SUFFICES ASSUME NEW m \in List PROVE stays'[m] \subseteq Held(files', m)
      BY DEF StaysThere
    <2>1. CASE m = l
      <3>1. files'[m] = c /\ stays'[m] = IF c.there THEN stays[l] \cap c.entries ELSE {}
        BY <1>2, <1>3, <2>1 DEF Folders
      <3>. QED BY <3>1 DEF Held
    <2>2. CASE m # l
      <3>1. files'[m] = files[m] /\ stays'[m] = stays[m]
        BY <1>2, <1>3, <2>2 DEF Folders
      <3>. QED BY <1>3, <3>1 DEF Held, StaysThere
    <2>. QED BY <2>1, <2>2
  <1>8. ~Settled' /\ edited' \in 0 .. MaxSaves
    BY <1>1, <1>3 DEF Settled
  <1>9. Settled' = FALSE
    BY <1>8 DEF Settled
  <1>10. FilesInv'
    BY <1>1, <1>3, <1>5, <1>6, <1>7, <1>8 DEF FilesInv
  <1>11. PlaceInv'
    BY <1>1 DEF LoadInv, PlaceInv, Working, compiler
  <1>12. CacheInv'
    <2>. SUFFICES ASSUME NEW ns \in DOMAIN cache
                  PROVE  ns \in FileNames /\ FilledFrom(files', stays', FALSE, cache[ns], ns, Len(ns))
      BY <1>1, <1>9, Zenon DEF CacheInv, compiler
    <2>1. ns \in FileNames /\ FilledFrom(files, stays, Settled, cache[ns], ns, Len(ns))
      BY DEF LoadInv, CacheInv
    <2>2. Len(ns) \in Nat /\ Len(ns) <= Len(ns)
      BY <2>1 DEF FileNames
    <2>. QED BY <1>4, <2>1, <2>2, EditedFilled
  <1>13. FiltersInv'
    <2>. SUFFICES ASSUME NEW p \in 1 .. Len(compiled), NEW f \in 1 .. 4, p < section \/ f < field
                  PROVE  FilterRight(files', stays', FALSE, compiled[p].filter[f], text.profiles[p].lists[f], text.profiles[p].inline[f])
      BY <1>1, <1>9, Zenon DEF FiltersInv, compiler
    <2>1. FilterRight(files, stays, Settled, compiled[p].filter[f], text.profiles[p].lists[f], text.profiles[p].inline[f])
      BY Zenon DEF LoadInv, FiltersInv
    <2>2. p \in 1 .. Len(text.profiles)
      BY DEF LoadInv, PlaceInv
    <2>3. text.profiles[p].lists[f] \in FileNames
      BY <1>3, <2>2, SectionFacts
    <2>. DEFINE set == compiled[p].filter[f]
                ns == text.profiles[p].lists[f]
                own == text.profiles[p].inline[f]
    <2>. HIDE DEF set, ns, own
    <2>4. ns \in FileNames /\ FilterRight(files, stays, Settled, set, ns, own)
      BY <2>1, <2>3 DEF set, ns, own
    <2>5. FilterRight(files', stays', FALSE, set, ns, own)
      BY <1>4, <2>4, EditedRight
    <2>. QED BY <2>5 DEF set, ns, own
  <1>14. OpsInv'
    BY <1>1, Zenon DEF LoadInv, OpsInv, compiler
  <1>15. FieldInv'
    <2>1. FieldNames' = FieldNames /\ Inline' = Inline /\ (Working' <=> Working)
      BY <1>1 DEF FieldNames, Inline, Described, compiler, Working
    <2>2. Working /\ field <= 4 => FieldNames \in FileNames /\ Len(FieldNames) \in Nat
      <3>1. Working /\ field <= 4 => FieldNames \in FileNames
        <4>. SUFFICES ASSUME Working, field <= 4 PROVE FieldNames \in FileNames
          OBVIOUS
        <4>1. field \in 1 .. 4
          BY DEF LoadInv, PlaceInv
        <4>. QED BY <4>1, AtSection DEF FieldNames
      <3>. QED BY <3>1 DEF FileNames
    <2>3. item \in Nat \ {0} /\ item - 1 \in Nat /\ names \in FileNames /\ Len(names) \in Nat
      BY DEF LoadInv, PlaceInv, FileNames
    <2>4. cstage = "look" => Left(files', stays', FALSE, FieldNames, item - 1, names)
      <3>. SUFFICES ASSUME cstage = "look" PROVE Left(files', stays', FALSE, FieldNames, item - 1, names)
        OBVIOUS
      <3>1. FieldNames \in FileNames /\ Len(FieldNames) \in Nat
        BY <2>2 DEF Working, LoadInv, PlaceInv
      <3>2. Left(files, stays, Settled, FieldNames, item - 1, names) /\ item - 1 <= Len(FieldNames)
        BY <2>3, <3>1 DEF LoadInv, FieldInv
      <3>3. item - 1 \in Nat
        BY <2>3
      <3>4. Left(files, stays, Settled, FieldNames, item - 1, names) /\ item - 1 <= Len(FieldNames) /\ FieldNames \in FileNames
        BY <3>1, <3>2
      <3>. DEFINE n == item - 1
      <3>. HIDE DEF n
      <3>5. n \in Nat /\ Left(files, stays, Settled, FieldNames, n, names) /\ n <= Len(FieldNames) /\ FieldNames \in FileNames
        BY <3>3, <3>4 DEF n
      <3>6. Left(files', stays', FALSE, FieldNames, n, names)
        BY <1>4, <3>5, EditedLeft
      <3>. QED BY <3>6 DEF n
    <2>5. cstage = "load" => /\ Left(files', stays', FALSE, FieldNames, Len(FieldNames), names)
                             /\ FilledFrom(files', stays', FALSE, acc, names, item - 1)
      <3>. SUFFICES ASSUME cstage = "load" PROVE /\ Left(files', stays', FALSE, FieldNames, Len(FieldNames), names)
                                                 /\ FilledFrom(files', stays', FALSE, acc, names, item - 1)
        OBVIOUS
      <3>1. FieldNames \in FileNames /\ Len(FieldNames) \in Nat /\ Len(FieldNames) <= Len(FieldNames)
        BY <2>2 DEF Working, LoadInv, PlaceInv
      <3>2. /\ Left(files, stays, Settled, FieldNames, Len(FieldNames), names)
            /\ FilledFrom(files, stays, Settled, acc, names, item - 1) /\ item - 1 <= Len(names)
        BY <2>3 DEF LoadInv, FieldInv
      <3>3. Left(files', stays', FALSE, FieldNames, Len(FieldNames), names)
        BY <1>4, <3>1, <3>2, EditedLeft
      <3>4. FilledFrom(files', stays', FALSE, acc, names, item - 1)
        BY <1>4, <2>3, <3>2, EditedFilled
      <3>. QED BY <3>3, <3>4
    <2>. QED BY <1>1, <1>9, <2>1, <2>4, <2>5 DEF LoadInv, FieldInv, compiler
  <1>. QED BY <1>10, <1>11, <1>12, <1>13, <1>14, <1>15 DEF LoadInv
(* What the compiler knows of the files, at every moment. *)
THEOREM LoadInvHolds == StrategyLoadSpec => []LoadInv
  <1>1. LoadInv /\ [StrategyLoadNext]_load => LoadInv'
    <2>. SUFFICES ASSUME LoadInv, [StrategyLoadNext]_load PROVE LoadInv'
      OBVIOUS
    <2>1. CASE UNCHANGED load
      <3>1. UNCHANGED <<text, files, edited, stays, cstage, section, field, item, names, acc, cache, compiled>>
        BY <2>1 DEF load, compiler
      <3>2. Settled' = Settled /\ FieldNames' = FieldNames /\ Inline' = Inline /\ Working' = Working
        BY <3>1 DEF Settled, Unparsed, FieldNames, Inline, Described, Working
      <3>. QED BY <3>1, <3>2 DEF LoadInv, FilesInv, PlaceInv, FieldInv, CacheInv, FiltersInv, OpsInv
    <2>2. CASE StrategyLoadNext
      BY <2>2, WindowKeeps, SettingsKeep, FieldKeeps, StatKeeps, LookKeeps, LoadKeeps, LoadedKeep, OpsKeep, EditKeeps
         DEF StrategyLoadNext, Compiling
    <2>. QED BY <2>1, <2>2
  <1>. QED BY <1>1, LoadInit, PTL DEF StrategyLoadSpec
LEMMA SteadyHolds == LoadInv => SteadyEntriesExclude
  <1>. SUFFICES ASSUME LoadInv, cstage = "done", NEW p \in DOMAIN compiled, NEW f \in {2, 4},
                       NEW l \in Range(text.profiles[p].lists[f]), NEW h \in stays[l]
                PROVE  Excluded(compiled[p].filter[f], h)
    BY DEF SteadyEntriesExclude
  <1>1. p \in 1 .. Len(compiled) /\ p < section /\ p \in 1 .. Len(text.profiles) /\ text \in Texts /\ f \in 1 .. 4
    BY DEF LoadInv, PlaceInv, FilesInv
  <1>2. FilterRight(files, stays, Settled, compiled[p].filter[f], text.profiles[p].lists[f], text.profiles[p].inline[f])
    BY <1>1, Zenon DEF LoadInv, FiltersInv
  <1>3. text.profiles[p].lists[f] \in FileNames
    BY <1>1, SectionFacts
  <1>4. PICK i \in 1 .. Len(text.profiles[p].lists[f]) : text.profiles[p].lists[f][i] = l
    BY <1>3 DEF Range, FileNames
  <1>. QED BY <1>2, <1>4 DEF FilterRight
LEMMA ListedIs ==
    ASSUME FilesInv, NEW p \in 1 .. Len(text.profiles), NEW f \in 1 .. 4
    PROVE  LET ns == text.profiles[p].lists[f] IN Listed(p, f) = text.profiles[p].inline[f] \cup Joint(files, ns, Len(ns))
  <1>. DEFINE ns == text.profiles[p].lists[f]
  <1>1. ns \in FileNames
    BY SectionFacts DEF FilesInv
  <1>2. \A l : l \in Range(ns) <=> \E i \in 1 .. Len(ns) : ns[i] = l
    BY <1>1 DEF Range, FileNames
  <1>. HIDE DEF ns
  <1>3. UNION {files[l].entries : l \in {m \in Range(ns) : files[m].there}} = Joint(files, ns, Len(ns))
    BY <1>2 DEF Joint, Held
  <1>. QED BY <1>3 DEF Listed, ns
LEMMA ListsHold == LoadInv => ListsMeanWhatTheySay
  <1>. SUFFICES ASSUME LoadInv, cstage = "done", Settled, NEW p \in DOMAIN compiled
                PROVE  /\ IncludesListed(p, 1) /\ IncludesListed(p, 3)
                       /\ ExcludesListed(p, 2) /\ ExcludesListed(p, 4)
    BY DEF ListsMeanWhatTheySay, Settled
  <1>1. ASSUME NEW f \in 1 .. 4 PROVE IncludesListed(p, f) /\ ExcludesListed(p, f)
    <2>1. p \in 1 .. Len(compiled) /\ p < section /\ p \in 1 .. Len(text.profiles)
      BY DEF LoadInv, PlaceInv
    <2>2. FilterRight(files, stays, Settled, compiled[p].filter[f], text.profiles[p].lists[f], text.profiles[p].inline[f])
      BY <2>1, Zenon DEF LoadInv, FiltersInv
    <2>3. LET ns == text.profiles[p].lists[f] IN Listed(p, f) = text.profiles[p].inline[f] \cup Joint(files, ns, Len(ns))
      BY <2>1, ListedIs DEF LoadInv
    <2>. DEFINE set == compiled[p].filter[f]
    <2>5. (set.nil => Listed(p, f) = {}) /\ (~set.nil => ~set.any /\ set.entries = Listed(p, f) /\ Listed(p, f) # {})
      BY <2>2, <2>3 DEF FilterRight
    <2>. QED BY <2>5 DEF IncludesListed, ExcludesListed, Included, Excluded, Match
  <1>. QED BY <1>1
LEMMA LoadTypes == LoadInv => StrategyLoadTypeOK
  <1>. SUFFICES ASSUME LoadInv PROVE StrategyLoadTypeOK
    OBVIOUS
  <1>1. \A ns \in DOMAIN cache : ns \in Seq(List) /\ cache[ns] \in Filters
    BY DEF LoadInv, CacheInv, FilledFrom, FileNames
  <1>2. \A i \in DOMAIN compiled : compiled[i].filter \in [DOMAIN Fields -> Filters]
    <2>1. \A i \in DOMAIN compiled : compiled[i] \in Compilation
      BY DEF LoadInv, PlaceInv
    <2>. QED BY <2>1, FieldsAre DEF Compilation
  <1>. QED BY <1>1, <1>2, FieldsAre DEF LoadInv, FilesInv, PlaceInv, StrategyLoadTypeOK, Folders, FileNames

-----------------------------------------------------------------------------
(* The ports of a file, merged.                                            *)
RangeSeq == Seq(PortRange)
Covers(s, n, q) == \E i \in 1 .. n : s[i].lo <= q /\ q <= s[i].hi
(* Ranges in order, with a gap between two of them. *)
Apart(merge) ==
    /\ merge \in RangeSeq
    /\ \A i \in 1 .. Len(merge) : merge[i].lo <= merge[i].hi
    /\ \A i \in 1 .. Len(merge) - 1 : merge[i].hi + 1 < merge[i + 1].lo

LEMMA RangeFacts ==
    ASSUME NEW s \in RangeSeq
    PROVE  /\ Len(s) \in Nat /\ DOMAIN s = 1 .. Len(s)
           /\ \A i \in 1 .. Len(s) : s[i] \in PortRange /\ s[i].lo \in Int /\ s[i].hi \in Int
  <1>1. Len(s) \in Nat /\ DOMAIN s = 1 .. Len(s) /\ \A i \in 1 .. Len(s) : s[i] \in PortRange
    BY DEF RangeSeq
  <1>. QED BY <1>1 DEF PortRange
LEMMA MergeIs ==
    ASSUME NEW merge, Apart(merge), NEW r \in PortRange, r.lo <= r.hi, merge # <<>> => merge[Len(merge)].lo <= r.lo
    PROVE  LET new == Merge(merge, r)
           IN  /\ Apart(new) /\ new # <<>> /\ new[Len(new)].lo <= r.lo
               /\ \A q \in Int : Covers(new, Len(new), q) <=> Covers(merge, Len(merge), q) \/ (r.lo <= q /\ q <= r.hi)
  <1>. DEFINE m == Len(merge)
  <1>1. merge \in RangeSeq /\ m \in Nat /\ r.lo \in Int /\ r.hi \in Int
        /\ \A i \in 1 .. m : merge[i] \in PortRange /\ merge[i].lo \in Int /\ merge[i].hi \in Int
    BY RangeFacts DEF Apart, PortRange
  <1>2. CASE merge = <<>> \/ ~Adjoins(r, merge[m])
    <2>. DEFINE new == Append(merge, r)
    <2>1. new \in RangeSeq /\ Len(new) = m + 1 /\ new[m + 1] = r /\ \A i \in 1 .. m : new[i] = merge[i]
      BY <1>1 DEF RangeSeq
    <2>2. Merge(merge, r) = new
      BY <1>2 DEF Merge
    <2>3. m > 0 => merge[m].hi + 1 < r.lo
      <3>. SUFFICES ASSUME m > 0 PROVE merge[m].hi + 1 < r.lo
        OBVIOUS
      <3>1. merge # <<>> /\ m \in 1 .. m
        BY <1>1
      <3>. QED BY <1>1, <1>2, <3>1 DEF Adjoins
    <2>. HIDE DEF new, m
    <2>4. \A i \in 1 .. m + 1 : i \in 1 .. m \/ i = m + 1
      BY <1>1
    <2>5. \A i \in 1 .. m : i \in 1 .. m + 1
      BY <1>1
    <2>6. \A i \in 1 .. m + 1 : new[i].lo <= new[i].hi
      BY <2>1, <2>4 DEF Apart, m
    <2>7. \A i \in 1 .. (m + 1) - 1 : new[i].hi + 1 < new[i + 1].lo
      <3>. SUFFICES ASSUME NEW i \in 1 .. m PROVE new[i].hi + 1 < new[i + 1].lo
        BY <1>1
      <3>1. CASE i = m
        BY <1>1, <2>1, <2>3, <3>1
      <3>2. CASE i # m
        <4>1. i \in 1 .. m - 1 /\ i + 1 \in 1 .. m
          BY <1>1, <3>2
        <4>2. merge[i].hi + 1 < merge[i + 1].lo
          BY <4>1 DEF Apart, m
        <4>. QED BY <2>1, <4>1, <4>2
      <3>. QED BY <3>1, <3>2
    <2>8. Apart(new)
      BY <2>1, <2>6, <2>7 DEF Apart
    <2>9. m + 1 \in 1 .. m + 1 /\ new # <<>>
      BY <1>1, <2>1
    <2>10. \A q \in Int : Covers(new, m + 1, q) <=> Covers(merge, m, q) \/ (r.lo <= q /\ q <= r.hi)
      BY <2>1, <2>4, <2>5, <2>9 DEF Covers
    <2>11. new[Len(new)].lo <= r.lo
      BY <1>1, <2>1
    <2>. QED BY <2>1, <2>2, <2>8, <2>9, <2>10, <2>11 DEF m
  <1>3. CASE ~(merge = <<>> \/ ~Adjoins(r, merge[m]))
    <2>. DEFINE last == merge[m]
                joint == [lo |-> last.lo, hi |-> IF r.hi > last.hi THEN r.hi ELSE last.hi]
                new == [merge EXCEPT ![m] = joint]
    <2>1. m \in 1 .. m /\ merge # <<>> /\ r.lo <= last.hi + 1 /\ last.lo <= r.lo
      BY <1>1, <1>3 DEF Adjoins, RangeSeq
    <2>2. joint \in PortRange /\ joint.lo = last.lo /\ joint.hi = (IF r.hi > last.hi THEN r.hi ELSE last.hi)
      BY <1>1, <2>1 DEF PortRange
    <2>3. Merge(merge, r) = new
      BY <1>3 DEF Merge
    <2>. HIDE DEF joint
    <2>4. new \in RangeSeq /\ Len(new) = m /\ new[m] = joint /\ \A i \in 1 .. m : i # m => new[i] = merge[i]
      BY <1>1, <2>1, <2>2 DEF RangeSeq
    <2>5. last.lo <= last.hi
      BY <2>1 DEF Apart
    <2>. HIDE DEF new, m, last
    <2>6. \A i \in 1 .. m : new[i].lo = merge[i].lo /\ new[i].lo <= new[i].hi
      <3>. SUFFICES ASSUME NEW i \in 1 .. m PROVE new[i].lo = merge[i].lo /\ new[i].lo <= new[i].hi
        OBVIOUS
      <3>1. CASE i = m
        BY <1>1, <2>1, <2>2, <2>4, <2>5, <3>1 DEF last
      <3>2. CASE i # m
        BY <2>4, <3>2 DEF Apart, m
      <3>. QED BY <3>1, <3>2
    <2>7. \A i \in 1 .. m - 1 : new[i].hi + 1 < new[i + 1].lo
      <3>. SUFFICES ASSUME NEW i \in 1 .. m - 1 PROVE new[i].hi + 1 < new[i + 1].lo
        OBVIOUS
      <3>1. i \in 1 .. m /\ i # m /\ i + 1 \in 1 .. m
        BY <1>1
      <3>2. new[i] = merge[i] /\ new[i + 1].lo = merge[i + 1].lo
        BY <2>4, <2>6, <3>1
      <3>. QED BY <3>2 DEF Apart, m
    <2>8. Apart(new)
      BY <2>4, <2>6, <2>7 DEF Apart
    <2>9. \A q \in Int : Covers(new, m, q) <=> Covers(merge, m, q) \/ (r.lo <= q /\ q <= r.hi)
      <3>. SUFFICES ASSUME NEW q \in Int PROVE Covers(new, m, q) <=> Covers(merge, m, q) \/ (r.lo <= q /\ q <= r.hi)
        OBVIOUS
      <3>1. joint.lo <= q /\ q <= joint.hi <=> (last.lo <= q /\ q <= last.hi) \/ (r.lo <= q /\ q <= r.hi)
        <4>1. last.lo \in Int /\ last.hi \in Int
          BY <1>1, <2>1 DEF last
        <4>. QED BY <1>1, <2>1, <2>2, <2>5, <4>1
      <3>2. ASSUME Covers(new, m, q) PROVE Covers(merge, m, q) \/ (r.lo <= q /\ q <= r.hi)
        <4>1. PICK i \in 1 .. m : new[i].lo <= q /\ q <= new[i].hi
          BY <3>2 DEF Covers
        <4>2. CASE i = m
          BY <2>1, <2>4, <3>1, <4>1, <4>2 DEF Covers, last
        <4>3. CASE i # m
          BY <2>4, <4>1, <4>3 DEF Covers
        <4>. QED BY <4>2, <4>3
      <3>3. ASSUME Covers(merge, m, q) PROVE Covers(new, m, q)
        <4>1. PICK i \in 1 .. m : merge[i].lo <= q /\ q <= merge[i].hi
          BY <3>3 DEF Covers
        <4>2. CASE i = m
          BY <2>1, <2>4, <3>1, <4>1, <4>2 DEF Covers, last
        <4>3. CASE i # m
          BY <2>4, <4>1, <4>3 DEF Covers
        <4>. QED BY <4>2, <4>3
      <3>4. ASSUME r.lo <= q /\ q <= r.hi PROVE Covers(new, m, q)
        BY <2>1, <2>4, <3>1, <3>4 DEF Covers
      <3>. QED BY <3>2, <3>3, <3>4
    <2>10. new # <<>> /\ new[m].lo <= r.lo
      BY <1>1, <2>1, <2>2, <2>4
    <2>. QED BY <2>3, <2>4, <2>8, <2>9, <2>10 DEF m
  <1>. QED BY <1>2, <1>3 DEF m

(* The ranks are those of an order: what comes no later begins no later. *)
Ranks(ranges) == [i \in DOMAIN ranges |-> Cardinality({j \in DOMAIN ranges : Precedes(ranges[j], ranges[i])})]
LEMMA RanksFollow ==
    ASSUME NEW ranges \in RangeSeq
    PROVE  /\ Ranks(ranges) \in [1 .. Len(ranges) -> Int]
           /\ \A a, b \in 1 .. Len(ranges) : Ranks(ranges)[a] <= Ranks(ranges)[b] => ranges[a].lo <= ranges[b].lo
  <1>. DEFINE n == Len(ranges)
              Sooner(i) == {j \in 1 .. n : Precedes(ranges[j], ranges[i])}
  <1>1. n \in Nat /\ DOMAIN ranges = 1 .. n /\ \A i \in 1 .. n : ranges[i].lo \in Int /\ ranges[i].hi \in Int
    BY RangeFacts
  <1>. HIDE DEF n
  <1>2. IsFiniteSet(1 .. n)
    BY <1>1, FS_Interval
  <1>3. \A i \in 1 .. n : IsFiniteSet(Sooner(i)) /\ Cardinality(Sooner(i)) \in Nat
    BY <1>2, FS_Subset, FS_CardinalityType
  <1>4. Ranks(ranges) = [i \in 1 .. n |-> Cardinality(Sooner(i))]
    BY <1>1, Zenon DEF Ranks
  <1>5. ASSUME NEW a \in 1 .. n, NEW b \in 1 .. n, ~(ranges[a].lo <= ranges[b].lo)
        PROVE  ~(Cardinality(Sooner(a)) <= Cardinality(Sooner(b)))
    <2>1. Sooner(b) \subseteq Sooner(a)
      BY <1>1, <1>5 DEF Precedes
    <2>2. b \in Sooner(a) /\ b \notin Sooner(b)
      BY <1>1, <1>5 DEF Precedes
    <2>. DEFINE A == Sooner(a)
                B == Sooner(b)
    <2>3. IsFiniteSet(A) /\ Cardinality(A) \in Nat /\ Cardinality(B) \in Nat
      BY <1>3
    <2>. HIDE DEF A, B
    <2>4. B \in SUBSET A /\ A # B
      BY <2>1, <2>2 DEF A, B
    <2>5. Cardinality(B) <= Cardinality(A) /\ Cardinality(A) # Cardinality(B)
      BY <2>3, <2>4, FS_Subset
    <2>6. ~(Cardinality(A) <= Cardinality(B))
      BY <2>3, <2>5
    <2>. QED BY <2>6 DEF A, B
  <1>. HIDE DEF Sooner
  <1>6. Ranks(ranges) \in [1 .. n -> Int] /\ \A i \in 1 .. n : Ranks(ranges)[i] = Cardinality(Sooner(i))
    BY <1>3, <1>4
  <1>. QED BY <1>5, <1>6 DEF n
(* What MergePorts merges, one after the other. *)
MergeOf(ranges, at, n, merged) == merged = [k \in 0 .. n |-> IF k = 0 THEN <<>> ELSE Merge(merged[k - 1], ranges[at[k]])]
LEMMA MergeExists ==
    ASSUME NEW ranges \in RangeSeq, NEW n \in Nat, n = Len(ranges), NEW at \in [1 .. n -> 1 .. n]
    PROVE  \E merged : MergeOf(ranges, at, n, merged)
  <1>. DEFINE step == [k \in 1 .. n |-> [merge \in RangeSeq |-> Merge(merge, ranges[at[k]])]]
  <1>1. \A k \in 1 .. n : ranges[at[k]] \in PortRange
    BY RangeFacts
  <1>2. ASSUME NEW merge \in RangeSeq, NEW r \in PortRange PROVE Merge(merge, r) \in RangeSeq
    <2>1. CASE merge = <<>> \/ ~Adjoins(r, merge[Len(merge)])
      BY <2>1 DEF Merge, RangeSeq
    <2>2. CASE ~(merge = <<>> \/ ~Adjoins(r, merge[Len(merge)]))
      <3>. DEFINE m == Len(merge)
                  last == merge[m]
                  joint == [lo |-> last.lo, hi |-> IF r.hi > last.hi THEN r.hi ELSE last.hi]
      <3>1. m \in 1 .. m
        BY <2>2 DEF RangeSeq
      <3>2. joint \in PortRange
        BY <3>1, RangeFacts DEF PortRange
      <3>3. Merge(merge, r) = [merge EXCEPT ![m] = joint]
        BY <2>2 DEF Merge
      <3>. HIDE DEF joint
      <3>. QED BY <3>1, <3>2, <3>3 DEF RangeSeq
    <2>. QED BY <2>1, <2>2
  <1>3. step \in [1 .. n -> [RangeSeq -> RangeSeq]] /\ <<>> \in RangeSeq
    <2>1. \A k \in 1 .. n : [merge \in RangeSeq |-> Merge(merge, ranges[at[k]])] \in [RangeSeq -> RangeSeq]
      BY <1>1, <1>2
    <2>2. <<>> \in RangeSeq
      BY DEF RangeSeq
    <2>. QED BY <2>1, <2>2
  <1>4. PICK g \in [0 .. n -> RangeSeq] : Unfolds(g, n, <<>>, step)
    <2>. HIDE DEF step
    <2>. QED BY <1>3, Recursive
  <1>5. ASSUME NEW k \in 0 .. n PROVE g[k] = IF k = 0 THEN <<>> ELSE Merge(g[k - 1], ranges[at[k]])
    <2>1. CASE k = 0
      BY <1>4, <2>1 DEF Unfolds
    <2>2. CASE k # 0
      <3>1. k \in 1 .. n /\ k - 1 \in 0 .. n
        BY <2>2
      <3>2. g[k] = step[k][g[k - 1]] /\ g[k - 1] \in RangeSeq
        BY <1>4, <3>1 DEF Unfolds
      <3>. QED BY <2>2, <3>1, <3>2
    <2>. QED BY <2>1, <2>2
  <1>. HIDE DEF step
  <1>6. MergeOf(ranges, at, n, g)
    BY <1>5 DEF MergeOf
  <1>. QED BY <1>6
(* Ranges in the order of where they begin, merged: what any of the first k has. *)
LEMMA MergedSoFar ==
    ASSUME NEW ranges \in RangeSeq, NEW n \in Nat, n = Len(ranges), NEW at \in [1 .. n -> 1 .. n],
           \A i \in 1 .. n : ranges[i].lo <= ranges[i].hi,
           \A a, b \in 1 .. n : a < b => ranges[at[a]].lo <= ranges[at[b]].lo,
           NEW merged, MergeOf(ranges, at, n, merged)
    PROVE  /\ Apart(merged[n])
           /\ \A q \in Int : Covers(merged[n], Len(merged[n]), q) <=> \E k \in 1 .. n : ranges[at[k]].lo <= q /\ q <= ranges[at[k]].hi
  <1>. DEFINE Ok(k) == LET merge == merged[k]
                       IN  /\ Apart(merge)
                           /\ k = 0 => merge = <<>>
                           /\ k > 0 => merge[Len(merge)].lo <= ranges[at[k]].lo
                           /\ \A q \in Int : Covers(merge, Len(merge), q) <=>
                                  \E j \in 1 .. k : ranges[at[j]].lo <= q /\ q <= ranges[at[j]].hi
              T == {k \in 0 .. n : Ok(k)}
  <1>1. merged[0] = <<>> /\ \A k \in 1 .. n : merged[k] = Merge(merged[k - 1], ranges[at[k]])
    <2>1. 0 \in 0 .. n /\ \A k \in 1 .. n : k \in 0 .. n /\ k # 0
      OBVIOUS
    <2>. QED BY <2>1 DEF MergeOf
  <1>2. 0 \in T
    <2>1. Apart(<<>>) /\ \A q \in Int : ~Covers(<<>>, Len(<<>>), q)
      BY DEF Apart, Covers, RangeSeq
    <2>. QED BY <1>1, <2>1
  <1>3. ASSUME NEW k \in 0 .. n - 1, k \in T PROVE k + 1 \in T
    <2>. DEFINE e == k + 1
                r == ranges[at[e]]
                merge == merged[k]
                new == merged[e]
    <2>1. e \in 1 .. n /\ e - 1 = k /\ at[e] \in 1 .. n /\ e \in 0 .. n /\ e # 0 /\ e > 0
      OBVIOUS
    <2>2. r \in PortRange /\ r.lo <= r.hi /\ new = Merge(merge, r)
      BY <1>1, <2>1, RangeFacts
    <2>3. merge # <<>> => merge[Len(merge)].lo <= r.lo
      <3>. SUFFICES ASSUME merge # <<>> PROVE merge[Len(merge)].lo <= r.lo
        OBVIOUS
      <3>1. Apart(merge) /\ merge[Len(merge)].lo <= ranges[at[k]].lo /\ k \in 1 .. n /\ k < e
        BY <1>3
      <3>2. ranges[at[k]].lo <= r.lo
        BY <2>1, <3>1
      <3>3. Len(merge) \in 1 .. Len(merge)
        BY <3>1 DEF Apart, RangeSeq
      <3>4. merge[Len(merge)].lo \in Int /\ r.lo \in Int /\ ranges[at[k]].lo \in Int
        BY <2>1, <3>1, <3>3, RangeFacts DEF Apart
      <3>5. merge[Len(merge)].lo <= ranges[at[k]].lo
        BY <3>1
      <3>. HIDE DEF r, merge
      <3>. QED BY <3>2, <3>4, <3>5
    <2>4. Apart(merge) /\ \A q \in Int : Covers(merge, Len(merge), q) <=> \E j \in 1 .. k : ranges[at[j]].lo <= q /\ q <= ranges[at[j]].hi
      BY <1>3
    <2>. HIDE DEF r, merge, T
    <2>5. /\ Apart(new) /\ new # <<>> /\ new[Len(new)].lo <= r.lo
          /\ \A q \in Int : Covers(new, Len(new), q) <=> Covers(merge, Len(merge), q) \/ (r.lo <= q /\ q <= r.hi)
      BY <2>2, <2>3, <2>4, MergeIs
    <2>. HIDE DEF new
    <2>6. \A j \in 1 .. e : j \in 1 .. k \/ j = e
      OBVIOUS
    <2>7. \A j \in 1 .. k : j \in 1 .. e
      OBVIOUS
    <2>8. e \in 1 .. e
      OBVIOUS
    <2>. HIDE DEF e
    <2>9. \A q \in Int : Covers(new, Len(new), q) <=> \E j \in 1 .. e : ranges[at[j]].lo <= q /\ q <= ranges[at[j]].hi
      BY <2>4, <2>5, <2>6, <2>7, <2>8 DEF r
    <2>10. Ok(e)
      BY <2>1, <2>5, <2>9 DEF new, r
    <2>. QED BY <2>1, <2>10 DEF T, e
  <1>. HIDE DEF T
  <1>4. \A k \in 0 .. n - 1 : k \in T => k + 1 \in T
    BY <1>3
  <1>5. \A k \in 0 .. n : k \in T
    BY <1>2, <1>4, Induct
  <1>6. n \in T
    BY <1>5
  <1>. QED BY <1>6 DEF T
LEMMA MergePortsIs ==
    ASSUME NEW ranges \in RangeSeq, \A i \in 1 .. Len(ranges) : ranges[i].lo <= ranges[i].hi
    PROVE  LET merge == MergePorts(ranges)
           IN  Apart(merge) /\ \A q \in Int : Covers(merge, Len(merge), q) <=> Covers(ranges, Len(ranges), q)
  <1>. DEFINE n == Len(ranges)
              I == DOMAIN ranges
              rank == Ranks(ranges)
              at == Sorted(I, rank)
              merged == CHOOSE merged : MergeOf(ranges, at, n, merged)
  <1>1. n \in Nat /\ I = 1 .. n /\ \A i \in 1 .. n : ranges[i].lo \in Int /\ ranges[i].hi \in Int
    BY RangeFacts
  <1>2. MergePorts(ranges) = merged[n]
    BY DEF MergePorts, MergeOf, Ranks
  <1>3. rank \in [I -> Int] /\ \A a, b \in 1 .. n : rank[a] <= rank[b] => ranges[a].lo <= ranges[b].lo
    BY <1>1, RanksFollow
  <1>4. IsFiniteSet(I) /\ Cardinality(I) = n
    <2>1. IsFiniteSet(1 .. n) /\ Cardinality(1 .. n) = IF 1 > n THEN 0 ELSE n - 1 + 1
      BY <1>1, FS_Interval
    <2>. HIDE DEF I, n
    <2>2. (IF 1 > n THEN 0 ELSE n - 1 + 1) = n
      BY <1>1
    <2>. QED BY <1>1, <2>1, <2>2
  <1>. HIDE DEF rank, n
  <1>5. I \in SUBSET Int
    BY <1>1
  <1>6. /\ at \in [1 .. n -> I] /\ \A i \in I : \E k \in 1 .. n : at[k] = i
        /\ \A a, b \in 1 .. n : a < b => rank[at[a]] < rank[at[b]] \/ (rank[at[a]] = rank[at[b]] /\ at[a] < at[b])
    BY <1>3, <1>4, <1>5, SortedFacts, ZenonT(40)
  <1>. HIDE DEF at, I
  <1>7. at \in [1 .. n -> 1 .. n] /\ \A k \in 1 .. n : at[k] \in 1 .. n /\ rank[at[k]] \in Int
    BY <1>1, <1>3, <1>6
  <1>8. \A a, b \in 1 .. n : a < b => ranges[at[a]].lo <= ranges[at[b]].lo
    <2>. SUFFICES ASSUME NEW a \in 1 .. n, NEW b \in 1 .. n, a < b PROVE ranges[at[a]].lo <= ranges[at[b]].lo
      OBVIOUS
    <2>2. rank[at[a]] < rank[at[b]] \/ (rank[at[a]] = rank[at[b]] /\ at[a] < at[b])
      BY <1>6, Zenon
    <2>3. rank[at[a]] \in Int /\ rank[at[b]] \in Int
      BY <1>7, Zenon
    <2>1. rank[at[a]] <= rank[at[b]]
      BY <2>2, <2>3
    <2>. QED BY <1>3, <1>7, <2>1
  <1>9. MergeOf(ranges, at, n, merged)
    <2>1. \E m : MergeOf(ranges, at, n, m)
      BY <1>1, <1>7, MergeExists DEF n
    <2>. QED BY <2>1, Zenon
  <1>. HIDE DEF merged
  <1>10. /\ Apart(merged[n])
         /\ \A q \in Int : Covers(merged[n], Len(merged[n]), q) <=> \E k \in 1 .. n : ranges[at[k]].lo <= q /\ q <= ranges[at[k]].hi
    <2>1. \A i \in 1 .. n : ranges[i].lo <= ranges[i].hi
      BY DEF n
    <2>. QED BY <1>1, <1>7, <1>8, <1>9, <2>1, MergedSoFar DEF n
  <1>11. \A q \in Int : (\E k \in 1 .. n : ranges[at[k]].lo <= q /\ q <= ranges[at[k]].hi) <=> Covers(ranges, n, q)
    BY <1>1, <1>6, <1>7 DEF Covers
  <1>. QED BY <1>2, <1>10, <1>11 DEF n

-----------------------------------------------------------------------------
(* The overlaps that the loader accepts.                                   *)
Specified == Seq([m: Markers, off: Int])
LEMMA WrittenFacts ==
    ASSUME NEW o \in WrittenOp
    PROVE  o.op \in Names /\ o.ipid \in IpIds /\ o.ovl \in Int /\ o.order \in Int /\ o.pos \in Specified
  BY DEF WrittenOp, Specified
LEMMA SpecFacts ==
    ASSUME NEW s \in Specified
    PROVE  Len(s) \in Nat /\ DOMAIN s = 1 .. Len(s) /\ \A i \in 1 .. Len(s) : s[i].m \in Markers /\ s[i].off \in Int
  <1>. DEFINE R == [m: Markers, off: Int]
  <1>. HIDE DEF R
  <1>1. s \in Seq(R)
    BY DEF Specified, R
  <1>2. Len(s) \in Nat /\ DOMAIN s = 1 .. Len(s) /\ \A i \in 1 .. Len(s) : s[i] \in R
    BY <1>1
  <1>. QED BY <1>2 DEF R
(* Positions that are numbers, in order, within the packet: the cuts are there,   *)
(* and none is before the first of the file.                                      *)
LEMMA PositionsResolved ==
    ASSUME NEW c \in Context, NEW o \in WrittenOp, o.pos # <<>>, PositionsOrdered(o),
           \A i \in DOMAIN o.pos : o.pos[i].off < c.len
    PROVE  LET first == o.pos[1].off
               pos == SegResolveMultiPos(c, Specs(o))
           IN  /\ first \in 1 .. c.len - 1 /\ SegResolveSinglePos(c, Specs(o)) = first
               /\ Positions(c, pos) /\ pos # <<>> /\ pos[1] \in Nat /\ first <= pos[1] /\ o.pos[1].m = "abs"
  <1>. DEFINE s == o.pos
              n == Len(s)
              first == s[1].off
              pos == SegResolveMultiPos(c, s)
              I == {FindSplitPos(c, s[i]) : i \in DOMAIN s} \cap 1 .. c.len - 1
  <1>1. c.len \in Nat /\ s \in Specified /\ Specs(o) = s
    BY ContextFacts, WrittenFacts DEF Specs
  <1>2. n \in Nat \ {0} /\ DOMAIN s = 1 .. n
    <2>1. n \in Nat /\ DOMAIN s = 1 .. n
      BY <1>1, SpecFacts
    <2>2. n # 0
      BY <1>1 DEF Specified
    <2>. QED BY <2>1, <2>2
  <1>. HIDE DEF n
  <1>3. \A i \in 1 .. n : s[i].m = "abs" /\ s[i].off \in 1 .. c.len - 1
    <2>1. \A i \in 1 .. n : s[i].m = "abs" /\ s[i].off > 0 /\ s[i].off < c.len /\ s[i].off \in Int
      BY <1>1, <1>2, SpecFacts DEF PositionsOrdered, n
    <2>. QED BY <1>1, <2>1
  <1>4. \A i \in 1 .. n : FindSplitPos(c, s[i]) = s[i].off
    BY <1>1, <1>3 DEF FindSplitPos, Clamp
  <1>5. \A i \in 1 .. n : first <= s[i].off
    <2>. DEFINE T == {k \in 0 .. n - 1 : first <= s[k + 1].off}
    <2>1. 0 \in T
      BY <1>2, <1>3
    <2>2. ASSUME NEW k \in 0 .. (n - 1) - 1, k \in T PROVE k + 1 \in T
      <3>1. k + 1 \in 1 .. n - 1 /\ k + 1 \in 1 .. n /\ (k + 1) + 1 \in 1 .. n /\ k + 1 \in 0 .. n - 1 /\ 1 \in 1 .. n
        BY <1>2
      <3>2. s[k + 1].off < s[(k + 1) + 1].off
        BY <3>1 DEF PositionsOrdered, n
      <3>3. first \in Int /\ s[k + 1].off \in Int /\ s[(k + 1) + 1].off \in Int
        BY <1>3, <3>1
      <3>4. first <= s[k + 1].off
        BY <2>2
      <3>. QED BY <3>1, <3>2, <3>3, <3>4
    <2>. HIDE DEF T
    <2>3. \A k \in 0 .. (n - 1) - 1 : k \in T => k + 1 \in T
      BY <2>2
    <2>4. n - 1 \in Nat
      BY <1>2
    <2>5. \A k \in 0 .. n - 1 : k \in T
      BY <2>1, <2>3, <2>4, Induct
    <2>. SUFFICES ASSUME NEW i \in 1 .. n PROVE first <= s[i].off
      OBVIOUS
    <2>6. i - 1 \in 0 .. n - 1 /\ (i - 1) + 1 = i
      BY <1>2
    <2>7. i - 1 \in T
      BY <2>5, <2>6
    <2>. QED BY <2>6, <2>7 DEF T
  <1>6. 1 \in 1 .. n /\ first \in 1 .. c.len - 1 /\ s[1].m = "abs"
    BY <1>2, <1>3
  <1>7. Positions(c, pos) /\ \E k \in 1 .. Len(pos) : pos[k] = first
    BY <1>2, <1>4, <1>6, MultiPos
  <1>8. pos # <<>> /\ pos[1] \in Nat /\ first <= pos[1]
    <2>1. I \in SUBSET Int /\ IsFiniteSet(I)
      <3>1. IsFiniteSet(1 .. c.len - 1)
        BY <1>1, FS_Interval
      <3>2. I \subseteq 1 .. c.len - 1 /\ I \subseteq Int
        OBVIOUS
      <3>. HIDE DEF I
      <3>. QED BY <3>1, <3>2, FS_Subset
    <2>2. \A x \in I : first <= x
      BY <1>2, <1>4, <1>5
    <2>3. pos = Ascending(I)
      BY DEF SegResolveMultiPos
    <2>. HIDE DEF I, pos
    <2>4. pos \in Seq(I) /\ Len(pos) \in Nat
      BY <2>1, <2>3, AscendingFacts
    <2>5. pos # <<>> /\ 1 \in 1 .. Len(pos)
      BY <1>7, <2>4
    <2>6. pos[1] \in I
      BY <2>4, <2>5
    <2>7. pos[1] \in Nat
      BY <1>7, <2>5 DEF Positions
    <2>. QED BY <2>2, <2>5, <2>6, <2>7
  <1>9. SegResolveSinglePos(c, s) = first
    <2>. DEFINE G(abs) == {i \in DOMAIN s: (s[i].m = "abs") = abs /\ FindSplitPos(c, s[i]) # 0}
                Earliest(J) == FindSplitPos(c, s[Min(J)])
                at == IF G(FALSE) # {} THEN Earliest(G(FALSE)) ELSE IF G(TRUE) # {} THEN Earliest(G(TRUE)) ELSE 1
    <2>1. SegResolveSinglePos(c, s) = IF at >= c.len THEN 0 ELSE at
      BY DEF SegResolveSinglePos
    <2>2. G(FALSE) = {} /\ 1 \in G(TRUE) /\ \A i \in G(TRUE) : i \in Nat /\ 1 <= i
      BY <1>2, <1>3, <1>4, <1>6
    <2>3. Min(G(TRUE)) = 1
      <3>1. \A J : 1 \in J /\ (\A i \in J : i \in Nat /\ 1 <= i) => Min(J) = 1
        BY DEF Min
      <3>. QED BY <2>2, <3>1, Zenon
    <2>4. at = first
      BY <1>4, <1>6, <2>2, <2>3
    <2>. HIDE DEF at
    <2>. QED BY <1>1, <1>6, <2>1, <2>4
  <1>. QED BY <1>1, <1>6, <1>7, <1>8, <1>9

(* A unit that begins with a filler. *)
Begins(s) == s.data \in Bytes /\ Len(s.data) >= 1 /\ s.data[1] = Fill
LEMMA FillerBegins ==
    ASSUME NEW c \in Context, NEW o \in WrittenOp, NEW from \in 0 .. c.len, NEW to \in from .. c.len, NEW ovl \in Nat \ {0}, NEW off
    PROVE  Begins(SegDataSeg(Filler(ovl) \o Cut(Payload(c), from, to), off, o))
  <1>. DEFINE data == Filler(ovl) \o Cut(Payload(c), from, to)
              s == SegDataSeg(data, from - ovl, o)
  <1>1. o.ipid \in IpIds /\ c.len \in Nat
    BY WrittenFacts, ContextFacts
  <1>2. Piece(Nat, c, from, to, ovl, s)
    BY <1>1, PieceFilled
  <1>3. s.data = data /\ SegDataSeg(data, off, o).data = data
    BY DEF SegDataSeg, Segment
  <1>. HIDE DEF s, data
  <1>4. data \in Bytes
    BY <1>2, <1>3 DEF Piece, DataUnits, Unit, Bytes
  <1>5. Len(data) = (to - from) + ovl /\ data[1] = Fill
    <2>1. s.off = from - ovl /\ Len(s.data) = (to - from) + ovl /\ Tile(s, Payload(c), from, to)
      BY <1>2 DEF Piece
    <2>2. 1 \in 1 .. Len(s.data) /\ ~(s.off + 1 > from)
      BY <1>1, <2>1
    <2>. QED BY <1>3, <2>1, <2>2 DEF Tile
  <1>. QED BY <1>1, <1>3, <1>4, <1>5 DEF Begins, data
LEMMA FilledPart ==
    ASSUME NEW c \in Context, NEW o \in WrittenOp, NEW pos, Positions(c, pos), pos # <<>>,
           NEW ovl \in Nat \ {0}, NEW target \in {1, 2}, target = 2 => ovl < pos[1]
    PROVE  LET q == Parts(c, o, pos, ovl, target)
           IN  /\ q \in DataSeq(Nat) /\ Len(q) \in Nat /\ target \in 1 .. Len(q) /\ Begins(q[target])
               /\ \A i \in 1 .. Len(q) : Len(q[i].data) \in Nat /\ Len(q[i].data) <= c.len + ovl
  <1>. DEFINE q == Parts(c, o, pos, ovl, target)
              n == Len(pos) + 1
              b == BoundsOf(c, pos)
  <1>1. o.ipid \in IpIds
    BY WrittenFacts
  <1>2. /\ Len(pos) \in Nat /\ Len(pos) >= 1 /\ c.len \in Nat /\ Bounds(b, n, c.len) /\ n \in Nat \ {0}
        /\ (\A k \in 0 .. n : EndsOf(c, pos)[k + 1] = b[k]) /\ c.len > 0
    BY EndsIs
  <1>3. Parted(c, Nat, q, pos)
    BY <1>1, PartsIs
  <1>4. target \in 1 .. n /\ target - 1 \in 0 .. n /\ target \in 0 .. n /\ (target - 1) + 1 = target
    BY <1>2
  <1>5. Begins(q[target])
    <2>1. EndsOf(c, pos)[target] = b[target - 1] /\ EndsOf(c, pos)[target + 1] = b[target]
      BY <1>2, <1>4
    <2>2. q[target] = SegDataSeg(Filler(ovl) \o Cut(Payload(c), b[target - 1], b[target]), b[target - 1] - ovl, o)
      BY <1>4, <2>1 DEF Parts, EndsOf
    <2>. HIDE DEF b
    <2>3. b[target - 1] \in 0 .. c.len /\ b[target] \in b[target - 1] .. c.len
      <3>1. b[target - 1] \in 0 .. c.len /\ b[target] \in 0 .. c.len /\ b[target - 1] < b[target]
        BY <1>2, <1>4 DEF Bounds
      <3>. QED BY <1>2, <3>1
    <2>. QED BY <2>2, <2>3, FillerBegins
  <1>6. q \in DataSeq(Nat) /\ Len(q) = n /\ Tiling(q, n, Payload(c), Id(n), b)
    BY <1>3 DEF Parted
  <1>7. ASSUME NEW i \in 1 .. n PROVE Len(q[i].data) \in Nat /\ Len(q[i].data) <= c.len + ovl
    <2>. HIDE DEF b, n
    <2>0. c.len \in Nat /\ ovl \in Nat
      BY <1>2
    <2>. DEFINE L == Len(q[i].data)
                x == q[i].off
    <2>1. TileAt(Nat, q, n, Payload(c), Id(n), b, i)
      <3>1. Payload(c) \in Bytes
        BY ContextFacts DEF Bytes
      <3>. QED BY <1>6, <3>1, TileFacts
    <2>2. Id(n)[i] = i /\ Len(Payload(c)) = c.len
      BY ContextFacts DEF Id
    <2>3. /\ Len(q[i].data) \in Nat /\ q[i].off \in Int /\ q[i].off + Len(q[i].data) = b[i] /\ b[i] \in Nat /\ b[i] <= c.len
          /\ i > 1 => b[i - 2] \in Nat /\ b[i - 2] < q[i].off
      BY <2>1, <2>2 DEF TileAt
    <2>30. L \in Nat /\ x \in Int /\ x + L = b[i] /\ b[i] \in Nat /\ b[i] <= c.len
      BY <2>3
    <2>4. CASE i > 1
      <3>1. 0 < x
        BY <2>3, <2>4
      <3>. HIDE DEF L, x
      <3>2. L <= c.len + ovl
        BY <2>0, <2>30, <3>1
      <3>. QED BY <2>30, <3>2 DEF L
    <2>5. CASE ~(i > 1)
      <3>1. i = 1 /\ i - 1 = 0
        BY <2>5
      <3>2. EndsOf(c, pos)[i] = b[i - 1] /\ EndsOf(c, pos)[i + 1] = b[i] /\ b[i - 1] = 0
        <4>1. 0 \in 0 .. n /\ 1 \in 0 .. n /\ 0 + 1 = 1
          BY <1>2 DEF n
        <4>. QED BY <1>2, <3>1, <4>1 DEF Bounds
      <3>3. q[i] = IF i = target
                   THEN SegDataSeg(Filler(ovl) \o Cut(Payload(c), b[i - 1], b[i]), b[i - 1] - ovl, o)
                   ELSE SegDataSeg(Cut(Payload(c), b[i - 1], b[i]), b[i - 1], o)
        <4>1. i \in 1 .. Len(pos) + 1
          BY DEF n
        <4>. QED BY <3>2, <4>1 DEF Parts, EndsOf
      <3>. HIDE DEF q
      <3>4. x = 0 - ovl \/ x = 0
        BY <3>2, <3>3 DEF SegDataSeg, Segment
      <3>. HIDE DEF L, x
      <3>5. L <= c.len + ovl
        BY <2>0, <2>30, <3>4
      <3>. QED BY <2>30, <3>5 DEF L
    <2>. QED BY <2>4, <2>5
  <1>. QED BY <1>2, <1>4, <1>5, <1>6, <1>7
(* The plan that starts from nothing. *)
LEMMA PlannedAlone ==
    ASSUME NEW S, NEW s \in Seq(S) PROVE Planned(SegTakeOverData(EmptyPlan), s).segs = s
  <1>. DEFINE kept == Chosen(<<>>, DOMAIN <<>> \ DataAt(<<>>))
  <1>1. kept = <<>>
    <2>. DEFINE I == DOMAIN <<>> \ DataAt(<<>>)
    <2>1. I = {} /\ <<>> \in Seq(S) /\ I \in SUBSET (1 .. Len(<<>>))
      OBVIOUS
    <2>. HIDE DEF I
    <2>2. Chosen(<<>>, I) \in Seq(S) /\ Len(Chosen(<<>>, I)) = Cardinality(I)
      BY <2>1, ChosenFacts
    <2>3. Cardinality(I) = 0
      BY <2>1, FS_EmptySet
    <2>4. Chosen(<<>>, I) = <<>>
      BY <2>2, <2>3
    <2>. QED BY <2>4 DEF I
  <1>2. EmptyPlan \in [segs: Seq(S), dgrams: Seq(S), drop: BOOLEAN] /\ EmptyPlan.segs = <<>>
    BY DEF EmptyPlan
  <1>. DEFINE q == SegTakeOverData(EmptyPlan)
              t == q.segs \o s
              plan == [q EXCEPT !.segs = t, !.drop = TRUE]
  <1>3. q \in [segs: Seq(S), dgrams: Seq(S), drop: BOOLEAN] /\ q.segs = <<>>
    <2>1. q = [EmptyPlan EXCEPT !.segs = kept]
      BY <1>2 DEF SegTakeOverData
    <2>. HIDE DEF kept, q
    <2>. QED BY <1>1, <1>2, <2>1
  <1>4. Planned(q, s) = plan
    BY DEF Planned
  <1>. HIDE DEF q
  <1>5. t = s
    BY <1>3
  <1>. HIDE DEF t
  <1>6. plan \in [segs: Seq(S), dgrams: Seq(S), drop: BOOLEAN] /\ plan.segs = t
    BY <1>3, <1>5
  <1>. HIDE DEF plan
  <1>. QED BY <1>4, <1>5, <1>6 DEF q
LEMMA OverlapsAt ==
    ASSUME NEW S, NEW plan, plan.segs \in Seq(S), NEW i \in 1 .. Len(plan.segs), Begins(plan.segs[i])
    PROVE  Overlaps(plan)
  <1>1. i \in DOMAIN plan.segs
    OBVIOUS
  <1>2. 1 \in DOMAIN plan.segs[i].data /\ plan.segs[i].data[1] = Fill
    BY DEF Begins, Bytes
  <1>. QED BY <1>1, <1>2 DEF Overlaps
LEMMA MultiOverlaps ==
    ASSUME NEW c \in Context, NEW o \in WrittenOp, o.pos # <<>>, PositionsOrdered(o), Long(o, c), o.ovl > 0, "seq" \in c.caps
    PROVE  /\ Overlaps(Multisplit(o, c, EmptyPlan))
           /\ o.ovl < o.pos[1].off => Overlaps(Multidisorder(o, c, EmptyPlan))
  <1>. DEFINE pos == SegResolveMultiPos(c, Specs(o))
              first == o.pos[1].off
              p == EmptyPlan
  <1>1. o.ovl \in Nat \ {0} /\ c.len \in Nat /\ c.len + o.ovl <= MaxSeg /\ MaxSeg \in Nat
    BY WrittenFacts, ContextFacts DEF Long
  <1>2. Positions(c, pos) /\ pos # <<>> /\ pos[1] \in Nat /\ first <= pos[1] /\ first \in 1 .. c.len - 1
    BY PositionsResolved DEF Long
  <1>. HIDE DEF pos
  <1>3. MultiOverlap(c, o, pos, FALSE) = o.ovl
    BY <1>1 DEF MultiOverlap
  <1>4. ASSUME NEW target \in {1, 2}, target = 2 => o.ovl < pos[1], NEW q, q = Parts(c, o, pos, o.ovl, target)
        PROVE  /\ ~TooLong(q) /\ q \in DataSeq(Nat) /\ Len(q) \in Nat /\ target \in 1 .. Len(q) /\ Begins(q[target])
    <2>1. /\ q \in DataSeq(Nat) /\ Len(q) \in Nat /\ target \in 1 .. Len(q) /\ Begins(q[target])
          /\ \A i \in 1 .. Len(q) : Len(q[i].data) \in Nat /\ Len(q[i].data) <= c.len + o.ovl
      BY <1>1, <1>2, <1>4, FilledPart
    <2>2. \A i \in DOMAIN q : i \in 1 .. Len(q)
      BY <2>1 DEF DataSeq
    <2>3. \A i \in DOMAIN q : ~(Len(q[i].data) > MaxSeg)
      BY <1>1, <2>1, <2>2
    <2>. QED BY <2>1, <2>3 DEF TooLong
  <1>5. Overlaps(Multisplit(o, c, p))
    <2>. DEFINE q == Parts(c, o, pos, o.ovl, 1)
                plan == Planned(SegTakeOverData(p), q)
    <2>1. ~TooLong(q) /\ q \in DataSeq(Nat) /\ 1 \in 1 .. Len(q) /\ Begins(q[1])
      BY <1>4
    <2>2. Multisplit(o, c, p) = plan
      <3>1. Multisplit(o, c, p) = IF pos = <<>> \/ TooLong(q) THEN p ELSE plan
        BY <1>3, Zenon DEF Multisplit, pos
      <3>. QED BY <1>2, <2>1, <3>1
    <2>. HIDE DEF q
    <2>3. plan.segs = q
      BY <2>1, PlannedAlone DEF DataSeq
    <2>. HIDE DEF plan
    <2>. QED BY <2>1, <2>2, <2>3, OverlapsAt DEF DataSeq
  <1>6. ASSUME o.ovl < first PROVE Overlaps(Multidisorder(o, c, p))
    <2>. DEFINE q == Parts(c, o, pos, o.ovl, 2)
                r == Reverse(q)
                plan == Planned(SegTakeOverData(p), r)
    <2>0. o.ovl < pos[1]
      BY <1>1, <1>2, <1>6
    <2>1. ~TooLong(q) /\ q \in DataSeq(Nat) /\ Len(q) \in Nat /\ 2 \in 1 .. Len(q) /\ Begins(q[2])
      BY <1>4, <2>0
    <2>2. Multidisorder(o, c, p) = plan
      <3>1. MultiOverlap(c, o, pos, TRUE) = o.ovl
        BY <1>1, <1>2, <2>0 DEF MultiOverlap
      <3>2. Multidisorder(o, c, p) = IF pos = <<>> \/ TooLong(q) THEN p ELSE plan
        BY <3>1, Zenon DEF Multidisorder, pos
      <3>. QED BY <1>2, <2>1, <3>2
    <2>. HIDE DEF q
    <2>3. r \in DataSeq(Nat) /\ Len(r) = Len(q) /\ \A i \in 1 .. Len(q) : r[i] = q[(Len(q) - i) + 1]
      <3>1. r = [i \in 1 .. Len(q) |-> q[(Len(q) - i) + 1]]
        BY DEF Reverse
      <3>2. \A i \in 1 .. Len(q) : q[(Len(q) - i) + 1] \in DataUnits(Nat)
        BY <2>1 DEF DataSeq
      <3>. HIDE DEF r
      <3>. QED BY <2>1, <3>1, <3>2 DEF DataSeq
    <2>4. Len(q) - 1 \in 1 .. Len(q) /\ (Len(q) - (Len(q) - 1)) + 1 = 2
      BY <2>1
    <2>5. Begins(r[Len(q) - 1])
      BY <2>1, <2>3, <2>4
    <2>. HIDE DEF r
    <2>6. plan.segs = r
      BY <2>3, PlannedAlone DEF DataSeq
    <2>. HIDE DEF plan
    <2>7. PICK k \in 1 .. Len(r) : Begins(r[k])
      BY <2>3, <2>4, <2>5
    <2>. QED BY <2>2, <2>3, <2>6, <2>7, OverlapsAt DEF DataSeq
  <1>. QED BY <1>5, <1>6
(* One unit among others. *)
HasUnit(s, r) == \E i \in 1 .. Len(s) : s[i] = r
LEMMA AmongIs ==
    ASSUME NEW S, NEW a \in Seq(S), NEW r \in S, NEW b \in Seq(S), NEW d \in Seq(S), NEW s, s = a \o <<r>> \o b \o d
    PROVE  s \in Seq(S) /\ HasUnit(s, r)
  <1>. DEFINE x == a \o <<r>>
              y == x \o b
  <1>1. x \in Seq(S) /\ Len(x) = Len(a) + 1 /\ Len(a) \in Nat /\ x[Len(a) + 1] = r
    OBVIOUS
  <1>. HIDE DEF x
  <1>2. y \in Seq(S) /\ Len(y) = Len(x) + Len(b) /\ Len(b) \in Nat /\ \A i \in 1 .. Len(x) : y[i] = x[i]
    BY <1>1
  <1>. HIDE DEF y
  <1>3. s \in Seq(S) /\ Len(s) = Len(y) + Len(d) /\ Len(d) \in Nat /\ \A i \in 1 .. Len(y) : s[i] = y[i]
    <2>1. s = y \o d
      BY DEF y, x
    <2>. QED BY <1>2, <2>1
  <1>4. Len(a) + 1 \in 1 .. Len(x) /\ Len(a) + 1 \in 1 .. Len(y) /\ Len(a) + 1 \in 1 .. Len(s)
    BY <1>1, <1>2, <1>3
  <1>5. s[Len(a) + 1] = r
    BY <1>1, <1>2, <1>3, <1>4
  <1>. QED BY <1>3, <1>4, <1>5 DEF HasUnit
(* The parts of a fake split, one of which begins with a filler. *)
Faked(f, g, r, v, A, B, D, E) == When(A, <<f>>) \o <<r>> \o When(B, <<f>>) \o When(D, <<g, v>> \o When(E, <<g>>))
LEMMA FakedSeq ==
    ASSUME NEW S, NEW f \in S, NEW g \in S, NEW r \in S, NEW v \in S,
           NEW A \in BOOLEAN, NEW B \in BOOLEAN, NEW D \in BOOLEAN, NEW E \in BOOLEAN
    PROVE  Faked(f, g, r, v, A, B, D, E) \in Seq(S) /\ HasUnit(Faked(f, g, r, v, A, B, D, E), r)
  <1>1. <<f>> \in Seq(S) /\ <<g>> \in Seq(S) /\ <<>> \in Seq(S) /\ <<g, v>> \in Seq(S)
    OBVIOUS
  <1>2. \A X \in BOOLEAN : When(X, <<f>>) \in Seq(S) /\ When(X, <<g>>) \in Seq(S)
    BY <1>1, Zenon DEF When
  <1>3. <<g, v>> \o When(E, <<g>>) \in Seq(S)
    <2>1. When(E, <<g>>) \in Seq(S)
      BY <1>2
    <2>. QED BY <1>1, <2>1, Cat, Zenon
  <1>4. When(D, <<g, v>> \o When(E, <<g>>)) \in Seq(S)
    BY <1>1, <1>3, Zenon DEF When
  <1>5. ASSUME NEW a \in Seq(S), NEW b \in Seq(S), NEW d \in Seq(S), NEW u, u = a \o <<r>> \o b \o d
        PROVE  u \in Seq(S) /\ HasUnit(u, r)
    BY <1>5, AmongIs
  <1>. QED BY <1>2, <1>4, <1>5, Zenon DEF Faked
LEMMA FakedOverlaps ==
    ASSUME NEW f, NEW g, NEW r, NEW v, NEW A \in BOOLEAN, NEW B \in BOOLEAN, NEW D \in BOOLEAN, NEW E \in BOOLEAN, Begins(r)
    PROVE  Overlaps(Planned(SegTakeOverData(EmptyPlan), Faked(f, g, r, v, A, B, D, E)))
  <1>. DEFINE S == {f, g, r, v}
              t == Faked(f, g, r, v, A, B, D, E)
              plan == Planned(SegTakeOverData(EmptyPlan), t)
  <1>1. f \in S /\ g \in S /\ r \in S /\ v \in S
    OBVIOUS
  <1>. HIDE DEF S
  <1>3. t \in Seq(S) /\ HasUnit(t, r)
    BY <1>1, FakedSeq, Zenon
  <1>. HIDE DEF t
  <1>4. plan.segs = t
    BY <1>3, PlannedAlone
  <1>5. PICK i \in 1 .. Len(t) : t[i] = r
    BY <1>3 DEF HasUnit
  <1>. HIDE DEF plan
  <1>6. Overlaps(plan)
    BY <1>3, <1>4, <1>5, OverlapsAt
  <1>. QED BY <1>6 DEF plan, t
LEMMA FakedsplitOverlaps ==
    ASSUME NEW c \in Context, NEW o \in WrittenOp, o.pos # <<>>, PositionsOrdered(o), Long(o, c), o.ovl > 0, "seq" \in c.caps
    PROVE  Overlaps(Fakedsplit(o, c, EmptyPlan))
  <1>. DEFINE at == SegResolveSinglePos(c, Specs(o))
              order == SegSplitOrder(o, at # 0)
              pos == IF at = 0 THEN c.len ELSE at
              ovl == IF o.ovl < 0 \/ pos >= c.len \/ "seq" \notin c.caps THEN 0 ELSE o.ovl
              f1 == SegFakeSeg(Decoys(pos), 0, o)
              f2 == SegFakeSeg(Decoys(c.len - pos), pos, o)
              r1 == SegDataSeg(Filler(ovl) \o Cut(Payload(c), 0, pos), -ovl, o)
              r2 == SegDataSeg(Cut(Payload(c), pos, c.len), pos, o)
              kept == SegTakeOverData(EmptyPlan)
              s == When(order = 0, <<f1>>) \o <<r1>> \o When(order <= 1, <<f1>>)
                           \o When(pos < c.len, <<f2, r2>> \o When(order <= 2, <<f2>>))
              long == ovl > 0 /\ ovl + pos > MaxSeg
  <1>1. Fakedsplit(o, c, EmptyPlan) = IF c.len > MaxFake THEN EmptyPlan ELSE IF long THEN InjEnsureDataSeg(c, kept) ELSE Planned(kept, s)
    BY DEF Fakedsplit
  <1>2. c.len \in Nat /\ o.ovl \in Int /\ o.ovl > 0 /\ c.len <= MaxFake /\ c.len + o.ovl <= MaxSeg /\ MaxSeg \in Nat /\ MaxFake \in Nat
    BY WrittenFacts, ContextFacts DEF Long
  <1>3. at = o.pos[1].off /\ at \in 1 .. c.len - 1
    BY PositionsResolved DEF Long
  <1>. HIDE DEF at, order
  <1>4. pos = at /\ pos \in 1 .. c.len - 1
    BY <1>2, <1>3
  <1>. HIDE DEF pos
  <1>5. ovl = o.ovl /\ ovl \in Nat \ {0}
    BY <1>2, <1>4
  <1>. HIDE DEF ovl
  <1>6. Begins(r1)
    <2>1. 0 \in 0 .. c.len /\ pos \in 0 .. c.len
      BY <1>2, <1>4
    <2>. QED BY <1>5, <2>1, FillerBegins
  <1>7. ~long
    BY <1>2, <1>4, <1>5
  <1>. HIDE DEF f1, f2, r1, r2, long
  <1>8. (order = 0) \in BOOLEAN /\ (order <= 1) \in BOOLEAN /\ (order <= 2) \in BOOLEAN /\ (pos < c.len) \in BOOLEAN
    OBVIOUS
  <1>9. Overlaps(Planned(kept, s))
    BY <1>6, <1>8, FakedOverlaps, ZenonT(40) DEF Faked
  <1>10. ~(c.len > MaxFake)
    BY <1>2
  <1>. HIDE DEF s, kept
  <1>. QED BY <1>1, <1>7, <1>9, <1>10
LEMMA FakeddisorderOverlaps ==
    ASSUME NEW c \in Context, NEW o \in WrittenOp, o.pos # <<>>, PositionsOrdered(o), Long(o, c), o.ovl > 0, "seq" \in c.caps,
           o.ovl < o.pos[1].off
    PROVE  Overlaps(Fakeddisorder(o, c, EmptyPlan))
  <1>. DEFINE pos == SegResolveSinglePos(c, Specs(o))
              order == SegSplitOrder(o, pos # 0)
              ovl == IF o.ovl <= 0 \/ "seq" \notin c.caps \/ pos = 0 \/ o.ovl >= pos THEN 0 ELSE o.ovl
              f1 == SegFakeSeg(Decoys(pos), 0, o)
              f2 == SegFakeSeg(Decoys(c.len - pos), pos, o)
              r1 == SegDataSeg(Cut(Payload(c), 0, pos), 0, o)
              r2 == SegDataSeg(Filler(ovl) \o Cut(Payload(c), pos, c.len), pos - ovl, o)
              kept == SegTakeOverData(EmptyPlan)
              s == When(order = 0, <<f2>>) \o <<r2>> \o When(order <= 1, <<f2>>)
                           \o When(pos > 0, <<f1, r1>> \o When(order <= 2, <<f1>>))
              long == ovl > 0 /\ ovl + c.len - pos > MaxSeg
  <1>1. Fakeddisorder(o, c, EmptyPlan) = IF c.len > MaxFake THEN EmptyPlan ELSE IF long THEN InjEnsureDataSeg(c, kept) ELSE Planned(kept, s)
    BY DEF Fakeddisorder
  <1>2. c.len \in Nat /\ o.ovl \in Int /\ o.ovl > 0 /\ c.len <= MaxFake /\ c.len + o.ovl <= MaxSeg /\ MaxSeg \in Nat /\ MaxFake \in Nat
    BY WrittenFacts, ContextFacts DEF Long
  <1>3. pos = o.pos[1].off /\ pos \in 1 .. c.len - 1
    BY PositionsResolved DEF Long
  <1>. HIDE DEF pos, order
  <1>5. ovl = o.ovl /\ ovl \in Nat \ {0}
    BY <1>2, <1>3
  <1>. HIDE DEF ovl
  <1>6. Begins(r2)
    <2>1. pos \in 0 .. c.len /\ c.len \in pos .. c.len
      BY <1>2, <1>3
    <2>. QED BY <1>5, <2>1, FillerBegins
  <1>7. ~long
    <2>1. pos \in Nat /\ pos >= 1
      BY <1>2, <1>3
    <2>. QED BY <1>2, <1>5, <2>1
  <1>. HIDE DEF f1, f2, r1, r2, long
  <1>8. (order = 0) \in BOOLEAN /\ (order <= 1) \in BOOLEAN /\ (order <= 2) \in BOOLEAN /\ (pos > 0) \in BOOLEAN
    OBVIOUS
  <1>9. Overlaps(Planned(kept, s))
    BY <1>6, <1>8, FakedOverlaps, ZenonT(40) DEF Faked
  <1>10. ~(c.len > MaxFake)
    BY <1>2
  <1>. HIDE DEF s, kept
  <1>. QED BY <1>1, <1>7, <1>9, <1>10
(* An operation that the loader accepts keeps its overlap. *)
LEMMA AcceptedOverlaps ==
    ASSUME NEW c \in Context, NEW o \in WrittenOp, SeqovlAccepted(o), o.op \in SplitOps, o.ovl > 0, o.pos # <<>>,
           PositionsOrdered(o), Long(o, c), "seq" \in c.caps
    PROVE  Overlaps(Apply(o, c, EmptyPlan))
  <1>1. o.op \in {"multidisorder", "fakeddisorder"} => o.ovl < o.pos[1].off
    <2>1. o.pos[1].m = "abs" /\ o.pos[1].off \in 1 .. c.len - 1 /\ c.len \in Nat /\ o.ovl \in Int
      BY PositionsResolved, ContextFacts, WrittenFacts DEF Long
    <2>2. o.op \in LimitedBySplit => ~(o.ovl >= o.pos[1].off)
      <3>1. o.pos[1].off > 0
        BY <2>1
      <3>. QED BY <2>1, <3>1, Zenon DEF SeqovlAccepted
    <2>. QED BY <2>1, <2>2 DEF LimitedBySplit
  <1>2. CASE o.op = "multisplit"
    BY <1>2, MultiOverlaps, Zenon DEF Apply
  <1>3. CASE o.op = "multidisorder"
    BY <1>1, <1>3, MultiOverlaps, Zenon DEF Apply
  <1>4. CASE o.op = "fakedsplit"
    BY <1>4, FakedsplitOverlaps, Zenon DEF Apply
  <1>5. CASE o.op = "fakeddisorder"
    BY <1>1, <1>5, FakeddisorderOverlaps, Zenon DEF Apply
  <1>. QED BY <1>2, <1>3, <1>4, <1>5 DEF SplitOps

-----------------------------------------------------------------------------
(* What an operation reads of the capabilities.                            *)
(* Contexts that differ in no more than the capabilities. *)
SameBut(c, d) ==
    /\ c.udp = d.udp /\ c.v6 = d.v6 /\ c.syn = d.syn /\ c.http = d.http /\ c.tls = d.tls /\ c.known = d.known
    /\ c.len = d.len /\ c.host = d.host /\ c.hostLen = d.hostLen /\ c.sld = d.sld /\ c.sldLen = d.sldLen /\ c.sni = d.sni
LEMMA OtherCaps ==
    ASSUME NEW c \in Context, NEW caps
    PROVE  SameBut(c, [c EXCEPT !.caps = caps]) /\ [c EXCEPT !.caps = caps].caps = caps
  <1>1. c \in [udp: BOOLEAN, v6: BOOLEAN, syn: BOOLEAN, fin: BOOLEAN, http: BOOLEAN, tls: BOOLEAN, known: BOOLEAN,
            len: Nat, host: Nat, hostLen: Nat, sld: Nat, sldLen: Nat, sni: Nat, caps: SUBSET STRING, seen: 0 .. 255]
    BY DEF Context
  <1>. QED BY <1>1 DEF SameBut
LEMMA PlacesFixed ==
    ASSUME NEW c, NEW d, SameBut(c, d)
    PROVE  /\ \A s : FindSplitPos(c, s) = FindSplitPos(d, s)
           /\ Payload(c) = Payload(d) /\ (Carries(c) <=> Carries(d)) /\ Units(c) = Units(d)
           /\ \A o, n : FragPos(o, c, n) = FragPos(o, d, n)
  <1>1. \A m : Anchored(c, m) = Anchored(d, m) /\ Anchor(c, m) = Anchor(d, m)
    BY Zenon DEF SameBut, Anchored, Anchor
  <1>2. \A s : FindSplitPos(c, s) = FindSplitPos(d, s)
    BY <1>1, Zenon DEF SameBut, FindSplitPos
  <1>3. Payload(c) = Payload(d) /\ (Carries(c) <=> Carries(d)) /\ Units(c) = Units(d)
    BY Zenon DEF SameBut, Payload, Carries, Units
  <1>4. \A o, n : FragPos(o, c, n) = FragPos(o, d, n)
    BY Zenon DEF SameBut, FragPos
  <1>. QED BY <1>2, <1>3, <1>4
LEMMA CutsFixed ==
    ASSUME NEW c, NEW d, SameBut(c, d)
    PROVE  /\ \A specs : SegResolveMultiPos(c, specs) = SegResolveMultiPos(d, specs)
           /\ \A specs : SegResolveSinglePos(c, specs) = SegResolveSinglePos(d, specs)
           /\ \A o, pos, ovl, target : Parts(c, o, pos, ovl, target) = Parts(d, o, pos, ovl, target)
           /\ HostPos(c) = HostPos(d) /\ \A o, pos : MidHost(o, c, pos) = MidHost(o, d, pos)
  <1>1. c.len = d.len /\ Payload(c) = Payload(d) /\ \A s : FindSplitPos(c, s) = FindSplitPos(d, s)
    BY PlacesFixed DEF SameBut
  <1>2. ASSUME NEW specs PROVE SegResolveMultiPos(c, specs) = SegResolveMultiPos(d, specs)
    <2>. DEFINE In(k) == {FindSplitPos(k, specs[i]) : i \in DOMAIN specs}
    <2>1. In(c) = In(d)
      BY <1>1
    <2>. QED BY <1>1, <2>1, Zenon DEF SegResolveMultiPos
  <1>3. ASSUME NEW specs PROVE SegResolveSinglePos(c, specs) = SegResolveSinglePos(d, specs)
    <2>. DEFINE Found(k, abs) == {i \in DOMAIN specs: (specs[i].m = "abs") = abs /\ FindSplitPos(k, specs[i]) # 0}
    <2>1. Found(c, FALSE) = Found(d, FALSE) /\ Found(c, TRUE) = Found(d, TRUE)
      BY <1>1
    <2>. QED BY <1>1, <2>1, Zenon DEF SegResolveSinglePos
  <1>4. \A o, pos, ovl, target : Parts(c, o, pos, ovl, target) = Parts(d, o, pos, ovl, target)
    BY <1>1 DEF Parts
  <1>5. HostPos(c) = HostPos(d) /\ \A o, pos : MidHost(o, c, pos) = MidHost(o, d, pos)
    <2>1. HostPos(c) = HostPos(d)
      BY <1>2 DEF HostPos
    <2>. QED BY <1>1, <2>1 DEF MidHost
  <1>. QED BY <1>2, <1>3, <1>4, <1>5
LEMMA UnitsFixed ==
    ASSUME NEW c, NEW d, SameBut(c, d)
    PROVE  /\ \A u : EnsureData(u, c) = EnsureData(u, d)
           /\ \A p : InjEnsureDataSeg(c, p) = InjEnsureDataSeg(d, p) /\ InjEnsureDataDgram(c, p) = InjEnsureDataDgram(d, p)
                     /\ Ensured(c, p) = Ensured(d, p)
           /\ \A p, m : Marked(c, p, m) = Marked(d, p, m)
           /\ \A s : CarriesWindow(c, s) <=> CarriesWindow(d, s)
  <1>1. c.len = d.len /\ c.udp = d.udp /\ c.syn = d.syn /\ Payload(c) = Payload(d) /\ Units(c) = Units(d)
    BY PlacesFixed DEF SameBut
  <1>2. \A u : EnsureData(u, c) = EnsureData(u, d)
    BY <1>1, Zenon DEF EnsureData
  <1>3. \A p : InjEnsureDataSeg(c, p) = InjEnsureDataSeg(d, p) /\ InjEnsureDataDgram(c, p) = InjEnsureDataDgram(d, p)
    BY <1>2, Zenon DEF InjEnsureDataSeg, InjEnsureDataDgram
  <1>4. \A p : Ensured(c, p) = Ensured(d, p)
    BY <1>1, <1>3, Zenon DEF Ensured
  <1>5. \A p, m : Marked(c, p, m) = Marked(d, p, m)
    <2>. SUFFICES ASSUME NEW p, NEW m PROVE Marked(c, p, m) = Marked(d, p, m)
      OBVIOUS
    <2>. DEFINE u(k) == Ensured(k, p)[Units(k)]
                v(k) == [i \in DOMAIN u(k) |-> IF IsData(u(k)[i]) THEN [u(k)[i] EXCEPT !.fool = @ \cup {m}] ELSE u(k)[i]]
    <2>1. \A k : Marked(k, p, m) = [Ensured(k, p) EXCEPT ![Units(k)] = v(k)]
      BY DEF Marked
    <2>2. Ensured(c, p) = Ensured(d, p) /\ u(c) = u(d)
      BY <1>1, <1>4
    <2>. HIDE DEF u
    <2>3. v(c) = v(d)
      BY <2>2
    <2>. HIDE DEF v
    <2>. QED BY <1>1, <2>1, <2>2, <2>3, Zenon
  <1>6. \A s : CarriesWindow(c, s) <=> CarriesWindow(d, s)
    BY <1>1, Zenon DEF CarriesWindow
  <1>. QED BY <1>2, <1>3, <1>4, <1>5, <1>6
LEMMA OverlapFixed ==
    ASSUME NEW c, NEW d, SameBut(c, d), NEW o, o.ovl <= 0 \/ ("seq" \in c.caps /\ "seq" \in d.caps), NEW p
    PROVE  /\ Multisplit(o, c, p) = Multisplit(o, d, p) /\ Multidisorder(o, c, p) = Multidisorder(o, d, p)
           /\ o.ovl \in Int => Fakedsplit(o, c, p) = Fakedsplit(o, d, p)
           /\ Fakeddisorder(o, c, p) = Fakeddisorder(o, d, p)
  <1>1. /\ c.len = d.len /\ Payload(c) = Payload(d)
        /\ \A specs : SegResolveMultiPos(c, specs) = SegResolveMultiPos(d, specs)
        /\ \A specs : SegResolveSinglePos(c, specs) = SegResolveSinglePos(d, specs)
        /\ \A pos, ovl, target : Parts(c, o, pos, ovl, target) = Parts(d, o, pos, ovl, target)
        /\ \A q : InjEnsureDataSeg(c, q) = InjEnsureDataSeg(d, q)
    BY PlacesFixed, CutsFixed, UnitsFixed DEF SameBut
  <1>2. \A pos, dis : MultiOverlap(c, o, pos, dis) = MultiOverlap(d, o, pos, dis)
    BY Zenon DEF MultiOverlap
  <1>. DEFINE pos(k) == SegResolveMultiPos(k, Specs(o))
              segs(k, dis, target) == Parts(k, o, pos(k), MultiOverlap(k, o, pos(k), dis), target)
  <1>3. pos(c) = pos(d) /\ \A dis, target : segs(c, dis, target) = segs(d, dis, target)
    <2>1. pos(c) = pos(d)
      BY <1>1
    <2>. HIDE DEF pos
    <2>. QED BY <1>1, <1>2, <2>1
  <1>4. Multisplit(o, c, p) = Multisplit(o, d, p) /\ Multidisorder(o, c, p) = Multidisorder(o, d, p)
    <2>1. \A k : Multisplit(o, k, p) = IF pos(k) = <<>> \/ TooLong(segs(k, FALSE, 1)) THEN p
                                      ELSE Planned(SegTakeOverData(p), segs(k, FALSE, 1))
      BY Zenon DEF Multisplit
    <2>2. \A k : Multidisorder(o, k, p) = IF pos(k) = <<>> \/ TooLong(segs(k, TRUE, 2)) THEN p
                                         ELSE Planned(SegTakeOverData(p), Reverse(segs(k, TRUE, 2)))
      BY Zenon DEF Multidisorder
    <2>. HIDE DEF pos, segs
    <2>. QED BY <1>3, <2>1, <2>2
  <1>5. ASSUME o.ovl \in Int PROVE Fakedsplit(o, c, p) = Fakedsplit(o, d, p)
    <2>. DEFINE at(k) == SegResolveSinglePos(k, Specs(o))
                from(k) == IF at(k) = 0 THEN k.len ELSE at(k)
                ovl(k) == IF o.ovl < 0 \/ from(k) >= k.len \/ "seq" \notin k.caps THEN 0 ELSE o.ovl
    <2>1. at(c) = at(d) /\ from(c) = from(d)
      BY <1>1
    <2>2. ovl(c) = ovl(d)
      <3>1. CASE "seq" \in c.caps /\ "seq" \in d.caps
        BY <1>1, <2>1, <3>1, Zenon
      <3>2. CASE o.ovl <= 0
        <4>1. o.ovl < 0 \/ o.ovl = 0
          BY <1>5, <3>2
        <4>. QED BY <4>1, Zenon
      <3>. QED BY <3>1, <3>2
    <2>. QED BY <1>1, <2>1, <2>2, ZenonT(40) DEF Fakedsplit
  <1>6. Fakeddisorder(o, c, p) = Fakeddisorder(o, d, p)
    <2>. DEFINE at(k) == SegResolveSinglePos(k, Specs(o))
                ovl(k) == IF o.ovl <= 0 \/ "seq" \notin k.caps \/ at(k) = 0 \/ o.ovl >= at(k) THEN 0 ELSE o.ovl
    <2>1. at(c) = at(d)
      BY <1>1
    <2>2. ovl(c) = ovl(d)
      BY <2>1, Zenon
    <2>. QED BY <1>1, <2>1, <2>2, ZenonT(40) DEF Fakeddisorder
  <1>. QED BY <1>4, <1>5, <1>6
LEMMA HostfakesplitFixed ==
    ASSUME NEW c, NEW d, SameBut(c, d), NEW o, NEW p
    PROVE  Hostfakesplit(o, c, p) = Hostfakesplit(o, d, p)
  <1>. DEFINE pos(k) == HostPos(k)
              parts(k) == Parts(k, o, <<pos(k)[1]>> \o MidHost(o, k, pos(k)) \o <<pos(k)[2]>>, 0, 1)
  <1>1. pos(c) = pos(d) /\ parts(c) = parts(d)
    BY CutsFixed
  <1>2. \A k : Hostfakesplit(o, k, p) =
            IF Len(pos(k)) # 2 THEN p
            ELSE Planned(SegTakeOverData(p),
                     <<Head(parts(k))>> \o <<SegFakeSeg(Decoys(pos(k)[2] - pos(k)[1]), pos(k)[1], o)>> \o
                     (IF o.order = 1 THEN <<Last(parts(k))>> \o SubSeq(parts(k), 2, Len(parts(k)) - 1)
                      ELSE SubSeq(parts(k), 2, Len(parts(k)) - 1)
                           \o <<SegFakeSeg(Decoys(pos(k)[2] - pos(k)[1]), pos(k)[1], o)>> \o <<Last(parts(k))>>))
    BY Zenon DEF Hostfakesplit
  <1>. HIDE DEF pos, parts
  <1>. QED BY <1>1, <1>2, Zenon
LEMMA DecoysFixed ==
    ASSUME NEW c, NEW d, SameBut(c, d), NEW o, NEW p
    PROVE  Fake(o, c, p) = Fake(o, d, p) /\ Rst(o, c, p) = Rst(o, d, p) /\ Syndata(o, c, p) = Syndata(o, d, p)
           /\ Block(o, c, p) = Block(o, d, p)
  <1>1. /\ c.len = d.len /\ c.udp = d.udp /\ c.syn = d.syn /\ c.known = d.known /\ (Carries(c) <=> Carries(d))
        /\ \A q : InjEnsureDataSeg(c, q) = InjEnsureDataSeg(d, q)
        /\ \A q : InjEnsureDataDgram(c, q) = InjEnsureDataDgram(d, q)
    BY PlacesFixed, UnitsFixed, Zenon DEF SameBut
  <1>2. Fake(o, c, p) = Fake(o, d, p)
    BY <1>1, Zenon DEF Fake
  <1>3. Rst(o, c, p) = Rst(o, d, p)
    BY <1>1, Zenon DEF Rst
  <1>4. Syndata(o, c, p) = Syndata(o, d, p)
    BY <1>1, Zenon DEF Syndata
  <1>5. Block(o, c, p) = Block(o, d, p)
    BY Zenon DEF Block
  <1>. QED BY <1>2, <1>3, <1>4, <1>5
LEMMA FragmentsFixed ==
    ASSUME NEW c, NEW d, SameBut(c, d), NEW o, NEW p
    PROVE  Ipfrag1(o, c, p) = Ipfrag1(o, d, p) /\ Ipfrag2(o, c, p) = Ipfrag2(o, d, p) /\ Ipv6Ext(o, c, p) = Ipv6Ext(o, d, p)
  <1>1. /\ c.len = d.len /\ c.udp = d.udp /\ c.v6 = d.v6 /\ (Carries(c) <=> Carries(d)) /\ Units(c) = Units(d)
        /\ Ensured(c, p) = Ensured(d, p)
    BY PlacesFixed, UnitsFixed, Zenon DEF SameBut
  <1>2. \A n : FragPos(o, c, n) = FragPos(o, d, n)
    BY PlacesFixed
  <1>3. \A mark : Marked(c, p, mark) = Marked(d, p, mark)
    <2>1. \A q, mark : Marked(c, q, mark) = Marked(d, q, mark)
      BY UnitsFixed
    <2>. QED BY <2>1
  <1>4. Ipv6Ext(o, c, p) = Ipv6Ext(o, d, p)
    BY <1>1, <1>3, Zenon DEF Ipv6Ext
  <1>5. Ipfrag1(o, c, p) = Ipfrag1(o, d, p)
    <2>. DEFINE v(k) == [i \in DOMAIN p.dgrams |-> IF p.dgrams[i].kind = "fake"
                             THEN [p.dgrams[i] EXCEPT !.frag = FragPos(o, k, Len(p.dgrams[i].data))] ELSE p.dgrams[i]]
    <2>1. \A k : Ipfrag1(o, k, p) = IF ~Carries(k) THEN p ELSE IF k.v6 THEN Marked(k, p, "ipfrag1")
                                    ELSE IF k.udp THEN [p EXCEPT !.dgrams = v(k)] ELSE p
      BY DEF Ipfrag1
    <2>2. v(c) = v(d)
      BY <1>2
    <2>. HIDE DEF v
    <2>. QED BY <1>1, <1>3, <2>1, <2>2, Zenon
  <1>6. Ipfrag2(o, c, p) = Ipfrag2(o, d, p)
    <2>. DEFINE u(k) == Ensured(k, p)[Units(k)]
                at(k, i) == FragPos(o, k, IF k.udp THEN Len(u(k)[i].data) ELSE k.len)
                v(k) == [i \in DOMAIN u(k) |-> IF IsData(u(k)[i]) THEN [u(k)[i] EXCEPT !.frag = at(k, i)] ELSE u(k)[i]]
    <2>1. \A k : Ipfrag2(o, k, p) = IF ~Carries(k) \/ (k.udp /\ k.v6) THEN p ELSE [Ensured(k, p) EXCEPT ![Units(k)] = v(k)]
      BY DEF Ipfrag2
    <2>2. u(c) = u(d)
      BY <1>1
    <2>3. ASSUME NEW i PROVE at(c, i) = at(d, i)
      BY <1>1, <1>2, <2>2, Zenon
    <2>. HIDE DEF u, at
    <2>4. v(c) = v(d)
      BY <2>2, <2>3
    <2>. HIDE DEF v
    <2>. QED BY <1>1, <2>1, <2>4, Zenon
  <1>. QED BY <1>4, <1>5, <1>6
LEMMA HeadersFixed ==
    ASSUME NEW c, NEW d, SameBut(c, d), NEW o, NEW p
    PROVE  Udplen(o, c, p) = Udplen(o, d, p) /\ Wssize(o, c, p) = Wssize(o, d, p) /\ IpId(o, c, p) = IpId(o, d, p)
  <1>1. c.len = d.len /\ c.udp = d.udp /\ InjEnsureDataSeg(c, p) = InjEnsureDataSeg(d, p)
    BY UnitsFixed, Zenon DEF SameBut
  <1>2. IpId(o, c, p) = IpId(o, d, p)
    BY Zenon DEF IpId
  <1>3. Udplen(o, c, p) = Udplen(o, d, p)
    <2>. DEFINE data(k) == UDPLenResize(k.len, IF o.inc = 0 THEN 2 ELSE o.inc)
                to(k) == FragPos(o, k, Len(data(k)))
                sized(k, s) == [s EXCEPT !.data = data(k), !.frag = IF @ > 0 THEN to(k) ELSE @]
                at == FirstData(p.dgrams)
    <2>1. \A k : Udplen(o, k, p) = IF ~k.udp \/ k.len = 0 THEN p
                                   ELSE IF at = 0 THEN [p EXCEPT !.dgrams = Append(@, SegDataSeg(data(k), 0, Plain))]
                                   ELSE [p EXCEPT !.dgrams[at] = sized(k, @)]
      BY Zenon DEF Udplen
    <2>2. data(c) = data(d)
      BY <1>1, Zenon
    <2>. HIDE DEF data
    <2>4. \A n : FragPos(o, c, n) = FragPos(o, d, n)
      BY PlacesFixed
    <2>5. to(c) = to(d)
      BY <2>2, <2>4, Zenon
    <2>. HIDE DEF to
    <2>3. sized(c, p.dgrams[at]) = sized(d, p.dgrams[at])
      BY <2>2, <2>5, Zenon
    <2>. HIDE DEF sized
    <2>. QED BY <1>1, <2>1, <2>2, <2>3, Zenon
  <1>4. Wssize(o, c, p) = Wssize(o, d, p)
    <2>. DEFINE v(k, q) == [i \in DOMAIN q.segs |-> IF CarriesWindow(k, q.segs[i]) THEN [q.segs[i] EXCEPT !.win = o.win] ELSE q.segs[i]]
                none(k) == \A i \in DOMAIN p.segs : ~CarriesWindow(k, p.segs[i])
    <2>1. \A k : Wssize(o, k, p) = IF o.win <= 0 \/ ~o.active THEN p
                                   ELSE IF none(k) /\ k.len > 0
                                        THEN [InjEnsureDataSeg(k, p) EXCEPT !.segs = v(k, InjEnsureDataSeg(k, p))]
                                        ELSE [p EXCEPT !.segs = v(k, p)]
      BY DEF Wssize
    <2>2. \A s : CarriesWindow(c, s) <=> CarriesWindow(d, s)
      BY UnitsFixed, Zenon
    <2>3. none(c) <=> none(d)
      BY <2>2, Zenon
    <2>4. ASSUME NEW q PROVE v(c, q) = v(d, q)
      BY <2>2
    <2>5. v(c, p) = v(d, p) /\ v(c, InjEnsureDataSeg(c, p)) = v(d, InjEnsureDataSeg(d, p))
      BY <1>1, <2>4
    <2>. HIDE DEF v, none
    <2>. QED BY <1>1, <2>1, <2>3, <2>5, Zenon
  <1>. QED BY <1>2, <1>3, <1>4
LEMMA ApplyFixed ==
    ASSUME NEW c, NEW d, SameBut(c, d), NEW o, NEW p, o.op \in Names \ {"tamper", "tlsrec"}, o.ovl \in Int,
           o.op \in SplitOps => o.ovl <= 0 \/ ("seq" \in c.caps /\ "seq" \in d.caps)
    PROVE  Apply(o, c, p) = Apply(o, d, p)
  <1>1. CASE o.op \in SplitOps
    <2>1. /\ Multisplit(o, c, p) = Multisplit(o, d, p) /\ Multidisorder(o, c, p) = Multidisorder(o, d, p)
          /\ Fakedsplit(o, c, p) = Fakedsplit(o, d, p) /\ Fakeddisorder(o, c, p) = Fakeddisorder(o, d, p)
      BY <1>1, OverlapFixed
    <2>2. o.op = "multisplit" \/ o.op = "multidisorder" \/ o.op = "fakedsplit" \/ o.op = "fakeddisorder"
      BY <1>1, Zenon DEF SplitOps
    <2>. QED BY <2>1, <2>2 DEF Apply
  <1>2. CASE o.op \notin SplitOps
    <2>1. Hostfakesplit(o, c, p) = Hostfakesplit(o, d, p)
      BY HostfakesplitFixed
    <2>3. /\ Fake(o, c, p) = Fake(o, d, p) /\ Rst(o, c, p) = Rst(o, d, p) /\ Syndata(o, c, p) = Syndata(o, d, p)
          /\ Block(o, c, p) = Block(o, d, p)
      BY DecoysFixed
    <2>4. Ipfrag1(o, c, p) = Ipfrag1(o, d, p) /\ Ipfrag2(o, c, p) = Ipfrag2(o, d, p) /\ Ipv6Ext(o, c, p) = Ipv6Ext(o, d, p)
      BY FragmentsFixed
    <2>5. Udplen(o, c, p) = Udplen(o, d, p) /\ Wssize(o, c, p) = Wssize(o, d, p) /\ IpId(o, c, p) = IpId(o, d, p)
      BY HeadersFixed
    <2>2. o.op \in {"hostfakesplit", "fake", "fakeknown", "rst", "syndata", "block", "ipfrag1", "ipfrag2", "hopbyhop",
                    "udplen", "wssize", "ip_id"}
      BY <1>2 DEF Names, SplitOps
    <2>. QED BY <2>1, <2>2, <2>3, <2>4, <2>5 DEF Apply
  <1>. QED BY <1>1, <1>2

-----------------------------------------------------------------------------
(* What is compiled, as it was written.                                    *)
LEMMA PortsHold == LoadInv => PortsMeanTheirRanges
  <1>. SUFFICES ASSUME LoadInv, cstage = "profile" PROVE PortsMeanTheirRanges
    BY DEF PortsMeanTheirRanges
  <1>. DEFINE w == text.window
              new == MergePorts(w)
              edges == UNION {{r.lo - 1, r.lo, r.hi, r.hi + 1} : r \in Range(w)}
              Has(s, q) == \E r \in Range(s) : r.lo <= q /\ q <= r.hi
  <1>1. w \in RangeSeq /\ \A i \in 1 .. Len(w) : PortAccepted(w[i])
    <2>1. text \in Texts /\ \A i \in 1 .. Len(w) : PortAccepted(w[i])
      BY DEF LoadInv, FilesInv, PlaceInv
    <2>2. text \in [window: Seq(PortRange), profiles: Seq(Section)]
      BY <2>1, StrategyLoadAssumption
    <2>. QED BY <2>1, <2>2 DEF RangeSeq
  <1>2. \A i \in 1 .. Len(w) : w[i].lo <= w[i].hi
    BY <1>1 DEF PortAccepted
  <1>3. Apart(new) /\ \A q \in Int : Covers(new, Len(new), q) <=> Covers(w, Len(w), q)
    BY <1>1, <1>2, MergePortsIs
  <1>4. ASSUME NEW s \in RangeSeq, NEW q PROVE Has(s, q) <=> Covers(s, Len(s), q)
    <2>1. DOMAIN s = 1 .. Len(s)
      BY <1>4, RangeFacts
    <2>. QED BY <2>1 DEF Range, Covers
  <1>5. \A q \in edges : q \in Int
    <2>1. DOMAIN w = 1 .. Len(w) /\ \A i \in 1 .. Len(w) : w[i].lo \in Int /\ w[i].hi \in Int
      BY <1>1, RangeFacts
    <2>. QED BY <2>1 DEF Range
  <1>6. new \in RangeSeq
    BY <1>3 DEF Apart
  <1>. HIDE DEF w, new
  <1>7. \A q \in edges : Has(new, q) <=> Has(w, q)
    <2>. SUFFICES ASSUME NEW q \in edges PROVE Has(new, q) <=> Has(w, q)
      OBVIOUS
    <2>1. q \in Int
      BY <1>5
    <2>. HIDE DEF edges, Has
    <2>. QED BY <1>1, <1>3, <1>4, <1>6, <2>1
  <1>8. \A i \in 1 .. Len(new) - 1 : new[i].hi + 1 < new[i + 1].lo
    BY <1>3 DEF Apart
  <1>. QED BY <1>7, <1>8, Zenon DEF PortsMeanTheirRanges, w, new
LEMMA OverlapChecked == ASSUME NEW o, NEW s, OpAccepted(o, s) PROVE SeqovlAccepted(o)
  BY Zenon DEF OpAccepted
(* An operation that was compiled. *)
LEMMA CompiledOp ==
    ASSUME LoadInv, NEW p \in DOMAIN compiled, NEW i \in DOMAIN compiled[p].ops
    PROVE  LET o == compiled[p].ops[i]
           IN  /\ o \in WrittenOp /\ SeqovlAccepted(o)
               /\ o \in UNION {Range(compiled[q].ops) : q \in DOMAIN compiled}
  <1>. DEFINE o == compiled[p].ops[i]
  <1>1. compiled \in Seq(Compilation) /\ p \in 1 .. Len(compiled) /\ p \in 1 .. Len(text.profiles) /\ text \in Texts
    BY DEF LoadInv, FilesInv, PlaceInv
  <1>2. compiled[p] \in Compilation
    BY <1>1
  <1>3. compiled[p].ops \in Seq(WrittenOp)
    BY <1>2 DEF Compilation
  <1>4. i \in 1 .. Len(compiled[p].ops) /\ o \in WrittenOp
    BY <1>3
  <1>5. SeqovlAccepted(o)
    <2>1. PICK j \in 1 .. Len(text.profiles[p].ops) :
              o = text.profiles[p].ops[j] /\ OpAccepted(text.profiles[p].ops[j], text.profiles[p])
      BY <1>1, <1>4 DEF LoadInv, OpsInv
    <2>2. SeqovlAccepted(text.profiles[p].ops[j])
      BY <2>1, OverlapChecked
    <2>. QED BY <2>1, <2>2, Zenon
  <1>6. o \in UNION {Range(compiled[q].ops) : q \in DOMAIN compiled}
    BY DEF Range
  <1>. QED BY <1>4, <1>5, <1>6
LEMMA OverlapsHold == LoadInv => AcceptedOverlapRuns
  <1>. SUFFICES ASSUME LoadInv, NEW p \in DOMAIN compiled, NEW i \in DOMAIN compiled[p].ops, NEW c \in Trials, NEW o,
                       o = compiled[p].ops[i], o.op \in SplitOps, o.ovl > 0, o.pos # <<>>, PositionsOrdered(o), Long(o, c),
                       Requires(o) \cup {"seq"} \subseteq c.caps
                PROVE  Overlaps(Apply(o, c, EmptyPlan))
    BY Zenon DEF AcceptedOverlapRuns
  <1>1. o \in WrittenOp /\ SeqovlAccepted(o)
    BY CompiledOp
  <1>2. c \in Context /\ "seq" \in c.caps
    BY StrategyLoadAssumption
  <1>. QED BY <1>1, <1>2, AcceptedOverlaps
LEMMA UnnamedHold == LoadInv => UnnamedOpsRunWhole
  <1>. SUFFICES ASSUME LoadInv, NEW p \in DOMAIN compiled, NEW i \in DOMAIN compiled[p].ops, NEW c \in Trials,
                       compiled[p].ops[i].op \notin Unsupported(c.caps) \cup ParamDegradations(c.caps) \cup {"tamper", "tlsrec"}
                PROVE  Apply(compiled[p].ops[i], c, EmptyPlan) = Apply(compiled[p].ops[i], [c EXCEPT !.caps = AllCaps], EmptyPlan)
    BY Zenon DEF UnnamedOpsRunWhole
  <1>. DEFINE o == compiled[p].ops[i]
              d == [c EXCEPT !.caps = AllCaps]
              all == UNION {Range(compiled[q].ops) : q \in DOMAIN compiled}
  <1>1. o \in WrittenOp /\ o \in all
    BY CompiledOp
  <1>2. o.op \in Names /\ o.ovl \in Int
    BY <1>1, WrittenFacts
  <1>3. c \in Context
    BY StrategyLoadAssumption
  <1>4. SameBut(c, d) /\ d.caps = AllCaps
    BY <1>3, OtherCaps
  <1>5. "seq" \in AllCaps
    BY DEF AllCaps
  <1>6. ~(o.op \notin Unsupported(c.caps) /\ o.ovl > 0 /\ "seq" \notin c.caps)
    BY <1>1, Zenon DEF ParamDegradations
  <1>7. o.ovl <= 0 \/ "seq" \in c.caps
    BY <1>2, <1>6
  <1>. HIDE DEF d
  <1>8. Apply(o, c, EmptyPlan) = Apply(o, d, EmptyPlan)
    BY <1>2, <1>4, <1>5, <1>7, ApplyFixed
  <1>. QED BY <1>8 DEF d
(* What is compiled means what the strategy file and its lists say, for any       *)
(* files, any edits while the compiler reads and any packet: a filter matches the *)
(* entries of its lists (lists.LoadHostFile, dropEmptyLists, Set), the merged     *)
(* ports are those of the ranges (ParsePortSet), an overlap that seqovl accepts   *)
(* is not cancelled on the wire, and an operation that neither Unsupported nor    *)
(* ParamDegradations names plans as with every capability (load.go, desync).      *)
THEOREM CompiledAsWrittenHolds == StrategyLoadSpec => []CompiledAsWritten
  <1>1. LoadInv => CompiledAsWritten
    BY LoadTypes, ListsHold, SteadyHolds, PortsHold, OverlapsHold, UnnamedHold, Zenon DEF CompiledAsWritten
  <1>. QED BY <1>1, LoadInvHolds, PTL
===============================================================================
