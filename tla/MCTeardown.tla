----------------------------- MODULE MCTeardown -----------------------------
(* Whoever loads pf rules takes them out again. One run explores the three  *)
(* levels at which that is decided; `part' picks the divert transport       *)
(* (DivertLifecycle), the proxy transport (ProxyLifecycle) or the processes *)
(* and the guard around them (PfLifecycle, in com.apple wildcard mode).     *)
EXTENDS DivertLifecycle, ProxyLifecycle, PfLifecycle

CONSTANTS c1, c2, r1, k1, k2, d1, g1, t1, t2, t3

TwoClosers == {c1, c2}
OneReloader == {r1}
TwoClients == {k1, k2}
OneDaemon == {d1}
OneGuard == {g1}
ThreeTokens == {t1, t2, t3}

VARIABLE part

teardownVars == <<part, divertVars, proxyVars, vars>>

TeardownInit ==
    part \in {"divert", "proxy", "pf"} /\ DivertInit /\ ProxyInit /\ Init

\* A finished transport stays as it is; any other end of one is a deadlock.
Finished ==
    \/ part = "divert" /\ \A a \in Actor : dpc[a] = "returned"
    \/ part = "proxy" /\ \A a \in ProxyActor : ppc[1][a] = "returned"

TeardownNext ==
    \/ part = "divert" /\ DivertNext /\ UNCHANGED <<part, proxyVars, vars>>
    \/ part = "proxy" /\ ProxyNext /\ UNCHANGED <<part, divertVars, vars>>
    \/ part = "pf" /\ Next /\ UNCHANGED <<part, divertVars, proxyVars>>
    \/ Finished /\ UNCHANGED teardownVars

\* The fairness of the three modules, for the part that runs.
TeardownFairness ==
    /\ WF_divertVars(part = "divert" /\ Start)
    /\ \A c \in Closer : WF_divertVars(part = "divert" /\ Closing(c))
    /\ \A r \in Reloader : WF_divertVars(part = "divert" /\ Reload(r))
    /\ WF_proxyVars(part = "proxy" /\ ProxyStart(1))
    /\ WF_proxyVars(part = "proxy" /\ CloseProxy(1, "session"))
    /\ \A a \in Stopper : WF_proxyVars(part = "proxy" /\ ProxyClosing(1, a))
    /\ \A r \in ProxyReloader : WF_proxyVars(part = "proxy" /\ ReloadRedirects(r))
    /\ \A c \in Conn :
          /\ WF_proxyVars(part = "proxy" /\ HandleConn(c))
          /\ WF_proxyVars(part = "proxy" /\ Watchdog(c))
          /\ WF_proxyVars(part = "proxy" /\ ContextDone(c))
    /\ \A g \in Guard : WF_vars(part = "pf" /\ GuardStep(g))
    /\ \A d \in Daemon :
          /\ WF_vars(part = "pf" /\ StartupStep(d))
          /\ WF_vars(part = "pf" /\ SetupStep(d))
          /\ WF_vars(part = "pf" /\ TeardownStep(d))
          /\ WF_vars(part = "pf" /\ CleanupStep(d))

TeardownSpec == TeardownInit /\ [][TeardownNext]_teardownVars /\ TeardownFairness

-----------------------------------------------------------------------------
(* Both transports end: Start after a cancellation or a Close, every Close, and *)
(* the relays, which silence or a shutdown ends; no accepted connection waits   *)
(* for a slot.                                                                  *)
TransportsEnd ==
    /\ StopCompletes /\ CloseCompletes
    /\ CancelReturns /\ NobodyQueues
    /\ SilentRelayEnds /\ ShutdownEndsRelays

(* PfLifecycle: the guard takes out the rules and the recorded reference of a   *)
(* dead daemon.                                                                 *)
OrphansUndone == OrphanRulesFlushed /\ OrphanReferenceReleased
=============================================================================
