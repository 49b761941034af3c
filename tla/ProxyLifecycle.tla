--------------------------- MODULE ProxyLifecycle ---------------------------
(***************************************************************************)
(* The proxy transports of one daemon (internal/transport/proxy/proxy.go): *)
(* session (cmd/zapretd/daemon.go) runs one after the other, each in a     *)
(* goroutine that sets up a listener and the pf rules that redirect to it, *)
(* accepts and relays. Other goroutines (a drift repair, `use`, `stop`)    *)
(* close and reload the one that runs.                                     *)
(*                                                                         *)
(* A transport remembers what to undo on a stack; whoever closes it takes  *)
(* the stack and works it off from the top. The transports share one       *)
(* netcfg.PF and its anchor. The anchor statements of pf.conf stay         *)
(* (KeepAnchorStatements); PfLifecycle is about them.                      *)
(***************************************************************************)
EXTENDS Integers, FiniteSets

CONSTANTS
    Last,           \* the transports are 1 .. Last
    Conn,           \* client connections
    MaxConns,       \* relays a transport runs at once
    ProxyReloader,  \* goroutines that reload a strategy, once each
    ProxyFails      \* TRUE: a setup or an undo step may fail, accept may break

ASSUME ProxyAssumption ==
    /\ Last \in Nat \ {0}
    /\ MaxConns \in Nat \ {0}
    /\ ProxyFails \in BOOLEAN

Gen  == 1 .. Last
Step == {"listener", "devpf", "ref", "rules"}
Stopper == {"session", "other"}
ProxyActor == {"start"} \cup Stopper

VARIABLES
    tr,         \* the fields of each Transport
    dev,        \* its listening socket and /dev/pf descriptor
    pf,         \* the shared PF: the reference is held, the anchor has rules
    ended,      \* transports whose context is cancelled
    undoing,    \* per transport and actor: undo steps taken and not yet run
    ppc,        \* per transport and actor
    reload,     \* per reloader: where it is and the transport it reloads
    conn,       \* per client connection: its transport and how far it is
    stuck,      \* history: undo steps that failed
    overtaken   \* history: transports closed during setup, or for which a
                \* Reload loaded rules that none of their undo steps covers

proxyVars == <<tr, dev, pf, ended, undoing, ppc, reload, conn, stuck, overtaken>>
history == <<stuck, overtaken>>

ProxySetupPc  == {"listen", "lookup", "enable", "load", "ready"}
ProxyStartPc  == {"idle", "serve", "unwind", "returned"} \cup ProxySetupPc
ProxyCloserPc == {"idle", "wait", "unwind", "returned"}
RelayAt  == {"lookup", "ask", "dial", "first", "splice", "busy"}

Transports == [closed: BOOLEAN, lns: BOOLEAN, wired: BOOLEAN, undo: SUBSET Step]
Devices    == [open: BOOLEAN, devpf: BOOLEAN]

PcOK ==
    /\ ppc \in [Gen -> [ProxyActor -> ProxyStartPc \cup ProxyCloserPc]]
    /\ \A g \in Gen : /\ ppc[g]["start"] \in ProxyStartPc
                      /\ \A a \in Stopper : ppc[g][a] \in ProxyCloserPc

ProxyTypeOK ==
    /\ tr \in [Gen -> Transports] /\ dev \in [Gen -> Devices]
    /\ pf \in [ref: BOOLEAN, rules: BOOLEAN]
    /\ ended \subseteq Gen
    /\ undoing \in [Gen -> [ProxyActor -> SUBSET Step]]
    /\ PcOK
    /\ reload \in [ProxyReloader -> [at: {"idle", "load", "returned"}, gen: Gen]]
    /\ conn \in [Conn -> [gen: Gen, at: {"absent", "queued", "gone"} \cup RelayAt]]
    /\ stuck \subseteq Step /\ overtaken \subseteq Gen

ProxyInit ==
    /\ tr = [g \in Gen |-> [closed |-> FALSE, lns |-> FALSE, wired |-> FALSE, undo |-> {}]]
    /\ dev = [g \in Gen |-> [open |-> FALSE, devpf |-> FALSE]]
    /\ pf = [ref |-> FALSE, rules |-> FALSE]
    /\ ended = {} /\ stuck = {} /\ overtaken = {}
    /\ undoing = [g \in Gen |-> [a \in ProxyActor |-> {}]]
    /\ ppc = [g \in Gen |-> [a \in ProxyActor |-> "idle"]]
    /\ reload = [r \in ProxyReloader |-> [at |-> "idle", gen |-> 1]]
    /\ conn = [c \in Conn |-> [gen |-> 1, at |-> "absent"]]

ProxyGoto(g, a, label) == ppc' = [ppc EXCEPT ![g][a] = label]

-----------------------------------------------------------------------------
(* setup: every step pushes its inverse, none looks at closed again.       *)

\* session has built transport g and calls Start in a goroutine.
Built(g) == \A h \in Gen : h < g => ppc[h]["session"] = "returned"

BeginProxy(g) ==
    /\ Built(g) /\ ppc[g]["start"] = "idle"
    /\ ProxyGoto(g, "start", IF tr[g].closed THEN "returned" ELSE "listen")
    /\ UNCHANGED <<tr, dev, pf, ended, undoing, reload, conn, history>>

PortTaken == \E g \in Gen : dev[g].open

Listen(g) ==
    /\ ppc[g]["start"] = "listen" /\ ~PortTaken
    /\ dev' = [dev EXCEPT ![g].open = TRUE]
    /\ tr' = [tr EXCEPT ![g].lns = TRUE, ![g].undo = @ \cup {"listener"}]
    /\ ProxyGoto(g, "start", "lookup")
    /\ UNCHANGED <<pf, ended, undoing, reload, conn, history>>

\* With the descriptor open, wirePF sets t.pf before it does anything to pf.
OpenLookup(g) ==
    /\ ppc[g]["start"] = "lookup"
    /\ dev' = [dev EXCEPT ![g].devpf = TRUE]
    /\ tr' = [tr EXCEPT ![g].wired = TRUE, ![g].undo = @ \cup {"devpf"}]
    /\ ProxyGoto(g, "start", "enable")
    /\ UNCHANGED <<pf, ended, undoing, reload, conn, history>>

\* The PF keeps the reference it has, or takes one.
HoldPF(g) ==
    /\ ppc[g]["start"] = "enable"
    /\ pf' = [pf EXCEPT !.ref = TRUE]
    /\ tr' = [tr EXCEPT ![g].undo = @ \cup {"ref"}]
    /\ ProxyGoto(g, "start", "load")
    /\ UNCHANGED <<dev, ended, undoing, reload, conn, history>>

LoadRedirects(g) ==
    /\ ppc[g]["start"] = "load"
    /\ pf' = [pf EXCEPT !.rules = TRUE]
    /\ tr' = [tr EXCEPT ![g].undo = @ \cup {"rules"}]
    /\ ProxyGoto(g, "start", "ready")
    /\ UNCHANGED <<dev, ended, undoing, reload, conn, history>>

\* An actor takes the stack to undo it.
TakeUndo(g, a) ==
    /\ undoing' = [undoing EXCEPT ![g][a] = tr[g].undo]
    /\ tr' = [tr EXCEPT ![g].undo = {}]
    /\ ProxyGoto(g, a, "unwind")

\* A step of setup failed: Start undoes what came up.
AbortProxy(g) ==
    /\ \/ ProxyFails /\ ppc[g]["start"] \in ProxySetupPc \ {"ready"}
       \/ ppc[g]["start"] = "listen" /\ PortTaken
    /\ TakeUndo(g, "start")
    /\ UNCHANGED <<dev, pf, ended, reload, conn, history>>

-----------------------------------------------------------------------------
(* serve: the accept loops, and the goroutine that closes the listeners    *)
(* when the context is cancelled. Start returns without undoing anything.  *)

ServeProxy(g) ==
    /\ ppc[g]["start"] = "ready"
    /\ ProxyGoto(g, "start", IF tr[g].lns THEN "serve" ELSE "returned")
    /\ UNCHANGED <<tr, dev, pf, ended, undoing, reload, conn, history>>

\* Mutant of CloseListeners: it waits for Close.
CloseListenersClosed(g) ==
    /\ ppc[g]["start"] = "serve" /\ tr[g].closed /\ tr[g].lns /\ dev[g].open
    /\ dev' = [dev EXCEPT ![g].open = FALSE]
    /\ UNCHANGED <<tr, pf, ended, undoing, ppc, reload, conn, history>>

CloseListeners(g) ==
    /\ ppc[g]["start"] = "serve" /\ g \in ended /\ tr[g].lns /\ dev[g].open
    /\ dev' = [dev EXCEPT ![g].open = FALSE]
    /\ UNCHANGED <<tr, pf, ended, undoing, ppc, reload, conn, history>>

\* Mutant of AcceptEnds: Start ends in Close.
AcceptEndsInClose(g) ==
    /\ ppc[g]["start"] = "serve" /\ ~dev[g].open
    /\ ProxyGoto(g, "start", "wait")
    /\ UNCHANGED <<tr, dev, pf, ended, undoing, reload, conn, history>>

AcceptEnds(g) ==
    /\ ppc[g]["start"] = "serve" /\ ~dev[g].open
    /\ ProxyGoto(g, "start", "returned")
    /\ UNCHANGED <<tr, dev, pf, ended, undoing, reload, conn, history>>

\* An accept error that is not transient ends serve and closes the listeners.
AcceptFails(g) ==
    /\ ProxyFails /\ ppc[g]["start"] = "serve" /\ dev[g].open
    /\ dev' = [dev EXCEPT ![g].open = FALSE]
    /\ ProxyGoto(g, "start", "returned")
    /\ UNCHANGED <<tr, pf, ended, undoing, reload, conn, history>>

-----------------------------------------------------------------------------
(* Close and unwind.                                                       *)

\* session closes what has returned; others close whatever runs.
CloseProxy(g, a) ==
    /\ Built(g) /\ ppc[g][a] = "idle"
    /\ a = "session" => ppc[g]["start"] = "returned"
    /\ IF tr[g].closed
       THEN ProxyGoto(g, a, "returned") /\ UNCHANGED <<tr, dev, overtaken>>
       ELSE /\ tr' = [tr EXCEPT ![g].closed = TRUE, ![g].lns = FALSE]
            /\ dev' = [dev EXCEPT ![g].open = @ /\ ~tr[g].lns]
            /\ overtaken' = IF ppc[g]["start"] \in ProxySetupPc THEN overtaken \cup {g} ELSE overtaken
            /\ ProxyGoto(g, a, "wait")
    /\ UNCHANGED <<pf, ended, undoing, reload, conn, stuck>>

\* Every relay is done, or closeWait is over.
ProxyWaited(g, a) ==
    /\ ppc[g][a] = "wait"
    /\ TakeUndo(g, a)
    /\ UNCHANGED <<dev, pf, ended, reload, conn, history>>

\* The undo steps that setup pushes after s.
Above(s) == CASE s = "listener" -> {"devpf", "ref", "rules"}
              [] s = "devpf" -> {"ref", "rules"}
              [] s = "ref" -> {"rules"}
              [] s = "rules" -> {}

\* Mutant of Top: the stack is worked off from the bottom.
Bottom(g, a, s) == s \in undoing[g][a] /\ \A t \in undoing[g][a] \ {s} : t \in Above(s)

Top(g, a, s) == s \in undoing[g][a] /\ Above(s) \cap undoing[g][a] = {}

Undo(g, a) ==
    /\ ppc[g][a] = "unwind"
    /\ \E s \in Step :
         /\ Top(g, a, s)
         /\ undoing' = [undoing EXCEPT ![g][a] = @ \ {s}]
         /\ pf' = [ref |-> pf.ref /\ s # "ref", rules |-> pf.rules /\ s # "rules"]
         /\ dev' = [dev EXCEPT ![g] = [open |-> @.open /\ s # "listener",
                                       devpf |-> @.devpf /\ s # "devpf"]]
    /\ UNCHANGED <<tr, ended, ppc, reload, conn, history>>

\* Mutant of UndoFails: the first failure ends the unwinding.
UndoStopsAtFailure(g, a) ==
    /\ ProxyFails /\ ppc[g][a] = "unwind"
    /\ \E s \in {"ref", "rules"} : Top(g, a, s) /\ stuck' = stuck \cup {s}
    /\ undoing' = [undoing EXCEPT ![g][a] = {}]
    /\ UNCHANGED <<tr, dev, pf, ended, ppc, reload, conn, overtaken>>

\* pfctl fails: the error is kept and the next step is undone all the same.
UndoFails(g, a) ==
    /\ ProxyFails /\ ppc[g][a] = "unwind"
    /\ \E s \in {"ref", "rules"} :
         /\ Top(g, a, s)
         /\ undoing' = [undoing EXCEPT ![g][a] = @ \ {s}]
         /\ stuck' = stuck \cup {s}
    /\ UNCHANGED <<tr, dev, pf, ended, ppc, reload, conn, overtaken>>

Unwound(g, a) ==
    /\ ppc[g][a] = "unwind" /\ undoing[g][a] = {}
    /\ ProxyGoto(g, a, "returned")
    /\ UNCHANGED <<tr, dev, pf, ended, undoing, reload, conn, history>>

Unwind(g, a) == Undo(g, a) \/ UndoFails(g, a) \/ Unwound(g, a)

-----------------------------------------------------------------------------
(* The other goroutines of the daemon.                                     *)

CancelProxy(g) ==
    /\ Built(g) /\ g \notin ended
    /\ ended' = ended \cup {g}
    /\ UNCHANGED <<tr, dev, pf, undoing, ppc, reload, conn, history>>

\* Reload swaps the strategy. It goes on to the rules when the window changed
\* and t.mu showed a wired, started transport that was not closed.
ReloadSwap(r) ==
    /\ reload[r].at = "idle"
    /\ \E g \in Gen, changed \in BOOLEAN :
         /\ Built(g)
         /\ reload' = [reload EXCEPT ![r] =
              [at |-> IF changed /\ tr[g].wired /\ ~tr[g].closed THEN "load" ELSE "returned",
               gen |-> g]]
    /\ UNCHANGED <<tr, dev, pf, ended, undoing, ppc, conn, history>>

\* The stack of g, or an actor working it off, will undo s.
Pending(g, s) == s \in tr[g].undo \/ \E a \in ProxyActor : s \in undoing[g][a]

ReloadRedirects(r) ==
    /\ reload[r].at = "load"
    /\ reload' = [reload EXCEPT ![r].at = "returned"]
    /\ \/ /\ pf' = [pf EXCEPT !.rules = TRUE]
          /\ overtaken' = IF Pending(reload[r].gen, "rules") THEN overtaken
                          ELSE overtaken \cup {reload[r].gen}
       \/ ProxyFails /\ UNCHANGED <<pf, overtaken>>
    /\ UNCHANGED <<tr, dev, ended, undoing, ppc, conn, stuck>>

-----------------------------------------------------------------------------
(* The relays. A connection waits in the backlog of a listener, is accepted *)
(* into the pool or refused, and goes through handle.                       *)

At(c, place) == conn[c].at = place

Move(c, place) ==
    /\ conn' = [conn EXCEPT ![c].at = place]
    /\ UNCHANGED <<tr, dev, pf, ended, undoing, ppc, reload, history>>

Relays(g) == {c \in Conn : conn[c].gen = g /\ conn[c].at \in RelayAt}

Connect(c) ==
    /\ At(c, "absent")
    /\ \E g \in Gen : dev[g].open /\ conn' = [conn EXCEPT ![c] = [gen |-> g, at |-> "queued"]]
    /\ UNCHANGED <<tr, dev, pf, ended, undoing, ppc, reload, history>>

\* The backlog dies with the listening socket.
Reset(c) == At(c, "queued") /\ ~dev[conn[c].gen].open /\ Move(c, "gone")

\* Mutant of Accept: the accept loop waits for a slot.
AcceptWaits(c) ==
    /\ At(c, "queued") /\ dev[conn[c].gen].open /\ ppc[conn[c].gen]["start"] = "serve"
    /\ Cardinality(Relays(conn[c].gen)) < MaxConns
    /\ Move(c, "lookup")

Accept(c) ==
    /\ At(c, "queued") /\ dev[conn[c].gen].open /\ ppc[conn[c].gen]["start"] = "serve"
    /\ Move(c, IF Cardinality(Relays(conn[c].gen)) < MaxConns THEN "lookup" ELSE "gone")

\* OrigDst reads the descriptor under its lock and asks pf after it.
ReadDescriptor(c) ==
    At(c, "lookup") /\ Move(c, IF dev[conn[c].gen].devpf THEN "ask" ELSE "gone")

\* pf knows the destination, or the connection is not a redirected one (or
\* one to the listener itself), or the descriptor was closed meanwhile.
AskPF(c) ==
    /\ At(c, "ask")
    /\ \/ dev[conn[c].gen].devpf /\ Move(c, "dial")
       \/ Move(c, "gone")

Dial(c) == At(c, "dial") /\ (Move(c, "first") \/ Move(c, "gone"))

\* The first payload is planned and written, or its wait ran out; the plan
\* blocks the connection, the client is gone or a write fails.
FirstPayload(c) == At(c, "first") /\ (Move(c, "busy") \/ Move(c, "gone"))

\* splice: bytes moved since the watchdog looked last.
Traffic(c) == At(c, "splice") /\ Move(c, "busy")

PeersEnd(c) == conn[c].at \in {"splice", "busy"} /\ Move(c, "gone")

\* Mutant of Watchdog: the splice of a silent pair goes on.
WatchdogCounts(c) == At(c, "busy") /\ Move(c, "splice")

\* A tick after traffic restarts the idle period; one after a whole idle
\* period ends the relay.
Watchdog(c) ==
    \/ At(c, "busy") /\ Move(c, "splice")
    \/ At(c, "splice") /\ Move(c, "gone")

\* Mutant of ServeOver: only the context that Start was given.
ServeCancelled(g) == g \in ended

\* The context of serve ends with the one Start was given and with serve.
ServeOver(g) == g \in ended \/ ppc[g]["start"] = "returned"

ContextDone(c) ==
    /\ conn[c].at \in {"splice", "busy"} /\ ServeOver(conn[c].gen)
    /\ Move(c, "gone")

HandleConn(c) ==
    \/ Reset(c) \/ Accept(c)
    \/ ReadDescriptor(c) \/ AskPF(c) \/ Dial(c) \/ FirstPayload(c)

-----------------------------------------------------------------------------
ProxyStart(g) ==
    \/ BeginProxy(g) \/ Listen(g) \/ OpenLookup(g) \/ HoldPF(g) \/ LoadRedirects(g)
    \/ AbortProxy(g) \/ ServeProxy(g) \/ CloseListeners(g) \/ AcceptEnds(g)
    \/ Unwind(g, "start")

ProxyClosing(g, a) == ProxyWaited(g, a) \/ Unwind(g, a)

ProxyNext ==
    \/ \E g \in Gen :
         \/ ProxyStart(g) \/ AcceptFails(g) \/ CancelProxy(g)
         \/ \E a \in Stopper : CloseProxy(g, a) \/ ProxyClosing(g, a)
    \/ \E r \in ProxyReloader : ReloadSwap(r) \/ ReloadRedirects(r)
    \/ \E c \in Conn :
         \/ Connect(c) \/ HandleConn(c) \/ Watchdog(c) \/ ContextDone(c)
         \/ Traffic(c) \/ PeersEnd(c)

ProxySpec == ProxyInit /\ [][ProxyNext]_proxyVars

(* Goroutines are scheduled, and every wait in them is bounded: dialTimeout,*)
(* firstPayloadTimeout, closeWait, the ticker of the watchdog. session      *)
(* closes what has returned. Nobody has to cancel or connect, and no peer   *)
(* has to send or to hang up.                                              *)
ProxyFairness ==
    /\ \A g \in Gen :
         /\ WF_proxyVars(ProxyStart(g))
         /\ WF_proxyVars(CloseProxy(g, "session"))
         /\ \A a \in Stopper : WF_proxyVars(ProxyClosing(g, a))
    /\ \A r \in ProxyReloader : WF_proxyVars(ReloadRedirects(r))
    /\ \A c \in Conn :
         WF_proxyVars(HandleConn(c)) /\ WF_proxyVars(Watchdog(c)) /\ WF_proxyVars(ContextDone(c))

ProxyFairSpec == ProxySpec /\ ProxyFairness

-----------------------------------------------------------------------------
Over(g) ==
    /\ ppc[g]["start"] = "returned" /\ ppc[g]["session"] = "returned"
    /\ ppc[g]["other"] \in {"idle", "returned"}

(* "Nothing here is left behind on a clean stop" (proxy.go, Start) and a    *)
(* Close "unwinds every privileged change": once every transport has        *)
(* returned and been closed, no listener, descriptor, reference or rule of  *)
(* theirs is left.                                                          *)
LeavesNothing ==
    (\A g \in Gen : Over(g)) =>
        /\ ~pf.ref /\ ~pf.rules
        /\ \A g \in Gen : ~dev[g].open /\ ~dev[g].devpf

(* The same, but for what the code does leave: what setup installs behind a *)
(* Close, what a Reload loads behind one, and a step whose undoing failed,  *)
(* which strands none of the other steps.                                   *)
UndoneUnlessStuck ==
    (\A g \in Gen : Over(g)) /\ overtaken = {} =>
        /\ pf.ref => "ref" \in stuck
        /\ pf.rules => "rules" \in stuck
        /\ \A g \in Gen : ~dev[g].open /\ ~dev[g].devpf

(* A transport that serves and that nobody stopped redirects: its rules are *)
(* in the anchor. This is what a restart is for (repairPF, daemon.go).      *)
ServingRedirects ==
    \A g \in Gen :
        ppc[g]["start"] = "serve" /\ ~tr[g].closed /\ g \notin ended => pf.rules

(* Redirecting rules are never without what the relays behind them need:    *)
(* the pf reference, and the descriptor that recovers destinations. Setup   *)
(* brings the rules up last and the unwinding, by whom ever and after what  *)
(* failure, takes them down first.                                          *)
RulesBacked ==
    pf.rules /\ "rules" \notin stuck /\ overtaken = {} =>
        pf.ref /\ \E g \in Gen : dev[g].devpf

(* Nothing is left of closed transports but what got stuck, and redirecting *)
(* rules have the reference and the descriptor.                             *)
ProxyUndoes == ProxyTypeOK /\ UndoneUnlessStuck /\ RulesBacked

(* Start returns after its context is cancelled, wherever it was.           *)
CancelReturns ==
    \A g \in Gen : g \in ended ~> ppc[g]["start"] = "returned"

(* Refusing is better than queueing (acceptLoop): no accepted connection    *)
(* waits for a slot of the pool, however long the relays in it last.        *)
NobodyQueues ==
    \A c \in Conn : At(c, "queued") ~> ~At(c, "queued")

(* A pair that has gone silent gives its slot back (RelayIdleTimeout).      *)
SilentRelayEnds ==
    \A c \in Conn : <>[](~At(c, "busy")) => (conn[c].at \in RelayAt ~> At(c, "gone"))

(* A shutdown does not depend on the peers: a relay of a transport that was *)
(* closed or cancelled ends even if its peers never stop talking.           *)
ShutdownEndsRelays ==
    \A c \in Conn, g \in Gen :
        c \in Relays(g) /\ (g \in ended \/ (tr[g].closed /\ g \notin overtaken))
            ~> At(c, "gone")

=============================================================================
