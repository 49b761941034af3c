------------------------------- MODULE Control --------------------------------
(* The control socket (internal/ctl): Server.Listen, Serve, serveConn, dispatch, *)
(* serveLogtail and Close in the daemons that may start on one socket path, and  *)
(* Client.Do and LogTail at the other end. A socket file is the inode of the     *)
(* daemon that bound it, so a path may name the socket of a dead daemon.         *)
(*                                                                               *)
(* A request is what the server tells apart: a command, a request of the log     *)
(* with or without `follow', one it refuses before a handler runs (too long,     *)
(* malformed, unknown, without a needed argument), or none.                      *)
EXTENDS Naturals, Sequences, FiniteSets

CONSTANTS
    Server,      \* daemons, one process each
    Client,      \* calls of the client, one connection each
    Asks,        \* Asks[c]: the requests that call c may send
    NoOne,       \* no inode
    Foreign,     \* a file at the socket's path that is not a socket
    OneDataDir,  \* TRUE: the daemons share the data directory, hence its lock
    History      \* chunks of history that the log holds

ASSUME ControlAssumption ==
    /\ \A c \in Client : Asks[c] \subseteq {"command", "logs", "follow", "bad", "none"}
    /\ NoOne \notin Server \cup {Foreign} /\ Foreign \notin Server
    /\ OneDataDir \in BOOLEAN /\ History \in Nat

VARIABLES
    path, tmp,   \* the inodes at the socket's path and at its temporary name
    open,        \* daemons whose listener is open
    life,        \* how far a daemon has come
    to, ask,     \* the daemon a call reached, and what it asks
    cl, got,     \* the client's side of a call, and what it returned
    sv,          \* the goroutine that serves the connection
    job,         \* the goroutine that runs the handler
    lines, read  \* the responses written to the connection, and how many were read

control == <<path, tmp, open, life, to, ask, cl, got, sv, job, lines, read>>

calls == <<to, ask, cl, got, sv, job, lines, read>>

\* Final responses have `more' unset.
Responses == {"ok", "err", "more"}

ControlTypeOK ==
    /\ path \in Server \cup {NoOne, Foreign} /\ tmp \in Server \cup {NoOne}
    /\ open \subseteq Server
    /\ life \in [Server -> {"off", "look", "stale", "bind", "place", "up", "draining", "unlinked",
                            "exited", "refused", "failed", "killed"}]
    /\ to \in [Client -> Server \cup {NoOne}]
    /\ ask \in [Client -> {"command", "logs", "follow", "bad", "none"}]
    /\ cl \in [Client -> {"idle", "sent", "over"}]
    /\ got \in [Client -> {"none", "ok", "err", "notRunning", "eof", "gaveUp"}]
    /\ sv \in [Client -> {"none", "queued", "accepted", "reading", "dispatch", "stream", "closed"}]
    /\ job \in [Client -> {"none", "running", "ok", "failed"}]
    /\ lines \in [Client -> Seq(Responses)] /\ read \in [Client -> Nat]

ControlInit ==
    /\ path \in {NoOne, Foreign} /\ tmp = NoOne /\ open = {}
    /\ life = [s \in Server |-> "off"]
    /\ to = [c \in Client |-> NoOne] /\ ask = [c \in Client |-> "none"]
    /\ cl = [c \in Client |-> "idle"] /\ got = [c \in Client |-> "none"]
    /\ sv = [c \in Client |-> "none"] /\ job = [c \in Client |-> "none"]
    /\ lines = [c \in Client |-> <<>>] /\ read = [c \in Client |-> 0]

Running == {"look", "stale", "bind", "place", "up", "draining", "unlinked"}

Goes(s, from, next) == life[s] = from /\ life' = [life EXCEPT ![s] = next]

\* The connections of s on which a goroutine of s works.
Served(s) == {c \in Client : to[c] = s /\ sv[c] \in {"reading", "dispatch", "stream"}}

-----------------------------------------------------------------------------
(* Listen                                                                    *)

\* Mutant of LockFree: a daemon gives the lock back before it closes the socket.
LockUntilClose(s) ==
    OneDataDir => \A q \in Server \ {s} : life[q] \notin Running \ {"draining", "unlinked"}

\* acquireInstanceLock: the flock of another process on the data directory is gone.
LockFree(s) == OneDataDir => \A q \in Server \ {s} : life[q] \notin Running

Launch(s) ==
    /\ LockFree(s) /\ Goes(s, "off", "look")
    /\ UNCHANGED <<path, tmp, open, calls>>

\* checkSocketDir and checkSocketPathLen: any user could replace the socket, or it
\* does not fit the kernel's address.
RefuseDirectory(s) ==
    /\ Goes(s, "look", "failed")
    /\ UNCHANGED <<path, tmp, open, calls>>

\* clearStaleSocket up to the removal: only a socket that refuses a connection is stale.
LookAtSocket(s) ==
    /\ Goes(s, "look", CASE path = NoOne -> "bind"
                         [] path = Foreign \/ path \in open -> "refused"
                         [] OTHER -> "stale")
    /\ UNCHANGED <<path, tmp, open, calls>>

ClearStaleSocket(s) ==
    /\ Goes(s, "stale", "bind") /\ path' = NoOne
    /\ UNCHANGED <<tmp, open, calls>>

\* Mutant of Bind: a temporary name that exists makes bind fail.
BindOver(s) ==
    /\ Goes(s, "bind", IF tmp = NoOne THEN "place" ELSE "refused")
    /\ tmp' = IF tmp = NoOne THEN s ELSE tmp
    /\ open' = IF tmp = NoOne THEN open \cup {s} ELSE open
    /\ UNCHANGED <<path, calls>>

\* The listener is bound at the temporary name, after what a killed daemon left there.
Bind(s) ==
    /\ Goes(s, "bind", "place")
    /\ tmp' = s /\ open' = open \cup {s}
    /\ UNCHANGED <<path, calls>>

\* chmod, chown or rename fails: the listener is closed, the temporary name removed.
ListenFails(s) ==
    /\ Goes(s, "place", "failed")
    /\ open' = open \ {s} /\ tmp' = NoOne
    /\ UNCHANGED <<path, calls>>

\* The rename moves whatever the temporary name leads to by now.
Place(s) ==
    /\ tmp # NoOne /\ Goes(s, "place", "up")
    /\ path' = tmp /\ tmp' = NoOne
    /\ UNCHANGED <<open, calls>>

-----------------------------------------------------------------------------
(* Client.Do and Client.LogTail                                              *)

\* dial and writeRequest; "none" is a peer that connects and never sends a line.
Dial(c, r) ==
    /\ cl[c] = "idle" /\ ask' = [ask EXCEPT ![c] = r]
    /\ IF path \in open
       THEN /\ cl' = [cl EXCEPT ![c] = "sent"] /\ to' = [to EXCEPT ![c] = path]
            /\ sv' = [sv EXCEPT ![c] = "queued"] /\ UNCHANGED got
       ELSE /\ cl' = [cl EXCEPT ![c] = "over"] /\ got' = [got EXCEPT ![c] = "notRunning"]
            /\ UNCHANGED <<to, sv>>
    /\ UNCHANGED <<path, tmp, open, life, job, lines, read>>

Return(c, result) ==
    /\ cl[c] = "sent" /\ cl' = [cl EXCEPT ![c] = "over"] /\ got' = [got EXCEPT ![c] = result]

\* readLine: a response with `more' set is a chunk of the log, any other is the last.
Receive(c) ==
    /\ cl[c] = "sent" /\ read[c] < Len(lines[c])
    /\ read' = [read EXCEPT ![c] = @ + 1]
    /\ LET r == lines[c][read[c] + 1]
       IN  IF r = "more" THEN UNCHANGED <<cl, got>> ELSE Return(c, r)
    /\ UNCHANGED <<path, tmp, open, life, to, ask, sv, job, lines>>

\* The connection ended without a last response: an error for Do, the end for LogTail.
EndOfFile(c) ==
    /\ sv[c] = "closed" /\ read[c] = Len(lines[c]) /\ Return(c, "eof")
    /\ UNCHANGED <<path, tmp, open, life, to, ask, sv, job, lines, read>>

\* The deadline of the exchange, or a cancelled context closes the connection.
GiveUp(c) ==
    /\ Return(c, "gaveUp")
    /\ UNCHANGED <<path, tmp, open, life, to, ask, sv, job, lines, read>>

\* The server reads end of file: the client has closed, or has sent all it will send.
HalfClosed(c) == cl[c] = "over" \/ ask[c] = "logs"

-----------------------------------------------------------------------------
(* Serve, serveConn and dispatch                                             *)

Turns(c, from, next) == sv[c] = from /\ sv' = [sv EXCEPT ![c] = next]

\* s.ctx of the daemon that has the connection is cancelled.
GoingDown(c) == to[c] \in Server /\ life[to[c]] \in {"draining", "unlinked"}

\* The connection is answered for the last time and closed.
Finish(c, from, r) == Turns(c, from, "closed") /\ lines' = [lines EXCEPT ![c] = Append(@, r)]

\* AcceptUnix has returned; the goroutine is not yet counted in s.wg.
Accept(c) ==
    /\ to[c] \in open /\ Turns(c, "queued", "accepted")
    /\ UNCHANGED <<path, tmp, open, life, to, ask, cl, got, job, lines, read>>

ServeConn(c) ==
    /\ Turns(c, "accepted", "reading")
    /\ UNCHANGED <<path, tmp, open, life, to, ask, cl, got, job, lines, read>>

\* Mutant of Refuse: the connection is closed without an answer.
RefuseSilently(c) ==
    /\ ask[c] = "bad" /\ Turns(c, "reading", "closed")
    /\ UNCHANGED <<path, tmp, open, life, to, ask, cl, got, job, lines, read>>

\* Too long, malformed, empty, unknown, or refused by call before the handler.
Refuse(c) ==
    /\ ask[c] = "bad" /\ Finish(c, "reading", "err")
    /\ UNCHANGED <<path, tmp, open, life, to, ask, cl, got, job, read>>

\* No request within the timeout, or the peer hung up before it sent one.
ReadDeadline(c) ==
    /\ ask[c] = "none" /\ Turns(c, "reading", "closed")
    /\ UNCHANGED <<path, tmp, open, life, to, ask, cl, got, job, lines, read>>

\* dispatch starts a goroutine for the handler.
Dispatch(c) ==
    /\ ask[c] = "command" /\ Turns(c, "reading", "dispatch")
    /\ job' = [job EXCEPT ![c] = "running"]
    /\ UNCHANGED <<path, tmp, open, life, to, ask, cl, got, lines, read>>

\* The handler returns, or panics and is recovered; statusOrEmpty adds no failure.
HandlerEnds(c) ==
    /\ job[c] = "running" /\ \E r \in {"ok", "failed"} : job' = [job EXCEPT ![c] = r]
    /\ UNCHANGED <<path, tmp, open, life, to, ask, cl, got, sv, lines, read>>

\* newResponse and writeErr: a response over the limit is replaced by an error.
Reply(c) ==
    /\ job[c] \in {"ok", "failed"}
    /\ \E r \in {"ok", "err"} : (r = "ok" => job[c] = "ok") /\ Finish(c, "dispatch", r)
    /\ UNCHANGED <<path, tmp, open, life, to, ask, cl, got, job, read>>

\* Mutant of HandlerTimeout: dispatch waits for the handler or the shutdown.
NoHandlerTimeout(c) == FALSE /\ UNCHANGED control

\* The handler goes on when its time is over; only its answer is not waited for.
HandlerTimeout(c) ==
    /\ Finish(c, "dispatch", "err")
    /\ UNCHANGED <<path, tmp, open, life, to, ask, cl, got, job, read>>

\* Mutant of ShuttingDown: the shutdown is reported as a success without a payload.
ShutDownWell(c) ==
    /\ GoingDown(c) /\ Finish(c, "dispatch", "ok")
    /\ UNCHANGED <<path, tmp, open, life, to, ask, cl, got, job, read>>

\* s.ctx.Done() in dispatch: the same, for a daemon that is going down.
ShuttingDown(c) ==
    /\ GoingDown(c) /\ Finish(c, "dispatch", "err")
    /\ UNCHANGED <<path, tmp, open, life, to, ask, cl, got, job, read>>

-----------------------------------------------------------------------------
(* serveLogtail                                                              *)

ServeLogtail(c) ==
    /\ ask[c] \in {"logs", "follow"} /\ Turns(c, "reading", "stream")
    /\ UNCHANGED <<path, tmp, open, life, to, ask, cl, got, job, lines, read>>

\* Mutant of Cancelled: any end of file on the connection counts as a hang-up.
CancelledByAnyEOF(c) == HalfClosed(c) \/ GoingDown(c)

\* The context of the stream: of the server, and for a follower of its connection.
Cancelled(c) ==
    \/ ask[c] = "follow" /\ HalfClosed(c)
    \/ GoingDown(c)

Chunks(c) == Len(lines[c])

\* emit: one chunk; a write to a connection the client closed ends the handler.
Emit(c) ==
    /\ sv[c] = "stream" /\ Chunks(c) < History /\ cl[c] = "sent"
    /\ lines' = [lines EXCEPT ![c] = Append(@, "more")]
    /\ UNCHANGED <<path, tmp, open, life, to, ask, cl, got, sv, job, read>>

\* Mutant of StreamEnds: an error of the handler is followed by the terminating OK.
StreamEndsTwice(c) ==
    /\ Chunks(c) = History \/ Cancelled(c) \/ cl[c] = "over"
    /\ ask[c] = "follow" => Cancelled(c) \/ cl[c] = "over"
    /\ Turns(c, "stream", "closed") /\ lines' = [lines EXCEPT ![c] = @ \o <<"err", "ok">>]
    /\ UNCHANGED <<path, tmp, open, life, to, ask, cl, got, job, read>>

\* Mutant of StreamEnds: a follower ends only when it hangs up.
StreamsOn(c) ==
    /\ ask[c] = "follow" => cl[c] = "over"
    /\ Chunks(c) = History \/ cl[c] = "over"
    /\ Finish(c, "stream", "ok")
    /\ UNCHANGED <<path, tmp, open, life, to, ask, cl, got, job, read>>

\* The handler has emitted all, was cancelled or failed; one last line says so.
StreamEnds(c) ==
    /\ ask[c] = "follow" => Cancelled(c) \/ cl[c] = "over"
    /\ \/ Chunks(c) = History /\ Finish(c, "stream", "ok")
       \/ (Cancelled(c) \/ cl[c] = "over") /\ Finish(c, "stream", "ok")
    /\ UNCHANGED <<path, tmp, open, life, to, ask, cl, got, job, read>>

StreamFails(c) ==
    /\ Finish(c, "stream", "err")
    /\ UNCHANGED <<path, tmp, open, life, to, ask, cl, got, job, read>>

-----------------------------------------------------------------------------
(* Close, and the end of the process                                         *)

\* closed is set, the context cancelled, the listener closed with what it queued.
BeginClose(s) ==
    /\ Goes(s, "up", "draining") /\ open' = open \ {s}
    /\ sv' = [c \in Client |-> IF to[c] = s /\ sv[c] = "queued" THEN "closed" ELSE sv[c]]
    /\ UNCHANGED <<path, tmp, to, ask, cl, got, job, lines, read>>

\* s.wg.Wait, then the file at the path is removed, whose ever it is.
FinishClose(s) ==
    /\ Served(s) = {} /\ Goes(s, "draining", "unlinked")
    /\ path' = NoOne
    /\ UNCHANGED <<tmp, open, calls>>

\* What a process that is gone was serving is closed by the kernel.
Cut(s) ==
    /\ sv' = [c \in Client |-> IF to[c] = s /\ sv[c] # "none" THEN "closed" ELSE sv[c]]
    /\ job' = [c \in Client |-> IF to[c] = s /\ job[c] = "running" THEN "none" ELSE job[c]]

\* Run waits for Serve, tears down and returns; the lock is given back.
Exit(s) ==
    /\ \A c \in Client : to[c] = s => sv[c] # "accepted"
    /\ Goes(s, "unlinked", "exited") /\ Cut(s)
    /\ UNCHANGED <<path, tmp, open, to, ask, cl, got, lines, read>>

\* SIGKILL at any moment.
Kill(s) ==
    /\ life[s] \in Running /\ Goes(s, life[s], "killed") /\ Cut(s) /\ open' = open \ {s}
    /\ UNCHANGED <<path, tmp, to, ask, cl, got, lines, read>>

-----------------------------------------------------------------------------
Conn(c) ==
    \/ Accept(c) \/ ServeConn(c) \/ Refuse(c) \/ ReadDeadline(c) \/ Dispatch(c)
    \/ Reply(c) \/ HandlerTimeout(c) \/ ShuttingDown(c)
    \/ ServeLogtail(c) \/ Emit(c) \/ StreamEnds(c)

Listening(s) ==
    LookAtSocket(s) \/ ClearStaleSocket(s) \/ Bind(s) \/ Place(s) \/ FinishClose(s) \/ Exit(s)

ControlNext ==
    \/ \E s \in Server : Launch(s) \/ Listening(s) \/ RefuseDirectory(s) \/ ListenFails(s) \/ BeginClose(s) \/ Kill(s)
    \/ \E c \in Client :
        \/ \E r \in Asks[c] : Dial(c, r)
        \/ Receive(c) \/ EndOfFile(c) \/ GiveUp(c)
        \/ Conn(c) \/ HandlerEnds(c) \/ StreamFails(c)

\* Goroutines run and timers fire; a handler may never return, a client never read.
ControlFairness ==
    /\ \A s \in Server : WF_control(Listening(s))
    /\ \A c \in Client : WF_control(Conn(c))

ControlSpec == ControlInit /\ [][ControlNext]_control /\ ControlFairness

-----------------------------------------------------------------------------
(* Call and Do: a command that the client reports as done has run to its end    *)
(* without an error, whatever timed out, panicked or was shut down on the way.  *)
OkMeansDone == \A c \in Client : got[c] = "ok" /\ ask[c] = "command" => job[c] = "ok"

(* serveConn and serveLogtail: at most one response of a connection is final,   *)
(* and nothing follows it.                                                      *)
OneAnswer ==
    \A c \in Client : \A i \in 1 .. Len(lines[c]) : lines[c][i] # "more" => i = Len(lines[c])

(* serveLogtail: a one-shot reader of the log that is told the stream is over   *)
(* has all of the history, although it closes its sending half at once; unless  *)
(* the daemon was going down.                                                   *)
HistoryDelivered ==
    \A c \in Client :
        ask[c] = "logs" /\ got[c] = "ok" /\ life[to[c]] = "up" => read[c] = History + 1

(* serveConn: a client that sent a request and did not give up loses the        *)
(* connection without an answer only when the daemon goes down.                 *)
Answered == \A c \in Client : got[c] = "eof" /\ life[to[c]] = "up" => ask[c] = "none"

(* Listen: with one data directory, what a crash left at the socket's path or   *)
(* at its temporary name never keeps the next daemon from listening.            *)
RestartListens == \A s \in Server : life[s] = "refused" => path = Foreign

(* Listen and Close: while a daemon serves, the socket's path leads to it; a    *)
(* daemon that nobody can talk to cannot be stopped.                            *)
ServedIsReachable == \A s \in Server : life[s] = "up" => path = s /\ s \in open

(* serveConn, dispatch and serveLogtail: every connection ends, by an answer or *)
(* by a deadline, even if its handler never returns or its client never sends;  *)
(* a follower's when it hangs up or the daemon goes down.                       *)
ConnectionsEnd ==
    \A c \in Client :
        sv[c] # "none" /\ (ask[c] = "follow" => cl[c] = "over") ~> sv[c] = "closed"

(* Close: a daemon told to go down gets past its connections and exits.         *)
CloseEnds == \A s \in Server : life[s] = "draining" ~> life[s] \in {"exited", "killed"}

(* Close "waits for handlers to finish" (server.go): when the socket is gone no *)
(* handler is running. dispatch gives up on a handler that is still running.    *)
CloseWaitsForHandlers ==
    \A c \in Client : job[c] = "running" => life[to[c]] # "unlinked"
=============================================================================
