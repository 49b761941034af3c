------------------------------- MODULE LogTail --------------------------------
(* The log a daemon keeps in memory (logger in cmd/zapretd/main.go) and one      *)
(* `logtail' handler that reads it (Daemon.LogTail). A line is its number.       *)
EXTENDS Integers, Sequences, SequencesExt

CONSTANTS
    Follow,      \* the reader wants new lines as well
    Want,        \* lines of history it asks for
    RingCap,     \* logRing
    SubCap,      \* capacity of a subscriber's channel
    ChunkLines,  \* lines sent at once
    MaxLogged    \* bound: lines logged

ASSUME LogTailAssumption ==
    /\ Follow \in BOOLEAN /\ MaxLogged \in Nat
    /\ {Want, RingCap, SubCap, ChunkLines} \subseteq Nat \ {0} /\ Want <= (RingCap * 3) \div 4

VARIABLES
    logged,   \* lines logged so far
    ring,     \* the recent ones
    sub,      \* the subscription: none, active, released
    chan,     \* its channel
    missed,   \* lines the full channel lost
    tpc,      \* LogTail: start, snapshot, history, follow, done
    hist,     \* the history still to be sent
    pending,  \* new lines not yet sent
    from,     \* the first line of the history
    sent      \* what the client was sent

tail == <<logged, ring, sub, chan, missed, tpc, hist, pending, from, sent>>

LogTailTypeOK ==
    /\ logged \in 0 .. MaxLogged /\ Len(ring) <= RingCap /\ Len(chan) <= SubCap
    /\ sub \in {"none", "active", "released"} /\ missed \subseteq 1 .. MaxLogged
    /\ tpc \in {"start", "snapshot", "history", "follow", "done"}
    /\ Len(pending) < ChunkLines
    /\ from \in 0 .. MaxLogged + 1

LogTailInit ==
    /\ logged = 0 /\ ring = <<>> /\ sub = "none" /\ chan = <<>> /\ missed = {}
    /\ tpc = "start" /\ hist = <<>> /\ pending = <<>> /\ from = 0 /\ sent = <<>>

-----------------------------------------------------------------------------
\* The last n elements, all of them if there are fewer.
Latest(s, n) == IF n >= Len(s) THEN s ELSE SubSeq(s, Len(s) - n + 1, Len(s))

\* Mutant of Trim: the newest quarter is dropped.
TrimNewest(r) == IF Len(r) > RingCap THEN SubSeq(r, 1, (RingCap * 3) \div 4) ELSE r

\* A ring that is over its size drops its oldest quarter at once.
Trim(r) == IF Len(r) > RingCap THEN Latest(r, (RingCap * 3) \div 4) ELSE r

\* logger.emit: into the ring, and to a subscriber that has room; it never waits.
Log ==
    /\ logged < MaxLogged /\ logged' = logged + 1
    /\ ring' = Trim(Append(ring, logged + 1))
    /\ LET room == Len(chan) < SubCap
       IN  /\ chan' = IF sub = "active" /\ room THEN Append(chan, logged + 1) ELSE chan
           /\ missed' = IF sub = "active" /\ ~room THEN missed \cup {logged + 1} ELSE missed
    /\ UNCHANGED <<sub, tpc, hist, pending, from, sent>>

-----------------------------------------------------------------------------
\* Mutant of Subscribe: the channel is opened when the history has been copied.
SubscribeLate ==
    /\ \/ tpc = "start" /\ tpc' = "snapshot" /\ UNCHANGED sub
       \/ tpc = "history" /\ Follow /\ sub = "none" /\ sub' = "active" /\ UNCHANGED tpc
    /\ UNCHANGED <<logged, ring, chan, missed, hist, pending, from, sent>>

\* A follower subscribes before the history is read.
Subscribe ==
    /\ tpc = "start" /\ tpc' = "snapshot"
    /\ sub' = IF Follow THEN "active" ELSE sub
    /\ UNCHANGED <<logged, ring, chan, missed, hist, pending, from, sent>>

\* logger.Lines.
Snapshot ==
    /\ tpc = "snapshot" /\ tpc' = "history"
    /\ hist' = Latest(ring, Want) /\ from' = logged + 1 - Len(hist')
    /\ UNCHANGED <<logged, ring, sub, chan, missed, pending, sent>>

Chunk(s) == SubSeq(s, 1, IF Len(s) < ChunkLines THEN Len(s) ELSE ChunkLines)

EmitHistory ==
    /\ tpc = "history" /\ hist # <<>>
    /\ sent' = sent \o Chunk(hist) /\ hist' = SubSeq(hist, Len(Chunk(hist)) + 1, Len(hist))
    /\ UNCHANGED <<logged, ring, sub, chan, missed, tpc, pending, from>>

HistorySent ==
    /\ tpc = "history" /\ hist = <<>>
    /\ tpc' = IF Follow THEN "follow" ELSE "done"
    /\ UNCHANGED <<logged, ring, sub, chan, missed, hist, pending, from, sent>>

\* A new line waits for a chunk to fill.
Collect ==
    /\ tpc = "follow" /\ chan # <<>> /\ chan' = Tail(chan)
    /\ LET batch == Append(pending, Head(chan))
       IN  IF Len(batch) >= ChunkLines
           THEN sent' = sent \o batch /\ pending' = <<>>
           ELSE pending' = batch /\ UNCHANGED sent
    /\ UNCHANGED <<logged, ring, sub, missed, tpc, hist, from>>

\* Mutant of Flush: only a full chunk is sent.
NeverFlush == FALSE /\ UNCHANGED tail

\* or for the ticker.
Flush ==
    /\ tpc = "follow" /\ pending # <<>>
    /\ sent' = sent \o pending /\ pending' = <<>>
    /\ UNCHANGED <<logged, ring, sub, chan, missed, tpc, hist, from>>

\* The context is cancelled: what waits is sent, the subscription released.
CancelTail ==
    /\ tpc = "follow" /\ tpc' = "done" /\ sub' = "released"
    /\ sent' = sent \o pending /\ pending' = <<>> /\ chan' = <<>>
    /\ UNCHANGED <<logged, ring, missed, hist, from>>

\* emit fails: the handler returns.
EmitFails ==
    /\ tpc \in {"history", "follow"} /\ (hist # <<>> \/ pending # <<>> \/ chan # <<>>)
    /\ tpc' = "done" /\ sub' = (IF Follow THEN "released" ELSE sub)
    /\ hist' = <<>> /\ pending' = <<>> /\ chan' = <<>>
    /\ UNCHANGED <<logged, ring, missed, from, sent>>

Tailing == Subscribe \/ Snapshot \/ EmitHistory \/ HistorySent \/ Collect

LogTailNext == Log \/ Tailing \/ Flush \/ CancelTail \/ EmitFails

\* The handler's goroutine runs and its ticker fires.
LogTailFairness == WF_tail(Tailing) /\ WF_tail(Flush)

LogTailSpec == LogTailInit /\ [][LogTailNext]_tail /\ LogTailFairness

-----------------------------------------------------------------------------
(* LogTail subscribes before it copies the history, so a line logged in between *)
(* is duplicated rather than lost: whatever comes before a line that was sent   *)
(* was sent, from the start of the history on, unless the channel was full.     *)
NothingSkipped ==
    \A k \in ToSet(sent) : \A i \in from .. k : i \in ToSet(sent) \cup missed

(* Lines: the history is the latest lines the reader asked for, however often   *)
(* the ring was trimmed.                                                        *)
HistoryIsLatest ==
    tpc = "history" /\ sent = <<>> =>
        /\ Len(hist) = Want \/ from = 1
        /\ \A i \in 1 .. Len(hist) : hist[i] = from + i - 1

(* LogTail: a line a follower was promised reaches it although no other follows *)
(* to fill its chunk.                                                           *)
PromptLines ==
    \A k \in 1 .. MaxLogged : k \in ToSet(chan) ~> k \in ToSet(sent) \/ tpc = "done"
=============================================================================
