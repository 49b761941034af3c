------------------------------- MODULE Journal -------------------------------
(***************************************************************************)
(* The rollback journal of internal/netcfg/journal.go: one append-only     *)
(* file, opened by several handles at once. A daemon has two (the PF       *)
(* object's and the Hosts object's), `zaprctl doctor --repair` two more.   *)
(* A handle's mutex orders the calls of that handle only, and a rewrite    *)
(* renames a new file over the old one: every other handle then appends to *)
(* a file that no longer has a name.                                       *)
(*                                                                         *)
(* Records are kept as the set of their steps: reverting is idempotent, so *)
(* neither their number nor their order matters to what can be undone.     *)
(***************************************************************************)
CONSTANTS
    Subject,    \* what a record can be about
    Handle,     \* the open handles
    WritesFail  \* TRUE: writes may fail

DiskAssumption == WritesFail \in BOOLEAN

VARIABLES
    records,    \* disk: the readable records
    torn,       \* disk: the file ends in an unterminated line
    fd,         \* memory: where each handle's descriptor points
    lost        \* history: a Record reported an error, or its line went to a
                \* file without a name, or a rewrite dropped a record it had not read

journalVars == <<records, torn, fd, lost>>

JournalTypeOK ==
    /\ records \subseteq Subject
    /\ torn \in BOOLEAN
    /\ fd \in [Handle -> {"closed", "current", "stale"}]
    /\ lost \in BOOLEAN

JournalInit ==
    /\ records = {} /\ torn = FALSE /\ lost = FALSE
    /\ fd = [h \in Handle |-> "closed"]

\* Mutant of Open: a torn tail stays in the file.
OpenTorn(h) ==
    /\ fd' = [fd EXCEPT ![h] = "current"]
    /\ UNCHANGED <<records, torn, lost>>

\* OpenJournal: a torn tail is cut off first (truncateTornTail).
Open(h) ==
    /\ torn' = FALSE
    /\ fd' = [fd EXCEPT ![h] = "current"]
    /\ UNCHANGED <<records, lost>>

\* Journal.Record. A line appended to a torn one is garbage to readJournal; a
\* short write leaves a torn tail and an error; a failed fsync leaves the line
\* and an error. The callers log the error and go on.
Append(h, r) ==
    /\ UNCHANGED fd
    /\ \/ /\ fd[h] = "current"
          /\ records' = IF torn THEN records ELSE records \cup {r}
          /\ torn' = FALSE
          /\ UNCHANGED lost
       \/ /\ fd[h] = "current" /\ WritesFail
          /\ lost' = TRUE
          /\ \/ UNCHANGED records /\ torn' = TRUE
             \/ records' = (IF torn THEN records ELSE records \cup {r}) /\ torn' = FALSE
       \/ /\ fd[h] # "current"
          /\ lost' = TRUE
          /\ UNCHANGED <<records, torn>>

\* rewriteLocked at the end of Rollback or ClearExcept: `read' is what the call
\* read at its start, `kept' what it leaves.
Rewrite(h, read, kept) ==
    \/ /\ records' = kept
       /\ torn' = FALSE
       /\ lost' = (lost \/ ~(records \subseteq read))
       /\ fd' = [g \in Handle |-> CASE g = h -> "current"
                                    [] g # h /\ fd[g] = "closed" -> "closed"
                                    [] g # h /\ fd[g] # "closed" -> "stale"]
    \/ /\ WritesFail
       /\ fd' = [fd EXCEPT ![h] = "current"]
       /\ UNCHANGED <<records, torn, lost>>

\* Journal.Close, or the death of the process that owns the handles.
Close(hs) == fd' = [g \in Handle |-> IF g \in hs THEN "closed" ELSE fd[g]]
=============================================================================
