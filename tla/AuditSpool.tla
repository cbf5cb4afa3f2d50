----------------------------- MODULE AuditSpool -----------------------------
(***************************************************************************)
(* The executor's audit spool: one file of lines, the loggers that append  *)
(* to it and drain it (the daemon's own, and one for every run, all over   *)
(* the one path), and the core's ingest route with its ledger.             *)
(*                                                                         *)
(* What a logger does under the lock of the path is one step.  A drain is  *)
(* a read of a prefix, a POST, an answer and a removal, four steps between *)
(* which other loggers append, drop and drain.  A write may be cut short,  *)
(* by a full disk or a loss of power: the next line is then joined to it,  *)
(* and the core refuses every batch that holds such a line.                *)
(***************************************************************************)
EXTENDS Naturals, SequencesExt, FiniteSetsExt

CONSTANTS Loggers,  \* instances of AuditLogger
          Events,   \* what is ever recorded, every event once
          Capacity, \* max_buffer_size
          Batch,    \* max_batch_lines
          SinkCap   \* INGEST_MAX_LINES of the core

ASSUME SpoolBounds == /\ Capacity \in Nat \ {0} /\ Batch \in Nat \ {0}
                      /\ SinkCap \in Nat \ {0}

VARIABLES
    spool,   \* the lines of the file, the oldest first
    written, \* events that emit wrote
    settled, \* history: events that the core's audit table has, and events of
             \* lines that drop-oldest discarded and counted (dropped_total
             \* itself is forgotten by a restart)
    batch,   \* the lines a logger's drain has read
    drain    \* where it stands

spoolvars == <<spool, written, settled, batch, drain>>

\* A line: the events it holds, whether it is valid JSON, whether it is ended.
Line  == [ev : SUBSET Events, valid : BOOLEAN, ended : BOOLEAN]
Drain == {"idle", "sending", "accepted"}

InitSpool == /\ spool = <<>>
             /\ written = {} /\ settled = {}
             /\ batch = [d \in Loggers |-> <<>>]
             /\ drain = [d \in Loggers |-> "idle"]

EventsIn(lines) == UNION {l.ev : l \in ToSet(lines)}

Broken == \E i \in 1..Len(spool) : ~spool[i].valid

-----------------------------------------------------------------------------
(* emit *)

OpenEnd == spool # <<>> /\ ~Last(spool).ended

\* The append, whole or cut.
Appended(e, whole) ==
    IF OpenEnd
      THEN Append(Front(spool), [ev |-> Last(spool).ev \cup {e}, valid |-> FALSE, ended |-> whole])
      ELSE Append(spool, [ev |-> {e}, valid |-> whole, ended |-> whole])

\* _drop_oldest and _truncate_prefix
DropOldest(lines) == /\ spool' = SubSeq(lines, Len(lines) - Capacity + 1, Len(lines))
                     /\ settled' = settled \cup EventsIn(SubSeq(lines, 1, Len(lines) - Capacity))

\* AuditLogger.emit
Emit(e) == /\ written' = written \cup {e}
           /\ \A lines \in {Appended(e, TRUE)} :
                IF Len(lines) > Capacity THEN DropOldest(lines)
                ELSE spool' = lines /\ UNCHANGED settled
           /\ UNCHANGED <<batch, drain>>

\* The write fails half way: emit raises, the caller learns that it failed.
EmitCut(e) == /\ spool' = Appended(e, FALSE)
              /\ UNCHANGED <<written, settled, batch, drain>>

-----------------------------------------------------------------------------
(* _forward_once *)

\* The flag of this logger is set, a prefix is read under the lock.
DrainBegins(d) ==
    /\ drain[d] = "idle"
    /\ spool # <<>>
    /\ drain' = [drain EXCEPT ![d] = "sending"]
    /\ batch' = [batch EXCEPT ![d] = SubSeq(spool, 1, Min({Len(spool), Capacity, Batch}))]
    /\ UNCHANGED <<spool, written, settled>>

\* A 413 halves the batch and sends it again.
Halve(d) ==
    /\ drain[d] = "sending"
    /\ Len(batch[d]) > SinkCap
    /\ Len(batch[d]) > 1
    /\ batch' = [batch EXCEPT ![d] = SubSeq(@, 1, Max({1, Len(@) \div 2}))]
    /\ UNCHANGED <<spool, written, settled, drain>>

\* What audit_ingest takes: not too many lines, every one valid.
Acceptable(lines) == Len(lines) <= SinkCap /\ \A l \in ToSet(lines) : l.valid

\* audit_ingest and _write_forwarded_events commit the whole batch; an event
\* may come again, which the ledger keeps.
Ingest(d) ==
    /\ drain[d] = "sending"
    /\ Acceptable(batch[d])
    /\ settled' = settled \cup EventsIn(batch[d])
    /\ drain' = [drain EXCEPT ![d] = "accepted"]
    /\ UNCHANGED <<spool, written, batch>>

\* Mutation: as many lines as were sent are cut off the front.
WithoutFront(lines) == SubSeq(spool, Len(lines) + 1, Len(spool))

\* The j-th of a set of numbers.
Rank(K, i) == Cardinality({k \in K : k <= i})
Nth(K, j)  == CHOOSE i \in K : Rank(K, i) = j

\* _remove_sent_lines: by content, whatever became of the front meanwhile; the
\* lines that stay keep their order.
WithoutSent(lines) ==
    LET Kept == {i \in 1..Len(spool) : spool[i] \notin ToSet(lines)}
    IN  [j \in 1..Cardinality(Kept) |-> spool[Nth(Kept, j)]]

\* The answer arrives.
SentRemoved(d) ==
    /\ drain[d] = "accepted"
    /\ spool' = WithoutSent(batch[d])
    /\ drain' = [drain EXCEPT ![d] = "idle"]
    /\ batch' = [batch EXCEPT ![d] = <<>>]
    /\ UNCHANGED <<written, settled>>

\* Mutation: the flag is only cleared on the way out that succeeded.
DrainStuck(d) ==
    /\ drain[d] # "idle"
    /\ batch[d] # <<>>
    /\ batch' = [batch EXCEPT ![d] = <<>>]
    /\ UNCHANGED <<spool, written, settled, drain>>

\* No answer, or a refusal: the lines stay, the flag is cleared.
DrainFails(d) ==
    /\ drain[d] # "idle"
    /\ drain' = [drain EXCEPT ![d] = "idle"]
    /\ batch' = [batch EXCEPT ![d] = <<>>]
    /\ UNCHANGED <<spool, written, settled>>

\* The process dies: its loggers go, the file stays.
SpoolDies == /\ batch' = [d \in Loggers |-> <<>>]
             /\ drain' = [d \in Loggers |-> "idle"]
             /\ UNCHANGED <<spool, written, settled>>

-----------------------------------------------------------------------------
\* Every event that emit wrote is in the file, in the ledger, or among those
\* that drop-oldest counted when it discarded them, whichever drains and drops
\* overlapped.
NothingLost == written \subseteq EventsIn(spool) \cup settled

=============================================================================
