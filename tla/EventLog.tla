------------------------------- MODULE EventLog -------------------------------
(***************************************************************************)
(* The history of warnings and errors (event_log.py): log messages fold    *)
(* into entries with the same key, and conditions -- problems with a start *)
(* and an end -- are synced with the list of those that hold now.  A sync  *)
(* runs in a transaction from its first write on; the row of the first     *)
(* condition is read before that, so the operator's clear or the hourly    *)
(* prune can come in between.                                              *)
(*                                                                         *)
(* One category of conditions is modelled: each is synced by one thread.   *)
(* An entry is known by its key and the time it was opened; texts, counts  *)
(* and occurrences are left out.  Time stops at MaxTime.                   *)
(***************************************************************************)
EXTENDS Integers, FiniteSets

CONSTANTS
  Conditions,  \* keys of conditions
  Messages,    \* keys of log messages
  Fold,        \* FOLD_SECONDS
  Reopen,      \* REOPEN_SECONDS
  Keep,        \* keep_days
  MaxEvents,   \* MAX_EVENTS
  MaxTime

ASSUME EventConstants ==
  /\ Conditions \cap Messages = {}
  /\ Fold \in Nat /\ Reopen \in Nat \ {0} /\ MaxTime \in Nat

VARIABLES
  now,
  present,   \* conditions that hold in the world
  log,       \* the events table
  sync       \* the sync that is running: its list, the first key and the row read for it

eventVars == <<now, present, log, sync>>

StillOpen == -1      \* resolved_at of an open condition
NoRow == [key |-> "none", first |-> -1, last |-> -1, resolved |-> -1]
NotSyncing == [list |-> {}, first |-> "idle", row |-> NoRow]

Open(e) == e.key \in Conditions /\ e.resolved = StillOpen
Entry(k) == [key |-> k, first |-> now, last |-> now, resolved |-> StillOpen]

\* The entry of a key with the highest id, or NoRow.
Latest(k) == IF \A e \in log : e.key # k THEN NoRow
             ELSE CHOOSE e \in log : e.key = k /\ \A f \in log : f.key = k => f.first <= e.first

----------------------------------------------------------------------------
TimePasses ==
  /\ now < MaxTime
  /\ now' = now + 1
  /\ UNCHANGED <<present, log, sync>>

Changes(c) ==
  /\ present' = IF c \in present THEN present \ {c} ELSE present \cup {c}
  /\ UNCHANGED <<now, log, sync>>

\* record_log; DBLogHandler lets one thread of a service through at a time.
Recent_slip(e) == e.last > now
Recent(e) == e.last >= now - Fold

Folded_slip(e) == [e EXCEPT !.first = now]
Folded(e) == [e EXCEPT !.last = now]

RecordLog(k) ==
  /\ LET e == Latest(k)
     IN  log' = IF e # NoRow /\ Recent(e) THEN (log \ {e}) \cup {Folded(e)}
                ELSE log \cup {Entry(k)}
  /\ UNCHANGED <<now, present, sync>>

----------------------------------------------------------------------------
\* sync_conditions

SyncReads ==
  /\ sync = NotSyncing
  /\ \/ /\ present = {}
        /\ sync' = [list |-> {}, first |-> "none", row |-> NoRow]
     \/ \E c \in present : sync' = [list |-> present, first |-> c, row |-> Latest(c)]
  /\ UNCHANGED <<now, present, log>>

Row(c) == IF c = sync.first THEN sync.row ELSE Latest(c)

\* An UPDATE of a row that was deleted since does nothing.
Updated(e, fields) == IF e \in log THEN {fields} ELSE {}

Again(e) == e.resolved # StillOpen /\ now - e.resolved < Reopen

Synced(c) ==
  LET e == Row(c)
  IN  IF e # NoRow /\ (Open(e) \/ Again(e))
      THEN Updated(e, [e EXCEPT !.last = now, !.resolved = StillOpen])
      ELSE {Entry(c)}

Ended(e) == [e EXCEPT !.resolved = now, !.last = now]

Gone_slip == {}
Gone == {e \in log : Open(e) /\ e.key \notin sync.list}

SyncWrites ==
  /\ sync # NotSyncing
  /\ LET rows == {Row(c) : c \in {d \in sync.list : Row(d) # NoRow /\ (Open(Row(d)) \/ Again(Row(d)))}}
     IN  log' = ((log \ rows) \ Gone)
                \cup (UNION {Synced(c) : c \in sync.list})
                \cup {Ended(e) : e \in Gone}
  /\ sync' = NotSyncing
  /\ UNCHANGED <<now, present>>

----------------------------------------------------------------------------
\* prune: old entries, then the oldest past MAX_EVENTS, open conditions never.
Spared(e) == Open(e)

Prune ==
  /\ LET young == {e \in log : e.last >= now - Keep \/ Spared(e)}
     IN  \E top \in SUBSET young :
           /\ Cardinality(top) = IF Cardinality(young) < MaxEvents THEN Cardinality(young) ELSE MaxEvents
           /\ \A e \in top, f \in young \ top : e.last >= f.last
           /\ log' = top \cup {e \in young : Spared(e)}
  /\ UNCHANGED <<now, present, sync>>

\* events_clear
Clear ==
  /\ log' = {e \in log : Open(e)}
  /\ UNCHANGED <<now, present, sync>>

ClearAll ==
  /\ log' = {}
  /\ UNCHANGED <<now, present, sync>>

\* A sync that is cut off has written nothing.
Restart ==
  /\ sync' = NotSyncing
  /\ UNCHANGED <<now, present, log>>

EventInit == now = 0 /\ present = {} /\ log = {} /\ sync = NotSyncing

EventNext ==
  \/ TimePasses \/ SyncReads \/ SyncWrites \/ Prune \/ Clear \/ ClearAll \/ Restart
  \/ \E c \in Conditions : Changes(c)
  \/ \E k \in Messages : RecordLog(k)

EventSpec == EventInit /\ [][EventNext]_eventVars

\* The minute loop syncs, and is not restarted for ever in the middle of it.
EventFairness == WF_eventVars(SyncReads) /\ SF_eventVars(SyncWrites)
FairEventSpec == EventSpec /\ EventFairness

----------------------------------------------------------------------------
\* Properties

EventTypeOK ==
  /\ now \in 0 .. MaxTime /\ present \subseteq Conditions
  /\ \A e \in log : /\ e.key \in Conditions \cup Messages
                    /\ e.first \in 0 .. now /\ e.last \in e.first .. now
                    /\ e.resolved \in -1 .. now
  /\ sync.list \subseteq Conditions

\* One problem is one entry: a condition that comes back soon, or a message that
\* repeats, goes on in its entry, whatever was pruned or cleared under a sync.
OneEntry == \A e, f \in log : e.key = f.key /\ e.first < f.first =>
  IF e.key \in Conditions THEN ~Open(e) /\ f.first - e.resolved >= Reopen
  ELSE f.first - e.last > Fold

\* A condition that lasts is open in the history in the end, unless the operator goes
\* on deleting everything that is open, and one that has passed is resolved.
FollowsTheWorld == \A c \in Conditions :
  /\ <>[](c \in present) /\ <>[][ClearAll => Prune \/ Clear]_eventVars => <>[](\E e \in log : e.key = c /\ Open(e))
  /\ <>[](c \notin present) => <>[](\A e \in log : e.key = c => ~Open(e))
==============================================================================
