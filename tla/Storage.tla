------------------------------- MODULE Storage -------------------------------
(***************************************************************************)
(* The history of fwcore/storage.py: packet, web and sweeper threads put   *)
(* rows into a bounded queue without waiting, one writer thread connects   *)
(* to SQLite, takes the rows out and inserts them, trimming the events     *)
(* table now and then; close() asks the writer to finish and waits at most *)
(* three seconds, after which run.py ends the process.  An exception while *)
(* the writer connects ends its thread, and nothing starts another.        *)
(*                                                                         *)
(* A row is its table and a number in the order of submission.  Whether a  *)
(* trim is due (a minute after the last) may be answered either way after  *)
(* any row.                                                                *)
(***************************************************************************)
EXTENDS Naturals, Sequences, SequencesExt

CONSTANTS
    MaxQueue,       \* queue.Queue(maxsize=10000)
    Keep,           \* keep_events
    InsertCanFail,  \* whether SQLite may refuse an insert or a trim
    ConnectCanFail, \* whether connecting may raise in the writer thread
    MaxRows         \* bound: rows submitted

ASSUME StorageAssumption ==
    /\ MaxQueue \in Nat \ {0}
    /\ Keep \in Nat
    /\ InsertCanFail \in BOOLEAN
    /\ ConnectCanFail \in BOOLEAN
    /\ MaxRows \in Nat

Table == {"events", "alerts", "blocks"}
Row == [id : 1..MaxRows, table : Table]
NoRow == [id |-> 0, table |-> "none"]

VARIABLES
    queue,      \* self._q
    held,       \* the row the writer has taken and not yet inserted
    rows,       \* rows[t]: the rows of a table, oldest first
    writer,     \* "connecting", "loop", "ended" or "dead" (could not connect)
    stop,       \* self._stop
    closing,    \* close(): "no", "joining", "joined" or "timedOut"
    process,    \* "up" or "gone"
    submitted,  \* history: how many rows were submitted
    lost,       \* history: rows dropped by a full queue or a failed insert
    trimmed,    \* history: events removed by a trim
    atClose     \* history: `submitted` when close() was called

vars == <<queue, held, rows, writer, stop, closing, process,
          submitted, lost, trimmed, atClose>>

TypeOK ==
    /\ queue \in Seq(Row) /\ Len(queue) <= MaxQueue
    /\ held \in Row \cup {NoRow}
    /\ \A t \in Table : rows[t] \in Seq([id : 1..MaxRows, table : {t}])
    /\ writer \in {"connecting", "loop", "ended", "dead"}
    /\ stop \in BOOLEAN
    /\ closing \in {"no", "joining", "joined", "timedOut"}
    /\ process \in {"up", "gone"}
    /\ submitted \in 0..MaxRows
    /\ lost \subseteq Row
    /\ trimmed \subseteq Row
    /\ atClose \in 0..MaxRows

Init ==
    /\ queue = <<>>
    /\ held = NoRow
    /\ rows = [t \in Table |-> <<>>]
    /\ writer = "connecting"
    /\ stop = FALSE
    /\ closing = "no"
    /\ process = "up"
    /\ submitted = 0
    /\ lost = {}
    /\ trimmed = {}
    /\ atClose = 0

-----------------------------------------------------------------------------
(* Mutants.                                                                 *)

TakenButLeft == queue
OldestKept(events) == SubSeq(events, 1, IF Len(events) < Keep THEN Len(events) ELSE Keep)
StopsAtOnce == stop

-----------------------------------------------------------------------------
(* Helpers.                                                                 *)

HasRoom == Len(queue) < MaxQueue

Enqueued(row) == Append(queue, row)

Dequeued == Tail(queue)

(* DELETE ... WHERE id NOT IN (the Keep newest).                            *)
Newest(events) ==
    IF Len(events) <= Keep THEN events
    ELSE SubSeq(events, Len(events) - Keep + 1, Len(events))

(* `not stop or not empty` is false, at the top of the writer's loop.       *)
LoopEnds == stop /\ queue = <<>>

TrimIf(due, tables) ==
    IF due THEN [tables EXCEPT !["events"] = Newest(@)] ELSE tables

-----------------------------------------------------------------------------
(* log_event(), log_alert(), log_block(): put_nowait.                       *)
Submit(table) ==
    /\ process = "up"
    /\ submitted < MaxRows
    /\ submitted' = submitted + 1
    /\ LET row == [id |-> submitted + 1, table |-> table]
       IN  IF HasRoom
           THEN queue' = Enqueued(row) /\ lost' = lost
           ELSE queue' = queue /\ lost' = lost \cup {row}
    /\ UNCHANGED <<held, rows, writer, stop, closing, process, trimmed, atClose>>

(* The writer thread connects first; outside any `try`.                     *)
Connect(works) ==
    /\ process = "up"
    /\ writer = "connecting"
    /\ ~ConnectCanFail => works
    /\ writer' = IF works THEN "loop" ELSE "dead"
    /\ UNCHANGED <<queue, held, rows, stop, closing, process, submitted, lost, trimmed, atClose>>

(* Its loop: take a row ...                                                 *)
Running == process = "up" /\ writer = "loop"

Get ==
    /\ Running
    /\ held = NoRow
    /\ ~LoopEnds
    /\ queue # <<>>
    /\ held' = Head(queue)
    /\ queue' = Dequeued
    /\ UNCHANGED <<rows, writer, stop, closing, process, submitted, lost, trimmed, atClose>>

(* ... and insert it; an exception loses the row, or leaves the trim undone. *)
Insert(due, inserts, trims) ==
    /\ Running
    /\ held # NoRow
    /\ ~InsertCanFail => inserts /\ trims
    /\ LET filled == IF inserts
                     THEN [rows EXCEPT ![held.table] = Append(@, held)] ELSE rows
       IN  /\ rows' = TrimIf(due /\ trims, filled)
           /\ lost' = IF inserts THEN lost ELSE lost \cup {held}
           /\ trimmed' = trimmed \cup (Range(filled["events"]) \ Range(rows'["events"]))
    /\ held' = NoRow
    /\ UNCHANGED <<queue, writer, stop, closing, process, submitted, atClose>>

WriterEnds ==
    /\ Running
    /\ held = NoRow
    /\ LoopEnds
    /\ writer' = "ended"
    /\ UNCHANGED <<queue, held, rows, stop, closing, process, submitted, lost, trimmed, atClose>>

-----------------------------------------------------------------------------
(* close()                                                                  *)
Close ==
    /\ process = "up"
    /\ closing = "no"
    /\ stop' = TRUE
    /\ closing' = "joining"
    /\ atClose' = submitted
    /\ UNCHANGED <<queue, held, rows, writer, process, submitted, lost, trimmed>>

(* join(timeout=3) returns because the thread has ended, or without it.     *)
JoinReturns ==
    /\ process = "up"
    /\ closing = "joining"
    /\ closing' = IF writer \in {"ended", "dead"} THEN "joined" ELSE "timedOut"
    /\ UNCHANGED <<queue, held, rows, writer, stop, process, submitted, lost, trimmed, atClose>>

(* os._exit() after close(), or a kill at any time: the writer, a daemon    *)
(* thread, ends with the process.                                           *)
ProcessEnds ==
    /\ process = "up"
    /\ process' = "gone"
    /\ UNCHANGED <<queue, held, rows, writer, stop, closing, submitted, lost, trimmed, atClose>>

Write ==
    \/ \E works \in BOOLEAN : Connect(works)
    \/ Get
    \/ (\E due, inserts, trims \in BOOLEAN : Insert(due, inserts, trims))

Next ==
    \/ \E table \in Table : Submit(table)
    \/ Write
    \/ WriterEnds
    \/ Close
    \/ JoinReturns
    \/ ProcessEnds

Spec == Init /\ [][Next]_vars

(* The writer thread is scheduled; SQLite answers within its own timeout.   *)
FairSpec == Spec /\ WF_vars(Write)

-----------------------------------------------------------------------------
(* Properties.                                                              *)

InFlight == Range(queue) \cup ({held} \ {NoRow})
Stored == UNION {Range(rows[t]) : t \in Table}
Ids(set) == {row.id : row \in set}

(* Every row submitted is in exactly one place: waiting, being written, in  *)
(* its table, trimmed away, or knowingly lost; none vanishes or is doubled. *)
RowsAccounted ==
    /\ Ids(InFlight \cup Stored \cup lost \cup trimmed) = 1..submitted
    /\ LET places == <<InFlight, Stored, lost, trimmed>>
       IN  \A i, j \in 1..4 : i # j => places[i] \cap places[j] = {}
    /\ IsInjective(queue) /\ held \notin Range(queue)

(* A trim removes an event only if Keep newer ones are left, and never      *)
(* touches the other tables.                                                *)
TrimsOldest ==
    [][\A row \in Stored \ Stored' :
          /\ row.table = "events"
          /\ Len(rows'["events"]) = Keep
          /\ \A left \in Range(rows'["events"]) : left.id > row.id]_vars

(* When the join of close() returned because the thread had ended, either   *)
(* every row submitted before close() is in its table, or was lost or       *)
(* trimmed earlier, and only rows submitted after close() stay in the       *)
(* queue; or the writer never got its connection, and then no row was ever  *)
(* taken out.                                                               *)
NothingTaken == held = NoRow /\ Stored = {} /\ trimmed = {}
CloseDrains ==
    closing = "joined" =>
        IF writer = "dead" THEN NothingTaken
        ELSE \A row \in InFlight : row.id > atClose

(* A row submitted before close() does not wait for ever while the process  *)
(* lives and the writer has its connection, whatever else is submitted and  *)
(* even if close() gave up waiting.                                         *)
Waits(id) == id \in Ids(InFlight)
EveryRowSettles ==
    \A id \in 1..MaxRows :
        (Waits(id) /\ ~stop) ~> (~Waits(id) \/ process = "gone" \/ writer = "dead")

-----------------------------------------------------------------------------
(* What the documents say and the code does not do.                         *)

(* storage.py:8: "blocks - a log of every block and unblock": no such row   *)
(* is dropped.                                                              *)
EveryBlockLogged == \A row \in lost : row.table # "blocks"

(* storage.py:12: "writes go onto a queue and a single background thread    *)
(* drains it": close() that joined the writer left nothing of before it.    *)
JoinMeansDrained == closing = "joined" => \A row \in InFlight : row.id > atClose
=============================================================================
