------------------------------ MODULE Streams ------------------------------
(***************************************************************************)
(* The streams of row events that share one index (_WatchStream in         *)
(* packages/python/dirsql/_async.py, watch() in packages/ts/src/dirsql.ts, *)
(* over poll_once and reconcile in packages/rust/src/lib.rs).              *)
(*                                                                         *)
(* A change of the rows is told as events (RowDiff), found by a watch      *)
(* batch or by a query's own reading of the files.  A query leaves its     *)
(* events in an outbox, for the next poll.  Any number of streams share    *)
(* one poll at a time: whichever runs dry first starts it, and its events  *)
(* go to the buffer of each.  LiveIndex has the rejections of a batch, and *)
(* FreshIndex the steps of a query.                                        *)
(***************************************************************************)
EXTENDS RowDiff, SequencesExt

CONSTANTS
  Units,       \* what is diffed as a whole: a file's rows, or a whole table's
  Tables,      \* those that are a table, which a per-table hook makes
  Contents,    \* what each may hold; <<>> is a file that is not there
  Way,         \* how the rows of each are told apart (RowDiff)
  Starts,      \* what they all hold when the index has been built
  Consumers,
  MaxChanges   \* bound: how often the files change

Rows == UNION {UNION {ToSet(content) : content \in Contents[u]} : u \in Units}

Held(u) == Contents[u] \cup {<<>>}

ASSUME ContentsAssumption ==
  /\ \A u \in Units : Contents[u] \subseteq Seq(Rows)
  /\ Starts \subseteq [Units -> UNION {Contents[u] : u \in Units}]
  /\ \A start \in Starts, u \in Units : start[u] \in Contents[u]
  /\ NoRow \notin Rows
  /\ Way \in [Units -> {"place", "key", "value"}]
  /\ MaxChanges \in Nat

RowChange == [old : Rows \cup {NoRow}, new : Rows \cup {NoRow}]

\* The events that tell of a unit from one content to another.
Diff ==
  [u \in Units |-> [old \in Held(u) |-> [new \in Held(u) |-> RowEvents(Way[u], old, new)]]]

VARIABLES
  disk,      \* the rows each unit's hook makes of the files now
  changes,   \* (not in the code) how often the files have changed
  watching,  \* has the watcher been started?
  queue,     \* the file events it holds
  rows,      \* the rows of the index
  outbox,    \* the events of the queries since the last batch (FreshState.outbox)
  poll,      \* where the shared poll is (_watch_poll)
  taken,     \* the file events it has taken
  marked,    \* the tables whose hook runs when it has applied them
  result,    \* the row events it has made of them
  stream,    \* whether each consumer's stream is new, open or left
  asking,    \* the consumers that await an event
  buffer,    \* the events each stream has yet to yield
  seen       \* (not in the code) the rows each consumer has by what it was told

files     == <<disk, changes>>
polling   == <<poll, taken, marked, result>>
consuming == <<stream, asking, buffer, seen>>
vars == <<files, watching, queue, rows, outbox, polling, consuming>>

Open == {c \in Consumers : stream[c] = "open"}

-----------------------------------------------------------------------------
(* The files. *)

Change(u) ==
  /\ changes < MaxChanges
  /\ changes' = changes + 1
  /\ \E now \in Contents[u] \ {disk[u]} :
       /\ disk' = [disk EXCEPT ![u] = now]
       /\ queue' = IF watching THEN Append(queue, [unit |-> u, gone |-> now = <<>>]) ELSE queue
  /\ UNCHANGED <<watching, rows, outbox, polling, consuming>>

-----------------------------------------------------------------------------
(* The index. *)

Telling(u, new) ==
  LET changed == Diff[u][rows[u]][new]
  IN  [i \in DOMAIN changed |-> [unit |-> u, change |-> changed[i]]]

\* A query and a batch exclude each other (FreshState's mutex).
Applying == poll \in {"routing", "refreshing"}

\* A query reads the files it must and drops the rows of those gone, a unit at
\* a time: which those are is left open here.
Query(u) ==
  /\ ~Applying
  /\ rows[u] # disk[u]
  /\ rows' = [rows EXCEPT ![u] = disk[u]]
  /\ outbox' = outbox \o Telling(u, disk[u])
  /\ UNCHANGED <<files, watching, queue, polling, consuming>>

-----------------------------------------------------------------------------
(* The shared poll. *)

PollTakes ==
  /\ poll = "waiting"
  /\ queue # <<>>
  /\ poll' = "taken"
  /\ taken' = queue
  /\ queue' = <<>>
  /\ UNCHANGED <<files, watching, rows, outbox, marked, result, consuming>>

\* Mutant of PollTimesOut: with no file events there is nothing to apply.
PollTimesOut_empty ==
  /\ poll = "waiting"
  /\ queue = <<>>
  /\ poll' = "none"
  /\ UNCHANGED <<files, watching, queue, rows, outbox, taken, marked, result, consuming>>

\* The outbox is taken all the same.
PollTimesOut ==
  /\ poll = "waiting"
  /\ queue = <<>>
  /\ poll' = "taken"
  /\ UNCHANGED <<files, watching, queue, rows, outbox, taken, marked, result, consuming>>

\* The batch has the index to itself, and first takes the outbox.
PollBegins ==
  /\ poll = "taken"
  /\ poll' = IF taken = <<>> THEN "applied" ELSE "routing"
  /\ result' = outbox
  /\ outbox' = <<>>
  /\ UNCHANGED <<files, watching, queue, rows, taken, marked, consuming>>

Become(u, new) ==
  /\ rows' = [rows EXCEPT ![u] = new]
  /\ result' = result \o Telling(u, new)

handle_delete(u) == Become(u, <<>>) /\ UNCHANGED marked

\* A path that has vanished meanwhile is left to its own event.
handle_upsert(u) ==
  IF disk[u] = <<>> THEN UNCHANGED <<rows, result, marked>>
  ELSE Become(u, disk[u]) /\ UNCHANGED marked

mark(u) == marked' = marked \cup {u} /\ UNCHANGED <<rows, result>>

PollRoutes ==
  /\ poll = "routing"
  /\ taken # <<>>
  /\ taken' = Tail(taken)
  /\ LET event == Head(taken)
     IN  \/ event.unit \in Tables /\ mark(event.unit)
         \/ event.unit \notin Tables /\ event.gone /\ handle_delete(event.unit)
         \/ event.unit \notin Tables /\ ~event.gone /\ handle_upsert(event.unit)
  /\ UNCHANGED <<files, watching, queue, outbox, poll, consuming>>

\* A batch takes in what came meanwhile; from TypeScript it does not.
PollDrains ==
  /\ poll = "routing"
  /\ taken = <<>> /\ queue # <<>>
  /\ taken' = queue
  /\ queue' = <<>>
  /\ UNCHANGED <<files, watching, rows, outbox, poll, marked, result, consuming>>

\* A per-table hook runs over the files there are, after the other events.
PollRefreshes(u) ==
  /\ Applying
  /\ taken = <<>> /\ u \in marked
  /\ Become(u, disk[u])
  /\ marked' = marked \ {u}
  /\ poll' = "refreshing"
  /\ UNCHANGED <<files, watching, queue, outbox, taken, consuming>>

PollCommits ==
  /\ Applying
  /\ taken = <<>> /\ marked = {}
  /\ poll' = "applied"
  /\ UNCHANGED <<files, watching, queue, rows, outbox, taken, marked, result, consuming>>

\* Mutant of Delivered: the streams that wait get the events.
Delivered_to_waiting == Open \cap asking

Delivered == Open

\* Mutant of PollDelivers: the result is kept.
PollDelivers_keeps ==
  /\ poll = "applied"
  /\ buffer' = [c \in Consumers |-> IF c \in Delivered THEN buffer[c] \o result ELSE buffer[c]]
  /\ poll' = "none"
  /\ UNCHANGED <<files, watching, queue, rows, outbox, taken, marked, result, stream, asking, seen>>

PollDelivers ==
  /\ poll = "applied"
  /\ buffer' = [c \in Consumers |-> IF c \in Delivered THEN buffer[c] \o result ELSE buffer[c]]
  /\ poll' = "none"
  /\ result' = <<>>
  /\ UNCHANGED <<files, watching, queue, rows, outbox, taken, marked, stream, asking, seen>>

-----------------------------------------------------------------------------
(* The consumers. *)

Pending == result \o outbox

\* How many more of a row a unit has after the events of all.
GainOf(u, events, row) ==
  Cardinality({i \in DOMAIN events : events[i].unit = u /\ events[i].change.new = row})
    - Cardinality({i \in DOMAIN events : events[i].unit = u /\ events[i].change.old = row})

\* The rows of the index but for the changes no stream has been handed yet:
\* what a stream opened now is told the changes of.
Told ==
  [u \in Units |->
    [row \in Rows |-> Count(rows[u], row) - GainOf(u, Pending, row)]]

\* watch(), which starts the watcher.
Watch(c) ==
  /\ stream[c] = "new"
  /\ watching' = TRUE
  /\ stream' = [stream EXCEPT ![c] = "open"]
  /\ seen' = [seen EXCEPT ![c] = Told]
  /\ UNCHANGED <<files, queue, rows, outbox, polling, asking, buffer>>

\* A stream that has run dry joins the poll under way, or starts one.
Await(c) ==
  /\ c \in Open
  /\ buffer[c] = <<>>
  /\ c \notin asking \/ poll = "none"
  /\ asking' = asking \cup {c}
  /\ poll' = IF poll = "none" THEN "waiting" ELSE poll
  /\ UNCHANGED <<files, watching, queue, rows, outbox, taken, marked, result, stream, buffer, seen>>

Heard(c, event) ==
  [u \in Units |-> [row \in Rows |-> seen[c][u][row] + GainOf(u, <<event>>, row)]]

Yield(c) ==
  /\ c \in Open
  /\ buffer[c] # <<>>
  /\ seen' = [seen EXCEPT ![c] = Heard(c, Head(buffer[c]))]
  /\ buffer' = [buffer EXCEPT ![c] = Tail(buffer[c])]
  /\ asking' = asking \ {c}
  /\ UNCHANGED <<files, watching, queue, rows, outbox, polling, stream>>

\* Mutant of Cancel: the poll is cancelled with the wait.
Cancel_unshielded(c) ==
  /\ c \in asking
  /\ asking' = asking \ {c}
  /\ poll' = "none"
  /\ taken' = <<>> /\ marked' = {} /\ result' = <<>>
  /\ UNCHANGED <<files, watching, queue, rows, outbox, stream, buffer, seen>>

\* The consumer's wait is cancelled; the poll, shielded, goes on.
Cancel(c) ==
  /\ c \in asking
  /\ asking' = asking \ {c}
  /\ UNCHANGED <<files, watching, queue, rows, outbox, polling, stream, buffer, seen>>

\* The stream is dropped, or its loop is left.
Leave(c) ==
  /\ c \in Open
  /\ stream' = [stream EXCEPT ![c] = "left"]
  /\ asking' = asking \ {c}
  /\ buffer' = [buffer EXCEPT ![c] = <<>>]
  /\ UNCHANGED <<files, watching, queue, rows, outbox, polling, seen>>

-----------------------------------------------------------------------------
Init ==
  /\ disk \in Starts
  /\ changes = 0
  /\ watching = FALSE
  /\ queue = <<>>
  /\ rows = disk
  /\ outbox = <<>>
  /\ poll = "none" /\ taken = <<>> /\ marked = {} /\ result = <<>>
  /\ stream = [c \in Consumers |-> "new"]
  /\ asking = {}
  /\ buffer = [c \in Consumers |-> <<>>]
  /\ seen = [c \in Consumers |-> [u \in Units |-> [row \in Rows |-> 0]]]

PollStep ==
  \/ PollTakes \/ PollTimesOut
  \/ PollBegins \/ PollRoutes \/ PollDrains
  \/ \E u \in Units : PollRefreshes(u)
  \/ PollCommits \/ PollDelivers

ConsumerStep(c) == Watch(c) \/ Await(c) \/ Yield(c) \/ Cancel(c) \/ Leave(c)

Next ==
  \/ \E u \in Units : Change(u) \/ Query(u)
  \/ PollStep
  \/ \E c \in Consumers : ConsumerStep(c)

Spec == Init /\ [][Next]_vars

\* A poll ends, and a consumer goes on asking for the next event.
FairSpec ==
  /\ Spec
  /\ WF_vars(PollStep)
  /\ \A c \in Consumers : WF_vars(Await(c) \/ Yield(c))

-----------------------------------------------------------------------------
(* Properties. *)

FileEvent == [unit : Units, gone : BOOLEAN]
RowEvent  == [unit : Units, change : RowChange]

TypeOK ==
  /\ DOMAIN disk = Units /\ DOMAIN rows = Units
  /\ \A u \in Units : disk[u] \in Contents[u] /\ rows[u] \in Held(u)
  /\ changes \in 0 .. MaxChanges
  /\ watching \in BOOLEAN
  /\ queue \in Seq(FileEvent) /\ taken \in Seq(FileEvent)
  /\ outbox \in Seq(RowEvent) /\ result \in Seq(RowEvent)
  /\ poll \in {"none", "waiting", "taken", "routing", "refreshing", "applied"}
  /\ marked \in SUBSET Units
  /\ taken # <<>> => poll \in {"taken", "routing"}
  /\ marked # {} => Applying
  /\ result # <<>> => Applying \/ poll = "applied"
  /\ stream \in [Consumers -> {"new", "open", "left"}]
  /\ asking \subseteq Open
  /\ \A c \in Consumers :
       buffer[c] # <<>> => c \in Open
  /\ buffer \in [Consumers -> Seq(RowEvent)]
  /\ seen \in [Consumers -> [Units -> [Rows -> Int]]]

\* Nothing gets into the outbox past a batch.
Lock == Applying => outbox = <<>>

\* "every stream receives every event observed after it was created", once:
\* what a consumer has by what it heard, with what it has yet to hear, is what
\* the index holds, whoever found the change and whoever polled for it.
EveryStreamIsTold ==
  \A c \in Open, u \in Units, row \in Rows :
    seen[c][u][row] + GainOf(u, buffer[c] \o Pending, row) = Count(rows[u], row)

\* differ.rs: "a consumer replaying the events never holds more rows than the
\* table does", before or after the change; and no event repeats a row.
NeverOverfull ==
  [][\A u \in Units : rows'[u] # rows[u] =>
       LET events == Diff[u][rows[u]][rows'[u]]
           peak   == IF Len(rows'[u]) > Len(rows[u]) THEN Len(rows'[u]) ELSE Len(rows[u])
       IN  \A n \in DOMAIN events :
             /\ events[n].old # events[n].new
             /\ Len(rows[u]) + Growth(First(n, events)) <= peak]_vars

\* The streams keep the promise of Broadcast: no event is lost, repeated, or
\* told out of turn on its way through outbox, poll and buffers.
Promise == INSTANCE Broadcast WITH
  Events  <- RowEvent,
  backlog <- Pending,
  unheard <- [c \in Consumers |-> IF c \in Open THEN buffer[c] \o Pending ELSE <<>>]

Broadcasts == Promise!Spec

\* Once the files rest, an open stream has told its consumer all there is to
\* tell: also of what a query found and no file event names.
StreamsCatchUp ==
  \A c \in Consumers : <>[](c \in Open => buffer[c] = <<>> /\ Pending = <<>>)

=============================================================================
