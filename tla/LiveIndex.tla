----------------------------- MODULE LiveIndex -----------------------------
(***************************************************************************)
(* A watched index: file events applied in batches, between queries        *)
(* (packages/rust/src/lib.rs, apply_file_events to handle_upsert).         *)
(*                                                                         *)
(* The watcher queues an event for each change.  A poller takes what is    *)
(* queued, waits for the index, and applies it in one transaction whose    *)
(* foreign keys are checked at its end.  A batch they reject is held, and  *)
(* replayed, as the files are by then, with each later one.  A query takes *)
(* the index between batches and reads the files itself; FreshIndex has    *)
(* its steps, which are one here.                                          *)
(***************************************************************************)
EXTENDS Naturals, Sequences, SequencesExt

CONSTANTS
  PerFile,        \* tables whose hook runs once for each file
  PerTable,       \* tables whose hook runs once over all the files
  Files,
  Dirs,           \* directories that come and go by being renamed
  Under,          \* the <<directory, file>> pairs; bound: one directory deep
  Matches,        \* the <<table, file>> pairs whose glob matches
  Contents,
  Absent,         \* no file, and no rows
  Consistent(_),  \* do rows break no foreign key?
  Overflows,      \* may the kernel drop events?
  Drains,         \* does a batch take in the events that come meanwhile?
  MaxChanges      \* bound: how often the files change

Keys == Matches

ASSUME LiveAssumption ==
  /\ PerFile \cap PerTable = {}
  /\ Keys \subseteq (PerFile \cup PerTable) \X Files
  /\ Files \cap Dirs = {} /\ Absent \notin Files \cup Dirs
  /\ Under \subseteq Dirs \X Files
  /\ \A p, q \in Under : p[2] = q[2] => p = q
  /\ Absent \notin Contents
  /\ Overflows \in BOOLEAN /\ Drains \in BOOLEAN
  /\ MaxChanges \in Nat

VARIABLES
  disk,      \* what each file holds
  dirs,      \* the directories there are
  changes,   \* (not in the code) how often the files have changed
  raised,    \* the events the kernel has for the watcher
  queue,     \* the events the watcher holds for the poller
  taken,     \* the events the poller has taken and not begun to apply
  held,      \* the events of the batches rejected (held)
  rows,      \* the rows of each key, as the content they were made from
  batch,     \* the files listed for each per-table hook (batch_files)
  known,     \* the keys the queries know of (FreshState.known)
  vouched,   \* those whose entry there lets a query not read them
  seeded,    \* FreshState.seeded
  pc,        \* who has the index, and where it is
  attempt,   \* which events the open transaction is trying
  again,     \* the held events it has yet to replay
  todo,      \* the events it has yet to route
  applied,   \* the events it has routed, but for the held ones
  marked,    \* the per-table tables to run again (PendingRefresh)
  saved      \* the rows its ROLLBACK restores

world   == <<disk, dirs, changes>>
events  == <<raised, queue, taken, held>>
fresh   == <<known, vouched, seeded>>
applier == <<pc, attempt, again, todo, applied, marked, saved>>
vars    == <<world, events, rows, batch, fresh, applier>>

Held == Contents \cup {Absent}

Created(path) == [kind |-> "created", path |-> path]
Deleted(path) == [kind |-> "deleted", path |-> path]
Rescan        == [kind |-> "rescan", path |-> Absent]

is_file(f) == disk[f] # Absent
KeysOf(fs) == {k \in Keys : k[2] \in fs}
FilesUnder(d) == {f \in Files : <<d, f>> \in Under}
Existing == {f \in Files : is_file(f)}

\* The rows a build would make now.
Disk == [k \in Keys |-> disk[k[2]]]

-----------------------------------------------------------------------------
(* The files, and the events the watcher raises.  Creating, writing and     *)
(* touching a file are routed alike, and so are one event here.             *)

Raise(event) ==
  \/ raised' = Append(raised, event)
  \/ Overflows /\ raised' = Append(raised, Rescan)

Changed(fs) ==
  /\ changes < MaxChanges
  /\ changes' = changes + 1
  /\ vouched' = {k \in vouched : k[2] \notin fs}
  /\ UNCHANGED <<queue, taken, held, rows, batch, known, seeded, applier>>

Write(f) ==
  /\ \A d \in Dirs : <<d, f>> \in Under => d \in dirs
  /\ \E c \in Contents : disk' = [disk EXCEPT ![f] = c]
  /\ Raise(Created(f))
  /\ Changed({f})
  /\ UNCHANGED dirs

Unlink(f) ==
  /\ is_file(f)
  /\ disk' = [disk EXCEPT ![f] = Absent]
  /\ Raise(Deleted(f))
  /\ Changed({f})
  /\ UNCHANGED dirs

\* A directory is renamed out of the tree, or into it, with all it holds.
MoveOut(d) ==
  /\ d \in dirs
  /\ dirs' = dirs \ {d}
  /\ disk' = [f \in Files |-> IF f \in FilesUnder(d) THEN Absent ELSE disk[f]]
  /\ Raise(Deleted(d))
  /\ Changed(FilesUnder(d))

MoveIn(d) ==
  /\ d \notin dirs
  /\ dirs' = dirs \cup {d}
  /\ \E moved \in [FilesUnder(d) -> Held] :
       disk' = [f \in Files |-> IF f \in FilesUnder(d) THEN moved[f] ELSE disk[f]]
  /\ Raise(Created(d))
  /\ Changed(FilesUnder(d))

-----------------------------------------------------------------------------
(* What one event does to the index, within a transaction: to each key of   *)
(* the files it is about, none of which touches another's.                  *)

\* handle_upsert, and track_batch_file for a per-table hook's file.  A file
\* that is gone is left as it was.
upsert(ix, ks) ==
  LET listed == {k \in ks : k[1] \in PerTable}
  IN  [rows   |-> [k \in Keys |-> IF k \in ks \ listed /\ is_file(k[2]) THEN disk[k[2]]
                                 ELSE ix.rows[k]],
       batch  |-> (ix.batch \ listed) \cup {k \in listed : is_file(k[2])},
       marked |-> ix.marked \cup {k[1] : k \in listed}]

\* handle_delete: the file is taken to be gone.
delete(ix, ks) ==
  LET listed == {k \in ks : k[1] \in PerTable}
  IN  [rows   |-> [k \in Keys |-> IF k \in ks \ listed THEN Absent ELSE ix.rows[k]],
       batch  |-> ix.batch \ listed,
       marked |-> ix.marked \cup {k[1] : k \in listed}]

index_subtree(ix, fs) == upsert(ix, KeysOf(fs \cap Existing))

\* Mutant of delete_subtree: the per-table hooks' files are forgotten.
delete_subtree_owned(ix, fs) == delete(ix, {k \in KeysOf(fs) : k[1] \in PerFile})

delete_subtree(ix, fs) == delete(ix, {k \in KeysOf(fs) : k[1] \in PerTable => k \in ix.batch})

route_file_event(ix, event) ==
  CASE event.kind = "created" /\ event.path \in Files -> upsert(ix, KeysOf({event.path}))
    [] event.kind = "created" /\ event.path \in dirs  -> index_subtree(ix, FilesUnder(event.path))
    [] event.kind = "deleted" /\ event.path \in Files -> delete(ix, KeysOf({event.path}))
    [] event.kind = "deleted" /\ event.path \in Dirs  -> delete_subtree(ix, FilesUnder(event.path))
    [] OTHER -> ix

\* The rows of files that are gone go, each hook's list is made anew, and every
\* file there is is read.
rescan(ix) ==
  LET gone == {k \in Keys : k[1] \in PerFile /\ ~is_file(k[2])}
  IN  index_subtree([delete(ix, gone) EXCEPT !.batch = {}, !.marked = PerTable], Files)

\* Each marked hook runs over the files listed for it.
refresh_pending(ix) ==
  [k \in Keys |-> IF k[1] \notin ix.marked THEN ix.rows[k]
                  ELSE IF k \in ix.batch THEN disk[k[2]] ELSE Absent]

-----------------------------------------------------------------------------
(* The watcher's thread, and the poller. *)

Deliver ==
  /\ raised # <<>>
  /\ queue' = Append(queue, Head(raised))
  /\ raised' = Tail(raised)
  /\ UNCHANGED <<world, taken, held, rows, batch, fresh, applier>>

Receive ==
  /\ pc = "idle"
  /\ taken = <<>>
  /\ queue # <<>>
  /\ taken' = queue
  /\ queue' = <<>>
  /\ UNCHANGED <<world, raised, held, rows, batch, fresh, applier>>

AppendNew(seq, event) == IF event \in ToSet(seq) THEN seq ELSE Append(seq, event)

\* Mutant of restated: an event is replayed as it was.
restated_verbatim(event) == event

restated(event) ==
  IF event = Rescan THEN Rescan
  ELSE IF event.path \in Existing \cup dirs THEN Created(event.path)
  ELSE Deleted(event.path)

\* Each event is kept once.
hold(seq, more) ==
  LET kept[n \in 0 .. Len(more)] == IF n = 0 THEN seq ELSE AppendNew(kept[n - 1], more[n])
  IN  kept[Len(more)]

take_held == hold(<<>>, [i \in DOMAIN held |-> restated(held[i])])

Begin ==
  /\ pc = "idle"
  /\ taken # <<>>
  /\ pc' = "route"
  /\ attempt' = IF held = <<>> THEN "plain" ELSE "together"
  /\ held' = take_held
  /\ again' = held'
  /\ todo' = taken
  /\ taken' = <<>>
  /\ UNCHANGED <<world, raised, queue, rows, batch, fresh, applied, marked, saved>>

Index == [rows |-> rows, batch |-> batch, marked |-> marked]

Becomes(ix) == rows' = ix.rows /\ batch' = ix.batch /\ marked' = ix.marked

\* The held events go first.
RouteHeld ==
  /\ pc = "route"
  /\ again # <<>>
  /\ Becomes(route_file_event(Index, Head(again)))
  /\ again' = Tail(again)
  /\ UNCHANGED <<world, events, fresh, pc, attempt, todo, applied, saved>>

Route ==
  /\ pc = "route"
  /\ again = <<>>
  /\ todo # <<>>
  /\ Becomes(route_file_event(Index, Head(todo)))
  /\ applied' = Append(applied, Head(todo))
  /\ todo' = Tail(todo)
  /\ UNCHANGED <<world, events, fresh, pc, attempt, again, saved>>

\* Events that arrive while a batch is routed join it; but not the second
\* attempt, and not one applied by apply_file_events (the TypeScript poller).
MoreIsDue == Drains /\ attempt # "alone" /\ queue # <<>>

Late ==
  /\ pc = "route"
  /\ again = <<>> /\ todo = <<>>
  /\ MoreIsDue
  /\ todo' = queue
  /\ queue' = <<>>
  /\ UNCHANGED <<world, raised, taken, held, rows, batch, fresh,
                 pc, attempt, again, applied, marked, saved>>

ToRescan == Rescan \in ToSet(applied) \/ (attempt = "together" /\ Rescan \in ToSet(held))

\* Nothing more has arrived.  If events were lost the tree is walked.
Routed ==
  /\ pc = "route"
  /\ again = <<>> /\ todo = <<>>
  /\ ~MoreIsDue
  /\ pc' = "refresh"
  /\ IF ToRescan THEN Becomes(rescan(Index)) ELSE UNCHANGED <<rows, batch, marked>>
  /\ UNCHANGED <<world, events, fresh, attempt, again, todo, applied, saved>>

\* The per-table hooks, once each.
Refresh ==
  /\ pc = "refresh"
  /\ pc' = "commit"
  /\ rows' = refresh_pending(Index)
  /\ marked' = {}
  /\ UNCHANGED <<world, events, batch, fresh, attempt, again, todo, applied, saved>>

Finished ==
  /\ pc' = "idle"
  /\ applied' = <<>>
  /\ attempt' = "plain"

\* Mutant of Commit: the held events are never let go.
Commit_holds_on ==
  /\ pc = "commit"
  /\ Consistent(rows)
  /\ saved' = rows
  /\ Finished
  /\ UNCHANGED <<world, raised, queue, taken, held, rows, batch, fresh, again, todo, marked>>

Commit ==
  /\ pc = "commit"
  /\ Consistent(rows)
  /\ held' = IF attempt = "together" THEN <<>> ELSE held
  /\ saved' = rows
  /\ Finished
  /\ UNCHANGED <<world, raised, queue, taken, rows, batch, fresh, again, todo, marked>>

\* Mutant of Reject: a batch that is rejected is tried again, and again.
Reject_requeues ==
  /\ pc = "commit"
  /\ attempt # "together"
  /\ ~Consistent(rows)
  /\ rows' = saved
  /\ queue' = queue \o applied
  /\ Finished
  /\ UNCHANGED <<world, raised, held, taken, batch, fresh, again, todo, marked, saved>>

\* A foreign key is broken: the rows are rolled back and the events held.
\* `batch` is memory, not database: it stays.
Reject ==
  /\ pc = "commit"
  /\ attempt # "together"
  /\ ~Consistent(rows)
  /\ rows' = saved
  /\ held' = hold(held, applied)
  /\ Finished
  /\ UNCHANGED <<world, raised, queue, taken, batch, fresh, again, todo, marked, saved>>

\* With the held events it was rejected: the batch is tried alone.
TryAlone ==
  /\ pc = "commit"
  /\ attempt = "together"
  /\ ~Consistent(rows)
  /\ pc' = "route"
  /\ attempt' = "alone"
  /\ rows' = saved
  /\ todo' = applied
  /\ applied' = <<>>
  /\ UNCHANGED <<world, events, batch, fresh, again, marked, saved>>

-----------------------------------------------------------------------------
(* A query: reconcile, as one step. *)

Entries ==
  IF seeded THEN known
  ELSE {k \in Keys : IF k[1] \in PerTable THEN k \in batch ELSE rows[k] # Absent}

Found == {k \in Keys : is_file(k[2])}

AfterReads == upsert(Index, Found \ (vouched \cap Entries))

\* The rows of files known and not found go after every file is read.
AfterGone == delete(AfterReads, Entries \ Found)

QueryRows == refresh_pending(AfterGone)

Query ==
  /\ pc = "idle"
  /\ Consistent(QueryRows)
  /\ rows' = QueryRows
  /\ batch' = AfterGone.batch
  /\ known' = Found
  /\ vouched' \in {vouched \cap Entries, Found}
  /\ seeded' = TRUE
  /\ saved' = rows'
  /\ UNCHANGED <<world, events, pc, attempt, again, todo, applied, marked>>

\* It fails, and is rolled back, but for `batch`.
QueryFails ==
  /\ pc = "idle"
  /\ ~Consistent(QueryRows)
  /\ batch' = AfterGone.batch
  /\ known' = Entries
  /\ seeded' = TRUE
  /\ UNCHANGED <<world, events, rows, vouched, applier>>

-----------------------------------------------------------------------------
\* The build has just succeeded and the watcher is live.
Init ==
  /\ disk \in [Files -> Held]
  /\ Consistent(Disk)
  /\ dirs \in SUBSET Dirs
  /\ \A p \in Under : p[1] \notin dirs => disk[p[2]] = Absent
  /\ changes = 0
  /\ raised = <<>> /\ queue = <<>> /\ taken = <<>> /\ held = <<>>
  /\ rows = Disk
  /\ batch = {k \in Keys : k[1] \in PerTable /\ is_file(k[2])}
  /\ known = {} /\ seeded = FALSE
  /\ vouched = Found
  /\ pc = "idle"
  /\ attempt = "plain"
  /\ again = <<>> /\ todo = <<>> /\ applied = <<>>
  /\ marked = {}
  /\ saved = rows

FileStep ==
  \/ \E f \in Files : Write(f) \/ Unlink(f)
  \/ \E d \in Dirs : MoveOut(d) \/ MoveIn(d)

PollerStep ==
  \/ Deliver \/ Receive \/ Begin \/ RouteHeld \/ Route \/ Late \/ Routed \/ Refresh
  \/ Commit \/ Reject \/ TryAlone

QueryStep == Query \/ QueryFails

Next == FileStep \/ PollerStep \/ QueryStep

Spec == Init /\ [][Next]_vars

\* The poller polls on (run_channel_loop), while there is a stream to poll for.
FairSpec == Spec /\ WF_vars(PollerStep)

-----------------------------------------------------------------------------
(* Properties. *)

\* No event is anywhere on its way to the index.
Quiet == pc = "idle" /\ raised = <<>> /\ queue = <<>> /\ taken = <<>>

\* Once every event has been applied the index is what a build of the tree
\* would make, if there could be one: whatever was rejected and replayed,
\* whatever the kernel dropped, whichever queries ran meanwhile.
InLine == Quiet /\ Consistent(Disk) => rows = Disk

\* config.md: rejected changes "land with the first batch that resolves them":
\* nothing is still held once the files break no foreign key.
HeldWhileOrphaned == Quiet /\ held # <<>> => ~Consistent(Disk)

\* The poller catches up with the files.
CatchesUp == []<>Quiet

=============================================================================
