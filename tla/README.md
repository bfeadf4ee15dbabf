# dirsql, modelled in TLA+

dirsql is a SQL index over a directory: each table has a DDL, a glob and a hook
that turns files into rows (`on_file`); queries run over SQLite. What can go
wrong is that the rows are not those of the files. Three mechanisms keep them in
line, and all three race with whoever changes the files:

- a query walks the globs and reads again whatever may have changed before its
  SQL runs (`DirSQL::refresh`, `DirSQL::reconcile` in `packages/rust/src/lib.rs`,
  `freshness.rs`);
- a watcher's events are applied to the index in batches (`watcher.rs`,
  `poll_once` to `handle_upsert` in `lib.rs`);
- an index kept on disk is reconciled at the next start (`persist.rs`,
  `prepare_persist`, `reconcile_scan`, `finish_build` in `lib.rs`).

One module models each: `FreshIndex`, `LiveIndex`, `PersistCache`. Others model
what these rely on or take as one step: how a table's rows are replaced and owned
(`RowStore`), the walk of the tree (`TreeWalk`) and its watches (`WatchTree`), the
hooks a build runs (`HookRuns`), the process behind an SQL function
(`FunctionWorker`), and the streams of row events that tell readers of the changes
(`Streams`, over `RowDiff`). Paths below are relative to the repository; a file
named alone is in `packages/rust/src/`.

## Inventory

| Component | State | Operations | Hard behaviour | What makes it correct |
|---|---|---|---|---|
| Freshness rules (`freshness.rs`) | none | `must_read`, `after_read`, `adopted`, `changed_before` | timestamps that trail the clock; the margin's boundary | a file is skipped only if its rows are current |
| Query reconcile (`lib.rs` 664-826) | `FreshState` (known, seeded, outbox), `batch_files`, the rows, one transaction | `refresh`, `reconcile`, `seed`, `refresh_pending`, `track_batch_file` | files change between walk, stat, read and stat; rollback leaves memory behind | the SQL sees what was on disk at the query's start, or later |
| Watch batches (`lib.rs` 921-1639) | the held events, `batch_files`, the rows, one transaction | `poll_once`, `apply_file_events`, `apply_events`, `apply_batch`, `hold`, `take_held`, `rescan`, `delete_subtree`, `index_subtree` | events out of date when applied, dropped, rejected and replayed; directories that move | once events run out, rows = what a build would make |
| Foreign keys (`foreign_key.rs`) | deferral of the open transaction | `begin`, `commit`, rejected units | the second attempt of a batch | a rejected change is neither lost nor applied over a later one |
| Watcher (`watcher.rs`) | watches per directory, a channel | `scoped`, `translate_event`, `forward`, `watch_tree` | a directory created before its parent's watch lands; overflow | a directory without a watch will be walked again; no change is lost |
| Persistent cache (`persist.rs`, `lib.rs` 1886-2204, 2811-2959) | rows, `_dirsql_files`, `_dirsql_meta` | `prepare_persist`, `reconcile_scan`, `is_trusted`, `drop_user_tables`, ingest | crash, failed build, racy stat, changed configuration | the rows served are those of a build from nothing |
| Build and hook pipeline (`lib.rs` 2049-2204, 3063-3338, `on_file.rs`, `row_stream.rs`, `per_thread.rs`) | hooks and their turn, a pool of workers per hook, two channels | `start_per_table_hooks`, `run_streaming_on`, `Pool::work`, `stream_early`, `group_scanned` | concurrent runs and failures, bounded channels, a build that gives up | a built table has all its rows; the earliest failure is reported; everything ends |
| Row storage (`db.rs`) | the rows, their rowids, who owns which (rows, ranges), a savepoint | `insert_row`, `insert_rows`, `reconcile_rows`, `reconcile_file_rows`, `reconcile_batch_rows`, `delete_rows_by_file` | rowids used again; UNIQUE values that swap; a unit that fails half-way | each row has one owner and is what the owner last made; an edited row stays where it is |
| Row diffs (`differ.rs`, `row_event_flat.rs`) | none | `diff_rows`, `diff_keyed`, `diff_unordered` | duplicates, replaced files | the events lead from the old rows to the new, never over more than either |
| Tree walk, scanner (`tree_walk.rs`, `scanner.rs`, `listing.rs`) | a heap of open directories, a slot for each, two condition variables | `walk_in_order`, `obtain`, `register`, `work` | lost wakeups, two takers of one directory, the end of the pool | every directory is read once, visited in order, and the walk returns |
| Matching (`matcher.rs`, `gitignore_frame.rs`, `brace.rs`, ...) | none | glob and ignore semantics | none (pure) | agrees with gitignore |
| Path tables (`path_table.rs`, `vtab*.rs`, `parsed_vtab.rs`, `table_refs.rs`) | cursors | walks made by a query | a tree changing during a cursor | each path at most once |
| SQL functions (`functions.rs`) | a worker process, its batch | calls, timeouts, restart; the two passes of `query_ordered_with` | a late answer to a call given up on; a batch that fails | an answer goes to the call it answers |
| Commands (`command.rs`) | a child and its pipes | spawn, feed, drain | full pipes | no deadlock |
| Configuration, values (`config.rs`, `infer.rs`, `params.rs`, ...) | none | parsing, validation | none (pure) | |
| CLI (`cli/`, `launcher.rs`) | a session, an interrupt flag, an event stream | REPL, server, `init`, output | an interrupt between two statements | cancels the statement it was meant for |
| Progress (`progress.rs`) | a display | | | |
| Python and TypeScript bindings (`packages/python`, `packages/ts`) | streams with a buffer each, one shared poll, the queries' outbox | `watch`, `query`, the poll | several streams over one poll, cancelled waits, events of queries | every stream tells every event once, in order |
| Release tooling (`internals/`, `scripts/`), plugins, docs | none of the program's | | | |

A query and a watch batch exclude each other: both hold the index
(`fresh` mutex, `lib.rs` 707-727 and 969). They share the rows and `batch_files`.
`FreshState.known` belongs to the queries, the held events to the batches, and
`_dirsql_files` to the build alone.

## Modules

| Module | Models | Proofs |
|---|---|---|
| `Freshness` | the rules of `freshness.rs` as operators | |
| `FreshIndex` (extends `Freshness`) | the build and the queries, files changing between any two of their steps | `FreshIndexProofs` |
| `PersistCache` | runs of the program over one cache file | `PersistCacheProofs` |
| `LiveIndex` | the watcher's queue, the poller's batches, and queries between them | `LiveIndexProofs` |
| `FunctionWorker` | a function's worker, its requests, and statements run twice over it | `FunctionWorkerProofs` |
| `TreeWalk` | the walk of a tree by the calling thread and its workers | `TreeWalkProofs` |
| `WatchTree` | the watches of directories that come and go, and the index that reads what they report | `RowsAndWatchesProofs` |
| `HookRuns` | the per-table hooks of a build, their runs, children and pipes | `HookRunsProofs` |
| `RowMatch` | how stored and new rows are matched, as operators | |
| `RowStore` (extends `RowMatch`) | a table's rows, their rowids and owners | `RowsAndWatchesProofs` |
| `RowDiff` (extends `RowMatch`) | the row events of a change, as operators | |
| `Streams` (extends `RowDiff`) | batches, queries, the shared poll and the streams over it | `StreamsProofs` |
| `Broadcast` | what the streams promise; `Streams` implements it | |
| `MC...` | model values and small relations for TLC | |

The modules meet where one's step is another's machine: a query is one step in
`LiveIndex`, a step for each file or table it changes in `Streams`, and has all its
steps in `FreshIndex`; a batch holds the index in `Streams` for as long as it takes
there, and what it does with each event is in `LiveIndex`; a rescan, or an event for a
directory, is one step of `LiveIndex`, and `WatchTree` says that there will be one for whatever
was missed; the walks inside all of them are `TreeWalk`'s, and how rows are put into
a table is `RowStore`'s.

In `FreshIndex`, `PersistCache` and `LiveIndex` a file holds a member of `Contents`
or `Absent`, and a key - a pair of a table and a file its glob matches - has as its
rows the content they were made from. Two contents with equal rows are one content.
`PerFile` and `PerTable` are the tables whose hook runs once per file, or once over
all files; a per-table hook's rows are kept per file it read, so that a property can
say which of its inputs is out of date.

### Freshness, FreshIndex

A stat is its change time: inode, device, size and mtime can only tell more
states apart. `SETTLE_NS` is the margin of `freshness.rs`; `Lag` is how far the
kernel's stamps trail the clock, assumed to be at most the margin
(`ClockAssumption`), as the comment on `SETTLE_NS` does.

| Model | Code |
|---|---|
| `disk`, `ctime`, `clock` | the file system, external |
| `rows`, `saved` | the tables, and what a ROLLBACK restores |
| `batch` | `batch_files` |
| `known`, `seeded` | `FreshState` |
| `found`, `stats`, `updates`, `marked`, `todo`, `unstamped` | the locals of `reconcile`; `marked` is `PendingRefresh` |
| `QueryStart`, `ScanFile`, `StatFile`, `Skip`, `TrackBatchFile`, `ReadFile`, `Stamp`, `DropGone`, `HookReads`, `HookFails`, `HooksDone`, `Commit`, `Answer` | `reconcile`, in its order |
| `ReadFails`, `CommitRefused` | its error paths: rows rolled back, `batch_files` not |

`since` is a history variable: what each file has held since the query began.

### PersistCache

| Model | Code |
|---|---|
| `cache` | the database as committed: meta block, schema, rows, `_dirsql_files` |
| `work` | the same under the open transaction |
| `Start`, `Scan`, `Stat`, `Reconciled` | `prepare_persist`, `scan_groups`, `reconcile_scan` |
| `DropTable`, `DropEntries`, `CreateTable` | `drop_user_tables`, `run_table_ddl`: one autocommitted statement each |
| `Begin`, `ReadFile`, `HookReads`, `Hash`, `Commit` | the ingest of `finish_build` and its commit |
| `BuildStops`, `Exit` | a failure or a death; the end of the process |

A stat is an inode and an mtime; size and birth time may well be equal. `aside`
is a file renamed away, which keeps both. `since`, `moved` and `stale` are history
variables: what each file has held since the run began, whether any has changed since,
and whether one has since the run that last committed began, or a sweep has emptied
the cache.

### LiveIndex

| Model | Code |
|---|---|
| `raised`, `queue`, `taken` | events in the kernel, in the channel, in the poller's hands |
| `held`, `again` | the rejected events, and those of them a batch has yet to replay |
| `Deliver`, `Receive`, `Begin` | `forward`, `poll_once`, `apply_events` |
| `RouteHeld`, `Route`, `Late`, `Routed`, `Refresh` | `apply_batch`: held events first, then the new ones, those that arrive meanwhile, the rescan, the per-table hooks |
| `Commit`, `Reject`, `TryAlone` | the commit, and both outcomes of a foreign key violation |
| `upsert`, `delete`, `index_subtree`, `delete_subtree`, `rescan`, `route_file_event` | the handlers of the same names, on one record of the index and all the keys an event is about |
| `Query`, `QueryFails` | `reconcile`, as one step |

`Consistent` is the schema's foreign keys as a predicate on all the rows; what
unique keys do to one file's rows is in `RowStore`. An event is about a file, or a
directory and the files in it; what the code does to each of its keys touches no other,
and so is written for all of them at once. Directories are one deep. `Drains` is FALSE for `apply_file_events`, the
TypeScript poller, which takes in no late events. `vouched` stands for the
entries of `FreshState.known` that let a query skip a file: a change to the file
always ends it (its stat differs), and a query may or may not re-establish it
(`settled` or not).

### FunctionWorker

| Model | Code |
|---|---|
| `worker`, `Answer`, `Garble`, `Crash` | the process, the pipe to it (`inbox`) and the lines read from it; external |
| `collect`, `prefetched` | `WorkerInner` |
| `Query`, `Direct`, `RunEnds`, `EndCollect`, `Finish` | `query_ordered_with`, `begin_collect`, `end_collect`, `ClearOnDrop` |
| `Hit`, `StandIn`, `Single`, `Flush`, `Keep` | `Worker::call` and `flush` |
| `Spawn`, `Send`, `Take`, `Timeout`, `Closed`, `Recv`, ... | `exchange` and `ProcessTransport` |

A statement is a sequence of calls, each on an argument or on the value of the
call before (`Nested`), which may fail the statement (`Rejected`): through it a
stand-in of the collect pass has consequences. `answer` is what the worker says of
each argument, chosen anew for each statement, so an answer kept from an earlier
one is wrong. `fits` is the capacity of the pipe in calls: a request beyond it is
written as the worker reads it, and that is up to the worker. `trouble` and `asked`
are history variables.

### TreeWalk

A step is one hold of a lock, or what a thread does between two of them.

| Model | Code |
|---|---|
| `unclaimed`, `stored`, `awaited`, `key` | a `Slot`: its `dir`, `items`, `awaited` and key |
| `open`, `done` | `Open` and its heap |
| `ahead`, `visited` | the stack of iterators of `walk_in_order`, what it has handed out |
| `Hire`, `Hired` | `hire`: threads that start, or are refused because every core has one |
| `Push`, `Visit`, `Descend`, `Obtain`, `Await`, `End`, `NotifyAll`, `Return` | `walk_in_order` and `obtain` |
| `Explore`, `Register`, `Notify` | `explore_only`, `register`: new slots, one signal for each directory but one |
| `Claim`, `Take`, `Store` | a worker: `claim`, `work`, `explore_taking_next` |
| `WakeAlone` | a condition variable that wakes by itself; external |

### WatchTree

| Model | Code |
|---|---|
| `exists`, `Arrive`, `Depart`, `Write` | the tree, external; a directory arrives and goes with what is in it |
| `raised` | the kernel's queue; a report that does not fit becomes one `Rescan` |
| `watched`, `job`, `known`, `walking`, `found`, `pending` | the watches, the event `forward` has in hand, and the locals of `watch_tree` |
| `WatchTree`, `WalkDir`, `WalkEnds`, `WatchDir` | `watch_tree`: walk, watch what is new, walk again until nothing is |
| `Forward` | `forward`: what it passes on at once, and what it watches first |
| `Apply`, `ReadDir` | `route_file_event`, and the directories that `index_subtree` reads |

`owed` is a history variable: the directories with a change the index has yet to
read. So is `unheard`: the directories that came back below one without a watch, so
that no event told of it. They are found by a walk, but a deletion reported before
that walk is applied after it (see Disagreements), and what it drops is not in `owed`.
A scope's tree is modelled as far as its scan enters it, and the files of a
directory as one.

### HookRuns

| Model | Code |
|---|---|
| `scanned`, `ScanRun`, `ScanEnds` | the scan that feeds the hooks |
| `hook`, `TakeTurn`, `Peek` | `start_hook`: a hook waits for the one declared before it, then for a first path |
| `sent`, `jobs`, `Dispatch`, `DispatchEnds` | `run_streaming_on` and `Dispatch`: runs are queued, workers hired, `Limit` at most |
| `phase`, `Take`, `Spawn`, `Drain`, `Send`, `Eof`, `Reap`, `Fail` | `Pool::work`, `run_argv_blocks`, `drain_then_reap` |
| `out`, `err`, `ReadErr` | the child's two pipes, of `PipeBound` lines, and the thread that reads the second |
| `rows`, `made`, `Sink`, `Finish` | the bounded channel, the hook's chunks, and what the hook returns |
| `WriteRows`, `NextTable`, `BuildEnds` | `stream_early`, `stream_table_rows` |

### RowMatch, RowStore

| Model | Code |
|---|---|
| `table` | the table, by rowid; a new row's is one more than the largest, as SQLite chooses it |
| `owned`, `ranges` | `_dirsql_internal_rows` of each file, `_dirsql_internal_ranges` of the per-table hook |
| `Match`, `Merged`, `reconcile_rows` | `reconcile_rows`: match by key, delete, update in place, insert |
| `UpdateAll`: `Tried`, `Blocked`, `Parted`, `PutAll` | its updates, tried in order; those that a UNIQUE stops, set aside and put back at their rowids |
| `Upserted`, `handle_upsert`, `handle_delete`, `build_file` | a file's rows: reconciled if they fill a key, else deleted and inserted |
| `reconcile_batch_rows`, `Refit`, `refresh_table`, `refill_table_rows`, `stream_table_rows` | a per-table hook's rows, in a batch or query, in a build over a cache, and in a build |
| `Land`, `LandAll` | the savepoint of a unit |

The updates of a unit fold over their order (`Tried`); rows that are inserted go in
together, the n-th at the n-th rowid above the largest, and one that clashes with a
row there or with one before it fails the unit, as it would one after the other: a
unit that fails leaves nothing (`PutAll`). `made` is a history variable: the output
each owner last landed. `Keys` are UNIQUE
indexes, which `Outputs` fill or leave NULL; a column outside `emits` is one the hook
leaves out.

### RowDiff, Streams, Broadcast

`diff_rows`, `full_replace`, `diff_keyed` and `diff_unordered` are the functions of
`differ.rs` and, for keyed rows, the changes `reconcile_rows` reports.

| Model | Code |
|---|---|
| `queue`, `taken`, `PollTakes`, `PollTimesOut` | `poll_once`: file events, or the outbox alone when none come |
| `PollBegins`, `PollRoutes`, `PollDrains`, `PollRefreshes`, `PollCommits` | `apply_file_events`, under the lock: events in order, those that arrive meanwhile, per-table hooks whose file changed (`marked`), the commit and the outbox |
| `outbox`, `Query` | `FreshState.outbox`: what a query's own reading changed, a file or table at a time, in any order, while no batch has the lock |
| `poll`, `result`, `Await`, `PollDelivers` | the shared poll: whoever runs dry starts it, its events go to the buffer of each stream |
| `Watch`, `Yield`, `Cancel`, `Leave` | a stream's life; in Python a wait may be cancelled, and the poll goes on (`asyncio.shield`) |

`Broadcast` knows of neither polls nor buffers: something happens, and every stream
that is open tells it, once and in order; one that joins is told, besides, what is in
the backlog. `Streams` implements it with `backlog` = the events no stream has been
given yet (`Pending`: a poll's result, then the outbox), and `unheard` = a stream's
buffer and those. The events of a change (`Diff`) are those of `RowDiff`, for the way
the rows of a unit are told apart: `Way` gives each its own, by place in the file, by
key (`Key`), or as a whole. `seen` is a history variable: a bag of the rows a consumer has by
what it was told.

## Runs

| Run | Asks | Instance |
|---|---|---|
| `fresh_two_tables` | is every file that may have changed read (`FreshRead`), every skip sound (`SkipIsSound`), every file at rest read once (`RestedIsSettled`); does a per-table hook's list miss a file (`BatchComplete`); is `IInv` an invariant | 1 file under both kinds of table, 2 contents, lag 1, margin 1, clock to 3, build at 2; failing reads, refused commits |
| `fresh_two_files` | does a failed run of a per-table hook leave its table half new (`TableIsWhole`) | 2 files under one hook that may fail, 1 content, clock to 1; refused commits |
| `persist_two_files` | `RowsAreFresh`, `QuietRunWritesNothing` | 3 keys: both kinds of table share a file; stops anywhere; clock to 1 |
| `persist_two_configs` | `RowsAreFresh` | 1 file, 2 inodes, renames, 2 configurations, 2 contents, clock to 2 |
| `live_two_tables` | is the index right once events run out (`InLine`) | 2 files in a directory, 3 changes, dropped events, no draining |
| `live_foreign_key` | the same under rejected batches; `HeldWhileOrphaned`; `CatchesUp` | a parent, and a child in a directory, 4 changes, draining |
| `worker_batches` | is what a statement returns true (`AnswersAreTrue`), does it fail only for a cause (`FailsForCause`), is no argument asked twice (`ServedOnce`), does it end (`QueryEnds`) | 3 arguments, batches of 2, two statements: a full batch, and a rest with a repeated argument and a call on a stand-in |
| `walk_three_threads` | is each directory taken once (`TakenOnce`) and visited in order (`VisitsInOrder`); is a wakeup lost (`NeverStranded`, `SleepOverOne`); does the walk return (`WalkReturns`) | 6 directories, three deep, and 3 leaves; 3 cores, so 3 threads, and a hire past the third is refused |
| `watch_deep_tree` | can a directory stay unwatched (`NoneUnwatched`) or a change unread (`NothingUnseen`); is a tree at rest taken in (`TakenIn`) | 4 directories, each in the one before; 4 changes; a kernel queue of 2 |
| `hooks_two_tables` | are a built table's rows whole (`RowsAreWhole`), which failure is reported (`EarliestFailure`), are there more commands than CPUs (`OnePerCpu`), does everything end (`AllEnds`) | hooks of 2 and 1 runs, 2 CPUs, pipes and channel of 1 |
| `rows_two_files` | does ownership fit the rows (`Owned`), are they what was last made (`AsMade`), does an edit land exactly if its end state is sound (`LandsIfSound`), in place (`EditsInPlace`) | 2 files or a hook, 10 outputs over two unique columns, rowids to 6 |
| `streams_two_consumers` | is each stream told all (`EveryStreamIsTold`), of no more rows than there are (`NeverOverfull`); do `Streams` implement `Broadcast` (`Broadcasts`); do they catch up (`StreamsCatchUp`) | 2 consumers, a table of each kind of diff, 2 changes |

Bounds, and why they are enough. The smallest conflicts take one or two files:
two tables over one file share its stat; two files are needed for one to stand in
the list of a per-table hook while another comes or goes, for a parent and its
child, and for a directory whose files differ. Two contents tell rows of one from
rows of another; in `fresh_two_files` a file is there or not, which is enough for one
file's rows to be of this query and the other's of an earlier one. `MaxClock` exceeds `BuildTime + SETTLE_NS - Lag`, so that a
stamp can be on either side of both the build's margin and a query's, and on it;
where the clock does not matter to the question it may tick once. Queries and
runs of the program are not bounded: any number follow one another.
`MaxChanges` bounds the changes to the files in `LiveIndex`: 4 are needed for a
rejected change, its replay, and a later change to the same path (with a verbatim
replay, `InLine` fails at 4 and not at 3). `live_foreign_key` with dropped events
as well (2.9 million states, 2 minutes) passes too and is not kept as a run.

In `WatchTree`, 4 changes let a directory come, one below it come and go before its
watch lands, and an overflow hide any of it; three levels below the root are needed
for a walk that is behind by more than the directory it is told of. The bound is not
relied on for `NoneUnwatched` and `NothingUnseen`, which are proved for any; the first
late deletion of a directory that is back takes 5 changes and a queue of 3, where
the inductive invariant holds as well (8.5 million states, not kept as a run). In `TreeWalk` the
tree has a directory that two workers race for, one found while the walk waits for
its parent, and more directories than threads; three threads are the walker and two
workers, the fewest for a signal to reach the wrong one. In `HookRuns` a hook of two
runs on two CPUs has both fail at once, in either order, and pipes of one line fill
at once. In `Streams`, 2 changes are enough for a query to find one before the
watcher, with a batch for the other in the same poll. In `RowStore` the outputs swap
two values, pass three on in a ring, take up a value another file left, fill only the
second key, none, or one column of two; rowids to 6 let two files and three rows
replace one another several times (the graph is finite below it: steps that would
need a higher rowid are left out, and a deletion is always possible).

`CHECK_DEADLOCK FALSE` in the runs of `FreshIndex`, `PersistCache`, `LiveIndex`,
`HookRuns` and `Streams`: at its bounds the clock, and with it all the files, may
rest, and nobody need ask anything; a build is over when it is over. The other runs
check that some step is always possible: in `TreeWalk`, the walk that has returned
stutters on purpose.

Fairness. `FreshIndex` and `PersistCache` state none. Whether a query returns is no
question: it makes one pass over what its walk found, however the files change.
`LiveIndex.FairSpec` is weak fairness of the poller and the watcher's thread:
`run_channel_loop` polls again after each batch. Neither the files nor the
queries are fair. `CatchesUp` is about finitely many changes (`MaxChanges`):
under sustained writes a batch that drains has no bound in the code either.
`FunctionWorker.FairSpec` is weak fairness of the thread that runs the statement,
a timeout included; the worker owes nothing, neither an answer nor a read of its
pipe. `QueryEnds` therefore excepts a request that is stuck in a pipe it does not
fit into. `TreeWalk.FairSpec` is weak fairness of each thread: none waits for another
but on a condition variable, whose spurious wakeups are not relied on. In `WatchTree`
the watcher's thread and the poller run on; the tree need not rest, but `MaxChanges`
bounds it. In `HookRuns` some thread or command that can go on does; a command that
neither writes nor exits has no timeout, and a build would wait for it. In `Streams` a
poll ends, and a consumer that awaits or has events goes on; neither files nor
queries are fair.

Symmetry over files and contents is used only in runs that check invariants and
action properties, never with liveness.

### Disagreements

Where a document, a comment or a test of the repository promises what the code does
not do. Each was found with TLC, on these modules or on variants of them that are not
kept: every run there is passes. Where a property makes an exception for one, it says
so here.

Cache and queries:

- the last file of a per-table hook is deleted between two runs and its rows stay
  (`group_scanned` makes no batch, docs/howto/persist.md:46). `RowsAreFresh` speaks
  of the per-table tables that still match a file;
- the sweep and the DDL precede the transaction, so a build that fails in a hook does
  not leave "the cache exactly as it was" (lib.rs:1991-1993);
- nor does it leave a cache that is "discarded and rebuilt from scratch"
  (docs/howto/persist.md:48-52): the tables of a second configuration whose build
  failed after its DDL stay under the meta block of the first. The first then finds the
  cache compatible and its tables there (`run_table_ddl`, lib.rs:2660-2681), and fills
  tables of another schema. TLC, with two configurations: `cache.schema[t] = cfg.ddl`
  in a run that is up fails. The rows are right where they fit: `RowsAreFresh` holds;
- a query reads what it found before it drops what is gone, so a renamed file whose
  row has a UNIQUE value collides with itself; that query fails, and so does every
  later one, over a tree that a build accepts (lib.rs:760, 779,
  docs/reference/sdk.md:298-299);
- `finish_build` hashes a file after its hook ran but keeps the stat from before. A
  write between the two within the stat's tick gives an entry whose hash confirms
  rows made from the earlier content (ROADMAP.md:166). `RowsAreFresh` therefore
  speaks of `Honest` entries;
- `known` is seeded once; a file indexed by a watch batch later is not in it and
  keeps its rows through a query when it has gone, until the watcher's event is
  applied (docs/reference/sdk.md:301-302);
- a batch that is lost in the collect pass, by a timeout or a crash, does not fail
  the query: the second run asks again, one call at a time, and may succeed
  (functions.rs:33, docs/reference/config.md:148-150);
- a kernel whose mtimes trail the clock (`Lag = 1` in `PersistCache`): `is_trusted`
  has no margin, unlike ROADMAP.md:204-205, and `RowsAreFresh` fails;
- a process that dies between two statements of the sweep: the old meta block
  vouches for an emptied table (lib.rs:2150-2152). `BuildStops` leaves this out;
- a hook's command that changes while its `ddl` and glob do not: the configuration
  hash does not cover it (docs/howto/persist.md:47-50). A configuration of the
  model with another hook has another `ddl`;
- rows changed by a running index, whose entries are those of the build: put the
  file back by a rename and the next run trusts them (docs/howto/persist.md:62-64);
- a file swapped by renames between its stat and its hook, and back
  (ROADMAP.md:218). In the model files are renamed between runs, and while the
  index is up, not during a build;
- a directory replaced by an older one: the change times in it do not move, and
  `Known::Built` has no fingerprint to compare (docs/reference/sdk.md:298).
  Nothing in `FreshIndex` moves a directory;
- a file the query's walk found and that is missing when it is read keeps its
  previous rows (lib.rs:1586-1590), as the second case of `RowsFresh` allows;
- a per-table hook that fails in a query: an error event, the old rows, and
  entries that say the files were read (lib.rs:797-812). `Reliable` leaves the
  tables with such a hook out. The old rows stay whole, and the next run that
  succeeds replaces all of them: `TableIsWhole`;
- a file listed for a per-table hook by a query that was rolled back and that has
  gone since is never taken off the list (lib.rs:1327-1328);
- a deletion applied after the file is back and a query has read it: until the
  creation's event a query answers without its rows (docs/reference/sdk.md:297);
- where a query has `known` from before, it drops a parent that has gone and keeps a
  child that a batch indexed since and that has gone too: the query fails on a foreign
  key that the files do not break.

Watching:

- a held deletion of a directory that is back is replayed as a creation, which never
  drops what did not come back (docs/reference/config.md:369-370). It takes a parent
  in the directory beside another file: with those, `InLine` fails at 4 changes. In
  `live_foreign_key` the directory holds the child alone, and `InLine` holds, at 5
  changes as well;
- two files that exchange a UNIQUE value: both changes are refused and neither is
  held (tests/watch_unique_swap.rs:1-3). `LiveIndex` has no unique keys;
- a file that the index's walk reads in a directory just created, and that is removed
  before the directory's watch lands: no event tells of it, and `index_subtree` drops
  no rows (watcher.rs:178-179, docs/howto/react-to-changes.md:55-56).
  `NothingUnseen` is about reading what is there;
- a deletion that is applied when its directory is back: "It is already gone, so the
  rows are the only record" (lib.rs:1244-1245) need not be so. Where the return was
  reported its event is behind in the queue and reads the rows again (`LateInv`). Where
  the directory above had no watch at the time it was not: a walk of that one reads the
  rows, the late deletion drops them, and no event brings them back. It takes three
  levels of directories and 5 changes: `a` goes and comes back, and while the walk that
  began before watches `b` in it, `b`'s `c` goes, then `b` goes and comes back with
  `c`. `unheard` in `WatchTree` is the exception `NothingUnseen` makes for it;
- a kernel that refuses another watch: `forward` leaves the directory unwatched and
  says nothing (watcher.rs:182);
- events of queries gather in the outbox for as long as nobody polls (lib.rs:810).

Rows:

- a row deleted through ON DELETE CASCADE keeps its entry in `_dirsql_internal_rows`.
  SQLite gives its rowid to the next row inserted, another file's perhaps, and the
  next edit or deletion of the first file deletes that row: ownership does diverge
  "from the rows it describes" (db.rs:286-289). Four steps in a variant of `RowStore`
  with a cascade, and the same in SQLite;
- an UPDATE that clashes on a PRIMARY KEY has another error code than one that
  clashes on a UNIQUE, and is not set aside: rows that leave the primary key NULL
  somewhere, are matched by another key, and exchange primary keys, are refused
  (db.rs:1293-1298). `Keys` of `RowStore` are UNIQUE indexes.

Commands:

- the timeout of a round trip covers the wait for the answer and not the write of the
  request (functions.rs:31, 514);
- a build that fails leaves the hooks of later tables running, and does not wait for
  their commands; they end by themselves (`AllEnds`).

## Proofs

`FreshIndexProofs` proves of `FreshIndex`, for every set of tables, files, contents
and matches, every build time and clock, and every lag up to the margin:

| Theorem | Property |
|---|---|
| `TypeCorrect` | `TypeOK` |
| `Invariance` | `IInv` |
| `FreshReadHolds` | `FreshRead` |
| `SkipIsSoundHolds` | `SkipIsSound` |
| `BatchCompleteHolds` | `BatchComplete` |
| `RestedIsSettledHolds` | `RestedIsSettled` |
| `TableIsWholeHolds` | `TableIsWhole` |

They rest on `SettleAssumption`, `IndexAssumption` and `ClockAssumption`. None of
the properties is inductive. The argument turns on time. A settled entry carries
a change time that was older than the margin when its query began (`SettledInv`).
A file changed since has a stamp of at least clock minus lag, so never such a
time: a file whose stat still says so has not changed (`OldIsUnchanged`,
`ChangeIsRecent`). Hence an entry that lets a file go unread says the truth about
the last committed rows (`EntryInv`), a stat that let it go unread was of what
those rows came from (`StatInv`), and a file that changed during the query cannot
settle in it (`SinceInv`). The remaining conjuncts follow the phases: what the walk
missed was missing (`WalkInv`), what is done with is fresh (`RowsInv`), what is
gone has no rows (`GoneInv`, `UnknownInv`, `RecordInv`), what is listed is
complete (`BatchInv`), and how the build begins it all (`BuildInv`). There is one
lemma per action, with one step per conjunct the action can disturb.

`RestedIsSettled` goes the other way: not that what is skipped is right, but that what
could be skipped will be. A second invariant, `RestInv`, is inductive together with
`IInv`: of a file that had come to rest before the query began, the query has taken
no stat but the one it has now, and once the file is through, the entry it leaves
vouches for it.

`TableIsWhole` needs a third, `WholeInv`, inductive together with `IInv`: from the
moment the hooks start, a per-table hook's rows are those the transaction saved, with
nothing left to run, or are all of this query but for the files still to come. That
the second is true of the files the hook is not run over is where `IInv` comes in: one
that is not on the list was seen missing (`WalkInv`, `BatchInv`).

`TreeWalkProofs` proves of `TreeWalk`, for every finite tree, any number of threads
and any PARALLEL_DIRS:

| Theorem | Property |
|---|---|
| `TypeCorrect` | `TypeOK` |
| `Invariance` | `IInv` |
| `EachIsTakenOnce` | `TakenOnce` |
| `NoneIsStranded` | `NeverStranded` |
| `WalksInOrder` | `VisitsInOrder` |
| `SleepsOverOne` | `SleepOverOne` |

They rest on `TreeAssumption` (a finite tree), `CoresAssumption`,
`PlaceAssumption`: a directory is found in one place, as entries that are not followed
links are; and, for the order, `HeightAssumption`: no directory is below itself, so
each has a height. `NeverStranded` is not inductive: that a worker has what the walker waits
for follows from what the walk still has to come by. The argument: a directory is in
one place - unclaimed, with a thread, stored, or handed over (`OnceInv`) - and the
walk comes by it once (`PlaceInv`). One the walk has yet to obtain is `Alive`:
unclaimed, stored, or with a worker (`DueInv`), and the walker waits only once it has
seen that it is not unclaimed and, holding the slot's lock, not stored. So a worker
has it, and will store it and signal. That what the walk comes by is alive needs how
it came there: a directory nobody has explored has no directories found
(`UnexploredInv`); those of one explored are alive until it is handed over
(`ExploredInv`), and are not due before (`UnpushedInv`). At the end `done` is set
before the last signal, and a worker looks at it before it sleeps (`EndInv`). One
lemma per action; those that touch no directory share one (`StillKeeps`).

The order of the walk is a sum that no step changes: what has been handed out,
followed by what the parts to come expand to, is the walk of one thread (`OrderInv`).
`DepthFirst` is a recursive function; what is needed of it is the one equation that a
directory's walk is what its parts expand to (`DepthFirstIs`), and that one function at
most satisfies it: both hold because heights fall (`DepthFirstExists`,
`DepthFirstUnique`). `SleepOverOne` counts. While a worker sleeps there is, for
each directory that is found and unclaimed, a thread on its way to claim one or a
signal still owed (`SpareInv`); when no signal is owed and the other workers sleep, only
the walker is left, so there is one such directory at most. It takes that such a
directory is open or in the hands of a thread that will see to it (`OpenInv`), and that
the walker, when it stores what it holds and goes on, comes by all that are left
(`ReachInv`). The three are inductive together with `IInv`, and TLC has checked them
on `walk_three_threads`.

`RowsAndWatchesProofs` holds the proofs of two components, which share no state. Of
`WatchTree` it proves, for every tree, any length of the kernel's queue and any number of changes:

| Theorem | Property |
|---|---|
| `TypeCorrect` | `TypeOK` |
| `Invariance` | `IInv` |
| `NoneUnwatchedHolds` | `NoneUnwatched` |
| `NothingUnseenHolds` | `NothingUnseen` |

They rest on `TreeAssumption`, which asks no more than that every directory is below
the root. What is there may be hidden by an overflow, and then by the deletion of a
directory above, so the argument is about what will come by it: a directory without a
watch is found by a report that is still in the kernel, or by the event at hand, whose
last walk has yet to come to it (`CoveredInv`, `WayInv`); one that `watch_tree` thinks
watched and that is not has been reported since (`KnownInv`); a deletion above a
directory that is back is followed by its return (`LateInv`); a change is in the
kernel, in the channel, or within what is being read, ahead of whatever would drop it
(`OwedInv`). A queue beyond its limit ends with the report of that (`QueueInv`),
which finds everything.

Of `RowStore` it proves, for any files, columns, values, unique keys and outputs, and any
bound of the rowids:

| Theorem | Property |
|---|---|
| `RowsAreOwned` | `Owned` |
| `RowsAreAsMade` | `AsMade` |
| `SoundEditsLand` | `LandsIfSound` |
| `RowsEditedInPlace` | `EditsInPlace` |

They rest on `StoreAssumption`: a key has a column, and a row has NULL in the columns its
hook leaves out. All four follow from what one unit does (`Landed`): the new rows stand
where the owner's own stood, each at a rowid of its own, and no other row is touched.
That is so of an insertion, since its rowids are above all there are (`NewRowids`,
`InsertedAnew`), and of a reconciliation, since no stored row is claimed twice
(`MatchIs`), an update is of the owner's own row, and one set aside comes back where it
was (`UpdateAllIs`, `Reconciled`). And a unit fails exactly if its table has two rows
with one value of a unique key (`Judged`). For the updates this is an induction over
their order (`TriedReached`): a row that was updated clashes with none then there, so
the table stays sound, and what was in the way of the others is judged when they are
put back. So no table that lands has such rows (`Sound`).

The inductive invariant `StoreInv` says of every table that it is sound, that each row is
one file's at one place (`OwnedInv`) or in a range (`CoverInv`), that a file's rows are
those its hook made, in their order (`MadeInv`), and that those of a per-table hook are
too, at some arrangement of the rowids (`HookInv`). `Owned` and the counts of `AsMade`
follow by bijections. `LandsIfSound` compares where the code places rows with where
`Wanted` finds them. Either no two new rows have one key, and each finds the one stored
row of its key (`MatchFinds`, from `Sound`), or two have, and both sides of the claim see
the clash (`TwinsClash`). `EditsInPlace` follows likewise (`ReconciledInPlace`); a unit
that is rolled back leaves each row where it was (`RolledBackInPlace`). TLC has
checked `StoreInv` on `rows_two_files`.

`StreamsProofs` proves of `Streams`, for any units, contents, consumers and changes:

| Theorem | Property |
|---|---|
| `TypeCorrect` | `TypeOK` |
| `Invariance` | `TypeOK`, `Lock` and `EveryStreamIsTold` together |
| `EveryStreamIsToldHolds` | `EveryStreamIsTold` |
| `BroadcastsHolds` | `Broadcasts`: `Streams` implements `Broadcast` |
| `DiffAddsUp` | what `RowEvents` tells of any two lists of rows |
| `NeverOverfullHolds` | `NeverOverfull` |

They rest on `ContentsAssumption`: contents are lists of rows, each unit's rows are
told apart in one of the three ways, and no row is the mark of an absent one. What a stream has heard, with
its buffer and what is pending, adds up to the rows of the index: each step moves
events from one of these to the next without changing their sum, as gains add up along
a concatenation, and each change of a row adds the events of its difference, which
`DiffAddsUp` says add up to it. `Lock` is needed for the order: a query's events
enter the outbox only while no batch has taken it, so that what is pending is in the
order it happened. Each step is then one of `Broadcast` (something happens, a stream
joins, tells or leaves) or changes neither backlog nor unheard events.

`DiffAddsUp` holds of each way the code compares rows, for lists of any length and,
where rows have keys, any `Key`. All three are a `Story`: deletes, then updates of rows
that differ, then inserts. Such events grow the table only after they have shrunk it,
and add up if the counts of what is deleted, updated and inserted do (`Tells`,
`TellsAll`). Per place (`PlaceTells`) the counts are those of the places that changed
and those beyond the old end. Per identity, a claim pairs an old row with a new one,
one to one (`ClaimsApart`), so each list is its claimed half and its unclaimed one
(`Halves`): keyed rows differ in the first only where they are updated
(`KeyedTells`), and rows that are their own identity do not (`UnorderedTells`). There
the unclaimed ones are paired as updates, and no such pair is of equal rows: of an
identity, places are claimed by number from 1 up (`NthFills`), so rows of the old list
and the new cannot both be left over (`LeftApart`).

`FunctionWorkerProofs` proves of `FunctionWorker`, for any arguments, statements,
answers, batch size and capacity of the pipe:

| Theorem | Property |
|---|---|
| `TypeCorrect` | `TypeOK` |
| `Invariance` | `IInv` |
| `AnswersAreTrueHolds` | `AnswersAreTrue` |
| `FailsForCauseHolds` | `FailsForCause` |
| `ServedOnceHolds` | `ServedOnce` |

They rest on `WorkerAssumption`: constants that stand for a value, an error and nothing
differ, and a statement begins with a call on an argument. That a value is an answer to
its own call takes all that lies between: a request in flight is of the call that
waits, or of the collect pass (`RequestInv`); the pipe holds it or the answer to it, and
nothing older (`PipeInv`); a reply in hand is the worker's own unless something went
wrong (`FiledInv`); the values of a run that counts are answers (`TrueInv`). That the
second run asks nothing takes what the first left: each call it was made is in hand or
on its way, once (`CollectInv`, `GatheredInv`, `UninvokedInv`, `ServedInv`).

`HookRunsProofs` proves of `HookRuns`, for any number of tables, runs, CPUs, any bounds
of the pipes and the channel, and any lines, noise and exits of the commands:

| Theorem | Property |
|---|---|
| `TypeCorrect` | `TypeOK` |
| `Invariance` | `IInv` |
| `OnePerCpuHolds` | `OnePerCpu` |
| `EarliestFailureHolds` | `EarliestFailure` |
| `RowsAreWholeHolds` | `RowsAreWhole` |

They rest on `RunsAssumption`. Only the hook whose turn it is has workers, and it is
through with the scan in order (`ScanInv`, `TurnInv`), which is why there are no more
commands than CPUs however many hooks. Runs are queued and taken in order, each by one
worker (`QueueInv`), and one not begun when another fails is later than it
(`BegunInv`): so the earliest failure is among those begun, and filed before the hook's
workers have ended (`FiledInv`, `OutcomeInv`). `WholeInv` follows a run's lines: those
its worker has sent, wherever they are by now (`Stream`: written, made or in the
channel), those in its hands, in the pipe, and yet to be written are, one after the
other, the run's own lines; and the builder is through with a table only when its hook
has ended and its rows are written (`BuilderInv`). Where an order is needed over all
runs (the earliest failure, the positions of the queue) the proof takes the least
number at which a claim would fail (`Least`).

`PersistCacheProofs` proves of `PersistCache`, for any tables, files, inodes, renames,
configurations and clock, and any number of runs stopped anywhere but in the sweep:

| Theorem | Property | Where |
|---|---|---|
| `TypeCorrect` | `TypeOK` | |
| `Invariance` | `IInv` | |
| `QuietRunWritesNothingHolds` | `QuietRunWritesNothing` | |
| `FreshInvariance` | `FreshInv` | `Lag = 0`, `HashCoversHooks` |
| `RowsAreFreshHolds` | `RowsAreFresh` | `Lag = 0`, `HashCoversHooks` |

They rest on `CacheAssumption`. The last two have hypotheses, without which
`RowsAreFresh` is false of the code (see Disagreements): stamps that do not trail the
clock, and configurations with equal hash whose hooks are equal. Both runs satisfy
them. The argument has two halves. What a run does with what it found (`IInv`): rows
are there only with an entry (`OrphanInv`), a trusted entry survives up to the ingest
(`TrustInv`, `SweptInv`), and the ingest keeps exactly what was trusted, drops what is
gone, and makes the rest anew (`IngestInv`); and where nothing has made the cache stale,
its entries are those of the files (`SettledInv`), so that a run which no change
interrupts trusts them all (`StillInv`, `QuietInv`) and commits what was there. What
rows were made from (`FreshInv`): an entry whose snapshot is later than its mtime
`Vouches`: a file with that very stat, at its path or moved aside, holds what the rows
were made from. It stays so, since a later write has the clock's stamp, and the clock is
at the snapshot or past it (`VouchesOn`); and it begins so, since a row is made from
what is at the path when its hook runs, and the file that was stat'ed cannot have been
moved aside during the build (`PlaceInv`). Hence
what a run trusts is what the file held when it was stat'ed (`CredibleInv`), and what it
reads is what the file held then (`MadeInv`).

`LiveIndexProofs` proves of `LiveIndex`, for any tables, files, directories and contents,
whether events are dropped or late ones taken in, and any number of changes, batches and
queries:

| Theorem | Property | Where |
|---|---|---|
| `TypeCorrect` | `TypeOK` | |
| `Invariance` | `IInv` | `NotBoth` |
| `InLineHolds` | `InLine` | `NotBoth` |
| `HeldWhileOrphanedHolds` | `HeldWhileOrphaned` | `NotBoth` |

They rest on `LiveAssumption`, of which one conjunct is a bound of the model: a file is
in one directory, of those that move, at most. `NotBoth` says that there are no
directories that move (`Dirs = {}`), or no foreign key to reject a batch
(`NoForeignKeys`: any rows are `Consistent`). With both `InLine` is false of the code: see
Disagreements, and the run `live_foreign_key`, which has both and where it is only
checked. `live_two_tables` is of the second kind; `IInv` has been checked with TLC on it,
and on instances of the first with a foreign key between tables of either kind.

Neither property is inductive, since a batch ends with rows that are wrong whenever the
files have changed meanwhile. What does hold at each step (`RowsInv`) is that a key's rows
are those of its file, or an event that heals them is still `Ahead`, or held, or a rescan
is due. It rests on the order of events (`OrderInv`): of those applied and those ahead,
one that would take away the rows of a file that is there is followed by one that brings
them back, since whatever brought the file back was reported after. A held event is out
of that order; restated, it says what the file is, or something newer is ahead
(`AgainInv`). That is the step `NotBoth` is for: the restated event of a directory says
nothing of the files that have left it. Where a batch is rolled back its rows are those
from before (`SavedInv`), wrong where it had events to apply, which are held now; what was
read into `batch_files` is not rolled back, and is right for that reason
(`RightIn`). And if a batch is rejected with nothing left on its way, then by `RowsInv`
its rows were those of the files, and it is the files that break a foreign key
(`OrphanInv`).

Only model-checked: `InLine` and `HeldWhileOrphaned` of `LiveIndex` with both moving
directories and foreign keys, of which they are false in general; liveness
(`CatchesUp`, `QueryEnds`, `WalkReturns`, `TakenIn`, `AllEnds`,
`StreamsCatchUp`), which like ENABLED is out of the prover's reach, as is induction
over data.

## Not modelled, and abstractions

- The walk and each read of a query or build are atomic per file; a read is of one
  content. The walk of a build without a cache starts per-table hooks before it ends
  (`HookRuns`); `FreshIndex` runs them after, and the entries it would disagree about
  are of files changed since `built_ns`, which are read again.
- `LiveIndex` routes one event, rescans and refreshes hooks in a step each, with no
  file change in between; its queries are one step. Hook failures in a watch batch are
  left out, and so is a transaction that cannot be begun (lib.rs:1039-1041): it is
  reported as an error, and the batch's events, the held ones among them, are gone.
- Symlinked directories (`Link`), several scopes, and the recursive watches of macOS
  and Windows: `WatchTree` is the watcher where each directory has a watch (Linux).
- `RowStore`: cascades, tables whose INTEGER PRIMARY KEY is the rowid, WITHOUT ROWID,
  the conversion of values to a column's type. A per-table hook's rows that overtake a
  chunk already streamed are one insertion.
- `HookRuns`: the runs of a table are given, not packed from paths by length; a
  command's standard input; the commands of per-file hooks. An insert that SQLite
  refuses is not told from a row that breaks the table's shape (`odd`).
- `TreeWalk`: a thread the system cannot start, at which `scope.spawn` panics.
- `Streams`: a change is told as the rows of one file or one table; conversions into
  Python or JavaScript values; `close`.
- One poller, and one process per cache: SQLite's locks between processes are not
  modelled.
- One SQL function at a time, a worker that writes one line per request, no progress
  counters; a statement that a trigger runs while rows are written is `Direct`. A call
  on a call's NULL always fails the statement (`Null \in Rejected`), as NULL is no
  argument of the model; one that goes on with it, or that rejects the NULL of a call no
  other is made on, is left out.
- Not modelled at all: glob and ignore semantics, configuration, parsing and printing
  (no state); path tables, which keep nothing between queries and walk anew within
  one; the command line, its sessions and its server, which keep what the library
  keeps; progress display; packaging of releases, plugins and documentation.

More than half of the lines of the Rust sources are tests kept in the same files
(`#[cfg(test)]`): they were read with the code and are not modelled.

## Plan

Done: all modules above; proofs about `FreshIndex`, `TreeWalk`, `WatchTree`, `RowStore`,
`FunctionWorker`, `HookRuns`, `PersistCache`, `LiveIndex` and `Streams`, and that
`Streams` implements `Broadcast`.

1. Proofs: `InLine` of `LiveIndex` with both directories and foreign keys, for
   the instances where it holds.
2. An abstract index - rows that are at some moment what the files were - which
   `FreshIndex` and, between batches, `LiveIndex` implement.
3. Variants: cascades and rowid aliases in `RowStore`; two processes on one cache; a
   running index over a cache; a session (`cli/repl.rs`) and its interrupts; path
   tables over a tree that changes under a cursor.
