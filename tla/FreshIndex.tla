----------------------------- MODULE FreshIndex -----------------------------
(***************************************************************************)
(* Queries over an index of files that change under them.                  *)
(*                                                                         *)
(* Before its SQL runs, a query walks each table's glob, stats every match *)
(* and reads again the files whose stat says their rows may be out of date *)
(* (DirSQL::refresh and DirSQL::reconcile in packages/rust/src/lib.rs).    *)
(* The walk, each stat, each read and each second stat is a step, and the  *)
(* files may change between any two of them.  No watcher runs here.        *)
(***************************************************************************)
EXTENDS Freshness, FiniteSets

CONSTANTS
  PerFile,     \* tables whose hook runs once for each file
  PerTable,    \* tables whose hook runs once over all the files
  Fallible,    \* the per-table tables whose hook may fail
  Files,
  Matches,     \* the <<table, file>> pairs whose glob matches
  Contents,    \* what a file may hold; a file's rows are a function of it
  Absent,      \* no file, and so no rows
  Lag,         \* how far the kernel's timestamps may trail the clock
  BuildTime,   \* when the build began (built_ns)
  MaxClock     \* bound: the clock stops here

Tables == PerFile \cup PerTable
Keys   == Matches

ASSUME IndexAssumption ==
  /\ PerFile \cap PerTable = {}
  /\ Fallible \subseteq PerTable
  /\ Matches \subseteq Tables \X Files
  /\ Absent \notin Contents

\* freshness.rs counts on this: SETTLE_NS "covers kernels whose timestamps lag
\* the clock by a tick".
ASSUME ClockAssumption ==
  /\ Lag \in Nat
  /\ Lag <= SETTLE_NS
  /\ BuildTime \in Nat
  /\ MaxClock \in Nat

VARIABLES
  clock,      \* the wall clock
  disk,       \* what each file holds
  ctime,      \* each file's change time
  rows,       \* the rows of each key, as the content they were made from
  batch,      \* the files listed for each per-table hook (batch_files)
  known,      \* what the index knows of each key (FreshState.known)
  seeded,     \* FreshState.seeded
  pc,         \* where the build or the query that holds the index is
  start,      \* when the query began (start_ns)
  todo,       \* the keys its current phase has yet to visit
  found,      \* the keys its walk found
  stats,      \* the stat taken of each path
  unstamped,  \* the keys read, and not yet stat'd after the read
  marked,     \* the per-table tables to run again (PendingRefresh)
  updates,    \* what the query will record on commit
  saved,      \* the rows its transaction restores on ROLLBACK
  since       \* (not in the code) what each file has held since the query began

files == <<clock, disk, ctime>>
index == <<rows, batch, known, seeded>>
query == <<pc, start, todo, found, stats, unstamped, marked, updates, saved>>
vars  == <<files, index, query, since>>

NotTaken == -2

Held == Contents \cup {Absent}

OfTable(t) == {k \in Keys : k[1] = t}
OfFile(f)  == {k \in Keys : k[2] = f}
Batched    == {k \in Keys : k[1] \in PerTable}

is_file(f) == disk[f] # Absent
fingerprint(f) == IF is_file(f) THEN ctime[f] ELSE NoStat

\* The change times the kernel may give a file changed now.
Stamps == {s \in 0 .. clock : clock <= s + Lag}

InQuery == pc \notin {"build_scan", "build_read", "idle"}

-----------------------------------------------------------------------------
(* The files. *)

Tick ==
  /\ clock < MaxClock
  /\ clock' = clock + 1
  /\ UNCHANGED <<disk, ctime, index, query, since>>

\* Somebody writes, creates or touches a file.
Write(f) ==
  /\ \E c \in Contents, s \in Stamps :
       /\ disk' = [disk EXCEPT ![f] = c]
       /\ ctime' = [ctime EXCEPT ![f] = s]
  /\ since' = IF InQuery THEN [since EXCEPT ![f] = @ \cup {disk'[f]}] ELSE since
  /\ UNCHANGED <<clock, index, query>>

Remove(f) ==
  /\ is_file(f)
  /\ disk' = [disk EXCEPT ![f] = Absent]
  /\ ctime' = [ctime EXCEPT ![f] = 0]
  /\ since' = IF InQuery THEN [since EXCEPT ![f] = @ \cup {Absent}] ELSE since
  /\ UNCHANGED <<clock, index, query>>

-----------------------------------------------------------------------------
(* The build: one walk, then one run of the hooks over what it found. *)

BuildScan(f) ==
  /\ pc = "build_scan"
  /\ OfFile(f) \cap todo # {}
  /\ todo' = todo \ OfFile(f)
  /\ found' = IF is_file(f) THEN found \cup OfFile(f) ELSE found
  /\ UNCHANGED <<files, index, pc, start, stats, unstamped, marked, updates, saved, since>>

BuildScanned ==
  /\ pc = "build_scan"
  /\ todo = {}
  /\ pc' = "build_read"
  /\ todo' = found
  /\ UNCHANGED <<files, index, start, found, stats, unstamped, marked, updates, saved, since>>

\* A per-file hook that cannot read its file fails the build: there is no
\* index then, and no step here.
BuildRead(k) ==
  /\ pc = "build_read"
  /\ k \in todo
  /\ k[1] \in PerFile => is_file(k[2])
  /\ todo' = todo \ {k}
  /\ rows' = [rows EXCEPT ![k] = disk[k[2]]]
  /\ UNCHANGED <<files, batch, known, seeded, pc, start, found, stats, unstamped,
                 marked, updates, saved, since>>

\* What a query starts from and leaves behind.
NoWork ==
  /\ todo' = {} /\ found' = {} /\ unstamped' = {} /\ marked' = {}
  /\ stats' = [f \in Files |-> NotTaken]
  /\ updates' = [k \in Keys |-> NotKnown]
  /\ start' = BuildTime
  /\ since' = [f \in Files |-> {}]

BuildDone ==
  /\ pc = "build_read"
  /\ todo = {}
  /\ pc' = "idle"
  /\ batch' = found \cap Batched
  /\ saved' = rows
  /\ NoWork
  /\ UNCHANGED <<files, rows, known, seeded>>

-----------------------------------------------------------------------------
(* A query, holding the `fresh` mutex from start to answer. *)

seed == [k \in Keys |-> IF rows[k] # Absent \/ k \in batch THEN Built ELSE NotKnown]

QueryStart ==
  /\ pc = "idle"
  /\ pc' = "scan"
  /\ start' = clock
  /\ known' = IF seeded THEN known ELSE seed
  /\ seeded' = TRUE
  /\ todo' = Keys
  /\ saved' = rows
  /\ since' = [f \in Files |-> {disk[f]}]
  /\ UNCHANGED <<files, rows, batch, found, stats, unstamped, marked, updates>>

\* The walk reaches f, and finds it or does not.
ScanFile(f) ==
  /\ pc = "scan"
  /\ OfFile(f) \cap todo # {}
  /\ todo' = todo \ OfFile(f)
  /\ found' = IF is_file(f) THEN found \cup OfFile(f) ELSE found
  /\ UNCHANGED <<files, index, pc, start, stats, unstamped, marked, updates, saved, since>>

ScanDone ==
  /\ pc = "scan"
  /\ todo = {}
  /\ pc' = "read"
  /\ todo' = found
  /\ UNCHANGED <<files, index, start, found, stats, unstamped, marked, updates, saved, since>>

\* One stat per path, whichever of its tables comes first.
StatFile(f) ==
  /\ pc = "read"
  /\ unstamped = {}
  /\ OfFile(f) \cap todo # {}
  /\ stats[f] = NotTaken
  /\ stats' = [stats EXCEPT ![f] = fingerprint(f)]
  /\ UNCHANGED <<files, index, pc, start, todo, found, unstamped, marked, updates, saved, since>>

Visit(k) ==
  /\ pc = "read"
  /\ unstamped = {}
  /\ k \in todo
  /\ stats[k[2]] # NotTaken

MustRead(k) == must_read(known[k], stats[k[2]], BuildTime)

Skip(k) ==
  /\ Visit(k)
  /\ ~MustRead(k)
  /\ todo' = todo \ {k}
  /\ updates' = [updates EXCEPT ![k] = adopted(known[k], stats[k[2]], BuildTime)]
  /\ UNCHANGED <<files, index, pc, start, found, stats, unstamped, marked, saved, since>>

\* Mutant of TrackBatchFile: the file is not listed.
TrackBatchFile_unlisted(k) ==
  /\ Visit(k)
  /\ MustRead(k)
  /\ k[1] \in PerTable
  /\ todo' = todo \ {k}
  /\ batch' = IF is_file(k[2]) THEN batch ELSE batch \ {k}
  /\ marked' = marked \cup {k[1]}
  /\ UNCHANGED <<files, rows, known, seeded, pc, start, found, stats, unstamped,
                 updates, saved, since>>

\* A per-table hook's file: listed if it is still there, and the table marked
\* (track_batch_file, PendingRefresh::mark).
TrackBatchFile(k) ==
  /\ Visit(k)
  /\ MustRead(k)
  /\ k[1] \in PerTable
  /\ todo' = todo \ {k}
  /\ batch' = IF is_file(k[2]) THEN batch \cup {k} ELSE batch \ {k}
  /\ marked' = marked \cup {k[1]}
  /\ UNCHANGED <<files, rows, known, seeded, pc, start, found, stats, unstamped,
                 updates, saved, since>>

\* handle_upsert: a path that is no longer a file is left as it was.
ReadFile(k) ==
  /\ Visit(k)
  /\ MustRead(k)
  /\ k[1] \in PerFile
  /\ todo' = todo \ {k}
  /\ unstamped' = {k}
  /\ rows' = IF is_file(k[2]) THEN [rows EXCEPT ![k] = disk[k[2]]] ELSE rows
  /\ UNCHANGED <<files, batch, known, seeded, pc, start, found, stats, marked,
                 updates, saved, since>>

\* Mutant of Stamp: judged by the time of the stat and not of the query's
\* start.
Stamp_by_now(k) ==
  /\ pc \in {"read", "stamp"}
  /\ k \in unstamped
  /\ unstamped' = unstamped \ {k}
  /\ updates' = [updates EXCEPT ![k] = after_read(fingerprint(k[2]), clock)]
  /\ UNCHANGED <<files, index, pc, start, todo, found, stats, marked, saved, since>>

\* The stat taken after a read, by which a later query judges it.
Stamp(k) ==
  /\ pc \in {"read", "stamp"}
  /\ k \in unstamped
  /\ unstamped' = unstamped \ {k}
  /\ updates' = [updates EXCEPT ![k] = after_read(fingerprint(k[2]), start)]
  /\ UNCHANGED <<files, index, pc, start, todo, found, stats, marked, saved, since>>

\* The transaction is rolled back and the query fails.  `batch` is memory, not
\* database: what the query listed stays listed.
Rollback ==
  /\ pc' = "idle"
  /\ rows' = saved
  /\ NoWork
  /\ UNCHANGED <<files, batch, known, seeded, saved>>

\* A per-file hook fails, or its rows are refused.
ReadFails(k) ==
  /\ Visit(k)
  /\ MustRead(k)
  /\ k[1] \in PerFile
  /\ Rollback

Gone == {k \in Keys : known[k].kind # "none" /\ k \notin found}

\* Rows of the files that are gone go too, then the hooks of the marked
\* tables start over.
DropGone ==
  /\ pc = "read"
  /\ todo = {}
  /\ unstamped = {}
  /\ pc' = "hook"
  /\ batch' = batch \ Gone
  /\ marked' = marked \cup {t \in PerTable : OfTable(t) \cap Gone # {}}
  /\ rows' = [k \in Keys |->
                IF k[1] \in marked' \/ (k[1] \in PerFile /\ k \in Gone)
                THEN Absent ELSE rows[k]]
  /\ todo' = {k \in batch' : k[1] \in marked'}
  /\ UNCHANGED <<files, known, seeded, start, found, stats, unstamped, updates, saved, since>>

HookReads(k) ==
  /\ pc = "hook"
  /\ k \in todo
  /\ todo' = todo \ {k}
  /\ rows' = [rows EXCEPT ![k] = disk[k[2]]]
  /\ UNCHANGED <<files, batch, known, seeded, pc, start, found, stats, unstamped,
                 marked, updates, saved, since>>

\* Mutant of HookFails: the rows made before the failure are kept.
HookFails_keeps(t) ==
  /\ pc = "hook"
  /\ t \in marked \cap Fallible
  /\ todo' = todo \ OfTable(t)
  /\ UNCHANGED <<files, rows, batch, known, seeded, pc, start, found, stats,
                 unstamped, marked, updates, saved, since>>

\* A per-table hook that fails leaves its table's rows alone and reports an
\* error event; the query goes on.
HookFails(t) ==
  /\ pc = "hook"
  /\ t \in marked \cap Fallible
  /\ todo' = todo \ OfTable(t)
  /\ rows' = [k \in Keys |-> IF k[1] = t THEN saved[k] ELSE rows[k]]
  /\ UNCHANGED <<files, batch, known, seeded, pc, start, found, stats, unstamped,
                 marked, updates, saved, since>>

HooksDone ==
  /\ pc = "hook"
  /\ todo = {}
  /\ pc' = "stamp"
  /\ unstamped' = {k \in found : k[1] \in marked}
  /\ UNCHANGED <<files, index, start, todo, found, stats, marked, updates, saved, since>>

Commit ==
  /\ pc = "stamp"
  /\ unstamped = {}
  /\ pc' = "answer"
  /\ known' = [k \in Keys |->
                 IF updates[k].kind = "read" THEN updates[k]
                 ELSE IF k \in Gone THEN NotKnown ELSE known[k]]
  /\ UNCHANGED <<files, rows, batch, seeded, start, todo, found, stats, unstamped,
                 marked, updates, saved, since>>

\* A foreign key is broken at the commit.
CommitRefused ==
  /\ pc = "stamp"
  /\ unstamped = {}
  /\ Rollback

\* The SQL has run over `rows`, and the mutex is released.
Answer ==
  /\ pc = "answer"
  /\ pc' = "idle"
  /\ saved' = rows
  /\ NoWork
  /\ UNCHANGED <<files, index>>

-----------------------------------------------------------------------------
Init ==
  /\ clock = BuildTime
  /\ disk \in [Files -> Held]
  /\ ctime \in {c \in [Files -> 0 .. BuildTime] : \A f \in Files : disk[f] = Absent => c[f] = 0}
  /\ rows = [k \in Keys |-> Absent]
  /\ batch = {}
  /\ known = [k \in Keys |-> NotKnown]
  /\ seeded = FALSE
  /\ pc = "build_scan"
  /\ start = BuildTime
  /\ todo = Keys
  /\ found = {}
  /\ stats = [f \in Files |-> NotTaken]
  /\ unstamped = {}
  /\ marked = {}
  /\ updates = [k \in Keys |-> NotKnown]
  /\ saved = [k \in Keys |-> Absent]
  /\ since = [f \in Files |-> {}]

FileStep == Tick \/ \E f \in Files : Write(f) \/ Remove(f)

BuildStep ==
  \/ \E f \in Files : BuildScan(f)
  \/ BuildScanned
  \/ \E k \in Keys : BuildRead(k)
  \/ BuildDone

QueryStep ==
  \/ \E f \in Files : ScanFile(f) \/ StatFile(f)
  \/ ScanDone
  \/ \E k \in Keys : Skip(k) \/ TrackBatchFile(k) \/ ReadFile(k) \/ Stamp(k) \/ ReadFails(k)
  \/ DropGone
  \/ \E k \in Keys : HookReads(k)
  \/ \E t \in PerTable : HookFails(t)
  \/ HooksDone
  \/ Commit
  \/ CommitRefused
  \/ Answer

Next == FileStep \/ BuildStep \/ QueryStart \/ QueryStep

Spec == Init /\ [][Next]_vars

-----------------------------------------------------------------------------
(* Properties. *)

TypeOK ==
  /\ clock \in Nat
  /\ disk \in [Files -> Held]
  /\ ctime \in [Files -> Nat]
  /\ rows \in [Keys -> Held]
  /\ batch \subseteq Batched
  /\ known \in [Keys -> Known]
  /\ seeded \in BOOLEAN
  /\ pc \in {"build_scan", "build_read", "idle", "scan", "read", "hook", "stamp", "answer"}
  /\ start \in Nat
  /\ todo \subseteq Keys
  /\ found \subseteq Keys
  /\ stats \in [Files -> Fingerprint \cup {NotTaken}]
  /\ unstamped \subseteq Keys
  /\ marked \subseteq PerTable
  /\ updates \in [Keys -> Known]
  /\ saved \in [Keys -> Held]
  /\ since \in [Files -> SUBSET Held]

Reliable == {k \in Keys : k[1] \notin Fallible}

\* k's rows come from what its file held at some moment of the query; or the
\* walk found the file, it has since been missing, and k keeps the rows it had.
RowsFresh(k) ==
  \/ rows[k] \in since[k[2]]
  \/ k \in found /\ Absent \in since[k[2]] /\ rows[k] = saved[k]

\* A query's SQL runs over what was on disk when it began, or a later state of
\* it: true of every file of a per-file table, and of every file the walk found
\* for a per-table one (reconcile).
FreshRead ==
  pc = "answer" =>
    \A k \in Reliable : k[1] \in PerFile \/ k \in found => RowsFresh(k)

\* What the index holds about k when a query begins.
Entry(k) == IF seeded THEN known[k] ELSE seed[k]

\* Whether that entry lets a query leave k unread, as the file is now.
Vouches(entry, k) == ~must_read(entry, fingerprint(k[2]), BuildTime)

\* Between queries, whatever the index holds about a file that would let the
\* next query not read it (must_read) is the truth about its rows.
SkipIsSound ==
  pc = "idle" => \A k \in Reliable : Vouches(Entry(k), k) => rows[k] = disk[k[2]]

\* A query leaves nothing to read in a file that had come to rest before it
\* began: the next one over the same files reads none of them (adopted,
\* after_read).
RestedIsSettled ==
  pc = "answer" =>
    \A k \in found :
      changed_before(fingerprint(k[2]), start) =>
        Vouches(known[k], k)

\* The list a per-table hook is run over holds every file the walk found and
\* that was not seen missing (track_batch_file).
BatchComplete ==
  pc \in {"hook", "stamp", "answer"} =>
    \A k \in found \cap Batched : Absent \notin since[k[2]] => k \in batch

\* A per-table hook's rows are never a mixture: a query either leaves the
\* table's rows alone, all of them, or makes them all from what the files held
\* during the query, the files it did not have to read again among them
\* (refresh_table; what a failed run had staged is dropped).  So one run that
\* succeeds makes good whatever earlier failures left behind.
TableIsWhole ==
  pc = "answer" =>
    \A t \in PerTable :
      \/ \A k \in OfTable(t) : rows[k] = saved[k]
      \/ \A k \in OfTable(t) : rows[k] \in since[k[2]]

-----------------------------------------------------------------------------
(* The inductive invariant of FreshIndexProofs. *)

Building == pc \in {"build_scan", "build_read"}

\* The rows of the last commit.
Committed(k) == IF pc \in {"scan", "read", "hook", "stamp"} THEN saved[k] ELSE rows[k]

ClockInv ==
  /\ BuildTime <= clock
  /\ InQuery => BuildTime <= start /\ start <= clock /\ seeded
  /\ Building => ~seeded

\* A settled entry is of a change older than any read yet to come.
SettledInv ==
  \A k \in Keys :
    known[k].kind = "read" /\ known[k].settled =>
      changed_before(known[k].fp, IF InQuery THEN start ELSE clock)

\* An entry that lets k go unread speaks the truth.
EntryInv ==
  ~Building =>
    \A k \in Keys : Vouches(Entry(k), k) =>
      /\ k \in Reliable => Committed(k) = disk[k[2]]
      /\ k[1] \in PerTable => k \in batch

\* A per-file key the index knows nothing of has no rows.
UnknownInv ==
  seeded => \A k \in Keys : k[1] \in PerFile /\ known[k].kind = "none" => Committed(k) = Absent

\* A file that changed during the query does not look old enough to settle.
SinceInv ==
  InQuery => \A f \in Files :
    /\ disk[f] \in since[f]
    /\ \A c \in since[f] : c # disk[f] => ~changed_before(fingerprint(f), start)

\* A key the walk has passed and not found was missing.
WalkInv ==
  InQuery => \A k \in Keys :
    k \notin found /\ (pc = "scan" => k \notin todo) => Absent \in since[k[2]]

\* A stat that let k go unread was a stat of what its rows were made from.
StatInv ==
  pc = "read" => \A k \in Keys : stats[k[2]] # NotTaken /\ ~MustRead(k) =>
    /\ k \in Reliable => saved[k] \in since[k[2]]
    /\ k[1] \in PerTable => k \in batch \/ Absent \in since[k[2]]

\* What is to be recorded is about a file the walk found.
UpdateInv ==
  pc \in {"read", "hook", "stamp"} =>
    \A k \in Keys : updates[k].kind = "read" =>
      k \in found /\ (updates[k].settled => changed_before(updates[k].fp, start))

\* Keys with work left, and rows not yet touched.
WorkInv ==
  /\ pc \in {"build_read", "read"} => todo \subseteq found
  /\ pc = "hook" => \A k \in todo : k[1] \in marked
  /\ pc = "read" => \A k \in unstamped : k[1] \in PerFile
  /\ pc = "stamp" => \A k \in unstamped : k[1] \in PerTable
  /\ pc \in {"read", "stamp"} => unstamped \subseteq found
  /\ pc = "scan" => rows = saved
  /\ pc = "read" => \A k \in Keys :
       k \in todo \/ k \notin found \/ k[1] \in PerTable => rows[k] = saved[k]
  /\ pc \in {"idle", "scan", "hook", "answer"} => unstamped = {}
  /\ pc \in {"idle", "scan"} =>
       (\A k \in Keys : updates[k].kind = "none") /\ (\A f \in Files : stats[f] = NotTaken)

\* The rows of every key done with are fresh.
RowsInv ==
  pc \in {"read", "hook", "stamp", "answer"} =>
    \A k \in Reliable :
      /\ k \in found \/ (k[1] \in PerFile /\ pc # "read")
      /\ pc = "read" => k \notin todo /\ k[1] \notin marked
      /\ pc = "hook" => k \notin todo
      => RowsFresh(k)

GoneInv ==
  pc \in {"hook", "stamp"} =>
    \A k \in Keys : k[1] \in PerFile /\ k \notin found => rows[k] = Absent

\* A per-file key found for the first time will be recorded.
RecordInv ==
  pc \in {"read", "hook", "stamp"} =>
    \A k \in found :
      /\ k[1] \in PerFile
      /\ known[k].kind = "none"
      /\ pc = "read" => k \notin todo /\ k \notin unstamped
      => updates[k].kind = "read"

BatchInv ==
  pc \in {"read", "hook", "stamp", "answer"} =>
    \A k \in found \cap Batched :
      (pc = "read" => k \notin todo) /\ Absent \notin since[k[2]] => k \in batch

BuildInv ==
  Building => \A k \in Keys :
    IF pc = "build_read" /\ k \in found \ todo
    THEN changed_before(fingerprint(k[2]), BuildTime) => rows[k] = disk[k[2]]
    ELSE rows[k] = Absent

IInv ==
  /\ TypeOK /\ ClockInv /\ SettledInv /\ EntryInv /\ UnknownInv /\ SinceInv
  /\ WalkInv /\ StatInv /\ UpdateInv /\ WorkInv /\ RowsInv /\ GoneInv
  /\ RecordInv /\ BatchInv /\ BuildInv

\* Behind RestedIsSettled: the query is through with k, and what it will leave
\* about k.
Through(k) ==
  /\ pc = "read" => k \notin todo /\ k \notin unstamped /\ k[1] \notin marked
  /\ pc = "hook" => k[1] \notin marked
  /\ pc = "stamp" => k \notin unstamped
Leaves(k) == IF updates[k].kind = "read" THEN updates[k] ELSE known[k]

\* A file at rest since before the query shows it the same stat each time.
RestInv ==
  /\ pc \in {"read", "hook", "stamp"} =>
       \A k \in found : changed_before(fingerprint(k[2]), start) =>
         /\ stats[k[2]] \in {NotTaken, fingerprint(k[2])}
         /\ Through(k) => Vouches(Leaves(k), k)
  /\ RestedIsSettled

\* Behind TableIsWhole: a table whose hook has not run or has failed, and one
\* whose hook has run over the files it is through with.
LeftAlone(t) == OfTable(t) \cap todo = {} /\ \A k \in OfTable(t) : rows[k] = saved[k]
MadeAnew(t)  == \A k \in OfTable(t) \ todo : rows[k] \in since[k[2]]

WholeInv ==
  pc \in {"hook", "stamp", "answer"} =>
    /\ pc # "hook" => todo = {}
    /\ \A t \in PerTable : LeftAlone(t) \/ MadeAnew(t)

=============================================================================
