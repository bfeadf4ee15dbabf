---------------------------- MODULE PersistCache ----------------------------
(***************************************************************************)
(* An index kept on disk from one run of the program to the next           *)
(* (packages/rust/src/persist.rs, and prepare_persist, reconcile_scan and  *)
(* finish_build in lib.rs).                                                *)
(*                                                                         *)
(* A run walks the tree, stats each file it found, keeps the cached rows   *)
(* of those whose stat lets it trust them, reads the others, and commits   *)
(* rows and bookkeeping in one transaction.  A cache made by another       *)
(* configuration is swept first, outside that transaction.  Files change   *)
(* at any moment, and a run may stop at any step.                          *)
(***************************************************************************)
EXTENDS Integers, FiniteSets

CONSTANTS
  PerFile,    \* tables whose hook runs once for each file
  PerTable,   \* tables whose hook runs once over all the files
  Files,
  Inodes,     \* bound: those a path's files may have
  Movable,    \* bound: the files that may be renamed away and back
  Matches,    \* the <<table, file>> pairs whose glob matches
  Contents,
  Absent,     \* no file, and no rows
  None,       \* no table, and no meta block
  Configs,    \* [ddl, hook]: what the configuration hash covers, and the hook it leaves out
  Lag,        \* how far the kernel's timestamps may trail the clock
  MaxClock    \* bound: the clock stops here

Tables == PerFile \cup PerTable
Keys   == Matches

ASSUME CacheAssumption ==
  /\ PerFile \cap PerTable = {}
  /\ Matches \subseteq Tables \X Files
  /\ Movable \subseteq Files
  /\ Inodes \subseteq Nat \ {0}
  /\ Absent \notin Contents
  /\ \A c \in Configs : c.ddl # None
  /\ Lag \in Nat
  /\ MaxClock \in Nat

VARIABLES
  clock,
  file,      \* what each path holds
  aside,     \* the file last moved away from each path
  cache,     \* the database, as committed
  work,      \* the database, as the open transaction sees it
  cfg,       \* the configuration of the run
  pc,        \* where the run is
  found,     \* the keys its walk found
  todo,      \* the keys its current phase has yet to visit
  plan,      \* the stat it took of each key
  trusted,   \* the keys whose rows it keeps
  snapshot,  \* snapshot_ns
  unhashed,  \* the keys read whose content hash is still to be taken
  since,     \* (not in the code) what each file has held since the run began
  moved,     \* (not in the code) has a file changed since the run began?
  stale      \* (not in the code) ... since the last run that committed began,
             \* or has the cache been swept?

files == <<clock, file, aside>>
run   == <<cfg, pc, found, todo, plan, trusted, snapshot, unhashed>>
ghost == <<since, moved, stale>>
vars  == <<files, cache, work, run, ghost>>

Held == Contents \cup {Absent}

\* A stat, as far as two of them can be told apart.  Size and birth time are
\* left out: they may well be equal.
FileStat == [inode : Inodes, mtime : Nat]
NoStat   == [inode |-> 0, mtime |-> 0]

NoFile  == [content |-> Absent, stat |-> NoStat]
NoEntry == [stat |-> NoStat, content_hash |-> Absent, snapshot_ns |-> 0]

OfTable(t) == {k \in Keys : k[1] = t}
OfFile(f)  == {k \in Keys : k[2] = f}

is_file(f) == file[f] # NoFile

\* What the configured hook makes of a content.
Made(content) == IF content = Absent THEN Absent ELSE <<cfg.hook, content>>

-----------------------------------------------------------------------------
(* The files. *)

Noted(f) ==
  /\ since' = IF pc = "off" THEN since ELSE [since EXCEPT ![f] = @ \cup {file'[f].content}]
  /\ moved' = (pc # "off")
  /\ stale' = TRUE

Tick ==
  /\ clock < MaxClock
  /\ clock' = clock + 1
  /\ UNCHANGED <<file, aside, cache, work, run, ghost>>

\* A file is written in place, or created with an inode that is free.
Write(f) ==
  /\ \E c \in Contents, m \in {m \in 0 .. clock : clock <= m + Lag}, i \in Inodes :
       /\ IF is_file(f) THEN i = file[f].stat.inode ELSE i # aside[f].stat.inode
       /\ file' = [file EXCEPT ![f] = [content |-> c, stat |-> [inode |-> i, mtime |-> m]]]
  /\ Noted(f)
  /\ UNCHANGED <<clock, aside, cache, work, run>>

Remove(f) ==
  /\ is_file(f)
  /\ file' = [file EXCEPT ![f] = NoFile]
  /\ Noted(f)
  /\ UNCHANGED <<clock, aside, cache, work, run>>

\* A rename keeps the inode and the modification time.
MoveAside(f) ==
  /\ is_file(f)
  /\ file' = [file EXCEPT ![f] = NoFile]
  /\ aside' = [aside EXCEPT ![f] = file[f]]
  /\ Noted(f)
  /\ UNCHANGED <<clock, cache, work, run>>

MoveBack(f) ==
  /\ aside[f] # NoFile
  /\ file' = [file EXCEPT ![f] = aside[f]]
  /\ aside' = [aside EXCEPT ![f] = NoFile]
  /\ Noted(f)
  /\ UNCHANGED <<clock, cache, work, run>>

-----------------------------------------------------------------------------
(* A run. *)

\* The run is over, and any transaction still open is rolled back.
Over ==
  /\ pc' = "off"
  /\ found' = {} /\ todo' = {} /\ trusted' = {} /\ unhashed' = {}
  /\ plan' = [k \in Keys |-> NoStat]
  /\ snapshot' = 0
  /\ work' = cache
  /\ since' = [f \in Files |-> {}]
  /\ moved' = FALSE
  /\ UNCHANGED <<files, cache, cfg, stale>>

\* prepare_persist opens the cache, and the walk begins.
Start(c) ==
  /\ pc = "off"
  /\ pc' = "scan"
  /\ cfg' = c
  /\ todo' = Keys
  /\ since' = [f \in Files |-> {file[f].content}]
  /\ moved' = FALSE
  /\ UNCHANGED <<files, cache, work, found, plan, trusted, snapshot, unhashed, stale>>

Scan(f) ==
  /\ pc = "scan"
  /\ OfFile(f) \cap todo # {}
  /\ todo' = todo \ OfFile(f)
  /\ found' = IF is_file(f) THEN found \cup OfFile(f) ELSE found
  /\ UNCHANGED <<files, cache, work, cfg, pc, plan, trusted, snapshot, unhashed, ghost>>

Scanned ==
  /\ pc = "scan"
  /\ todo = {}
  /\ pc' = "stat"
  /\ todo' = found
  /\ UNCHANGED <<files, cache, work, cfg, found, plan, trusted, snapshot, unhashed, ghost>>

\* meta_is_compatible: the cache was made by this configuration.
Compatible == cache.meta = cfg.ddl

Cached(k) == IF Compatible THEN cache.entries[k] ELSE NoEntry

\* Mutants of is_trusted: an equal stat is enough; the hash is not looked at.
is_trusted_by_stat(entry, live, content) ==
  /\ entry # NoEntry
  /\ entry.stat = live

is_trusted_unconfirmed(entry, live, content) ==
  /\ entry # NoEntry
  /\ entry.stat = live
  /\ entry.snapshot_ns > live.mtime

is_trusted(entry, live, content) ==
  /\ entry # NoEntry
  /\ entry.stat = live
  /\ entry.snapshot_ns > live.mtime \/ entry.content_hash = content

\* reconcile_scan on one file.  A file that is gone by now fails the build.
Stat(k) ==
  /\ pc = "stat"
  /\ k \in todo
  /\ is_file(k[2])
  /\ todo' = todo \ {k}
  /\ plan' = [plan EXCEPT ![k] = file[k[2]].stat]
  /\ trusted' = IF is_trusted(Cached(k), file[k[2]].stat, file[k[2]].content)
                THEN trusted \cup {k} ELSE trusted
  /\ UNCHANGED <<files, cache, work, cfg, pc, found, snapshot, unhashed, ghost>>

Reconciled ==
  /\ pc = "stat"
  /\ todo = {}
  /\ pc' = IF Compatible THEN "create" ELSE "sweep"
  /\ UNCHANGED <<files, cache, work, cfg, found, todo, plan, trusted, snapshot, unhashed, ghost>>

\* drop_user_tables: one statement after another, each its own transaction.
DropTable(t) ==
  /\ pc = "sweep"
  /\ cache.schema[t] # None
  /\ cache' = [cache EXCEPT !.schema[t] = None,
                            !.rows = [k \in Keys |-> IF k[1] = t THEN Absent ELSE @[k]]]
  /\ UNCHANGED <<files, work, run, ghost>>

DropEntries ==
  /\ pc = "sweep"
  /\ \A t \in Tables : cache.schema[t] = None
  /\ pc' = "create"
  /\ cache' = [cache EXCEPT !.entries = [k \in Keys |-> NoEntry]]
  /\ stale' = TRUE
  /\ UNCHANGED <<files, work, cfg, found, todo, plan, trusted, snapshot, unhashed, since, moved>>

\* run_table_ddl: a table the database already has is left as it is.
CreateTable(t) ==
  /\ pc = "create"
  /\ cache.schema[t] = None
  /\ cache' = [cache EXCEPT !.schema[t] = cfg.ddl]
  /\ UNCHANGED <<files, work, run, ghost>>

Deleted == {k \in Keys : Cached(k) # NoEntry /\ k \notin found}

\* Mutant of Current: the files that are gone do not count.
Current_of_the_found(t) == OfTable(t) \cap found \subseteq trusted

\* A per-table hook need not run.
Current(t) ==
  /\ OfTable(t) \cap found \subseteq trusted
  /\ OfTable(t) \cap Deleted = {}

\* The per-table tables whose hook runs: one with no file left is not among
\* them (group_scanned).
Rerun == {t \in PerTable : OfTable(t) \cap found # {} /\ ~Current(t)}

ToRead == {k \in found : IF k[1] \in PerFile THEN k \notin trusted ELSE k[1] \in Rerun}

\* The transaction opens, and drops what belonged to files that are gone.  A
\* per-table hook's rows belong to no file.
Begin ==
  /\ pc = "create"
  /\ \A t \in Tables : cache.schema[t] # None
  /\ pc' = "ingest"
  /\ snapshot' = clock
  /\ work' = [cache EXCEPT
       !.rows = [k \in Keys |-> IF k[1] \in Rerun \/ (k[1] \in PerFile /\ k \in Deleted)
                                THEN Absent ELSE @[k]],
       !.entries = [k \in Keys |-> IF k \in Deleted THEN NoEntry ELSE @[k]]]
  /\ todo' = ToRead
  /\ UNCHANGED <<files, cache, cfg, found, plan, trusted, unhashed, ghost>>

\* A per-file hook runs on its file.
ReadFile(k) ==
  /\ pc = "ingest"
  /\ k \in todo
  /\ k[1] \in PerFile
  /\ unhashed = {}
  /\ is_file(k[2])
  /\ todo' = todo \ {k}
  /\ unhashed' = {k}
  /\ work' = [work EXCEPT !.rows[k] = Made(file[k[2]].content)]
  /\ UNCHANGED <<files, cache, cfg, pc, found, plan, trusted, snapshot, ghost>>

\* A per-table hook, run once every per-file one is done, reads a file.
HookReads(k) ==
  /\ pc = "ingest"
  /\ k \in todo
  /\ \A j \in todo : j[1] \in PerTable
  /\ unhashed \subseteq OfTable(k[1])
  /\ todo' = todo \ {k}
  /\ unhashed' = unhashed \cup {k}
  /\ work' = [work EXCEPT !.rows[k] = Made(file[k[2]].content)]
  /\ UNCHANGED <<files, cache, cfg, pc, found, plan, trusted, snapshot, ghost>>

\* The bookkeeping of a file whose hook has run: the stat from before it ran,
\* the hash from after.
Hash(k) ==
  /\ pc = "ingest"
  /\ k \in unhashed
  /\ k[1] \in PerTable => OfTable(k[1]) \cap todo = {}
  /\ unhashed' = unhashed \ {k}
  /\ work' = [work EXCEPT !.entries[k] =
       [stat |-> plan[k], content_hash |-> file[k[2]].content, snapshot_ns |-> snapshot]]
  /\ UNCHANGED <<files, cache, cfg, pc, found, todo, plan, trusted, snapshot, ghost>>

Commit ==
  /\ pc = "ingest"
  /\ todo = {}
  /\ unhashed = {}
  /\ pc' = "running"
  /\ cache' = [work EXCEPT !.meta = cfg.ddl]
  /\ work' = cache'
  /\ stale' = moved
  /\ UNCHANGED <<files, cfg, found, todo, plan, trusted, snapshot, unhashed, since, moved>>

\* A build fails, or the process dies anywhere but in the sweep: the open
\* transaction is rolled back.
BuildStops ==
  /\ pc \in {"scan", "stat", "create", "ingest"}
  /\ Over

Exit ==
  /\ pc = "running"
  /\ Over

-----------------------------------------------------------------------------
Init ==
  /\ clock = 0
  /\ file \in [Files -> {NoFile} \cup
                 {[content |-> c, stat |-> [inode |-> i, mtime |-> 0]] : c \in Contents, i \in Inodes}]
  /\ aside = [f \in Files |-> NoFile]
  /\ cache = [meta    |-> None,
              schema  |-> [t \in Tables |-> None],
              rows    |-> [k \in Keys |-> Absent],
              entries |-> [k \in Keys |-> NoEntry]]
  /\ work = cache
  /\ cfg \in Configs
  /\ pc = "off"
  /\ found = {} /\ todo = {} /\ trusted = {} /\ unhashed = {}
  /\ plan = [k \in Keys |-> NoStat]
  /\ snapshot = 0
  /\ since = [f \in Files |-> {}]
  /\ moved = FALSE
  /\ stale = TRUE

FileStep ==
  \/ Tick
  \/ \E f \in Files : Write(f) \/ Remove(f)
  \* Not during a build: its own reads would be of different files.
  \/ pc \in {"off", "running"} /\ \E f \in Movable : MoveAside(f) \/ MoveBack(f)

BuildStep ==
  \/ \E f \in Files : Scan(f)
  \/ Scanned
  \/ \E k \in Keys : Stat(k)
  \/ Reconciled
  \/ \E t \in Tables : DropTable(t) \/ CreateTable(t)
  \/ DropEntries
  \/ Begin
  \/ \E k \in Keys : ReadFile(k) \/ HookReads(k) \/ Hash(k)
  \/ Commit

Next ==
  \/ FileStep
  \/ \E c \in Configs : Start(c)
  \/ BuildStep
  \/ BuildStops
  \/ Exit

Spec == Init /\ [][Next]_vars

-----------------------------------------------------------------------------
(* Properties. *)

Hooks == {c.hook : c \in Configs}
Ddls  == {None} \cup {c.ddl : c \in Configs}
Rows  == {Absent} \cup (Hooks \X Contents)

File  == [content : Contents, stat : FileStat]
Entry == [stat : FileStat \cup {NoStat}, content_hash : Held, snapshot_ns : Nat]

Database ==
  [meta : Ddls, schema : [Tables -> Ddls], rows : [Keys -> Rows], entries : [Keys -> Entry]]

TypeOK ==
  /\ clock \in 0 .. MaxClock
  /\ file \in [Files -> File \cup {NoFile}] /\ aside \in [Files -> File \cup {NoFile}]
  /\ cache \in Database /\ work \in Database
  /\ cfg \in Configs
  /\ pc \in {"off", "scan", "stat", "sweep", "create", "ingest", "running"}
  /\ found \subseteq Keys /\ todo \subseteq Keys
  /\ trusted \subseteq found /\ unhashed \subseteq found
  /\ pc \in {"stat", "ingest"} => todo \subseteq found
  /\ pc \in {"off", "sweep", "create", "running"} => todo = {}
  /\ pc # "ingest" => unhashed = {}
  /\ pc = "off" => found = {}
  /\ pc \in {"off", "scan"} => trusted = {}
  /\ plan \in [Keys -> FileStat \cup {NoStat}]
  /\ snapshot \in Nat
  /\ since \in [Files -> SUBSET Held]
  /\ moved \in BOOLEAN /\ stale \in BOOLEAN

Fresh(k) == cache.rows[k] \in {Made(c) : c \in since[k[2]]}

\* The entry's hash is not that of a later content than the one its rows were
\* made from, or is not needed to trust it.
Honest(k) ==
  \/ cache.entries[k].snapshot_ns > cache.entries[k].stat.mtime
  \/ Made(cache.entries[k].content_hash) = cache.rows[k]

\* The rows a run serves are those of a build from nothing: each is made from
\* what its file held at some moment since the run began, whether read or
\* trusted (is_trusted, reconcile_scan, Current).  Said of files not rewritten
\* between their hook's run and their hash, and of the per-table tables that
\* still match a file.
RowsAreFresh ==
  pc = "running" =>
    \A k \in Keys :
      /\ k \in trusted => Honest(k)
      /\ k[1] \in PerTable => OfTable(k[1]) \cap found # {}
      => Fresh(k)

\* persist.md: "A run that changes nothing writes nothing": when no file has
\* changed since the run that wrote the cache began, the next one reads no
\* file and leaves the cache as it was.
QuietRunWritesNothing ==
  [][pc = "ingest" /\ pc' = "running" /\ ~stale /\ Compatible => cache' = cache]_vars

=============================================================================
