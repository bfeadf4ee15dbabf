------------------------- MODULE PersistCacheProofs -------------------------
(***************************************************************************)
(* Proofs about PersistCache: that a run over a cache nothing has made     *)
(* stale writes nothing, and, where the kernel's timestamps do not trail   *)
(* the clock and a configuration's hash covers its hooks, that a run       *)
(* serves the rows a build from nothing would.                             *)
(***************************************************************************)
EXTENDS PersistCache, TLAPS

-----------------------------------------------------------------------------
(* What a run does with the entries it found.                              *)

\* The keys the walk found and whose file has been stat'ed.
Planned == {k \in found : pc = "stat" => k \notin todo}

PlanInv ==
  pc \in {"stat", "sweep", "create", "ingest"} => \A k \in Planned : plan[k] \in FileStat

\* A sweep leaves no entry that could be trusted.
SweptInv ==
  /\ pc = "sweep" => ~Compatible
  /\ pc = "create" /\ ~Compatible => \A k \in Keys : cache.entries[k] = NoEntry

TrustInv ==
  /\ trusted # {} => Compatible
  /\ trusted \subseteq Planned
  /\ pc \in {"stat", "create"} => \A k \in trusted : cache.entries[k] # NoEntry

\* A table that is not there has no rows.
SchemaInv == \A k \in Keys : cache.schema[k[1]] = None => cache.rows[k] = Absent

\* No rows without an entry, unless a per-table hook has lost its last file.
OrphanInv ==
  pc # "sweep" => \A k \in Keys :
    /\ cache.entries[k] = NoEntry
    /\ k[1] \in PerTable => \E j \in OfTable(k[1]) : cache.entries[j] # NoEntry
    => cache.rows[k] = Absent

\* The rows and entries an ingest keeps, those it drops, and those it has
\* made anew.
IngestInv ==
  pc = "ingest" =>
    /\ todo \subseteq ToRead /\ unhashed \subseteq ToRead \ todo
    /\ \A t \in Tables : work.schema[t] # None
    /\ \A k \in found \ ToRead :
         /\ k \in trusted /\ cache.entries[k] # NoEntry
         /\ work.entries[k] = cache.entries[k] /\ work.rows[k] = cache.rows[k]
    /\ \A k \in Keys \ found :
         /\ work.entries[k] = NoEntry
         /\ (k[1] \in PerTable => OfTable(k[1]) \cap found # {}) => work.rows[k] = Absent
    /\ \A k \in ToRead \ (todo \cup unhashed) :
         work.entries[k].stat = plan[k] /\ work.entries[k].snapshot_ns = snapshot

-----------------------------------------------------------------------------
(* Runs during which, or before which, nothing changes.                    *)

\* A run would trust the file's entry, and has one for no other file.
Recorded(entry, f) ==
  IF is_file(f) THEN is_trusted(entry, file[f].stat, file[f].content) ELSE entry = NoEntry

CalmInv == moved => stale

SettledInv == ~stale => \A k \in Keys : Recorded(cache.entries[k], k[2])

\* A run during which no file has changed.
StillInv ==
  pc # "off" /\ ~moved =>
    /\ \A k \in Keys : /\ k \in found => is_file(k[2])
                       /\ is_file(k[2]) => k \in found \/ (pc = "scan" /\ k \in todo)
    /\ pc \in {"stat", "sweep", "create", "ingest"} =>
         \A k \in Planned : plan[k] = file[k[2]].stat
    /\ pc \in {"stat", "create"} => \A k \in trusted : Recorded(cache.entries[k], k[2])
    /\ pc = "ingest" =>
         \A k \in Keys \ (todo \cup unhashed) : Recorded(work.entries[k], k[2])

\* A run over a cache that nothing has made stale.
QuietInv ==
  ~stale /\ Compatible =>
    /\ pc = "stat" => found \ todo \subseteq trusted
    /\ pc = "create" => found \subseteq trusted
    /\ pc = "ingest" => todo = {} /\ unhashed = {} /\ work = cache

IInv ==
  /\ TypeOK /\ PlanInv /\ SweptInv /\ TrustInv /\ SchemaInv /\ OrphanInv /\ IngestInv
  /\ CalmInv /\ SettledInv /\ StillInv /\ QuietInv

-----------------------------------------------------------------------------
(* What rows were made from.                                               *)

\* The configuration's hash tells its hook.
HashCoversHooks == \A c, d \in Configs : c.ddl = d.ddl => c.hook = d.hook

TimeInv ==
  \A f \in Files : file[f].stat.mtime <= clock /\ aside[f].stat.mtime <= clock

\* A file and the one moved away from its path have different inodes.
InodeInv ==
  \A f \in Files : is_file(f) /\ aside[f] # NoFile => file[f].stat.inode # aside[f].stat.inode

\* The file that was stat'ed is at its path, or nowhere.
PlaceInv ==
  pc \in {"stat", "sweep", "create", "ingest"} =>
    \A k \in Planned : aside[k[2]].stat.inode # plan[k].inode

SinceInv == pc # "off" => \A f \in Files : file[f].content \in since[f]

MissedInv ==
  pc # "off" => \A k \in Keys \ found : (pc = "scan" /\ k \in todo) \/ Absent \in since[k[2]]

\* A file with the stat of an entry whose snapshot is later holds what the
\* rows were made from.
Vouches(stat, snap, f, row, hook) ==
  snap > stat.mtime => \A x \in {file[f], aside[f]} : x.stat = stat => row = <<hook, x.content>>

EntryInv ==
  \A k \in Keys : cache.entries[k] # NoEntry =>
    /\ cache.entries[k].stat \in FileStat
    /\ cache.entries[k].snapshot_ns <= clock
    /\ pc # "sweep" => \A c \in Configs : c.ddl = cache.meta =>
         Vouches(cache.entries[k].stat, cache.entries[k].snapshot_ns, k[2], cache.rows[k], c.hook)

Fits(row, k) == row \in {Made(c) : c \in since[k[2]]}

\* What the entry of a file says once the file has been stat'ed, and the
\* entry trusted.
Credible(k) ==
  IF cache.entries[k].snapshot_ns > cache.entries[k].stat.mtime THEN Fits(cache.rows[k], k)
  ELSE cache.entries[k].content_hash \in since[k[2]]

CredibleInv == pc \in {"stat", "create", "ingest"} => \A k \in trusted : Credible(k)

\* The rows an ingest has made.
MadeInv ==
  pc = "ingest" =>
    /\ snapshot <= clock
    /\ \A k \in ToRead \ todo :
         Fits(work.rows[k], k) /\ Vouches(plan[k], snapshot, k[2], work.rows[k], cfg.hook)

FreshInv ==
  /\ TimeInv /\ InodeInv /\ PlaceInv /\ SinceInv /\ MissedInv
  /\ EntryInv /\ CredibleInv /\ MadeInv /\ RowsAreFresh

-----------------------------------------------------------------------------
(* Keys, files and stats.                                                  *)

LEMMA KeyFacts == \A k \in Keys : k[1] \in Tables /\ k[2] \in Files /\ k = <<k[1], k[2]>>
  BY CacheAssumption DEF Keys

LEMMA FileFacts ==
  ASSUME TypeOK, NEW f \in Files
  PROVE  /\ file[f] \in File \cup {NoFile} /\ aside[f] \in File \cup {NoFile}
         /\ file[f].content \in Held /\ file[f].stat \in FileStat \cup {NoStat}
         /\ is_file(f) => file[f].content \in Contents /\ file[f].stat \in FileStat
         /\ ~is_file(f) => file[f].content = Absent
  BY DEF TypeOK, File, NoFile, Held, is_file

\* A stat that was taken tells an entry from none.
LEMMA StatFacts ==
  /\ NoStat \notin FileStat /\ NoFile \notin File
  /\ \A e : e.stat \in FileStat => e # NoEntry
  BY CacheAssumption DEF FileStat, NoStat, NoEntry, NoFile, File

LEMMA InitHolds == Init => IInv
<1>. SUFFICES ASSUME Init PROVE IInv
  OBVIOUS
<1>. USE CacheAssumption DEF Init
<1>1. TypeOK
  <2>1. file \in [Files -> File \cup {NoFile}] /\ aside \in [Files -> File \cup {NoFile}]
    BY DEF File, FileStat
  <2>2. cache \in Database
    BY DEF Database, Ddls, Rows, Entry, NoEntry, Held
  <2>3. /\ plan \in [Keys -> FileStat \cup {NoStat}] /\ since \in [Files -> SUBSET Held]
        /\ clock \in 0 .. MaxClock /\ work \in Database
    BY <2>2
  <2>4. cfg \in Configs /\ pc = "off" /\ snapshot \in Nat
    OBVIOUS
  <2>5. found = {} /\ todo = {} /\ trusted = {} /\ unhashed = {}
    OBVIOUS
  <2>6. moved \in BOOLEAN /\ stale \in BOOLEAN
    OBVIOUS
  <2>. HIDE DEF Init
  <2>. QED
    BY <2>1, <2>2, <2>3, <2>4, <2>5, <2>6 DEF TypeOK
<1>2. PlanInv /\ SweptInv /\ TrustInv /\ IngestInv
  BY DEF PlanInv, SweptInv, TrustInv, IngestInv, Planned
<1>3. SchemaInv /\ OrphanInv
  BY DEF SchemaInv, OrphanInv
<1>4. CalmInv /\ SettledInv /\ StillInv /\ QuietInv
  BY DEF CalmInv, SettledInv, StillInv, QuietInv
<1>. QED
  BY <1>1, <1>2, <1>3, <1>4 DEF IInv

-----------------------------------------------------------------------------
(* The files change.                                                       *)

\* Whatever changes, it makes the run not a still one, and the cache stale.
LEMMA ChangeKeeps ==
  ASSUME IInv, TypeOK', UNCHANGED <<cache, work, run>>,
         \/ stale' /\ moved' = (pc # "off")
         \/ UNCHANGED <<file, ghost>>
  PROVE  IInv'
<1>. USE DEF run, ghost
<1>1. PlanInv' /\ SweptInv' /\ TrustInv' /\ SchemaInv' /\ OrphanInv'
  BY DEF IInv, PlanInv, SweptInv, TrustInv, SchemaInv, OrphanInv, Planned, Compatible
<1>2. IngestInv'
  BY DEF IInv, IngestInv, ToRead, Rerun, Current, Deleted, Cached, Compatible
<1>3. CalmInv' /\ SettledInv' /\ QuietInv'
  BY DEF IInv, CalmInv, SettledInv, QuietInv, Recorded, is_file, Compatible
<1>4. StillInv'
  BY DEF IInv, StillInv, Recorded, is_file, Planned
<1>. QED
  BY <1>1, <1>2, <1>3, <1>4 DEF IInv

LEMMA NotedKeeps ==
  ASSUME IInv, NEW f \in Files, NEW x \in File \cup {NoFile}, NEW y \in File \cup {NoFile},
         file' = [file EXCEPT ![f] = x], aside' = [aside EXCEPT ![f] = y], Noted(f),
         UNCHANGED <<clock, cache, work, run>>
  PROVE  IInv'
<1>1. file'[f].content \in Held
  BY DEF IInv, TypeOK, File, NoFile, Held
<1>2. since' \in [Files -> SUBSET Held]
  BY <1>1 DEF IInv, TypeOK, Noted
<1>3. TypeOK'
  BY <1>2 DEF IInv, TypeOK, Noted, run
<1>. QED
  BY <1>3, ChangeKeeps DEF Noted

LEMMA FileStepKeeps == ASSUME IInv, FileStep PROVE IInv'
<1>1. CASE Tick
  <2>1. TypeOK'
    BY <1>1, CacheAssumption DEF IInv, TypeOK, Tick, run, ghost
  <2>. QED
    BY <1>1, <2>1, ChangeKeeps DEF Tick
<1>2. ASSUME NEW f \in Files, Write(f) PROVE IInv'
  <2>1. PICK c \in Contents, m \in 0 .. clock, i \in Inodes :
          file' = [file EXCEPT ![f] = [content |-> c, stat |-> [inode |-> i, mtime |-> m]]]
    BY <1>2 DEF Write
  <2>2. [content |-> c, stat |-> [inode |-> i, mtime |-> m]] \in File
    BY DEF File, FileStat
  <2>3. aside' = [aside EXCEPT ![f] = aside[f]] /\ aside[f] \in File \cup {NoFile}
    BY <1>2 DEF Write, IInv, TypeOK
  <2>. QED
    BY <1>2, <2>1, <2>2, <2>3, NotedKeeps DEF Write
<1>3. ASSUME NEW f \in Files, Remove(f) PROVE IInv'
  <2>1. aside' = [aside EXCEPT ![f] = aside[f]] /\ aside[f] \in File \cup {NoFile}
    BY <1>3 DEF Remove, IInv, TypeOK
  <2>. QED
    BY <1>3, <2>1, NotedKeeps DEF Remove
<1>4. ASSUME NEW f \in Movable, MoveAside(f) \/ MoveBack(f) PROVE IInv'
  <2>1. f \in Files /\ file[f] \in File \cup {NoFile} /\ aside[f] \in File \cup {NoFile}
    BY CacheAssumption DEF IInv, TypeOK
  <2>2. CASE MoveAside(f)
    BY <2>1, <2>2, NotedKeeps DEF MoveAside
  <2>3. CASE MoveBack(f)
    BY <2>1, <2>3, NotedKeeps DEF MoveBack
  <2>. QED
    BY <1>4, <2>2, <2>3
<1>. QED
  BY <1>1, <1>2, <1>3, <1>4 DEF FileStep

-----------------------------------------------------------------------------
(* The run.                                                                *)

LEMMA ToReadStays ==
  UNCHANGED <<cache, cfg, found, trusted>> => ToRead' = ToRead
  BY DEF ToRead, Rerun, Current, Deleted, Cached, Compatible

LEMMA ToReadFound == ToRead \subseteq found
  BY DEF ToRead

LEMMA OverKeeps == ASSUME IInv, Over, pc # "sweep" PROVE IInv'
<1>. USE DEF files, run, ghost
<1>1. TypeOK'
  <2>1. since' \in [Files -> SUBSET Held] /\ plan' \in [Keys -> FileStat \cup {NoStat}]
    BY DEF Over
  <2>. QED
    BY <2>1 DEF IInv, TypeOK, Over
<1>2. PlanInv'
  BY DEF IInv, PlanInv, Planned, TypeOK, Over
<1>3. SweptInv'
  BY DEF IInv, SweptInv, Compatible, TypeOK, Over
<1>4. TrustInv'
  BY DEF IInv, TrustInv, Planned, Compatible, TypeOK, Over
<1>5. SchemaInv'
  BY DEF IInv, SchemaInv, TypeOK, Over
<1>6. OrphanInv'
  BY DEF IInv, OrphanInv, TypeOK, Over
<1>7. IngestInv'
  BY DEF IInv, IngestInv, TypeOK, Over
<1>8. CalmInv'
  BY DEF IInv, CalmInv, TypeOK, Over
<1>9. SettledInv'
  BY DEF IInv, SettledInv, Recorded, is_file, TypeOK, Over
<1>10. StillInv'
  BY DEF IInv, StillInv, Recorded, is_file, Planned, TypeOK, Over
<1>11. QuietInv'
  BY DEF IInv, QuietInv, Compatible, TypeOK, Over
<1>. QED
  BY <1>1, <1>2, <1>3, <1>4, <1>5, <1>6, <1>7, <1>8, <1>9, <1>10, <1>11 DEF IInv

LEMMA StartKeeps == ASSUME IInv, NEW c \in Configs, Start(c) PROVE IInv'
<1>. USE DEF files, run, ghost
<1>1. TypeOK'
  <2>1. since' \in [Files -> SUBSET Held]
    BY FileFacts DEF IInv, Start
  <2>. QED
    BY <2>1 DEF IInv, TypeOK, Start
<1>2. PlanInv'
  BY DEF IInv, PlanInv, Planned, TypeOK, Start
<1>3. SweptInv'
  BY DEF IInv, SweptInv, Compatible, TypeOK, Start
<1>4. TrustInv'
  BY DEF IInv, TrustInv, Planned, Compatible, TypeOK, Start
<1>5. SchemaInv'
  BY DEF IInv, SchemaInv, TypeOK, Start
<1>6. OrphanInv'
  BY DEF IInv, OrphanInv, TypeOK, Start
<1>7. IngestInv'
  BY DEF IInv, IngestInv, TypeOK, Start
<1>8. CalmInv'
  BY DEF IInv, CalmInv, TypeOK, Start
<1>9. SettledInv'
  BY DEF IInv, SettledInv, Recorded, is_file, TypeOK, Start
<1>10. StillInv'
  BY DEF IInv, StillInv, Recorded, is_file, Planned, TypeOK, Start
<1>11. QuietInv'
  BY DEF IInv, QuietInv, Compatible, TypeOK, Start
<1>. QED
  BY <1>1, <1>2, <1>3, <1>4, <1>5, <1>6, <1>7, <1>8, <1>9, <1>10, <1>11 DEF IInv

LEMMA ScanKeeps == ASSUME IInv, NEW f \in Files, Scan(f) PROVE IInv'
<1>. USE DEF files, run, ghost
<1>1. TypeOK'
  BY DEF IInv, TypeOK, Scan, OfFile
<1>2. PlanInv'
  BY DEF IInv, PlanInv, Planned, TypeOK, Scan
<1>3. SweptInv'
  BY DEF IInv, SweptInv, Compatible, TypeOK, Scan
<1>4. TrustInv'
  BY DEF IInv, TrustInv, Planned, Compatible, TypeOK, Scan
<1>5. SchemaInv'
  BY DEF IInv, SchemaInv, TypeOK, Scan
<1>6. OrphanInv'
  BY DEF IInv, OrphanInv, TypeOK, Scan
<1>7. IngestInv'
  BY DEF IInv, IngestInv, TypeOK, Scan
<1>8. CalmInv'
  BY DEF IInv, CalmInv, TypeOK, Scan
<1>9. SettledInv'
  BY DEF IInv, SettledInv, Recorded, is_file, TypeOK, Scan
<1>10. StillInv'
  BY DEF IInv, StillInv, TypeOK, Scan, OfFile, is_file
<1>11. QuietInv'
  BY DEF IInv, QuietInv, Compatible, TypeOK, Scan
<1>. QED
  BY <1>1, <1>2, <1>3, <1>4, <1>5, <1>6, <1>7, <1>8, <1>9, <1>10, <1>11 DEF IInv

LEMMA ScannedKeeps == ASSUME IInv, Scanned PROVE IInv'
<1>. USE DEF files, run, ghost
<1>1. TypeOK'
  BY DEF IInv, TypeOK, Scanned
<1>2. PlanInv'
  BY DEF IInv, PlanInv, Planned, TypeOK, Scanned
<1>3. SweptInv'
  BY DEF IInv, SweptInv, Compatible, TypeOK, Scanned
<1>4. TrustInv'
  BY DEF IInv, TrustInv, Planned, Compatible, TypeOK, Scanned
<1>5. SchemaInv'
  BY DEF IInv, SchemaInv, TypeOK, Scanned
<1>6. OrphanInv'
  BY DEF IInv, OrphanInv, TypeOK, Scanned
<1>7. IngestInv'
  BY DEF IInv, IngestInv, TypeOK, Scanned
<1>8. CalmInv'
  BY DEF IInv, CalmInv, TypeOK, Scanned
<1>9. SettledInv'
  BY DEF IInv, SettledInv, Recorded, is_file, TypeOK, Scanned
<1>10. StillInv'
  BY DEF IInv, StillInv, Recorded, is_file, Planned, TypeOK, Scanned
<1>11. QuietInv'
  BY DEF IInv, QuietInv, Compatible, TypeOK, Scanned
<1>. QED
  BY <1>1, <1>2, <1>3, <1>4, <1>5, <1>6, <1>7, <1>8, <1>9, <1>10, <1>11 DEF IInv

LEMMA StatKeeps == ASSUME IInv, NEW k \in Keys, Stat(k) PROVE IInv'
<1>. USE DEF files, run, ghost
<1>1. TypeOK'
  <2>1. plan' \in [Keys -> FileStat \cup {NoStat}]
    BY KeyFacts, FileFacts DEF IInv, TypeOK, Stat
  <2>2. found' = found /\ todo' \subseteq todo /\ k \in found /\ trusted' \subseteq trusted \cup {k}
    BY DEF IInv, TypeOK, Stat
  <2>. QED
    BY <2>1, <2>2 DEF IInv, TypeOK, Stat
<1>2. PlanInv'
  BY KeyFacts, FileFacts DEF IInv, PlanInv, Planned, TypeOK, Stat
<1>3. SweptInv'
  BY DEF IInv, SweptInv, Compatible, TypeOK, Stat
<1>4. TrustInv'
  BY DEF IInv, TrustInv, Planned, TypeOK, Stat, is_trusted, Cached, Compatible
<1>5. SchemaInv'
  BY DEF IInv, SchemaInv, TypeOK, Stat
<1>6. OrphanInv'
  BY DEF IInv, OrphanInv, TypeOK, Stat
<1>7. IngestInv'
  BY DEF IInv, IngestInv, TypeOK, Stat
<1>8. CalmInv'
  BY DEF IInv, CalmInv, TypeOK, Stat
<1>9. SettledInv'
  BY DEF IInv, SettledInv, Recorded, is_file, TypeOK, Stat
<1>10. StillInv'
  <2>1. SUFFICES ASSUME ~moved PROVE StillInv'
    BY DEF Stat, StillInv
  <2>2. \A j \in Planned' : plan'[j] = file[j[2]].stat
    BY <2>1 DEF IInv, StillInv, Planned, TypeOK, Stat
  <2>3. \A j \in trusted' : Recorded(cache.entries[j], j[2])
    <3>1. k \in trusted' => Recorded(cache.entries[k], k[2])
      BY DEF IInv, Stat, Recorded, Cached, is_trusted, TrustInv, Planned
    <3>. QED
      BY <2>1, <3>1 DEF IInv, StillInv, Stat
  <2>. QED
    BY <2>1, <2>2, <2>3 DEF IInv, StillInv, Recorded, is_file, Stat
<1>11. QuietInv'
  <2>1. ~stale /\ Compatible => k \in trusted'
    BY KeyFacts DEF IInv, SettledInv, Recorded, Stat, Cached
  <2>. QED
    BY <2>1 DEF IInv, QuietInv, Compatible, TypeOK, Stat
<1>. QED
  BY <1>1, <1>2, <1>3, <1>4, <1>5, <1>6, <1>7, <1>8, <1>9, <1>10, <1>11 DEF IInv

LEMMA ReconciledKeeps == ASSUME IInv, Reconciled PROVE IInv'
<1>. USE DEF files, run, ghost
<1>1. TypeOK'
  BY DEF IInv, TypeOK, Reconciled
<1>2. PlanInv'
  BY DEF IInv, PlanInv, Planned, TypeOK, Reconciled
<1>3. SweptInv'
  BY DEF IInv, SweptInv, Compatible, TypeOK, Reconciled
<1>4. TrustInv'
  BY DEF IInv, TrustInv, Planned, Compatible, TypeOK, Reconciled
<1>5. SchemaInv'
  BY DEF IInv, SchemaInv, TypeOK, Reconciled
<1>6. OrphanInv'
  BY DEF IInv, OrphanInv, TypeOK, Reconciled
<1>7. IngestInv'
  BY DEF IInv, IngestInv, TypeOK, Reconciled
<1>8. CalmInv'
  BY DEF IInv, CalmInv, TypeOK, Reconciled
<1>9. SettledInv'
  BY DEF IInv, SettledInv, Recorded, is_file, TypeOK, Reconciled
<1>10. StillInv'
  BY DEF IInv, StillInv, Recorded, is_file, Planned, TypeOK, Reconciled
<1>11. QuietInv'
  BY DEF IInv, QuietInv, Compatible, TypeOK, Reconciled
<1>. QED
  BY <1>1, <1>2, <1>3, <1>4, <1>5, <1>6, <1>7, <1>8, <1>9, <1>10, <1>11 DEF IInv

LEMMA DropTableKeeps == ASSUME IInv, NEW t \in Tables, DropTable(t) PROVE IInv'
<1>. USE DEF files, run, ghost
<1>1. TypeOK'
  <2>1. cache' \in Database
    BY DEF IInv, TypeOK, DropTable, Database, Ddls, Rows
  <2>. QED
    BY <2>1 DEF IInv, TypeOK, DropTable
<1>2. PlanInv'
  BY DEF IInv, PlanInv, Planned, TypeOK, DropTable
<1>3. SweptInv'
  BY DEF IInv, SweptInv, Compatible, TypeOK, DropTable
<1>4. TrustInv'
  BY DEF IInv, TrustInv, Planned, Compatible, TypeOK, DropTable
<1>5. SchemaInv'
  BY DEF IInv, SchemaInv, TypeOK, DropTable
<1>6. OrphanInv'
  BY DEF IInv, OrphanInv, TypeOK, DropTable
<1>7. IngestInv'
  BY DEF IInv, IngestInv, TypeOK, DropTable
<1>8. CalmInv'
  BY DEF IInv, CalmInv, TypeOK, DropTable
<1>9. SettledInv'
  BY DEF IInv, SettledInv, Recorded, is_file, TypeOK, DropTable
<1>10. StillInv'
  BY DEF IInv, StillInv, Recorded, is_file, Planned, TypeOK, DropTable
<1>11. QuietInv'
  BY DEF IInv, QuietInv, Compatible, TypeOK, DropTable
<1>. QED
  BY <1>1, <1>2, <1>3, <1>4, <1>5, <1>6, <1>7, <1>8, <1>9, <1>10, <1>11 DEF IInv

LEMMA DropEntriesKeeps == ASSUME IInv, DropEntries PROVE IInv'
<1>. USE DEF files, run, ghost
<1>1. TypeOK'
  <2>1. cache' \in Database
    BY DEF IInv, TypeOK, DropEntries, Database, Entry, NoEntry, Held
  <2>. QED
    BY <2>1 DEF IInv, TypeOK, DropEntries
<1>2. PlanInv'
  BY DEF IInv, PlanInv, Planned, TypeOK, DropEntries
<1>3. SweptInv'
  BY DEF IInv, SweptInv, Compatible, TypeOK, DropEntries
<1>4. TrustInv'
  BY DEF IInv, SweptInv, TrustInv, Planned, Compatible, TypeOK, DropEntries
<1>5. SchemaInv'
  BY DEF IInv, SchemaInv, TypeOK, DropEntries
<1>6. OrphanInv'
  BY KeyFacts DEF IInv, OrphanInv, SchemaInv, TypeOK, Database, DropEntries
<1>7. IngestInv'
  BY DEF IInv, IngestInv, TypeOK, DropEntries
<1>8. CalmInv'
  BY DEF IInv, CalmInv, TypeOK, DropEntries
<1>9. SettledInv'
  BY DEF IInv, SettledInv, Recorded, is_file, TypeOK, DropEntries
<1>10. StillInv'
  BY DEF IInv, SweptInv, TrustInv, StillInv, Planned, TypeOK, DropEntries, is_file
<1>11. QuietInv'
  BY DEF IInv, QuietInv, Compatible, TypeOK, DropEntries
<1>. QED
  BY <1>1, <1>2, <1>3, <1>4, <1>5, <1>6, <1>7, <1>8, <1>9, <1>10, <1>11 DEF IInv

LEMMA CreateTableKeeps == ASSUME IInv, NEW t \in Tables, CreateTable(t) PROVE IInv'
<1>. USE DEF files, run, ghost
<1>1. TypeOK'
  <2>1. cache' \in Database
    BY DEF IInv, TypeOK, CreateTable, Database, Ddls
  <2>. QED
    BY <2>1 DEF IInv, TypeOK, CreateTable
<1>2. PlanInv'
  BY DEF IInv, PlanInv, Planned, TypeOK, CreateTable
<1>3. SweptInv'
  BY DEF IInv, SweptInv, Compatible, TypeOK, CreateTable
<1>4. TrustInv'
  BY DEF IInv, TrustInv, Planned, Compatible, TypeOK, CreateTable
<1>5. SchemaInv'
  BY DEF IInv, SchemaInv, TypeOK, CreateTable
<1>6. OrphanInv'
  BY DEF IInv, OrphanInv, TypeOK, CreateTable
<1>7. IngestInv'
  BY DEF IInv, IngestInv, TypeOK, CreateTable
<1>8. CalmInv'
  BY DEF IInv, CalmInv, TypeOK, CreateTable
<1>9. SettledInv'
  BY DEF IInv, SettledInv, Recorded, is_file, TypeOK, CreateTable
<1>10. StillInv'
  BY DEF IInv, StillInv, Recorded, is_file, Planned, TypeOK, CreateTable
<1>11. QuietInv'
  BY DEF IInv, QuietInv, Compatible, TypeOK, CreateTable
<1>. QED
  BY <1>1, <1>2, <1>3, <1>4, <1>5, <1>6, <1>7, <1>8, <1>9, <1>10, <1>11 DEF IInv

LEMMA BeginKeeps == ASSUME IInv, Begin PROVE IInv'
<1>. USE DEF files, run, ghost
<1>1. TypeOK'
  <2>1. work' \in Database
    BY DEF IInv, TypeOK, Begin, Database, Rows, Entry, NoEntry, Held
  <2>2. todo' \subseteq found /\ found \subseteq Keys
    BY DEF IInv, TypeOK, Begin, ToRead
  <2>3. snapshot' \in Nat
    BY CacheAssumption DEF IInv, TypeOK, Begin
  <2>. QED
    BY <2>1, <2>2, <2>3 DEF IInv, TypeOK, Begin
<1>2. PlanInv'
  BY DEF IInv, PlanInv, Planned, TypeOK, Begin
<1>3. SweptInv'
  BY DEF IInv, SweptInv, Compatible, TypeOK, Begin
<1>4. TrustInv'
  BY DEF IInv, TrustInv, Planned, Compatible, TypeOK, Begin
<1>5. SchemaInv'
  BY DEF IInv, SchemaInv, TypeOK, Begin
<1>6. OrphanInv'
  BY DEF IInv, OrphanInv, TypeOK, Begin
<1>7. IngestInv'
  <2>1. /\ pc = "create" /\ pc' = "ingest" /\ todo' = ToRead /\ unhashed' = {}
        /\ UNCHANGED <<cache, cfg, found, plan, trusted>>
        /\ work'.schema = cache.schema
        /\ \A k \in Keys : /\ work'.rows[k] = IF k[1] \in Rerun \/ (k[1] \in PerFile /\ k \in Deleted)
                                             THEN Absent ELSE cache.rows[k]
                          /\ work'.entries[k] = IF k \in Deleted THEN NoEntry ELSE cache.entries[k]
    BY DEF IInv, TypeOK, Begin, Database
  <2>2. ToRead' = ToRead
    BY <2>1, ToReadStays
  <2>3. ASSUME NEW k \in found \ ToRead
        PROVE  /\ k \in trusted /\ cache.entries[k] # NoEntry
               /\ work'.entries[k] = cache.entries[k] /\ work'.rows[k] = cache.rows[k]
    <3>1. k \in Keys /\ k[1] \in PerFile \cup PerTable /\ k \notin Deleted
      BY KeyFacts DEF IInv, TypeOK, Tables, Deleted
    <3>2. k[1] \in PerTable => Current(k[1])
      BY <3>1, CacheAssumption DEF ToRead, Rerun, OfTable
    <3>3. k \in trusted
      BY <3>1, <3>2, CacheAssumption DEF ToRead, Current, OfTable
    <3>4. k[1] \notin Rerun
      BY <3>1, <3>2, CacheAssumption DEF Rerun
    <3>. QED
      BY <2>1, <3>1, <3>3, <3>4 DEF IInv, TrustInv
  <2>4. ASSUME NEW k \in Keys \ found
        PROVE  /\ work'.entries[k] = NoEntry
               /\ (k[1] \in PerTable => OfTable(k[1]) \cap found # {}) => work'.rows[k] = Absent
    <3>1. k \notin Deleted => cache.entries[k] = NoEntry
      BY <2>1 DEF IInv, SweptInv, Deleted, Cached
    <3>2. CASE k[1] \in PerFile
      BY <2>1, <3>1, <3>2, CacheAssumption DEF IInv, OrphanInv
    <3>3. CASE k[1] \in PerTable /\ k[1] \in Rerun
      BY <2>1, <3>1, <3>3
    <3>4. CASE k[1] \in PerTable /\ k[1] \notin Rerun
      <4>1. SUFFICES ASSUME NEW j \in OfTable(k[1]) \cap found PROVE work'.rows[k] = Absent
        BY <2>1, <3>1, <3>4
      <4>2. Current(k[1])
        BY <3>4, <4>1 DEF Rerun
      <4>3. k \notin Deleted /\ j \in trusted
        BY <4>1, <4>2 DEF Current, OfTable
      <4>4. cache.entries[j] # NoEntry
        BY <2>1, <4>3 DEF IInv, TrustInv
      <4>5. cache.rows[k] = Absent
        BY <2>1, <3>1, <4>3, <4>4 DEF IInv, OrphanInv
      <4>. QED
        BY <2>1, <3>4, <4>3, <4>5
    <3>. QED
      BY <3>2, <3>3, <3>4, KeyFacts DEF Tables
  <2>5. \A t \in Tables : work'.schema[t] # None
    BY <2>1 DEF Begin
  <2>. QED
    BY <2>1, <2>2, <2>3, <2>4, <2>5 DEF IngestInv
<1>8. CalmInv'
  BY DEF IInv, CalmInv, TypeOK, Begin
<1>9. SettledInv'
  BY DEF IInv, SettledInv, Recorded, is_file, TypeOK, Begin
<1>10. StillInv'
  <2>1. SUFFICES ASSUME ~moved PROVE StillInv'
    BY DEF Begin, StillInv
  <2>2. /\ pc = "create" /\ pc' = "ingest" /\ todo' = ToRead /\ unhashed' = {} /\ ToRead' = ToRead
        /\ UNCHANGED <<cache, cfg, found, plan, trusted, file>>
    BY ToReadStays DEF IInv, TypeOK, Begin
  <2>3. ASSUME NEW k \in Keys \ ToRead PROVE Recorded(work'.entries[k], k[2])
    <3>1. CASE k \in found
      BY <1>7, <2>1, <2>2, <3>1 DEF IInv, IngestInv, StillInv
    <3>2. CASE k \notin found
      BY <1>7, <2>1, <2>2, <3>2 DEF IInv, IngestInv, StillInv, Recorded
    <3>. QED
      BY <3>1, <3>2
  <2>. QED
    BY <2>1, <2>2, <2>3 DEF IInv, StillInv, Planned, Recorded, is_file
<1>11. QuietInv'
  <2>1. SUFFICES ASSUME ~stale, Compatible PROVE todo' = {} /\ unhashed' = {} /\ work' = cache'
    BY DEF QuietInv, Begin, Compatible
  <2>2. pc = "create" /\ found \subseteq trusted /\ ~moved
    BY <2>1 DEF IInv, QuietInv, CalmInv, Begin
  <2>3. Deleted = {}
    BY <2>1, <2>2, KeyFacts DEF IInv, StillInv, SettledInv, Recorded, Deleted, Cached
  <2>4. Rerun = {}
    BY <2>2, <2>3 DEF Rerun, Current
  <2>5. todo' = {} /\ unhashed' = {}
    BY <2>2, <2>4 DEF Begin, ToRead, IInv, TypeOK
  <2>6. /\ [k \in Keys |-> IF k[1] \in Rerun \/ (k[1] \in PerFile /\ k \in Deleted)
                           THEN Absent ELSE cache.rows[k]] = cache.rows
        /\ [k \in Keys |-> IF k \in Deleted THEN NoEntry ELSE cache.entries[k]] = cache.entries
    BY <2>3, <2>4 DEF IInv, TypeOK, Database
  <2>7. work' = [cache EXCEPT !.rows = cache.rows, !.entries = cache.entries]
    BY <2>6 DEF Begin
  <2>. QED
    BY <2>5, <2>7 DEF IInv, TypeOK, Database, Begin
<1>. QED
  BY <1>1, <1>2, <1>3, <1>4, <1>5, <1>6, <1>7, <1>8, <1>9, <1>10, <1>11 DEF IInv

LEMMA ReadFileKeeps == ASSUME IInv, NEW k \in Keys, ReadFile(k) PROVE IInv'
<1>. USE DEF files, run, ghost
<1>1. TypeOK'
  <2>1. file[k[2]].content \in Held
    BY KeyFacts, FileFacts DEF IInv
  <2>2. Made(file[k[2]].content) \in Rows
    BY <2>1 DEF IInv, TypeOK, Made, Held, Rows, Hooks
  <2>3. work' \in Database
    BY <2>2 DEF IInv, TypeOK, ReadFile, Database
  <2>4. k \in found
    BY DEF IInv, TypeOK, ReadFile
  <2>. QED
    BY <2>1, <2>2, <2>3, <2>4 DEF IInv, TypeOK, ReadFile
<1>2. PlanInv'
  BY DEF IInv, PlanInv, Planned, TypeOK, ReadFile
<1>3. SweptInv'
  BY DEF IInv, SweptInv, Compatible, TypeOK, ReadFile
<1>4. TrustInv'
  BY DEF IInv, TrustInv, Planned, Compatible, TypeOK, ReadFile
<1>5. SchemaInv'
  BY DEF IInv, SchemaInv, TypeOK, ReadFile
<1>6. OrphanInv'
  BY DEF IInv, OrphanInv, TypeOK, ReadFile
<1>7. IngestInv'
  <2>1. ToRead' = ToRead /\ k \in ToRead /\ k \in found
    BY ToReadStays, ToReadFound DEF IInv, IngestInv, ReadFile
  <2>2. /\ work'.schema = work.schema /\ work'.entries = work.entries
        /\ \A j \in Keys \ {k} : work'.rows[j] = work.rows[j]
    BY DEF IInv, TypeOK, Database, ReadFile
  <2>3. todo' \subseteq ToRead /\ unhashed' \subseteq ToRead \ todo'
    BY <2>1 DEF IInv, IngestInv, TypeOK, ReadFile
  <2>4. ToRead \ (todo' \cup unhashed') \subseteq ToRead \ (todo \cup unhashed)
    BY DEF ReadFile
  <2>. QED
    BY <2>1, <2>2, <2>3, <2>4 DEF IInv, IngestInv, TypeOK, ReadFile
<1>8. CalmInv'
  BY DEF IInv, CalmInv, TypeOK, ReadFile
<1>9. SettledInv'
  BY DEF IInv, SettledInv, Recorded, is_file, TypeOK, ReadFile
<1>10. StillInv'
  BY DEF IInv, StillInv, Recorded, is_file, Planned, TypeOK, ReadFile
<1>11. QuietInv'
  BY DEF IInv, QuietInv, Compatible, TypeOK, ReadFile
<1>. QED
  BY <1>1, <1>2, <1>3, <1>4, <1>5, <1>6, <1>7, <1>8, <1>9, <1>10, <1>11 DEF IInv

LEMMA HookReadsKeeps == ASSUME IInv, NEW k \in Keys, HookReads(k) PROVE IInv'
<1>. USE DEF files, run, ghost
<1>1. TypeOK'
  <2>1. file[k[2]].content \in Held
    BY KeyFacts, FileFacts DEF IInv
  <2>2. Made(file[k[2]].content) \in Rows
    BY <2>1 DEF IInv, TypeOK, Made, Held, Rows, Hooks
  <2>3. work' \in Database
    BY <2>2 DEF IInv, TypeOK, HookReads, Database
  <2>4. k \in found
    BY DEF IInv, TypeOK, HookReads
  <2>. QED
    BY <2>1, <2>2, <2>3, <2>4 DEF IInv, TypeOK, HookReads
<1>2. PlanInv'
  BY DEF IInv, PlanInv, Planned, TypeOK, HookReads
<1>3. SweptInv'
  BY DEF IInv, SweptInv, Compatible, TypeOK, HookReads
<1>4. TrustInv'
  BY DEF IInv, TrustInv, Planned, Compatible, TypeOK, HookReads
<1>5. SchemaInv'
  BY DEF IInv, SchemaInv, TypeOK, HookReads
<1>6. OrphanInv'
  BY DEF IInv, OrphanInv, TypeOK, HookReads
<1>7. IngestInv'
  <2>1. ToRead' = ToRead /\ k \in ToRead /\ k \in found
    BY ToReadStays, ToReadFound DEF IInv, IngestInv, HookReads
  <2>2. /\ work'.schema = work.schema /\ work'.entries = work.entries
        /\ \A j \in Keys \ {k} : work'.rows[j] = work.rows[j]
    BY DEF IInv, TypeOK, Database, HookReads
  <2>3. todo' \subseteq ToRead /\ unhashed' \subseteq ToRead \ todo'
    BY <2>1 DEF IInv, IngestInv, TypeOK, HookReads
  <2>4. ToRead \ (todo' \cup unhashed') \subseteq ToRead \ (todo \cup unhashed)
    BY DEF HookReads
  <2>. QED
    BY <2>1, <2>2, <2>3, <2>4 DEF IInv, IngestInv, TypeOK, HookReads
<1>8. CalmInv'
  BY DEF IInv, CalmInv, TypeOK, HookReads
<1>9. SettledInv'
  BY DEF IInv, SettledInv, Recorded, is_file, TypeOK, HookReads
<1>10. StillInv'
  BY DEF IInv, StillInv, Recorded, is_file, Planned, TypeOK, HookReads
<1>11. QuietInv'
  BY DEF IInv, QuietInv, Compatible, TypeOK, HookReads
<1>. QED
  BY <1>1, <1>2, <1>3, <1>4, <1>5, <1>6, <1>7, <1>8, <1>9, <1>10, <1>11 DEF IInv

LEMMA HashKeeps == ASSUME IInv, NEW k \in Keys, Hash(k) PROVE IInv'
<1>. USE DEF files, run, ghost
<1>1. TypeOK'
  <2>1. file[k[2]].content \in Held
    BY KeyFacts, FileFacts DEF IInv
  <2>2. [stat |-> plan[k], content_hash |-> file[k[2]].content, snapshot_ns |-> snapshot] \in Entry
    BY <2>1 DEF IInv, TypeOK, Entry
  <2>3. work' \in Database
    BY <2>2 DEF IInv, TypeOK, Hash, Database
  <2>. QED
    BY <2>1, <2>2, <2>3 DEF IInv, TypeOK, Hash
<1>2. PlanInv'
  BY DEF IInv, PlanInv, Planned, TypeOK, Hash
<1>3. SweptInv'
  BY DEF IInv, SweptInv, Compatible, TypeOK, Hash
<1>4. TrustInv'
  BY DEF IInv, TrustInv, Planned, Compatible, TypeOK, Hash
<1>5. SchemaInv'
  BY DEF IInv, SchemaInv, TypeOK, Hash
<1>6. OrphanInv'
  BY DEF IInv, OrphanInv, TypeOK, Hash
<1>7. IngestInv'
  <2>1. ToRead' = ToRead /\ k \in ToRead /\ k \in found
    BY ToReadStays, ToReadFound DEF IInv, IngestInv, Hash
  <2>2. /\ work'.schema = work.schema /\ work'.rows = work.rows
        /\ \A j \in Keys \ {k} : work'.entries[j] = work.entries[j]
        /\ work'.entries[k].stat = plan[k] /\ work'.entries[k].snapshot_ns = snapshot
    BY DEF IInv, TypeOK, Database, Hash
  <2>3. \A j \in ToRead \ (todo \cup unhashed') : j = k \/ j \in ToRead \ (todo \cup unhashed)
    BY DEF Hash
  <2>4. ToRead \subseteq Keys
    BY ToReadFound DEF IInv, TypeOK
  <2>. QED
    BY <2>1, <2>2, <2>3, <2>4 DEF IInv, IngestInv, TypeOK, Hash
<1>8. CalmInv'
  BY DEF IInv, CalmInv, TypeOK, Hash
<1>9. SettledInv'
  BY DEF IInv, SettledInv, Recorded, is_file, TypeOK, Hash
<1>10. StillInv'
  <2>1. SUFFICES ASSUME ~moved PROVE StillInv'
    BY DEF Hash, StillInv
  <2>2. k \in found /\ is_file(k[2]) /\ plan[k] = file[k[2]].stat /\ plan[k] \in FileStat
    BY <2>1, ToReadFound DEF IInv, IngestInv, StillInv, PlanInv, Planned, Hash
  <2>3. /\ work'.entries[k] =
             [stat |-> plan[k], content_hash |-> file[k[2]].content, snapshot_ns |-> snapshot]
        /\ \A j \in Keys \ {k} : work'.entries[j] = work.entries[j]
    BY DEF IInv, TypeOK, Database, Hash
  <2>4. Recorded(work'.entries[k], k[2])
    BY <2>2, <2>3, StatFacts DEF Recorded, is_trusted
  <2>5. \A j \in Keys \ (todo \cup unhashed') : Recorded(work'.entries[j], j[2])
    BY <2>1, <2>3, <2>4 DEF IInv, StillInv, Hash
  <2>. QED
    BY <2>1, <2>5 DEF IInv, StillInv, Planned, Recorded, is_file, Hash
<1>11. QuietInv'
  BY DEF IInv, QuietInv, Compatible, TypeOK, Hash
<1>. QED
  BY <1>1, <1>2, <1>3, <1>4, <1>5, <1>6, <1>7, <1>8, <1>9, <1>10, <1>11 DEF IInv

LEMMA CommitKeeps == ASSUME IInv, Commit PROVE IInv'
<1>. USE DEF files, run, ghost
<1>1. TypeOK'
  <2>1. cache' \in Database
    BY DEF IInv, TypeOK, Commit, Database, Ddls
  <2>. QED
    BY <2>1 DEF IInv, TypeOK, Commit
<1>2. PlanInv'
  BY DEF IInv, PlanInv, Planned, TypeOK, Commit
<1>3. SweptInv'
  BY DEF IInv, SweptInv, Compatible, TypeOK, Commit
<1>4. TrustInv'
  BY DEF IInv, TrustInv, Planned, Compatible, TypeOK, Commit
<1>5. SchemaInv'
  <2>1. cache'.schema = work.schema
    BY DEF IInv, TypeOK, Database, Commit
  <2>. QED
    BY <2>1, KeyFacts DEF IInv, IngestInv, SchemaInv, Commit
<1>6. OrphanInv'
  <2>1. cache'.entries = work.entries /\ cache'.rows = work.rows
    BY DEF IInv, TypeOK, Database, Commit
  <2>2. ASSUME NEW k \in found PROVE work.entries[k] # NoEntry
    <3>1. CASE k \in ToRead
      <4>1. work.entries[k].stat = plan[k] /\ plan[k] \in FileStat
        BY <3>1 DEF IInv, IngestInv, PlanInv, Planned, Commit
      <4>. QED
        BY <4>1, StatFacts
    <3>2. CASE k \notin ToRead
      BY <3>2 DEF IInv, IngestInv, Commit
    <3>. QED
      BY <3>1, <3>2
  <2>3. ASSUME NEW k \in Keys, work.entries[k] = NoEntry,
               k[1] \in PerTable => \E j \in OfTable(k[1]) : work.entries[j] # NoEntry
        PROVE  work.rows[k] = Absent
    <3>1. k \notin found
      BY <2>2, <2>3
    <3>2. \A j \in OfTable(k[1]) : work.entries[j] # NoEntry => j \in found
      BY DEF IInv, IngestInv, OfTable, Commit
    <3>. QED
      BY <2>3, <3>1, <3>2 DEF IInv, IngestInv, Commit
  <2>. QED
    BY <2>1, <2>3 DEF OrphanInv, OfTable
<1>7. IngestInv'
  BY DEF IInv, IngestInv, TypeOK, Commit
<1>8. CalmInv'
  BY DEF IInv, CalmInv, TypeOK, Commit
<1>9. SettledInv'
  <2>1. cache'.entries = work.entries
    BY DEF IInv, TypeOK, Database, Commit
  <2>. QED
    BY <2>1 DEF IInv, StillInv, SettledInv, Recorded, is_file, Commit
<1>10. StillInv'
  BY DEF IInv, StillInv, Recorded, is_file, Planned, TypeOK, Commit
<1>11. QuietInv'
  BY DEF IInv, QuietInv, Compatible, TypeOK, Commit
<1>. QED
  BY <1>1, <1>2, <1>3, <1>4, <1>5, <1>6, <1>7, <1>8, <1>9, <1>10, <1>11 DEF IInv

LEMMA NextKeeps == IInv /\ [Next]_vars => IInv'
<1>. SUFFICES ASSUME IInv, [Next]_vars PROVE IInv'
  OBVIOUS
<1>1. CASE FileStep
  BY <1>1, FileStepKeeps
<1>2. ASSUME NEW c \in Configs, Start(c) PROVE IInv'
  BY <1>2, StartKeeps
<1>3. CASE BuildStep
  BY <1>3, ScanKeeps, ScannedKeeps, StatKeeps, ReconciledKeeps, DropTableKeeps, CreateTableKeeps,
     DropEntriesKeeps, BeginKeeps, ReadFileKeeps, HookReadsKeeps, HashKeeps, CommitKeeps
     DEF BuildStep
<1>4. CASE BuildStops \/ Exit
  BY <1>4, OverKeeps DEF BuildStops, Exit
<1>5. CASE UNCHANGED vars
  <2>1. TypeOK'
    BY <1>5 DEF vars, files, run, ghost, IInv, TypeOK
  <2>. QED
    BY <1>5, <2>1, ChangeKeeps DEF vars, files
<1>. QED
  BY <1>1, <1>2, <1>3, <1>4, <1>5 DEF Next

\* The inductive invariant: what a run has stat'ed, trusts, keeps and makes
\* anew, and what it is to find where nothing has changed.
THEOREM Invariance == Spec => []IInv
<1>. QED
  BY InitHolds, NextKeeps, PTL DEF Spec

\* Every variable keeps to its type (the state of a build, persist.rs and
\* finish_build).
THEOREM TypeCorrect == Spec => []TypeOK
<1>1. IInv => TypeOK
  BY DEF IInv
<1>. QED
  BY <1>1, Invariance, PTL

\* A run over a cache no file has changed under since the run that wrote it
\* began reads no file and commits what was there: for any tables, files,
\* configurations and clock.
THEOREM QuietRunWritesNothingHolds == Spec => QuietRunWritesNothing
<1>1. IInv /\ [Next]_vars =>
        [pc = "ingest" /\ pc' = "running" /\ ~stale /\ Compatible => cache' = cache]_vars
  <2>. SUFFICES ASSUME IInv, Next, pc = "ingest", pc' = "running", ~stale, Compatible
                PROVE  cache' = cache
    OBVIOUS
  <2>1. Commit
    <3>1. FileStep => pc' = pc
      BY DEF FileStep, Tick, Write, Remove, MoveAside, MoveBack, run
    <3>. QED
      BY <3>1 DEF Next, Start, BuildStep, Scan, Scanned, Stat, Reconciled, DropTable, CreateTable,
                  DropEntries, Begin, ReadFile, HookReads, Hash, BuildStops, Exit, Over, run
  <2>2. work = cache
    BY DEF IInv, QuietInv
  <2>3. cache' = [cache EXCEPT !.meta = cache.meta]
    BY <2>1, <2>2 DEF Commit, Compatible
  <2>. QED
    BY <2>3 DEF IInv, TypeOK, Database
<1>. QED
  BY <1>1, Invariance, PTL DEF Spec, QuietRunWritesNothing

-----------------------------------------------------------------------------
(* Fresh rows.                                                             *)

LEMMA FitsMore ==
  ASSUME NEW row, NEW k, cfg' = cfg, since[k[2]] \subseteq since'[k[2]], Fits(row, k)
  PROVE  Fits(row, k)'
  BY DEF Fits, Made

\* No file can come to have the stat of an entry that vouches.
LEMMA VouchesOn ==
  ASSUME NEW f \in Files, NEW x, NEW y, NEW stat \in FileStat, NEW snap \in Nat, snap <= clock,
         NEW row, NEW hook, TypeOK,
         x \in {file[f], aside[f], NoFile} \/ x.stat.mtime = clock,
         y \in {file[f], aside[f], NoFile},
         NEW g \in Files,
         file' = [file EXCEPT ![f] = x], aside' = [aside EXCEPT ![f] = y],
         Vouches(stat, snap, g, row, hook)
  PROVE  Vouches(stat, snap, g, row, hook)'
<1>1. CASE g # f
  BY <1>1 DEF Vouches, TypeOK
<1>2. CASE g = f
  <2>1. file'[f] = x /\ aside'[f] = y /\ clock \in Nat
    BY CacheAssumption DEF TypeOK
  <2>2. NoFile.stat # stat
    BY StatFacts DEF NoFile
  <2>3. snap > stat.mtime => stat.mtime # clock
    BY <2>1 DEF FileStat
  <2>. QED
    BY <1>2, <2>1, <2>2, <2>3 DEF Vouches
<1>. QED
  BY <1>1, <1>2

LEMMA FreshInit == Init => FreshInv
<1>. SUFFICES ASSUME Init PROVE FreshInv
  OBVIOUS
<1>. USE DEF Init
<1>1. TimeInv /\ InodeInv
  BY DEF TimeInv, InodeInv, NoFile, NoStat
<1>2. PlaceInv /\ SinceInv /\ MissedInv /\ CredibleInv /\ MadeInv /\ RowsAreFresh
  BY DEF PlaceInv, SinceInv, MissedInv, CredibleInv, MadeInv, RowsAreFresh
<1>3. EntryInv
  BY DEF EntryInv
<1>. QED
  BY <1>1, <1>2, <1>3 DEF FreshInv

\* What a change of a file leaves as it was, whatever changes.
LEMMA FreshShift ==
  ASSUME IInv, FreshInv, NEW f \in Files,
         NEW x \in File \cup {NoFile}, NEW y \in File \cup {NoFile},
         file' = [file EXCEPT ![f] = x], aside' = [aside EXCEPT ![f] = y], Noted(f),
         UNCHANGED <<clock, cache, work, run>>,
         x \in {file[f], aside[f], NoFile} \/ x.stat.mtime = clock,
         y \in {file[f], aside[f], NoFile},
         x # NoFile /\ y # NoFile => x.stat.inode # y.stat.inode,
         pc \notin {"off", "running"} => y = aside[f]
  PROVE  FreshInv'
<1>. USE DEF run
<1>1. TypeOK /\ clock \in Nat
  BY CacheAssumption DEF IInv, TypeOK
<1>2. TimeInv'
  BY <1>1 DEF FreshInv, TimeInv, TypeOK, NoFile, NoStat
<1>3. InodeInv'
  BY <1>1 DEF FreshInv, InodeInv, TypeOK, is_file
<1>4. PlaceInv'
  BY <1>1 DEF FreshInv, PlaceInv, Planned, TypeOK
<1>5. \A g \in Files : since[g] \subseteq since'[g]
  BY <1>1 DEF Noted, TypeOK
<1>6. SinceInv'
  BY <1>1 DEF FreshInv, SinceInv, Noted, TypeOK
<1>7. MissedInv'
  BY <1>5, KeyFacts DEF FreshInv, MissedInv
<1>8. EntryInv'
  <2>1. SUFFICES ASSUME NEW k \in Keys, cache.entries[k] # NoEntry, pc # "sweep",
                        NEW c \in Configs, c.ddl = cache.meta
                 PROVE  Vouches(cache.entries[k].stat, cache.entries[k].snapshot_ns, k[2],
                                cache.rows[k], c.hook)'
    BY DEF FreshInv, EntryInv
  <2>2. /\ cache.entries[k].stat \in FileStat /\ cache.entries[k].snapshot_ns <= clock
        /\ Vouches(cache.entries[k].stat, cache.entries[k].snapshot_ns, k[2], cache.rows[k], c.hook)
    BY <2>1 DEF FreshInv, EntryInv
  <2>3. cache.entries[k].snapshot_ns \in Nat /\ k[2] \in Files
    BY <1>1, KeyFacts DEF TypeOK, Database, Entry
  <2>. QED
    BY <1>1, <2>2, <2>3, VouchesOn
<1>9. CredibleInv'
  <2>1. \A k \in Keys : Credible(k) => Credible(k)'
    BY <1>5, KeyFacts, FitsMore DEF Credible
  <2>. QED
    BY <1>1, <2>1 DEF FreshInv, CredibleInv, TypeOK
<1>10. MadeInv'
  <2>1. SUFFICES ASSUME pc = "ingest"
                 PROVE  /\ snapshot <= clock
                        /\ \A k \in ToRead \ todo :
                             /\ Fits(work.rows[k], k)'
                             /\ Vouches(plan[k], snapshot, k[2], work.rows[k], cfg.hook)'
    BY ToReadStays DEF MadeInv
  <2>2. ASSUME NEW k \in ToRead \ todo
        PROVE  /\ Fits(work.rows[k], k)'
               /\ Vouches(plan[k], snapshot, k[2], work.rows[k], cfg.hook)'
    <3>1. k \in found /\ k \in Keys /\ k[2] \in Files
      BY <1>1, ToReadFound, KeyFacts DEF TypeOK
    <3>2. plan[k] \in FileStat /\ snapshot \in Nat /\ snapshot <= clock
      BY <1>1, <2>1, <3>1 DEF IInv, PlanInv, Planned, TypeOK, FreshInv, MadeInv
    <3>3. Fits(work.rows[k], k) /\ Vouches(plan[k], snapshot, k[2], work.rows[k], cfg.hook)
      BY <2>1 DEF FreshInv, MadeInv
    <3>4. Fits(work.rows[k], k)'
      BY <1>5, <3>1, <3>3, FitsMore
    <3>. QED
      BY <1>1, <3>1, <3>2, <3>3, <3>4, VouchesOn
  <2>. QED
    BY <2>1, <2>2 DEF FreshInv, MadeInv
<1>11. RowsAreFresh'
  <2>1. \A k \in Keys : Fresh(k) => Fresh(k)'
    BY <1>5, KeyFacts DEF Fresh, Made
  <2>. QED
    BY <2>1 DEF FreshInv, RowsAreFresh, Honest, Made
<1>. QED
  BY <1>2, <1>3, <1>4, <1>6, <1>7, <1>8, <1>9, <1>10, <1>11 DEF FreshInv

LEMMA FreshFiles == ASSUME Lag = 0, IInv, FreshInv, FileStep PROVE FreshInv'
<1>0. TypeOK /\ clock \in Nat
  BY CacheAssumption DEF IInv, TypeOK
<1>1. CASE Tick
  <2>. USE DEF run, ghost
  <2>1. /\ clock' = clock + 1
        /\ UNCHANGED <<file, aside, cache, work, cfg, pc, found, todo, plan, trusted, snapshot,
                       unhashed, since>>
    BY <1>1 DEF Tick
  <2>2. TimeInv'
    BY <1>0, <2>1, FileFacts DEF FreshInv, TimeInv, File, FileStat, NoFile, NoStat
  <2>3. InodeInv' /\ PlaceInv' /\ SinceInv' /\ MissedInv'
    BY <2>1 DEF FreshInv, InodeInv, PlaceInv, SinceInv, MissedInv, Planned, is_file
  <2>4. EntryInv'
    BY <1>0, <2>1 DEF FreshInv, EntryInv, Vouches, TypeOK, Database, Entry
  <2>5. CredibleInv'
    BY <2>1 DEF FreshInv, CredibleInv, Credible, Fits, Made
  <2>6. MadeInv'
    BY <1>0, <2>1, ToReadStays DEF FreshInv, MadeInv, Fits, Made, Vouches, TypeOK
  <2>7. RowsAreFresh'
    BY <2>1 DEF FreshInv, RowsAreFresh, Honest, Fresh, Made
  <2>. QED
    BY <2>2, <2>3, <2>4, <2>5, <2>6, <2>7 DEF FreshInv
<1>2. ASSUME NEW f \in Files, Write(f) PROVE FreshInv'
  <2>1. PICK c \in Contents, m \in {m \in 0 .. clock : clock <= m + Lag}, i \in Inodes :
          /\ IF is_file(f) THEN i = file[f].stat.inode ELSE i # aside[f].stat.inode
          /\ file' = [file EXCEPT ![f] = [content |-> c, stat |-> [inode |-> i, mtime |-> m]]]
    BY <1>2 DEF Write
  <2>2. PICK x : x = [content |-> c, stat |-> [inode |-> i, mtime |-> m]]
    OBVIOUS
  <2>3. x \in File /\ x.stat.mtime = clock /\ x.stat.inode = i
    BY <1>0, <2>2 DEF File, FileStat
  <2>4. file' = [file EXCEPT ![f] = x] /\ aside' = [aside EXCEPT ![f] = aside[f]]
        /\ aside[f] \in File \cup {NoFile}
    BY <1>0, <1>2, <2>1, <2>2 DEF Write, TypeOK
  <2>5. aside[f] # NoFile => x.stat.inode # aside[f].stat.inode
    BY <2>1, <2>3 DEF FreshInv, InodeInv
  <2>. QED
    BY <1>2, <2>3, <2>4, <2>5, FreshShift DEF Write
<1>3. ASSUME NEW f \in Files, Remove(f) PROVE FreshInv'
  <2>1. aside' = [aside EXCEPT ![f] = aside[f]] /\ aside[f] \in File \cup {NoFile}
    BY <1>0, <1>3 DEF Remove, TypeOK
  <2>. QED
    BY <1>3, <2>1, FreshShift DEF Remove
<1>4. ASSUME NEW f \in Movable, pc \in {"off", "running"}, MoveAside(f) \/ MoveBack(f)
      PROVE  FreshInv'
  <2>1. f \in Files /\ file[f] \in File \cup {NoFile} /\ aside[f] \in File \cup {NoFile}
    BY CacheAssumption DEF IInv, TypeOK
  <2>2. CASE MoveAside(f)
    BY <1>4, <2>1, <2>2, FreshShift DEF MoveAside
  <2>3. CASE MoveBack(f)
    BY <1>4, <2>1, <2>3, FreshShift DEF MoveBack
  <2>. QED
    BY <1>4, <2>2, <2>3
<1>. QED
  BY <1>1, <1>2, <1>3, <1>4 DEF FileStep

LEMMA FreshOver == ASSUME IInv, FreshInv, Over, pc # "sweep" PROVE FreshInv'
<1>. USE DEF files, run, ghost
<1>1. TimeInv' /\ InodeInv'
  BY DEF FreshInv, TimeInv, InodeInv, is_file, Over
<1>2. PlaceInv'
  BY DEF IInv, TypeOK, FreshInv, PlaceInv, Planned, Over
<1>3. SinceInv'
  BY DEF IInv, TypeOK, FreshInv, SinceInv, Over
<1>4. MissedInv'
  BY DEF IInv, TypeOK, FreshInv, MissedInv, Over
<1>5. EntryInv'
  BY DEF IInv, TypeOK, FreshInv, EntryInv, Vouches, Over
<1>6. CredibleInv'
  BY DEF IInv, TypeOK, FreshInv, CredibleInv, Credible, Fits, Made, Over
<1>7. MadeInv'
  BY DEF IInv, TypeOK, FreshInv, MadeInv, Fits, Made, Vouches, Over
<1>8. RowsAreFresh'
  BY DEF IInv, TypeOK, FreshInv, RowsAreFresh, Over
<1>. QED
  BY <1>1, <1>2, <1>3, <1>4, <1>5, <1>6, <1>7, <1>8 DEF FreshInv

LEMMA FreshStart == ASSUME IInv, FreshInv, NEW c \in Configs, Start(c) PROVE FreshInv'
<1>. USE DEF files, run, ghost
<1>1. TimeInv' /\ InodeInv'
  BY DEF FreshInv, TimeInv, InodeInv, is_file, Start
<1>2. PlaceInv'
  BY DEF IInv, TypeOK, FreshInv, PlaceInv, Planned, Start
<1>3. SinceInv'
  BY DEF IInv, TypeOK, FreshInv, SinceInv, Start
<1>4. MissedInv'
  BY DEF IInv, TypeOK, FreshInv, MissedInv, Start
<1>5. EntryInv'
  BY DEF IInv, TypeOK, FreshInv, EntryInv, Vouches, Start
<1>6. CredibleInv'
  BY DEF IInv, TypeOK, FreshInv, CredibleInv, Credible, Fits, Made, Start
<1>7. MadeInv'
  BY DEF IInv, TypeOK, FreshInv, MadeInv, Fits, Made, Vouches, Start
<1>8. RowsAreFresh'
  BY DEF IInv, TypeOK, FreshInv, RowsAreFresh, Start
<1>. QED
  BY <1>1, <1>2, <1>3, <1>4, <1>5, <1>6, <1>7, <1>8 DEF FreshInv

LEMMA FreshScan == ASSUME IInv, FreshInv, NEW f \in Files, Scan(f) PROVE FreshInv'
<1>. USE DEF files, run, ghost
<1>1. TimeInv' /\ InodeInv'
  BY DEF FreshInv, TimeInv, InodeInv, is_file, Scan
<1>2. PlaceInv'
  BY DEF IInv, TypeOK, FreshInv, PlaceInv, Planned, Scan
<1>3. SinceInv'
  BY DEF IInv, TypeOK, FreshInv, SinceInv, Scan
<1>4. MissedInv'
  <2>1. \A k \in OfFile(f) : k \in found' \/ Absent \in since[k[2]]
    BY FileFacts DEF IInv, FreshInv, SinceInv, Scan, OfFile
  <2>. QED
    BY <2>1 DEF IInv, TypeOK, FreshInv, MissedInv, Scan
<1>5. EntryInv'
  BY DEF IInv, TypeOK, FreshInv, EntryInv, Vouches, Scan
<1>6. CredibleInv'
  BY DEF IInv, TypeOK, FreshInv, CredibleInv, Credible, Fits, Made, Scan
<1>7. MadeInv'
  BY DEF IInv, TypeOK, FreshInv, MadeInv, Fits, Made, Vouches, Scan
<1>8. RowsAreFresh'
  BY DEF IInv, TypeOK, FreshInv, RowsAreFresh, Scan
<1>. QED
  BY <1>1, <1>2, <1>3, <1>4, <1>5, <1>6, <1>7, <1>8 DEF FreshInv

LEMMA FreshScanned == ASSUME IInv, FreshInv, Scanned PROVE FreshInv'
<1>. USE DEF files, run, ghost
<1>1. TimeInv' /\ InodeInv'
  BY DEF FreshInv, TimeInv, InodeInv, is_file, Scanned
<1>2. PlaceInv'
  BY DEF IInv, TypeOK, FreshInv, PlaceInv, Planned, Scanned
<1>3. SinceInv'
  BY DEF IInv, TypeOK, FreshInv, SinceInv, Scanned
<1>4. MissedInv'
  BY DEF IInv, TypeOK, FreshInv, MissedInv, Scanned
<1>5. EntryInv'
  BY DEF IInv, TypeOK, FreshInv, EntryInv, Vouches, Scanned
<1>6. CredibleInv'
  BY DEF IInv, TypeOK, FreshInv, CredibleInv, Credible, Fits, Made, Scanned
<1>7. MadeInv'
  BY DEF IInv, TypeOK, FreshInv, MadeInv, Fits, Made, Vouches, Scanned
<1>8. RowsAreFresh'
  BY DEF IInv, TypeOK, FreshInv, RowsAreFresh, Scanned
<1>. QED
  BY <1>1, <1>2, <1>3, <1>4, <1>5, <1>6, <1>7, <1>8 DEF FreshInv

LEMMA FreshStat == ASSUME IInv, FreshInv, NEW k \in Keys, Stat(k) PROVE FreshInv'
<1>. USE DEF files, run, ghost
<1>1. TimeInv' /\ InodeInv'
  BY DEF FreshInv, TimeInv, InodeInv, is_file, Stat
<1>2. PlaceInv'
  <2>1. aside[k[2]].stat.inode # file[k[2]].stat.inode
    <3>1. CASE aside[k[2]] = NoFile
      BY <3>1, KeyFacts, FileFacts, CacheAssumption DEF IInv, Stat, NoFile, NoStat, FileStat
    <3>2. CASE aside[k[2]] # NoFile
      BY <3>2, KeyFacts DEF FreshInv, InodeInv, Stat
    <3>. QED
      BY <3>1, <3>2
  <2>. QED
    BY <2>1 DEF IInv, TypeOK, FreshInv, PlaceInv, Planned, Stat
<1>3. SinceInv'
  BY DEF IInv, TypeOK, FreshInv, SinceInv, Stat
<1>4. MissedInv'
  BY DEF IInv, TypeOK, FreshInv, MissedInv, Stat
<1>5. EntryInv'
  BY DEF IInv, TypeOK, FreshInv, EntryInv, Vouches, Stat
<1>6. CredibleInv'
  <2>1. SUFFICES ASSUME is_trusted(Cached(k), file[k[2]].stat, file[k[2]].content) PROVE Credible(k)
    <3>1. \A j \in trusted' :
            j \in trusted \/ (j = k /\ is_trusted(Cached(k), file[k[2]].stat, file[k[2]].content))
      BY DEF Stat
    <3>2. \A j \in trusted : Credible(j)
      BY DEF FreshInv, CredibleInv, Stat
    <3>3. \A j \in trusted' : Credible(j)
      BY <2>1, <3>1, <3>2
    <3>4. \A j \in trusted' : Credible(j)'
      BY <3>3 DEF Credible, Fits, Made, Stat
    <3>. QED
      BY <3>4 DEF CredibleInv
  <2>2. /\ Compatible /\ cache.entries[k] # NoEntry /\ cache.entries[k].stat = file[k[2]].stat
        /\ \/ cache.entries[k].snapshot_ns > cache.entries[k].stat.mtime
           \/ cache.entries[k].content_hash = file[k[2]].content
    BY <2>1 DEF is_trusted, Cached
  <2>3. k[2] \in Files /\ file[k[2]].content \in since[k[2]] /\ file[k[2]].content # Absent
    BY KeyFacts, FileFacts, CacheAssumption DEF IInv, FreshInv, SinceInv, Stat
  <2>4. CASE cache.entries[k].snapshot_ns > cache.entries[k].stat.mtime
    <3>1. cache.rows[k] = <<cfg.hook, file[k[2]].content>>
      BY <2>2, <2>4 DEF IInv, TypeOK, FreshInv, EntryInv, Vouches, Compatible, Stat
    <3>. QED
      BY <2>3, <2>4, <3>1 DEF Credible, Fits, Made
  <2>5. CASE ~(cache.entries[k].snapshot_ns > cache.entries[k].stat.mtime)
    BY <2>2, <2>3, <2>5 DEF Credible
  <2>. QED
    BY <2>4, <2>5
<1>7. MadeInv'
  BY DEF IInv, TypeOK, FreshInv, MadeInv, Fits, Made, Vouches, Stat
<1>8. RowsAreFresh'
  BY DEF IInv, TypeOK, FreshInv, RowsAreFresh, Stat
<1>. QED
  BY <1>1, <1>2, <1>3, <1>4, <1>5, <1>6, <1>7, <1>8 DEF FreshInv

LEMMA FreshReconciled == ASSUME IInv, FreshInv, Reconciled PROVE FreshInv'
<1>. USE DEF files, run, ghost
<1>1. TimeInv' /\ InodeInv'
  BY DEF FreshInv, TimeInv, InodeInv, is_file, Reconciled
<1>2. PlaceInv'
  BY DEF IInv, TypeOK, FreshInv, PlaceInv, Planned, Reconciled
<1>3. SinceInv'
  BY DEF IInv, TypeOK, FreshInv, SinceInv, Reconciled
<1>4. MissedInv'
  BY DEF IInv, TypeOK, FreshInv, MissedInv, Reconciled
<1>5. EntryInv'
  BY DEF IInv, TypeOK, FreshInv, EntryInv, Vouches, Reconciled
<1>6. CredibleInv'
  BY DEF IInv, TypeOK, FreshInv, CredibleInv, Credible, Fits, Made, Reconciled
<1>7. MadeInv'
  BY DEF IInv, TypeOK, FreshInv, MadeInv, Fits, Made, Vouches, Reconciled
<1>8. RowsAreFresh'
  BY DEF IInv, TypeOK, FreshInv, RowsAreFresh, Reconciled
<1>. QED
  BY <1>1, <1>2, <1>3, <1>4, <1>5, <1>6, <1>7, <1>8 DEF FreshInv

LEMMA FreshDropTable == ASSUME IInv, FreshInv, NEW t \in Tables, DropTable(t) PROVE FreshInv'
<1>. USE DEF files, run, ghost
<1>1. TimeInv' /\ InodeInv'
  BY DEF FreshInv, TimeInv, InodeInv, is_file, DropTable
<1>2. PlaceInv'
  BY DEF IInv, TypeOK, FreshInv, PlaceInv, Planned, DropTable
<1>3. SinceInv'
  BY DEF IInv, TypeOK, FreshInv, SinceInv, DropTable
<1>4. MissedInv'
  BY DEF IInv, TypeOK, FreshInv, MissedInv, DropTable
<1>5. EntryInv'
  BY DEF IInv, TypeOK, FreshInv, EntryInv, Vouches, DropTable
<1>6. CredibleInv'
  BY DEF IInv, TypeOK, FreshInv, CredibleInv, Credible, Fits, Made, DropTable
<1>7. MadeInv'
  BY DEF IInv, TypeOK, FreshInv, MadeInv, Fits, Made, Vouches, DropTable
<1>8. RowsAreFresh'
  BY DEF IInv, TypeOK, FreshInv, RowsAreFresh, DropTable
<1>. QED
  BY <1>1, <1>2, <1>3, <1>4, <1>5, <1>6, <1>7, <1>8 DEF FreshInv

LEMMA FreshDropEntries == ASSUME IInv, FreshInv, DropEntries PROVE FreshInv'
<1>. USE DEF files, run, ghost
<1>1. TimeInv' /\ InodeInv'
  BY DEF FreshInv, TimeInv, InodeInv, is_file, DropEntries
<1>2. PlaceInv'
  BY DEF IInv, TypeOK, FreshInv, PlaceInv, Planned, DropEntries
<1>3. SinceInv'
  BY DEF IInv, TypeOK, FreshInv, SinceInv, DropEntries
<1>4. MissedInv'
  BY DEF IInv, TypeOK, FreshInv, MissedInv, DropEntries
<1>5. EntryInv'
  BY DEF IInv, TypeOK, FreshInv, EntryInv, Vouches, DropEntries
<1>6. CredibleInv'
  BY DEF IInv, SweptInv, TrustInv, CredibleInv, Compatible, DropEntries
<1>7. MadeInv'
  BY DEF IInv, TypeOK, FreshInv, MadeInv, Fits, Made, Vouches, DropEntries
<1>8. RowsAreFresh'
  BY DEF IInv, TypeOK, FreshInv, RowsAreFresh, DropEntries
<1>. QED
  BY <1>1, <1>2, <1>3, <1>4, <1>5, <1>6, <1>7, <1>8 DEF FreshInv

LEMMA FreshCreateTable == ASSUME IInv, FreshInv, NEW t \in Tables, CreateTable(t) PROVE FreshInv'
<1>. USE DEF files, run, ghost
<1>1. TimeInv' /\ InodeInv'
  BY DEF FreshInv, TimeInv, InodeInv, is_file, CreateTable
<1>2. PlaceInv'
  BY DEF IInv, TypeOK, FreshInv, PlaceInv, Planned, CreateTable
<1>3. SinceInv'
  BY DEF IInv, TypeOK, FreshInv, SinceInv, CreateTable
<1>4. MissedInv'
  BY DEF IInv, TypeOK, FreshInv, MissedInv, CreateTable
<1>5. EntryInv'
  BY DEF IInv, TypeOK, FreshInv, EntryInv, Vouches, CreateTable
<1>6. CredibleInv'
  BY DEF IInv, TypeOK, FreshInv, CredibleInv, Credible, Fits, Made, CreateTable
<1>7. MadeInv'
  BY DEF IInv, TypeOK, FreshInv, MadeInv, Fits, Made, Vouches, CreateTable
<1>8. RowsAreFresh'
  BY DEF IInv, TypeOK, FreshInv, RowsAreFresh, CreateTable
<1>. QED
  BY <1>1, <1>2, <1>3, <1>4, <1>5, <1>6, <1>7, <1>8 DEF FreshInv

LEMMA FreshBegin == ASSUME IInv, FreshInv, Begin PROVE FreshInv'
<1>. USE DEF files, run, ghost
<1>1. TimeInv' /\ InodeInv'
  BY DEF FreshInv, TimeInv, InodeInv, is_file, Begin
<1>2. PlaceInv'
  BY DEF IInv, TypeOK, FreshInv, PlaceInv, Planned, Begin
<1>3. SinceInv'
  BY DEF IInv, TypeOK, FreshInv, SinceInv, Begin
<1>4. MissedInv'
  BY DEF IInv, TypeOK, FreshInv, MissedInv, Begin
<1>5. EntryInv'
  BY DEF IInv, TypeOK, FreshInv, EntryInv, Vouches, Begin
<1>6. CredibleInv'
  BY DEF IInv, TypeOK, FreshInv, CredibleInv, Credible, Fits, Made, Begin
<1>7. MadeInv'
  BY ToReadStays, CacheAssumption DEF IInv, TypeOK, MadeInv, Begin
<1>8. RowsAreFresh'
  BY DEF IInv, TypeOK, FreshInv, RowsAreFresh, Begin
<1>. QED
  BY <1>1, <1>2, <1>3, <1>4, <1>5, <1>6, <1>7, <1>8 DEF FreshInv

\* A hook makes the rows of a file from what it holds.
LEMMA RowMade ==
  ASSUME IInv, FreshInv, NEW k \in Keys, pc = "ingest", k \in todo, todo' = todo \ {k},
         work' = [work EXCEPT !.rows[k] = Made(file[k[2]].content)],
         UNCHANGED <<files, cache, cfg, found, plan, trusted, snapshot, since>>
  PROVE  MadeInv'
<1>. USE DEF files
<1>1. ToRead' = ToRead /\ k \in ToRead /\ k \in found /\ k[2] \in Files
  BY ToReadStays, ToReadFound, KeyFacts DEF IInv, IngestInv
<1>2. /\ work'.rows[k] = Made(file[k[2]].content)
      /\ \A j \in Keys \ {k} : work'.rows[j] = work.rows[j]
  BY DEF IInv, TypeOK, Database
<1>3. plan[k] \in FileStat /\ aside[k[2]].stat.inode # plan[k].inode
  BY <1>1 DEF IInv, PlanInv, FreshInv, PlaceInv, Planned
<1>4. snapshot <= clock
  BY DEF FreshInv, MadeInv
<1>5. ASSUME NEW j \in ToRead \ todo'
      PROVE  Fits(work'.rows[j], j) /\ Vouches(plan[j], snapshot, j[2], work'.rows[j], cfg.hook)
  <2>1. CASE j = k
    <3>1. Fits(work'.rows[k], k)
      BY <1>1, <1>2 DEF FreshInv, SinceInv, Fits
    <3>2. file[k[2]].stat = plan[k] => file[k[2]].content # Absent
      BY <1>1, <1>3, FileFacts, StatFacts, CacheAssumption DEF IInv, is_file, NoFile
    <3>3. Vouches(plan[k], snapshot, k[2], work'.rows[k], cfg.hook)
      BY <1>2, <1>3, <3>2 DEF Vouches, Made
    <3>. QED
      BY <2>1, <3>1, <3>3
  <2>2. CASE j # k
    <3>1. j \in ToRead \ todo /\ j \in Keys \ {k}
      BY <2>2, ToReadFound DEF IInv, TypeOK
    <3>2. Fits(work.rows[j], j) /\ Vouches(plan[j], snapshot, j[2], work.rows[j], cfg.hook)
      BY <3>1 DEF FreshInv, MadeInv
    <3>. QED
      BY <1>2, <3>1, <3>2
  <2>. QED
    BY <2>1, <2>2
<1>. QED
  <2>1. ASSUME NEW j \in ToRead \ todo'
        PROVE  (Fits(work.rows[j], j) /\ Vouches(plan[j], snapshot, j[2], work.rows[j], cfg.hook))'
    <3>1. Fits(work'.rows[j], j) /\ Vouches(plan[j], snapshot, j[2], work'.rows[j], cfg.hook)
      BY <1>5, <2>1
    <3>2. Fits(work.rows[j], j)'
      BY <3>1 DEF Fits, Made
    <3>3. Vouches(plan[j], snapshot, j[2], work.rows[j], cfg.hook)'
      BY <3>1 DEF Vouches
    <3>. QED
      BY <3>2, <3>3
  <2>. QED
    BY <1>1, <1>4, <2>1 DEF MadeInv

LEMMA FreshReadFile == ASSUME IInv, FreshInv, NEW k \in Keys, ReadFile(k) PROVE FreshInv'
<1>. USE DEF files, run, ghost
<1>1. TimeInv' /\ InodeInv'
  BY DEF FreshInv, TimeInv, InodeInv, is_file, ReadFile
<1>2. PlaceInv'
  BY DEF IInv, TypeOK, FreshInv, PlaceInv, Planned, ReadFile
<1>3. SinceInv'
  BY DEF IInv, TypeOK, FreshInv, SinceInv, ReadFile
<1>4. MissedInv'
  BY DEF IInv, TypeOK, FreshInv, MissedInv, ReadFile
<1>5. EntryInv'
  BY DEF IInv, TypeOK, FreshInv, EntryInv, Vouches, ReadFile
<1>6. CredibleInv'
  BY DEF IInv, TypeOK, FreshInv, CredibleInv, Credible, Fits, Made, ReadFile
<1>7. MadeInv'
  BY RowMade DEF ReadFile
<1>8. RowsAreFresh'
  BY DEF IInv, TypeOK, FreshInv, RowsAreFresh, ReadFile
<1>. QED
  BY <1>1, <1>2, <1>3, <1>4, <1>5, <1>6, <1>7, <1>8 DEF FreshInv

LEMMA FreshHookReads == ASSUME IInv, FreshInv, NEW k \in Keys, HookReads(k) PROVE FreshInv'
<1>. USE DEF files, run, ghost
<1>1. TimeInv' /\ InodeInv'
  BY DEF FreshInv, TimeInv, InodeInv, is_file, HookReads
<1>2. PlaceInv'
  BY DEF IInv, TypeOK, FreshInv, PlaceInv, Planned, HookReads
<1>3. SinceInv'
  BY DEF IInv, TypeOK, FreshInv, SinceInv, HookReads
<1>4. MissedInv'
  BY DEF IInv, TypeOK, FreshInv, MissedInv, HookReads
<1>5. EntryInv'
  BY DEF IInv, TypeOK, FreshInv, EntryInv, Vouches, HookReads
<1>6. CredibleInv'
  BY DEF IInv, TypeOK, FreshInv, CredibleInv, Credible, Fits, Made, HookReads
<1>7. MadeInv'
  BY RowMade DEF HookReads
<1>8. RowsAreFresh'
  BY DEF IInv, TypeOK, FreshInv, RowsAreFresh, HookReads
<1>. QED
  BY <1>1, <1>2, <1>3, <1>4, <1>5, <1>6, <1>7, <1>8 DEF FreshInv

LEMMA FreshHash == ASSUME IInv, FreshInv, NEW k \in Keys, Hash(k) PROVE FreshInv'
<1>. USE DEF files, run, ghost
<1>1. TimeInv' /\ InodeInv'
  BY DEF FreshInv, TimeInv, InodeInv, is_file, Hash
<1>2. PlaceInv'
  BY DEF IInv, TypeOK, FreshInv, PlaceInv, Planned, Hash
<1>3. SinceInv'
  BY DEF IInv, TypeOK, FreshInv, SinceInv, Hash
<1>4. MissedInv'
  BY DEF IInv, TypeOK, FreshInv, MissedInv, Hash
<1>5. EntryInv'
  BY DEF IInv, TypeOK, FreshInv, EntryInv, Vouches, Hash
<1>6. CredibleInv'
  BY DEF IInv, TypeOK, FreshInv, CredibleInv, Credible, Fits, Made, Hash
<1>7. MadeInv'
  <2>1. ToRead' = ToRead /\ work'.rows = work.rows
    BY ToReadStays DEF IInv, TypeOK, Database, Hash
  <2>. QED
    BY <2>1 DEF FreshInv, MadeInv, Fits, Made, Vouches, Hash
<1>8. RowsAreFresh'
  BY DEF IInv, TypeOK, FreshInv, RowsAreFresh, Hash
<1>. QED
  BY <1>1, <1>2, <1>3, <1>4, <1>5, <1>6, <1>7, <1>8 DEF FreshInv

LEMMA FreshCommit == ASSUME HashCoversHooks, IInv, FreshInv, Commit PROVE FreshInv'
<1>. USE DEF files, run, ghost
<1>1. TimeInv' /\ InodeInv'
  BY DEF FreshInv, TimeInv, InodeInv, is_file, Commit
<1>2. PlaceInv'
  BY DEF IInv, TypeOK, FreshInv, PlaceInv, Planned, Commit
<1>3. SinceInv'
  BY DEF IInv, TypeOK, FreshInv, SinceInv, Commit
<1>4. MissedInv'
  BY DEF IInv, TypeOK, FreshInv, MissedInv, Commit
<1>5. EntryInv'
  <2>1. /\ cache'.entries = work.entries /\ cache'.rows = work.rows /\ cache'.meta = cfg.ddl
        /\ pc = "ingest" /\ todo = {} /\ unhashed = {}
    BY DEF IInv, TypeOK, Database, Commit
  <2>2. SUFFICES ASSUME NEW k \in found, work.entries[k] # NoEntry
                 PROVE  /\ work.entries[k].stat \in FileStat /\ work.entries[k].snapshot_ns <= clock
                        /\ \A c \in Configs : c.ddl = cfg.ddl =>
                             Vouches(work.entries[k].stat, work.entries[k].snapshot_ns, k[2],
                                     work.rows[k], c.hook)
    BY <2>1 DEF IInv, IngestInv, EntryInv, Vouches, Commit
  <2>3. CASE k \in ToRead
    <3>1. /\ work.entries[k].stat = plan[k] /\ work.entries[k].snapshot_ns = snapshot
          /\ plan[k] \in FileStat /\ snapshot <= clock
          /\ Vouches(plan[k], snapshot, k[2], work.rows[k], cfg.hook)
      BY <2>1, <2>3 DEF IInv, IngestInv, PlanInv, Planned, FreshInv, MadeInv
    <3>2. \A c \in Configs : c.ddl = cfg.ddl => c.hook = cfg.hook
      BY DEF HashCoversHooks, IInv, TypeOK
    <3>. QED
      BY <3>1, <3>2
  <2>4. CASE k \notin ToRead
    <3>1. /\ k \in trusted /\ k \in Keys
          /\ work.entries[k] = cache.entries[k] /\ work.rows[k] = cache.rows[k]
      BY <2>1, <2>4 DEF IInv, TypeOK, IngestInv
    <3>2. cache.meta = cfg.ddl
      BY <3>1 DEF IInv, TrustInv, Compatible
    <3>. QED
      BY <2>1, <2>2, <3>1, <3>2 DEF FreshInv, EntryInv
  <2>. QED
    BY <2>3, <2>4
<1>6. CredibleInv'
  BY DEF IInv, TypeOK, FreshInv, CredibleInv, Credible, Fits, Made, Commit
<1>7. MadeInv'
  BY DEF IInv, TypeOK, FreshInv, MadeInv, Fits, Made, Vouches, Commit
<1>8. RowsAreFresh'
  <2>1. /\ cache'.entries = work.entries /\ cache'.rows = work.rows
        /\ pc = "ingest" /\ todo = {} /\ unhashed = {}
    BY DEF IInv, TypeOK, Database, Commit
  <2>2. SUFFICES ASSUME NEW k \in Keys, k \in trusted => Honest(k)',
                        k[1] \in PerTable => OfTable(k[1]) \cap found # {}
                 PROVE  Fits(work.rows[k], k)
    BY <2>1 DEF RowsAreFresh, Fresh, Fits, Made, OfTable, Commit
  <2>3. CASE k \in ToRead
    BY <2>1, <2>3 DEF FreshInv, MadeInv
  <2>4. CASE k \in found \ ToRead
    <3>1. /\ k \in trusted /\ Credible(k)
          /\ work.entries[k] = cache.entries[k] /\ work.rows[k] = cache.rows[k]
      BY <2>1, <2>4 DEF IInv, IngestInv, FreshInv, CredibleInv
    <3>2. \/ cache.entries[k].snapshot_ns > cache.entries[k].stat.mtime
          \/ Made(cache.entries[k].content_hash) = cache.rows[k]
      BY <2>1, <2>2, <3>1 DEF Honest, Made, Commit
    <3>. QED
      BY <3>1, <3>2 DEF Credible, Fits
  <2>5. CASE k \notin found
    <3>1. work.rows[k] = Absent /\ Absent \in since[k[2]]
      BY <2>1, <2>2, <2>5 DEF IInv, IngestInv, FreshInv, MissedInv
    <3>. QED
      BY <3>1 DEF Fits, Made
  <2>. QED
    BY <2>3, <2>4, <2>5
<1>. QED
  BY <1>1, <1>2, <1>3, <1>4, <1>5, <1>6, <1>7, <1>8 DEF FreshInv

LEMMA FreshNext == Lag = 0 /\ HashCoversHooks /\ IInv /\ FreshInv /\ [Next]_vars => FreshInv'
<1>. SUFFICES ASSUME Lag = 0, HashCoversHooks, IInv, FreshInv, [Next]_vars PROVE FreshInv'
  OBVIOUS
<1>1. CASE FileStep
  BY <1>1, FreshFiles
<1>2. ASSUME NEW c \in Configs, Start(c) PROVE FreshInv'
  BY <1>2, FreshStart
<1>3. CASE BuildStep
  BY <1>3, FreshScan, FreshScanned, FreshStat, FreshReconciled, FreshDropTable, FreshCreateTable,
     FreshDropEntries, FreshBegin, FreshReadFile, FreshHookReads, FreshHash, FreshCommit
     DEF BuildStep
<1>4. CASE BuildStops \/ Exit
  BY <1>4, FreshOver DEF BuildStops, Exit
<1>5. CASE UNCHANGED vars
  <2>. USE <1>5 DEF vars, files, run, ghost
  <2>1. TimeInv' /\ InodeInv' /\ PlaceInv' /\ SinceInv' /\ MissedInv'
    BY DEF FreshInv, TimeInv, InodeInv, PlaceInv, SinceInv, MissedInv, Planned, is_file
  <2>2. EntryInv' /\ CredibleInv'
    BY DEF FreshInv, EntryInv, CredibleInv, Vouches, Credible, Fits, Made
  <2>3. MadeInv'
    BY ToReadStays DEF FreshInv, MadeInv, Vouches, Fits, Made
  <2>4. RowsAreFresh'
    BY DEF FreshInv, RowsAreFresh, Honest, Fresh, Made
  <2>. QED
    BY <2>1, <2>2, <2>3, <2>4 DEF FreshInv
<1>. QED
  BY <1>1, <1>2, <1>3, <1>4, <1>5 DEF Next

\* The second inductive invariant: what rows and entries say of the files.
THEOREM FreshInvariance == ASSUME Lag = 0, HashCoversHooks PROVE Spec => []FreshInv
<1>1. FreshInv /\ IInv /\ [Next]_vars => FreshInv'
  BY FreshNext
<1>. QED
  BY <1>1, FreshInit, Invariance, PTL DEF Spec

\* Where the stamps of the kernel do not trail the clock and a hook does not
\* change under its configuration's hash, the rows a run serves are those of a
\* build from nothing, for any tables, files, inodes, renames, configurations
\* and runs, stopped anywhere but in the sweep.
THEOREM RowsAreFreshHolds == ASSUME Lag = 0, HashCoversHooks PROVE Spec => []RowsAreFresh
<1>1. FreshInv => RowsAreFresh
  BY DEF FreshInv
<1>. QED
  BY <1>1, FreshInvariance, PTL

=============================================================================
