-------------------------- MODULE FreshIndexProofs --------------------------
(***************************************************************************)
(* FreshIndex, proved for every set of tables, files and contents.         *)
(***************************************************************************)
EXTENDS FreshIndex, TLAPS

(* A key is a pair of a table and a file. *)
LEMMA KeyParts == \A k \in Keys : k[1] \in Tables /\ k[2] \in Files
  BY IndexAssumption DEF Keys

(* What the freshness functions return. *)
LEMMA KnownTypes ==
  /\ NotKnown \in Known /\ Built \in Known
  /\ \A fp \in Fingerprint, t \in Nat : after_read(fp, t) \in Known
  /\ \A e \in Known, fp \in Fingerprint, t \in Nat : adopted(e, fp, t) \in Known
  /\ NotKnown.kind = "none"
  /\ Built.kind = "built"
<1> DEFINE R(fp, b) == [kind |-> "read", fp |-> fp, settled |-> b]
<1>1. \A fp \in Fingerprint, b \in BOOLEAN : R(fp, b) \in Known
  BY DEF Known
<1>2. \A fp \in Fingerprint, t \in Nat : changed_before(fp, t) \in BOOLEAN
  BY DEF changed_before
<1>3. \A fp \in Fingerprint, t \in Nat : after_read(fp, t) \in Known
  BY <1>1, <1>2 DEF after_read, Read
<1>4. NotKnown \in Known /\ Built \in Known
  BY DEF NotKnown, Built, Known, Fingerprint, NoStat
<1>. QED
  BY <1>3, <1>4 DEF adopted, NotKnown, Built

LEMMA FingerprintType ==
  ASSUME TypeOK PROVE \A f \in Files : fingerprint(f) \in Fingerprint
  BY DEF TypeOK, fingerprint, Fingerprint, NoStat

-----------------------------------------------------------------------------
(* Every state is well typed. *)

LEMMA TypeInit == Init => TypeOK
<1> SUFFICES ASSUME Init PROVE TypeOK
  OBVIOUS
<1>1. ctime \in [Files -> Nat]
  BY ClockAssumption DEF Init
<1>2. disk \in [Files -> Held] /\ rows \in [Keys -> Held] /\ saved \in [Keys -> Held]
  BY DEF Init, Held
<1>3. known \in [Keys -> Known] /\ updates \in [Keys -> Known]
  BY KnownTypes DEF Init
<1>4. stats \in [Files -> Fingerprint \cup {NotTaken}] /\ since \in [Files -> SUBSET Held]
  BY DEF Init
<1>. QED
  BY <1>1, <1>2, <1>3, <1>4, ClockAssumption DEF Init, TypeOK

LEMMA TypeNoWork ==
  ASSUME NoWork
  PROVE  /\ todo' \subseteq Keys /\ found' \subseteq Keys /\ unstamped' \subseteq Keys
         /\ marked' \subseteq PerTable
         /\ stats' \in [Files -> Fingerprint \cup {NotTaken}]
         /\ updates' \in [Keys -> Known]
         /\ start' \in Nat
         /\ since' \in [Files -> SUBSET Held]
  BY KnownTypes, ClockAssumption DEF NoWork

LEMMA TypeFileStep == TypeOK /\ FileStep => TypeOK'
<1> SUFFICES ASSUME TypeOK, FileStep PROVE TypeOK'
  OBVIOUS
<1> USE DEF TypeOK, index, query
<1>1. CASE Tick
  BY <1>1 DEF Tick
<1>2. ASSUME NEW f \in Files, Write(f) PROVE TypeOK'
  BY <1>2 DEF Write, Stamps, Held
<1>3. ASSUME NEW f \in Files, Remove(f) PROVE TypeOK'
  BY <1>3 DEF Remove, Held
<1>. QED
  BY <1>1, <1>2, <1>3 DEF FileStep

LEMMA TypeBuildStep == TypeOK /\ BuildStep => TypeOK'
<1> SUFFICES ASSUME TypeOK, BuildStep PROVE TypeOK'
  OBVIOUS
<1> USE KeyParts DEF TypeOK, files, index
<1>1. ASSUME NEW f \in Files, BuildScan(f) PROVE TypeOK'
  BY <1>1 DEF BuildScan, OfFile
<1>2. CASE BuildScanned
  BY <1>2 DEF BuildScanned
<1>3. ASSUME NEW k \in Keys, BuildRead(k) PROVE TypeOK'
  BY <1>3 DEF BuildRead
<1>4. CASE BuildDone
  BY <1>4, TypeNoWork DEF BuildDone, Batched
<1>. QED
  BY <1>1, <1>2, <1>3, <1>4 DEF BuildStep

LEMMA TypeRollback == TypeOK /\ Rollback => TypeOK'
  BY TypeNoWork DEF Rollback, TypeOK, files

LEMMA TypeQueryStart == TypeOK /\ QueryStart => TypeOK'
<1> SUFFICES ASSUME TypeOK, QueryStart PROVE TypeOK'
  OBVIOUS
<1>1. seed \in [Keys -> Known]
  BY KnownTypes DEF seed
<1>2. since' \in [Files -> SUBSET Held]
  BY DEF TypeOK, QueryStart
<1>. QED
  BY <1>1, <1>2 DEF TypeOK, QueryStart, files

LEMMA TypeQueryStep == TypeOK /\ QueryStep => TypeOK'
<1> SUFFICES ASSUME TypeOK, QueryStep PROVE TypeOK'
  OBVIOUS
<1> USE KeyParts, FingerprintType, ClockAssumption DEF TypeOK, files, index
<1>1. ASSUME NEW f \in Files, ScanFile(f) PROVE TypeOK'
  BY <1>1 DEF ScanFile, OfFile
<1>2. ASSUME NEW f \in Files, StatFile(f) PROVE TypeOK'
  BY <1>2 DEF StatFile
<1>3. CASE ScanDone
  BY <1>3 DEF ScanDone
<1>4. ASSUME NEW k \in Keys, Skip(k) PROVE TypeOK'
  <2>1. stats[k[2]] \in Fingerprint
    BY <1>4 DEF Skip, Visit
  <2>2. adopted(known[k], stats[k[2]], BuildTime) \in Known
    BY <2>1, KnownTypes
  <2>. QED
    BY <1>4, <2>2 DEF Skip
<1>5. ASSUME NEW k \in Keys, TrackBatchFile(k) PROVE TypeOK'
  BY <1>5 DEF TrackBatchFile, Batched
<1>6. ASSUME NEW k \in Keys, ReadFile(k) PROVE TypeOK'
  BY <1>6 DEF ReadFile
<1>7. ASSUME NEW k \in Keys, Stamp(k) PROVE TypeOK'
  <2>1. after_read(fingerprint(k[2]), start) \in Known
    BY KnownTypes
  <2>. QED
    BY <1>7, <2>1 DEF Stamp
<1>8. ASSUME NEW k \in Keys, ReadFails(k) PROVE TypeOK'
  BY <1>8, TypeRollback DEF ReadFails
<1>9. CASE DropGone
  <2>1. rows' \in [Keys -> Held]
    BY <1>9 DEF DropGone, Held
  <2>2. batch' \subseteq Batched /\ todo' \subseteq Keys /\ marked' \subseteq PerTable
    BY <1>9 DEF DropGone, Batched
  <2>. QED
    BY <1>9, <2>1, <2>2 DEF DropGone
<1>10. ASSUME NEW k \in Keys, HookReads(k) PROVE TypeOK'
  BY <1>10 DEF HookReads
<1>11. ASSUME NEW t \in PerTable, HookFails(t) PROVE TypeOK'
  BY <1>11 DEF HookFails
<1>12. CASE HooksDone
  BY <1>12 DEF HooksDone
<1>13. CASE Commit
  <2>1. known' \in [Keys -> Known]
    BY <1>13, KnownTypes DEF Commit
  <2>. QED
    BY <1>13, <2>1 DEF Commit
<1>14. CASE CommitRefused
  BY <1>14, TypeRollback DEF CommitRefused
<1>15. CASE Answer
  BY <1>15, TypeNoWork DEF Answer
<1>. QED
  BY <1>1, <1>2, <1>3, <1>4, <1>5, <1>6, <1>7, <1>8, <1>9, <1>10, <1>11,
     <1>12, <1>13, <1>14, <1>15 DEF QueryStep

LEMMA TypeNext == TypeOK /\ [Next]_vars => TypeOK'
<1>1. TypeOK /\ UNCHANGED vars => TypeOK'
  BY DEF TypeOK, vars, files, index, query
<1>. QED
  BY <1>1, TypeFileStep, TypeBuildStep, TypeQueryStart, TypeQueryStep DEF Next

(* The variables keep their types. *)
THEOREM TypeCorrect == Spec => []TypeOK
  BY TypeInit, TypeNext, PTL DEF Spec

-----------------------------------------------------------------------------
(* The inductive invariant.                                                *)
(*                                                                         *)
(* The argument: a file changed since the query began carries a change time *)
(* too recent to be taken for settled at that moment (SinceInv), so an     *)
(* entry that lets the query leave a file unread is of a file that has held *)
(* one content all along, and rows made from anything the file held during *)
(* the query are made from that content.                                   *)

LEMMA OldStaysOld ==
  \A fp \in Fingerprint, t, u \in Nat : changed_before(fp, t) /\ t <= u => changed_before(fp, u)
  BY SettleAssumption DEF changed_before, Fingerprint, NoStat

(* An entry by which a file need not be read is of an old stat. *)
LEMMA UnreadIsOld ==
  ASSUME NEW e \in Known, NEW fp \in Fingerprint, NEW t \in Nat, BuildTime <= t,
         ~must_read(e, fp, BuildTime),
         e.kind = "read" /\ e.settled => changed_before(e.fp, t)
  PROVE  changed_before(fp, t) /\ e.kind # "none"
  BY OldStaysOld, ClockAssumption DEF must_read, Known

LEMMA VouchedIsOld ==
  ASSUME TypeOK, ClockInv, SettledInv, NEW k \in Keys, Vouches(known[k], k)
  PROVE  changed_before(fingerprint(k[2]), IF InQuery THEN start ELSE clock)
<1>1. known[k] \in Known /\ fingerprint(k[2]) \in Fingerprint
  BY KeyParts, FingerprintType DEF TypeOK
<1>. QED
  BY <1>1, UnreadIsOld DEF SettledInv, ClockInv, TypeOK, Vouches

LEMMA OldIsUnchanged ==
  ASSUME TypeOK, SinceInv, InQuery, NEW f \in Files, changed_before(fingerprint(f), start)
  PROVE  since[f] = {disk[f]} /\ disk[f] # Absent
  BY DEF SinceInv, fingerprint, is_file, changed_before, NoStat, TypeOK

LEMMA InitIInv == Init => IInv
<1> SUFFICES ASSUME Init PROVE IInv
  OBVIOUS
<1>1. TypeOK
  BY TypeInit
<1>2. ClockInv
  BY ClockAssumption DEF Init, ClockInv, InQuery, Building
<1>3. SettledInv
  BY KnownTypes DEF Init, SettledInv
<1>4. BuildInv
  BY DEF Init, BuildInv
<1>. QED
  BY <1>1, <1>2, <1>3, <1>4
     DEF Init, IInv, EntryInv, UnknownInv, SinceInv, WalkInv, StatInv, UpdateInv, WorkInv,
         RowsInv, GoneInv, RecordInv, BatchInv, InQuery, Building

-----------------------------------------------------------------------------
(* A step of the files. *)

\* A change made now does not look older than any moment up to now.
LEMMA ChangeIsRecent ==
  ASSUME TypeOK, NEW f \in Files, Write(f) \/ Remove(f)
  PROVE  /\ \A t \in Nat : t <= clock => ~changed_before(fingerprint(f)', t)
         /\ \A g \in Files \ {f} : fingerprint(g)' = fingerprint(g) /\ disk'[g] = disk[g]
<1>1. CASE Write(f)
  <2>1. PICK s \in Stamps : ctime' = [ctime EXCEPT ![f] = s]
    BY <1>1 DEF Write
  <2>2. s \in Nat /\ clock <= s + Lag
    BY <2>1 DEF Stamps, TypeOK
  <2>3. \A t \in Nat : t <= clock => ~(s < t - SETTLE_NS)
    BY <2>2, ClockAssumption, SettleAssumption DEF TypeOK
  <2>4. fingerprint(f)' \in {s, NoStat}
    BY <2>1 DEF fingerprint, TypeOK
  <2>5. \A g \in Files \ {f} : ctime'[g] = ctime[g] /\ disk'[g] = disk[g]
    BY <1>1 DEF Write, TypeOK
  <2>. QED
    BY <2>3, <2>4, <2>5 DEF changed_before, fingerprint, is_file
<1>2. CASE Remove(f)
  <2>1. fingerprint(f)' = NoStat
    BY <1>2 DEF Remove, fingerprint, is_file, TypeOK
  <2>2. \A g \in Files \ {f} : ctime'[g] = ctime[g] /\ disk'[g] = disk[g]
    BY <1>2 DEF Remove, TypeOK
  <2>. QED
    BY <2>1, <2>2 DEF changed_before, fingerprint, is_file
<1>. QED
  BY <1>1, <1>2

LEMMA ChangeIInv ==
  ASSUME IInv, NEW f \in Files, Write(f) \/ Remove(f), TypeOK'
  PROVE  IInv'
<1> USE DEF IInv
<1>1. /\ UNCHANGED <<clock, index, query>>
      /\ since' = IF InQuery THEN [since EXCEPT ![f] = @ \cup {disk'[f]}] ELSE since
  <2>1. CASE Write(f)
    BY <2>1 DEF Write
  <2>2. CASE Remove(f)
    BY <2>2 DEF Remove, TypeOK
  <2>. QED
    BY <2>1, <2>2
<1> USE <1>1 DEF index, query
<1>2. \A g \in Files : since[g] \subseteq since'[g]
  BY DEF TypeOK
<1>3. ClockInv' /\ SettledInv'
  BY DEF ClockInv, SettledInv, InQuery, Building
<1>4. ASSUME NEW k \in Keys, ~Building, Vouches(Entry(k), k)'
      PROVE  k[2] # f /\ Vouches(Entry(k), k)
  <2>1. Entry(k)' = Entry(k)
    BY DEF Entry, seed
  <2>2. Entry(k) \in Known
    BY KnownTypes DEF Entry, seed, TypeOK
  <2>3. Entry(k).kind = "built" => ~changed_before(fingerprint(f)', BuildTime)
    BY ChangeIsRecent, ClockAssumption DEF ClockInv
  <2>4. Entry(k).kind = "read" /\ Entry(k).settled => Entry(k).fp # fingerprint(f)'
    <3>1. Entry(k).kind = "read" => Entry(k) = known[k]
      BY KnownTypes DEF Entry, seed
    <3>. QED
      BY <3>1, ChangeIsRecent DEF SettledInv, ClockInv, TypeOK
  <2>5. k[2] # f
    BY <1>4, <2>1, <2>2, <2>3, <2>4 DEF Vouches, must_read, Known
  <2>. QED
    BY <1>4, <2>1, <2>5, ChangeIsRecent, KeyParts DEF Vouches
<1>5. EntryInv'
  BY <1>4, ChangeIsRecent, KeyParts DEF EntryInv, Building, Committed
<1>6. SinceInv'
  <2> SUFFICES ASSUME InQuery, NEW g \in Files
               PROVE  /\ disk'[g] \in since'[g]
                      /\ \A c \in since'[g] : c # disk'[g] => ~changed_before(fingerprint(g)', start)
    BY DEF SinceInv, InQuery
  <2>1. CASE g = f
    BY <2>1, ChangeIsRecent DEF ClockInv, TypeOK
  <2>2. CASE g # f
    BY <2>2, ChangeIsRecent DEF SinceInv, TypeOK
  <2>. QED
    BY <2>1, <2>2
<1>7. WalkInv'
  BY <1>2, KeyParts DEF WalkInv, InQuery
<1>8. StatInv'
  BY <1>2, KeyParts DEF StatInv, MustRead
<1>9. RowsInv'
  BY <1>2, KeyParts DEF RowsInv, RowsFresh, Reliable
<1>10. BatchInv'
  BY <1>2, KeyParts DEF BatchInv, Batched
<1>11. BuildInv'
  <2> SUFFICES ASSUME Building, NEW k \in Keys
               PROVE  IF pc = "build_read" /\ k \in found \ todo
                      THEN changed_before(fingerprint(k[2])', BuildTime) => rows[k] = disk'[k[2]]
                      ELSE rows[k] = Absent
    BY DEF BuildInv, Building
  <2>1. CASE k[2] = f
    BY <2>1, ChangeIsRecent, ClockAssumption DEF BuildInv, ClockInv
  <2>2. CASE k[2] # f
    BY <2>2, ChangeIsRecent, KeyParts DEF BuildInv
  <2>. QED
    BY <2>1, <2>2
<1>12. (UnknownInv /\ UpdateInv /\ WorkInv /\ GoneInv /\ RecordInv)'
  BY DEF UnknownInv, UpdateInv, WorkInv, GoneInv, RecordInv, Committed
<1>. QED
  BY <1>3, <1>5, <1>6, <1>7, <1>8, <1>9, <1>10, <1>11, <1>12

LEMMA TickIInv ==
  ASSUME IInv, Tick, TypeOK' PROVE IInv'
<1> USE DEF IInv, Tick, index, query
<1>1. ClockInv'
  BY ClockAssumption DEF ClockInv, InQuery, Building, TypeOK
<1>2. SettledInv'
  <2>1. \A k \in Keys : known[k].fp \in Fingerprint
    BY DEF TypeOK, Known
  <2>. QED
    BY <2>1, OldStaysOld DEF SettledInv, InQuery, TypeOK
<1>3. EntryInv'
  BY DEF EntryInv, Vouches, Entry, seed, fingerprint, is_file, Committed, Building
<1>4. (UnknownInv /\ SinceInv /\ WalkInv /\ StatInv /\ UpdateInv /\ WorkInv)'
  BY DEF UnknownInv, SinceInv, WalkInv, StatInv, UpdateInv, WorkInv, Committed, InQuery,
         fingerprint, is_file, MustRead
<1>5. (RowsInv /\ GoneInv /\ RecordInv /\ BatchInv /\ BuildInv)'
  BY DEF RowsInv, GoneInv, RecordInv, BatchInv, BuildInv, RowsFresh, Building, fingerprint, is_file
<1>. QED
  BY <1>1, <1>2, <1>3, <1>4, <1>5

-----------------------------------------------------------------------------
(* A step of the build. *)

LEMMA BuildScanIInv ==
  ASSUME IInv, NEW f \in Files, BuildScan(f), TypeOK' PROVE IInv'
<1> USE DEF IInv, BuildScan, files, index
<1>1. (ClockInv /\ SettledInv /\ EntryInv /\ UnknownInv /\ SinceInv /\ WalkInv)'
  BY DEF ClockInv, SettledInv, EntryInv, UnknownInv, SinceInv, WalkInv, InQuery, Building
<1>2. (StatInv /\ UpdateInv /\ WorkInv /\ RowsInv /\ GoneInv /\ RecordInv /\ BatchInv)'
  BY DEF StatInv, UpdateInv, WorkInv, RowsInv, GoneInv, RecordInv, BatchInv
<1>3. BuildInv'
  BY DEF BuildInv, Building
<1>. QED
  BY <1>1, <1>2, <1>3

LEMMA BuildScannedIInv ==
  ASSUME IInv, BuildScanned, TypeOK' PROVE IInv'
<1> USE DEF IInv, BuildScanned, files, index
<1>1. (ClockInv /\ SettledInv /\ EntryInv /\ UnknownInv /\ SinceInv /\ WalkInv)'
  BY DEF ClockInv, SettledInv, EntryInv, UnknownInv, SinceInv, WalkInv, InQuery, Building
<1>2. (StatInv /\ UpdateInv /\ WorkInv /\ RowsInv /\ GoneInv /\ RecordInv /\ BatchInv)'
  BY DEF StatInv, UpdateInv, WorkInv, RowsInv, GoneInv, RecordInv, BatchInv
<1>3. BuildInv'
  BY DEF BuildInv, Building
<1>. QED
  BY <1>1, <1>2, <1>3

LEMMA BuildReadIInv ==
  ASSUME IInv, NEW k \in Keys, BuildRead(k), TypeOK' PROVE IInv'
<1> USE DEF IInv, BuildRead, files
<1>1. (ClockInv /\ SettledInv /\ EntryInv /\ UnknownInv /\ SinceInv /\ WalkInv)'
  BY DEF ClockInv, SettledInv, EntryInv, UnknownInv, SinceInv, WalkInv, InQuery, Building
<1>2. (StatInv /\ UpdateInv /\ WorkInv /\ RowsInv /\ GoneInv /\ RecordInv /\ BatchInv)'
  BY DEF StatInv, UpdateInv, WorkInv, RowsInv, GoneInv, RecordInv, BatchInv
<1>3. BuildInv'
  <2>1. \A j \in Keys : fingerprint(j[2])' = fingerprint(j[2])
    BY DEF fingerprint, is_file
  <2>2. \A j \in Keys : rows'[j] = IF j = k THEN disk[k[2]] ELSE rows[j]
    BY DEF TypeOK
  <2>3. /\ k \in found /\ pc = "build_read" /\ pc' = pc /\ found' = found
        /\ todo' = todo \ {k} /\ disk' = disk
    BY DEF WorkInv
  <2> SUFFICES ASSUME NEW j \in Keys
               PROVE  IF j \in found \ todo'
                      THEN changed_before(fingerprint(j[2]), BuildTime) => rows'[j] = disk[j[2]]
                      ELSE rows'[j] = Absent
    BY <2>1, <2>3 DEF BuildInv
  <2>4. CASE j = k
    BY <2>2, <2>3, <2>4
  <2>5. CASE j # k
    BY <2>2, <2>3, <2>5 DEF BuildInv, Building
  <2>. QED
    BY <2>4, <2>5
<1>. QED
  BY <1>1, <1>2, <1>3

LEMMA BuildDoneIInv ==
  ASSUME IInv, BuildDone, TypeOK' PROVE IInv'
<1> USE DEF IInv, BuildDone, NoWork, files
<1>1. (ClockInv /\ SettledInv /\ UnknownInv /\ SinceInv /\ WalkInv)'
  <2>1. SettledInv'
    BY DEF SettledInv, InQuery
  <2>. QED
    BY <2>1 DEF ClockInv, UnknownInv, SinceInv, WalkInv, InQuery, Building
<1>2. (StatInv /\ UpdateInv /\ WorkInv /\ RowsInv /\ GoneInv /\ RecordInv /\ BatchInv)'
  BY KnownTypes DEF StatInv, UpdateInv, WorkInv, RowsInv, GoneInv, RecordInv, BatchInv
<1>3. BuildInv'
  BY DEF BuildInv, Building
<1>4. EntryInv'
  <2> SUFFICES ASSUME NEW k \in Keys, Vouches(Entry(k), k)'
               PROVE  /\ k \in Reliable => Committed(k)' = disk'[k[2]]
                      /\ k[1] \in PerTable => k \in batch'
    BY DEF EntryInv, Reliable
  <2>1. Entry(k)' = IF rows[k] # Absent \/ k \in batch' THEN Built ELSE NotKnown
    BY DEF Entry, seed, ClockInv, Building
  <2>2. Entry(k)' # NotKnown
    BY KnownTypes DEF Vouches, must_read
  <2>3. k \in found
    BY <2>1, <2>2 DEF BuildInv, Building
  <2>4. changed_before(fingerprint(k[2]), BuildTime)
    BY <2>1, <2>2, KnownTypes DEF Vouches, must_read, fingerprint, is_file
  <2>5. rows[k] = disk[k[2]]
    BY <2>3, <2>4 DEF BuildInv, Building
  <2>. QED
    BY <2>3, <2>5 DEF Committed, Batched
<1>. QED
  BY <1>1, <1>2, <1>3, <1>4

-----------------------------------------------------------------------------
(* A query starts, fails or answers. *)

LEMMA QueryStartIInv ==
  ASSUME IInv, QueryStart, TypeOK' PROVE IInv'
<1> USE DEF IInv, QueryStart, files
<1>1. ClockInv'
  BY DEF ClockInv, InQuery, Building, TypeOK
<1>2. SettledInv'
  BY KnownTypes DEF SettledInv, InQuery, seed
<1>3. \A k \in Keys : Entry(k)' = Entry(k) /\ Committed(k)' = Committed(k)
  BY DEF Entry, Committed, TypeOK
<1>4. EntryInv'
  BY <1>3 DEF EntryInv, Building, Vouches, Reliable, fingerprint, is_file
<1>5. UnknownInv'
  <2>1. ASSUME NEW k \in Keys, k[1] \in PerFile, known'[k].kind = "none", ~seeded
        PROVE  rows[k] = Absent
    BY <2>1, KnownTypes DEF seed
  <2>. QED
    BY <1>3, <2>1 DEF UnknownInv, Committed
<1>6. SinceInv'
  BY DEF SinceInv, fingerprint, is_file
<1>7. (WalkInv /\ StatInv /\ UpdateInv /\ WorkInv)'
  BY DEF WalkInv, StatInv, UpdateInv, WorkInv
<1>8. (RowsInv /\ GoneInv /\ RecordInv /\ BatchInv /\ BuildInv)'
  BY DEF RowsInv, GoneInv, RecordInv, BatchInv, BuildInv, Building
<1>. QED
  BY <1>1, <1>2, <1>4, <1>5, <1>6, <1>7, <1>8

LEMMA RollbackIInv ==
  ASSUME IInv, pc \in {"read", "stamp"}, Rollback, TypeOK' PROVE IInv'
<1> USE DEF IInv, Rollback, NoWork, files
<1>1. ClockInv'
  BY DEF ClockInv, InQuery, Building
<1>2. SettledInv'
  <2>1. \A k \in Keys : known[k].fp \in Fingerprint
    BY DEF TypeOK, Known
  <2>. QED
    BY <2>1, OldStaysOld DEF SettledInv, InQuery, ClockInv, TypeOK
<1>3. \A k \in Keys : Entry(k)' = Entry(k) /\ Committed(k)' = Committed(k)
  BY DEF Entry, Committed, ClockInv, InQuery
<1>4. EntryInv'
  BY <1>3 DEF EntryInv, Building, Vouches, Reliable, fingerprint, is_file
<1>5. UnknownInv'
  BY <1>3 DEF UnknownInv
<1>6. (SinceInv /\ WalkInv /\ StatInv /\ UpdateInv /\ WorkInv)'
  BY KnownTypes DEF SinceInv, WalkInv, StatInv, UpdateInv, WorkInv, InQuery
<1>7. (RowsInv /\ GoneInv /\ RecordInv /\ BatchInv /\ BuildInv)'
  BY DEF RowsInv, GoneInv, RecordInv, BatchInv, BuildInv, Building
<1>. QED
  BY <1>1, <1>2, <1>4, <1>5, <1>6, <1>7

LEMMA AnswerIInv ==
  ASSUME IInv, Answer, TypeOK' PROVE IInv'
<1> USE DEF IInv, Answer, NoWork, files, index
<1>1. ClockInv'
  BY DEF ClockInv, InQuery, Building
<1>2. SettledInv'
  <2>1. \A k \in Keys : known[k].fp \in Fingerprint
    BY DEF TypeOK, Known
  <2>. QED
    BY <2>1, OldStaysOld DEF SettledInv, InQuery, ClockInv, TypeOK
<1>3. \A k \in Keys : Entry(k)' = Entry(k) /\ Committed(k)' = Committed(k)
  BY DEF Entry, Committed, ClockInv, InQuery
<1>4. EntryInv'
  BY <1>3 DEF EntryInv, Building, Vouches, Reliable, fingerprint, is_file
<1>5. UnknownInv'
  BY <1>3 DEF UnknownInv
<1>6. (SinceInv /\ WalkInv /\ StatInv /\ UpdateInv /\ WorkInv)'
  BY KnownTypes DEF SinceInv, WalkInv, StatInv, UpdateInv, WorkInv, InQuery
<1>7. (RowsInv /\ GoneInv /\ RecordInv /\ BatchInv /\ BuildInv)'
  BY DEF RowsInv, GoneInv, RecordInv, BatchInv, BuildInv, Building
<1>. QED
  BY <1>1, <1>2, <1>4, <1>5, <1>6, <1>7

-----------------------------------------------------------------------------
(* A query's walk, stats and reads. *)

LEMMA ScanFileIInv ==
  ASSUME IInv, NEW f \in Files, ScanFile(f), TypeOK' PROVE IInv'
<1> USE DEF IInv, ScanFile, files, index
<1>1. (ClockInv /\ SettledInv /\ EntryInv /\ UnknownInv /\ SinceInv)'
  BY DEF ClockInv, SettledInv, EntryInv, UnknownInv, SinceInv, InQuery, Building,
         Entry, seed, Vouches, fingerprint, is_file, Committed, Reliable
<1>2. (StatInv /\ UpdateInv /\ WorkInv /\ RowsInv /\ GoneInv /\ RecordInv /\ BatchInv /\ BuildInv)'
  BY DEF StatInv, UpdateInv, WorkInv, RowsInv, GoneInv, RecordInv, BatchInv, BuildInv, Building
<1>3. WalkInv'
  <2> SUFFICES ASSUME NEW k \in Keys, k \notin found', k \notin todo'
               PROVE  Absent \in since[k[2]]
    BY DEF WalkInv
  <2>1. CASE k \notin todo
    <3>1. k \notin found
      OBVIOUS
    <3>. QED
      BY <2>1, <3>1 DEF WalkInv, InQuery
  <2>2. CASE k \in todo
    <3>1. k[2] = f /\ disk[f] = Absent
      BY <2>2 DEF OfFile, is_file
    <3>. QED
      BY <3>1 DEF SinceInv, InQuery
  <2>. QED
    BY <2>1, <2>2
<1>. QED
  BY <1>1, <1>2, <1>3

LEMMA ScanDoneIInv ==
  ASSUME IInv, ScanDone, TypeOK' PROVE IInv'
<1> USE DEF IInv, ScanDone, files, index
<1>1. (ClockInv /\ SettledInv /\ EntryInv /\ UnknownInv /\ SinceInv)'
  BY DEF ClockInv, SettledInv, EntryInv, UnknownInv, SinceInv, InQuery, Building,
         Entry, seed, Vouches, fingerprint, is_file, Committed, Reliable
<1>2. (WalkInv /\ UpdateInv /\ WorkInv /\ RowsInv /\ GoneInv /\ RecordInv /\ BatchInv /\ BuildInv)'
  BY KnownTypes DEF WalkInv, UpdateInv, WorkInv, RowsInv, GoneInv, RecordInv, BatchInv,
         BuildInv, Building, InQuery
<1>3. StatInv'
  BY KeyParts DEF StatInv, WorkInv
<1>. QED
  BY <1>1, <1>2, <1>3

LEMMA StatFileIInv ==
  ASSUME IInv, NEW f \in Files, StatFile(f), TypeOK' PROVE IInv'
<1> USE DEF IInv, StatFile, files, index
<1>1. (ClockInv /\ SettledInv /\ EntryInv /\ UnknownInv /\ SinceInv)'
  BY DEF ClockInv, SettledInv, EntryInv, UnknownInv, SinceInv, InQuery, Building,
         Entry, seed, Vouches, fingerprint, is_file, Committed, Reliable
<1>2. (WalkInv /\ UpdateInv /\ WorkInv /\ RowsInv /\ GoneInv /\ RecordInv /\ BatchInv /\ BuildInv)'
  BY DEF WalkInv, UpdateInv, WorkInv, RowsInv, GoneInv, RecordInv, BatchInv, BuildInv,
         Building, InQuery, RowsFresh, Reliable
<1>3. StatInv'
  <2> SUFFICES ASSUME NEW k \in Keys, stats'[k[2]] # NotTaken, ~MustRead(k)'
               PROVE  /\ k \in Reliable => saved[k] \in since[k[2]]
                      /\ k[1] \in PerTable => k \in batch \/ Absent \in since[k[2]]
    BY DEF StatInv, Reliable
  <2>1. CASE k[2] # f
    BY <2>1 DEF StatInv, TypeOK, MustRead
  <2>2. CASE k[2] = f
    <3>1. Vouches(Entry(k), k)
      BY <2>2 DEF TypeOK, MustRead, Vouches, Entry, ClockInv, InQuery
    <3>. QED
      BY <2>2, <3>1 DEF EntryInv, Building, Committed, SinceInv, InQuery
  <2>. QED
    BY <2>1, <2>2
<1>. QED
  BY <1>1, <1>2, <1>3

LEMMA SkipIInv ==
  ASSUME IInv, NEW k \in Keys, Skip(k), TypeOK' PROVE IInv'
<1> USE DEF IInv, Skip, Visit, files, index
<1>1. (ClockInv /\ SettledInv /\ EntryInv /\ UnknownInv /\ SinceInv)'
  BY DEF ClockInv, SettledInv, EntryInv, UnknownInv, SinceInv, InQuery, Building,
         Entry, seed, Vouches, fingerprint, is_file, Committed, Reliable
<1>2. (WalkInv /\ StatInv /\ GoneInv /\ BuildInv)'
  BY DEF WalkInv, StatInv, GoneInv, BuildInv, Building, InQuery, MustRead, Reliable
<1>3. UpdateInv'
  <2>1. k \in found
    BY DEF WorkInv
  <2>2. stats[k[2]] \in Fingerprint
    BY KeyParts DEF TypeOK
  <2>3. updates'[k].settled => changed_before(updates'[k].fp, start)
    <3>1. CASE known[k].kind = "built"
      <4>1. updates'[k] = after_read(stats[k[2]], BuildTime)
        BY <3>1 DEF adopted, TypeOK
      <4>2. updates'[k].settled => changed_before(stats[k[2]], BuildTime)
        BY <4>1 DEF after_read, Read
      <4>3. updates'[k].fp = stats[k[2]]
        BY <4>1 DEF after_read, Read
      <4>. QED
        BY <2>2, <4>2, <4>3, OldStaysOld, ClockAssumption DEF ClockInv, InQuery, TypeOK
    <3>2. CASE known[k].kind # "built"
      BY <3>2 DEF adopted, NotKnown, TypeOK
    <3>. QED
      BY <3>1, <3>2
  <2>4. \A j \in Keys \ {k} : updates'[j] = updates[j]
    BY DEF TypeOK
  <2>. QED
    BY <2>1, <2>3, <2>4 DEF UpdateInv
<1>4. WorkInv'
  BY DEF WorkInv
<1>5. RowsInv'
  <2>1. ASSUME k \in Reliable PROVE RowsFresh(k)
    <3>1. saved[k] \in since[k[2]]
      BY <2>1 DEF StatInv
    <3>2. rows[k] = saved[k]
      BY DEF WorkInv
    <3>. QED
      BY <3>1, <3>2 DEF RowsFresh
  <2>. QED
    BY <2>1 DEF RowsInv, RowsFresh, Reliable
<1>6. RecordInv'
  <2>1. known[k].kind # "none"
    BY DEF MustRead, must_read
  <2>2. \A j \in Keys \ {k} : updates'[j] = updates[j]
    BY DEF TypeOK
  <2>. QED
    BY <2>1, <2>2 DEF RecordInv, TypeOK
<1>7. BatchInv'
  BY DEF BatchInv, StatInv, Batched
<1>. QED
  BY <1>1, <1>2, <1>3, <1>4, <1>5, <1>6, <1>7

LEMMA TrackBatchFileIInv ==
  ASSUME IInv, NEW k \in Keys, TrackBatchFile(k), TypeOK' PROVE IInv'
<1> USE DEF IInv, TrackBatchFile, Visit, files
<1>1. (ClockInv /\ SettledInv /\ UnknownInv /\ SinceInv)'
  BY DEF ClockInv, SettledInv, UnknownInv, SinceInv, InQuery, Building,
         fingerprint, is_file, Committed, Reliable
<1>2. disk[k[2]] \in since[k[2]]
  BY KeyParts DEF SinceInv, InQuery
<1>3. EntryInv'
  <2> SUFFICES ASSUME NEW j \in Keys, Vouches(Entry(j), j)'
               PROVE  /\ j \in Reliable => Committed(j)' = disk'[j[2]]
                      /\ j[1] \in PerTable => j \in batch'
    BY DEF EntryInv, Reliable
  <2>1. Vouches(Entry(j), j) /\ Committed(j)' = Committed(j)
    BY DEF Vouches, Entry, ClockInv, InQuery, fingerprint, is_file, Committed
  <2>2. is_file(j[2])
    BY <2>1 DEF Vouches, must_read, fingerprint
  <2>. QED
    BY <2>1, <2>2 DEF EntryInv, Building
<1>4. (WalkInv /\ UpdateInv /\ GoneInv /\ RecordInv /\ BuildInv)'
  BY IndexAssumption DEF WalkInv, UpdateInv, GoneInv, RecordInv, BuildInv, Building, InQuery
<1>5. StatInv'
  <2>1. k \notin batch' => Absent \in since[k[2]]
    BY <1>2 DEF is_file
  <2>2. \A j \in Keys \ {k} : j \in batch => j \in batch'
    OBVIOUS
  <2>. QED
    BY <2>1, <2>2 DEF StatInv, MustRead, Reliable
<1>6. WorkInv'
  BY DEF WorkInv
<1>7. RowsInv'
  BY DEF RowsInv, RowsFresh, Reliable
<1>8. BatchInv'
  BY <1>2 DEF BatchInv, Batched, is_file
<1>. QED
  BY <1>1, <1>3, <1>4, <1>5, <1>6, <1>7, <1>8

LEMMA ReadFileIInv ==
  ASSUME IInv, NEW k \in Keys, ReadFile(k), TypeOK' PROVE IInv'
<1> USE DEF IInv, ReadFile, Visit, files
<1>1. (ClockInv /\ SettledInv /\ EntryInv /\ UnknownInv /\ SinceInv)'
  BY DEF ClockInv, SettledInv, EntryInv, UnknownInv, SinceInv, InQuery, Building,
         Entry, Vouches, fingerprint, is_file, Committed, Reliable
<1>2. /\ k \in found
      /\ rows' = [rows EXCEPT ![k] = IF is_file(k[2]) THEN disk[k[2]] ELSE saved[k]]
      /\ disk[k[2]] \in since[k[2]]
  BY KeyParts DEF WorkInv, TypeOK, SinceInv, InQuery
<1>3. (WalkInv /\ StatInv /\ UpdateInv /\ GoneInv /\ RecordInv /\ BatchInv /\ BuildInv)'
  BY IndexAssumption DEF WalkInv, StatInv, UpdateInv, GoneInv, RecordInv, BatchInv, BuildInv,
     Building, InQuery, MustRead, Reliable, Batched
<1>4. \A j \in Keys \ {k} : rows'[j] = rows[j]
  BY <1>2 DEF TypeOK
<1>5. WorkInv'
  BY <1>2, <1>4, IndexAssumption DEF WorkInv
<1>6. RowsInv'
  <2>1. RowsFresh(k)'
    BY <1>2 DEF RowsFresh, is_file, TypeOK
  <2>. QED
    BY <1>4, <2>1 DEF RowsInv, RowsFresh, Reliable
<1>. QED
  BY <1>1, <1>3, <1>5, <1>6

LEMMA StampIInv ==
  ASSUME IInv, NEW k \in Keys, Stamp(k), TypeOK' PROVE IInv'
<1> USE DEF IInv, Stamp, files, index
<1>1. (ClockInv /\ SettledInv /\ EntryInv /\ UnknownInv /\ SinceInv)'
  BY DEF ClockInv, SettledInv, EntryInv, UnknownInv, SinceInv, InQuery, Building,
         Entry, seed, Vouches, fingerprint, is_file, Committed, Reliable
<1>2. (WalkInv /\ StatInv /\ RowsInv /\ GoneInv /\ BatchInv /\ BuildInv)'
  BY DEF WalkInv, StatInv, RowsInv, GoneInv, BatchInv, BuildInv, Building, InQuery,
         MustRead, Reliable, RowsFresh
<1>3. k \in found
  BY DEF WorkInv
<1>4. /\ \A j \in Keys \ {k} : updates'[j] = updates[j]
      /\ updates'[k] = after_read(fingerprint(k[2]), start)
  BY DEF TypeOK
<1>5. /\ updates'[k].kind = "read" /\ updates'[k].fp = fingerprint(k[2])
      /\ updates'[k].settled = changed_before(fingerprint(k[2]), start)
  BY <1>4 DEF after_read, Read
<1>6. UpdateInv'
  BY <1>3, <1>4, <1>5 DEF UpdateInv
<1>7. WorkInv'
  BY DEF WorkInv
<1>8. RecordInv'
  BY <1>4, <1>5 DEF RecordInv
<1>. QED
  BY <1>1, <1>2, <1>6, <1>7, <1>8

-----------------------------------------------------------------------------
(* A query's hooks and its commit. *)

\* An entry that still vouches for k during a query is of a file the walk
\* found and that has not changed since.
LEMMA VouchedIsFound ==
  ASSUME IInv, pc \in {"read", "hook", "stamp", "answer"},
         NEW k \in Keys, changed_before(fingerprint(k[2]), start)
  PROVE  k \in found /\ Absent \notin since[k[2]] /\ since[k[2]] = {disk[k[2]]}
<1>1. since[k[2]] = {disk[k[2]]} /\ disk[k[2]] # Absent
  BY KeyParts, OldIsUnchanged DEF IInv, InQuery
<1>. QED
  BY <1>1 DEF IInv, WalkInv, InQuery

LEMMA DropGoneIInv ==
  ASSUME IInv, DropGone, TypeOK' PROVE IInv'
<1> USE DEF IInv, DropGone, files
<1>1. (ClockInv /\ SettledInv /\ UnknownInv /\ SinceInv /\ WalkInv)'
  BY DEF ClockInv, SettledInv, UnknownInv, SinceInv, WalkInv, InQuery, Building,
         fingerprint, is_file, Committed, Reliable
<1>2. EntryInv'
  <2> SUFFICES ASSUME NEW k \in Keys, Vouches(Entry(k), k)'
               PROVE  /\ k \in Reliable => Committed(k)' = disk'[k[2]]
                      /\ k[1] \in PerTable => k \in batch'
    BY DEF EntryInv, Reliable
  <2>1. /\ Vouches(Entry(k), k) /\ Committed(k)' = Committed(k)
        /\ Vouches(known[k], k)
    BY DEF Vouches, Entry, ClockInv, InQuery, fingerprint, is_file, Committed
  <2>2. k \in found
    BY <2>1, VouchedIsOld, VouchedIsFound DEF InQuery
  <2>. QED
    BY <2>1, <2>2 DEF EntryInv, Building, Gone
<1>3. StatInv' /\ UpdateInv' /\ BuildInv'
  BY DEF StatInv, UpdateInv, BuildInv, Building
<1>4. WorkInv'
  BY DEF WorkInv
<1>5. \A k \in Keys : rows'[k] = IF k[1] \in marked' \/ (k[1] \in PerFile /\ k \in Gone)
                                THEN Absent ELSE rows[k]
  OBVIOUS
<1>6. BatchInv'
  BY DEF BatchInv, Gone
<1>7. GoneInv'
  <2> SUFFICES ASSUME NEW k \in Keys, k[1] \in PerFile, k \notin found, k \notin Gone
               PROVE  rows[k] = Absent
    BY <1>5 DEF GoneInv
  <2>1. known[k].kind = "none"
    BY DEF Gone
  <2>. QED
    BY <2>1 DEF UnknownInv, WorkInv, ClockInv, InQuery, Committed
<1>8. RowsInv'
  <2> SUFFICES ASSUME NEW k \in Reliable, k \in found \/ k[1] \in PerFile, k \notin todo'
               PROVE  RowsFresh(k)'
    BY DEF RowsInv, Reliable
  <2>1. k \in Keys
    BY DEF Reliable
  <2>2. CASE k \in found /\ k[1] \notin marked'
    <3>1. RowsFresh(k)
      BY <2>1, <2>2 DEF RowsInv
    <3>. QED
      BY <1>5, <2>1, <2>2, <3>1 DEF RowsFresh, Gone
  <2>3. CASE k \in found /\ k[1] \in marked'
    <3>1. rows'[k] = Absent /\ k \notin batch'
      BY <1>5, <2>1, <2>3
    <3>2. k[1] \in PerTable
      BY <2>3 DEF TypeOK
    <3>3. Absent \in since[k[2]]
      BY <1>6, <2>1, <2>3, <3>1, <3>2 DEF BatchInv, Batched
    <3>. QED
      BY <3>1, <3>3 DEF RowsFresh
  <2>4. CASE k \notin found /\ k[1] \in PerFile
    <3>1. rows'[k] = Absent
      BY <1>7, <2>1, <2>4 DEF GoneInv
    <3>2. Absent \in since[k[2]]
      BY <2>1, <2>4 DEF WalkInv, InQuery
    <3>. QED
      BY <3>1, <3>2 DEF RowsFresh
  <2>. QED
    BY <2>2, <2>3, <2>4
<1>9. RecordInv'
  BY DEF RecordInv
<1>. QED
  BY <1>1, <1>2, <1>3, <1>4, <1>6, <1>7, <1>8, <1>9

LEMMA HookReadsIInv ==
  ASSUME IInv, NEW k \in Keys, HookReads(k), TypeOK' PROVE IInv'
<1> USE DEF IInv, HookReads, files
<1>1. (ClockInv /\ SettledInv /\ EntryInv /\ UnknownInv /\ SinceInv)'
  BY DEF ClockInv, SettledInv, EntryInv, UnknownInv, SinceInv, InQuery, Building,
         Entry, Vouches, fingerprint, is_file, Committed, Reliable
<1>2. (WalkInv /\ StatInv /\ UpdateInv /\ WorkInv /\ RecordInv /\ BatchInv /\ BuildInv)'
  BY DEF WalkInv, StatInv, UpdateInv, WorkInv, RecordInv, BatchInv, BuildInv, Building, InQuery
<1>3. /\ k[1] \in PerTable
      /\ rows'[k] = disk[k[2]]
      /\ \A j \in Keys \ {k} : rows'[j] = rows[j]
  BY DEF WorkInv, TypeOK
<1>4. GoneInv'
  BY <1>3, IndexAssumption DEF GoneInv
<1>5. RowsInv'
  <2>1. RowsFresh(k)'
    BY <1>3, KeyParts DEF RowsFresh, SinceInv, InQuery
  <2>. QED
    BY <1>3, <2>1 DEF RowsInv, RowsFresh, Reliable
<1>. QED
  BY <1>1, <1>2, <1>4, <1>5

LEMMA HookFailsIInv ==
  ASSUME IInv, NEW t \in PerTable, HookFails(t), TypeOK' PROVE IInv'
<1> USE DEF IInv, HookFails, files
<1>1. (ClockInv /\ SettledInv /\ EntryInv /\ UnknownInv /\ SinceInv)'
  BY DEF ClockInv, SettledInv, EntryInv, UnknownInv, SinceInv, InQuery, Building,
         Entry, Vouches, fingerprint, is_file, Committed, Reliable
<1>2. (WalkInv /\ StatInv /\ UpdateInv /\ WorkInv /\ RecordInv /\ BatchInv /\ BuildInv)'
  BY DEF WalkInv, StatInv, UpdateInv, WorkInv, RecordInv, BatchInv, BuildInv, Building, InQuery
<1>3. \A j \in Keys : j[1] # t => rows'[j] = rows[j] /\ (j \in todo' <=> j \in todo)
  BY DEF OfTable
<1>4. GoneInv'
  BY <1>3, IndexAssumption DEF GoneInv
<1>5. RowsInv'
  BY <1>3 DEF RowsInv, RowsFresh, Reliable
<1>. QED
  BY <1>1, <1>2, <1>4, <1>5

LEMMA HooksDoneIInv ==
  ASSUME IInv, HooksDone, TypeOK' PROVE IInv'
<1> USE DEF IInv, HooksDone, files, index
<1>1. (ClockInv /\ SettledInv /\ EntryInv /\ UnknownInv /\ SinceInv)'
  BY DEF ClockInv, SettledInv, EntryInv, UnknownInv, SinceInv, InQuery, Building,
         Entry, seed, Vouches, fingerprint, is_file, Committed, Reliable
<1>2. (WalkInv /\ StatInv /\ UpdateInv /\ GoneInv /\ RecordInv /\ BatchInv /\ BuildInv)'
  BY DEF WalkInv, StatInv, UpdateInv, GoneInv, RecordInv, BatchInv, BuildInv, Building, InQuery
<1>3. WorkInv'
  BY DEF WorkInv, TypeOK
<1>4. RowsInv'
  BY DEF RowsInv, RowsFresh, Reliable
<1>. QED
  BY <1>1, <1>2, <1>3, <1>4

LEMMA CommitIInv ==
  ASSUME IInv, Commit, TypeOK' PROVE IInv'
<1> USE DEF IInv, Commit, files
<1>1. \A k \in Keys : known'[k] = IF updates[k].kind = "read" THEN updates[k]
                                 ELSE IF k \in Gone THEN NotKnown ELSE known[k]
  OBVIOUS
<1>2. ClockInv' /\ SinceInv' /\ WalkInv'
  BY DEF ClockInv, SinceInv, WalkInv, InQuery, Building, fingerprint, is_file
<1>3. SettledInv'
  BY <1>1, KnownTypes DEF SettledInv, UpdateInv, InQuery
<1>4. UnknownInv'
  <2> SUFFICES ASSUME NEW k \in Keys, k[1] \in PerFile, known'[k].kind = "none"
               PROVE  rows[k] = Absent
    BY DEF UnknownInv, Committed
  <2>1. k \notin found
    BY <1>1 DEF RecordInv, Gone
  <2>. QED
    BY <2>1 DEF GoneInv
<1>5. EntryInv'
  <2> SUFFICES ASSUME NEW k \in Keys, ~must_read(known'[k], fingerprint(k[2]), BuildTime)
               PROVE  /\ k \in Reliable => rows[k] = disk[k[2]]
                      /\ k[1] \in PerTable => k \in batch
    <3>1. /\ pc' = "answer" /\ disk' = disk /\ rows' = rows /\ batch' = batch
          /\ \A k \in Keys : /\ Entry(k)' = known'[k] /\ Committed(k)' = rows[k]
                             /\ fingerprint(k[2])' = fingerprint(k[2])
      BY DEF Entry, Committed, ClockInv, InQuery, fingerprint, is_file
    <3>. QED
      BY <3>1 DEF EntryInv, Reliable, Vouches
  <2>1. changed_before(fingerprint(k[2]), start)
    <3>1. known'[k] \in Known /\ fingerprint(k[2]) \in Fingerprint
      BY KeyParts, FingerprintType DEF TypeOK
    <3>3. known'[k].kind = "read" /\ known'[k].settled => changed_before(known'[k].fp, start)
      BY <1>3 DEF SettledInv, InQuery
    <3>. QED
      BY <3>1, <3>3, UnreadIsOld DEF ClockInv, InQuery, TypeOK
  <2>2. /\ k \in found /\ Absent \notin since[k[2]] /\ since[k[2]] = {disk[k[2]]}
    BY <2>1, VouchedIsFound
  <2>3. k \in Reliable => RowsFresh(k)
    BY <2>2 DEF RowsInv
  <2>. QED
    BY <2>2, <2>3 DEF RowsFresh, BatchInv, Batched
<1>6. (StatInv /\ UpdateInv /\ WorkInv /\ GoneInv /\ RecordInv /\ BuildInv)'
  BY DEF StatInv, UpdateInv, WorkInv, GoneInv, RecordInv, BuildInv, Building
<1>7. RowsInv' /\ BatchInv'
  BY DEF RowsInv, RowsFresh, Reliable, BatchInv
<1>. QED
  BY <1>2, <1>3, <1>4, <1>5, <1>6, <1>7

-----------------------------------------------------------------------------
(* Every step keeps the inductive invariant. *)

LEMMA StutterIInv == ASSUME IInv, UNCHANGED vars PROVE IInv'
  BY DEF IInv, TypeOK, ClockInv, SettledInv, EntryInv, UnknownInv, SinceInv, WalkInv, StatInv,
         UpdateInv, WorkInv, RowsInv, GoneInv, RecordInv, BatchInv, BuildInv, InQuery, Building,
         Entry, seed, Vouches, MustRead, fingerprint, is_file, Committed, RowsFresh,
         vars, files, index, query

LEMMA NextIInv == IInv /\ [Next]_vars => IInv'
<1> SUFFICES ASSUME IInv, [Next]_vars PROVE IInv'
  OBVIOUS
<1>1. TypeOK'
  BY TypeNext DEF IInv
<1>2. CASE FileStep
  BY <1>1, <1>2, TickIInv, ChangeIInv DEF FileStep
<1>3. CASE BuildStep
  BY <1>1, <1>3, BuildScanIInv, BuildScannedIInv, BuildReadIInv, BuildDoneIInv DEF BuildStep
<1>4. CASE QueryStart
  BY <1>1, <1>4, QueryStartIInv
<1>5. CASE QueryStep
  <2>1. ASSUME NEW k \in Keys, ReadFails(k) PROVE IInv'
    BY <1>1, <2>1, RollbackIInv DEF ReadFails, Visit
  <2>2. CASE CommitRefused
    BY <1>1, <2>2, RollbackIInv DEF CommitRefused
  <2>. QED
    BY <1>1, <1>5, <2>1, <2>2, ScanFileIInv, ScanDoneIInv, StatFileIInv, SkipIInv,
       TrackBatchFileIInv, ReadFileIInv, StampIInv, DropGoneIInv, HookReadsIInv,
       HookFailsIInv, HooksDoneIInv, CommitIInv, AnswerIInv
       DEF QueryStep
<1>6. CASE UNCHANGED vars
  BY <1>6, StutterIInv
<1>. QED
  BY <1>2, <1>3, <1>4, <1>5, <1>6 DEF Next

THEOREM Invariance == Spec => []IInv
  BY InitIInv, NextIInv, PTL DEF Spec

\* The rows a query's SQL runs over were made from what each file held after
\* the query began.
THEOREM FreshReadHolds == Spec => []FreshRead
<1>1. IInv => FreshRead
  BY DEF IInv, RowsInv, FreshRead
<1>. QED
  BY <1>1, Invariance, PTL

\* An entry that lets the next query leave a file unread is the truth.
THEOREM SkipIsSoundHolds == Spec => []SkipIsSound
<1>1. IInv => SkipIsSound
  BY DEF IInv, EntryInv, SkipIsSound, Building, Committed, Reliable
<1>. QED
  BY <1>1, Invariance, PTL

\* No file the walk found is missing from the list its hook is run over.
THEOREM BatchCompleteHolds == Spec => []BatchComplete
<1>1. IInv => BatchComplete
  BY DEF IInv, BatchInv, BatchComplete
<1>. QED
  BY <1>1, Invariance, PTL

-----------------------------------------------------------------------------
(* A query settles what had come to rest before it.  RestInv is inductive  *)
(* once IInv is known: while the query runs, a file at rest since before   *)
(* it shows every stat the same change time, old enough to be final.       *)

\* A change leaves the file it is of at rest no more.
LEMMA ChangeRest ==
  ASSUME IInv, RestInv, NEW f \in Files, Write(f) \/ Remove(f)
  PROVE  RestInv'
<1>1. UNCHANGED <<clock, index, query>>
  BY DEF Write, Remove
<1> USE <1>1 DEF index, query
<1>2. ASSUME InQuery, NEW k \in Keys, changed_before(fingerprint(k[2])', start)
      PROVE  k[2] # f /\ fingerprint(k[2])' = fingerprint(k[2])
  <2>1. start \in Nat /\ start <= clock /\ TypeOK
    BY <1>2 DEF IInv, ClockInv, TypeOK
  <2>. QED
    BY <1>2, <2>1, ChangeIsRecent, KeyParts
<1>3. found \subseteq Keys
  BY DEF IInv, TypeOK
<1>. QED
  BY <1>2, <1>3 DEF RestInv, RestedIsSettled, InQuery, Through, Leaves, Vouches

LEMMA TickRest == ASSUME RestInv, Tick PROVE RestInv'
  BY DEF RestInv, RestedIsSettled, Tick, index, query, fingerprint, is_file, Through, Leaves,
         Vouches

\* The steps at whose end no query is past its walk.
LEMMA EarlyRest ==
  ASSUME pc' \in {"build_scan", "build_read", "idle", "scan"} PROVE RestInv'
  BY DEF RestInv, RestedIsSettled

LEMMA ScanDoneRest == ASSUME IInv, ScanDone PROVE RestInv'
<1>1. stats' = [f \in Files |-> NotTaken]
  BY DEF ScanDone, IInv, WorkInv, TypeOK
<1>2. \A k \in found' : k \in todo' /\ k[2] \in Files
  BY KeyParts DEF ScanDone, IInv, TypeOK
<1>. QED
  BY <1>1, <1>2 DEF ScanDone, RestInv, RestedIsSettled, Through

LEMMA StatFileRest ==
  ASSUME IInv, RestInv, NEW f \in Files, StatFile(f) PROVE RestInv'
<1> USE DEF StatFile, files, index
<1>1. \A k \in Keys : fingerprint(k[2])' = fingerprint(k[2])
                      /\ stats'[k[2]] \in {stats[k[2]], fingerprint(k[2])}
  BY KeyParts DEF IInv, TypeOK, fingerprint, is_file
<1>2. found \subseteq Keys
  BY DEF IInv, TypeOK
<1>. QED
  BY <1>1, <1>2 DEF RestInv, RestedIsSettled, Through, Leaves, Vouches

\* What a step that keeps the files, the stats and the entries has to show.
LEMMA KeepsRest ==
  ASSUME IInv, RestInv, UNCHANGED <<files, stats, start, found, known>>,
         pc \in {"read", "hook", "stamp"}, pc' \in {"read", "hook", "stamp"},
         \A k \in found : changed_before(fingerprint(k[2]), start) /\ Through(k)' =>
           Vouches(Leaves(k)', k)
  PROVE  RestInv'
<1>1. \A k \in found : fingerprint(k[2])' = fingerprint(k[2])
  BY DEF files, fingerprint, is_file
<1>. QED
  BY <1>1 DEF RestInv, RestedIsSettled, Vouches

LEMMA SkipRest ==
  ASSUME IInv, RestInv, NEW k \in Keys, Skip(k) PROVE RestInv'
<1> USE DEF Skip, Visit, index
<1>1. TypeOK /\ todo \subseteq found /\ todo' = todo \ {k} /\ found \subseteq Keys
  BY DEF IInv, WorkInv, TypeOK
<1>2. ASSUME NEW j \in found, changed_before(fingerprint(j[2]), start), Through(j)'
      PROVE  Vouches(Leaves(j)', j)
  <2>1. CASE j = k
    <3>1. stats[k[2]] = fingerprint(k[2])
      BY <1>1, <1>2, <2>1 DEF RestInv
    <3>2. known[k] \in Known /\ fingerprint(k[2]) \in Fingerprint
      BY <1>1, KeyParts, FingerprintType DEF TypeOK
    <3>3. ~must_read(known[k], fingerprint(k[2]), BuildTime)
      BY <3>1 DEF MustRead
    <3>4. updates'[k] = adopted(known[k], fingerprint(k[2]), BuildTime) /\ known' = known
      BY <1>1, <3>1 DEF TypeOK
    <3>5. CASE known[k].kind = "built"
      <4>1. changed_before(fingerprint(k[2]), BuildTime)
        BY <3>3, <3>5 DEF must_read
      <4>2. Leaves(k)' = [kind |-> "read", fp |-> fingerprint(k[2]), settled |-> TRUE]
        BY <3>4, <3>5, <4>1 DEF adopted, after_read, Read, Leaves
      <4>. QED
        BY <2>1, <4>1, <4>2 DEF Vouches, must_read, changed_before
    <3>6. CASE known[k].kind # "built"
      <4>1. Leaves(k)' = known[k]
        BY <3>4, <3>6, KnownTypes DEF adopted, Leaves
      <4>. QED
        BY <2>1, <3>3, <4>1 DEF Vouches
    <3>. QED
      BY <3>5, <3>6
  <2>2. CASE j # k
    <3>1. Through(j) /\ Leaves(j)' = Leaves(j)
      BY <1>1, <1>2, <2>2 DEF Through, Leaves, TypeOK
    <3>. QED
      BY <1>2, <3>1 DEF RestInv
  <2>. QED
    BY <2>1, <2>2
<1>. QED
  BY <1>2, KeepsRest

LEMMA StampRest ==
  ASSUME IInv, RestInv, NEW k \in Keys, Stamp(k) PROVE RestInv'
<1> USE DEF Stamp, index
<1>1. TypeOK /\ found \subseteq Keys
  BY DEF IInv, TypeOK
<1>2. ASSUME NEW j \in found, changed_before(fingerprint(j[2]), start), Through(j)'
      PROVE  Vouches(Leaves(j)', j)
  <2>1. CASE j = k
    <3>1. updates'[k] = [kind |-> "read", fp |-> fingerprint(k[2]), settled |-> TRUE]
      BY <1>1, <1>2, <2>1 DEF TypeOK, after_read, Read
    <3>. QED
      BY <1>2, <2>1, <3>1 DEF Leaves, Vouches, must_read, changed_before
  <2>2. CASE j # k
    <3>1. Through(j) /\ Leaves(j)' = Leaves(j)
      BY <1>1, <1>2, <2>2 DEF Through, Leaves, TypeOK
    <3>. QED
      BY <1>2, <3>1 DEF RestInv
  <2>. QED
    BY <2>1, <2>2
<1>. QED
  BY <1>2, KeepsRest

\* The other steps of a query bring it through with nothing.
LEMMA ReadRest ==
  ASSUME IInv, RestInv, NEW k \in Keys, TrackBatchFile(k) \/ ReadFile(k) PROVE RestInv'
<1> USE DEF TrackBatchFile, ReadFile, Visit, index
<1>1. UNCHANGED <<files, stats, start, found, known, updates, pc>> /\ pc = "read"
  OBVIOUS
<1>2. \A j \in found : Through(j)' => Through(j)
  BY DEF Through
<1>3. \A j \in found : Leaves(j)' = Leaves(j)
  BY <1>1 DEF Leaves
<1>. QED
  BY <1>1, <1>2, <1>3, KeepsRest DEF RestInv

LEMMA HookRest ==
  ASSUME IInv, RestInv,
         DropGone \/ HooksDone \/ (\E k \in Keys : HookReads(k)) \/ (\E t \in PerTable : HookFails(t))
  PROVE  RestInv'
<1> USE DEF DropGone, HooksDone, HookReads, HookFails, index
<1>1. UNCHANGED <<files, stats, start, found, known, updates>>
  OBVIOUS
<1>2. pc \in {"read", "hook"} /\ pc' \in {"hook", "stamp"}
  OBVIOUS
<1>3. \A j \in found : Through(j)' => Through(j)
  <2>1. CASE DropGone
    BY <2>1 DEF Through
  <2>2. CASE HooksDone
    BY <2>2 DEF Through
  <2>3. CASE UNCHANGED <<pc, marked>> /\ pc = "hook"
    BY <2>3 DEF Through
  <2>. QED
    BY <2>1, <2>2, <2>3
<1>4. \A j \in found : Leaves(j)' = Leaves(j)
  BY <1>1 DEF Leaves
<1>. QED
  BY <1>1, <1>2, <1>3, <1>4, KeepsRest DEF RestInv

\* What the query was to leave is what it leaves.
LEMMA CommitRest == ASSUME IInv, RestInv, Commit PROVE RestInv'
<1> USE DEF Commit, files
<1>1. found \subseteq Keys
  BY DEF IInv, TypeOK
<1>2. \A k \in found : Through(k) /\ known'[k] = Leaves(k) /\ fingerprint(k[2])' = fingerprint(k[2])
  BY <1>1 DEF Through, Leaves, Gone, fingerprint, is_file
<1>. QED
  BY <1>2 DEF RestInv, RestedIsSettled, Vouches

LEMMA NextRest == IInv /\ RestInv /\ [Next]_vars => RestInv'
<1> SUFFICES ASSUME IInv, RestInv, [Next]_vars PROVE RestInv'
  OBVIOUS
<1>1. CASE FileStep
  BY <1>1, TickRest, ChangeRest DEF FileStep
<1>2. CASE BuildStep
  BY <1>2, EarlyRest DEF BuildStep, BuildScan, BuildScanned, BuildRead, BuildDone
<1>3. CASE QueryStart
  BY <1>3, EarlyRest DEF QueryStart
<1>4. CASE QueryStep
  <2>1. ASSUME NEW f \in Files, ScanFile(f) PROVE RestInv'
    BY <2>1, EarlyRest DEF ScanFile
  <2>2. ASSUME NEW k \in Keys, ReadFails(k) PROVE RestInv'
    BY <2>2, EarlyRest DEF ReadFails, Rollback
  <2>3. CASE CommitRefused \/ Answer
    BY <2>3, EarlyRest DEF CommitRefused, Rollback, Answer
  <2>. QED
    BY <1>4, <2>1, <2>2, <2>3, ScanDoneRest, StatFileRest, SkipRest, StampRest, ReadRest,
       HookRest, CommitRest
       DEF QueryStep
<1>5. CASE UNCHANGED vars
  BY <1>5 DEF RestInv, RestedIsSettled, Through, Leaves, Vouches, fingerprint, is_file,
              vars, files, index, query
<1>. QED
  BY <1>1, <1>2, <1>3, <1>4, <1>5 DEF Next

\* A query leaves an entry that spares the next one the read, for every file
\* it found that had come to rest before it began.
THEOREM RestedIsSettledHolds == Spec => []RestedIsSettled
<1>1. Init => RestInv
  BY DEF Init, RestInv, RestedIsSettled
<1>2. RestInv => RestedIsSettled
  BY DEF RestInv
<1>. QED
  BY <1>1, <1>2, NextRest, Invariance, PTL DEF Spec

-----------------------------------------------------------------------------
(* A per-table hook's rows are kept whole or made anew whole.  WholeInv is *)
(* inductive once IInv is known: a hook that starts over has only its own  *)
(* reads to show, a file off its list was seen missing (WalkInv, BatchInv), *)
(* and one that fails puts back what the transaction saved.                *)

\* What was read of a file during the query stays something it held then.
LEMMA FileStepWhole ==
  ASSUME IInv, WholeInv, FileStep PROVE WholeInv'
<1>1. UNCHANGED <<rows, saved, todo, pc>>
  BY DEF FileStep, Tick, Write, Remove, index, query
<1>2. InQuery => \A f \in Files : since[f] \subseteq since'[f]
  BY DEF FileStep, Tick, Write, Remove, InQuery, IInv, TypeOK
<1>3. InQuery => \A t \in PerTable : (LeftAlone(t) => LeftAlone(t)') /\ (MadeAnew(t) => MadeAnew(t)')
  BY <1>1, <1>2, KeyParts DEF LeftAlone, MadeAnew, OfTable
<1>. QED
  BY <1>1, <1>3 DEF WholeInv, InQuery

\* The steps at whose end no query is at its hooks or past them.
LEMMA EarlyWhole ==
  ASSUME pc' \in {"build_scan", "build_read", "idle", "scan", "read"} PROVE WholeInv'
  BY DEF WholeInv

LEMMA DropGoneWhole == ASSUME IInv, DropGone PROVE WholeInv'
<1> USE DEF DropGone, files
<1>1. pc' = "hook" /\ saved' = saved /\ since' = since /\ todo = {} /\ pc = "read"
  OBVIOUS
<1>2. \A k \in Keys : rows'[k] = IF k[1] \in marked' \/ (k[1] \in PerFile /\ k \in Gone)
                                THEN Absent ELSE rows[k]
  OBVIOUS
<1>3. ASSUME NEW t \in PerTable, t \notin marked' PROVE LeftAlone(t)'
  <2>1. ASSUME NEW k \in Keys, k[1] = t PROVE k \notin todo' /\ rows'[k] = saved[k]
    <3>1. rows[k] = saved[k]
      BY <2>1 DEF IInv, WorkInv
    <3>. QED
      BY <1>2, <1>3, <2>1, <3>1, IndexAssumption
  <2>. QED
    BY <1>1, <2>1 DEF LeftAlone, OfTable
<1>4. ASSUME NEW t \in PerTable, t \in marked' PROVE MadeAnew(t)'
  <2>1. ASSUME NEW k \in Keys, k[1] = t, k \notin todo' PROVE rows'[k] \in since[k[2]]
    <3>1. rows'[k] = Absent
      BY <1>2, <1>4, <2>1
    <3>2. k \notin batch \/ k \notin found
      BY <1>4, <2>1 DEF Gone
    <3>3. k \notin found => Absent \in since[k[2]]
      BY <1>1, <2>1 DEF IInv, WalkInv, InQuery
    <3>4. k \in found /\ k \notin batch => Absent \in since[k[2]]
      BY <1>1, <2>1 DEF IInv, BatchInv, Batched
    <3>. QED
      BY <3>1, <3>2, <3>3, <3>4
  <2>. QED
    BY <1>1, <2>1 DEF MadeAnew, OfTable
<1>. QED
  BY <1>1, <1>3, <1>4 DEF WholeInv

LEMMA HookReadsWhole ==
  ASSUME IInv, WholeInv, NEW k \in Keys, HookReads(k) PROVE WholeInv'
<1> USE DEF HookReads, files
<1>1. /\ pc = "hook" /\ pc' = "hook" /\ saved' = saved /\ since' = since
      /\ todo' = todo \ {k} /\ k \in todo
  OBVIOUS
<1>2. rows'[k] \in since[k[2]] /\ \A j \in Keys \ {k} : rows'[j] = rows[j]
  BY KeyParts DEF IInv, TypeOK, SinceInv, InQuery
<1>3. ASSUME NEW t \in PerTable PROVE LeftAlone(t)' \/ MadeAnew(t)'
  <2>1. CASE LeftAlone(t)
    <3>1. k[1] # t
      BY <1>1, <2>1 DEF LeftAlone, OfTable
    <3>. QED
      BY <1>1, <1>2, <2>1, <3>1 DEF LeftAlone, OfTable
  <2>2. CASE MadeAnew(t)
    BY <1>1, <1>2, <2>2 DEF MadeAnew, OfTable
  <2>. QED
    BY <1>1, <2>1, <2>2 DEF WholeInv
<1>. QED
  BY <1>1, <1>3 DEF WholeInv

LEMMA HookFailsWhole ==
  ASSUME WholeInv, NEW t \in PerTable, HookFails(t) PROVE WholeInv'
<1> USE DEF HookFails, files
<1>1. /\ pc = "hook" /\ pc' = "hook" /\ saved' = saved /\ since' = since
      /\ todo' = todo \ OfTable(t)
      /\ \A k \in Keys : rows'[k] = IF k[1] = t THEN saved[k] ELSE rows[k]
  OBVIOUS
<1>2. LeftAlone(t)'
  BY <1>1 DEF LeftAlone, OfTable
<1>3. ASSUME NEW u \in PerTable, u # t PROVE LeftAlone(u)' \/ MadeAnew(u)'
  <2>1. \A k \in OfTable(u) : rows'[k] = rows[k] /\ (k \in todo' <=> k \in todo)
    BY <1>1, <1>3 DEF OfTable
  <2>. QED
    BY <1>1, <2>1 DEF WholeInv, LeftAlone, MadeAnew, OfTable
<1>. QED
  BY <1>1, <1>2, <1>3 DEF WholeInv

\* The steps after the hooks keep the rows.
LEMMA LateWhole ==
  ASSUME WholeInv, HooksDone \/ Commit \/ (\E k \in Keys : pc = "stamp" /\ Stamp(k))
  PROVE  WholeInv'
<1>1. /\ UNCHANGED <<rows, saved, since>> /\ todo' = todo /\ todo = {}
      /\ pc \in {"hook", "stamp"}
  BY DEF HooksDone, Commit, Stamp, files, index, WholeInv
<1>2. \A t \in PerTable : (LeftAlone(t) => LeftAlone(t)') /\ (MadeAnew(t) => MadeAnew(t)')
  BY <1>1 DEF LeftAlone, MadeAnew
<1>. QED
  BY <1>1, <1>2 DEF WholeInv

LEMMA NextWhole == IInv /\ WholeInv /\ [Next]_vars => WholeInv'
<1> SUFFICES ASSUME IInv, WholeInv, [Next]_vars PROVE WholeInv'
  OBVIOUS
<1>1. CASE FileStep
  BY <1>1, FileStepWhole
<1>2. CASE BuildStep
  BY <1>2, EarlyWhole DEF BuildStep, BuildScan, BuildScanned, BuildRead, BuildDone
<1>3. CASE QueryStart
  BY <1>3, EarlyWhole DEF QueryStart
<1>4. CASE QueryStep
  <2>1. ASSUME NEW f \in Files, ScanFile(f) \/ StatFile(f) PROVE WholeInv'
    BY <2>1, EarlyWhole DEF ScanFile, StatFile
  <2>2. ASSUME NEW k \in Keys, Skip(k) \/ TrackBatchFile(k) \/ ReadFile(k) \/ ReadFails(k)
        PROVE  WholeInv'
    BY <2>2, EarlyWhole DEF Skip, TrackBatchFile, ReadFile, Visit, ReadFails, Rollback
  <2>3. ASSUME NEW k \in Keys, Stamp(k) PROVE WholeInv'
    <3>1. CASE pc = "read"
      BY <2>3, <3>1, EarlyWhole DEF Stamp
    <3>2. CASE pc = "stamp"
      BY <2>3, <3>2, LateWhole
    <3>. QED
      BY <2>3, <3>1, <3>2 DEF Stamp
  <2>4. CASE ScanDone \/ CommitRefused \/ Answer
    BY <2>4, EarlyWhole DEF ScanDone, CommitRefused, Rollback, Answer
  <2>. QED
    BY <1>4, <2>1, <2>2, <2>3, <2>4, DropGoneWhole, HookReadsWhole, HookFailsWhole, LateWhole
       DEF QueryStep
<1>5. CASE UNCHANGED vars
  BY <1>5 DEF WholeInv, LeftAlone, MadeAnew, vars, files, index, query
<1>. QED
  BY <1>1, <1>2, <1>3, <1>4, <1>5 DEF Next

\* A query leaves a per-table hook's rows as they were or makes them all from
\* what the files held during it, whatever failed before.
THEOREM TableIsWholeHolds == Spec => []TableIsWhole
<1>1. Init => WholeInv
  BY DEF Init, WholeInv
<1>2. WholeInv => TableIsWhole
  BY DEF WholeInv, TableIsWhole, LeftAlone, MadeAnew, OfTable
<1>. QED
  BY <1>1, <1>2, NextWhole, Invariance, PTL DEF Spec

=============================================================================
