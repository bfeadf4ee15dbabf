----------------------------- MODULE Freshness -----------------------------
(***************************************************************************)
(* Which files a query must read again (packages/rust/src/freshness.rs).   *)
(*                                                                         *)
(* A file's stat is abstracted to its change time: the inode, device, size *)
(* and modification time only ever help to tell two states of a file       *)
(* apart, so a model in which they never do is the worst case.             *)
(***************************************************************************)
EXTENDS Integers

CONSTANT SETTLE_NS   \* how old a change must be for a read to have seen it

ASSUME SettleAssumption == SETTLE_NS \in Nat

\* A file that could not be stat'd, and one whose platform reports no change
\* time, are treated alike by every function below.
NoStat == -1

Fingerprint == Nat \cup {NoStat}

NotKnown == [kind |-> "none", fp |-> NoStat, settled |-> FALSE]
Built    == [kind |-> "built", fp |-> NoStat, settled |-> FALSE]
Read(fp, settled) == [kind |-> "read", fp |-> fp, settled |-> settled]

Known == [kind : {"none", "built", "read"}, fp : Fingerprint, settled : BOOLEAN]

\* Mutant of changed_before: the margin's last tick counts as before it.
changed_before_inclusive(fp, start_ns) == fp # NoStat /\ fp <= start_ns - SETTLE_NS

changed_before(fp, start_ns) == fp # NoStat /\ fp < start_ns - SETTLE_NS

\* Mutant of must_read: what the build indexed is never in doubt.
must_read_trusts_build(known, now, built_ns) ==
  \/ known.kind = "none"
  \/ now = NoStat
  \/ known.kind = "read" /\ (~known.settled \/ known.fp # now)

must_read(known, now, built_ns) ==
  \/ known.kind = "none"
  \/ now = NoStat
  \/ known.kind = "built" /\ ~changed_before(now, built_ns)
  \/ known.kind = "read" /\ (~known.settled \/ known.fp # now)

\* Mutant of after_read: no read is ever final.
after_read_unsettled(fp, start_ns) == Read(fp, FALSE)

after_read(fp, start_ns) == Read(fp, changed_before(fp, start_ns))

\* What the index records for a file it need not read.  NotKnown: the entry
\* it has stands.
adopted(known, now, built_ns) ==
  IF known.kind = "built" THEN after_read(now, built_ns) ELSE NotKnown

=============================================================================
