----------------------------- MODULE WatchTree -----------------------------
(***************************************************************************)
(* The watcher, where each directory has a watch of its own (watcher.rs),  *)
(* and the index that reads what it reports (lib.rs, index_subtree).       *)
(*                                                                         *)
(* The kernel reports what happens in a watched directory, and nothing of  *)
(* what happens below it.  The forwarder passes each report on; for a      *)
(* directory that was created it first watches the tree below, walking and *)
(* watching until a walk finds nothing new.  The tree changes meanwhile.   *)
(* A scope's tree is modelled as far as its scan enters it, a directory's  *)
(* files as one.                                                           *)
(***************************************************************************)
EXTENDS Naturals, Sequences, SequencesExt

CONSTANTS
  Dirs, Root,
  Parent,        \* of each directory but the root
  QueueLimit,    \* reports the kernel holds before it drops them
  MaxChanges     \* bound: how often the tree changes

\* The directories on the way from d up to the root: the least set that
\* holds d and the parents of its own.
HoldsParents(s) == \A d \in s \ {Root} : Parent[d] \in s

Above ==
  [d \in Dirs |->
     {e \in Dirs : \A s \in SUBSET Dirs : d \in s /\ HoldsParents(s) => e \in s}]
Below(d) == {e \in Dirs : d \in Above[e]}

ASSUME TreeAssumption ==
  /\ Root \in Dirs
  /\ Parent \in [Dirs \ {Root} -> Dirs]
  /\ \A d \in Dirs : Root \in Above[d]
  /\ QueueLimit \in Nat \ {0} /\ MaxChanges \in Nat

VARIABLES
  exists,        \* the directories there are
  changes,       \* (not in the code) how often the tree has changed
  watched,       \* the directories with a watch
  raised,        \* reports the forwarder has yet to take
  sent,          \* events the index has yet to take
  job,           \* the event the forwarder watches directories for
  known,         \* watch_tree's `watched`
  walking,       \* directories its walk has yet to read
  found,         \* those the walk found
  pending,       \* those found new, and yet to be watched
  reading,       \* directories the index's walk has yet to read
  rows,          \* the directories the index has rows from
  owed,          \* (not in the code) those whose changes it has yet to read
  unheard        \* (not in the code) those whose return no event reported

tree  == <<exists, changes, unheard>>
walk  == <<known, walking, found, pending>>
index == <<reading, rows, owed>>
vars  == <<tree, watched, raised, sent, job, walk, index>>

Children(d) == {e \in exists \ {Root} : Parent[e] = d}

Created(d) == [kind |-> "created", dir |-> d]
Deleted(d) == [kind |-> "deleted", dir |-> d]
Wrote(d)   == [kind |-> "wrote", dir |-> d]
Rescan     == [kind |-> "rescan", dir |-> Root]
Start      == [kind |-> "start", dir |-> Root]
NoJob      == [kind |-> "none", dir |-> Root]

-----------------------------------------------------------------------------
(* The tree, and what the kernel reports of it.                            *)

Started == job # Start

\* A full queue takes in one more report, that some were dropped.
Report(d, event) ==
  raised' = IF d \notin watched \/ Len(raised) > QueueLimit THEN raised
            ELSE Append(raised, IF Len(raised) = QueueLimit THEN Rescan ELSE event)

Changed ==
  /\ changes < MaxChanges
  /\ changes' = changes + 1
  /\ UNCHANGED <<sent, job, walk, reading, rows>>

Write(d) ==
  /\ d \in exists
  /\ Changed
  /\ Report(d, Wrote(d))
  /\ owed' = IF Started THEN owed \cup {d} ELSE owed
  /\ UNCHANGED <<exists, watched, unheard>>

\* A directory is created, or renamed into place with those it holds.
Arrive(d, held) ==
  /\ d \notin exists /\ Parent[d] \in exists
  /\ Changed
  /\ exists' = exists \cup held
  /\ Report(Parent[d], Created(d))
  /\ owed' = IF Started THEN owed \cup held ELSE owed
  /\ unheard' = IF Parent[d] \in watched THEN unheard ELSE unheard \cup held
  /\ UNCHANGED watched

\* A directory is removed, or renamed away with those it holds.
Depart(d) ==
  /\ d \in exists
  /\ Changed
  /\ exists' = exists \ Below(d)
  /\ watched' = watched \ Below(d)
  /\ Report(Parent[d], Deleted(d))
  /\ owed' = owed \ Below(d)
  /\ unheard' = unheard \ Below(d)

TreeStep ==
  \/ \E d \in Dirs : Write(d)
  \/ \E d \in Dirs \ {Root} :
       \/ Depart(d)
       \/ \E s \in SUBSET (Below(d) \ {d}) :
            /\ \A e \in s : Parent[e] \in s \cup {d}
            /\ Arrive(d, s \cup {d})

-----------------------------------------------------------------------------
(* Watching a tree: scoped and forward, by watch_tree.                     *)

\* watch_tree from d.
WatchTree(d, already) ==
  /\ known' = already
  /\ walking' = {d} /\ found' = {} /\ pending' = {}

\* scan_dirs, one directory at a time.
WalkDir(d) ==
  /\ d \in walking
  /\ walking' = (walking \ {d}) \cup Children(d)
  /\ found' = found \cup {d}
  /\ UNCHANGED <<tree, watched, raised, sent, job, known, pending, index>>

\* A walk that found nothing new is the last; the event is then passed on.
WalkEnds ==
  /\ job # NoJob /\ walking = {} /\ pending = {}
  /\ IF found \subseteq known
     THEN /\ job' = NoJob
          /\ sent' = IF job = Start THEN sent ELSE Append(sent, job)
          /\ UNCHANGED <<known, pending>>
     ELSE /\ pending' = found \ known
          /\ known' = known \cup found
          /\ UNCHANGED <<job, sent>>
  /\ found' = {}
  /\ UNCHANGED <<tree, watched, raised, walking, index>>

\* Mutant of WatchDir: the first walk is the last.
WatchDir_once(d) ==
  /\ d \in pending
  /\ d # Root => Parent[d] \notin pending
  /\ watched' = IF d \in exists THEN watched \cup {d} ELSE watched
  /\ pending' = pending \ {d}
  /\ IF pending = {d} /\ job # Start
     THEN job' = NoJob /\ sent' = Append(sent, job) /\ UNCHANGED walking
     ELSE /\ walking' = IF pending = {d} THEN {job.dir} ELSE {}
          /\ UNCHANGED <<job, sent>>
  /\ UNCHANGED <<tree, raised, known, found, index>>

\* Parents come first.  A directory that is gone again is no error.
WatchDir(d) ==
  /\ d \in pending
  /\ d # Root => Parent[d] \notin pending
  /\ watched' = IF d \in exists THEN watched \cup {d} ELSE watched
  /\ pending' = pending \ {d}
  /\ walking' = IF pending = {d} THEN {job.dir} ELSE {}
  /\ UNCHANGED <<tree, raised, sent, job, known, found, index>>

\* Mutants of Forward: a created directory is passed on unwatched; dropped
\* reports are taken for none.
Forward_unwatched ==
  /\ job = NoJob /\ raised # <<>>
  /\ raised' = Tail(raised)
  /\ LET event == Head(raised) IN
     IF event = Rescan
     THEN job' = event /\ WatchTree(Root, {}) /\ UNCHANGED sent
     ELSE sent' = Append(sent, event) /\ UNCHANGED <<job, walk>>
  /\ UNCHANGED <<tree, watched, index>>

Forward_deaf ==
  /\ job = NoJob /\ raised # <<>>
  /\ raised' = Tail(raised)
  /\ LET event == Head(raised) IN
     IF event.kind = "created" /\ event.dir \in exists
     THEN job' = event /\ WatchTree(event.dir, {}) /\ UNCHANGED sent
     ELSE /\ sent' = IF event = Rescan THEN sent ELSE Append(sent, event)
          /\ UNCHANGED <<job, walk>>
  /\ UNCHANGED <<tree, watched, index>>

Forward ==
  /\ job = NoJob /\ raised # <<>>
  /\ raised' = Tail(raised)
  /\ LET event == Head(raised) IN
     IF event = Rescan \/ (event.kind = "created" /\ event.dir \in exists)
     THEN job' = event /\ WatchTree(event.dir, {}) /\ UNCHANGED sent
     ELSE sent' = Append(sent, event) /\ UNCHANGED <<job, walk>>
  /\ UNCHANGED <<tree, watched, index>>

-----------------------------------------------------------------------------
(* The index, an event at a time.                                          *)

Apply ==
  /\ reading = {} /\ sent # <<>>
  /\ sent' = Tail(sent)
  /\ LET event == Head(sent)
         d == event.dir
     IN CASE event.kind = "wrote" ->
               /\ rows' = IF d \in exists THEN rows \cup {d} ELSE rows
               /\ owed' = owed \ {d}
               /\ UNCHANGED reading
          [] event.kind = "created" ->
               /\ reading' = {d} \cap exists
               /\ UNCHANGED <<rows, owed>>
          \* Whether the directory is back is not asked: the rows go.  If its
          \* return was reported, that event is yet to come; if not, they stay
          \* away, and owed does not count them.
          [] event.kind = "deleted" ->
               /\ rows' = rows \ Below(d)
               /\ owed' = owed \cup ((exists \cap rows \cap Below(d)) \ unheard)
               /\ UNCHANGED reading
          [] event = Rescan ->
               /\ rows' = rows \cap exists
               /\ reading' = {Root}
               /\ UNCHANGED owed
  /\ UNCHANGED <<tree, watched, raised, job, walk>>

\* index_subtree, one directory at a time.  It removes no rows.
ReadDir(d) ==
  /\ d \in reading
  /\ reading' = (reading \ {d}) \cup Children(d)
  /\ rows' = IF d \in exists THEN rows \cup {d} ELSE rows
  /\ owed' = owed \ {d}
  /\ UNCHANGED <<tree, watched, raised, sent, job, walk>>

-----------------------------------------------------------------------------

Closed(s) == Root \in s /\ HoldsParents(s)

\* scoped watches the root, then the tree below it.
Init ==
  /\ exists \in {s \in SUBSET Dirs : Closed(s)}
  /\ changes = 0
  /\ watched = {Root}
  /\ raised = <<>> /\ sent = <<>>
  /\ job = Start
  /\ known = {Root} /\ walking = {Root} /\ found = {} /\ pending = {}
  /\ reading = {} /\ rows = {} /\ owed = {} /\ unheard = {}

WatcherStep ==
  \/ \E d \in Dirs : WalkDir(d) \/ WatchDir(d)
  \/ WalkEnds \/ Forward

IndexStep == Apply \/ \E d \in Dirs : ReadDir(d)

Quiet == raised = <<>> /\ sent = <<>> /\ job = NoJob /\ reading = {}

\* The tree may change no more.
Rest == Quiet /\ changes = MaxChanges /\ UNCHANGED vars

Next == TreeStep \/ WatcherStep \/ IndexStep \/ Rest

Spec == Init /\ [][Next]_vars

\* Both threads run on; the tree may do as it likes.
FairSpec == Spec /\ WF_vars(WatcherStep) /\ WF_vars(IndexStep)

-----------------------------------------------------------------------------
(* Properties.                                                             *)

\* An event that will have the tree around d walked.
Finds(event, d) ==
  \/ event.kind \in {"start", "rescan"}
  \/ event.kind = "created" /\ event.dir \in Above[d]

\* However directories come and go while others are walked and watched, one
\* that has no watch is below one that is about to be walked again
\* (watch_tree: "only a later walk finds it").
NoneUnwatched ==
  \A d \in exists \ watched : \E e \in ToSet(raised) \cup {job} : Finds(e, d)

\* No change is lost: each one since the watch began is read, or an event
\* that will have it read is on its way, or a walk has yet to come to it.
NothingUnseen ==
  \A d \in owed :
    \/ \E e \in ToSet(raised) \cup ToSet(sent) \cup {job} : Finds(e, d) \/ e = Wrote(d)
    \/ reading \cap Above[d] # {}

\* Once the tree rests, all of it is watched and all of it has been read.
TakenIn == <>[](exists = watched /\ owed = {})

-----------------------------------------------------------------------------
(* The inductive invariant.                                                *)

Events == {Rescan} \cup [kind : {"created", "deleted", "wrote"}, dir : Dirs]
Jobs   == {NoJob, Start, Rescan} \cup [kind : {"created"}, dir : Dirs]

TypeOK ==
  /\ exists \in SUBSET Dirs /\ watched \in SUBSET exists
  /\ changes \in 0 .. MaxChanges
  /\ raised \in Seq(Events) /\ sent \in Seq(Events) /\ job \in Jobs
  /\ known \in SUBSET Dirs /\ walking \in SUBSET Dirs
  /\ found \in SUBSET Dirs /\ pending \in SUBSET known
  /\ reading \in SUBSET Dirs /\ rows \in SUBSET Dirs
  /\ owed \in SUBSET exists /\ unheard \in SUBSET exists

\* No tree without its root, no directory without its parent.
TreeInv == Closed(exists) /\ Root \in watched

\* A queue that is over its limit ends with the report that says so.
QueueInv ==
  /\ Len(raised) <= QueueLimit + 1
  /\ Len(raised) > QueueLimit => raised[Len(raised)] = Rescan

\* watch_tree walks, or it watches what a walk found new.
PhaseInv ==
  /\ pending # {} => walking = {} /\ found = {}
  /\ job = NoJob => pending = {} /\ walking = {} /\ found = {}
  /\ job = Start => sent = <<>> /\ reading = {} /\ owed = {}

\* It comes to a directory by way of its parent, and watches parents first.
WayInv ==
  job # NoJob =>
    /\ \A d \in known \ {job.dir} :
         /\ d # Root /\ Parent[d] \in known
         /\ Parent[d] \in pending => d \in pending
    /\ \A d \in (found \cup walking) \ {job.dir} : d # Root /\ Parent[d] \in found

RaisedFinds(d) == \E i \in 1 .. Len(raised) : Finds(raised[i], d)

\* A directory without a watch is found by a report yet to be taken, or by the
\* event at hand, whose last walk is to come or has yet to come to it.
CoveredInv ==
  \A d \in exists \ watched :
    \/ RaisedFinds(d)
    \/ /\ Finds(job, d)
       /\ pending # {} \/ ~ (found \subseteq known) \/ walking \cap Above[d] # {}

\* One that watch_tree holds to be watched, and that is not, is found by a
\* later report: it went and came back.
KnownInv ==
  job # NoJob =>
    \A d \in (known \cap exists) \ (pending \cup watched) : RaisedFinds(d)

\* A deletion above a directory that came back is followed by its return, if
\* that was reported.
LateInv ==
  \A d \in exists \ unheard :
    /\ \A i \in 1 .. Len(raised) :
         raised[i].kind = "deleted" /\ raised[i].dir \in Above[d]
           => \E j \in i .. Len(raised) : Finds(raised[j], d)
    /\ \A i \in 1 .. Len(sent) :
         sent[i].kind = "deleted" /\ sent[i].dir \in Above[d]
           => \/ \E j \in i .. Len(sent) : Finds(sent[j], d)
              \/ Finds(job, d) \/ RaisedFinds(d)

\* NothingUnseen, by position.
OwedInv ==
  \A d \in owed :
    \/ \E i \in 1 .. Len(raised) : Finds(raised[i], d) \/ raised[i] = Wrote(d)
    \/ \E i \in 1 .. Len(sent) : Finds(sent[i], d) \/ sent[i] = Wrote(d)
    \/ Finds(job, d)
    \/ reading \cap Above[d] # {}

IInv ==
  /\ TypeOK /\ TreeInv /\ QueueInv /\ PhaseInv /\ WayInv
  /\ CoveredInv /\ KnownInv /\ LateInv /\ OwedInv

=============================================================================
