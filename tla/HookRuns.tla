------------------------------ MODULE HookRuns ------------------------------
(***************************************************************************)
(* A build's commands: the hooks of its per-table tables, each run while   *)
(* the scan finds its paths (lib.rs, start_per_table_hooks and             *)
(* stream_early; on_file.rs, run_streaming_on; command.rs).                *)
(*                                                                         *)
(* A hook waits for the one declared before it.  Its dispatcher packs the  *)
(* paths into runs and queues each as a job; workers, one per CPU at most, *)
(* take jobs, and each reads its child's standard output while a thread    *)
(* reads the standard error.  Rows go through a channel of bounded length  *)
(* to the hook's thread, and from there to the builder, which writes them. *)
(***************************************************************************)
EXTENDS Integers, FiniteSetsExt, SequencesExt

CONSTANTS
  Tables,        \* how many per-table tables there are, by declaration
  Runs,          \* the runs each table's paths make
  Limit,         \* cpus()
  RowsBound,     \* sync_channel's bound
  PipeBound,     \* lines a pipe holds
  Scripts        \* what a table's runs may do: their lines, noise and exit

Hooks == 1 .. Tables
Jobs == UNION {{<<h, i>> : i \in 1 .. Runs[h]} : h \in Hooks}
Workers == Hooks \X (1 .. Limit)

\* A line is a row, a row that breaks the table's shape, or no row.
Line == {"row", "odd", "bad"}

ASSUME RunsAssumption ==
  /\ Tables \in Nat /\ Runs \in [Hooks -> Nat]
  /\ Limit \in Nat \ {0} /\ RowsBound \in Nat \ {0} /\ PipeBound \in Nat \ {0}
  /\ \A h \in Hooks : Scripts[h] \subseteq [lines : Seq(Line), noise : Nat, ok : BOOLEAN]

VARIABLES
  script,        \* what each run does
  scanned,       \* the runs of each table that the paths found so far begin
  scanning,      \* whether the scan still feeds the hooks
  hook,          \* each hook's thread: waiting, peeking, running, ended
  sent,          \* the jobs each dispatcher has queued (Tally.sent)
  dispatching,   \* whether it may queue more
  jobs,          \* the queue
  aborted,       \* Pool.aborted
  failures,      \* Pool.failures
  begun,         \* (not in the code) the runs begun
  rows,          \* the bounded channel, of runs of rows
  made,          \* the channel to the builder (Production.chunks)
  outcome,       \* what each hook returned: 0 for success, else the run
  phase,         \* what each worker does next
  job,           \* the run it is at
  block,         \* the rows it is about to send
  bad,           \* run_invocation's bad_output
  out, err,      \* its child's pipes
  left, noise,   \* what its child has yet to write
  alive,         \* whether its child has not exited
  builder,       \* the table whose rows the builder writes
  shaped,        \* whether its rows have had the table's shape
  written,       \* the rows written for each table
  build          \* how the build stands: running, built, failed

scan    == <<script, scanned, scanning>>
pool    == <<sent, dispatching, jobs, aborted, failures, begun>>
child   == <<out, err, left, noise, alive>>
worker  == <<phase, job, block, bad>>
hooks   == <<hook, outcome>>
built   == <<builder, shaped, written, build>>
vars    == <<scan, hooks, pool, rows, made, worker, child, built>>

-----------------------------------------------------------------------------
(* The scan, and each hook's turn.                                         *)

ScanRun(h) ==
  /\ scanning /\ scanned[h] < Runs[h]
  /\ scanned' = [scanned EXCEPT ![h] = @ + 1]
  /\ UNCHANGED <<script, scanning, hooks, pool, rows, made, worker, child, built>>

\* The senders are dropped, and the paths end.
ScanEnds ==
  /\ scanning /\ scanned = Runs
  /\ scanning' = FALSE
  /\ UNCHANGED <<script, scanned, hooks, pool, rows, made, worker, child, built>>

\* Mutant of TakeTurn: `after` is not waited for.
TakeTurn_atonce(h) ==
  /\ hook[h] = "waiting"
  /\ hook' = [hook EXCEPT ![h] = "peeking"]
  /\ UNCHANGED <<outcome, scan, pool, rows, made, worker, child, built>>

TakeTurn(h) ==
  /\ hook[h] = "waiting"
  /\ h > 1 => hook[h - 1] = "ended"
  /\ hook' = [hook EXCEPT ![h] = "peeking"]
  /\ UNCHANGED <<outcome, scan, pool, rows, made, worker, child, built>>

\* No path, no command.
Peek(h) ==
  /\ hook[h] = "peeking"
  /\ IF scanned[h] > 0
     THEN /\ hook' = [hook EXCEPT ![h] = "running"]
          /\ dispatching' = [dispatching EXCEPT ![h] = TRUE]
     ELSE /\ ~scanning
          /\ hook' = [hook EXCEPT ![h] = "ended"]
          /\ UNCHANGED dispatching
  /\ UNCHANGED <<outcome, scan, begun, sent, jobs, aborted, failures, rows, made, worker, child, built>>

-----------------------------------------------------------------------------
(* The dispatcher of a hook.                                               *)

\* A run is full when a path of the next comes, or no more do.  It is queued,
\* and gets a worker while a CPU has none.
Dispatch(h) ==
  /\ dispatching[h] /\ sent[h] < scanned[h]
  /\ sent[h] + 1 < scanned[h] \/ ~scanning
  /\ jobs' = [jobs EXCEPT ![h] = Append(@, sent[h] + 1)]
  /\ sent' = [sent EXCEPT ![h] = @ + 1]
  /\ phase' = IF sent[h] < Limit THEN [phase EXCEPT ![<<h, sent[h] + 1>>] = "take"] ELSE phase
  /\ UNCHANGED <<scan, hooks, begun, dispatching, aborted, failures, rows, made, job, block, bad, child, built>>

\* After the last run, or at a path once a run has failed.
DispatchEnds(h) ==
  /\ dispatching[h]
  /\ \/ sent[h] = Runs[h] /\ ~scanning
     \/ aborted[h] /\ sent[h] < scanned[h]
  /\ dispatching' = [dispatching EXCEPT ![h] = FALSE]
  /\ UNCHANGED <<scan, hooks, begun, sent, jobs, aborted, failures, rows, made, worker, child, built>>

-----------------------------------------------------------------------------
(* A worker, and its child.                                                *)

\* The next job; recv fails once the dispatcher is gone and none is left.
Take(w) ==
  LET h == w[1] IN
  /\ phase[w] = "take"
  /\ IF jobs[h] # <<>>
     THEN /\ job' = [job EXCEPT ![w] = Head(jobs[h])]
          /\ jobs' = [jobs EXCEPT ![h] = Tail(@)]
          /\ phase' = [phase EXCEPT ![w] = "check"]
     ELSE /\ ~dispatching[h]
          /\ phase' = [phase EXCEPT ![w] = "ended"]
          /\ UNCHANGED <<job, jobs>>
  /\ UNCHANGED <<scan, hooks, begun, sent, dispatching, aborted, failures, rows, made, block, bad, child, built>>

\* Once a run has failed, no other begins.
Spawn(w) ==
  /\ phase[w] = "check"
  /\ IF aborted[w[1]]
     THEN /\ phase' = [phase EXCEPT ![w] = "ended"]
          /\ UNCHANGED <<bad, left, noise, alive, begun>>
     ELSE /\ phase' = [phase EXCEPT ![w] = "drain"]
          /\ bad' = [bad EXCEPT ![w] = FALSE]
          /\ left' = [left EXCEPT ![w] = script[<<w[1], job[w]>>].lines]
          /\ noise' = [noise EXCEPT ![w] = script[<<w[1], job[w]>>].noise]
          /\ alive' = [alive EXCEPT ![w] = TRUE]
          /\ begun' = [begun EXCEPT ![w[1]] = @ \cup {job[w]}]
  /\ UNCHANGED <<scan, hooks, sent, dispatching, jobs, aborted, failures, rows, made, job, block, out, err, built>>

ChildWrites(w) ==
  /\ alive[w]
  /\ \/ /\ left[w] # <<>> /\ Len(out[w]) < PipeBound
        /\ out' = [out EXCEPT ![w] = Append(@, Head(left[w]))]
        /\ left' = [left EXCEPT ![w] = Tail(@)]
        /\ UNCHANGED <<err, noise>>
     \/ /\ noise[w] > 0 /\ err[w] < PipeBound
        /\ err' = [err EXCEPT ![w] = @ + 1]
        /\ noise' = [noise EXCEPT ![w] = @ - 1]
        /\ UNCHANGED <<out, left>>
  /\ UNCHANGED <<scan, hooks, pool, rows, made, worker, alive, built>>

ChildExits(w) ==
  /\ alive[w] /\ left[w] = <<>> /\ noise[w] = 0
  /\ alive' = [alive EXCEPT ![w] = FALSE]
  /\ UNCHANGED <<scan, hooks, pool, rows, made, worker, out, err, left, noise, built>>

\* Mutant of ReadErr: standard error is read once standard output has closed.
ReadErr_last(w) ==
  /\ phase[w] = "reap" /\ ~alive[w] /\ err[w] > 0
  /\ err' = [err EXCEPT ![w] = 0]
  /\ UNCHANGED <<scan, hooks, pool, rows, made, worker, out, left, noise, alive, built>>

\* The thread that reads standard error to its end.
ReadErr(w) ==
  /\ err[w] > 0
  /\ err' = [err EXCEPT ![w] = 0]
  /\ UNCHANGED <<scan, hooks, pool, rows, made, worker, out, left, noise, alive, built>>

\* A block of lines: its rows, unless a line in it or before it was none.
Drain(w) ==
  /\ phase[w] = "drain" /\ out[w] # <<>>
  /\ out' = [out EXCEPT ![w] = <<>>]
  /\ IF bad[w] \/ "bad" \in ToSet(out[w])
     THEN /\ bad' = [bad EXCEPT ![w] = TRUE]
          /\ UNCHANGED <<phase, block>>
     ELSE /\ block' = [block EXCEPT ![w] = out[w]]
          /\ phase' = [phase EXCEPT ![w] = "send"]
          /\ UNCHANGED bad
  /\ UNCHANGED <<scan, hooks, pool, rows, made, job, err, left, noise, alive, built>>

Send(w) ==
  LET h == w[1] IN
  /\ phase[w] = "send" /\ Len(rows[h]) < RowsBound
  /\ rows' = [rows EXCEPT ![h] = Append(@, [run |-> job[w], lines |-> block[w]])]
  /\ block' = [block EXCEPT ![w] = <<>>]
  /\ phase' = [phase EXCEPT ![w] = "drain"]
  /\ UNCHANGED <<scan, hooks, pool, made, job, bad, child, built>>

\* Standard output is closed when the child exits.
Eof(w) ==
  /\ phase[w] = "drain" /\ ~alive[w] /\ out[w] = <<>>
  /\ phase' = [phase EXCEPT ![w] = "reap"]
  /\ UNCHANGED <<scan, hooks, pool, rows, made, job, block, bad, child, built>>

\* Mutant of Reap: bad output is no failure.
Reap_lenient(w) ==
  /\ phase[w] = "reap" /\ ~alive[w] /\ err[w] = 0
  /\ phase' = [phase EXCEPT ![w] = IF script[<<w[1], job[w]>>].ok THEN "take" ELSE "fail"]
  /\ aborted' = [aborted EXCEPT ![w[1]] = @ \/ ~script[<<w[1], job[w]>>].ok]
  /\ UNCHANGED <<scan, hooks, begun, sent, dispatching, jobs, failures, rows, made, job, block, bad, child, built>>

\* Bad output fails a run, and so does its exit status.
Reap(w) ==
  LET fails == bad[w] \/ ~script[<<w[1], job[w]>>].ok IN
  /\ phase[w] = "reap" /\ ~alive[w] /\ err[w] = 0
  /\ phase' = [phase EXCEPT ![w] = IF fails THEN "fail" ELSE "take"]
  /\ aborted' = [aborted EXCEPT ![w[1]] = @ \/ fails]
  /\ UNCHANGED <<scan, hooks, begun, sent, dispatching, jobs, failures, rows, made, job, block, bad, child, built>>

Fail(w) ==
  /\ phase[w] = "fail"
  /\ failures' = [failures EXCEPT ![w[1]] = @ \cup {job[w]}]
  /\ phase' = [phase EXCEPT ![w] = "take"]
  /\ UNCHANGED <<scan, hooks, begun, sent, dispatching, jobs, aborted, rows, made, job, block, bad, child, built>>

-----------------------------------------------------------------------------
(* The hook's thread, and the builder.                                     *)

Sink(h) ==
  /\ rows[h] # <<>>
  /\ made' = [made EXCEPT ![h] = Append(@, Head(rows[h]))]
  /\ rows' = [rows EXCEPT ![h] = Tail(@)]
  /\ UNCHANGED <<scan, hooks, pool, worker, child, built>>

\* Mutant of Finish: the last failure is what is reported.
Finish_last(h) ==
  /\ hook[h] = "running" /\ ~dispatching[h] /\ rows[h] = <<>>
  /\ \A n \in 1 .. Limit : phase[<<h, n>>] \in {"absent", "ended"}
  /\ outcome' = [outcome EXCEPT ![h] = IF failures[h] = {} THEN 0 ELSE Max(failures[h])]
  /\ hook' = [hook EXCEPT ![h] = "ended"]
  /\ UNCHANGED <<scan, pool, rows, made, worker, child, built>>

\* Every sender is gone: the earliest run that failed is what is reported.
Finish(h) ==
  /\ hook[h] = "running" /\ ~dispatching[h] /\ rows[h] = <<>>
  /\ \A n \in 1 .. Limit : phase[<<h, n>>] \in {"absent", "ended"}
  /\ outcome' = [outcome EXCEPT ![h] = IF failures[h] = {} THEN 0 ELSE Min(failures[h])]
  /\ hook' = [hook EXCEPT ![h] = "ended"]
  /\ UNCHANGED <<scan, pool, rows, made, worker, child, built>>

\* stream_early begins when the scan is over.  A row out of shape is the last
\* it takes of a hook's.
WriteRows ==
  LET h == builder IN
  /\ build = "running" /\ ~scanning /\ h \in Hooks
  /\ shaped /\ made[h] # <<>>
  /\ LET chunk == Head(made[h]) IN
     IF "odd" \in ToSet(chunk.lines)
     THEN shaped' = FALSE /\ UNCHANGED written
     ELSE written' = [written EXCEPT ![h] = Append(@, chunk)] /\ UNCHANGED shaped
  /\ made' = [made EXCEPT ![h] = Tail(@)]
  /\ UNCHANGED <<scan, hooks, pool, rows, worker, child, builder, build>>

\* It waits for the hook in any case.  On failure the transaction is undone;
\* the hooks yet to run are not stopped.
NextTable ==
  LET h == builder IN
  /\ build = "running" /\ ~scanning /\ h \in Hooks
  /\ hook[h] = "ended" /\ (shaped => made[h] = <<>>)
  /\ IF outcome[h] = 0 /\ shaped
     THEN builder' = h + 1 /\ UNCHANGED <<build, written>>
     ELSE /\ build' = "failed" /\ written' = [g \in Hooks |-> <<>>]
          /\ UNCHANGED builder
  /\ UNCHANGED <<scan, hooks, pool, rows, made, worker, child, shaped>>

BuildEnds ==
  /\ build = "running" /\ ~scanning /\ builder \notin Hooks
  /\ build' = "built"
  /\ UNCHANGED <<scan, hooks, pool, rows, made, worker, child, builder, shaped, written>>

-----------------------------------------------------------------------------

Each(S, x) == [s \in S |-> x]

Init ==
  /\ script \in {s \in [Jobs -> UNION {Scripts[h] : h \in Hooks}] :
                   \A j \in Jobs : s[j] \in Scripts[j[1]]}
  /\ scanned = Each(Hooks, 0) /\ scanning = TRUE
  /\ hook = Each(Hooks, "waiting") /\ outcome = Each(Hooks, 0)
  /\ sent = Each(Hooks, 0) /\ dispatching = Each(Hooks, FALSE)
  /\ jobs = Each(Hooks, <<>>)
  /\ aborted = Each(Hooks, FALSE)
  /\ failures = Each(Hooks, {}) /\ begun = Each(Hooks, {})
  /\ rows = Each(Hooks, <<>>) /\ made = Each(Hooks, <<>>)
  /\ phase = Each(Workers, "absent") /\ job = Each(Workers, 0)
  /\ block = Each(Workers, <<>>) /\ bad = Each(Workers, FALSE)
  /\ out = Each(Workers, <<>>) /\ err = Each(Workers, 0)
  /\ left = Each(Workers, <<>>) /\ noise = Each(Workers, 0)
  /\ alive = Each(Workers, FALSE)
  /\ builder = 1 /\ shaped = TRUE
  /\ written = Each(Hooks, <<>>) /\ build = "running"

ScanStep == ScanEnds \/ \E h \in Hooks : ScanRun(h)
HookStep(h) == TakeTurn(h) \/ Peek(h) \/ Sink(h) \/ Finish(h)
DispatchStep(h) == Dispatch(h) \/ DispatchEnds(h)
WorkerStep(w) == Take(w) \/ Spawn(w) \/ Drain(w) \/ Send(w) \/ Eof(w) \/ Reap(w) \/ Fail(w)
ChildStep(w) == ChildWrites(w) \/ ChildExits(w)
BuilderStep == WriteRows \/ NextTable \/ BuildEnds

Next ==
  \/ ScanStep \/ BuilderStep
  \/ \E h \in Hooks : HookStep(h) \/ DispatchStep(h)
  \/ \E w \in Workers : WorkerStep(w) \/ ChildStep(w) \/ ReadErr(w)

Spec == Init /\ [][Next]_vars

\* Some thread or command that can go on does.
FairSpec == Spec /\ WF_vars(Next)

-----------------------------------------------------------------------------
(* Properties.                                                             *)

Good(j) == script[j].ok /\ ToSet(script[j].lines) \subseteq {"row"}
Clean(j) == script[j].ok /\ "bad" \notin ToSet(script[j].lines)

\* What some chunks hold of a run, and what was written of it, in order.
Of(chunks, i) ==
  FlattenSeq([n \in DOMAIN chunks |-> IF chunks[n].run = i THEN chunks[n].lines ELSE <<>>])
Lines(h, i) == Of(written[h], i)

\* However runs and hooks overlap, a run's rows are written in its own order,
\* and a build that succeeds has every row of every run.
RowsAreWhole ==
  /\ \A j \in Jobs : IsPrefix(Lines(j[1], j[2]), script[j].lines)
  /\ build = "built" =>
       \A j \in Jobs : Good(j) /\ Lines(j[1], j[2]) = script[j].lines

\* A hook reports the earliest run that failed of those it began, and success
\* only if it began them all.  A row out of shape fails a build only where no
\* command did, and no table before.
EarliestFailure ==
  /\ \A h \in Hooks : hook[h] = "ended" =>
       LET failing == {i \in begun[h] : ~Clean(<<h, i>>)} IN
       IF failing = {} THEN outcome[h] = 0 /\ begun[h] = 1 .. Runs[h]
       ELSE outcome[h] = Min(failing)
  /\ build = "failed" =>
       /\ \A h \in 1 .. builder - 1 : \A i \in 1 .. Runs[h] : Good(<<h, i>>)
       /\ \E i \in 1 .. Runs[builder] : ~Good(<<builder, i>>)

\* Commands never exceed the CPUs, whatever the number of tables: hooks take
\* turns, in the order of their declaration.
OnePerCpu == Cardinality({w \in Workers : alive[w]}) <= Limit

\* Nothing is left waiting on anything: the build ends, and so does every hook,
\* those a failed build leaves to themselves included.
AllEnds == <>(build # "running" /\ \A h \in Hooks : hook[h] = "ended")

-----------------------------------------------------------------------------
(* The inductive invariant of HookRunsProofs.                              *)

Phases == {"absent", "take", "check", "drain", "send", "reap", "fail", "ended"}
Chunk == [run : Nat, lines : Seq(Line)]

ScanOK ==
  /\ script \in [Jobs -> [lines : Seq(Line), noise : Nat, ok : BOOLEAN]]
  /\ scanned \in [Hooks -> Nat] /\ scanning \in BOOLEAN
HookOK ==
  /\ hook \in [Hooks -> {"waiting", "peeking", "running", "ended"}]
  /\ outcome \in [Hooks -> Nat]
PoolOK ==
  /\ sent \in [Hooks -> Nat] /\ dispatching \in [Hooks -> BOOLEAN]
  /\ jobs \in [Hooks -> Seq(Nat)] /\ aborted \in [Hooks -> BOOLEAN]
  /\ failures \in [Hooks -> SUBSET Nat] /\ begun \in [Hooks -> SUBSET Nat]
RowsOK == rows \in [Hooks -> Seq(Chunk)] /\ made \in [Hooks -> Seq(Chunk)]
WorkerOK ==
  /\ phase \in [Workers -> Phases] /\ job \in [Workers -> Nat]
  /\ block \in [Workers -> Seq(Line)] /\ bad \in [Workers -> BOOLEAN]
ChildOK ==
  /\ out \in [Workers -> Seq(Line)] /\ err \in [Workers -> Nat]
  /\ left \in [Workers -> Seq(Line)] /\ noise \in [Workers -> Nat]
  /\ alive \in [Workers -> BOOLEAN]
BuiltOK ==
  /\ builder \in 1 .. Tables + 1 /\ shaped \in BOOLEAN
  /\ written \in [Hooks -> Seq(Chunk)] /\ build \in {"running", "built", "failed"}

TypeOK == ScanOK /\ HookOK /\ PoolOK /\ RowsOK /\ WorkerOK /\ ChildOK /\ BuiltOK

\* A worker has a run from taking it to being through with it.
Reading(w) == phase[w] \in {"drain", "send", "reap"}
Busy(w) == Reading(w) \/ phase[w] = "fail"
Holds(w) == Busy(w) \/ phase[w] = "check"
Job(w) == <<w[1], job[w]>>

\* How many of a hook's jobs were taken.
Taken(h) == sent[h] - Len(jobs[h])

ScanInv ==
  /\ \A h \in Hooks : sent[h] <= scanned[h] /\ scanned[h] <= Runs[h]
  /\ ~scanning => scanned = Runs

\* Hooks take turns, and only the one whose turn it is has workers.
TurnInv ==
  /\ \A g, h \in Hooks : g < h /\ hook[h] # "waiting" => hook[g] = "ended"
  /\ \A h \in Hooks : dispatching[h] => hook[h] = "running"
  /\ \A h \in Hooks : hook[h] \in {"waiting", "peeking"} => sent[h] = 0
  /\ \A h \in Hooks : hook[h] = "running" => scanned[h] > 0
  /\ \A w \in Workers : phase[w] = "absent" <=> w[2] > sent[w[1]]
  /\ \A w \in Workers : phase[w] \notin {"absent", "ended"} => hook[w[1]] = "running"

\* Jobs are queued and taken in order, each by one worker.
QueueInv ==
  /\ \A h \in Hooks : Len(jobs[h]) <= sent[h]
  /\ \A h \in Hooks : \A n \in DOMAIN jobs[h] : jobs[h][n] = Taken(h) + n
  /\ \A w \in Workers : Holds(w) => job[w] \in 1 .. Taken(w[1])
  /\ \A h \in Hooks : begun[h] \subseteq 1 .. Taken(h)
  /\ \A w \in Workers : Busy(w) => job[w] \in begun[w[1]]
  /\ \A w \in Workers : phase[w] = "check" => job[w] \notin begun[w[1]]
  /\ \A v, w \in Workers : Holds(v) /\ Holds(w) /\ Job(v) = Job(w) => v = w

\* A run not begun is queued or about to be checked, until one has failed.
BegunInv ==
  /\ \A h \in Hooks : aborted[h] =>
       failures[h] # {} \/ \E w \in Workers : w[1] = h /\ phase[w] = "fail"
  /\ \A h \in Hooks : ~aborted[h] => \A i \in 1 .. Taken(h) :
       i \in begun[h] \/ \E w \in Workers : phase[w] = "check" /\ Job(w) = <<h, i>>
  /\ \A h \in Hooks : hook[h] = "running" /\ ~dispatching[h] => aborted[h] \/ sent[h] = Runs[h]
  /\ \A w \in Workers : phase[w] = "ended" =>
       aborted[w[1]] \/ (jobs[w[1]] = <<>> /\ ~dispatching[w[1]])

\* What a worker has read, and its child has yet to write.
ReadInv ==
  /\ \A w \in Workers : alive[w] => phase[w] \in {"drain", "send"}
  /\ \A w \in Workers : Reading(w) /\ ~alive[w] => left[w] = <<>>
  /\ \A w \in Workers : phase[w] \notin {"drain", "send"} => out[w] = <<>>
  /\ \A w \in Workers : IF phase[w] = "send" THEN ~bad[w] ELSE block[w] = <<>>
  /\ \A w \in Workers : Reading(w) =>
       ("bad" \in ToSet(script[Job(w)].lines)
          <=> bad[w] \/ "bad" \in ToSet(out[w]) \cup ToSet(left[w]))
  /\ \A w \in Workers : phase[w] = "fail" => ~Clean(Job(w))

\* The runs that failed are filed, or about to be.
FiledInv ==
  /\ \A h \in Hooks : \A i \in failures[h] : i \in begun[h] /\ ~Clean(<<h, i>>)
  /\ \A h \in Hooks : \A i \in begun[h] : ~Clean(<<h, i>>) =>
       i \in failures[h] \/ \E w \in Workers : Busy(w) /\ Job(w) = <<h, i>>

\* A hook's outcome, once it has one.
Reports(h) ==
  LET failing == {i \in begun[h] : ~Clean(<<h, i>>)} IN
  IF failing = {} THEN outcome[h] = 0 /\ begun[h] = 1 .. Runs[h]
  ELSE outcome[h] = Min(failing)
OutcomeInv ==
  \A h \in Hooks : IF hook[h] = "ended" THEN Reports(h) /\ rows[h] = <<>> ELSE outcome[h] = 0

\* All that a hook's workers have sent.
Stream(h) == (written[h] \o made[h]) \o rows[h]

\* What they have sent of a run, what is on its way there, and what there is
\* at the end: its own rows in its own order.
Got(j) == Of(Stream(j[1]), j[2])
RunWhole(j) ==
  /\ j[2] \notin begun[j[1]] => Got(j) = <<>>
  /\ IsPrefix(Got(j), script[j].lines)
  /\ \A w \in Workers : Reading(w) /\ Job(w) = j /\ ~bad[w] =>
       ((Got(j) \o block[w]) \o out[w]) \o left[w] = script[j].lines
  /\ j[2] \in begun[j[1]] /\ Clean(j) /\ (\A w \in Workers : Reading(w) => Job(w) # j) =>
       Got(j) = script[j].lines

\* The builder has dropped none of a hook's rows.
Intact(h) == build # "failed" /\ (shaped \/ h # builder)

WholeInv ==
  /\ \A h \in Hooks : \A n \in DOMAIN Stream(h) : Stream(h)[n].run \in begun[h]
  /\ \A j \in Jobs : Intact(j[1]) => RunWhole(j)
  /\ \A j \in Jobs :
       IsPrefix(Lines(j[1], j[2]), script[j].lines) /\ "odd" \notin ToSet(Lines(j[1], j[2]))

\* The tables the builder is through with, and why it failed.
BuilderInv ==
  /\ \A h \in Hooks : h < builder => hook[h] = "ended" /\ made[h] = <<>>
  /\ \A j \in Jobs : j[1] < builder =>
       Good(j) /\ (build # "failed" => Lines(j[1], j[2]) = script[j].lines)
  /\ ~shaped => \E j \in Jobs : j[1] = builder /\ "odd" \in ToSet(script[j].lines)
  /\ build = "failed" => \E j \in Jobs : j[1] = builder /\ ~Good(j)
  /\ build = "built" => builder \notin Hooks

IInv ==
  /\ TypeOK /\ ScanInv /\ TurnInv /\ QueueInv /\ BegunInv /\ ReadInv
  /\ FiledInv /\ OutcomeInv /\ WholeInv /\ BuilderInv

=============================================================================
