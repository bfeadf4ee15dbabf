--------------------------- MODULE FunctionWorker ---------------------------
(***************************************************************************)
(* A SQL function computed by a worker process                             *)
(* (packages/rust/src/functions.rs, and query_ordered_with in db.rs).      *)
(*                                                                         *)
(* The worker is spawned by the first call, answers one request at a time, *)
(* and is killed when it does not answer in time.  A function that batches *)
(* is called in two passes over each statement: the first collects its     *)
(* arguments, with an answer to one call standing in for all the others,   *)
(* and sends them in bulk; the second is served from the answers.          *)
(***************************************************************************)
EXTENDS Naturals, Sequences, SequencesExt

CONSTANTS
  Args,        \* arguments, which are also what the function may return
  Null,        \* SQL's NULL, which never stands in
  Statements,  \* sequences of calls: an argument each, or Nested
  Nested,      \* a call on the value of the call before
  Rejected,    \* the values a nested call makes the statement fail on
  batch,       \* the most calls of one request; 0 for a function that does not batch
  fits         \* the most calls of a request that fits into the pipe to the worker

Err     == "err"
Nothing == "nothing"
Done    == "done"
Fails   == "fails"

Value == Args \cup {Null}
Reply == Value \cup {Err}

ASSUME WorkerAssumption ==
  /\ Null \notin Args
  /\ Nested \notin Args
  /\ {Err, Nothing, Done, Fails} \cap Value = {}
  /\ \A s \in Statements : s \in Seq(Args \cup {Nested}) /\ (s # <<>> => s[1] \in Args)
  /\ Rejected \subseteq Args \cup {Null}
  /\ Null \in Rejected
  /\ batch \in Nat
  /\ fits \in Nat

VARIABLES
  answer,       \* what the worker returns for each argument, or Err
  worker,       \* the process, and the pipes to and from it
  collect,      \* the collect pass, if one is open
  prefetched,   \* the replies in hand for the statement's second run
  statement,    \* the statement being run
  pass,         \* which run of it this is
  values,       \* what its calls have returned in this run
  request,      \* the request being made of the worker
  caller,       \* who waits for the reply to it
  pc,
  trouble,      \* (not in the code) what went wrong with the worker in this statement
  asked         \* (not in the code) the arguments sent during this pass

process == <<answer, worker>>
gather  == <<collect, prefetched>>
run     == <<statement, pass, values>>
call    == <<request, caller>>
ghost   == <<trouble, asked>>
vars    == <<process, gather, run, call, pc, ghost>>

NoWorker  == [alive |-> FALSE, inbox |-> <<>>, lines |-> <<>>, spawned |-> FALSE]
NewWorker == [alive |-> TRUE, inbox |-> <<>>, lines |-> <<>>, spawned |-> TRUE]

NoRequest == [args |-> <<>>, batched |-> FALSE]
Garbage   == [replies |-> <<>>, batched |-> FALSE]

NoCollect == [open |-> FALSE, invoked |-> FALSE, placeholder |-> Null, pending |-> <<>>, queued |-> {}]
Collect   == [NoCollect EXCEPT !.open = TRUE]

NoReplies == [a \in Args |-> Nothing]

\* The arguments of the next call of a run in which the calls so far have
\* returned `results`.
Ask(s, results) ==
  LET n == Len(results) IN
  IF n = Len(s) THEN Done
  ELSE IF s[n + 1] # Nested THEN s[n + 1]
  ELSE IF results[n] \in Rejected THEN Fails ELSE results[n]

Asking == Ask(statement, values)

Ended == {"idle", "answered", "failed"}

-----------------------------------------------------------------------------
(* The worker.  Nothing makes it answer. *)

\* A request is read and answered.
Answer ==
  /\ worker.alive
  /\ worker.inbox # <<>>
  /\ LET asks == Head(worker.inbox) IN
     worker' = [worker EXCEPT
       !.inbox = Tail(@),
       !.lines = Append(@, [replies |-> [i \in DOMAIN asks.args |-> answer[asks.args[i]]],
                            batched |-> asks.batched])]
  /\ UNCHANGED <<answer, gather, run, call, pc, ghost>>

\* The worker answers what is no reply to the request, or refuses it whole.
Garble ==
  /\ worker.alive
  /\ worker.inbox # <<>>
  /\ worker' = [worker EXCEPT !.inbox = Tail(@), !.lines = Append(@, Garbage)]
  /\ UNCHANGED <<answer, gather, run, call, pc, ghost>>

\* What it wrote before it died can still be read.
Crash ==
  /\ worker.alive
  /\ worker' = [worker EXCEPT !.alive = FALSE, !.inbox = <<>>]
  /\ UNCHANGED <<answer, gather, run, call, pc, ghost>>

-----------------------------------------------------------------------------
(* A statement. *)

Run(s, in) ==
  /\ pc \in Ended
  /\ pc' = "run"
  /\ statement' = s
  /\ pass' = in
  /\ values' = <<>>
  /\ answer' \in [Args -> Reply]
  /\ trouble' = {}
  /\ asked' = <<>>
  /\ UNCHANGED <<worker, call>>

\* begin_collect, and the first run of a query.
Query(s) ==
  /\ batch # 0
  /\ Run(s, "collect")
  /\ collect' = Collect
  /\ prefetched' = NoReplies

\* A statement that is not a query (a trigger's, while rows are written), or
\* one over functions none of which batches.
Direct(s) ==
  /\ Run(s, "only")
  /\ UNCHANGED gather

\* Mutant of Finish: the replies gathered for one statement stay.
Finish_uncleared(outcome) ==
  /\ pc' = outcome
  /\ UNCHANGED gather

\* The statement is over (ClearOnDrop).
Finish(outcome) ==
  /\ pc' = outcome
  /\ IF pass = "only" THEN UNCHANGED gather
     ELSE collect' = NoCollect /\ prefetched' = NoReplies

\* Mutant of EndRun: the collect pass's failure is taken for the statement's.
EndRun_fails(outcome) ==
  IF pass = "collect" /\ outcome = "answered" THEN pc' = "collected" /\ UNCHANGED gather
  ELSE Finish(outcome)

\* A run has come to its end.  What the collect pass returned counts only if
\* it never called the function.
EndRun(outcome) ==
  IF pass = "collect" THEN pc' = "collected" /\ UNCHANGED gather
  ELSE Finish(outcome)

RunEnds ==
  /\ pc = "run"
  /\ Asking \in {Done, Fails}
  /\ EndRun(IF Asking = Done THEN "answered" ELSE "failed")
  /\ UNCHANGED <<process, run, call, ghost>>

Exchange(req, by) ==
  /\ pc' = IF worker.spawned THEN "send" ELSE "spawn"
  /\ request' = req
  /\ caller' = by
  /\ asked' = asked \o req.args

\* flush: what is pending leaves the queue before it is sent.
Flush(pending, by) ==
  /\ collect' = [collect EXCEPT !.invoked = TRUE, !.pending = <<>>,
                                !.queued = @ \cup ToSet(pending)]
  /\ Exchange([args |-> pending, batched |-> TRUE], by)
  /\ UNCHANGED prefetched

\* end_collect.
EndCollect ==
  /\ pc = "collected"
  /\ IF collect.pending # <<>>
     THEN Flush(collect.pending, "end") /\ UNCHANGED run
     ELSE IF collect.invoked
     THEN /\ collect' = NoCollect
          /\ pass' = "real"
          /\ values' = <<>>
          /\ pc' = "run"
          /\ asked' = <<>>
          /\ UNCHANGED <<statement, prefetched, call>>
     ELSE /\ Finish(IF Asking = Done THEN "answered" ELSE "failed")
          /\ UNCHANGED <<run, call, asked>>
  /\ UNCHANGED <<process, trouble>>

-----------------------------------------------------------------------------
(* A call (Worker::call). *)

Calling == pc = "run" /\ Asking \in Args

\* The call returns, or fails the run.
Return(reply) ==
  IF reply = Err
  THEN EndRun("failed") /\ UNCHANGED values
  ELSE values' = Append(values, reply) /\ pc' = "run" /\ UNCHANGED gather

Hit ==
  /\ Calling
  /\ prefetched[Asking] # Nothing
  /\ Return(prefetched[Asking])
  /\ UNCHANGED <<process, statement, pass, call, ghost>>

Standing == collect.open /\ collect.placeholder # Null

\* In the collect pass another reply stands in, and the arguments are queued.
StandIn ==
  /\ Calling
  /\ prefetched[Asking] = Nothing
  /\ Standing
  /\ LET new == Asking \notin collect.queued
         pending == IF new THEN Append(collect.pending, Asking) ELSE collect.pending
     IN  IF new /\ Len(pending) >= batch
         THEN Flush(pending, "queue") /\ UNCHANGED values
         ELSE /\ collect' = [collect EXCEPT !.invoked = TRUE, !.pending = pending,
                                            !.queued = @ \cup {Asking}]
              /\ values' = Append(values, collect.placeholder)
              /\ UNCHANGED <<prefetched, call, pc, asked>>
  /\ UNCHANGED <<process, statement, pass, trouble>>

Single ==
  /\ Calling
  /\ prefetched[Asking] = Nothing
  /\ ~Standing
  /\ collect' = [collect EXCEPT !.invoked = collect.open]
  /\ Exchange([args |-> <<Asking>>, batched |-> FALSE], "call")
  /\ UNCHANGED <<process, prefetched, run, trouble>>

-----------------------------------------------------------------------------
(* A round trip (Worker::exchange). *)

Spawn ==
  /\ pc = "spawn"
  /\ worker' = NewWorker
  /\ pc' = "send"
  /\ UNCHANGED <<answer, gather, run, call, ghost>>

Fitting == Len(request.args) <= fits

Send ==
  /\ pc = "send"
  /\ worker.alive
  /\ Fitting
  /\ worker' = [worker EXCEPT !.inbox = Append(@, request)]
  /\ pc' = "recv"
  /\ UNCHANGED <<answer, gather, run, call, ghost>>

\* A request that does not fit is written only as the worker reads it.
Take ==
  /\ pc = "send"
  /\ worker.alive
  /\ ~Fitting
  /\ worker' = [worker EXCEPT !.inbox = Append(@, request)]
  /\ pc' = "recv"
  /\ UNCHANGED <<answer, gather, run, call, ghost>>

\* Mutant of Keep: only a value that can stand in is filed.
Keep_values(a, reply) ==
  IF ~collect.open \/ reply \notin Args THEN UNCHANGED gather
  ELSE /\ prefetched' = [prefetched EXCEPT ![a] = reply]
       /\ collect' = [collect EXCEPT !.queued = @ \cup {a}, !.placeholder = reply]

\* Filed under its arguments in the collect pass, where a first value is found.
Keep(a, reply) ==
  IF ~collect.open THEN UNCHANGED gather
  ELSE /\ prefetched' = [prefetched EXCEPT ![a] = reply]
       /\ collect' = [collect EXCEPT !.queued = @ \cup {a},
                                     !.placeholder = IF reply \in Args THEN reply ELSE @]

\* A reply to a single call.
Replied(reply) ==
  LET a == request.args[1] IN
  IF reply # Err
  THEN values' = Append(values, reply) /\ pc' = "run" /\ Keep(a, reply)
  ELSE /\ UNCHANGED values
       /\ IF pass = "collect" THEN pc' = "collected" /\ Keep(a, Err) ELSE Finish("failed")

\* No reply came.  The first call's failure is kept; a batch's is not, and a
\* queued call fails the run, whose second run asks again.
NoReply ==
  /\ trouble' = trouble \cup {"lost"}
  /\ CASE caller = "call"  -> Replied(Err)
       [] caller = "queue" -> pc' = "collected" /\ UNCHANGED <<values, gather>>
       [] caller = "end"   -> Finish("failed") /\ UNCHANGED values
  /\ UNCHANGED <<answer, statement, pass, call, asked>>

SpawnFails ==
  /\ pc = "spawn"
  /\ NoReply
  /\ UNCHANGED worker

SendRefused ==
  /\ pc = "send"
  /\ ~worker.alive
  /\ worker' = NoWorker
  /\ NoReply

\* Mutant of Timeout: the worker lives on, and may answer late.
Timeout_lives ==
  /\ pc = "recv"
  /\ NoReply
  /\ UNCHANGED worker

\* Mutant of Timeout: the request is made again, of a new worker.
Timeout_retries ==
  /\ pc = "recv"
  /\ worker' = NoWorker
  /\ pc' = "spawn"
  /\ UNCHANGED <<answer, gather, run, call, ghost>>

\* The worker is killed, with whatever it was about to say.
Timeout ==
  /\ pc = "recv"
  /\ worker' = NoWorker
  /\ NoReply

Closed ==
  /\ pc = "recv"
  /\ ~worker.alive
  /\ worker.lines = <<>>
  /\ worker' = NoWorker
  /\ NoReply

\* parse_response, parse_batched_response: a line of another shape is an error
\* for every call of the request.
Readable(line) == line.batched = request.batched /\ Len(line.replies) = Len(request.args)

Parsed(line) ==
  IF Readable(line) THEN line.replies ELSE [i \in DOMAIN request.args |-> Err]

ReplyOf(a, replies) ==
  replies[CHOOSE i \in DOMAIN request.args : request.args[i] = a]

Recv ==
  /\ pc = "recv"
  /\ worker.lines # <<>>
  /\ worker' = [worker EXCEPT !.lines = Tail(@)]
  /\ trouble' = IF Readable(Head(worker.lines)) THEN trouble ELSE trouble \cup {"garbled"}
  /\ LET replies == Parsed(Head(worker.lines)) IN
     IF caller = "call" THEN Replied(replies[1])
     ELSE /\ prefetched' = [a \in Args |-> IF a \in ToSet(request.args)
                                           THEN ReplyOf(a, replies) ELSE prefetched[a]]
          /\ IF caller = "queue"
             THEN values' = Append(values, collect.placeholder) /\ pc' = "run"
             ELSE UNCHANGED values /\ pc' = "collected"
          /\ UNCHANGED collect
  /\ UNCHANGED <<answer, statement, pass, call, asked>>

-----------------------------------------------------------------------------
Init ==
  /\ answer \in [Args -> Reply]
  /\ worker = NoWorker
  /\ collect = NoCollect
  /\ prefetched = NoReplies
  /\ statement = <<>>
  /\ pass = "only"
  /\ values = <<>>
  /\ request = NoRequest
  /\ caller = "call"
  /\ pc = "idle"
  /\ trouble = {}
  /\ asked = <<>>

WorkerStep == Answer \/ Garble \/ Crash \/ Take

CallerStep ==
  \/ RunEnds \/ EndCollect
  \/ Hit \/ StandIn \/ Single
  \/ Spawn \/ SpawnFails \/ Send \/ SendRefused \/ Timeout \/ Closed \/ Recv

Next ==
  \/ \E s \in Statements : Query(s) \/ Direct(s)
  \/ WorkerStep
  \/ CallerStep

Spec == Init /\ [][Next]_vars

\* A statement that has begun runs on, and a timeout comes if nothing else does.
FairSpec == Spec /\ WF_vars(CallerStep)

-----------------------------------------------------------------------------
(* Properties. *)

Request == [args : Seq(Args), batched : BOOLEAN]
Line    == [replies : Seq(Reply), batched : BOOLEAN]

InFlight == pc \in {"spawn", "send", "recv"}

\* Types, and what each phase of a statement says about the rest: a request is
\* out only in its phases and to a worker that exists, replies are in hand only
\* within a query, and no more is pending than one request takes.
TypeOK ==
  /\ answer \in [Args -> Reply]
  /\ worker \in [alive : BOOLEAN, inbox : Seq(Request), lines : Seq(Line), spawned : BOOLEAN]
  /\ worker.alive => worker.spawned
  /\ worker.inbox # <<>> \/ worker.lines # <<>> => pc = "recv"
  /\ Len(worker.inbox) + Len(worker.lines) <= 1
  /\ collect \in [open : BOOLEAN, invoked : BOOLEAN, placeholder : Value,
                  pending : Seq(Args), queued : SUBSET Args]
  /\ collect.open = (pc \notin Ended /\ pass = "collect")
  /\ ToSet(collect.pending) \subseteq collect.queued
  /\ Len(collect.pending) < batch \/ collect.pending = <<>>
  /\ prefetched \in [Args -> Reply \cup {Nothing}]
  /\ pc \in Ended \/ pass = "only" => prefetched = NoReplies
  /\ statement \in Statements \cup {<<>>}
  /\ pass \in {"only", "collect", "real"}
  /\ values \in Seq(Value) /\ Len(values) <= Len(statement)
  /\ request \in Request
  /\ caller \in {"call", "queue", "end"}
  /\ pc \in Ended \cup {"run", "spawn", "send", "recv", "collected"}
  /\ pc \in {"send", "recv"} => worker.spawned
  /\ pc = "collected" => pass = "collect"
  /\ trouble \subseteq {"lost", "garbled"}
  /\ asked \in Seq(Args)

\* A request is of the call that waits for it, or of the collect pass.
RequestInv ==
  InFlight =>
    /\ request.args # <<>>
    /\ caller # "end" => Asking \in Args
    /\ IF caller = "call" THEN request = [args |-> <<Asking>>, batched |-> FALSE]
       ELSE /\ pass = "collect" /\ collect.invoked /\ collect.pending = <<>>
            /\ request.batched
            /\ ToSet(request.args) \subseteq collect.queued

\* The worker has that request, or what it answers to it: nothing older.
Answered == [replies |-> [i \in DOMAIN request.args |-> answer[request.args[i]]],
             batched |-> request.batched]

PipeInv ==
  /\ worker.inbox \in {<<>>, <<request>>}
  /\ worker.lines \in {<<>>, <<Garbage>>, <<Answered>>}

\* A reply in hand is the worker's own, unless something went wrong.
FiledInv ==
  \A a \in Args : prefetched[a] # Nothing =>
    prefetched[a] = answer[a] \/ (prefetched[a] = Err /\ trouble # {})

\* A collect pass that has called nothing has nothing.
UninvokedInv ==
  collect.open /\ ~collect.invoked =>
    /\ values = <<>> /\ prefetched = NoReplies /\ ~InFlight
    /\ pc = "collected" => Asking \in {Done, Fails}

\* Each value so far is what the worker says of the call's arguments.
True ==
  \A i \in DOMAIN values : values[i] = answer[Ask(statement, SubSeq(values, 1, i - 1))]

TrueInv == pass # "collect" => True

\* A statement that returns has computed with the worker's answers for its own
\* calls: no stand-in of the collect pass, no answer to an earlier request or
\* statement, and none of another call of the same batch is among its values
\* (Worker::call, flush, ClearOnDrop).
AnswersAreTrue == pc = "answered" => True /\ Asking = Done

\* A statement fails only for a cause of its own: a worker that did not answer
\* or answered nonsense, an error the worker returned for one of its calls, or
\* a rejected value that is true.  What a stand-in makes the collect pass fail
\* on is no cause (query_ordered_with runs again).
FailsForCause ==
  pc = "failed" /\ trouble = {} =>
    True /\ (Asking = Fails \/ (Asking \in Args /\ answer[Asking] = Err))

\* The collect pass sends no arguments twice, and sends all there are: the
\* second run asks only what depends on a value that was not known before
\* (Collect::queued, prefetched).
ServedOnce ==
  /\ pass = "collect" => IsInjective(asked)
  /\ pass = "real" /\ trouble = {} /\ Nested \notin ToSet(statement) => asked = <<>>

\* What the collect pass has sent, or is to send, it sends once.
CollectInv ==
  collect.open =>
    /\ IsInjective(asked \o collect.pending)
    /\ ToSet(asked) \subseteq
         collect.queued \cup (IF InFlight /\ caller = "call" THEN {Asking} ELSE {})
    /\ collect.placeholder = Null =>
         /\ collect.pending = <<>>
         /\ \A a \in ToSet(asked) :
              prefetched[a] # Nothing \/ (InFlight /\ caller = "call" /\ a = Asking)

\* What it was called with is in hand, or on its way.
GatheredInv ==
  collect.open =>
    /\ \A a \in Args : prefetched[a] # Nothing => a \in collect.queued
    /\ \A i \in DOMAIN values : statement[i] # Nested => statement[i] \in collect.queued
    /\ InFlight /\ caller = "queue" => Asking \in collect.queued
    /\ trouble = {} =>
         /\ \A a \in collect.queued :
              \/ prefetched[a] # Nothing
              \/ a \in ToSet(collect.pending)
              \/ InFlight /\ caller # "call" /\ a \in ToSet(request.args)
         /\ pc = "collected" \/ (InFlight /\ caller = "end") =>
              \/ Asking \in {Done, Fails}
              \/ Asking \in collect.queued /\ answer[Asking] = Err

\* The second run has all its replies in hand, up to one that fails it.
ServedInv ==
  pass = "real" /\ trouble = {} /\ Nested \notin ToSet(statement) =>
    /\ asked = <<>>
    /\ pc \notin Ended =>
         /\ ~InFlight
         /\ \E n \in 0 .. Len(statement) :
              /\ Len(values) <= n
              /\ \A i \in 1 .. n : prefetched[statement[i]] # Nothing
              /\ n < Len(statement) => prefetched[statement[n + 1]] = Err

\* A statement ends, whatever the worker does, unless a request is stuck for
\* good in a pipe it does not fit into.
QueryEnds ==
  <>[](pc = "send" /\ ~Fitting) \/ (pc \notin Ended ~> pc \in Ended)

=============================================================================
