------------------------ MODULE FunctionWorkerProofs -------------------------
(***************************************************************************)
(* FunctionWorker, proved for any arguments, statements and batch.         *)
(***************************************************************************)
EXTENDS FunctionWorker, SequenceTheorems, TLAPS

-----------------------------------------------------------------------------
(* Calls. *)

LEMMA StatementType ==
  ASSUME TypeOK
  PROVE  /\ statement \in Seq(Args \cup {Nested})
         /\ statement # <<>> => statement[1] \in Args
BY WorkerAssumption DEF TypeOK

\* A call's arguments are arguments.
LEMMA AskingType ==
  ASSUME TypeOK
  PROVE  /\ Asking \in Args \cup {Done, Fails}
         /\ Asking \in Args \cup {Fails} => Len(values) < Len(statement)
         /\ Asking = Done <=> Len(values) = Len(statement)
<1>1. /\ statement \in Seq(Args \cup {Nested}) /\ values \in Seq(Value)
      /\ Len(values) \in Nat /\ Len(statement) \in Nat /\ Len(values) <= Len(statement)
  BY StatementType DEF TypeOK
<1>2. CASE Len(values) = Len(statement)
  BY <1>1, <1>2, WorkerAssumption DEF Asking, Ask, Done, Fails, Value
<1>3. CASE Len(values) # Len(statement)
  <2>1. Len(values) + 1 \in 1 .. Len(statement)
    BY <1>1, <1>3
  <2>2. statement[Len(values) + 1] \in Args \cup {Nested}
    BY <1>1, <2>1
  <2>3. CASE statement[Len(values) + 1] # Nested
    BY <1>1, <1>3, <2>2, <2>3, WorkerAssumption DEF Asking, Ask, Value
  <2>4. CASE statement[Len(values) + 1] = Nested
    <3>1. Len(values) \in 1 .. Len(values)
      BY <1>1, <2>1, <2>4, StatementType, WorkerAssumption
    <3>2. values[Len(values)] \in Value
      BY <1>1, <3>1
    <3>. QED
      BY <1>1, <1>3, <2>4, <3>2, WorkerAssumption DEF Asking, Ask, Value, Done, Fails
  <2>. QED
    BY <2>3, <2>4
<1>. QED
  BY <1>2, <1>3

\* With the value of the call that is next, the values stay as many as the calls.
LEMMA AppendValue ==
  ASSUME TypeOK, Asking \in Args, NEW v \in Value
  PROVE  Append(values, v) \in Seq(Value) /\ Len(Append(values, v)) <= Len(statement)
<1>1. /\ statement \in Seq(Args \cup {Nested}) /\ values \in Seq(Value)
      /\ Len(values) \in Nat /\ Len(statement) \in Nat
  BY StatementType DEF TypeOK
<1>2. Len(values) < Len(statement)
  BY AskingType
<1>. QED
  BY <1>1, <1>2

LEMMA Empties ==
  /\ NoReplies \in [Args -> Reply \cup {Nothing}]
  /\ NoCollect \in [open : BOOLEAN, invoked : BOOLEAN, placeholder : Value,
                    pending : Seq(Args), queued : SUBSET Args]
  /\ ToSet(NoCollect.pending) \subseteq NoCollect.queued
  /\ ~NoCollect.open /\ NoCollect.pending = <<>>
  /\ Collect \in [open : BOOLEAN, invoked : BOOLEAN, placeholder : Value,
                  pending : Seq(Args), queued : SUBSET Args]
  /\ Collect.open /\ ~Collect.invoked /\ Collect.pending = <<>> /\ Collect.queued = {}
  /\ Collect.placeholder = Null
  /\ ToSet(<<>>) = {}
<1>1. NoReplies \in [Args -> Reply \cup {Nothing}]
  BY DEF NoReplies
<1>2. NoCollect \in [open : BOOLEAN, invoked : BOOLEAN, placeholder : Value,
                     pending : Seq(Args), queued : SUBSET Args]
  BY DEF NoCollect, Value
<1>3. Collect \in [open : BOOLEAN, invoked : BOOLEAN, placeholder : Value,
                   pending : Seq(Args), queued : SUBSET Args]
  BY <1>2 DEF Collect
<1>4. /\ NoCollect.open = FALSE /\ NoCollect.invoked = FALSE /\ NoCollect.placeholder = Null
      /\ NoCollect.pending = <<>> /\ NoCollect.queued = {}
  BY DEF NoCollect
<1>5. /\ Collect.open = TRUE /\ Collect.invoked = FALSE /\ Collect.placeholder = Null
      /\ Collect.pending = <<>> /\ Collect.queued = {}
  BY <1>2, <1>4 DEF Collect
<1>6. ToSet(<<>>) = {}
  BY DEF ToSet
<1>. QED
  BY <1>1, <1>2, <1>3, <1>4, <1>5, <1>6

\* TypeOK, in three parts.
WorkerOK ==
  /\ worker \in [alive : BOOLEAN, inbox : Seq(Request), lines : Seq(Line), spawned : BOOLEAN]
  /\ worker.alive => worker.spawned
  /\ worker.inbox # <<>> \/ worker.lines # <<>> => pc = "recv"
  /\ Len(worker.inbox) + Len(worker.lines) <= 1
  /\ pc \in {"send", "recv"} => worker.spawned

GatherOK ==
  /\ collect \in [open : BOOLEAN, invoked : BOOLEAN, placeholder : Value,
                  pending : Seq(Args), queued : SUBSET Args]
  /\ collect.open = (pc \notin Ended /\ pass = "collect")
  /\ ToSet(collect.pending) \subseteq collect.queued
  /\ Len(collect.pending) < batch \/ collect.pending = <<>>
  /\ prefetched \in [Args -> Reply \cup {Nothing}]
  /\ pc \in Ended \/ pass = "only" => prefetched = NoReplies

RunOK ==
  /\ answer \in [Args -> Reply]
  /\ statement \in Statements \cup {<<>>}
  /\ pass \in {"only", "collect", "real"}
  /\ values \in Seq(Value) /\ Len(values) <= Len(statement)
  /\ request \in Request
  /\ caller \in {"call", "queue", "end"}
  /\ pc \in Ended \cup {"run", "spawn", "send", "recv", "collected"}
  /\ pc = "collected" => pass = "collect"
  /\ trouble \subseteq {"lost", "garbled"}
  /\ asked \in Seq(Args)

LEMMA TypeParts == TypeOK <=> WorkerOK /\ GatherOK /\ RunOK
BY DEF TypeOK, WorkerOK, GatherOK, RunOK

LEMMA InitTypes == ASSUME Init PROVE TypeOK
<1>1. WorkerOK
  <2>1. worker \in [alive : BOOLEAN, inbox : Seq(Request), lines : Seq(Line), spawned : BOOLEAN]
    BY DEF Init, NoWorker
  <2>2. worker.inbox = <<>> /\ worker.lines = <<>> /\ ~worker.alive /\ pc = "idle"
    BY DEF Init, NoWorker
  <2>. QED
    BY <2>1, <2>2 DEF WorkerOK
<1>2. GatherOK
  BY Empties DEF Init, GatherOK, Ended
<1>3. RunOK
  <2>1. request \in Request
    BY DEF Init, NoRequest, Request
  <2>. QED
    BY <2>1 DEF Init, RunOK, Ended
<1>. QED
  BY <1>1, <1>2, <1>3, TypeParts

-----------------------------------------------------------------------------
(* The parts that steps share. *)

LEMMA WorkerKept ==
  ASSUME WorkerOK, worker' = worker, pc # "recv",
         pc' # "recv", pc' = "send" => worker.spawned
  PROVE  WorkerOK'
BY DEF WorkerOK

LEMMA WorkerMoves ==
  ASSUME WorkerOK, NEW in \in Seq(Request), NEW said \in Seq(Line),
         worker' = [worker EXCEPT !.inbox = in, !.lines = said],
         Len(in) + Len(said) <= 1, pc' = "recv", worker.spawned
  PROVE  WorkerOK' /\ worker'.inbox = in /\ worker'.lines = said
<1>1. /\ worker' \in [alive : BOOLEAN, inbox : Seq(Request), lines : Seq(Line), spawned : BOOLEAN]
      /\ worker'.alive = worker.alive /\ worker'.spawned = worker.spawned
      /\ worker'.inbox = in /\ worker'.lines = said
  BY DEF WorkerOK
<1>. QED
  BY <1>1 DEF WorkerOK

LEMMA WorkerGone == ASSUME worker' = NoWorker, pc' \notin {"send", "recv"} PROVE WorkerOK'
<1>1. NoWorker \in [alive : BOOLEAN, inbox : Seq(Request), lines : Seq(Line), spawned : BOOLEAN]
  BY DEF NoWorker
<1>2. NoWorker.inbox = <<>> /\ NoWorker.lines = <<>> /\ ~NoWorker.alive
  BY DEF NoWorker
<1>. QED
  BY <1>1, <1>2 DEF WorkerOK

LEMMA GatherKept ==
  ASSUME GatherOK, UNCHANGED gather, pass' = pass, pc \notin Ended, pc' \notin Ended
  PROVE  GatherOK'
BY DEF GatherOK, gather

\* A statement that ends leaves nothing gathered.
LEMMA FinishGathers ==
  ASSUME GatherOK, NEW outcome \in {"answered", "failed"}, Finish(outcome),
         pass' = pass, pc \notin Ended, pass \in {"only", "collect", "real"}
  PROVE  GatherOK' /\ pc' = outcome /\ pc' \in Ended
<1>1. pc' = outcome /\ pc' \in Ended
  BY DEF Finish, Ended
<1>2. CASE pass = "only"
  BY <1>1, <1>2 DEF GatherOK, Finish, gather
<1>3. CASE pass # "only"
  BY <1>1, <1>3, Empties DEF GatherOK, Finish
<1>. QED
  BY <1>1, <1>2, <1>3

LEMMA EndRunGathers ==
  ASSUME GatherOK, NEW outcome \in {"answered", "failed"}, EndRun(outcome),
         pass' = pass, pc \notin Ended, pass \in {"only", "collect", "real"}
  PROVE  /\ GatherOK'
         /\ pc' \in {"collected", "answered", "failed"}
         /\ pc' = "collected" => pass = "collect"
<1>1. CASE pass = "collect"
  BY <1>1, GatherKept DEF EndRun, Ended
<1>2. CASE pass # "collect"
  BY <1>2, FinishGathers DEF EndRun
<1>. QED
  BY <1>1, <1>2

\* A reply is filed where the collect pass is open.
LEMMA KeepGathers ==
  ASSUME GatherOK, NEW a \in Args, NEW reply \in Reply, Keep(a, reply),
         pass' = pass, pc \notin Ended, pc' \notin Ended
  PROVE  GatherOK'
<1>1. CASE ~collect.open
  BY <1>1, GatherKept DEF Keep
<1>2. CASE collect.open
  <2>1. /\ prefetched' = [prefetched EXCEPT ![a] = reply]
        /\ collect' = [collect EXCEPT !.queued = @ \cup {a},
                                     !.placeholder = IF reply \in Args THEN reply ELSE @]
    BY <1>2 DEF Keep
  <2>2. /\ collect' \in [open : BOOLEAN, invoked : BOOLEAN, placeholder : Value,
                         pending : Seq(Args), queued : SUBSET Args]
        /\ collect'.open = collect.open /\ collect'.pending = collect.pending
        /\ collect'.queued = collect.queued \cup {a}
    BY <2>1 DEF GatherOK, Value
  <2>3. prefetched' \in [Args -> Reply \cup {Nothing}]
    BY <2>1 DEF GatherOK
  <2>4. pass # "only"
    BY <1>2 DEF GatherOK
  <2>. QED
    BY <1>2, <2>2, <2>3, <2>4 DEF GatherOK
<1>. QED
  BY <1>1, <1>2

\* A batch that is sent leaves the queue.
LEMMA FlushGathers ==
  ASSUME GatherOK, NEW pending \in Seq(Args), NEW by, Flush(pending, by), collect.open,
         pass' = pass, pc \notin Ended
  PROVE  GatherOK' /\ ToSet(pending) \subseteq collect'.queued /\ collect'.pending = <<>>
                   /\ collect'.invoked
<1>1. /\ collect' = [collect EXCEPT !.invoked = TRUE, !.pending = <<>>,
                                  !.queued = @ \cup ToSet(pending)]
      /\ prefetched' = prefetched /\ pc' \notin Ended
  BY DEF Flush, Exchange, Ended
<1>2. ToSet(pending) \subseteq Args
  BY DEF ToSet
<1>3. /\ collect' \in [open : BOOLEAN, invoked : BOOLEAN, placeholder : Value,
                       pending : Seq(Args), queued : SUBSET Args]
      /\ collect'.open = collect.open /\ collect'.pending = <<>> /\ collect'.invoked = TRUE
      /\ collect'.queued = collect.queued \cup ToSet(pending)
  <2>1. collect \in [open : BOOLEAN, invoked : BOOLEAN, placeholder : Value,
                     pending : Seq(Args), queued : SUBSET Args]
    BY DEF GatherOK
  <2>2. <<>> \in Seq(Args) /\ collect.queued \cup ToSet(pending) \in SUBSET Args
    BY <1>2, <2>1
  <2> HIDE DEF ToSet
  <2>. QED
    BY <1>1, <2>1, <2>2
<1>4. ToSet(collect'.pending) = {}
  BY <1>3, Empties
<1>5. pass # "only" /\ prefetched' \in [Args -> Reply \cup {Nothing}]
  BY <1>1 DEF GatherOK
<1>6. collect'.open = (pc' \notin Ended /\ pass' = "collect")
  BY <1>1, <1>3 DEF GatherOK
<1>. QED
  BY <1>1, <1>3, <1>4, <1>5, <1>6 DEF GatherOK

LEMMA ExchangeRuns ==
  ASSUME RunOK, NEW req \in Request, NEW by \in {"call", "queue", "end"}, Exchange(req, by),
         UNCHANGED <<answer, run, trouble>>
  PROVE  RunOK' /\ pc' \in {"spawn", "send"} /\ (pc' = "send" => worker.spawned)
<1>1. asked' \in Seq(Args)
  BY DEF Exchange, RunOK, Request
<1>. QED
  BY <1>1 DEF RunOK, Exchange, Ended, run

\* What a run returns next, it may.
LEMMA RunAppends ==
  ASSUME TypeOK, Asking \in Args, NEW v \in Value, values' = Append(values, v),
         pc' = "run", UNCHANGED <<answer, statement, pass, call, asked>>,
         trouble' \subseteq {"lost", "garbled"}
  PROVE  RunOK'
<1>1. values' \in Seq(Value) /\ Len(values') <= Len(statement)
  BY AppendValue
<1>. QED
  BY <1>1, TypeParts DEF RunOK, call

LEMMA RunStops ==
  ASSUME RunOK, UNCHANGED <<answer, statement, pass, values, call, asked>>,
         trouble' \subseteq {"lost", "garbled"},
         pc' \in {"collected", "answered", "failed"}, pc' = "collected" => pass = "collect"
  PROVE  RunOK'
BY DEF RunOK, call, Ended

LEMMA ReturnTypes ==
  ASSUME TypeOK, Calling, NEW reply \in Reply, Return(reply),
         UNCHANGED <<process, statement, pass, call, ghost>>
  PROVE  TypeOK'
<1>0. pc = "run" /\ pc \notin Ended /\ Asking \in Args /\ pass \in {"only", "collect", "real"}
      /\ WorkerOK /\ GatherOK /\ RunOK
  BY TypeParts DEF Calling, Ended, TypeOK
<1>1. CASE reply = Err
  <2>1. EndRun("failed") /\ UNCHANGED values
    BY <1>1 DEF Return
  <2>2. GatherOK' /\ pc' \in {"collected", "answered", "failed"} /\ (pc' = "collected" => pass = "collect")
    BY <1>0, <2>1, EndRunGathers
  <2>3. RunOK'
    BY <1>0, <2>1, <2>2, RunStops DEF ghost, RunOK, process
  <2>4. WorkerOK'
    BY <1>0, <2>2, WorkerKept DEF process
  <2>. QED
    BY <2>2, <2>3, <2>4 DEF TypeOK, WorkerOK, GatherOK, RunOK
<1>2. CASE reply # Err
  <2>1. values' = Append(values, reply) /\ pc' = "run" /\ UNCHANGED gather /\ reply \in Value
    BY <1>2 DEF Return, Reply
  <2>2. GatherOK' /\ WorkerOK'
    BY <1>0, <2>1, GatherKept, WorkerKept DEF process, Ended
  <2>3. RunOK'
    BY <1>0, <2>1, RunAppends DEF ghost, RunOK, process
  <2>. QED
    BY <2>2, <2>3 DEF TypeOK, WorkerOK, GatherOK, RunOK
<1>. QED
  BY <1>1, <1>2

\* The reply to a single call, or none.
LEMMA RepliedTypes ==
  ASSUME TypeOK, RequestInv, InFlight, caller = "call", NEW reply \in Reply, Replied(reply),
         UNCHANGED <<answer, statement, pass, call, asked>>,
         trouble' \subseteq {"lost", "garbled"}
  PROVE  GatherOK' /\ RunOK' /\ pc' \notin {"spawn", "send", "recv"}
<1>0. /\ GatherOK /\ RunOK /\ pc \notin Ended /\ pass \in {"only", "collect", "real"}
      /\ Asking \in Args /\ request.args[1] = Asking
  BY TypeParts DEF TypeOK, InFlight, Ended, RequestInv
<1>1. CASE reply # Err
  <2>1. /\ values' = Append(values, reply) /\ pc' = "run" /\ Keep(Asking, reply)
        /\ reply \in Value
    BY <1>0, <1>1 DEF Replied, Reply
  <2>. QED
    BY <1>0, <2>1, KeepGathers, RunAppends DEF Ended
<1>2. CASE reply = Err
  <2>1. UNCHANGED values
    BY <1>2 DEF Replied
  <2>2. CASE pass = "collect"
    <3>1. pc' = "collected" /\ Keep(Asking, reply)
      BY <1>0, <1>2, <2>2 DEF Replied
    <3>. QED
      BY <1>0, <2>1, <2>2, <3>1, KeepGathers, RunStops DEF Ended
  <2>3. CASE pass # "collect"
    <3>1. Finish("failed")
      BY <1>2, <2>3 DEF Replied
    <3>. QED
      BY <1>0, <2>1, <3>1, FinishGathers, RunStops
  <2>. QED
    BY <2>2, <2>3
<1>. QED
  BY <1>1, <1>2

LEMMA NoReplyTypes ==
  ASSUME TypeOK, RequestInv, InFlight, NoReply
  PROVE  GatherOK' /\ RunOK' /\ pc' \notin {"spawn", "send", "recv"}
<1>0. /\ GatherOK /\ RunOK /\ pc \notin Ended /\ pass \in {"only", "collect", "real"}
      /\ UNCHANGED <<answer, statement, pass, call, asked>>
      /\ trouble' \subseteq {"lost", "garbled"} /\ Err \in Reply
      /\ caller \in {"call", "queue", "end"} /\ (caller # "call" => pass = "collect")
  BY TypeParts DEF TypeOK, InFlight, Ended, NoReply, Reply, RequestInv
<1>1. CASE caller = "call"
  BY <1>0, <1>1, RepliedTypes DEF NoReply
<1>2. CASE caller = "queue"
  <2>1. pc' = "collected" /\ UNCHANGED <<values, gather>>
    BY <1>2 DEF NoReply
  <2>. QED
    BY <1>0, <1>2, <2>1, GatherKept, RunStops DEF Ended
<1>3. CASE caller = "end"
  <2>1. Finish("failed") /\ UNCHANGED values
    BY <1>3 DEF NoReply
  <2>. QED
    BY <1>0, <2>1, FinishGathers, RunStops
<1>. QED
  BY <1>0, <1>1, <1>2, <1>3

-----------------------------------------------------------------------------
(* Types. *)

LEMMA StepTypes == ASSUME TypeOK, RequestInv, [Next]_vars PROVE TypeOK'
<1>0. WorkerOK /\ GatherOK /\ RunOK /\ pass \in {"only", "collect", "real"}
  BY TypeParts DEF TypeOK
<1> DEFINE Parts == WorkerOK' /\ GatherOK' /\ RunOK'
<1>1. ASSUME NEW s \in Statements, Query(s) PROVE Parts
  <2>1. /\ pc \in Ended /\ pc' = "run" /\ pass' = "collect" /\ worker' = worker
        /\ collect' = Collect /\ prefetched' = NoReplies
    BY <1>1 DEF Query, Run
  <2>2. WorkerOK'
    BY <1>0, <2>1, WorkerKept DEF Ended
  <2>3. GatherOK'
    BY <2>1, Empties DEF GatherOK, Ended
  <2>4. RunOK'
    BY <1>0, <1>1, <2>1 DEF Query, Run, RunOK, call
  <2>. QED
    BY <2>2, <2>3, <2>4
<1>2. ASSUME NEW s \in Statements, Direct(s) PROVE Parts
  <2>1. /\ pc \in Ended /\ pc' = "run" /\ pass' = "only" /\ worker' = worker /\ UNCHANGED gather
    BY <1>2 DEF Direct, Run
  <2>2. WorkerOK'
    BY <1>0, <2>1, WorkerKept DEF Ended
  <2>3. GatherOK'
    BY <1>0, <2>1 DEF GatherOK, gather, Ended
  <2>4. RunOK'
    BY <1>0, <1>2, <2>1 DEF Direct, Run, RunOK, call
  <2>. QED
    BY <2>2, <2>3, <2>4
<1>3. ASSUME Answer PROVE Parts
  <2> DEFINE asks == Head(worker.inbox)
             line == [replies |-> [i \in DOMAIN asks.args |-> answer[asks.args[i]]],
                      batched |-> asks.batched]
  <2>1. asks \in Request /\ Tail(worker.inbox) \in Seq(Request) /\ worker.inbox # <<>>
    BY <1>0, <1>3 DEF Answer, WorkerOK
  <2>2. line \in Line
    <3>1. asks.args \in Seq(Args) /\ asks.batched \in BOOLEAN
      BY <2>1 DEF Request
    <3>2. [i \in DOMAIN asks.args |-> answer[asks.args[i]]] \in Seq(Reply)
      <4>1. /\ DOMAIN asks.args = 1 .. Len(asks.args) /\ Len(asks.args) \in Nat
            /\ \A i \in 1 .. Len(asks.args) : asks.args[i] \in Args
        BY <3>1
      <4>2. answer \in [Args -> Reply]
        BY <1>0 DEF RunOK
      <4>. QED
        BY <4>1, <4>2
    <3>. QED
      BY <3>1, <3>2 DEF Line
  <2>3. worker' = [worker EXCEPT !.inbox = Tail(@), !.lines = Append(@, line)]
    BY <1>3 DEF Answer
  <2>4. WorkerOK'
    <3>1. /\ Len(Tail(worker.inbox)) + Len(Append(worker.lines, line)) <= 1
          /\ Append(worker.lines, line) \in Seq(Line)
      BY <1>0, <2>1, <2>2 DEF WorkerOK
    <3>2. pc' = "recv" /\ worker.spawned
      BY <1>0, <1>3, <2>1 DEF Answer, WorkerOK
    <3>. QED
      BY <1>0, <2>1, <2>3, <3>1, <3>2, WorkerMoves
  <2>. QED
    BY <1>0, <1>3, <2>4 DEF Answer, gather, run, call, ghost, GatherOK, RunOK
<1>4. ASSUME Garble PROVE Parts
  <2>1. Garbage \in Line /\ worker.inbox # <<>> /\ Tail(worker.inbox) \in Seq(Request)
    BY <1>0, <1>4 DEF Garble, Garbage, Line, WorkerOK
  <2>2. worker' = [worker EXCEPT !.inbox = Tail(@), !.lines = Append(@, Garbage)]
    BY <1>4 DEF Garble
  <2>3. WorkerOK'
    <3>1. /\ Len(Tail(worker.inbox)) + Len(Append(worker.lines, Garbage)) <= 1
          /\ Append(worker.lines, Garbage) \in Seq(Line)
      BY <1>0, <2>1 DEF WorkerOK
    <3>2. pc' = "recv" /\ worker.spawned
      BY <1>0, <1>4, <2>1 DEF Garble, WorkerOK
    <3>. QED
      BY <1>0, <2>1, <2>2, <3>1, <3>2, WorkerMoves
  <2>. QED
    BY <1>0, <1>4, <2>3 DEF Garble, gather, run, call, ghost, GatherOK, RunOK
<1>5. ASSUME Crash PROVE Parts
  <2>1. worker' = [worker EXCEPT !.alive = FALSE, !.inbox = <<>>]
    BY <1>5 DEF Crash
  <2>2. /\ worker' \in [alive : BOOLEAN, inbox : Seq(Request), lines : Seq(Line), spawned : BOOLEAN]
        /\ worker'.alive = FALSE /\ worker'.spawned = worker.spawned
        /\ worker'.inbox = <<>> /\ worker'.lines = worker.lines
    <3>1. <<>> \in Seq(Request) /\ FALSE \in BOOLEAN
      OBVIOUS
    <3>. QED
      BY <1>0, <2>1, <3>1 DEF WorkerOK
  <2>3. Len(worker.inbox) \in Nat /\ Len(worker.lines) \in Nat /\ pc' = pc
    BY <1>0, <1>5 DEF WorkerOK, Crash
  <2>4. WorkerOK'
    BY <1>0, <2>2, <2>3 DEF WorkerOK
  <2>. QED
    BY <1>0, <1>5, <2>4 DEF Crash, gather, run, call, ghost, GatherOK, RunOK
<1>6. ASSUME Send \/ Take PROVE Parts
  <2>1. /\ worker' = [worker EXCEPT !.inbox = Append(@, request)] /\ worker.alive
        /\ pc = "send" /\ pc' = "recv" /\ UNCHANGED <<answer, gather, run, call, ghost>>
    BY <1>6 DEF Send, Take
  <2>2. request \in Request /\ worker.inbox = <<>> /\ worker.lines = <<>> /\ worker.spawned
    BY <1>0, <2>1 DEF WorkerOK, RunOK
  <2>3. /\ worker' \in [alive : BOOLEAN, inbox : Seq(Request), lines : Seq(Line), spawned : BOOLEAN]
        /\ worker'.alive = worker.alive /\ worker'.spawned = worker.spawned
        /\ worker'.inbox = <<request>> /\ worker'.lines = <<>>
    <3>1. Append(worker.inbox, request) = <<request>> /\ <<request>> \in Seq(Request)
      BY <2>2
    <3>. QED
      BY <1>0, <2>1, <2>2, <3>1 DEF WorkerOK
  <2>4. WorkerOK'
    BY <2>1, <2>2, <2>3 DEF WorkerOK
  <2>5. GatherOK' /\ RunOK'
    BY <1>0, <2>1 DEF gather, run, call, ghost, GatherOK, RunOK, Ended
  <2>. QED
    BY <2>4, <2>5
<1>7. ASSUME RunEnds PROVE Parts
  <2>1. PICK outcome \in {"answered", "failed"} : EndRun(outcome)
    BY <1>7 DEF RunEnds
  <2>2. pc = "run" /\ pc \notin Ended /\ UNCHANGED <<process, run, call, ghost>>
    BY <1>7 DEF RunEnds, Ended
  <2>3. /\ GatherOK' /\ pc' \in {"collected", "answered", "failed"}
        /\ pc' = "collected" => pass = "collect"
    BY <1>0, <2>1, <2>2, EndRunGathers DEF run
  <2>4. RunOK'
    BY <1>0, <2>2, <2>3, RunStops DEF process, run, call, ghost, RunOK
  <2>5. WorkerOK'
    BY <1>0, <2>2, <2>3, WorkerKept DEF process
  <2>. QED
    BY <2>3, <2>4, <2>5
<1>8. ASSUME EndCollect PROVE Parts
  <2>1. /\ pc = "collected" /\ pc \notin Ended /\ pass = "collect" /\ collect.open
        /\ UNCHANGED <<process, trouble>>
    BY <1>0, <1>8 DEF EndCollect, Ended, RunOK, GatherOK
  <2>2. CASE collect.pending # <<>>
    <3>1. Flush(collect.pending, "end") /\ UNCHANGED run /\ collect.pending \in Seq(Args)
      BY <1>0, <1>8, <2>2 DEF EndCollect, GatherOK
    <3>2. Exchange([args |-> collect.pending, batched |-> TRUE], "end")
      BY <3>1 DEF Flush
    <3>3. [args |-> collect.pending, batched |-> TRUE] \in Request
      BY <3>1 DEF Request
    <3>4. GatherOK'
      BY <1>0, <2>1, <3>1, FlushGathers DEF run
    <3>5. RunOK' /\ pc' \in {"spawn", "send"} /\ (pc' = "send" => worker.spawned)
      BY <1>0, <2>1, <3>1, <3>2, <3>3, ExchangeRuns DEF process
    <3>. QED
      BY <1>0, <2>1, <3>4, <3>5, WorkerKept DEF process
  <2>3. CASE collect.pending = <<>> /\ collect.invoked
    <3>1. /\ collect' = NoCollect /\ pass' = "real" /\ values' = <<>> /\ pc' = "run"
          /\ asked' = <<>> /\ UNCHANGED <<statement, prefetched, call>>
      BY <1>8, <2>3 DEF EndCollect
    <3>2. GatherOK'
      BY <1>0, <3>1, Empties DEF GatherOK, Ended
    <3>3. RunOK'
      <4>1. Len(<<>>) <= Len(statement)
        BY StatementType
      <4>. QED
        BY <1>0, <2>1, <3>1, <4>1 DEF RunOK, process, call, Ended
    <3>. QED
      BY <1>0, <2>1, <3>1, <3>2, <3>3, WorkerKept DEF process
  <2>4. CASE collect.pending = <<>> /\ ~collect.invoked
    <3>1. PICK outcome \in {"answered", "failed"} : Finish(outcome)
      BY <1>8, <2>4 DEF EndCollect
    <3>2. UNCHANGED <<run, call, asked>>
      BY <1>8, <2>4 DEF EndCollect
    <3>3. GatherOK' /\ pc' = outcome
      BY <1>0, <2>1, <3>1, <3>2, FinishGathers DEF run
    <3>4. RunOK'
      BY <1>0, <2>1, <3>1, <3>2, <3>3, RunStops DEF process, run, call, RunOK
    <3>. QED
      BY <1>0, <2>1, <3>1, <3>3, <3>4, WorkerKept DEF process
  <2>. QED
    BY <2>2, <2>3, <2>4
<1>9. ASSUME Hit PROVE Parts
  <2>1. prefetched[Asking] \in Reply
    BY <1>0, <1>9 DEF Hit, Calling, GatherOK
  <2>2. TypeOK'
    BY <1>9, <2>1, ReturnTypes DEF Hit
  <2>. QED
    BY <2>2 DEF TypeOK, WorkerOK, GatherOK, RunOK
<1>10. ASSUME StandIn PROVE Parts
  <2> DEFINE new == Asking \notin collect.queued
             pending == IF new THEN Append(collect.pending, Asking) ELSE collect.pending
  <2>1. /\ pc = "run" /\ pc \notin Ended /\ Asking \in Args /\ collect.open
        /\ UNCHANGED <<process, statement, pass, trouble>>
    BY <1>10 DEF StandIn, Calling, Standing, Ended
  <2>2. pending \in Seq(Args)
    BY <1>0, <2>1 DEF GatherOK
  <2>3. CASE new /\ Len(pending) >= batch
    <3>1. Flush(pending, "queue") /\ UNCHANGED values
      BY <1>10, <2>3 DEF StandIn
    <3>2. Exchange([args |-> pending, batched |-> TRUE], "queue")
      BY <3>1 DEF Flush
    <3>3. [args |-> pending, batched |-> TRUE] \in Request
      BY <2>2 DEF Request
    <3>4. GatherOK'
      BY <1>0, <2>1, <2>2, <3>1, FlushGathers
    <3>5. RunOK' /\ pc' \in {"spawn", "send"} /\ (pc' = "send" => worker.spawned)
      BY <1>0, <2>1, <3>1, <3>2, <3>3, ExchangeRuns DEF process, run
    <3>. QED
      BY <1>0, <2>1, <3>4, <3>5, WorkerKept DEF process
  <2>4. CASE ~(new /\ Len(pending) >= batch)
    <3>1. /\ collect' = [collect EXCEPT !.invoked = TRUE, !.pending = pending,
                                        !.queued = @ \cup {Asking}]
          /\ values' = Append(values, collect.placeholder)
          /\ UNCHANGED <<prefetched, call, pc, asked>>
      BY <1>10, <2>4 DEF StandIn
    <3>2. collect \in [open : BOOLEAN, invoked : BOOLEAN, placeholder : Value,
                       pending : Seq(Args), queued : SUBSET Args]
      BY <1>0 DEF GatherOK
    <3>3. /\ collect' \in [open : BOOLEAN, invoked : BOOLEAN, placeholder : Value,
                           pending : Seq(Args), queued : SUBSET Args]
          /\ collect'.open = collect.open /\ collect'.pending = pending
          /\ collect'.queued = collect.queued \cup {Asking}
      <4>1. collect.queued \cup {Asking} \in SUBSET Args
        BY <2>1, <3>2
      <4> HIDE DEF pending
      <4>. QED
        BY <2>2, <3>1, <3>2, <4>1
    <3>4. ToSet(pending) \subseteq collect.queued \cup {Asking}
      <4>1. ToSet(collect.pending) \subseteq collect.queued
        BY <1>0 DEF GatherOK
      <4>2. ToSet(Append(collect.pending, Asking)) \subseteq ToSet(collect.pending) \cup {Asking}
        BY <3>2 DEF ToSet
      <4>. QED
        BY <4>1, <4>2
    <3>5. Len(pending) < batch \/ pending = <<>>
      <4>1. Len(pending) \in Nat /\ batch \in Nat
        BY <2>2, WorkerAssumption
      <4>. QED
        BY <1>0, <2>4, <4>1 DEF GatherOK
    <3>6. GatherOK'
      <4> HIDE DEF pending
      <4>1. pass # "only" /\ pass' = pass /\ pc' = pc
        BY <1>0, <2>1, <3>1 DEF GatherOK
      <4>. QED
        BY <1>0, <2>1, <3>1, <3>3, <3>4, <3>5, <4>1 DEF GatherOK
    <3>7. RunOK'
      BY <1>0, <2>1, <3>1, <3>2, RunAppends DEF process, RunOK
    <3>. QED
      BY <1>0, <2>1, <3>1, <3>6, <3>7, WorkerKept DEF process
  <2>. QED
    BY <2>3, <2>4
<1>11. ASSUME Single PROVE Parts
  <2>1. /\ pc = "run" /\ Asking \in Args /\ collect' = [collect EXCEPT !.invoked = collect.open]
        /\ Exchange([args |-> <<Asking>>, batched |-> FALSE], "call")
        /\ UNCHANGED <<process, prefetched, run, trouble>>
    BY <1>11 DEF Single, Calling
  <2>2. [args |-> <<Asking>>, batched |-> FALSE] \in Request
    BY <2>1 DEF Request
  <2>3. RunOK' /\ pc' \in {"spawn", "send"} /\ (pc' = "send" => worker.spawned)
    BY <1>0, <2>1, <2>2, ExchangeRuns DEF process
  <2>4. GatherOK'
    <3>1. /\ collect' \in [open : BOOLEAN, invoked : BOOLEAN, placeholder : Value,
                           pending : Seq(Args), queued : SUBSET Args]
          /\ collect'.open = collect.open /\ collect'.pending = collect.pending
          /\ collect'.queued = collect.queued
      BY <1>0, <2>1 DEF GatherOK
    <3>2. pass' = pass /\ pc \notin Ended /\ pc' \notin Ended /\ prefetched' = prefetched
      BY <2>1, <2>3 DEF run, Ended
    <3>. QED
      BY <1>0, <3>1, <3>2 DEF GatherOK
  <2>. QED
    BY <1>0, <2>1, <2>3, <2>4, WorkerKept DEF process
<1>12. ASSUME Spawn PROVE Parts
  <2>1. /\ NewWorker \in [alive : BOOLEAN, inbox : Seq(Request), lines : Seq(Line), spawned : BOOLEAN]
        /\ NewWorker.inbox = <<>> /\ NewWorker.lines = <<>> /\ NewWorker.spawned
    BY DEF NewWorker
  <2>2. /\ worker' = NewWorker /\ pc = "spawn" /\ pc' = "send"
        /\ UNCHANGED <<answer, gather, run, call, ghost>>
    BY <1>12 DEF Spawn
  <2>3. WorkerOK'
    BY <2>1, <2>2 DEF WorkerOK
  <2>4. GatherOK' /\ RunOK'
    BY <1>0, <2>2 DEF gather, run, call, ghost, GatherOK, RunOK, Ended
  <2>. QED
    BY <2>3, <2>4
<1>13. ASSUME SpawnFails \/ SendRefused \/ Timeout \/ Closed PROVE Parts
  <2>1. NoReply /\ InFlight /\ (worker' = NoWorker \/ (worker' = worker /\ pc = "spawn"))
    BY <1>13 DEF SpawnFails, SendRefused, Timeout, Closed, InFlight
  <2>2. GatherOK' /\ RunOK' /\ pc' \notin {"spawn", "send", "recv"}
    BY <2>1, NoReplyTypes
  <2>3. WorkerOK'
    BY <1>0, <2>1, <2>2, WorkerKept, WorkerGone
  <2>. QED
    BY <2>2, <2>3
<1>14. ASSUME Recv PROVE Parts
  <2> DEFINE line == Head(worker.lines)
             replies == Parsed(line)
  <2>1. /\ pc = "recv" /\ InFlight /\ pc \notin Ended /\ worker.lines # <<>> /\ line \in Line
        /\ UNCHANGED <<answer, statement, pass, call, asked>>
        /\ trouble' \subseteq {"lost", "garbled"}
        /\ worker' = [worker EXCEPT !.lines = Tail(@)]
    BY <1>0, <1>14 DEF Recv, InFlight, Ended, WorkerOK, RunOK
  <2>2. request.args \in Seq(Args) /\ request.args # <<>>
    BY <1>0, <2>1 DEF RunOK, Request, RequestInv
  <2>3. \A i \in DOMAIN request.args : replies[i] \in Reply
    <3>1. CASE Readable(line)
      <4>1. replies \in Seq(Reply) /\ Len(replies) = Len(request.args)
        BY <2>1, <3>1 DEF Parsed, Readable, Line
      <4>. QED
        BY <2>2, <4>1
    <3>2. CASE ~Readable(line)
      BY <3>2 DEF Parsed, Reply
    <3>. QED
      BY <3>1, <3>2
  <2> HIDE DEF replies
  <2>4. GatherOK' /\ RunOK' /\ pc' \notin {"spawn", "send", "recv"}
    <3>1. CASE caller = "call"
      <4>1. Replied(replies[1]) /\ replies[1] \in Reply
        BY <1>14, <2>2, <2>3, <3>1 DEF Recv, replies
      <4>. QED
        BY <2>1, <3>1, <4>1, RepliedTypes
    <3>2. CASE caller # "call"
      <4>1. /\ prefetched' = [a \in Args |-> IF a \in ToSet(request.args)
                                            THEN ReplyOf(a, replies) ELSE prefetched[a]]
            /\ UNCHANGED collect
        BY <1>14, <3>2 DEF Recv, replies
      <4>2. ASSUME NEW a \in Args, a \in ToSet(request.args) PROVE ReplyOf(a, replies) \in Reply
        BY <2>3, <4>2 DEF ReplyOf, ToSet
      <4>3. prefetched' \in [Args -> Reply \cup {Nothing}]
        BY <1>0, <4>1, <4>2 DEF GatherOK
      <4>4. pass = "collect" /\ caller \in {"queue", "end"}
        BY <1>0, <2>1, <3>2 DEF RequestInv, RunOK
      <4>5. CASE caller = "queue"
        <5>1. values' = Append(values, collect.placeholder) /\ pc' = "run"
          BY <1>14, <3>2, <4>5 DEF Recv
        <5>2. collect.placeholder \in Value /\ Asking \in Args
          BY <1>0, <2>1, <4>5 DEF GatherOK, RequestInv
        <5>3. RunOK'
          BY <2>1, <5>1, <5>2, RunAppends
        <5>. QED
          BY <1>0, <2>1, <4>1, <4>3, <4>4, <5>1, <5>3 DEF GatherOK, Ended
      <4>6. CASE caller = "end"
        <5>1. UNCHANGED values /\ pc' = "collected"
          BY <1>14, <3>2, <4>6 DEF Recv
        <5>2. RunOK'
          BY <1>0, <2>1, <4>4, <5>1, RunStops
        <5>. QED
          BY <1>0, <2>1, <4>1, <4>3, <4>4, <5>1, <5>2 DEF GatherOK, Ended
      <4>. QED
        BY <4>4, <4>5, <4>6
    <3>. QED
      BY <3>1, <3>2
  <2>5. WorkerOK'
    <3>1. /\ worker' \in [alive : BOOLEAN, inbox : Seq(Request), lines : Seq(Line), spawned : BOOLEAN]
          /\ worker'.alive = worker.alive /\ worker'.spawned = worker.spawned
          /\ worker'.inbox = worker.inbox /\ worker'.lines = Tail(worker.lines)
      BY <1>0, <2>1 DEF WorkerOK
    <3>2. worker.inbox = <<>> /\ Tail(worker.lines) = <<>>
      BY <1>0, <2>1 DEF WorkerOK
    <3>. QED
      BY <1>0, <2>4, <3>1, <3>2 DEF WorkerOK
  <2>. QED
    BY <2>4, <2>5
<1>15. ASSUME UNCHANGED vars PROVE Parts
  <2>1. UNCHANGED <<answer, worker, collect, prefetched, statement, pass, values, request, caller,
                    pc, trouble, asked>>
    BY <1>15 DEF vars, process, gather, run, call, ghost
  <2>2. WorkerOK'
    BY <1>0, <2>1 DEF WorkerOK
  <2>3. GatherOK'
    BY <1>0, <2>1 DEF GatherOK
  <2>4. RunOK'
    BY <1>0, <2>1 DEF RunOK
  <2>. QED
    BY <2>2, <2>3, <2>4
<1>16. Parts
  <2> HIDE DEF Parts
  <2>. QED BY <1>1, <1>2, <1>3, <1>4, <1>5, <1>6, <1>7, <1>8, <1>9, <1>10, <1>11, <1>12, <1>13, <1>14,
     <1>15 DEF Next, WorkerStep, CallerStep
<1>. QED
  BY <1>16 DEF TypeOK, WorkerOK, GatherOK, RunOK

-----------------------------------------------------------------------------
(* Requests, and what comes back. *)

\* While a request is out, no step but an answer, or none, touches the rest.
Waits == InFlight' => InFlight /\ UNCHANGED <<request, caller, statement, values, pass, collect>>

LEMMA AskingWaits ==
  ASSUME statement' = statement, values' = values PROVE Asking' = Asking
BY DEF Asking, Ask

LEMMA ExchangeRequests ==
  ASSUME NEW req, NEW by, Exchange(req, by), req.args # <<>>,
         UNCHANGED <<statement, values, pass>>, Asking \in Args,
         IF by = "call" THEN req = [args |-> <<Asking>>, batched |-> FALSE]
         ELSE pass = "collect" /\ collect'.invoked /\ collect'.pending = <<>>
              /\ req.batched /\ ToSet(req.args) \subseteq collect'.queued
  PROVE  RequestInv'
BY AskingWaits DEF RequestInv, Exchange

LEMMA StepRequests == ASSUME TypeOK, RequestInv, [Next]_vars PROVE RequestInv'
<1>0. GatherOK /\ RunOK /\ pass \in {"only", "collect", "real"}
  BY TypeParts DEF TypeOK
<1>1. ASSUME Waits PROVE RequestInv'
  BY <1>1, AskingWaits DEF Waits, RequestInv
<1>2. ASSUME NEW s \in Statements, Query(s) \/ Direct(s) PROVE Waits
  BY <1>2 DEF Query, Direct, Run, Waits, InFlight
<1>3. ASSUME WorkerStep \/ Send \/ Spawn PROVE Waits
  BY <1>3 DEF WorkerStep, Answer, Garble, Crash, Take, Send, Spawn, Waits, InFlight,
              gather, run, call
<1>4. ASSUME RunEnds PROVE Waits
  BY <1>4 DEF RunEnds, EndRun, Finish, Waits, InFlight
<1>5. ASSUME EndCollect PROVE RequestInv'
  <2>1. pc = "collected" /\ pc \notin Ended /\ pass = "collect" /\ collect.open
    BY <1>0, <1>5 DEF EndCollect, Ended, RunOK, GatherOK
  <2>2. CASE collect.pending # <<>>
    <3>1. Flush(collect.pending, "end") /\ UNCHANGED run /\ collect.pending \in Seq(Args)
      BY <1>0, <1>5, <2>2 DEF EndCollect, GatherOK
    <3>2. /\ ToSet(collect.pending) \subseteq collect'.queued /\ collect'.pending = <<>>
          /\ collect'.invoked
      BY <1>0, <2>1, <3>1, FlushGathers DEF run
    <3>. QED
      BY <2>1, <2>2, <3>1, <3>2 DEF RequestInv, Flush, Exchange, run
  <2>3. CASE collect.pending = <<>>
    BY <1>1, <1>5, <2>3 DEF EndCollect, Finish, Waits, InFlight
  <2>. QED
    BY <2>2, <2>3
<1>6. ASSUME Hit PROVE Waits
  BY <1>6 DEF Hit, Return, EndRun, Finish, Waits, InFlight
<1>7. ASSUME StandIn PROVE RequestInv'
  <2> DEFINE new == Asking \notin collect.queued
             pending == IF new THEN Append(collect.pending, Asking) ELSE collect.pending
  <2>1. /\ pc = "run" /\ pc \notin Ended /\ Asking \in Args /\ collect.open /\ pass = "collect"
        /\ UNCHANGED <<statement, pass>>
    BY <1>0, <1>7 DEF StandIn, Calling, Standing, Ended, GatherOK
  <2>2. CASE new /\ Len(pending) >= batch
    <3>1. Flush(pending, "queue") /\ UNCHANGED values
      BY <1>7, <2>2 DEF StandIn
    <3>2. pending \in Seq(Args) /\ pending # <<>>
      BY <1>0, <2>1, <2>2 DEF GatherOK
    <3>3. /\ ToSet(pending) \subseteq collect'.queued /\ collect'.pending = <<>>
          /\ collect'.invoked
      BY <1>0, <2>1, <3>1, <3>2, FlushGathers
    <3>4. Exchange([args |-> pending, batched |-> TRUE], "queue")
      BY <3>1 DEF Flush
    <3> HIDE DEF pending
    <3>. QED
      BY <2>1, <3>1, <3>2, <3>3, <3>4, ExchangeRequests
  <2>3. CASE ~(new /\ Len(pending) >= batch)
    <3>1. UNCHANGED pc
      BY <1>7, <2>3 DEF StandIn
    <3>. QED
      BY <1>1, <2>1, <3>1 DEF Waits, InFlight
  <2>. QED
    BY <2>2, <2>3
<1>8. ASSUME Single PROVE RequestInv'
  <2>1. /\ Asking \in Args /\ Exchange([args |-> <<Asking>>, batched |-> FALSE], "call")
        /\ UNCHANGED run
    BY <1>8 DEF Single, Calling
  <2>. QED
    BY <2>1, ExchangeRequests DEF run
<1>9. ASSUME SpawnFails \/ SendRefused \/ Timeout \/ Closed PROVE Waits
  <2>1. NoReply /\ InFlight
    BY <1>9 DEF SpawnFails, SendRefused, Timeout, Closed, InFlight
  <2>2. pc' \notin {"spawn", "send", "recv"}
    BY <2>1, NoReplyTypes
  <2>. QED
    BY <2>2 DEF Waits, InFlight
<1>10. ASSUME Recv PROVE Waits
  BY <1>0, <1>10 DEF Recv, Replied, Finish, Waits, InFlight
<1>11. CASE UNCHANGED vars
  BY <1>1, <1>11 DEF vars, gather, run, call, Waits, InFlight
<1>. QED
  BY <1>1, <1>2, <1>3, <1>4, <1>5, <1>6, <1>7, <1>8, <1>9, <1>10, <1>11 DEF Next, CallerStep

\* The pipes are empty but while a reply is awaited.
LEMMA PipesEmpty ==
  ASSUME TypeOK, pc # "recv" PROVE worker.inbox = <<>> /\ worker.lines = <<>>
BY DEF TypeOK

LEMMA StepPipes == ASSUME TypeOK, PipeInv, [Next]_vars PROVE PipeInv'
<1>0. WorkerOK
  BY TypeParts
<1>1. ASSUME UNCHANGED <<answer, request, worker>> PROVE PipeInv'
  BY <1>1 DEF PipeInv, Answered
<1>2. ASSUME worker'.inbox = <<>>, worker'.lines = <<>> PROVE PipeInv'
  BY <1>2 DEF PipeInv
<1>3. ASSUME pc # "recv", worker' = worker PROVE PipeInv'
  BY <1>2, <1>3, PipesEmpty
<1>4. ASSUME NEW s \in Statements, Query(s) \/ Direct(s) PROVE PipeInv'
  BY <1>3, <1>4 DEF Query, Direct, Run, Ended
<1>5. ASSUME Answer PROVE PipeInv'
  <2>1. worker.inbox = <<request>> /\ worker.lines = <<>>
    BY <1>0, <1>5 DEF Answer, PipeInv, WorkerOK
  <2>2. /\ worker' = [worker EXCEPT !.inbox = Tail(@), !.lines = Append(@, Answered)]
        /\ UNCHANGED <<answer, request>>
    BY <1>5, <2>1 DEF Answer, Answered, call
  <2>3. worker'.inbox = <<>> /\ worker'.lines = <<Answered>>
    BY <1>0, <2>1, <2>2 DEF WorkerOK
  <2>4. Answered' = Answered
    BY <2>2 DEF Answered
  <2>. QED
    BY <2>3, <2>4 DEF PipeInv
<1>6. ASSUME Garble PROVE PipeInv'
  <2>1. worker.inbox = <<request>> /\ worker.lines = <<>>
    BY <1>0, <1>6 DEF Garble, PipeInv, WorkerOK
  <2>2. worker'.inbox = <<>> /\ worker'.lines = <<Garbage>>
    BY <1>0, <1>6, <2>1 DEF Garble, WorkerOK
  <2>. QED
    BY <2>2 DEF PipeInv
<1>7. ASSUME Crash PROVE PipeInv'
  <2>1. worker'.inbox = <<>> /\ worker'.lines = worker.lines /\ UNCHANGED <<answer, request>>
    BY <1>0, <1>7 DEF Crash, WorkerOK, call
  <2>2. Answered' = Answered
    BY <2>1 DEF Answered
  <2>. QED
    BY <2>1, <2>2 DEF PipeInv
<1>8. ASSUME Send \/ Take PROVE PipeInv'
  <2>1. /\ pc = "send" /\ worker' = [worker EXCEPT !.inbox = Append(@, request)]
        /\ UNCHANGED <<answer, request>>
    BY <1>8 DEF Send, Take, call
  <2>2. worker.inbox = <<>> /\ worker.lines = <<>> /\ Append(<<>>, request) = <<request>>
    BY <2>1, PipesEmpty
  <2>3. worker'.inbox = <<request>> /\ worker'.lines = <<>>
    BY <1>0, <2>1, <2>2 DEF WorkerOK
  <2>. QED
    BY <2>1, <2>3 DEF PipeInv
<1>9. ASSUME RunEnds \/ EndCollect \/ Hit \/ StandIn \/ Single PROVE PipeInv'
  BY <1>3, <1>9 DEF RunEnds, EndCollect, Hit, StandIn, Single, Calling, process
<1>10. ASSUME Spawn PROVE PipeInv'
  BY <1>2, <1>10 DEF Spawn, NewWorker
<1>11. ASSUME SpawnFails PROVE PipeInv'
  BY <1>3, <1>11 DEF SpawnFails
<1>12. ASSUME SendRefused \/ Timeout \/ Closed PROVE PipeInv'
  BY <1>2, <1>12 DEF SendRefused, Timeout, Closed, NoWorker
<1>13. ASSUME Recv PROVE PipeInv'
  <2>1. worker.inbox = <<>> /\ Tail(worker.lines) = <<>>
    BY <1>0, <1>13 DEF Recv, WorkerOK
  <2>2. worker'.inbox = <<>> /\ worker'.lines = <<>>
    BY <1>0, <1>13, <2>1 DEF Recv, WorkerOK
  <2>. QED
    BY <1>2, <2>2
<1>14. CASE UNCHANGED vars
  BY <1>1, <1>14 DEF vars, process, call
<1>. QED
  BY <1>4, <1>5, <1>6, <1>7, <1>8, <1>9, <1>10, <1>11, <1>12, <1>13, <1>14
     DEF Next, WorkerStep, CallerStep

\* Each reply read is the worker's own, or an error for want of it.
LEMMA RecvTells ==
  ASSUME TypeOK, RequestInv, PipeInv, Recv
  PROVE  /\ request.args # <<>> /\ request.args \in Seq(Args)
         /\ \A i \in DOMAIN request.args :
              LET reply == Parsed(Head(worker.lines))[i] IN
              /\ reply \in Reply
              /\ reply = answer[request.args[i]] \/ (reply = Err /\ trouble' # {})
         /\ trouble \subseteq trouble'
<1>1. /\ request.args # <<>> /\ request.args \in Seq(Args) /\ answer \in [Args -> Reply]
      /\ worker.lines # <<>>
  BY DEF TypeOK, RequestInv, Request, Recv, InFlight
<1>2. CASE worker.lines = <<Garbage>>
  <2>1. ~Readable(Head(worker.lines))
    BY <1>1, <1>2 DEF Readable, Garbage
  <2>2. trouble' = trouble \cup {"garbled"}
    BY <2>1 DEF Recv
  <2>3. \A i \in DOMAIN request.args : Parsed(Head(worker.lines))[i] = Err
    BY <2>1 DEF Parsed
  <2>. QED
    BY <1>1, <2>2, <2>3 DEF Reply
<1>3. CASE worker.lines = <<Answered>>
  <2>1. Head(worker.lines) = Answered
    BY <1>3
  <2>2. \A i \in DOMAIN request.args : /\ Answered.replies[i] = answer[request.args[i]]
                                      /\ request.args[i] \in Args
    BY <1>1 DEF Answered
  <2>3. Readable(Answered)
    <3>1. Answered.replies = [i \in 1 .. Len(request.args) |-> answer[request.args[i]]]
      BY <1>1 DEF Answered
    <3>2. Len(Answered.replies) = Len(request.args)
      BY <1>1, <3>1
    <3>. QED
      BY <3>2 DEF Readable, Answered
  <2>4. Parsed(Head(worker.lines)) = Answered.replies /\ trouble' = trouble
    BY <2>1, <2>3 DEF Parsed, Recv
  <2>. QED
    BY <1>1, <2>2, <2>4
<1>. QED
  BY <1>1, <1>2, <1>3 DEF PipeInv

-----------------------------------------------------------------------------
(* Replies in hand. *)

LEMMA FiledNothing == ASSUME prefetched' = NoReplies PROVE FiledInv'
BY DEF FiledInv, NoReplies

LEMMA FiledKept ==
  ASSUME FiledInv, UNCHANGED <<prefetched, answer>>, trouble \subseteq trouble' PROVE FiledInv'
BY DEF FiledInv

LEMMA FinishFiles ==
  ASSUME FiledInv, NEW outcome, Finish(outcome), UNCHANGED answer, trouble \subseteq trouble'
  PROVE  FiledInv'
BY FiledNothing, FiledKept DEF Finish, gather

LEMMA EndRunFiles ==
  ASSUME FiledInv, NEW outcome, EndRun(outcome), UNCHANGED answer, trouble \subseteq trouble'
  PROVE  FiledInv'
BY FinishFiles, FiledKept DEF EndRun, gather

LEMMA KeepFiles ==
  ASSUME TypeOK, FiledInv, NEW a \in Args, NEW reply, Keep(a, reply), UNCHANGED answer,
         trouble \subseteq trouble', reply = answer[a] \/ (reply = Err /\ trouble' # {})
  PROVE  FiledInv'
<1>1. CASE ~collect.open
  BY <1>1, FiledKept DEF Keep, gather
<1>2. CASE collect.open
  <2>1. prefetched' = [prefetched EXCEPT ![a] = reply]
    BY <1>2 DEF Keep
  <2>2. prefetched \in [Args -> Reply \cup {Nothing}]
    BY DEF TypeOK
  <2>. QED
    BY <2>1, <2>2 DEF FiledInv
<1>. QED
  BY <1>1, <1>2

LEMMA RepliedFiles ==
  ASSUME TypeOK, RequestInv, FiledInv, InFlight, caller = "call", NEW reply, Replied(reply),
         UNCHANGED answer, trouble \subseteq trouble',
         reply = answer[request.args[1]] \/ (reply = Err /\ trouble' # {})
  PROVE  FiledInv'
<1>1. request.args[1] = Asking /\ Asking \in Args
  BY DEF RequestInv
<1>. QED
  BY <1>1, KeepFiles, FinishFiles DEF Replied

LEMMA NoReplyFiles ==
  ASSUME TypeOK, RequestInv, FiledInv, InFlight, NoReply PROVE FiledInv'
<1>1. UNCHANGED answer /\ trouble \subseteq trouble' /\ trouble' # {}
  BY DEF NoReply
<1>2. caller \in {"call", "queue", "end"}
  BY DEF TypeOK
<1>. QED
  BY <1>1, <1>2, RepliedFiles, FinishFiles, FiledKept DEF NoReply, gather

LEMMA StepFiles == ASSUME TypeOK, RequestInv, PipeInv, FiledInv, [Next]_vars PROVE FiledInv'
<1>1. ASSUME NEW s \in Statements, Query(s) PROVE FiledInv'
  BY <1>1, FiledNothing DEF Query
<1>2. ASSUME NEW s \in Statements, Direct(s) PROVE FiledInv'
  <2>1. prefetched = NoReplies
    BY <1>2 DEF Direct, Run, TypeOK
  <2>. QED
    BY <1>2, <2>1, FiledNothing DEF Direct, gather
<1>3. ASSUME WorkerStep \/ Send \/ Spawn PROVE FiledInv'
  BY <1>3, FiledKept DEF WorkerStep, Answer, Garble, Crash, Take, Send, Spawn, gather, ghost
<1>4. ASSUME RunEnds PROVE FiledInv'
  BY <1>4, EndRunFiles DEF RunEnds, process, ghost
<1>5. ASSUME EndCollect PROVE FiledInv'
  BY <1>5, FiledKept, FinishFiles DEF EndCollect, Flush, process
<1>6. ASSUME Hit PROVE FiledInv'
  BY <1>6, FiledKept, EndRunFiles DEF Hit, Return, process, gather, ghost
<1>7. ASSUME StandIn \/ Single PROVE FiledInv'
  BY <1>7, FiledKept DEF StandIn, Single, Flush, process, gather
<1>8. ASSUME SpawnFails \/ SendRefused \/ Timeout \/ Closed PROVE FiledInv'
  BY <1>8, NoReplyFiles DEF SpawnFails, SendRefused, Timeout, Closed, InFlight
<1>9. ASSUME Recv PROVE FiledInv'
  <2> DEFINE replies == Parsed(Head(worker.lines))
  <2>1. /\ InFlight /\ UNCHANGED answer /\ trouble \subseteq trouble'
        /\ request.args # <<>> /\ request.args \in Seq(Args)
        /\ \A i \in DOMAIN request.args :
             replies[i] = answer[request.args[i]] \/ (replies[i] = Err /\ trouble' # {})
    BY <1>9, RecvTells DEF Recv, InFlight
  <2>2. CASE caller = "call"
    <3>1. Replied(replies[1]) /\ 1 \in DOMAIN request.args
      BY <1>9, <2>1, <2>2 DEF Recv
    <3>. QED
      BY <2>1, <2>2, <3>1, RepliedFiles
  <2>3. CASE caller # "call"
    <3>1. prefetched' = [a \in Args |-> IF a \in ToSet(request.args)
                                        THEN ReplyOf(a, replies) ELSE prefetched[a]]
      BY <1>9, <2>3 DEF Recv
    <3>2. ASSUME NEW a \in Args, a \in ToSet(request.args)
          PROVE  ReplyOf(a, replies) = answer[a] \/ (ReplyOf(a, replies) = Err /\ trouble' # {})
      <4> DEFINE at == CHOOSE i \in DOMAIN request.args : request.args[i] = a
      <4>1. at \in DOMAIN request.args /\ request.args[at] = a
        BY <3>2 DEF ToSet
      <4>2. ReplyOf(a, replies) = replies[at]
        BY DEF ReplyOf
      <4> HIDE DEF at, replies
      <4>. QED
        BY <2>1, <4>1, <4>2
    <3> HIDE DEF replies
    <3>. QED
      BY <2>1, <3>1, <3>2 DEF FiledInv
  <2>. QED
    BY <2>2, <2>3
<1>10. CASE UNCHANGED vars
  BY <1>10, FiledKept DEF vars, process, gather, ghost
<1>. QED
  BY <1>1, <1>2, <1>3, <1>4, <1>5, <1>6, <1>7, <1>8, <1>9, <1>10 DEF Next, CallerStep

\* A collect pass that has called nothing has nothing.
LEMMA StepUninvoked ==
  ASSUME TypeOK, RequestInv, UninvokedInv, [Next]_vars PROVE UninvokedInv'
<1>0. GatherOK /\ RunOK
  BY TypeParts
<1>1. ASSUME ~(collect'.open /\ ~collect'.invoked) PROVE UninvokedInv'
  BY <1>1 DEF UninvokedInv
<1>2. ASSUME UNCHANGED <<collect, values, prefetched, pc, statement>> PROVE UninvokedInv'
  BY <1>2, AskingWaits DEF UninvokedInv, InFlight
<1>3. ASSUME NEW s \in Statements, Query(s) PROVE UninvokedInv'
  BY <1>3 DEF Query, Run, UninvokedInv, InFlight
<1>4. ASSUME NEW s \in Statements, Direct(s) PROVE UninvokedInv'
  BY <1>0, <1>1, <1>4 DEF Direct, Run, gather, GatherOK
<1>5. ASSUME Answer \/ Garble \/ Crash PROVE UninvokedInv'
  BY <1>2, <1>5 DEF Answer, Garble, Crash, gather, run
<1>6. ASSUME Take \/ Send \/ Spawn PROVE UninvokedInv'
  BY <1>1, <1>6 DEF Take, Send, Spawn, UninvokedInv, InFlight, gather
<1>7. ASSUME Finish("answered") \/ Finish("failed"), pc \notin Ended PROVE UninvokedInv'
  BY <1>0, <1>1, <1>7, Empties DEF Finish, gather, GatherOK
<1>8. ASSUME RunEnds PROVE UninvokedInv'
  <2>1. CASE pass = "collect"
    <3>1. pc = "run" /\ UNCHANGED gather /\ pc' = "collected" /\ UNCHANGED run /\ Asking \in {Done, Fails}
      BY <1>8, <2>1 DEF RunEnds, EndRun
    <3>. QED
      BY <3>1, AskingWaits DEF UninvokedInv, InFlight, gather, run
  <2>2. CASE pass # "collect"
    BY <1>7, <1>8, <2>2 DEF RunEnds, EndRun, Ended
  <2>. QED
    BY <2>1, <2>2
<1>9. ASSUME EndCollect PROVE UninvokedInv'
  <2>1. pc = "collected" /\ pc \notin Ended
    BY <1>9 DEF EndCollect, Ended
  <2>2. CASE collect.pending # <<>>
    <3>1. collect' = [collect EXCEPT !.invoked = TRUE, !.pending = <<>>,
                                  !.queued = @ \cup ToSet(collect.pending)]
      BY <1>9, <2>2 DEF EndCollect, Flush
    <3>. QED
      BY <1>0, <1>1, <3>1 DEF GatherOK
  <2>3. CASE collect.pending = <<>> /\ collect.invoked
    BY <1>1, <1>9, <2>3, Empties DEF EndCollect
  <2>4. CASE collect.pending = <<>> /\ ~collect.invoked
    BY <1>7, <1>9, <2>1, <2>4 DEF EndCollect
  <2>. QED
    BY <2>2, <2>3, <2>4
<1>10. ASSUME Hit PROVE UninvokedInv'
  <2>1. pc = "run" /\ pc \notin Ended /\ prefetched[Asking] # Nothing /\ Asking \in Args
    BY <1>10 DEF Hit, Calling, Ended
  <2>2. ~(collect.open /\ ~collect.invoked)
    BY <2>1 DEF UninvokedInv, NoReplies
  <2>3. ASSUME UNCHANGED gather PROVE UninvokedInv'
    BY <1>1, <2>2, <2>3 DEF gather
  <2>. QED
    BY <1>7, <1>10, <2>1, <2>3 DEF Hit, Return, EndRun
<1>11. ASSUME StandIn PROVE UninvokedInv'
  <2> DEFINE new == Asking \notin collect.queued
             pending == IF new THEN Append(collect.pending, Asking) ELSE collect.pending
  <2>1. CASE new /\ Len(pending) >= batch
    <3>1. collect' = [collect EXCEPT !.invoked = TRUE, !.pending = <<>>,
                                  !.queued = @ \cup ToSet(pending)]
      BY <1>11, <2>1 DEF StandIn, Flush
    <3> HIDE DEF pending
    <3>. QED
      BY <1>0, <1>1, <3>1 DEF GatherOK
  <2>2. CASE ~(new /\ Len(pending) >= batch)
    <3>1. collect' = [collect EXCEPT !.invoked = TRUE, !.pending = pending,
                                    !.queued = @ \cup {Asking}]
      BY <1>11, <2>2 DEF StandIn
    <3> HIDE DEF pending
    <3>. QED
      BY <1>0, <1>1, <3>1 DEF GatherOK
  <2>. QED
    BY <2>1, <2>2
<1>12. ASSUME Single PROVE UninvokedInv'
  BY <1>0, <1>1, <1>12 DEF Single, GatherOK
<1>13. ASSUME InFlight, UNCHANGED collect PROVE UninvokedInv'
  BY <1>1, <1>13 DEF UninvokedInv
<1>14. ASSUME InFlight, caller = "call", NEW reply, Replied(reply) PROVE UninvokedInv'
  <2>1. pc \notin Ended
    BY <1>14 DEF InFlight, Ended
  <2>2. ASSUME NEW a, Keep(a, reply) PROVE UninvokedInv'
    <3>1. CASE ~collect.open
      BY <1>13, <1>14, <2>2, <3>1 DEF Keep, gather
    <3>2. CASE collect.open
      <4>1. collect'.invoked = collect.invoked
        BY <1>0, <2>2, <3>2 DEF Keep, GatherOK
      <4>2. collect.invoked
        BY <1>14, <3>2 DEF UninvokedInv
      <4>. QED
        BY <1>1, <4>1, <4>2
    <3>. QED
      BY <3>1, <3>2
  <2>. QED
    BY <1>7, <1>14, <2>1, <2>2 DEF Replied
<1>15. ASSUME SpawnFails \/ SendRefused \/ Timeout \/ Closed PROVE UninvokedInv'
  <2>1. NoReply /\ InFlight /\ caller \in {"call", "queue", "end"} /\ pc \notin Ended
    BY <1>0, <1>15 DEF SpawnFails, SendRefused, Timeout, Closed, InFlight, RunOK, Ended
  <2>. QED
    BY <1>7, <1>13, <1>14, <2>1 DEF NoReply, gather
<1>16. ASSUME Recv PROVE UninvokedInv'
  BY <1>13, <1>14, <1>16 DEF Recv, InFlight
<1>17. CASE UNCHANGED vars
  BY <1>2, <1>17 DEF vars, gather, run
<1>. QED
  BY <1>3, <1>4, <1>5, <1>6, <1>8, <1>9, <1>10, <1>11, <1>12, <1>15, <1>16, <1>17
     DEF Next, WorkerStep, CallerStep

-----------------------------------------------------------------------------
(* The values a run has computed with. *)

LEMMA TrueKept == ASSUME True, UNCHANGED <<values, answer, statement>> PROVE True'
BY DEF True, Ask

LEMMA TrueEmpty == ASSUME values' = <<>> PROVE True'
BY DEF True

\* With the worker's own reply to the next call, the values stay true.
LEMMA TrueGrows ==
  ASSUME TypeOK, True, Asking \in Args, values' = Append(values, answer[Asking]),
         answer[Asking] \in Value, UNCHANGED <<answer, statement>>
  PROVE  True'
<1>1. values \in Seq(Value) /\ Len(values) \in Nat
  BY DEF TypeOK
<1>2. /\ DOMAIN values = 1 .. Len(values) /\ DOMAIN values' = 1 .. Len(values) + 1
      /\ \A i \in 1 .. Len(values) : values'[i] = values[i]
      /\ values'[Len(values) + 1] = answer[Asking]
  BY <1>1
<1>3. ASSUME NEW i \in 1 .. Len(values) + 1
      PROVE  SubSeq(values', 1, i - 1) = SubSeq(values, 1, i - 1)
  <2>1. /\ values' \in Seq(Value) /\ i - 1 <= Len(values) /\ i - 1 \in Nat
        /\ Len(values') = Len(values) + 1
    BY <1>1
  <2>2. \A j \in 1 .. i - 1 : values'[j] = values[j]
    BY <1>2, <2>1
  <2>. QED
    BY <1>1, <2>1, <2>2
<1>4. SubSeq(values, 1, Len(values)) = values
  BY <1>1, SubSeqFull
<1>5. ASSUME NEW i \in 1 .. Len(values) + 1
      PROVE  values'[i] = answer[Ask(statement, SubSeq(values, 1, i - 1))]
  <2>1. CASE i = Len(values) + 1
    <3>1. i - 1 = Len(values)
      BY <1>1, <2>1
    <3>. QED
      BY <1>2, <1>4, <2>1, <3>1 DEF Asking
  <2>2. CASE i # Len(values) + 1
    <3>1. i \in 1 .. Len(values)
      BY <1>1, <2>2
    <3>. QED
      BY <1>2, <3>1 DEF True
  <2>. QED
    BY <2>1, <2>2
<1>. QED
  BY <1>2, <1>3, <1>5 DEF True

\* The outcome of a statement, and what the values of its own run must be.
EndInv == TrueInv /\ AnswersAreTrue /\ FailsForCause

LEMMA EndKept ==
  ASSUME EndInv, UNCHANGED <<values, answer, statement, pass, pc, trouble>> PROVE EndInv'
BY AskingWaits, TrueKept DEF EndInv, TrueInv, AnswersAreTrue, FailsForCause, True, Ask

\* A step inside a statement that does not touch the values.
LEMMA EndOpen ==
  ASSUME EndInv, UNCHANGED <<values, answer, statement>>, pc' \notin Ended,
         pass' # "collect" => pass # "collect"
  PROVE  EndInv'
BY TrueKept DEF EndInv, TrueInv, AnswersAreTrue, FailsForCause, Ended

\* In the collect pass the values may be anything.
LEMMA EndCollecting ==
  ASSUME pass' = "collect", pc' \notin Ended PROVE EndInv'
BY DEF EndInv, TrueInv, AnswersAreTrue, FailsForCause, Ended

\* A statement begins.
LEMMA EndBegins ==
  ASSUME values' = <<>>, pc' \notin Ended PROVE EndInv'
BY TrueEmpty DEF EndInv, TrueInv, AnswersAreTrue, FailsForCause, Ended

\* A statement fails: for want of a reply, or for a cause of its own.
LEMMA EndFails ==
  ASSUME EndInv, UNCHANGED <<values, answer, statement, pass>>, pc' = "failed",
         \/ pass = "collect" /\ trouble' # {}
         \/ /\ pass # "collect" \/ values = <<>>
            /\ \/ trouble' # {}
               \/ Asking = Fails
               \/ Asking \in Args /\ answer[Asking] = Err
  PROVE  EndInv'
<1>1. pass # "collect" \/ values = <<>> => True'
  BY TrueKept, TrueEmpty DEF EndInv, TrueInv
<1>. QED
  BY <1>1, AskingWaits DEF EndInv, TrueInv, AnswersAreTrue, FailsForCause

LEMMA EndAnswers ==
  ASSUME EndInv, UNCHANGED <<values, answer, statement, pass>>, pc' = "answered",
         pass # "collect" \/ values = <<>>, Asking = Done
  PROVE  EndInv'
<1>1. True'
  BY TrueKept, TrueEmpty DEF EndInv, TrueInv
<1>. QED
  BY <1>1, AskingWaits DEF EndInv, TrueInv, AnswersAreTrue, FailsForCause

\* The next value is in.
LEMMA EndGrows ==
  ASSUME TypeOK, EndInv, Asking \in Args, values' = Append(values, answer[Asking]),
         answer[Asking] \in Value, UNCHANGED <<answer, statement, pass>>, pc' = "run"
  PROVE  EndInv'
BY TrueGrows DEF EndInv, TrueInv, AnswersAreTrue, FailsForCause

LEMMA RepliedEnds ==
  ASSUME TypeOK, RequestInv, EndInv, InFlight, caller = "call", NEW reply \in Reply,
         Replied(reply), UNCHANGED <<answer, statement, pass>>,
         reply = answer[request.args[1]] \/ (reply = Err /\ trouble' # {})
  PROVE  EndInv'
<1>1. request.args[1] = Asking /\ Asking \in Args
  BY DEF RequestInv
<1>2. CASE reply # Err
  BY <1>1, <1>2, EndGrows DEF Replied, Reply
<1>3. CASE reply = Err /\ pass = "collect"
  BY <1>3, EndCollecting DEF Replied, Ended
<1>4. CASE reply = Err /\ pass # "collect"
  BY <1>1, <1>4, EndFails DEF Replied, Finish
<1>. QED
  BY <1>2, <1>3, <1>4

LEMMA NoReplyEnds ==
  ASSUME TypeOK, RequestInv, EndInv, InFlight, NoReply PROVE EndInv'
<1>1. /\ UNCHANGED <<answer, statement, pass>> /\ trouble' # {} /\ Err \in Reply
      /\ caller \in {"call", "queue", "end"} /\ (caller # "call" => pass = "collect")
  BY DEF TypeOK, NoReply, Reply, RequestInv
<1>2. CASE caller = "call"
  BY <1>1, <1>2, RepliedEnds DEF NoReply
<1>3. CASE caller = "queue"
  BY <1>1, <1>3, EndCollecting DEF NoReply, Ended
<1>4. CASE caller = "end"
  BY <1>1, <1>4, EndFails DEF NoReply, Finish
<1>. QED
  BY <1>1, <1>2, <1>3, <1>4

LEMMA StepEnds ==
  ASSUME TypeOK, RequestInv, PipeInv, FiledInv, UninvokedInv, EndInv, [Next]_vars PROVE EndInv'
<1>1. ASSUME NEW s \in Statements, Query(s) \/ Direct(s) PROVE EndInv'
  BY <1>1, EndBegins DEF Query, Direct, Run, Ended
<1>2. ASSUME Answer \/ Garble \/ Crash PROVE EndInv'
  BY <1>2, EndKept DEF Answer, Garble, Crash, run, ghost
<1>3. ASSUME Take \/ Send \/ Spawn PROVE EndInv'
  BY <1>3, EndOpen DEF Take, Send, Spawn, run, ghost, Ended
<1>4. ASSUME RunEnds PROVE EndInv'
  <2>1. UNCHANGED <<values, answer, statement, pass>>
    BY <1>4 DEF RunEnds, run, process
  <2>2. CASE pass = "collect"
    BY <1>4, <2>1, <2>2, EndCollecting DEF RunEnds, EndRun, Ended
  <2>3. CASE pass # "collect"
    BY <1>4, <2>1, <2>3, EndAnswers, EndFails DEF RunEnds, EndRun, Finish, Ended
  <2>. QED
    BY <2>2, <2>3
<1>5. ASSUME EndCollect PROVE EndInv'
  <2>1. pc = "collected" /\ pass = "collect" /\ collect.open /\ UNCHANGED answer
    BY <1>5 DEF EndCollect, TypeOK, Ended, process
  <2>2. CASE collect.pending # <<>>
    BY <1>5, <2>1, <2>2, EndOpen DEF EndCollect, Flush, Exchange, run, Ended
  <2>3. CASE collect.pending = <<>> /\ collect.invoked
    BY <1>5, <2>3, EndBegins DEF EndCollect, Ended
  <2>4. CASE collect.pending = <<>> /\ ~collect.invoked
    <3>1. values = <<>> /\ Asking \in {Done, Fails}
      BY <2>1, <2>4 DEF UninvokedInv
    <3>2. UNCHANGED <<values, answer, statement, pass>>
      BY <1>5, <2>1, <2>4 DEF EndCollect, run
    <3>. QED
      BY <1>5, <2>4, <3>1, <3>2, EndAnswers, EndFails DEF EndCollect, Finish
  <2>. QED
    BY <2>2, <2>3, <2>4
<1>6. ASSUME Hit PROVE EndInv'
  <2>1. /\ pc = "run" /\ Asking \in Args /\ prefetched[Asking] # Nothing
        /\ UNCHANGED <<answer, statement, pass, trouble>>
        /\ Return(prefetched[Asking])
    BY <1>6 DEF Hit, Calling, process, ghost
  <2>2. prefetched[Asking] = answer[Asking] \/ (prefetched[Asking] = Err /\ trouble # {})
    BY <2>1 DEF FiledInv
  <2>3. prefetched[Asking] \in Reply
    BY <2>1 DEF TypeOK
  <2>4. CASE prefetched[Asking] # Err
    BY <2>1, <2>2, <2>3, <2>4, EndGrows DEF Return, Reply
  <2>5. CASE prefetched[Asking] = Err /\ pass = "collect"
    BY <2>1, <2>5, EndCollecting DEF Return, EndRun, Ended
  <2>6. CASE prefetched[Asking] = Err /\ pass # "collect"
    BY <2>1, <2>2, <2>6, EndFails DEF Return, EndRun, Finish
  <2>. QED
    BY <2>4, <2>5, <2>6
<1>7. ASSUME StandIn PROVE EndInv'
  <2>1. pc = "run" /\ pass' = "collect"
    BY <1>7 DEF StandIn, Calling, Standing, TypeOK
  <2>2. pc' \notin Ended
    BY <1>7, <2>1 DEF StandIn, Flush, Exchange, Ended
  <2>. QED
    BY <2>1, <2>2, EndCollecting
<1>8. ASSUME Single PROVE EndInv'
  BY <1>8, EndOpen DEF Single, Exchange, process, run, Ended
<1>9. ASSUME SpawnFails \/ SendRefused \/ Timeout \/ Closed PROVE EndInv'
  BY <1>9, NoReplyEnds DEF SpawnFails, SendRefused, Timeout, Closed, InFlight
<1>10. ASSUME Recv PROVE EndInv'
  <2> DEFINE replies == Parsed(Head(worker.lines))
  <2>1. /\ InFlight /\ UNCHANGED <<answer, statement, pass>>
        /\ request.args # <<>> /\ request.args \in Seq(Args)
        /\ \A i \in DOMAIN request.args :
             /\ replies[i] \in Reply
             /\ replies[i] = answer[request.args[i]] \/ (replies[i] = Err /\ trouble' # {})
    BY <1>10, RecvTells DEF Recv, InFlight
  <2>2. CASE caller = "call"
    <3>1. Replied(replies[1]) /\ 1 \in DOMAIN request.args
      BY <1>10, <2>1, <2>2 DEF Recv
    <3> HIDE DEF replies
    <3>. QED
      BY <2>1, <2>2, <3>1, RepliedEnds
  <2>3. CASE caller # "call"
    <3>1. pass = "collect" /\ pc' \in {"run", "collected"}
      BY <1>10, <2>1, <2>3 DEF Recv, RequestInv
    <3>. QED
      BY <2>1, <3>1, EndCollecting DEF Ended
  <2>. QED
    BY <2>2, <2>3
<1>11. CASE UNCHANGED vars
  BY <1>11, EndKept DEF vars, process, run, ghost
<1>. QED
  BY <1>1, <1>2, <1>3, <1>4, <1>5, <1>6, <1>7, <1>8, <1>9, <1>10, <1>11
     DEF Next, WorkerStep, CallerStep

-----------------------------------------------------------------------------
(* The collect pass asks each thing once. *)

LEMMA InjectiveAppend ==
  ASSUME NEW S, NEW s \in Seq(S), NEW x \in S, IsInjective(s), x \notin ToSet(s)
  PROVE  IsInjective(Append(s, x))
<1>1. /\ Len(s) \in Nat /\ DOMAIN s = 1 .. Len(s) /\ DOMAIN Append(s, x) = 1 .. Len(s) + 1
      /\ \A i \in 1 .. Len(s) : Append(s, x)[i] = s[i] /\ s[i] # x
      /\ Append(s, x)[Len(s) + 1] = x
  BY DEF ToSet
<1>2. \A i \in 1 .. Len(s) + 1 : i \in 1 .. Len(s) \/ i = Len(s) + 1
  BY <1>1
<1>. QED
  BY <1>1, <1>2 DEF IsInjective

LEMMA ToSetAppend ==
  ASSUME NEW S, NEW s \in Seq(S), NEW x \in S PROVE ToSet(Append(s, x)) = ToSet(s) \cup {x}
<1>1. /\ Len(s) \in Nat /\ DOMAIN s = 1 .. Len(s) /\ DOMAIN Append(s, x) = 1 .. Len(s) + 1
      /\ \A i \in 1 .. Len(s) : Append(s, x)[i] = s[i]
      /\ Append(s, x)[Len(s) + 1] = x
  OBVIOUS
<1>2. \A i \in 1 .. Len(s) + 1 : i \in 1 .. Len(s) \/ i = Len(s) + 1
  BY <1>1
<1>3. Len(s) + 1 \in 1 .. Len(s) + 1
  BY <1>1
<1>. QED
  BY <1>1, <1>2, <1>3 DEF ToSet

LEMMA ToSetConcat ==
  ASSUME NEW S, NEW s \in Seq(S), NEW t \in Seq(S) PROVE ToSet(s \o t) = ToSet(s) \cup ToSet(t)
<1>1. /\ Len(s) \in Nat /\ Len(t) \in Nat /\ DOMAIN s = 1 .. Len(s) /\ DOMAIN t = 1 .. Len(t)
      /\ DOMAIN (s \o t) = 1 .. Len(s) + Len(t)
      /\ \A i \in 1 .. Len(s) + Len(t) : (s \o t)[i] = IF i <= Len(s) THEN s[i] ELSE t[i - Len(s)]
  OBVIOUS
<1>2. ASSUME NEW i \in 1 .. Len(s) + Len(t) PROVE (s \o t)[i] \in ToSet(s) \cup ToSet(t)
  <2>1. CASE i <= Len(s)
    BY <1>1, <2>1 DEF ToSet
  <2>2. CASE ~(i <= Len(s))
    <3>1. i - Len(s) \in 1 .. Len(t)
      BY <1>1, <2>2
    <3>. QED
      BY <1>1, <2>2, <3>1 DEF ToSet
  <2>. QED
    BY <2>1, <2>2
<1>3. ASSUME NEW i \in 1 .. Len(s) PROVE s[i] \in ToSet(s \o t)
  <2>1. i \in 1 .. Len(s) + Len(t) /\ (s \o t)[i] = s[i]
    BY <1>1
  <2>. QED
    BY <1>1, <2>1 DEF ToSet
<1>4. ASSUME NEW i \in 1 .. Len(t) PROVE t[i] \in ToSet(s \o t)
  <2>1. Len(s) + i \in 1 .. Len(s) + Len(t) /\ (s \o t)[Len(s) + i] = t[i]
    BY <1>1
  <2>. QED
    BY <1>1, <2>1 DEF ToSet
<1>. QED
  BY <1>1, <1>2, <1>3, <1>4 DEF ToSet

\* What is sent or to be sent.
Sent == asked \o collect.pending

LEMMA SentTypes ==
  ASSUME TypeOK, CollectInv, collect.open, ~InFlight
  PROVE  /\ asked \in Seq(Args) /\ collect.pending \in Seq(Args) /\ Sent \in Seq(Args)
         /\ ToSet(Sent) \subseteq collect.queued /\ IsInjective(Sent)
         /\ ToSet(asked) \subseteq collect.queued
<1>1. /\ asked \in Seq(Args) /\ collect.pending \in Seq(Args)
      /\ ToSet(collect.pending) \subseteq collect.queued /\ IsInjective(Sent)
      /\ ToSet(asked) \subseteq collect.queued
  BY DEF TypeOK, CollectInv, Sent
<1>2. ToSet(Sent) = ToSet(asked) \cup ToSet(collect.pending)
  BY <1>1, ToSetConcat DEF Sent
<1>. QED
  BY <1>1, <1>2 DEF Sent

LEMMA ReplyIsSome == Nothing \notin Reply
BY WorkerAssumption DEF Reply, Nothing, Err

LEMMA CollectShut == ASSUME ~collect'.open PROVE CollectInv' /\ GatheredInv'
BY DEF CollectInv, GatheredInv

LEMMA FinishShuts ==
  ASSUME GatherOK, pc \notin Ended, pass \in {"only", "collect", "real"}, NEW outcome, Finish(outcome)
  PROVE  ~collect'.open
BY Empties DEF Finish, GatherOK, gather

\* A batch is sent: what was pending is asked.
LEMMA FlushCollects ==
  ASSUME TypeOK, CollectInv, collect.open, ~InFlight, NEW pending \in Seq(Args), NEW by,
         by # "call", Flush(pending, by), IsInjective(asked \o pending),
         collect.placeholder # Null
  PROVE  CollectInv'
<1>1. /\ collect' = [collect EXCEPT !.invoked = TRUE, !.pending = <<>>,
                                  !.queued = @ \cup ToSet(pending)]
      /\ asked' = asked \o pending /\ asked' \in Seq(Args) /\ caller' = by
  BY DEF Flush, Exchange, TypeOK
<1>2. /\ collect'.pending = <<>> /\ collect'.placeholder = collect.placeholder
      /\ collect'.queued = collect.queued \cup ToSet(pending)
  BY <1>1 DEF TypeOK
<1>3. asked' \o collect'.pending = asked \o pending
  BY <1>1, <1>2, ConcatEmptySeq
<1>4. ToSet(asked') \subseteq collect'.queued
  BY <1>1, <1>2, SentTypes, ToSetConcat
<1>. QED
  BY <1>2, <1>3, <1>4 DEF CollectInv

LEMMA CollectKept ==
  ASSUME CollectInv, UNCHANGED <<collect, asked, prefetched>>,
         \/ UNCHANGED <<pc, caller, values, statement>>
         \/ ~InFlight /\ ~InFlight'
         \/ InFlight /\ InFlight' /\ UNCHANGED <<caller, values, statement>>
         \/ InFlight /\ ~InFlight' /\ caller # "call"
  PROVE  CollectInv'
BY AskingWaits DEF CollectInv, InFlight

LEMMA KeepCollects ==
  ASSUME TypeOK, RequestInv, CollectInv, InFlight, caller = "call", NEW reply \in Reply,
         Keep(Asking, reply), UNCHANGED asked, ~InFlight'
  PROVE  CollectInv'
<1>0. Asking \in Args /\ ~collect.open => ~collect'.open
  BY DEF RequestInv, Keep, gather
<1>1. CASE ~collect.open
  BY <1>0, <1>1, CollectShut DEF RequestInv
<1>2. CASE collect.open
  <2>1. /\ prefetched' = [prefetched EXCEPT ![Asking] = reply]
        /\ collect' = [collect EXCEPT !.queued = @ \cup {Asking},
                                     !.placeholder = IF reply \in Args THEN reply ELSE @]
        /\ Asking \in Args
    BY <1>2 DEF Keep, RequestInv
  <2>2. /\ collect'.pending = collect.pending /\ collect'.queued = collect.queued \cup {Asking}
        /\ collect'.placeholder = Null => collect.placeholder = Null
    BY <2>1, WorkerAssumption DEF TypeOK
  <2>3. \A a \in Args : prefetched'[a] = IF a = Asking THEN reply ELSE prefetched[a]
    BY <2>1 DEF TypeOK
  <2>4. ToSet(asked) \subseteq Args /\ asked' = asked
    BY DEF TypeOK, ToSet
  <2>. QED
    BY <1>2, <2>2, <2>3, <2>4, ReplyIsSome DEF CollectInv
<1>. QED
  BY <1>1, <1>2

LEMMA RepliedCollects ==
  ASSUME TypeOK, RequestInv, CollectInv, InFlight, caller = "call", NEW reply \in Reply,
         Replied(reply), UNCHANGED asked
  PROVE  CollectInv'
<1>1. request.args[1] = Asking /\ pc \notin Ended /\ pass \in {"only", "collect", "real"}
  BY DEF RequestInv, InFlight, Ended, TypeOK
<1>2. ASSUME Finish("failed") PROVE CollectInv'
  BY <1>1, <1>2, FinishShuts, CollectShut, TypeParts
<1>. QED
  BY <1>1, <1>2, KeepCollects DEF Replied, InFlight

LEMMA StepCollects == ASSUME TypeOK, RequestInv, PipeInv, CollectInv, [Next]_vars PROVE CollectInv'
<1>0. GatherOK /\ pass \in {"only", "collect", "real"}
  BY TypeParts DEF TypeOK
<1>1. ASSUME NEW s \in Statements, Query(s) PROVE CollectInv'
  <2>1. collect' = Collect /\ asked' = <<>> /\ prefetched' = NoReplies
    BY <1>1 DEF Query, Run
  <2>2. IsInjective(<<>> \o <<>>) /\ ToSet(<<>>) = {}
    BY DEF IsInjective, ToSet
  <2>. QED
    BY <2>1, <2>2, Empties DEF CollectInv
<1>2. ASSUME NEW s \in Statements, Direct(s) PROVE CollectInv'
  BY <1>0, <1>2, CollectShut DEF Direct, Run, gather, GatherOK
<1>3. ASSUME Answer \/ Garble \/ Crash PROVE CollectInv'
  BY <1>3, CollectKept DEF Answer, Garble, Crash, gather, run, call, ghost
<1>4. ASSUME Take \/ Send \/ Spawn PROVE CollectInv'
  BY <1>4, CollectKept DEF Take, Send, Spawn, gather, run, call, ghost, InFlight
<1>5. ASSUME NEW outcome, Finish(outcome), pc \notin Ended PROVE CollectInv'
  BY <1>0, <1>5, FinishShuts, CollectShut
<1>6. ASSUME RunEnds PROVE CollectInv'
  <2>1. CASE pass = "collect"
    BY <1>6, <2>1, CollectKept DEF RunEnds, EndRun, gather, ghost, InFlight
  <2>2. CASE pass # "collect"
    BY <1>5, <1>6, <2>2 DEF RunEnds, EndRun, Ended
  <2>. QED
    BY <2>1, <2>2
<1>7. ASSUME EndCollect PROVE CollectInv'
  <2>1. pc = "collected" /\ pc \notin Ended /\ pass = "collect" /\ collect.open /\ ~InFlight
    BY <1>0, <1>7 DEF EndCollect, Ended, TypeOK, InFlight
  <2>2. CASE collect.pending # <<>>
    <3>1. Flush(collect.pending, "end") /\ collect.pending \in Seq(Args)
      BY <1>0, <1>7, <2>2 DEF EndCollect, GatherOK
    <3>. QED
      BY <2>1, <2>2, <3>1, FlushCollects DEF CollectInv
  <2>3. CASE collect.pending = <<>> /\ collect.invoked
    BY <1>7, <2>3, Empties, CollectShut DEF EndCollect
  <2>4. CASE collect.pending = <<>> /\ ~collect.invoked
    BY <1>5, <1>7, <2>1, <2>4 DEF EndCollect
  <2>. QED
    BY <2>2, <2>3, <2>4
<1>8. ASSUME Hit PROVE CollectInv'
  <2>1. pc = "run" /\ pc \notin Ended /\ UNCHANGED asked /\ ~InFlight
    BY <1>8 DEF Hit, Calling, Ended, ghost, InFlight
  <2>2. ASSUME UNCHANGED gather, pc' \in {"run", "collected"} PROVE CollectInv'
    BY <2>1, <2>2, CollectKept DEF gather, InFlight
  <2>. QED
    BY <1>5, <1>8, <2>1, <2>2 DEF Hit, Return, EndRun
<1>9. ASSUME StandIn PROVE CollectInv'
  <2> DEFINE new == Asking \notin collect.queued
             pending == IF new THEN Append(collect.pending, Asking) ELSE collect.pending
  <2>1. /\ pc = "run" /\ ~InFlight /\ Asking \in Args /\ collect.open
        /\ collect.placeholder # Null
    BY <1>9 DEF StandIn, Calling, Standing, InFlight
  <2>2. /\ asked \in Seq(Args) /\ collect.pending \in Seq(Args) /\ Sent \in Seq(Args)
        /\ ToSet(Sent) \subseteq collect.queued /\ IsInjective(Sent)
        /\ ToSet(asked) \subseteq collect.queued
    BY <2>1, SentTypes
  <2>3. pending \in Seq(Args) /\ IsInjective(asked \o pending)
    <3>1. CASE new
      <4>1. IsInjective(Append(Sent, Asking))
        BY <2>1, <2>2, <3>1, InjectiveAppend
      <4>2. asked \o Append(collect.pending, Asking) = Append(Sent, Asking)
        BY <2>1, <2>2 DEF Sent
      <4>3. pending = Append(collect.pending, Asking) /\ pending \in Seq(Args)
        BY <2>1, <2>2, <3>1
      <4>. QED
        BY <4>1, <4>2, <4>3
    <3>2. CASE ~new
      BY <2>2, <3>2 DEF Sent
    <3>. QED
      BY <3>1, <3>2
  <2>4. CASE new /\ Len(pending) >= batch
    <3>1. Flush(pending, "queue")
      BY <1>9, <2>4 DEF StandIn
    <3> HIDE DEF pending
    <3>. QED
      BY <2>1, <2>3, <3>1, FlushCollects
  <2>5. CASE ~(new /\ Len(pending) >= batch)
    <3>1. /\ collect' = [collect EXCEPT !.invoked = TRUE, !.pending = pending,
                                        !.queued = @ \cup {Asking}]
          /\ asked' = asked
      BY <1>9, <2>5 DEF StandIn
    <3> HIDE DEF pending
    <3>2. /\ collect'.pending = pending /\ collect'.placeholder = collect.placeholder
          /\ collect'.queued = collect.queued \cup {Asking}
      BY <1>0, <3>1 DEF GatherOK
    <3>. QED
      BY <2>1, <2>2, <2>3, <3>1, <3>2 DEF CollectInv
  <2>. QED
    BY <2>4, <2>5
<1>10. ASSUME Single PROVE CollectInv'
  <2>1. /\ pc = "run" /\ ~InFlight /\ Asking \in Args /\ prefetched[Asking] = Nothing
        /\ collect' = [collect EXCEPT !.invoked = collect.open]
        /\ asked' = asked \o <<Asking>> /\ UNCHANGED <<prefetched, statement, values>>
        /\ caller' = "call" /\ InFlight' /\ ~Standing
    BY <1>10 DEF Single, Calling, Exchange, run, InFlight
  <2>2. CASE ~collect.open
    BY <1>0, <2>1, <2>2, CollectShut DEF GatherOK
  <2>3. CASE collect.open
    <3>1. collect.placeholder = Null /\ collect.pending = <<>> /\ Asking \notin ToSet(asked)
      BY <2>1, <2>3 DEF Standing, CollectInv
    <3>2. asked \in Seq(Args) /\ IsInjective(asked) /\ ToSet(asked) \subseteq collect.queued
      BY <2>1, <2>3, <3>1, SentTypes, ConcatEmptySeq DEF Sent
    <3>3. asked' = Append(asked, Asking) /\ asked' \in Seq(Args)
      BY <2>1, <3>2
    <3>4. IsInjective(asked') /\ ToSet(asked') = ToSet(asked) \cup {Asking}
      <4>1. IsInjective(Append(asked, Asking))
        BY <2>1, <3>1, <3>2, InjectiveAppend
      <4>2. ToSet(Append(asked, Asking)) = ToSet(asked) \cup {Asking}
        BY <2>1, <3>2, ToSetAppend
      <4>. QED
        BY <3>3, <4>1, <4>2
    <3>5. /\ collect'.pending = <<>> /\ collect'.queued = collect.queued
          /\ collect'.placeholder = Null /\ Asking' = Asking
      BY <1>0, <2>1, <3>1, AskingWaits DEF GatherOK
    <3>6. asked' \o collect'.pending = asked'
      BY <3>3, <3>5, ConcatEmptySeq
    <3>7. \A a \in ToSet(asked) : prefetched'[a] # Nothing
      BY <2>1, <2>3, <3>1 DEF CollectInv
    <3>. QED
      BY <2>1, <3>2, <3>4, <3>5, <3>6, <3>7 DEF CollectInv
  <2>. QED
    BY <2>2, <2>3
<1>11. ASSUME SpawnFails \/ SendRefused \/ Timeout \/ Closed PROVE CollectInv'
  <2>1. /\ NoReply /\ InFlight /\ caller \in {"call", "queue", "end"} /\ pc \notin Ended
        /\ UNCHANGED asked /\ Err \in Reply
    BY <1>11 DEF SpawnFails, SendRefused, Timeout, Closed, InFlight, TypeOK, Ended, NoReply, Reply
  <2>2. CASE caller = "call"
    BY <2>1, <2>2, RepliedCollects DEF NoReply
  <2>3. CASE caller = "queue"
    BY <2>1, <2>3, CollectKept DEF NoReply, gather, InFlight
  <2>4. CASE caller = "end"
    BY <1>5, <2>1, <2>4 DEF NoReply
  <2>. QED
    BY <2>1, <2>2, <2>3, <2>4
<1>12. ASSUME Recv PROVE CollectInv'
  <2> DEFINE replies == Parsed(Head(worker.lines))
  <2>1. /\ InFlight /\ UNCHANGED asked
        /\ request.args # <<>> /\ request.args \in Seq(Args)
        /\ \A i \in DOMAIN request.args : replies[i] \in Reply
    BY <1>12, RecvTells DEF Recv, InFlight
  <2>2. CASE caller = "call"
    <3>1. Replied(replies[1]) /\ 1 \in DOMAIN request.args
      BY <1>12, <2>1, <2>2 DEF Recv
    <3> HIDE DEF replies
    <3>. QED
      BY <2>1, <2>2, <3>1, RepliedCollects
  <2>3. CASE caller # "call"
    <3>1. /\ prefetched' = [a \in Args |-> IF a \in ToSet(request.args)
                                          THEN ReplyOf(a, replies) ELSE prefetched[a]]
          /\ UNCHANGED collect /\ ~InFlight'
      BY <1>12, <2>3 DEF Recv, InFlight
    <3>2. ASSUME NEW a \in Args, prefetched[a] # Nothing PROVE prefetched'[a] # Nothing
      <4>1. CASE a \in ToSet(request.args)
        <5>1. ReplyOf(a, replies) \in Reply
          BY <2>1, <4>1 DEF ReplyOf, ToSet
        <5>. QED
          BY <3>1, <4>1, <5>1, ReplyIsSome
      <4>2. CASE a \notin ToSet(request.args)
        BY <3>1, <3>2, <4>2
      <4>. QED
        BY <4>1, <4>2
    <3>3. ToSet(asked) \subseteq Args
      BY DEF TypeOK, ToSet
    <3>. QED
      BY <2>1, <2>3, <3>1, <3>2, <3>3 DEF CollectInv
  <2>. QED
    BY <2>2, <2>3
<1>13. CASE UNCHANGED vars
  BY <1>13, CollectKept DEF vars, gather, run, call, ghost
<1>. QED
  BY <1>1, <1>2, <1>3, <1>4, <1>6, <1>7, <1>8, <1>9, <1>10, <1>11, <1>12, <1>13
     DEF Next, WorkerStep, CallerStep

-----------------------------------------------------------------------------
(* The second run finds what the first gathered. *)

LEMMA AskingIs ==
  ASSUME TypeOK, Asking # Done, statement[Len(values) + 1] # Nested
  PROVE  Asking = statement[Len(values) + 1]
<1>1. Len(values) # Len(statement)
  BY AskingType
<1>. QED
  BY <1>1 DEF Asking, Ask

\* The parts of GatheredInv.
Filed     == \A a \in Args : prefetched[a] # Nothing => a \in collect.queued
Covers    == \A i \in DOMAIN values : statement[i] # Nested => statement[i] \in collect.queued
Queueing  == InFlight /\ caller = "queue" => Asking \in collect.queued
OnTheWay  == \A a \in collect.queued :
               \/ prefetched[a] # Nothing
               \/ a \in ToSet(collect.pending)
               \/ InFlight /\ caller # "call" /\ a \in ToSet(request.args)
AtItsEnd  == pc = "collected" \/ (InFlight /\ caller = "end") =>
               \/ Asking \in {Done, Fails}
               \/ Asking \in collect.queued /\ answer[Asking] = Err

LEMMA GatheredParts ==
  GatheredInv <=> (collect.open => /\ Filed /\ Covers /\ Queueing
                                   /\ trouble = {} => OnTheWay /\ AtItsEnd)
BY DEF GatheredInv, Filed, Covers, Queueing, OnTheWay, AtItsEnd

LEMMA CoversGrows ==
  ASSUME TypeOK, Covers, Asking \in Args, Asking \in collect'.queued,
         collect.queued \subseteq collect'.queued, statement' = statement,
         NEW v \in Value, values' = Append(values, v)
  PROVE  Covers'
<1>1. /\ DOMAIN values' = 1 .. Len(values) + 1 /\ DOMAIN values = 1 .. Len(values)
      /\ Len(values) \in Nat
  BY DEF TypeOK
<1>2. \A i \in 1 .. Len(values) + 1 : i \in 1 .. Len(values) \/ i = Len(values) + 1
  BY <1>1
<1>3. statement[Len(values) + 1] # Nested => statement[Len(values) + 1] = Asking
  BY AskingIs, WorkerAssumption DEF Value
<1>. QED
  BY <1>1, <1>2, <1>3 DEF Covers

LEMMA GatheredKept ==
  ASSUME GatheredInv,
         UNCHANGED <<collect, prefetched, values, statement, answer, request, caller>>,
         trouble \subseteq trouble',
         \/ UNCHANGED pc
         \/ InFlight /\ InFlight'
         \/ pc = "run" /\ pc' = "collected" /\
            \/ Asking \in {Done, Fails}
            \/ Asking \in Args /\ prefetched[Asking] = Err /\ answer[Asking] = Err
            \/ Asking \in Args /\ prefetched[Asking] = Err /\ trouble' # {}
  PROVE  GatheredInv'
<1>1. Asking' = Asking /\ (trouble' = {} => trouble = {}) /\ Err # Nothing
  BY AskingWaits DEF Err, Nothing
<1>2. CASE UNCHANGED pc \/ (InFlight /\ InFlight')
  BY <1>1, <1>2 DEF GatheredInv, InFlight
<1>3. CASE pc = "run" /\ pc' = "collected" /\
            \/ Asking \in {Done, Fails}
            \/ Asking \in Args /\ prefetched[Asking] = Err /\ answer[Asking] = Err
            \/ Asking \in Args /\ prefetched[Asking] = Err /\ trouble' # {}
  BY <1>1, <1>3 DEF GatheredInv, InFlight
<1>. QED
  BY <1>2, <1>3

\* What is pending is sent off.
LEMMA FlushGathered ==
  ASSUME TypeOK, GatheredInv, collect.open, ~InFlight, NEW pending \in Seq(Args),
         NEW by \in {"queue", "end"}, Flush(pending, by),
         UNCHANGED <<statement, values, answer, trouble>>,
         ToSet(collect.pending) \subseteq ToSet(pending),
         by = "queue" => Asking \in collect.queued \cup ToSet(pending),
         by = "end" => pc = "collected"
  PROVE  GatheredInv'
<1>1. /\ collect' = [collect EXCEPT !.invoked = TRUE, !.pending = <<>>,
                                  !.queued = @ \cup ToSet(pending)]
      /\ caller' = by /\ request'.args = pending /\ prefetched' = prefetched /\ InFlight'
  BY DEF Flush, Exchange, InFlight
<1>2. /\ collect'.queued = collect.queued \cup ToSet(pending)
      /\ pc' # "collected" /\ Asking' = Asking
  BY <1>1, AskingWaits DEF TypeOK, Flush, Exchange
<1>3. /\ Filed /\ Covers /\ (trouble = {} => OnTheWay /\ AtItsEnd)
  BY GatheredParts
<1>4. Filed' /\ Covers' /\ Queueing'
  BY <1>1, <1>2, <1>3 DEF Filed, Covers, Queueing
<1>5. ASSUME trouble = {} PROVE OnTheWay'
  BY <1>1, <1>2, <1>3, <1>5 DEF OnTheWay
<1>6. ASSUME trouble = {} PROVE AtItsEnd'
  BY <1>1, <1>2, <1>3, <1>6 DEF AtItsEnd
<1>. QED
  BY <1>4, <1>5, <1>6 DEF GatheredInv, Filed, Covers, Queueing, OnTheWay, AtItsEnd

LEMMA KeepGathered ==
  ASSUME TypeOK, RequestInv, GatheredInv, InFlight, caller = "call", NEW reply \in Reply,
         Keep(Asking, reply), UNCHANGED <<answer, statement>>, trouble \subseteq trouble',
         \/ reply \in Value /\ values' = Append(values, reply) /\ pc' = "run"
         \/ UNCHANGED values /\ pc' = "collected" /\ (answer[Asking] = Err \/ trouble' # {})
  PROVE  GatheredInv'
<1>1. CASE ~collect.open
  BY <1>1, CollectShut DEF Keep, gather
<1>2. CASE collect.open
  <2>1. /\ prefetched' = [prefetched EXCEPT ![Asking] = reply]
        /\ collect' = [collect EXCEPT !.queued = @ \cup {Asking},
                                     !.placeholder = IF reply \in Args THEN reply ELSE @]
        /\ Asking \in Args
    BY <1>2 DEF Keep, RequestInv
  <2>2. /\ collect'.pending = collect.pending /\ collect'.queued = collect.queued \cup {Asking}
    BY <2>1 DEF TypeOK
  <2>3. /\ \A a \in Args : prefetched'[a] = IF a = Asking THEN reply ELSE prefetched[a]
        /\ collect.queued \subseteq Args /\ reply # Nothing
    BY <2>1, ReplyIsSome DEF TypeOK
  <2>4. /\ Filed /\ Covers /\ (trouble = {} => OnTheWay)
    BY <1>2, GatheredParts
  <2>5. Filed' /\ Queueing' /\ ~InFlight' /\ (trouble' = {} => trouble = {})
    BY <2>1, <2>2, <2>3, <2>4 DEF Filed, Queueing, InFlight
  <2>6. Covers'
    <3>1. CASE values' = values
      BY <2>2, <2>4, <3>1 DEF Covers
    <3>2. CASE reply \in Value /\ values' = Append(values, reply)
      BY <2>1, <2>2, <2>4, <3>2, CoversGrows
    <3>. QED
      BY <3>1, <3>2
  <2>7. ASSUME trouble' = {} PROVE OnTheWay'
    <3>1. ASSUME NEW a \in collect'.queued
          PROVE  prefetched'[a] # Nothing \/ a \in ToSet(collect'.pending)
      <4>1. CASE a = Asking
        BY <2>1, <2>3, <4>1
      <4>2. CASE a # Asking
        <5>1. a \in collect.queued /\ a \in Args
          BY <2>2, <2>3, <3>1, <4>2
        <5>2. prefetched[a] # Nothing \/ a \in ToSet(collect.pending)
          BY <2>4, <2>5, <2>7, <5>1 DEF OnTheWay
        <5>. QED
          BY <2>2, <2>3, <4>2, <5>1, <5>2
      <4>. QED
        BY <4>1, <4>2
    <3>. QED
      BY <3>1 DEF OnTheWay
  <2>8. ASSUME trouble' = {} PROVE AtItsEnd'
    <3>1. CASE pc' = "run"
      BY <2>5, <3>1 DEF AtItsEnd
    <3>2. CASE UNCHANGED values /\ pc' = "collected" /\ (answer[Asking] = Err \/ trouble' # {})
      BY <2>2, <2>8, <3>2, AskingWaits DEF AtItsEnd
    <3>. QED
      BY <3>1, <3>2
  <2>. QED
    BY <2>5, <2>6, <2>7, <2>8 DEF GatheredInv, Filed, Covers, Queueing, OnTheWay, AtItsEnd
<1>. QED
  BY <1>1, <1>2

LEMMA RepliedGathered ==
  ASSUME TypeOK, RequestInv, GatheredInv, InFlight, caller = "call", NEW reply \in Reply,
         Replied(reply), UNCHANGED <<answer, statement>>, trouble \subseteq trouble',
         reply = answer[request.args[1]] \/ (reply = Err /\ trouble' # {})
  PROVE  GatheredInv'
<1>1. request.args[1] = Asking /\ pc \notin Ended /\ pass \in {"only", "collect", "real"}
  BY DEF RequestInv, InFlight, Ended, TypeOK
<1>2. ASSUME Finish("failed") PROVE GatheredInv'
  BY <1>1, <1>2, FinishShuts, CollectShut, TypeParts
<1>. QED
  BY <1>1, <1>2, KeepGathered DEF Replied, Reply

LEMMA StepGathered ==
  ASSUME TypeOK, RequestInv, PipeInv, FiledInv, GatheredInv, [Next]_vars PROVE GatheredInv'
<1>0. GatherOK /\ pass \in {"only", "collect", "real"} /\ Err # Nothing
  BY TypeParts DEF TypeOK, Err, Nothing
<1>1. ASSUME NEW s \in Statements, Query(s) PROVE GatheredInv'
  <2>1. collect' = Collect /\ values' = <<>> /\ prefetched' = NoReplies /\ pc' = "run"
    BY <1>1 DEF Query, Run
  <2>. QED
    BY <2>1, Empties DEF GatheredInv, NoReplies, InFlight
<1>2. ASSUME NEW s \in Statements, Direct(s) PROVE GatheredInv'
  BY <1>0, <1>2, CollectShut DEF Direct, Run, gather, GatherOK
<1>3. ASSUME WorkerStep \/ Send \/ Spawn PROVE GatheredInv'
  BY <1>3, GatheredKept DEF WorkerStep, Answer, Garble, Crash, Take, Send, Spawn, gather, run, call,
                            ghost, InFlight
<1>4. ASSUME NEW outcome, Finish(outcome), pc \notin Ended PROVE GatheredInv'
  BY <1>0, <1>4, FinishShuts, CollectShut
<1>5. ASSUME RunEnds PROVE GatheredInv'
  <2>1. CASE pass = "collect"
    BY <1>5, <2>1, GatheredKept DEF RunEnds, EndRun, process, gather, run, call, ghost
  <2>2. CASE pass # "collect"
    BY <1>4, <1>5, <2>2 DEF RunEnds, EndRun, Ended
  <2>. QED
    BY <2>1, <2>2
<1>6. ASSUME EndCollect PROVE GatheredInv'
  <2>1. /\ pc = "collected" /\ pc \notin Ended /\ pass = "collect" /\ collect.open /\ ~InFlight
        /\ UNCHANGED <<answer, trouble>>
    BY <1>0, <1>6 DEF EndCollect, Ended, TypeOK, InFlight, process
  <2>2. CASE collect.pending # <<>>
    <3>1. Flush(collect.pending, "end") /\ collect.pending \in Seq(Args) /\ UNCHANGED run
      BY <1>0, <1>6, <2>2 DEF EndCollect, GatherOK
    <3>. QED
      BY <2>1, <2>2, <3>1, FlushGathered DEF run
  <2>3. CASE collect.pending = <<>> /\ collect.invoked
    BY <1>6, <2>3, Empties, CollectShut DEF EndCollect
  <2>4. CASE collect.pending = <<>> /\ ~collect.invoked
    BY <1>4, <1>6, <2>1, <2>4 DEF EndCollect
  <2>. QED
    BY <2>2, <2>3, <2>4
<1>7. ASSUME Hit PROVE GatheredInv'
  <2>1. /\ pc = "run" /\ pc \notin Ended /\ ~InFlight /\ Asking \in Args
        /\ prefetched[Asking] # Nothing /\ Return(prefetched[Asking])
        /\ UNCHANGED <<answer, statement, pass, request, caller, trouble>>
    BY <1>7 DEF Hit, Calling, Ended, ghost, InFlight, process, call
  <2>2. CASE prefetched[Asking] # Err
    <3>1. /\ values' = Append(values, prefetched[Asking]) /\ pc' = "run" /\ UNCHANGED gather
          /\ prefetched[Asking] \in Value
      BY <1>0, <2>1, <2>2 DEF Return, GatherOK, Reply
    <3>2. CASE ~collect.open
      BY <3>1, <3>2, CollectShut DEF gather
    <3>3. CASE collect.open
      <4>1. Filed /\ Covers /\ Queueing /\ (trouble = {} => OnTheWay)
        BY <3>3, GatheredParts
      <4>2. Covers'
        BY <2>1, <3>1, <4>1, CoversGrows DEF Filed, gather
      <4>3. Filed' /\ Queueing' /\ AtItsEnd'
        BY <2>1, <3>1, <4>1 DEF Filed, Queueing, AtItsEnd, InFlight, gather
      <4>4. ASSUME trouble' = {} PROVE OnTheWay'
        BY <2>1, <3>1, <4>1, <4>4 DEF OnTheWay, InFlight, gather
      <4>. QED
        BY <4>2, <4>3, <4>4 DEF GatheredInv, Filed, Covers, Queueing, OnTheWay, AtItsEnd
    <3>. QED
      BY <3>2, <3>3
  <2>3. CASE prefetched[Asking] = Err
    <3>1. EndRun("failed") /\ UNCHANGED values
      BY <2>1, <2>3 DEF Return
    <3>2. answer[Asking] = Err \/ trouble # {}
      BY <2>1, <2>3 DEF FiledInv
    <3>3. CASE pass = "collect"
      BY <2>1, <2>3, <3>1, <3>2, <3>3, GatheredKept DEF EndRun, gather
    <3>4. CASE pass # "collect"
      BY <1>4, <2>1, <3>1, <3>4 DEF EndRun
    <3>. QED
      BY <3>3, <3>4
  <2>. QED
    BY <2>2, <2>3
<1>8. ASSUME StandIn PROVE GatheredInv'
  <2> DEFINE new == Asking \notin collect.queued
             pending == IF new THEN Append(collect.pending, Asking) ELSE collect.pending
  <2>1. /\ pc = "run" /\ ~InFlight /\ Asking \in Args /\ collect.open
        /\ UNCHANGED <<answer, statement, pass, trouble>>
    BY <1>8 DEF StandIn, Calling, Standing, InFlight, process
  <2>2. /\ pending \in Seq(Args)
        /\ ToSet(pending) = ToSet(collect.pending) \cup (IF new THEN {Asking} ELSE {})
    <3>1. collect.pending \in Seq(Args)
      BY <1>0 DEF GatherOK
    <3>2. ToSet(Append(collect.pending, Asking)) = ToSet(collect.pending) \cup {Asking}
      BY <2>1, <3>1, ToSetAppend
    <3>. QED
      BY <2>1, <3>1, <3>2
  <2>3. CASE new /\ Len(pending) >= batch
    <3>1. Flush(pending, "queue") /\ UNCHANGED values
      BY <1>8, <2>3 DEF StandIn
    <3>2. Asking \in ToSet(pending) /\ ToSet(collect.pending) \subseteq ToSet(pending)
      BY <2>2, <2>3
    <3> HIDE DEF pending
    <3>. QED
      BY <2>1, <2>2, <3>1, <3>2, FlushGathered
  <2>4. CASE ~(new /\ Len(pending) >= batch)
    <3>1. /\ collect' = [collect EXCEPT !.invoked = TRUE, !.pending = pending,
                                        !.queued = @ \cup {Asking}]
          /\ values' = Append(values, collect.placeholder)
          /\ UNCHANGED <<prefetched, call, pc, asked>>
      BY <1>8, <2>4 DEF StandIn
    <3>2. /\ collect'.pending = pending /\ collect.placeholder \in Value
          /\ collect'.queued = collect.queued \cup {Asking}
      BY <1>0, <3>1 DEF GatherOK
    <3>3. Filed /\ Covers /\ Queueing /\ (trouble = {} => OnTheWay)
      BY <2>1, GatheredParts
    <3>4. Covers'
      BY <2>1, <3>1, <3>2, <3>3, CoversGrows
    <3>5. Filed' /\ Queueing' /\ AtItsEnd'
      BY <2>1, <3>1, <3>2, <3>3 DEF Filed, Queueing, AtItsEnd, InFlight
    <3>6. ASSUME trouble' = {} PROVE OnTheWay'
      <4> HIDE DEF pending
      <4>. QED
        BY <2>1, <2>2, <3>1, <3>2, <3>3, <3>6 DEF OnTheWay, InFlight
    <3>. QED
      BY <3>4, <3>5, <3>6 DEF GatheredInv, Filed, Covers, Queueing, OnTheWay, AtItsEnd
  <2>. QED
    BY <2>3, <2>4
<1>9. ASSUME Single PROVE GatheredInv'
  <2>1. /\ pc = "run" /\ ~InFlight /\ collect' = [collect EXCEPT !.invoked = collect.open]
        /\ UNCHANGED <<prefetched, statement, values, answer, trouble>>
        /\ caller' = "call" /\ InFlight' /\ pc' # "collected"
    BY <1>9 DEF Single, Calling, Exchange, run, process, InFlight
  <2>2. collect'.queued = collect.queued /\ collect'.pending = collect.pending
        /\ collect'.open = collect.open
    BY <1>0, <2>1 DEF GatherOK
  <2>. QED
    BY <2>1, <2>2 DEF GatheredInv
<1>10. ASSUME SpawnFails \/ SendRefused \/ Timeout \/ Closed PROVE GatheredInv'
  <2>1. /\ NoReply /\ InFlight /\ caller \in {"call", "queue", "end"} /\ pc \notin Ended
        /\ UNCHANGED <<answer, statement>> /\ Err \in Reply /\ trouble' # {} /\ trouble \subseteq trouble'
    BY <1>10 DEF SpawnFails, SendRefused, Timeout, Closed, InFlight, TypeOK, Ended, NoReply, Reply
  <2>2. CASE caller = "call"
    BY <2>1, <2>2, RepliedGathered DEF NoReply
  <2>3. CASE caller = "queue"
    BY <2>1, <2>3 DEF NoReply, gather, InFlight, GatheredInv
  <2>4. CASE caller = "end"
    BY <1>4, <2>1, <2>4 DEF NoReply
  <2>. QED
    BY <2>1, <2>2, <2>3, <2>4
<1>11. ASSUME Recv PROVE GatheredInv'
  <2> DEFINE replies == Parsed(Head(worker.lines))
  <2>1. /\ InFlight /\ UNCHANGED <<answer, statement>> /\ trouble \subseteq trouble'
        /\ request.args # <<>> /\ request.args \in Seq(Args)
        /\ \A i \in DOMAIN request.args :
             /\ replies[i] \in Reply
             /\ replies[i] = answer[request.args[i]] \/ (replies[i] = Err /\ trouble' # {})
    BY <1>11, RecvTells DEF Recv, InFlight
  <2>2. CASE caller = "call"
    <3>1. Replied(replies[1]) /\ 1 \in DOMAIN request.args
      BY <1>11, <2>1, <2>2 DEF Recv
    <3> HIDE DEF replies
    <3>. QED
      BY <2>1, <2>2, <3>1, RepliedGathered
  <2>3. CASE caller # "call"
    <3>1. /\ prefetched' = [a \in Args |-> IF a \in ToSet(request.args)
                                          THEN ReplyOf(a, replies) ELSE prefetched[a]]
          /\ UNCHANGED collect /\ ~InFlight'
          /\ caller \in {"queue", "end"}
      BY <1>11, <2>3 DEF Recv, InFlight, TypeOK
    <3>2. ASSUME NEW a \in Args, a \in ToSet(request.args) PROVE prefetched'[a] # Nothing
      <4>1. ReplyOf(a, replies) \in Reply
        BY <2>1, <3>2 DEF ReplyOf, ToSet
      <4>. QED
        BY <3>1, <3>2, <4>1, ReplyIsSome
    <3>3. \A a \in Args \ ToSet(request.args) : prefetched'[a] = prefetched[a]
      BY <3>1
    <3>4. /\ ToSet(request.args) \subseteq collect.queued /\ pass = "collect" /\ collect.open
          /\ collect.queued \subseteq Args /\ collect.placeholder \in Value
          /\ caller = "queue" => Asking \in Args
      BY <1>0, <2>1, <2>3 DEF RequestInv, GatherOK, InFlight, Ended
    <3>5. /\ Filed /\ Covers /\ Queueing /\ (trouble = {} => OnTheWay /\ AtItsEnd)
          /\ (trouble' = {} => trouble = {})
      BY <2>1, <3>4, GatheredParts
    <3>6. Filed' /\ Queueing'
      BY <3>1, <3>2, <3>3, <3>4, <3>5 DEF Filed, Queueing
    <3>7. ASSUME trouble' = {} PROVE OnTheWay'
      BY <3>1, <3>2, <3>3, <3>4, <3>5, <3>7 DEF OnTheWay
    <3>8. CASE caller = "queue"
      <4>1. values' = Append(values, collect.placeholder) /\ pc' = "run"
        BY <1>11, <3>8 DEF Recv
      <4>2. Covers'
        BY <2>1, <3>1, <3>4, <3>5, <3>8, <4>1, CoversGrows DEF Queueing
      <4>3. AtItsEnd'
        BY <3>1, <4>1 DEF AtItsEnd
      <4>. QED
        BY <3>6, <3>7, <4>2, <4>3 DEF GatheredInv, Filed, Covers, Queueing, OnTheWay, AtItsEnd
    <3>9. CASE caller = "end"
      <4>1. UNCHANGED values /\ pc' = "collected"
        BY <1>11, <3>9 DEF Recv
      <4>2. Covers'
        BY <2>1, <3>1, <3>5, <4>1 DEF Covers
      <4>3. ASSUME trouble' = {} PROVE AtItsEnd'
        BY <2>1, <3>1, <3>5, <3>9, <4>1, <4>3, AskingWaits DEF AtItsEnd
      <4>. QED
        BY <3>6, <3>7, <4>2, <4>3 DEF GatheredInv, Filed, Covers, Queueing, OnTheWay, AtItsEnd
    <3>. QED
      BY <3>1, <3>8, <3>9
  <2>. QED
    BY <2>2, <2>3
<1>12. CASE UNCHANGED vars
  BY <1>12, GatheredKept DEF vars, process, gather, run, call, ghost
<1>. QED
  BY <1>1, <1>2, <1>3, <1>5, <1>6, <1>7, <1>8, <1>9, <1>10, <1>11, <1>12 DEF Next, CallerStep

\* The second run is of a statement none of whose calls is nested.
Plain == Nested \notin ToSet(statement)

LEMMA PlainIs ==
  ASSUME TypeOK, Plain, NEW i \in 1 .. Len(statement)
  PROVE  statement[i] # Nested /\ statement[i] \in Args
<1>1. statement \in Seq(Args \cup {Nested})
  BY StatementType
<1>. QED
  BY <1>1 DEF Plain, ToSet

LEMMA ServedElse ==
  ASSUME pass' # "real" \/ trouble' # {} PROVE ServedInv'
BY DEF ServedInv

LEMMA ServedOver ==
  ASSUME ServedInv, trouble \subseteq trouble', pc' \in Ended,
         UNCHANGED <<pass, statement, asked>>
  PROVE  ServedInv'
BY DEF ServedInv

LEMMA StepServes ==
  ASSUME TypeOK, RequestInv, FiledInv, GatheredInv, ServedInv, [Next]_vars PROVE ServedInv'
<1>0. RunOK /\ GatherOK /\ Err # Nothing
  BY TypeParts DEF Err, Nothing
<1>1. ASSUME NEW s \in Statements, Query(s) \/ Direct(s) PROVE ServedInv'
  BY <1>1, ServedElse DEF Query, Direct, Run
<1>2. ASSUME UNCHANGED <<pass, trouble, statement, asked, pc, values, prefetched>> PROVE ServedInv'
  BY <1>2 DEF ServedInv, InFlight
<1>3. ASSUME Answer \/ Garble \/ Crash PROVE ServedInv'
  BY <1>2, <1>3 DEF Answer, Garble, Crash, gather, run, ghost
<1>4. ASSUME InFlight, UNCHANGED <<pass, statement>>, trouble \subseteq trouble',
             pc \notin Ended
      PROVE  ServedInv'
  BY <1>4 DEF ServedInv
<1>5. ASSUME Take \/ Send \/ Spawn PROVE ServedInv'
  BY <1>4, <1>5 DEF Take, Send, Spawn, run, ghost, InFlight, Ended
<1>6. ASSUME RunEnds PROVE ServedInv'
  <2>1. CASE pass = "collect"
    BY <1>6, <2>1, ServedElse DEF RunEnds, run
  <2>2. CASE pass # "collect"
    BY <1>6, <2>2, ServedOver DEF RunEnds, EndRun, Finish, run, ghost, Ended
  <2>. QED
    BY <2>1, <2>2
<1>7. ASSUME EndCollect PROVE ServedInv'
  <2>1. pc = "collected" /\ pass = "collect" /\ collect.open /\ ~InFlight /\ trouble' = trouble
    BY <1>0, <1>7 DEF EndCollect, RunOK, GatherOK, Ended, InFlight
  <2>2. CASE ~(collect.pending = <<>> /\ collect.invoked)
    BY <1>7, <2>1, <2>2, ServedElse DEF EndCollect, run
  <2>3. CASE collect.pending = <<>> /\ collect.invoked
    <3>1. /\ pass' = "real" /\ values' = <<>> /\ pc' = "run" /\ asked' = <<>>
          /\ UNCHANGED <<statement, prefetched>>
      BY <1>7, <2>3 DEF EndCollect
    <3>2. SUFFICES ASSUME trouble = {}, Plain
                   PROVE  \E n \in 0 .. Len(statement) :
                            /\ 0 <= n
                            /\ \A i \in 1 .. n : prefetched[statement[i]] # Nothing
                            /\ n < Len(statement) => prefetched[statement[n + 1]] = Err
      BY <2>1, <3>1 DEF ServedInv, Plain, InFlight
    <3>3. /\ Len(values) \in 0 .. Len(statement) /\ Len(values) \in Nat /\ Len(statement) \in Nat
          /\ DOMAIN values = 1 .. Len(values)
      BY <1>0, StatementType DEF RunOK
    <3>4. /\ Covers /\ OnTheWay /\ AtItsEnd
      BY <2>1, <3>2, GatheredParts
    <3>5. \A a \in collect.queued : prefetched[a] # Nothing
      BY <2>1, <2>3, <3>4, Empties DEF OnTheWay
    <3>6. ASSUME NEW i \in 1 .. Len(values) PROVE prefetched[statement[i]] # Nothing
      <4>1. i \in 1 .. Len(statement)
        BY <3>3
      <4>. QED
        BY <3>2, <3>3, <3>4, <3>5, <4>1, PlainIs DEF Covers
    <3>7. ASSUME Len(values) < Len(statement) PROVE prefetched[statement[Len(values) + 1]] = Err
      <4>1. Len(values) + 1 \in 1 .. Len(statement)
        BY <3>3, <3>7
      <4>2. /\ statement[Len(values) + 1] # Nested /\ statement[Len(values) + 1] \in Args
            /\ Asking # Done
        BY <3>2, <3>3, <3>7, <4>1, PlainIs, AskingType
      <4>3. Asking = statement[Len(values) + 1] /\ Asking \in Args
        BY <4>2, AskingIs
      <4>4. Asking \in collect.queued /\ answer[Asking] = Err
        BY <2>1, <3>4, <4>3, WorkerAssumption DEF AtItsEnd, Value
      <4>5. prefetched[Asking] = Err
        BY <3>5, <4>3, <4>4 DEF FiledInv
      <4>. QED
        BY <4>3, <4>5
    <3>. QED
      BY <3>3, <3>6, <3>7
  <2>. QED
    BY <2>2, <2>3
<1>8. ASSUME Hit PROVE ServedInv'
  <2>1. /\ pc = "run" /\ pc \notin Ended /\ Asking \in Args /\ prefetched[Asking] # Nothing
        /\ Return(prefetched[Asking])
        /\ UNCHANGED <<statement, pass, trouble, asked>>
    BY <1>8 DEF Hit, Calling, Ended, ghost
  <2>2. CASE pass # "real"
    BY <2>1, <2>2, ServedElse
  <2>3. CASE pass = "real" /\ prefetched[Asking] = Err
    BY <2>1, <2>3, ServedOver DEF Return, EndRun, Finish, Ended
  <2>4. CASE pass = "real" /\ prefetched[Asking] # Err
    <3>1. /\ values' = Append(values, prefetched[Asking]) /\ pc' = "run" /\ prefetched' = prefetched
      BY <2>1, <2>4 DEF Return, gather
    <3>2. /\ Len(values') = Len(values) + 1 /\ Len(values) \in Nat /\ Len(statement) \in Nat
      BY <1>0, <3>1, StatementType DEF RunOK
    <3>3. SUFFICES ASSUME trouble = {}, Plain
                   PROVE  /\ asked = <<>>
                          /\ \E n \in 0 .. Len(statement) :
                               /\ Len(values') <= n
                               /\ \A i \in 1 .. n : prefetched[statement[i]] # Nothing
                               /\ n < Len(statement) => prefetched[statement[n + 1]] = Err
      BY <2>1, <3>1 DEF ServedInv, Plain, InFlight
    <3>4. /\ asked = <<>>
          /\ \E n \in 0 .. Len(statement) :
               /\ Len(values) <= n
               /\ \A i \in 1 .. n : prefetched[statement[i]] # Nothing
               /\ n < Len(statement) => prefetched[statement[n + 1]] = Err
      BY <2>1, <2>4, <3>3 DEF ServedInv, Plain
    <3>5. PICK n \in 0 .. Len(statement) :
               /\ Len(values) <= n
               /\ \A i \in 1 .. n : prefetched[statement[i]] # Nothing
               /\ n < Len(statement) => prefetched[statement[n + 1]] = Err
      BY <3>4
    <3>6. Len(values) < Len(statement)
      BY <2>1, AskingType
    <3>7. Len(values) # n
      <4>1. SUFFICES ASSUME Len(values) = n PROVE FALSE
        OBVIOUS
      <4>2. Len(values) + 1 \in 1 .. Len(statement) /\ Asking # Done
        BY <2>1, <3>2, <3>6, WorkerAssumption DEF Value
      <4>3. Asking = statement[Len(values) + 1]
        BY <3>3, <4>2, PlainIs, AskingIs
      <4>. QED
        BY <2>4, <3>5, <3>6, <4>1, <4>3
    <3>. QED
      BY <3>2, <3>4, <3>5, <3>7
  <2>. QED
    BY <2>2, <2>3, <2>4
<1>9. ASSUME StandIn PROVE ServedInv'
  BY <1>0, <1>9, ServedElse DEF StandIn, Standing, GatherOK
<1>10. ASSUME Single PROVE ServedInv'
  <2>1. /\ pc = "run" /\ pc \notin Ended /\ Asking \in Args /\ prefetched[Asking] = Nothing
        /\ UNCHANGED <<pass, trouble, statement>>
    BY <1>10 DEF Single, Calling, Ended, run
  <2>2. SUFFICES ASSUME pass = "real", trouble = {}, Plain PROVE FALSE
    BY <2>1 DEF ServedInv, Plain
  <2>3. PICK n \in 0 .. Len(statement) :
               /\ Len(values) <= n
               /\ \A i \in 1 .. n : prefetched[statement[i]] # Nothing
               /\ n < Len(statement) => prefetched[statement[n + 1]] = Err
    BY <2>1, <2>2 DEF ServedInv, Plain
  <2>4. Len(values) < Len(statement) /\ Len(values) \in Nat /\ Len(statement) \in Nat
    BY <1>0, <2>1, AskingType, StatementType DEF RunOK
  <2>5. Len(values) + 1 \in 1 .. Len(statement) /\ Asking # Done
    BY <2>1, <2>4, WorkerAssumption DEF Value
  <2>6. Asking = statement[Len(values) + 1]
    BY <2>2, <2>5, PlainIs, AskingIs
  <2>7. CASE Len(values) = n
    BY <1>0, <2>1, <2>3, <2>4, <2>6, <2>7
  <2>8. CASE Len(values) # n
    <3>1. Len(values) + 1 \in 1 .. n
      BY <2>3, <2>4, <2>8
    <3>. QED
      BY <2>1, <2>3, <2>6, <3>1
  <2>. QED
    BY <2>7, <2>8
<1>11. ASSUME SpawnFails \/ SendRefused \/ Timeout \/ Closed PROVE ServedInv'
  BY <1>11, ServedElse DEF SpawnFails, SendRefused, Timeout, Closed, NoReply
<1>12. ASSUME Recv PROVE ServedInv'
  BY <1>4, <1>12 DEF Recv, InFlight, Ended
<1>13. CASE UNCHANGED vars
  BY <1>2, <1>13 DEF vars, gather, run, ghost
<1>. QED
  BY <1>1, <1>3, <1>5, <1>6, <1>7, <1>8, <1>9, <1>10, <1>11, <1>12, <1>13
     DEF Next, WorkerStep, CallerStep

LEMMA StepOnce ==
  ASSUME TypeOK, CollectInv, CollectInv', pass = "collect" => IsInjective(asked), TypeOK', [Next]_vars
  PROVE  (pass = "collect" => IsInjective(asked))'
<1>1. ASSUME collect'.open PROVE IsInjective(asked')
  <2>1. /\ asked' \in Seq(Args) /\ collect'.pending \in Seq(Args)
        /\ IsInjective(asked' \o collect'.pending)
    BY <1>1 DEF TypeOK, CollectInv
  <2>2. /\ DOMAIN asked' = 1 .. Len(asked') /\ Len(asked') \in Nat /\ Len(collect'.pending) \in Nat
        /\ DOMAIN (asked' \o collect'.pending) = 1 .. Len(asked') + Len(collect'.pending)
        /\ \A i \in 1 .. Len(asked') : (asked' \o collect'.pending)[i] = asked'[i]
    BY <2>1
  <2>3. \A i \in 1 .. Len(asked') : i \in 1 .. Len(asked') + Len(collect'.pending)
    BY <2>2
  <2>. QED
    BY <2>1, <2>2, <2>3 DEF IsInjective
<1>2. ASSUME pass' = "collect", ~collect'.open PROVE IsInjective(asked')
  <2>1. pc' \in Ended
    BY <1>2 DEF TypeOK
  <2>2. pass = "collect" /\ asked' = asked
    <3>1. ASSUME NEW s \in Statements, Query(s) \/ Direct(s) PROVE FALSE
      BY <2>1, <3>1 DEF Query, Direct, Run, Ended
    <3>2. ASSUME CallerStep PROVE pass = "collect" /\ asked' = asked
      BY <1>2, <2>1, <3>2
         DEF CallerStep, RunEnds, EndCollect, Hit, StandIn, Single, Spawn, SpawnFails, Send,
             SendRefused, Timeout, Closed, Recv, NoReply, Return, EndRun, Finish, Flush, Exchange,
             Replied, Ended, run, ghost, process
    <3>3. ASSUME WorkerStep \/ UNCHANGED vars PROVE pass = "collect" /\ asked' = asked
      BY <1>2, <3>3 DEF WorkerStep, Answer, Garble, Crash, Take, vars, run, ghost
    <3>. QED
      BY <3>1, <3>2, <3>3 DEF Next
  <2>. QED
    BY <2>2
<1>. QED
  BY <1>1, <1>2

-----------------------------------------------------------------------------
(* The theorems. *)

IInv ==
  /\ TypeOK /\ RequestInv /\ PipeInv /\ FiledInv /\ UninvokedInv /\ EndInv
  /\ CollectInv /\ GatheredInv /\ ServedInv
  /\ pass = "collect" => IsInjective(asked)

\* What holds of the requests, the pipes, the replies in hand and the values is
\* kept by every step, whatever the worker does.
THEOREM Invariance == Spec => []IInv
<1>1. ASSUME Init PROVE IInv
  <2>1. TypeOK
    BY <1>1, InitTypes
  <2>2. /\ pc = "idle" /\ pass = "only" /\ values = <<>> /\ ~collect.open
        /\ worker.inbox = <<>> /\ worker.lines = <<>> /\ prefetched = NoReplies
    BY <1>1, Empties DEF Init, NoWorker
  <2>3. RequestInv /\ PipeInv /\ FiledInv /\ UninvokedInv
    BY <2>2 DEF RequestInv, PipeInv, FiledInv, UninvokedInv, InFlight, NoReplies
  <2>4. EndInv
    BY <2>2 DEF EndInv, TrueInv, True, AnswersAreTrue, FailsForCause
  <2>5. CollectInv /\ GatheredInv /\ ServedInv
    BY <2>2 DEF CollectInv, GatheredInv, ServedInv
  <2>. QED
    BY <2>1, <2>2, <2>3, <2>4, <2>5 DEF IInv
<1>2. ASSUME IInv, [Next]_vars PROVE IInv'
  <2>1. TypeOK'
    BY <1>2, StepTypes DEF IInv
  <2>2. RequestInv' /\ PipeInv' /\ FiledInv' /\ UninvokedInv' /\ EndInv'
    BY <1>2, StepRequests, StepPipes, StepFiles, StepUninvoked, StepEnds DEF IInv
  <2>3. CollectInv' /\ GatheredInv' /\ ServedInv'
    BY <1>2, StepCollects, StepGathered, StepServes DEF IInv
  <2>4. (pass = "collect" => IsInjective(asked))'
    BY <1>2, <2>1, <2>3, StepOnce DEF IInv
  <2>. QED
    BY <2>1, <2>2, <2>3, <2>4 DEF IInv
<1>. QED
  BY <1>1, <1>2, PTL DEF Spec

\* The state is always well-typed: a request is out only to a worker there is,
\* and replies are in hand only within a query.
THEOREM TypeCorrect == Spec => []TypeOK
BY Invariance, PTL DEF IInv

\* A statement that returns has computed with the worker's own answers, whatever
\* was batched, stood in for, refused or late (Worker::call, flush).
THEOREM AnswersAreTrueHolds == Spec => []AnswersAreTrue
BY Invariance, PTL DEF IInv, EndInv

\* A statement fails for a cause of its own only (query_ordered_with).
THEOREM FailsForCauseHolds == Spec => []FailsForCause
BY Invariance, PTL DEF IInv, EndInv

\* The collect pass asks nothing twice, and leaves nothing to ask of a statement
\* whose calls are not nested (Collect::queued, prefetched).
THEOREM ServedOnceHolds == Spec => []ServedOnce
<1>1. IInv => ServedOnce
  BY DEF IInv, ServedInv, ServedOnce
<1>. QED
  BY <1>1, Invariance, PTL

=============================================================================
