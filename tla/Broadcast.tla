----------------------------- MODULE Broadcast ------------------------------
(***************************************************************************)
(* What the streams of row events promise: "every stream receives every    *)
(* event observed after it was created" (packages/python/dirsql/_async.py) *)
(* once, and in the order it happened, however they share the work.        *)
(***************************************************************************)
EXTENDS Naturals, Sequences

CONSTANTS Consumers, Events

VARIABLES
  backlog,   \* the last events, which a stream that joins now is still told
  unheard,   \* what each stream has yet to tell its consumer
  stream     \* whether each is new, open or left

vars == <<backlog, unheard, stream>>

After(n, events) == SubSeq(events, n + 1, Len(events))

\* The index changes: every open stream will tell of it.
Happen ==
  /\ backlog' \in Seq(Events)
  /\ Len(backlog) <= Len(backlog')
  /\ SubSeq(backlog', 1, Len(backlog)) = backlog
  /\ unheard' = [c \in Consumers |->
                   IF stream[c] = "open"
                   THEN unheard[c] \o After(Len(backlog), backlog') ELSE unheard[c]]
  /\ UNCHANGED stream

\* Events so old that a stream that joins later is not told.
Age ==
  /\ \E n \in 1 .. Len(backlog) : backlog' = After(n, backlog)
  /\ UNCHANGED <<unheard, stream>>

Join(c) ==
  /\ stream[c] = "new"
  /\ stream' = [stream EXCEPT ![c] = "open"]
  /\ unheard' = [unheard EXCEPT ![c] = backlog]
  /\ UNCHANGED backlog

Tell(c) ==
  /\ unheard[c] # <<>>
  /\ unheard' = [unheard EXCEPT ![c] = Tail(unheard[c])]
  /\ UNCHANGED <<backlog, stream>>

Part(c) ==
  /\ stream[c] = "open"
  /\ stream' = [stream EXCEPT ![c] = "left"]
  /\ unheard' = [unheard EXCEPT ![c] = <<>>]
  /\ UNCHANGED backlog

Init ==
  /\ backlog = <<>>
  /\ unheard = [c \in Consumers |-> <<>>]
  /\ stream = [c \in Consumers |-> "new"]

Next == Happen \/ Age \/ \E c \in Consumers : Join(c) \/ Tell(c) \/ Part(c)

Spec == Init /\ [][Next]_vars

=============================================================================
