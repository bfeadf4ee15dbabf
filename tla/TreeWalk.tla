------------------------------ MODULE TreeWalk ------------------------------
(***************************************************************************)
(* The walk of a directory tree on several threads (tree_walk.rs).         *)
(*                                                                         *)
(* The calling thread, the walker, hands out leaves in depth-first order.  *)
(* Once it has found PARALLEL_DIRS directories it hires workers, which     *)
(* explore directories ahead of it.  A directory found sits in a slot: its *)
(* `dir` until some thread takes it, its `items` once that thread is       *)
(* through.  The walker takes the items of the next directory, explores it *)
(* itself, or waits on the slot's condition variable; a worker takes the   *)
(* earliest open directory, or waits on found_dir.                         *)
(*                                                                         *)
(* Threads are interleaved at each hold of a lock.  A condition variable   *)
(* may also wake by itself.                                                *)
(***************************************************************************)
EXTENDS Integers, FiniteSets, SequencesExt

CONSTANTS
  Dirs,            \* the directories of the tree
  Leaves,          \* what is not a directory in it
  Root,
  Steps,           \* what exploring a directory yields, in order
  Cores,           \* available_parallelism
  PARALLEL_DIRS,
  NoDir            \* not a directory

ASSUME TreeAssumption ==
  /\ IsFiniteSet(Dirs) /\ Root \in Dirs /\ NoDir \notin Dirs
  /\ Dirs \cap Leaves = {}
  /\ Steps \in [Dirs -> Seq(Dirs \cup Leaves)]

ASSUME CoresAssumption == Cores \in Nat \ {0}

\* Each directory but the root is found in one place, as in a tree.
ASSUME PlaceAssumption ==
  \A d, e \in Dirs : \A i \in DOMAIN Steps[d], j \in DOMAIN Steps[e] :
    /\ Steps[d][i] # Root
    /\ Steps[d][i] \in Dirs /\ Steps[d][i] = Steps[e][j] => d = e /\ i = j

Walker == 0
Workers == 1 .. (Cores - 1)
Threads == Workers \cup {Walker}

SubDirs(d) == {Steps[d][i] : i \in DOMAIN Steps[d]} \cap Dirs

\* No directory is below itself, as in a tree.
ASSUME HeightAssumption ==
  \E height \in [Dirs -> 0 .. Cardinality(Dirs)] :
    \A d \in Dirs : \A e \in SubDirs(d) : height[e] < height[d]

VARIABLES
  unclaimed,       \* slots whose `dir` is still there
  stored,          \* slots whose `items` are there
  awaited,         \* slots whose `awaited` is set
  key,             \* each slot's key
  open,            \* Open.slots, the heap
  done,            \* Open.done
  found,           \* the directories found so far
  hired,           \* threads started, or refused a start
  spawned,         \* whether the walk has hired
  ahead,           \* what the iterators on the stack still hold, the top first
  visited,         \* the leaves handed out
  phase,           \* what each thread does next
  at,              \* the directory each thread works on
  next,            \* the directory a worker took back while registering
  left             \* notifications, or hires, a thread still owes

vars == <<unclaimed, stored, awaited, key, open, done, found, hired, spawned,
          ahead, visited, phase, at, next, left>>

slots == <<unclaimed, stored, awaited, key, found>>
heap == <<open, done>>
walk == <<spawned, ahead, visited>>

-----------------------------------------------------------------------------
(* Keys order as the walk reaches them: Pending's order, greatest first.   *)

Before(k, l) ==
  \E n \in 0 .. Len(k) :
    /\ n < Len(l)
    /\ SubSeq(k, 1, n) = SubSeq(l, 1, n)
    /\ n < Len(k) => k[n + 1] < l[n + 1]

Earliest(d) == d \in open /\ \A e \in open \ {d} : Before(key[d], key[e])

\* The number of directories among the first i steps of d.
Index(d, i) == Cardinality({j \in 1 .. i : Steps[d][j] \in Dirs})

Goes(t, from, to) ==
  /\ phase[t] = from
  /\ phase' = [phase EXCEPT ![t] = to]

-----------------------------------------------------------------------------
(* Exploring, in three holds: explore_only, register, and its signals.     *)

\* explore_only: the slots of the directories found are not shared yet.
Explore(t) ==
  /\ phase[t] = "explore"
  /\ LET d == at[t] IN
     /\ unclaimed' = unclaimed \cup SubDirs(d)
     /\ found' = found \cup SubDirs(d)
     /\ key' = [e \in Dirs |->
                 IF e \in SubDirs(d)
                 THEN LET i == CHOOSE i \in DOMAIN Steps[d] : Steps[d][i] = e
                      IN Append(key[d], Index(d, i) - 1)
                 ELSE key[e]]
     /\ phase' = [phase EXCEPT ![t] =
                   IF t = Walker /\ SubDirs(d) = {} THEN "push" ELSE "register"]
  /\ UNCHANGED <<stored, awaited, heap, hired, walk, at, next, left>>

\* Mutant of Register: one signal too few.
Register_spares(t) ==
  /\ Goes(t, "register", "notify")
  /\ left' = [left EXCEPT ![t] = Cardinality(SubDirs(at[t])) - 2]
  /\ LET opened == open \cup SubDirs(at[t]) IN
     IF t = Walker \/ opened = {}
     THEN open' = opened /\ next' = [next EXCEPT ![t] = NoDir]
     ELSE \E d \in opened :
            /\ \A e \in opened \ {d} : Before(key[d], key[e])
            /\ open' = opened \ {d}
            /\ next' = [next EXCEPT ![t] = d]
  /\ UNCHANGED <<slots, done, hired, walk, at>>

\* A worker takes the earliest directory back, the walker does not.
Register(t) ==
  /\ Goes(t, "register", "notify")
  /\ left' = [left EXCEPT ![t] = Cardinality(SubDirs(at[t])) - 1]
  /\ LET opened == open \cup SubDirs(at[t]) IN
     IF t = Walker \/ opened = {}
     THEN open' = opened /\ next' = [next EXCEPT ![t] = NoDir]
     ELSE \E d \in opened :
            /\ \A e \in opened \ {d} : Before(key[d], key[e])
            /\ open' = opened \ {d}
            /\ next' = [next EXCEPT ![t] = d]
  /\ UNCHANGED <<slots, done, hired, walk, at>>

\* found_dir.notify_one: some worker that sleeps there, if any does, wakes.
Notify(t) ==
  /\ phase[t] = "notify" /\ left[t] > 0
  /\ left' = [left EXCEPT ![t] = @ - 1]
  /\ LET asleep == {w \in Workers : phase[w] = "asleep"} IN
     IF asleep = {}
     THEN UNCHANGED phase
     ELSE \E w \in asleep : phase' = [phase EXCEPT ![w] = "claim"]
  /\ UNCHANGED <<slots, heap, hired, walk, at, next>>

Notified(t) ==
  /\ left[t] <= 0
  /\ Goes(t, "notify", IF t = Walker THEN "push" ELSE "store")
  /\ UNCHANGED <<slots, heap, hired, walk, at, next, left>>

-----------------------------------------------------------------------------
(* The walker: walk_in_order and obtain.                                   *)

\* The items of the directory it explored go on the stack.
Push ==
  /\ Goes(Walker, "push", "walk")
  /\ ahead' = Steps[at[Walker]] \o ahead
  /\ UNCHANGED <<slots, heap, hired, spawned, visited, at, next, left>>

Visit ==
  /\ phase[Walker] = "walk" /\ ahead # <<>>
  /\ Head(ahead) \in Leaves
  /\ visited' = Append(visited, Head(ahead))
  /\ ahead' = Tail(ahead)
  /\ UNCHANGED <<slots, heap, hired, spawned, phase, at, next, left>>

\* The next directory; the first time enough were found, workers are hired.
Descend ==
  /\ phase[Walker] = "walk" /\ ahead # <<>>
  /\ Head(ahead) \in Dirs
  /\ ahead' = Tail(ahead)
  /\ at' = [at EXCEPT ![Walker] = Head(ahead)]
  /\ LET hires == ~spawned /\ Cardinality(found) >= PARALLEL_DIRS IN
     /\ spawned' = (spawned \/ hires)
     /\ phase' = [phase EXCEPT ![Walker] = IF hires THEN "hire" ELSE "obtain"]
     /\ left' = [left EXCEPT ![Walker] = IF hires THEN 2 ELSE @]
  /\ UNCHANGED <<slots, heap, hired, visited, next>>

\* Mutant of Obtain: the directory is looked at and not taken.
Obtain_peeks ==
  /\ phase[Walker] = "obtain"
  /\ phase' = [phase EXCEPT ![Walker] =
                IF at[Walker] \in unclaimed THEN "explore" ELSE "await"]
  /\ UNCHANGED <<slots, heap, hired, walk, at, next, left>>

\* obtain takes the directory unless another thread has.
Obtain ==
  /\ phase[Walker] = "obtain"
  /\ IF at[Walker] \in unclaimed
     THEN /\ unclaimed' = unclaimed \ {at[Walker]}
          /\ phase' = [phase EXCEPT ![Walker] = "explore"]
     ELSE /\ phase' = [phase EXCEPT ![Walker] = "await"]
          /\ UNCHANGED unclaimed
  /\ UNCHANGED <<stored, awaited, key, found, heap, hired, walk, at, next, left>>

\* Mutant of Await: whichever items are there are taken first.
Await_any ==
  /\ phase[Walker] = "await"
  /\ \/ \E d \in stored :
          /\ stored' = stored \ {d}
          /\ at' = [at EXCEPT ![Walker] = d]
          /\ phase' = [phase EXCEPT ![Walker] = "push"]
          /\ UNCHANGED awaited
     \/ /\ stored = {}
        /\ awaited' = awaited \cup {at[Walker]}
        /\ phase' = [phase EXCEPT ![Walker] = "waiting"]
        /\ UNCHANGED <<stored, at>>
  /\ UNCHANGED <<unclaimed, key, found, heap, hired, walk, next, left>>

\* Its items if they are there; else `awaited` is set and the lock given up.
Await ==
  /\ phase[Walker] = "await"
  /\ IF at[Walker] \in stored
     THEN /\ stored' = stored \ {at[Walker]}
          /\ phase' = [phase EXCEPT ![Walker] = "push"]
          /\ UNCHANGED awaited
     ELSE /\ awaited' = awaited \cup {at[Walker]}
          /\ phase' = [phase EXCEPT ![Walker] = "waiting"]
          /\ UNCHANGED stored
  /\ UNCHANGED <<unclaimed, key, found, heap, hired, walk, at, next, left>>

\* The end of the walk: done is set, then every worker woken.
End ==
  /\ ahead = <<>>
  /\ Goes(Walker, "walk", "signal")
  /\ done' = TRUE
  /\ UNCHANGED <<slots, open, hired, walk, at, next, left>>

\* Mutant of NotifyAll: a single worker is woken.
NotifyAll_one ==
  /\ LET asleep == {w \in Workers : phase[w] = "asleep"} IN
     IF asleep = {} THEN Goes(Walker, "signal", "join")
     ELSE \E w \in asleep :
            /\ phase[Walker] = "signal"
            /\ phase' = [phase EXCEPT ![Walker] = "join", ![w] = "claim"]
  /\ UNCHANGED <<slots, heap, hired, walk, at, next, left>>

NotifyAll ==
  /\ phase[Walker] = "signal"
  /\ phase' = [t \in Threads |->
                IF t = Walker THEN "join"
                ELSE IF phase[t] = "asleep" THEN "claim" ELSE phase[t]]
  /\ UNCHANGED <<slots, heap, hired, walk, at, next, left>>

\* thread::scope returns when every thread in it has ended.
Return ==
  /\ \A w \in Workers : phase[w] \in {"absent", "ended"}
  /\ Goes(Walker, "join", "returned")
  /\ UNCHANGED <<slots, heap, hired, walk, at, next, left>>

-----------------------------------------------------------------------------
(* Hiring: each thread that hires starts up to two more.                   *)

Hire(t) ==
  /\ phase[t] = "hire" /\ left[t] > 0
  /\ hired' = hired + 1
  /\ IF hired < Cores
     THEN /\ phase' = [phase EXCEPT ![hired] = "hire"]
          /\ left' = [left EXCEPT ![hired] = 2, ![t] = @ - 1]
     ELSE /\ left' = [left EXCEPT ![t] = @ - 1]
          /\ UNCHANGED phase
  /\ UNCHANGED <<slots, heap, walk, at, next>>

Hired(t) ==
  /\ left[t] = 0
  /\ Goes(t, "hire", IF t = Walker THEN "obtain" ELSE "claim")
  /\ UNCHANGED <<slots, heap, hired, walk, at, next, left>>

-----------------------------------------------------------------------------
(* A worker: work, claim and explore_taking_next.                          *)

Claim(w) ==
  /\ phase[w] = "claim"
  /\ \/ /\ done
        /\ phase' = [phase EXCEPT ![w] = "ended"]
        /\ UNCHANGED <<open, at>>
     \/ \E d \in open :
        /\ ~done /\ Earliest(d)
        /\ open' = open \ {d}
        /\ at' = [at EXCEPT ![w] = d]
        /\ phase' = [phase EXCEPT ![w] = "take"]
     \/ /\ ~done /\ open = {}
        /\ phase' = [phase EXCEPT ![w] = "asleep"]
        /\ UNCHANGED <<open, at>>
  /\ UNCHANGED <<slots, done, hired, walk, next, left>>

\* The walker may have been here first.
Take(w) ==
  /\ phase[w] = "take"
  /\ unclaimed' = unclaimed \ {at[w]}
  /\ phase' = [phase EXCEPT ![w] =
                IF at[w] \in unclaimed THEN "explore" ELSE "claim"]
  /\ UNCHANGED <<stored, awaited, key, found, heap, hired, walk, at, next, left>>

\* Mutants of Store: the walker is left asleep; `next` is taken for granted.
Store_silently(w) ==
  /\ phase[w] = "store"
  /\ stored' = stored \cup {at[w]}
  /\ phase' = [phase EXCEPT ![w] = IF next[w] = NoDir THEN "claim" ELSE "take"]
  /\ at' = [at EXCEPT ![w] = IF next[w] = NoDir THEN @ ELSE next[w]]
  /\ UNCHANGED <<unclaimed, awaited, key, found, heap, hired, walk, next, left>>

Store_takes_next(w) ==
  /\ phase[w] = "store"
  /\ stored' = stored \cup {at[w]}
  /\ phase' = [phase EXCEPT ![w] = "take", ![Walker] =
                IF at[w] \in awaited /\ @ = "waiting" /\ at[Walker] = at[w]
                THEN "await" ELSE @]
  /\ at' = [at EXCEPT ![w] = next[w]]
  /\ UNCHANGED <<unclaimed, awaited, key, found, heap, hired, walk, next, left>>

\* The items are handed over, and the walker woken if it sleeps on them.
Store(w) ==
  /\ phase[w] = "store"
  /\ stored' = stored \cup {at[w]}
  /\ LET wakes == /\ at[w] \in awaited
                  /\ phase[Walker] = "waiting" /\ at[Walker] = at[w]
         goes == IF next[w] = NoDir THEN "claim" ELSE "take"
     IN phase' = IF wakes THEN [phase EXCEPT ![w] = goes, ![Walker] = "await"]
                 ELSE [phase EXCEPT ![w] = goes]
  /\ at' = [at EXCEPT ![w] = IF next[w] = NoDir THEN @ ELSE next[w]]
  /\ UNCHANGED <<unclaimed, awaited, key, found, heap, hired, walk, next, left>>

\* A condition variable may wake a thread that nobody signalled.
WakeAlone(t) ==
  /\ \/ phase[t] = "asleep" /\ phase' = [phase EXCEPT ![t] = "claim"]
     \/ phase[t] = "waiting" /\ phase' = [phase EXCEPT ![t] = "await"]
  /\ UNCHANGED <<slots, heap, hired, walk, at, next, left>>

-----------------------------------------------------------------------------

Init ==
  /\ unclaimed = {} /\ stored = {} /\ awaited = {}
  /\ key = [d \in Dirs |-> <<>>]
  /\ open = {} /\ done = FALSE
  /\ found = {Root}
  /\ hired = 1
  /\ spawned = FALSE /\ ahead = <<>> /\ visited = <<>>
  /\ phase = [t \in Threads |-> IF t = Walker THEN "explore" ELSE "absent"]
  /\ at = [t \in Threads |-> IF t = Walker THEN Root ELSE NoDir]
  /\ next = [t \in Threads |-> NoDir]
  /\ left = [t \in Threads |-> 0]

ExploreStep(t) == Explore(t) \/ Register(t) \/ Notify(t) \/ Notified(t)
HireStep(t) == Hire(t) \/ Hired(t)

WalkerStep ==
  \/ ExploreStep(Walker) \/ HireStep(Walker)
  \/ Push \/ Visit \/ Descend \/ Obtain \/ Await
  \/ End \/ NotifyAll \/ Return

WorkerStep(w) ==
  \/ ExploreStep(w) \/ HireStep(w)
  \/ Claim(w) \/ Take(w) \/ Store(w)

\* Every thread is done.
Over == phase[Walker] = "returned" /\ UNCHANGED vars

Next ==
  \/ WalkerStep
  \/ \E w \in Workers : WorkerStep(w)
  \/ \E t \in Threads : WakeAlone(t)
  \/ Over

Spec == Init /\ [][Next]_vars

\* Each thread runs on; none is woken but by a signal.
FairSpec == Spec /\ WF_vars(WalkerStep) /\ \A w \in Workers : WF_vars(WorkerStep(w))

-----------------------------------------------------------------------------
(* Properties.                                                             *)

\* What the walk does to a directory: a thread works on it, from taking it
\* to handing its items over.
AtWork(t) == phase[t] \in {"explore", "register", "notify", "store"}

On(d) == {t \in Threads : AtWork(t) /\ at[t] = d}

\* The phases in which a thread has a directory.
Located(t) ==
  \/ AtWork(t)
  \/ phase[t] \in {"take", "push", "obtain", "await", "waiting"}
  \/ t = Walker /\ phase[t] = "hire"

Phases == {"absent", "hire", "explore", "register", "notify", "store", "push",
           "walk", "obtain", "await", "waiting", "signal", "join", "returned",
           "claim", "take", "asleep", "ended"}

TypeOK ==
  /\ unclaimed \subseteq Dirs /\ stored \subseteq Dirs
  /\ awaited \subseteq Dirs /\ open \subseteq Dirs /\ found \subseteq Dirs
  /\ key \in [Dirs -> Seq(Nat)]
  /\ done \in BOOLEAN /\ spawned \in BOOLEAN
  /\ hired \in Nat \ {0}
  /\ ahead \in Seq(Dirs \cup Leaves)
  /\ visited \in Seq(Leaves)
  /\ phase \in [Threads -> Phases]
  /\ at \in [Threads -> Dirs \cup {NoDir}]
  /\ next \in [Threads -> Dirs \cup {NoDir}]
  /\ left \in [Threads -> Int]
  /\ \A t \in Threads : Located(t) => at[t] \in Dirs

\* However the threads race for a directory, one of them explores it, once,
\* and its items are handed over once (Slot.dir and Explored.items are taken).
TakenOnce ==
  /\ \A t, u \in Threads : AtWork(t) /\ AtWork(u) /\ at[t] = at[u] => t = u
  /\ \A t \in Threads : AtWork(t) => at[t] \notin unclaimed \cup stored
  /\ unclaimed \cap stored = {}

\* No wakeup is lost: a walker that sleeps on a directory has said so, and a
\* worker that has yet to look is on it; no worker sleeps on after the walk.
NeverStranded ==
  /\ phase[Walker] = "waiting" =>
       at[Walker] \in awaited /\ On(at[Walker]) \cap Workers # {}
  /\ phase[Walker] \in {"join", "returned"} =>
       \A w \in Workers : phase[w] # "asleep"

\* The leaves under each directory, depth first, in the order its steps have.
DepthFirst[d \in Dirs] ==
  FlattenSeq([i \in DOMAIN Steps[d] |->
    IF Steps[d][i] \in Dirs THEN DepthFirst[Steps[d][i]] ELSE <<Steps[d][i]>>])

\* Whichever thread explored what and when, the walk hands out the leaves in
\* depth-first order, and all of them by its end (walk_in_order).
VisitsInOrder ==
  /\ IsPrefix(visited, DepthFirst[Root])
  /\ phase[Walker] = "returned" => visited = DepthFirst[Root]

\* Signals are spared only where a thread is left to take the directory: when
\* no signal is owed, workers sleep over at most one that is open (register).
SleepOverOne ==
  (/\ \E w \in Workers : phase[w] = "asleep"
   /\ \A t \in Threads : phase[t] \notin {"register", "notify", "claim", "take", "store", "hire"})
  => Cardinality(open \cap unclaimed) <= 1

\* The walk comes to its end, and its workers with it.
WalkReturns == <>(phase[Walker] = "returned")

-----------------------------------------------------------------------------
(* The inductive invariant behind TakenOnce and NeverStranded.             *)

\* A directory the walk has yet to reach, or has reached and not obtained.
Ahead(d) == \E i \in DOMAIN ahead : ahead[i] = d
Obtains == phase[Walker] \in {"hire", "obtain", "await", "waiting"}
Due(d) == Ahead(d) \/ (Obtains /\ at[Walker] = d)

\* A thread has a directory from taking it to handing its items on.
Has(t, d) == (AtWork(t) \/ phase[t] = "push") /\ at[t] = d

\* A directory the walker can still obtain.
Alive(d) ==
  d \in unclaimed \/ d \in stored \/ \E w \in Workers : AtWork(w) /\ at[w] = d

Unexplored(d) ==
  d \notin found \/ d \in unclaimed \/ \E t \in Threads : phase[t] = "explore" /\ at[t] = d

Unpushed(d) ==
  d \notin found \/ d \in unclaimed \/ d \in stored \/ \E t \in Threads : Has(t, d)

WorkerPhases == {"absent", "hire", "claim", "asleep", "take", "explore",
                 "register", "notify", "store", "ended"}

\* Who does what, and which threads there are.
PhaseInv ==
  /\ \A w \in Workers : phase[w] \in WorkerPhases
  /\ phase[Walker] \notin {"absent", "claim", "take", "asleep", "ended", "store"}
  /\ \A w \in Workers : w >= hired => phase[w] = "absent"

\* Everything in hand was found.
FoundInv ==
  /\ unclaimed \subseteq found /\ stored \subseteq found
  /\ \A t \in Threads, d \in Dirs : Has(t, d) => d \in found
  /\ \A d \in Dirs : Due(d) => d \in found

\* A directory is in one place.
OnceInv ==
  /\ \A t, u \in Threads, d \in Dirs : Has(t, d) /\ Has(u, d) => t = u
  /\ \A t \in Threads, d \in Dirs : Has(t, d) => d \notin unclaimed \cup stored
  /\ unclaimed \cap stored = {}

\* The walk comes by each directory once.
PlaceInv ==
  /\ \A i, j \in DOMAIN ahead : ahead[i] = ahead[j] /\ ahead[i] \in Dirs => i = j
  /\ Obtains => ~Ahead(at[Walker])

\* What the walk comes by is there to be obtained, and what it sleeps on is
\* being explored by a worker that will see it asleep.
DueInv ==
  /\ \A d \in Dirs : Due(d) => Alive(d)
  /\ phase[Walker] \in {"await", "waiting"} => at[Walker] \notin unclaimed
  /\ phase[Walker] = "waiting" =>
       at[Walker] \in awaited /\ at[Walker] \notin stored

\* How a directory's own directories come to be found, alive and due.
UnexploredInv ==
  \A d \in Dirs : Unexplored(d) => \A e \in SubDirs(d) : e \notin found
ExploredInv ==
  \A d \in Dirs : Unpushed(d) /\ ~Unexplored(d) => \A e \in SubDirs(d) : Alive(e)
UnpushedInv ==
  \A d \in Dirs : Unpushed(d) => \A e \in SubDirs(d) : ~Due(e)

\* After the end no worker sleeps, or goes to sleep.
EndInv ==
  /\ done <=> phase[Walker] \in {"signal", "join", "returned"}
  /\ phase[Walker] \in {"join", "returned"} =>
       \A w \in Workers : phase[w] # "asleep"

IInv ==
  /\ TypeOK /\ PhaseInv /\ FoundInv /\ OnceInv /\ PlaceInv /\ DueInv
  /\ UnexploredInv /\ ExploredInv /\ UnpushedInv /\ EndInv

-----------------------------------------------------------------------------
(* The inductive invariants behind VisitsInOrder and SleepOverOne.         *)

\* What a part of the walk hands out, and what a sequence of parts does.
Under(x) == IF x \in Dirs THEN DepthFirst[x] ELSE <<x>>
Expand(s) == FlattenSeq([i \in DOMAIN s |-> Under(s[i])])

\* The walker has come to a directory and has yet to push what is in it.
InHand == Obtains \/ phase[Walker] \in {"explore", "register", "notify", "push"}

\* The part of the walk that is to come, in order.
ToCome == IF InHand THEN <<at[Walker]>> \o ahead ELSE ahead

\* What was handed out and what is to come are the walk.
OrderInv ==
  /\ visited \o Expand(ToCome) = DepthFirst[Root]
  /\ phase[Walker] \in {"signal", "join", "returned"} => ahead = <<>>

\* The walker will come by each directory that is alive, or by one above it.
ReachInv ==
  \A d \in Dirs : Alive(d) =>
    Due(d) \/ \E p \in Dirs : d \in SubDirs(p) /\ (Alive(p) \/ Has(Walker, p))

\* A directory a worker goes on to, found but not registered, and the others.
Holds(w, d) ==
  \/ phase[w] = "take" /\ at[w] = d
  \/ phase[w] \in {"notify", "store"} /\ next[w] = d
Registers(d) == \E t \in Threads : phase[t] = "register" /\ d \in SubDirs(at[t])
Registered == {d \in unclaimed : ~Registers(d)}

\* An unclaimed directory is open, or some thread is about to see to it.
OpenInv ==
  /\ open \subseteq found
  /\ \A w \in Workers, d \in Dirs : Holds(w, d) => d \in found
  /\ \A d \in Dirs : Registers(d) => d \notin open /\ \A w \in Workers : ~Holds(w, d)
  /\ \A d \in Registered : d \in open \/ \E w \in Workers : Holds(w, d)
  /\ phase[Walker] = "register" => SubDirs(at[Walker]) # {}

\* The threads that will claim a directory, the walker but while it has one,
\* and the signals that will wake one.
Ready ==
  {w \in Workers : \/ phase[w] \in {"claim", "take"}
                   \/ phase[w] \in {"notify", "store"} /\ next[w] # NoDir}
    \cup (IF phase[Walker] \in {"explore", "register"} THEN {} ELSE {Walker})
Owed(t) == IF phase[t] = "notify" THEN {t} \X (1 .. left[t]) ELSE {}
Credit == (Ready \X {0}) \cup UNION {Owed(t) : t \in Threads}

\* While a worker sleeps there is a thread for each directory to be claimed.
SpareInv ==
  (\E w \in Workers : phase[w] = "asleep") => Cardinality(Registered) <= Cardinality(Credit)

=============================================================================
