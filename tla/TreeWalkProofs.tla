--------------------------- MODULE TreeWalkProofs ---------------------------
(***************************************************************************)
(* TreeWalk, proved for every tree and any number of threads.              *)
(***************************************************************************)
EXTENDS TreeWalk, FiniteSetTheorems, SequenceTheorems, WellFoundedInduction, TLAPS

LEMMA SubDirsAreDirs == ASSUME NEW d PROVE SubDirs(d) \subseteq Dirs
  BY DEF SubDirs

LEMMA SubDirsCount == ASSUME NEW d PROVE Cardinality(SubDirs(d)) \in Nat
  BY TreeAssumption, SubDirsAreDirs, FS_Subset, FS_CardinalityType

(* A directory is found in one place. *)
LEMMA OneParent ==
  /\ \A d \in Dirs : Root \notin SubDirs(d)
  /\ \A d, e \in Dirs : SubDirs(d) \cap SubDirs(e) # {} => d = e
  BY PlaceAssumption DEF SubDirs

(* The number of a directory among its parent's. *)
LEMMA IndexType ==
  ASSUME NEW d \in Dirs, NEW i \in DOMAIN Steps[d], Steps[d][i] \in Dirs
  PROVE  Index(d, i) - 1 \in Nat
<1> DEFINE S == {j \in 1 .. i : Steps[d][j] \in Dirs}
<1>1. i \in Nat \ {0}
  BY TreeAssumption
<1>2. IsFiniteSet(S) /\ Cardinality(S) \in Nat
  <2>1. IsFiniteSet(1 .. i) /\ S \in SUBSET (1 .. i)
    BY <1>1, FS_Interval
  <2>. QED
    BY <2>1, FS_Subset, FS_CardinalityType
<1>3. i \in S
  BY <1>1
<1>4. Cardinality(S) # 0
  BY <1>2, <1>3, FS_EmptySet
<1>. QED
  BY <1>2, <1>4 DEF Index

-----------------------------------------------------------------------------
(* Every state is well typed. *)

LEMMA TypeInit == Init => TypeOK
<1> SUFFICES ASSUME Init PROVE TypeOK
  OBVIOUS
<1>1. key \in [Dirs -> Seq(Nat)]
  BY DEF Init
<1>2. phase \in [Threads -> Phases] /\ left \in [Threads -> Int]
  BY DEF Init, Phases
<1>3. at \in [Threads -> Dirs \cup {NoDir}] /\ next \in [Threads -> Dirs \cup {NoDir}]
  BY TreeAssumption DEF Init
<1>4. \A t \in Threads : Located(t) => at[t] \in Dirs
  BY TreeAssumption DEF Init, Located, AtWork
<1>5. ahead \in Seq(Dirs \cup Leaves) /\ visited \in Seq(Leaves)
  BY EmptySeq DEF Init
<1>6. /\ unclaimed \subseteq Dirs /\ stored \subseteq Dirs
      /\ awaited \subseteq Dirs /\ open \subseteq Dirs /\ found \subseteq Dirs
  BY TreeAssumption DEF Init
<1>. QED
  BY <1>1, <1>2, <1>3, <1>4, <1>5, <1>6, 1 \in Nat \ {0} DEF Init, TypeOK

LEMMA TypeExplore ==
  ASSUME TypeOK, NEW t \in Threads, Explore(t) PROVE TypeOK'
<1> DEFINE d == at[t]
<1>1. d \in Dirs
  BY DEF TypeOK, Explore, Located, AtWork
<1>2. unclaimed' \subseteq Dirs /\ found' \subseteq Dirs
  BY SubDirsAreDirs DEF TypeOK, Explore
<1>3. key' \in [Dirs -> Seq(Nat)]
  <2> DEFINE n(e) == CHOOSE i \in DOMAIN Steps[d] : Steps[d][i] = e
  <2>1. \A e \in SubDirs(d) : n(e) \in DOMAIN Steps[d] /\ Steps[d][n(e)] = e
    BY DEF SubDirs
  <2>2. \A e \in SubDirs(d) : Index(d, n(e)) - 1 \in Nat
    BY <1>1, <2>1, SubDirsAreDirs, IndexType
  <2>3. \A e \in SubDirs(d) : Append(key[d], Index(d, n(e)) - 1) \in Seq(Nat)
    BY <1>1, <2>2 DEF TypeOK
  <2>. HIDE DEF n
  <2>4. key' = [e \in Dirs |-> IF e \in SubDirs(d) THEN Append(key[d], Index(d, n(e)) - 1)
                               ELSE key[e]]
    BY DEF Explore, n
  <2>. QED
    BY <2>3, <2>4 DEF TypeOK
<1>4. phase' \in [Threads -> Phases]
  BY DEF TypeOK, Explore, Phases
<1>5. \A u \in Threads : Located(u)' => at'[u] \in Dirs
  BY <1>1 DEF TypeOK, Explore, Located, AtWork
<1>. QED
  BY <1>2, <1>3, <1>4, <1>5 DEF TypeOK, Explore, heap, walk

LEMMA TypeRegister ==
  ASSUME TypeOK, NEW t \in Threads, Register(t) PROVE TypeOK'
<1>1. open' \subseteq Dirs /\ next' \in [Threads -> Dirs \cup {NoDir}]
  BY SubDirsAreDirs DEF TypeOK, Register
<1>2. left' \in [Threads -> Int]
  BY SubDirsCount DEF TypeOK, Register
<1>3. phase' \in [Threads -> Phases]
  BY DEF TypeOK, Register, Goes, Phases
<1>4. \A u \in Threads : Located(u)' => at'[u] \in Dirs
  BY DEF TypeOK, Register, Goes, Located, AtWork
<1>. QED
  BY <1>1, <1>2, <1>3, <1>4 DEF TypeOK, Register, slots, walk

LEMMA TypeNotify ==
  ASSUME TypeOK, NEW t \in Threads, Notify(t) \/ Notified(t) PROVE TypeOK'
<1>1. left' \in [Threads -> Int]
  BY DEF TypeOK, Notify, Notified
<1>2. phase' \in [Threads -> Phases]
  BY DEF TypeOK, Notify, Notified, Goes, Phases, Threads
<1>3. \A u \in Threads : Located(u)' => at'[u] \in Dirs
  BY DEF TypeOK, Notify, Notified, Goes, Located, AtWork
<1>. QED
  BY <1>1, <1>2, <1>3 DEF TypeOK, Notify, Notified, slots, heap, walk

LEMMA TypeWalk ==
  ASSUME TypeOK, Push \/ Visit \/ Descend PROVE TypeOK'
<1>1. Walker \in Threads
  BY DEF Threads
<1>2. ahead' \in Seq(Dirs \cup Leaves) /\ visited' \in Seq(Leaves)
  <2>1. CASE Push
    <3>1. Steps[at[Walker]] \in Seq(Dirs \cup Leaves)
      BY <1>1, <2>1, TreeAssumption DEF Push, Goes, TypeOK, Located
    <3>. QED
      BY <2>1, <3>1, ConcatProperties DEF Push, TypeOK
  <2>2. CASE Visit \/ Descend
    <3>1. Tail(ahead) \in Seq(Dirs \cup Leaves)
      BY <2>2, HeadTailProperties DEF Visit, Descend, TypeOK
    <3>2. Visit => Append(visited, Head(ahead)) \in Seq(Leaves)
      BY DEF Visit, TypeOK
    <3>. QED
      BY <2>2, <3>1, <3>2 DEF Visit, Descend, TypeOK
  <2>. QED
    BY <2>1, <2>2
<1>3. phase' \in [Threads -> Phases] /\ left' \in [Threads -> Int]
  <2>1. CASE Push
    BY <2>1 DEF TypeOK, Push, Goes, Phases
  <2>2. CASE Visit
    BY <2>2 DEF TypeOK, Visit
  <2>3. CASE Descend
    <3>1. \E p \in {"hire", "obtain"} : phase' = [phase EXCEPT ![Walker] = p]
      BY <2>3 DEF Descend
    <3>2. left' \in {left, [left EXCEPT ![Walker] = 2]}
      BY <1>1, <2>3 DEF Descend, TypeOK
    <3>3. phase' \in [Threads -> Phases]
      BY <3>1 DEF TypeOK, Phases
    <3>4. left' \in [Threads -> Int]
      BY <3>2 DEF TypeOK
    <3>. QED
      BY <3>3, <3>4
  <2>. QED
    BY <2>1, <2>2, <2>3
<1>4. /\ at' \in [Threads -> Dirs \cup {NoDir}]
      /\ \A u \in Threads : Located(u)' => at'[u] \in Dirs
  <2>1. CASE Push \/ Visit
    BY <1>1, <2>1 DEF TypeOK, Push, Visit, Goes, Located, AtWork
  <2>2. CASE Descend
    BY <1>1, <2>2 DEF TypeOK, Descend, Goes, Located, AtWork
  <2>. QED
    BY <2>1, <2>2
<1>. QED
  BY <1>2, <1>3, <1>4 DEF TypeOK, Push, Visit, Descend, slots, heap

LEMMA TypeObtain ==
  ASSUME TypeOK, Obtain \/ Await \/ End \/ NotifyAll \/ Return PROVE TypeOK'
<1>1. Walker \in Threads
  BY DEF Threads
<1>2. phase' \in [Threads -> Phases]
  BY <1>1 DEF TypeOK, Obtain, Await, End, NotifyAll, Return, Goes, Phases
<1>3. \A u \in Threads : Located(u)' => at'[u] \in Dirs
  BY <1>1 DEF TypeOK, Obtain, Await, End, NotifyAll, Return, Goes, Located, AtWork
<1>4. unclaimed' \subseteq Dirs /\ stored' \subseteq Dirs /\ awaited' \subseteq Dirs
  BY <1>1 DEF TypeOK, Obtain, Await, End, NotifyAll, Return, Located, slots
<1>. QED
  BY <1>2, <1>3, <1>4
     DEF TypeOK, Obtain, Await, End, NotifyAll, Return, slots, heap, walk

LEMMA TypeHire ==
  ASSUME TypeOK, NEW t \in Threads, Hire(t) \/ Hired(t) PROVE TypeOK'
<1>1. phase' \in [Threads -> Phases]
  <2>1. \E u, p : p \in Phases /\ phase' \in {phase, [phase EXCEPT ![u] = p]}
    BY DEF Hire, Hired, Goes, Phases
  <2>. QED
    BY <2>1 DEF TypeOK
<1>4. left' \in [Threads -> Int]
  BY DEF TypeOK, Hire, Hired
<1>2. \A u \in Threads : Located(u)' => at'[u] \in Dirs
  BY CoresAssumption
     DEF TypeOK, Hire, Hired, Goes, Located, AtWork, Threads, Workers, Walker
<1>3. hired' \in Nat \ {0}
  BY DEF TypeOK, Hire, Hired
<1>. QED
  BY <1>1, <1>2, <1>3, <1>4 DEF TypeOK, Hire, Hired, slots, heap, walk

LEMMA TypeWork ==
  ASSUME TypeOK, NEW w \in Workers, Claim(w) \/ Take(w) \/ Store(w) PROVE TypeOK'
<1>1. w \in Threads /\ w # Walker /\ Walker \in Threads
  BY DEF Threads, Workers, Walker
<1>2. phase' \in [Threads -> Phases]
  BY <1>1 DEF TypeOK, Claim, Take, Store, Phases
<1>3. at' \in [Threads -> Dirs \cup {NoDir}]
  BY <1>1 DEF TypeOK, Claim, Take, Store
<1>4. \A u \in Threads : Located(u)' => at'[u] \in Dirs
  BY <1>1 DEF TypeOK, Claim, Take, Store, Located, AtWork
<1>5. unclaimed' \subseteq Dirs /\ stored' \subseteq Dirs /\ open' \subseteq Dirs
  BY <1>1 DEF TypeOK, Claim, Take, Store, slots, heap, Located, AtWork
<1>. QED
  BY <1>2, <1>3, <1>4, <1>5 DEF TypeOK, Claim, Take, Store, slots, heap, walk

LEMMA TypeWake ==
  ASSUME TypeOK, NEW t \in Threads, WakeAlone(t) PROVE TypeOK'
<1>1. phase' \in [Threads -> Phases]
  BY DEF TypeOK, WakeAlone, Phases
<1>2. \A u \in Threads : Located(u)' => at'[u] \in Dirs
  BY DEF TypeOK, WakeAlone, Located, AtWork
<1>. QED
  BY <1>1, <1>2 DEF TypeOK, WakeAlone, slots, heap, walk

LEMMA TypeStep == TypeOK /\ [Next]_vars => TypeOK'
<1> SUFFICES ASSUME TypeOK, [Next]_vars PROVE TypeOK'
  OBVIOUS
<1>1. ASSUME NEW t \in Threads, ExploreStep(t) \/ HireStep(t) \/ WakeAlone(t)
      PROVE  TypeOK'
  BY <1>1, TypeExplore, TypeRegister, TypeNotify, TypeHire, TypeWake
     DEF ExploreStep, HireStep
<1>2. CASE WalkerStep
  <2>1. Walker \in Threads
    BY DEF Threads
  <2>. QED
    BY <1>1, <1>2, <2>1, TypeWalk, TypeObtain DEF WalkerStep
<1>3. ASSUME NEW w \in Workers, WorkerStep(w) PROVE TypeOK'
  <2>1. w \in Threads
    BY DEF Threads
  <2>. QED
    BY <1>1, <1>3, <2>1, TypeWork DEF WorkerStep
<1>4. CASE UNCHANGED vars
  BY <1>4 DEF vars, TypeOK, Located, AtWork
<1>. QED
  BY <1>1, <1>2, <1>3, <1>4 DEF Next, Over

(* Every state of the walk is well typed. *)
THEOREM TypeCorrect == Spec => []TypeOK
  BY TypeInit, TypeStep, PTL DEF Spec

-----------------------------------------------------------------------------
(* The invariant holds at first. *)

LEMMA InvInit == Init => IInv
<1> SUFFICES ASSUME Init PROVE IInv
  OBVIOUS
<1>1. \A d \in Dirs : ~Due(d)
  BY DEF Init, Due, Ahead, Obtains, Threads
<1>2. \A t \in Threads, d \in Dirs : Has(t, d) => t = Walker /\ d = Root
  BY DEF Init, Has, AtWork
<1>3. PhaseInv
  BY DEF Init, PhaseInv, WorkerPhases, Threads, Workers, Walker
<1>4. FoundInv /\ OnceInv /\ DueInv
  BY <1>1, <1>2 DEF Init, FoundInv, OnceInv, DueInv, Threads
<1>5. PlaceInv
  BY DEF Init, PlaceInv, Obtains, Threads
<1>6. UnexploredInv
  BY OneParent DEF Init, UnexploredInv
<1>7. \A d \in Dirs : Unpushed(d) => Unexplored(d)
  BY DEF Init, Unpushed, Unexplored, Has, AtWork
<1>8. ExploredInv /\ UnpushedInv
  BY <1>1, <1>7, SubDirsAreDirs DEF ExploredInv, UnpushedInv
<1>9. EndInv
  BY DEF Init, EndInv, Threads
<1>. QED
  BY TypeInit, <1>3, <1>4, <1>5, <1>6, <1>8, <1>9 DEF IInv

-----------------------------------------------------------------------------
(* Steps that move no directory. *)

Still ==
  /\ UNCHANGED <<unclaimed, stored, found, ahead, awaited>>
  /\ \A t \in Threads, d \in Dirs :
       /\ Has(t, d)' <=> Has(t, d)
       /\ phase'[t] = "explore" /\ at'[t] = d <=> phase[t] = "explore" /\ at[t] = d
  /\ \A w \in Workers, d \in Dirs : AtWork(w)' /\ at'[w] = d <=> AtWork(w) /\ at[w] = d
  /\ Obtains' <=> Obtains
  /\ Obtains => at'[Walker] = at[Walker]
  /\ phase'[Walker] \in {"await", "waiting"} => phase[Walker] \in {"await", "waiting"}
  /\ phase'[Walker] = "waiting" => phase[Walker] = "waiting"

LEMMA StillKeeps ==
  ASSUME IInv, Still
  PROVE  /\ FoundInv' /\ OnceInv' /\ PlaceInv' /\ DueInv'
         /\ UnexploredInv' /\ ExploredInv' /\ UnpushedInv'
<1>1. \A d : Ahead(d)' <=> Ahead(d)
  BY DEF Still, Ahead
<1>2. \A d : Due(d)' <=> Due(d)
  BY <1>1 DEF Still, Due
<1>3. \A d \in Dirs : Alive(d)' <=> Alive(d)
  BY DEF Still, Alive
<1>4. \A d \in Dirs : Unexplored(d)' <=> Unexplored(d)
  BY DEF Still, Unexplored
<1>5. \A d \in Dirs : Unpushed(d)' <=> Unpushed(d)
  BY DEF Still, Unpushed
<1>6. FoundInv' /\ OnceInv'
  BY <1>2 DEF IInv, Still, FoundInv, OnceInv
<1>7. PlaceInv'
  BY <1>1 DEF IInv, Still, PlaceInv
<1>8. DueInv'
  <2>1. phase'[Walker] \in {"await", "waiting"} => at'[Walker] = at[Walker]
    BY DEF Still, Obtains
  <2>. QED
    BY <1>2, <1>3, <2>1 DEF IInv, Still, DueInv
<1>9. UnexploredInv' /\ ExploredInv' /\ UnpushedInv'
  BY <1>2, <1>3, <1>4, <1>5, SubDirsAreDirs
     DEF IInv, Still, UnexploredInv, ExploredInv, UnpushedInv
<1>. QED
  BY <1>6, <1>7, <1>8, <1>9

LEMMA ThreadFacts == /\ Walker \in Threads
                     /\ \A w \in Workers : w \in Threads /\ w # Walker
  BY DEF Threads, Workers, Walker

LEMMA StillSteps ==
  ASSUME IInv, NEW t \in Threads,
         \/ Register(t) \/ Notify(t) \/ Notified(t) \/ Hire(t) \/ Hired(t) \/ WakeAlone(t)
         \/ End \/ NotifyAll \/ Return \/ (t \in Workers /\ Claim(t))
  PROVE  Still
<1> USE ThreadFacts
<1>1. CASE Register(t)
  BY <1>1 DEF IInv, TypeOK, Register, Goes, Still, Has, AtWork, Obtains, slots, walk
<1>2. CASE Notify(t)
  BY <1>2 DEF IInv, TypeOK, Notify, Still, Has, AtWork, Obtains, slots, walk
<1>3. CASE Notified(t)
  BY <1>3 DEF IInv, TypeOK, Notified, Goes, Still, Has, AtWork, Obtains, slots, walk, Threads, Workers
<1>4. CASE Hire(t)
  BY <1>4, CoresAssumption
     DEF IInv, TypeOK, PhaseInv, Hire, Still, Has, AtWork, Obtains, slots, walk, Workers, Walker
<1>5. CASE Hired(t)
  BY <1>5 DEF IInv, TypeOK, Hired, Goes, Still, Has, AtWork, Obtains, slots, walk, Threads
<1>6. CASE WakeAlone(t)
  BY <1>6 DEF IInv, TypeOK, PhaseInv, WorkerPhases, WakeAlone, Still, Has, AtWork, Obtains, slots, walk, Threads
<1>7. CASE End \/ NotifyAll \/ Return
  BY <1>7 DEF IInv, TypeOK, End, NotifyAll, Return, Goes, Still, Has, AtWork, Obtains, slots, walk
<1>8. CASE t \in Workers /\ Claim(t)
  BY <1>8 DEF IInv, TypeOK, Claim, Still, Has, AtWork, Obtains, slots, walk
<1>. QED
  BY <1>1, <1>2, <1>3, <1>4, <1>5, <1>6, <1>7, <1>8

-----------------------------------------------------------------------------
(* Phases and the end, over every step. *)

LEMMA PhaseSteps ==
  ASSUME IInv, [Next]_vars PROVE PhaseInv'
<1> USE ThreadFacts
<1>1. ASSUME NEW t \in Threads, ExploreStep(t) PROVE PhaseInv'
  <2>1. hired' = hired
    BY <1>1 DEF ExploreStep, Explore, Register, Notify, Notified
  <2>2. CASE Explore(t)
    BY <2>1, <2>2 DEF IInv, TypeOK, PhaseInv, WorkerPhases, Explore, Threads
  <2>3. CASE Register(t) \/ Notified(t)
    BY <2>1, <2>3 DEF IInv, TypeOK, PhaseInv, WorkerPhases, Register, Notified, Goes, Threads
  <2>4. CASE Notify(t)
    BY <2>1, <2>4 DEF IInv, TypeOK, PhaseInv, WorkerPhases, Notify
  <2>. QED
    BY <1>1, <2>2, <2>3, <2>4 DEF ExploreStep
<1>2. ASSUME NEW t \in Threads, HireStep(t) PROVE PhaseInv'
  <2>1. CASE Hire(t)
    BY <2>1 DEF IInv, TypeOK, PhaseInv, WorkerPhases, Hire, Workers, Walker
  <2>2. CASE Hired(t)
    BY <2>2 DEF IInv, TypeOK, PhaseInv, WorkerPhases, Hired, Goes, Threads
  <2>. QED
    BY <1>2, <2>1, <2>2 DEF HireStep
<1>3. CASE Push \/ Visit \/ Descend \/ Obtain \/ Await
  BY <1>3 DEF IInv, TypeOK, PhaseInv, Push, Visit, Descend, Obtain, Await, Goes
<1>4. CASE End \/ NotifyAll \/ Return
  BY <1>4 DEF IInv, TypeOK, PhaseInv, WorkerPhases, End, NotifyAll, Return, Goes
<1>5. ASSUME NEW w \in Workers, Claim(w) \/ Take(w) \/ Store(w) PROVE PhaseInv'
  <2>1. CASE Claim(w)
    BY <2>1 DEF IInv, TypeOK, PhaseInv, WorkerPhases, Claim
  <2>2. CASE Take(w)
    BY <2>2 DEF IInv, TypeOK, PhaseInv, WorkerPhases, Take
  <2>3. CASE Store(w)
    BY <2>3 DEF IInv, TypeOK, PhaseInv, WorkerPhases, Store
  <2>. QED
    BY <1>5, <2>1, <2>2, <2>3
<1>6. ASSUME NEW t \in Threads, WakeAlone(t) PROVE PhaseInv'
  BY <1>6 DEF IInv, TypeOK, PhaseInv, WorkerPhases, WakeAlone, Threads
<1>7. CASE UNCHANGED vars
  BY <1>7 DEF IInv, PhaseInv, vars
<1>. QED
  BY <1>1, <1>2, <1>3, <1>4, <1>5, <1>6, <1>7 DEF Next, WalkerStep, WorkerStep, Over

LEMMA EndSteps ==
  ASSUME IInv, [Next]_vars PROVE EndInv'
<1> USE ThreadFacts
<1> DEFINE ends == {"signal", "join", "returned"}
<1>1. ASSUME NEW t \in Threads, ExploreStep(t) \/ HireStep(t) \/ WakeAlone(t) PROVE EndInv'
  <2>1. done' = done
    BY <1>1 DEF ExploreStep, Explore, Register, Notify, Notified, HireStep, Hire, Hired, WakeAlone, heap
  <2>2. /\ phase'[Walker] \in ends <=> phase[Walker] \in ends
        /\ phase'[Walker] \in ends => phase'[Walker] = phase[Walker]
        /\ \A w \in Workers : phase'[w] = "asleep" => phase[w] = "asleep"
    <3>1. CASE Explore(t)
      BY <3>1 DEF IInv, TypeOK, Explore
    <3>2. CASE Register(t) \/ Notified(t) \/ Hired(t)
      BY <3>2 DEF IInv, TypeOK, Register, Notified, Hired, Goes
    <3>3. CASE Notify(t)
      BY <3>3 DEF IInv, TypeOK, Notify
    <3>4. CASE Hire(t)
      BY <3>4 DEF IInv, TypeOK, Hire, Walker
    <3>5. CASE WakeAlone(t)
      BY <3>5 DEF IInv, TypeOK, PhaseInv, WakeAlone
    <3>. QED
      BY <1>1, <3>1, <3>2, <3>3, <3>4, <3>5 DEF ExploreStep, HireStep
  <2>. QED
    BY <2>1, <2>2 DEF IInv, EndInv
<1>2. CASE Push \/ Visit \/ Descend \/ Obtain \/ Await
  <2>1. done' = done
    BY <1>2 DEF Push, Visit, Descend, Obtain, Await, heap
  <2>2. phase[Walker] \notin ends /\ phase'[Walker] \notin ends
    BY <1>2 DEF IInv, TypeOK, Push, Visit, Descend, Obtain, Await, Goes
  <2>. QED
    BY <2>1, <2>2 DEF IInv, EndInv
<1>3. CASE End \/ NotifyAll \/ Return
  BY <1>3 DEF IInv, TypeOK, PhaseInv, EndInv, End, NotifyAll, Return, Goes, heap
<1>4. ASSUME NEW w \in Workers, Claim(w) \/ Take(w) \/ Store(w) PROVE EndInv'
  <2>1. done' = done
    BY <1>4 DEF Claim, Take, Store, heap
  <2>2. /\ phase'[Walker] \in ends <=> phase[Walker] \in ends
        /\ phase'[Walker] \in ends => phase'[Walker] = phase[Walker]
        /\ \A v \in Workers : phase'[v] = "asleep" => phase[v] = "asleep" \/ ~done
    BY <1>4 DEF IInv, TypeOK, Claim, Take, Store
  <2>. QED
    BY <2>1, <2>2 DEF IInv, EndInv
<1>5. CASE UNCHANGED vars
  BY <1>5 DEF IInv, EndInv, vars
<1>. QED
  BY <1>1, <1>2, <1>3, <1>4, <1>5 DEF Next, WalkerStep, WorkerStep, Over

-----------------------------------------------------------------------------
(* Steps that move a directory on. *)

DirsInv ==
  /\ FoundInv /\ OnceInv /\ PlaceInv /\ DueInv
  /\ UnexploredInv /\ ExploredInv /\ UnpushedInv

LEMMA AliveIsFound == ASSUME IInv PROVE \A d \in Dirs : Alive(d) => d \in found
  BY ThreadFacts DEF IInv, FoundInv, Alive, Has

LEMMA InvExplore ==
  ASSUME IInv, NEW t \in Threads, Explore(t) PROVE DirsInv'
<1> USE ThreadFacts
<1> DEFINE d == at[t]
<1>1. /\ d \in Dirs /\ d \in found /\ d \notin unclaimed /\ d \notin stored
      /\ Has(t, d) /\ phase[t] = "explore"
      /\ \A u \in Threads : Has(u, d) => u = t
  BY DEF IInv, TypeOK, Located, AtWork, Explore, Has, FoundInv, OnceInv
<1>2. \A e \in SubDirs(d) : e \in Dirs /\ e \notin found
  BY <1>1, SubDirsAreDirs DEF IInv, UnexploredInv, Unexplored
<1>3. unclaimed' = unclaimed \cup SubDirs(d) /\ found' = found \cup SubDirs(d)
  BY DEF Explore
<1>4. UNCHANGED <<stored, awaited, ahead, at>>
  BY DEF Explore, walk
<1>5. \A u \in Threads, x \in Dirs :
        /\ Has(u, x)' <=> Has(u, x)
        /\ phase'[u] = "explore" /\ at'[u] = x <=> phase[u] = "explore" /\ at[u] = x /\ u # t
  BY DEF IInv, TypeOK, Explore, walk, Has, AtWork
<1>6. \A w \in Workers, x \in Dirs : AtWork(w)' /\ at'[w] = x <=> AtWork(w) /\ at[w] = x
  BY DEF IInv, TypeOK, Explore, walk, AtWork
<1>7. \A x : Due(x)' <=> Due(x)
  BY DEF IInv, TypeOK, Explore, walk, Due, Ahead, Obtains
<1>8. \A x \in Dirs : Alive(x)' <=> Alive(x) \/ x \in SubDirs(d)
  BY <1>3, <1>4, <1>6 DEF Alive
<1>9. FoundInv'
  BY <1>3, <1>4, <1>5, <1>7 DEF IInv, FoundInv
<1>10. OnceInv'
  BY <1>2, <1>3, <1>4, <1>5 DEF IInv, OnceInv, FoundInv
<1>11. PlaceInv'
  BY DEF IInv, TypeOK, PlaceInv, Explore, walk, Ahead, Obtains
<1>12. DueInv'
  <2>1. /\ phase'[Walker] \in {"await", "waiting"} => Due(at[Walker])
        /\ \A p \in {"await", "waiting"} : phase'[Walker] = p => phase[Walker] = p
    BY DEF IInv, TypeOK, Explore, Due, Obtains
  <2>2. phase'[Walker] \in {"await", "waiting"} => at[Walker] \notin SubDirs(d)
    BY <1>2, <2>1 DEF IInv, FoundInv
  <2>. QED
    BY <1>3, <1>4, <1>7, <1>8, <2>1, <2>2 DEF IInv, DueInv
<1>13. \A x \in Dirs : Unexplored(x)' => Unexplored(x) /\ x # d
  BY <1>1, <1>2, <1>3, <1>5 DEF Unexplored, Has, AtWork
<1>14. \A x \in Dirs : Unexplored(x) /\ x # d => Unexplored(x)'
  <2> SUFFICES ASSUME NEW x \in Dirs, Unexplored(x), x # d PROVE Unexplored(x)'
    OBVIOUS
  <2>. QED
    BY <1>3, <1>5 DEF Unexplored
<1>15. UnexploredInv'
  BY <1>1, <1>3, <1>13, OneParent DEF IInv, UnexploredInv
<1>16. \A x \in Dirs : Unpushed(x)' => Unpushed(x)
  BY <1>2, <1>3, <1>4, <1>5 DEF Unpushed
<1>17. ExploredInv'
  BY <1>8, <1>14, <1>16, SubDirsAreDirs DEF IInv, ExploredInv
<1>18. UnpushedInv'
  BY <1>7, <1>16 DEF IInv, UnpushedInv
<1>. QED
  BY <1>9, <1>10, <1>11, <1>12, <1>15, <1>17, <1>18 DEF DirsInv

LEMMA InvPush ==
  ASSUME IInv, Push PROVE DirsInv'
<1> USE ThreadFacts
<1> DEFINE d == at[Walker]
           S == Dirs \cup Leaves
<1>1. d \in Dirs /\ Has(Walker, d) /\ phase[Walker] = "push" /\ phase'[Walker] = "walk"
  BY DEF IInv, TypeOK, Located, Push, Goes, Has
<1>2. UNCHANGED <<unclaimed, stored, found, awaited, at>>
  BY DEF Push, slots
<1>3. /\ d \in found /\ d \notin unclaimed /\ d \notin stored
      /\ \A t \in Threads : Has(t, d) => t = Walker
  BY <1>1 DEF IInv, FoundInv, OnceInv
<1>4. ~Unexplored(d) /\ Unpushed(d)
  BY <1>1, <1>3 DEF Unexplored, Unpushed, Has, AtWork
<1>5. \A t \in Threads, x \in Dirs :
        /\ Has(t, x)' <=> Has(t, x) /\ t # Walker
        /\ phase'[t] = "explore" /\ at'[t] = x <=> phase[t] = "explore" /\ at[t] = x
  BY <1>1 DEF IInv, TypeOK, Push, Goes, Has, AtWork
<1>6. \A w \in Workers, x \in Dirs : AtWork(w)' /\ at'[w] = x <=> AtWork(w) /\ at[w] = x
  BY DEF IInv, TypeOK, Push, Goes, AtWork
<1>7. \A x \in Dirs : Alive(x)' <=> Alive(x)
  BY <1>2, <1>6 DEF Alive
<1>8. /\ Steps[d] \in Seq(S) /\ ahead \in Seq(S)
      /\ ahead' \in Seq(S) /\ Len(ahead') = Len(Steps[d]) + Len(ahead)
      /\ \A i \in DOMAIN ahead' :
           ahead'[i] = IF i <= Len(Steps[d]) THEN Steps[d][i] ELSE ahead[i - Len(Steps[d])]
  <2>1. Steps[d] \in Seq(S) /\ ahead \in Seq(S)
    BY <1>1, TreeAssumption DEF IInv, TypeOK
  <2>2. ahead' = Steps[d] \o ahead
    BY DEF Push
  <2>. QED
    BY <2>1, <2>2, ConcatProperties
<1>9. \A i \in DOMAIN ahead' :
        \/ i \in DOMAIN Steps[d] /\ ahead'[i] = Steps[d][i]
        \/ i - Len(Steps[d]) \in DOMAIN ahead /\ ahead'[i] = ahead[i - Len(Steps[d])]
  BY <1>8
<1>10. \A x \in Dirs : Due(x)' => Due(x) \/ x \in SubDirs(d)
  BY <1>1, <1>9 DEF Due, Ahead, Obtains, SubDirs
<1>11. \A e \in SubDirs(d) : e \in Dirs /\ Alive(e) /\ ~Due(e)
  BY <1>1, <1>4, SubDirsAreDirs DEF IInv, ExploredInv, UnpushedInv
<1>12. FoundInv'
  BY <1>2, <1>5, <1>10, <1>11, AliveIsFound DEF IInv, FoundInv
<1>13. OnceInv'
  BY <1>2, <1>5 DEF IInv, OnceInv
<1>14. PlaceInv'
  <2> SUFFICES ASSUME NEW i \in DOMAIN ahead', NEW j \in DOMAIN ahead',
                      ahead'[i] = ahead'[j], ahead'[i] \in Dirs
               PROVE  i = j
    BY <1>1 DEF PlaceInv, Obtains
  <2>1. ASSUME NEW k \in DOMAIN Steps[d], NEW l \in DOMAIN ahead, Steps[d][k] = ahead[l],
               Steps[d][k] \in Dirs
        PROVE  FALSE
    <3>1. Steps[d][k] \in SubDirs(d) /\ Due(Steps[d][k])
      BY <2>1 DEF SubDirs, Due, Ahead
    <3>. QED
      BY <3>1, <1>11
  <2>2. CASE i \in DOMAIN Steps[d] /\ ahead'[i] = Steps[d][i]
    <3>1. j \in DOMAIN Steps[d] /\ ahead'[j] = Steps[d][j]
      BY <1>9, <2>1, <2>2
    <3>2. Steps[d][i] = Steps[d][j] /\ Steps[d][i] \in Dirs
      BY <2>2, <3>1
    <3>. QED
      BY <1>1, <2>2, <3>1, <3>2, PlaceAssumption
  <2>3. CASE i - Len(Steps[d]) \in DOMAIN ahead /\ ahead'[i] = ahead[i - Len(Steps[d])]
    <3>1. j - Len(Steps[d]) \in DOMAIN ahead /\ ahead'[j] = ahead[j - Len(Steps[d])]
      BY <1>9, <2>1, <2>3
    <3>2. i - Len(Steps[d]) = j - Len(Steps[d])
      BY <2>3, <3>1 DEF IInv, PlaceInv
    <3>3. i \in Int /\ j \in Int /\ Len(Steps[d]) \in Int
      BY <1>8
    <3>. HIDE DEF d
    <3>. QED
      BY <3>2, <3>3
  <2>. QED
    BY <1>9, <2>2, <2>3
<1>15. DueInv'
  BY <1>1, <1>7, <1>10, <1>11 DEF IInv, DueInv
<1>16. UnexploredInv'
  BY <1>2, <1>5 DEF IInv, UnexploredInv, Unexplored
<1>17. \A x \in Dirs : Unpushed(x)' => Unpushed(x) /\ x # d
  BY <1>2, <1>3, <1>5 DEF Unpushed
<1>18. ExploredInv'
  BY <1>2, <1>5, <1>7, <1>17, SubDirsAreDirs DEF IInv, ExploredInv, Unexplored
<1>19. UnpushedInv'
  <2> SUFFICES ASSUME NEW x \in Dirs, Unpushed(x)', NEW e \in SubDirs(x) PROVE ~Due(e)'
    BY DEF UnpushedInv
  <2>1. Unpushed(x) /\ x # d
    BY <1>17
  <2>2. e \in Dirs /\ ~Due(e)
    BY <2>1, SubDirsAreDirs DEF IInv, UnpushedInv
  <2>3. e \notin SubDirs(d)
    BY <1>1, <2>1, OneParent
  <2>. QED
    BY <1>10, <2>2, <2>3
<1>. QED
  BY <1>12, <1>13, <1>14, <1>15, <1>16, <1>18, <1>19 DEF DirsInv

LEMMA InvVisit ==
  ASSUME IInv, Visit \/ Descend PROVE DirsInv'
<1> USE ThreadFacts
<1> DEFINE S == Dirs \cup Leaves
<1>1. phase[Walker] = "walk" /\ phase'[Walker] \in {"walk", "hire", "obtain"}
  BY DEF IInv, TypeOK, Visit, Descend
<1>2. UNCHANGED <<unclaimed, stored, found, awaited>>
  BY DEF Visit, Descend, slots
<1>3. \A t \in Threads, x \in Dirs :
        /\ Has(t, x)' <=> Has(t, x)
        /\ phase'[t] = "explore" /\ at'[t] = x <=> phase[t] = "explore" /\ at[t] = x
  BY <1>1 DEF IInv, TypeOK, Visit, Descend, Has, AtWork
<1>4. \A w \in Workers, x \in Dirs : AtWork(w)' /\ at'[w] = x <=> AtWork(w) /\ at[w] = x
  BY DEF IInv, TypeOK, Visit, Descend, AtWork
<1>5. \A x \in Dirs : (Alive(x)' <=> Alive(x)) /\ (Unexplored(x)' <=> Unexplored(x))
                      /\ (Unpushed(x)' <=> Unpushed(x))
  BY <1>2, <1>3, <1>4 DEF Alive, Unexplored, Unpushed
<1>6. /\ ahead \in Seq(S) /\ ahead # <<>> /\ ahead' \in Seq(S) /\ Len(ahead') = Len(ahead) - 1
      /\ \A i \in DOMAIN ahead' : i + 1 \in DOMAIN ahead /\ ahead'[i] = ahead[i + 1]
      /\ 1 \in DOMAIN ahead
  <2>1. ahead \in Seq(S) /\ ahead # <<>> /\ ahead' = Tail(ahead)
    BY DEF IInv, TypeOK, Visit, Descend
  <2>. QED
    BY <2>1, HeadTailProperties
<1>7. Descend => at'[Walker] = ahead[1] /\ ahead[1] \in Dirs
  BY DEF IInv, TypeOK, Descend
<1>8. Visit => phase'[Walker] = "walk"
  BY <1>1 DEF Visit
<1>9. \A x : Due(x)' => Due(x)
  BY <1>1, <1>6, <1>7, <1>8 DEF Due, Ahead, Obtains
<1>10. FoundInv' /\ OnceInv'
  BY <1>2, <1>3, <1>9 DEF IInv, FoundInv, OnceInv
<1>11. PlaceInv'
  <2>1. ASSUME NEW i \in DOMAIN ahead', NEW j \in DOMAIN ahead',
               ahead'[i] = ahead'[j], ahead'[i] \in Dirs
        PROVE  i = j
    <3>1. i + 1 = j + 1
      BY <1>6, <2>1 DEF IInv, PlaceInv
    <3>. QED
      BY <1>6, <3>1
  <2>2. Obtains' => ~Ahead(at[Walker])'
    <3> SUFFICES ASSUME Obtains', NEW i \in DOMAIN ahead', ahead'[i] = at'[Walker] PROVE FALSE
      BY DEF Ahead
    <3>1. Descend
      BY <1>8 DEF Obtains
    <3>2. i + 1 = 1
      BY <1>6, <1>7, <3>1 DEF IInv, PlaceInv
    <3>. QED
      BY <1>6, <3>2
  <2>. QED
    BY <2>1, <2>2 DEF PlaceInv
<1>12. DueInv'
  BY <1>1, <1>5, <1>9 DEF IInv, DueInv
<1>13. UnexploredInv' /\ ExploredInv' /\ UnpushedInv'
  BY <1>2, <1>5, <1>9, SubDirsAreDirs DEF IInv, UnexploredInv, ExploredInv, UnpushedInv
<1>. QED
  BY <1>10, <1>11, <1>12, <1>13 DEF DirsInv

(* The walker takes a directory, or the items of one, that it is due. *)
LEMMA InvObtains ==
  ASSUME IInv, NEW d \in Dirs, d = at[Walker], Obtains, at' = at,
         UNCHANGED <<found, awaited, ahead>>,
         \/ /\ d \in unclaimed /\ unclaimed' = unclaimed \ {d} /\ stored' = stored
            /\ phase' = [phase EXCEPT ![Walker] = "explore"]
         \/ /\ d \in stored /\ stored' = stored \ {d} /\ unclaimed' = unclaimed
            /\ phase' = [phase EXCEPT ![Walker] = "push"]
  PROVE  DirsInv'
<1> USE ThreadFacts
<1>1. Due(d) /\ ~Ahead(d) /\ d \in found /\ ~Obtains'
  BY DEF IInv, TypeOK, Due, PlaceInv, FoundInv, Obtains
<1>2. \A t \in Threads : ~Has(t, d)
  BY DEF IInv, OnceInv
<1>3. \A t \in Threads, x \in Dirs : Has(t, x)' <=> Has(t, x) \/ (t = Walker /\ x = d)
  BY DEF IInv, TypeOK, Has, AtWork, Obtains
<1>4. \A w \in Workers, x \in Dirs : AtWork(w)' /\ at'[w] = x <=> AtWork(w) /\ at[w] = x
  BY DEF IInv, TypeOK, AtWork
<1>5. \A x \in Dirs : Due(x)' => Due(x) /\ x # d
  BY <1>1 DEF Due, Ahead
<1>6. \A x \in Dirs : x # d /\ Alive(x) => Alive(x)'
  BY <1>4 DEF Alive
<1>7. \A x \in Dirs : Unpushed(x)' <=> Unpushed(x)
  BY <1>1, <1>3 DEF Unpushed
<1>8. \A x \in Dirs : Unexplored(x)' <=> Unexplored(x)
  <2>1. CASE d \in unclaimed /\ phase' = [phase EXCEPT ![Walker] = "explore"]
              /\ unclaimed' = unclaimed \ {d}
    BY <2>1 DEF IInv, TypeOK, Unexplored, Obtains
  <2>2. CASE phase' = [phase EXCEPT ![Walker] = "push"] /\ unclaimed' = unclaimed
    BY <2>2 DEF IInv, TypeOK, Unexplored, Obtains
  <2>. QED
    BY <2>1, <2>2
<1>9. FoundInv'
  BY <1>1, <1>3, <1>5 DEF IInv, FoundInv
<1>10. OnceInv'
  BY <1>2, <1>3 DEF IInv, OnceInv
<1>11. PlaceInv'
  BY <1>1 DEF IInv, PlaceInv
<1>12. DueInv'
  BY <1>1, <1>5, <1>6 DEF IInv, DueInv, Obtains
<1>13. UnexploredInv'
  BY <1>8 DEF IInv, UnexploredInv
<1>14. ExploredInv'
  <2> SUFFICES ASSUME NEW x \in Dirs, Unpushed(x), ~Unexplored(x), NEW e \in SubDirs(x)
               PROVE  Alive(e)'
    BY <1>7, <1>8 DEF ExploredInv
  <2>1. e \in Dirs /\ Alive(e) /\ e # d
    BY <1>1, SubDirsAreDirs DEF IInv, ExploredInv, UnpushedInv
  <2>. QED
    BY <1>6, <2>1
<1>15. UnpushedInv'
  BY <1>5, <1>7, SubDirsAreDirs DEF IInv, UnpushedInv
<1>. QED
  BY <1>9, <1>10, <1>11, <1>12, <1>13, <1>14, <1>15 DEF DirsInv

(* The walker finds its directory taken: it turns to wait, and waits. *)
LEMMA InvWaits ==
  ASSUME IInv, Obtains, at' = at, at[Walker] \in Dirs, at[Walker] \notin unclaimed,
         UNCHANGED <<unclaimed, stored, found, ahead>>,
         \/ awaited' = awaited /\ phase' = [phase EXCEPT ![Walker] = "await"]
         \/ /\ awaited' = awaited \cup {at[Walker]} /\ at[Walker] \notin stored
            /\ phase' = [phase EXCEPT ![Walker] = "waiting"]
  PROVE  DirsInv'
<1> USE ThreadFacts
<1>1. \A t \in Threads, x \in Dirs :
        /\ Has(t, x)' <=> Has(t, x)
        /\ phase'[t] = "explore" /\ at'[t] = x <=> phase[t] = "explore" /\ at[t] = x
  BY DEF IInv, TypeOK, Has, AtWork, Obtains
<1>2. \A w \in Workers, x \in Dirs : AtWork(w)' /\ at'[w] = x <=> AtWork(w) /\ at[w] = x
  BY DEF IInv, TypeOK, AtWork
<1>3. Obtains' /\ \A x : (Ahead(x)' <=> Ahead(x)) /\ (Due(x)' <=> Due(x))
  BY DEF IInv, TypeOK, Obtains, Due, Ahead
<1>4. \A x \in Dirs : /\ Alive(x)' <=> Alive(x)
                      /\ Unexplored(x)' <=> Unexplored(x)
                      /\ Unpushed(x)' <=> Unpushed(x)
  BY <1>1, <1>2 DEF Alive, Unexplored, Unpushed
<1>5. FoundInv' /\ OnceInv' /\ PlaceInv'
  BY <1>1, <1>3 DEF IInv, FoundInv, OnceInv, PlaceInv
<1>6. DueInv'
  BY <1>3, <1>4 DEF IInv, TypeOK, DueInv
<1>7. UnexploredInv' /\ ExploredInv' /\ UnpushedInv'
  BY <1>3, <1>4, SubDirsAreDirs DEF IInv, UnexploredInv, ExploredInv, UnpushedInv
<1>. QED
  BY <1>5, <1>6, <1>7 DEF DirsInv

LEMMA InvObtain ==
  ASSUME IInv, Obtain \/ Await PROVE DirsInv'
<1> USE ThreadFacts
<1>1. at[Walker] \in Dirs /\ Obtains
  BY DEF IInv, TypeOK, Located, Obtain, Await, Obtains
<1>2. CASE Obtain
  BY <1>1, <1>2, InvObtains, InvWaits DEF Obtain, walk
<1>3. CASE Await
  <2>1. at[Walker] \notin unclaimed
    BY <1>3 DEF IInv, DueInv, Await
  <2>. QED
    BY <1>1, <1>3, <2>1, InvObtains, InvWaits DEF Await, walk
<1>. QED
  BY <1>2, <1>3

(* A worker's steps change who has a directory, not whether it is alive. *)
LEMMA InvTake ==
  ASSUME IInv, NEW w \in Workers, Take(w) PROVE DirsInv'
<1> USE ThreadFacts
<1> DEFINE d == at[w]
<1>1. d \in Dirs /\ at' = at /\ phase[w] = "take"
  BY DEF IInv, TypeOK, Located, Take
<1>2. CASE d \notin unclaimed
  <2>1. unclaimed' = unclaimed /\ phase' = [phase EXCEPT ![w] = "claim"]
    BY <1>2 DEF Take
  <2>2. Still
    BY <1>1, <2>1 DEF IInv, TypeOK, Take, Still, Has, AtWork, Obtains, walk
  <2>. QED
    BY <2>2, StillKeeps DEF DirsInv
<1>3. CASE d \in unclaimed
  <2>1. unclaimed' = unclaimed \ {d} /\ phase' = [phase EXCEPT ![w] = "explore"]
    BY <1>3 DEF Take
  <2>2. UNCHANGED <<stored, found, awaited, ahead>> /\ phase'[Walker] = phase[Walker]
    BY <2>1 DEF IInv, TypeOK, Take, walk
  <2>3. d \in found /\ \A t \in Threads : ~Has(t, d)
    BY <1>1, <1>3 DEF IInv, FoundInv, OnceInv
  <2>4. \A t \in Threads, x \in Dirs :
          /\ Has(t, x)' <=> Has(t, x) \/ (t = w /\ x = d)
          /\ (phase'[t] = "explore" /\ at'[t] = x) <=>
               ((phase[t] = "explore" /\ at[t] = x) \/ (t = w /\ x = d))
    BY <1>1, <2>1 DEF IInv, TypeOK, Has, AtWork
  <2>5. \A v \in Workers, x \in Dirs :
          (AtWork(v)' /\ at'[v] = x) <=> ((AtWork(v) /\ at[v] = x) \/ (v = w /\ x = d))
    BY <1>1, <2>1 DEF IInv, TypeOK, AtWork
  <2>6. \A x : Due(x)' <=> Due(x)
    BY <1>1, <2>2 DEF Due, Ahead, Obtains
  <2>7. \A x \in Dirs : Alive(x) => Alive(x)'
    BY <2>1, <2>2, <2>5 DEF Alive
  <2>8. \A x \in Dirs : (Unexplored(x)' <=> Unexplored(x)) /\ (Unpushed(x)' <=> Unpushed(x))
    BY <1>3, <2>1, <2>2, <2>3, <2>4 DEF Unexplored, Unpushed
  <2>9. FoundInv'
    BY <2>1, <2>2, <2>3, <2>4, <2>6 DEF IInv, FoundInv
  <2>10. OnceInv'
    <3>1. \A x : x \in unclaimed' \cup stored' => x \in unclaimed \cup stored /\ (x = d => x \in stored)
      BY <2>1, <2>2
    <3>2. d \notin stored
      BY <1>3 DEF IInv, OnceInv
    <3>. QED
      BY <2>1, <2>2, <2>3, <2>4, <3>1, <3>2 DEF IInv, OnceInv
  <2>11. PlaceInv'
    BY <1>1, <2>2 DEF IInv, PlaceInv, Obtains, Ahead
  <2>12. DueInv'
    BY <1>1, <2>1, <2>2, <2>6, <2>7 DEF IInv, DueInv
  <2>13. UnexploredInv' /\ ExploredInv' /\ UnpushedInv'
    BY <2>2, <2>6, <2>7, <2>8, SubDirsAreDirs DEF IInv, UnexploredInv, ExploredInv, UnpushedInv
  <2>. QED
    BY <2>9, <2>10, <2>11, <2>12, <2>13 DEF DirsInv
<1>. QED
  BY <1>2, <1>3

LEMMA InvStore ==
  ASSUME IInv, NEW w \in Workers, Store(w) PROVE DirsInv'
<1> USE ThreadFacts
<1> DEFINE d == at[w]
<1>1. d \in Dirs /\ phase[w] = "store" /\ Has(w, d)
  BY DEF IInv, TypeOK, Located, AtWork, Store, Has
<1>2. d \in found /\ d \notin unclaimed /\ d \notin stored /\ \A t \in Threads : Has(t, d) => t = w
  BY <1>1 DEF IInv, FoundInv, OnceInv
<1>3. UNCHANGED <<unclaimed, found, awaited, ahead>> /\ stored' = stored \cup {d}
  BY DEF Store, walk
<1>4. /\ phase'[w] \in {"claim", "take"}
      /\ \A t \in Threads : t # w => at'[t] = at[t]
      /\ \A v \in Workers : v # w => phase'[v] = phase[v]
      /\ \/ phase'[Walker] = phase[Walker] /\ (at[Walker] # d \/ phase[Walker] # "waiting")
         \/ phase[Walker] = "waiting" /\ at[Walker] = d /\ phase'[Walker] = "await"
  <2>1. phase[Walker] = "waiting" => at[Walker] \in awaited
    BY DEF IInv, DueInv
  <2>. QED
    BY <2>1 DEF IInv, TypeOK, Store
<1>5. \A t \in Threads, x \in Dirs :
        /\ Has(t, x)' <=> Has(t, x) /\ t # w
        /\ phase'[t] = "explore" /\ at'[t] = x <=> phase[t] = "explore" /\ at[t] = x
  <2>1. \A t \in Threads : t # w => t = Walker \/ t \in Workers
    BY DEF Threads
  <2>2. ~Has(w, d)' /\ \A x : ~Has(w, x)'
    BY <1>4 DEF Has, AtWork
  <2>3. \A v \in Workers, x \in Dirs : v # w => (Has(v, x)' <=> Has(v, x))
    BY <1>4 DEF Has, AtWork
  <2>4. \A x \in Dirs : Has(Walker, x)' <=> Has(Walker, x)
    BY <1>4 DEF Has, AtWork
  <2>5. \A t \in Threads : t # w => at'[t] = at[t] /\ (phase'[t] = "explore" <=> phase[t] = "explore")
    BY <1>4, <2>1
  <2>. QED
    BY <1>1, <1>4, <2>1, <2>2, <2>3, <2>4, <2>5
<1>6. \A v \in Workers, x \in Dirs :
        AtWork(v)' /\ at'[v] = x <=> AtWork(v) /\ at[v] = x /\ v # w
  BY <1>4 DEF AtWork
<1>7. \A x : (Due(x)' <=> Due(x)) /\ (Ahead(x)' <=> Ahead(x))
  BY <1>3, <1>4 DEF Due, Ahead, Obtains
<1>8. \A x \in Dirs : Alive(x) => Alive(x)'
  BY <1>3, <1>6 DEF Alive
<1>9. \A x \in Dirs : Unexplored(x)' <=> Unexplored(x)
  BY <1>3, <1>5 DEF Unexplored
<1>10. \A x \in Dirs : Unpushed(x)' <=> Unpushed(x)
  BY <1>1, <1>3, <1>5 DEF Unpushed, Has
<1>11. FoundInv' /\ OnceInv'
  BY <1>1, <1>2, <1>3, <1>5, <1>7 DEF IInv, FoundInv, OnceInv
<1>12. PlaceInv'
  BY <1>3, <1>4, <1>7 DEF IInv, PlaceInv, Obtains, Ahead
<1>13. DueInv'
  BY <1>3, <1>4, <1>7, <1>8 DEF IInv, DueInv
<1>14. UnexploredInv' /\ ExploredInv' /\ UnpushedInv'
  BY <1>3, <1>7, <1>8, <1>9, <1>10, SubDirsAreDirs
     DEF IInv, UnexploredInv, ExploredInv, UnpushedInv
<1>. QED
  BY <1>11, <1>12, <1>13, <1>14 DEF DirsInv

-----------------------------------------------------------------------------
(* Every step keeps the invariant, and the invariant gives the properties. *)

LEMMA InvStep == IInv /\ [Next]_vars => IInv'
<1> SUFFICES ASSUME IInv, [Next]_vars PROVE IInv'
  OBVIOUS
<1> USE ThreadFacts
<1>1. ASSUME NEW t \in Threads, ExploreStep(t) \/ HireStep(t) \/ WakeAlone(t) PROVE DirsInv'
  <2>1. CASE Explore(t)
    BY <2>1, InvExplore
  <2>2. CASE ~Explore(t)
    BY <1>1, <2>2, StillSteps, StillKeeps DEF ExploreStep, HireStep, DirsInv
  <2>. QED
    BY <2>1, <2>2
<1>2. ASSUME WalkerStep PROVE DirsInv'
  <2>1. CASE End \/ NotifyAll \/ Return
    BY <2>1, StillSteps, StillKeeps DEF DirsInv
  <2>. QED
    BY <1>1, <1>2, <2>1, InvPush, InvVisit, InvObtain DEF WalkerStep
<1>3. ASSUME NEW w \in Workers, WorkerStep(w) PROVE DirsInv'
  <2>1. CASE Claim(w)
    BY <2>1, StillSteps, StillKeeps DEF DirsInv
  <2>. QED
    BY <1>1, <1>3, <2>1, InvTake, InvStore DEF WorkerStep
<1>4. ASSUME UNCHANGED vars PROVE DirsInv'
  <2>1. Still
    BY <1>4 DEF vars, Still, Has, AtWork, Obtains
  <2>. QED
    BY <2>1, StillKeeps DEF DirsInv
<1>5. DirsInv'
  BY <1>1, <1>2, <1>3, <1>4 DEF Next, Over
<1>6. TypeOK' /\ PhaseInv' /\ EndInv'
  BY TypeStep, PhaseSteps, EndSteps DEF IInv
<1>. QED
  BY <1>5, <1>6 DEF DirsInv, IInv

(* The invariant holds in every state, of every tree, however many threads. *)
THEOREM Invariance == Spec => []IInv
  BY InvInit, InvStep, PTL DEF Spec

LEMMA InvTakesOnce == IInv => TakenOnce
<1> SUFFICES ASSUME IInv PROVE TakenOnce
  OBVIOUS
<1>1. \A t \in Threads : AtWork(t) => at[t] \in Dirs /\ Has(t, at[t])
  BY DEF IInv, TypeOK, Located, Has
<1>. QED
  BY <1>1 DEF IInv, OnceInv, TakenOnce

(* No directory is explored by two threads, or a second time. *)
THEOREM EachIsTakenOnce == Spec => []TakenOnce
  BY Invariance, InvTakesOnce, PTL

LEMMA InvStrandsNone == IInv => NeverStranded
<1> SUFFICES ASSUME IInv PROVE NeverStranded
  OBVIOUS
<1> USE ThreadFacts
<1>1. ASSUME phase[Walker] = "waiting"
      PROVE  at[Walker] \in awaited /\ On(at[Walker]) \cap Workers # {}
  <2>1. at[Walker] \in Dirs /\ Due(at[Walker])
    BY <1>1 DEF IInv, TypeOK, Located, Due, Obtains
  <2>2. /\ at[Walker] \in awaited /\ at[Walker] \notin stored /\ at[Walker] \notin unclaimed
        /\ Alive(at[Walker])
    BY <1>1, <2>1 DEF IInv, DueInv
  <2>3. PICK w \in Workers : AtWork(w) /\ at[w] = at[Walker]
    BY <2>2 DEF Alive
  <2>. QED
    BY <2>2, <2>3 DEF On
<1>. QED
  BY <1>1 DEF IInv, EndInv, NeverStranded

(* No wakeup is lost: the walker never sleeps on a directory that no worker
   is about to hand over, and no worker sleeps through the walk's end. *)
THEOREM NoneIsStranded == Spec => []NeverStranded
  BY Invariance, InvStrandsNone, PTL

-----------------------------------------------------------------------------
(* Sequences of sequences, flattened: what FlattenSeq's recursion yields. *)

(* A set of naturals has a least element. *)
LEMMA Least ==
  ASSUME NEW T, T \subseteq Nat, T # {}
  PROVE  \E x \in T : \A y \in T : x <= y
<1> DEFINE R == OpToRel(<, Nat)
<1>1. IsWellFoundedOn(R, Nat)
  BY NatLessThanWellFounded
<1>3. \A x, y \in Nat : y < x => <<y, x>> \in R
  BY DEF R, OpToRel
<1>h. HIDE DEF R
<1>2. PICK x \in T : \A y \in T : ~ (<<y, x>> \in R)
  BY <1>1, WFMin
<1>4. ASSUME NEW y \in T PROVE x <= y
  <2>1. x \in Nat /\ y \in Nat /\ ~(y < x)
    BY <1>2, <1>3
  <2>. QED
    BY <2>1
<1>. QED
  BY <1>4

Flat(f, s) == f = [i \in 1 .. Len(s) |-> IF i = 1 THEN s[i] ELSE f[i - 1] \o s[i]]

LEMMA FlatDef ==
  ASSUME NEW s PROVE FlattenSeq(s) = IF Len(s) = 0 THEN s ELSE (CHOOSE f : Flat(f, s))[Len(s)]
  BY DEF FlattenSeq, Flat

LEMMA FlatAt ==
  ASSUME NEW f, NEW s, Flat(f, s), NEW i \in 1 .. Len(s)
  PROVE  f[i] = IF i = 1 THEN s[i] ELSE f[i - 1] \o s[i]
<1> DEFINE e(j) == IF j = 1 THEN s[j] ELSE f[j - 1] \o s[j]
<1>1. f = [j \in 1 .. Len(s) |-> e(j)]
  BY DEF Flat
<1>2. SUFFICES f[i] = e(i)
  OBVIOUS
<1>. HIDE DEF e
<1>. QED
  BY <1>1

LEMMA FlatExists ==
  ASSUME NEW S, NEW s \in Seq(Seq(S))
  PROVE  \E f : Flat(f, s) /\ \A i \in 1 .. Len(s) : f[i] \in Seq(S)
<1> DEFINE Reaches(t) == \E f : Flat(f, t) /\ \A i \in 1 .. Len(t) : f[i] \in Seq(S)
           T == {n \in Nat : \E t \in Seq(Seq(S)) : Len(t) = n /\ ~Reaches(t)}
<1>1. SUFFICES ASSUME T # {} PROVE FALSE
  OBVIOUS
<1>2. PICK n \in T : \A m \in T : n <= m
  <2>1. T \subseteq Nat
    OBVIOUS
  <2>. HIDE DEF T
  <2>. QED
    BY <1>1, <2>1, Least
<1>3. PICK t \in Seq(Seq(S)) : Len(t) = n /\ ~Reaches(t)
  BY <1>2
<1>4. n # 0
  <2>1. SUFFICES ASSUME n = 0 PROVE Reaches(t)
    BY <1>3
  <2>2. Flat(<<>>, t)
    BY <1>3, <2>1 DEF Flat
  <2>. QED
    BY <1>3, <2>1, <2>2
<1> DEFINE u == SubSeq(t, 1, n - 1)
<1>5. u \in Seq(Seq(S)) /\ Len(u) = n - 1 /\ \A i \in 1 .. n - 1 : u[i] = t[i]
  BY <1>3, <1>4
<1>6. n - 1 \in Nat /\ n - 1 \notin T
  BY <1>2, <1>4
<1>7. Reaches(u)
  <2>. HIDE DEF u, Reaches
  <2>. QED
    BY <1>5, <1>6
<1>. HIDE DEF u
<1>8. PICK g : Flat(g, u) /\ \A i \in 1 .. n - 1 : g[i] \in Seq(S)
  BY <1>5, <1>7
<1> DEFINE f == [i \in 1 .. n |-> IF i < n THEN g[i] ELSE IF n = 1 THEN t[1] ELSE g[n - 1] \o t[n]]
<1>9. \A i \in 1 .. n : f[i] \in Seq(S)
  <2>1. \A i \in 1 .. n : t[i] \in Seq(S)
    BY <1>3
  <2>2. n # 1 => g[n - 1] \o t[n] \in Seq(S)
    BY <1>8, <2>1, <1>4
  <2>. QED
    BY <2>1, <2>2, <1>8, <1>4
<1>10. \A i \in 1 .. n : f[i] = IF i = 1 THEN t[i] ELSE f[i - 1] \o t[i]
  <2> SUFFICES ASSUME NEW i \in 1 .. n PROVE f[i] = IF i = 1 THEN t[i] ELSE f[i - 1] \o t[i]
    OBVIOUS
  <2>1. CASE i = n
    BY <2>1, <1>4
  <2>2. CASE i < n
    <3>1. g[i] = IF i = 1 THEN u[i] ELSE g[i - 1] \o u[i]
      <4>1. i \in 1 .. Len(u)
        BY <1>4, <1>5, <2>2
      <4>. QED
        BY <1>8, <4>1, FlatAt, SMTT(30)
    <3>. QED
      BY <1>5, <2>2, <3>1
  <2>. QED
    BY <2>1, <2>2
<1>11. Flat(f, t)
  BY <1>3, <1>10 DEF Flat
<1>. QED
  BY <1>3, <1>9, <1>11

LEMMA FlatAgree ==
  ASSUME NEW s, NEW t, NEW f, NEW g, Len(s) \in Nat, Len(t) \in Nat, Len(s) <= Len(t),
         Flat(f, s), Flat(g, t),
         \A i \in 1 .. Len(s) : s[i] = t[i]
  PROVE  \A i \in 1 .. Len(s) : f[i] = g[i]
<1> DEFINE T == {i \in 1 .. Len(s) : f[i] # g[i]}
<1>1. SUFFICES ASSUME T # {} PROVE FALSE
  OBVIOUS
<1>2. PICK n \in T : \A i \in T : n <= i
  <2>1. T \subseteq Nat
    OBVIOUS
  <2>. HIDE DEF T
  <2>. QED
    BY <1>1, <2>1, Least
<1>3. /\ f[n] = IF n = 1 THEN s[n] ELSE f[n - 1] \o s[n]
      /\ g[n] = IF n = 1 THEN t[n] ELSE g[n - 1] \o t[n]
  <2>1. n \in 1 .. Len(s) /\ n \in 1 .. Len(t)
    BY <1>2
  <2>. QED
    BY <2>1, FlatAt
<1>4. n # 1 => f[n - 1] = g[n - 1]
  BY <1>2
<1>. QED
  BY <1>2, <1>3, <1>4

LEMMA FlattenIs ==
  ASSUME NEW S, NEW s \in Seq(Seq(S))
  PROVE  \E f : /\ Flat(f, s) /\ \A i \in 1 .. Len(s) : f[i] \in Seq(S)
                /\ FlattenSeq(s) = IF Len(s) = 0 THEN <<>> ELSE f[Len(s)]
<1> DEFINE g == CHOOSE h : Flat(h, s)
<1>1. PICK h : Flat(h, s) /\ \A i \in 1 .. Len(s) : h[i] \in Seq(S)
  BY FlatExists
<1>2. Flat(g, s)
  BY <1>1
<1>3. FlattenSeq(s) = IF Len(s) = 0 THEN s ELSE g[Len(s)]
  BY FlatDef
<1>. HIDE DEF g
<1>4. PICK f : f = g
  OBVIOUS
<1>5. \A i \in 1 .. Len(s) : f[i] = h[i]
  BY <1>1, <1>2, <1>4, FlatAgree
<1>6. Len(s) = 0 => s = <<>>
  OBVIOUS
<1>. QED
  BY <1>1, <1>2, <1>3, <1>4, <1>5, <1>6

(* FlattenSeq goes with Append, and so with concatenation. *)
LEMMA FlattenAppend ==
  ASSUME NEW S, NEW s \in Seq(Seq(S)), NEW x \in Seq(S)
  PROVE  /\ FlattenSeq(s) \in Seq(S)
         /\ FlattenSeq(Append(s, x)) = FlattenSeq(s) \o x
<1>t. PICK t : t = Append(s, x)
  OBVIOUS
<1>1. t \in Seq(Seq(S)) /\ Len(t) = Len(s) + 1 /\ Len(s) \in Nat
      /\ (\A i \in 1 .. Len(s) : s[i] = t[i]) /\ t[Len(t)] = x
  BY <1>t
<1>2. PICK f : /\ Flat(f, s) /\ \A i \in 1 .. Len(s) : f[i] \in Seq(S)
               /\ FlattenSeq(s) = IF Len(s) = 0 THEN <<>> ELSE f[Len(s)]
  BY FlattenIs
<1>3. PICK g : /\ Flat(g, t) /\ \A i \in 1 .. Len(t) : g[i] \in Seq(S)
               /\ FlattenSeq(t) = IF Len(t) = 0 THEN <<>> ELSE g[Len(t)]
  BY <1>1, FlattenIs
<1>4. \A i \in 1 .. Len(s) : f[i] = g[i]
  <2>1. Len(s) \in Nat /\ Len(t) \in Nat /\ Len(s) <= Len(t) /\ \A i \in 1 .. Len(s) : s[i] = t[i]
    BY <1>1
  <2>2. Flat(f, s) /\ Flat(g, t)
    BY <1>2, <1>3
  <2>. QED
    BY <2>1, <2>2, FlatAgree, SMTT(30)
<1>5. FlattenSeq(t) = IF Len(s) = 0 THEN x ELSE g[Len(s)] \o x
  <2>1. Len(t) # 0 /\ Len(t) \in 1 .. Len(t) /\ (Len(t) = 1 <=> Len(s) = 0) /\ Len(t) - 1 = Len(s)
    BY <1>1
  <2>. QED
    BY <1>1, <1>3, <2>1, FlatAt
<1>6. CASE Len(s) = 0
  BY <1>2, <1>5, <1>6, <1>t, EmptySeq, ConcatEmptySeq
<1>7. CASE Len(s) # 0
  <2>1. Len(s) \in 1 .. Len(s)
    BY <1>1, <1>7
  <2>2. FlattenSeq(s) \in Seq(S) /\ g[Len(s)] = FlattenSeq(s)
    BY <1>2, <1>4, <1>7, <2>1
  <2>3. FlattenSeq(t) = FlattenSeq(s) \o x
    BY <1>5, <1>7, <2>2
  <2>. QED
    BY <1>t, <2>2, <2>3
<1>. QED
  BY <1>6, <1>7

LEMMA Regroup ==
  ASSUME NEW S
  PROVE  \A s, t, u \in Seq(S) : (s \o t) \o u = s \o (t \o u) /\ s \o t \in Seq(S)
BY ConcatAssociative

LEMMA FlattenConcat ==
  ASSUME NEW S, NEW s \in Seq(Seq(S)), NEW t \in Seq(Seq(S))
  PROVE  FlattenSeq(s) \in Seq(S) /\ FlattenSeq(s \o t) = FlattenSeq(s) \o FlattenSeq(t)
<1> DEFINE Adds(u) == FlattenSeq(s \o u) = FlattenSeq(s) \o FlattenSeq(u)
           T == {n \in Nat : \E u \in Seq(Seq(S)) : Len(u) = n /\ ~Adds(u)}
<1>0. \A p, q, r \in Seq(S) : (p \o q) \o r = p \o (q \o r)
  BY Regroup, SMTT(30)
<1>1. FlattenSeq(s) \in Seq(S)
  BY FlattenAppend, EmptySeq
<1>2. SUFFICES ASSUME T # {} PROVE FALSE
  <2>1. Len(t) \in Nat
    OBVIOUS
  <2>2. T = {} => Adds(t)
    <3>. HIDE DEF Adds
    <3>. QED
      BY <2>1
  <2>. QED
    BY <1>1, <2>2
<1>3. PICK n \in T : \A m \in T : n <= m
  <2>1. T \subseteq Nat
    OBVIOUS
  <2>. HIDE DEF T
  <2>. QED
    BY <1>2, <2>1, Least
<1>4. PICK u \in Seq(Seq(S)) : Len(u) = n /\ ~Adds(u)
  BY <1>3
<1>5. u # <<>>
  <2>1. SUFFICES ASSUME u = <<>> PROVE Adds(u)
    BY <1>4
  <2>2. FlattenSeq(<<>>) = <<>>
    BY DEF FlattenSeq
  <2>. QED
    BY <1>1, <2>1, <2>2, ConcatEmptySeq
<1>6. PICK v \in Seq(Seq(S)), x \in Seq(S) : u = Append(v, x) /\ Len(v) = n - 1
  <2>1. /\ SubSeq(u, 1, n - 1) \in Seq(Seq(S)) /\ Len(SubSeq(u, 1, n - 1)) = n - 1
        /\ u[n] \in Seq(S)
    BY <1>4, <1>5
  <2>2. u = Append(SubSeq(u, 1, n - 1), u[n])
    BY <1>4, <1>5, SMTT(30)
  <2>. QED
    BY <2>1, <2>2
<1>7. Adds(v)
  <2>1. n - 1 \in Nat /\ n - 1 \notin T
    BY <1>3, <1>6
  <2>. QED
    BY <1>6, <2>1
<1>8. s \o u = Append(s \o v, x) /\ s \o v \in Seq(Seq(S))
  <2>1. <<x>> \in Seq(Seq(S)) /\ u = v \o <<x>> /\ s \o v \in Seq(Seq(S))
    BY <1>6, AppendIsConcat
  <2>2. (s \o v) \o <<x>> = s \o (v \o <<x>>)
    BY <2>1, Regroup, SMTT(30)
  <2>. QED
    BY <1>6, <2>1, <2>2, AppendIsConcat
<1>9. FlattenSeq(s \o u) = FlattenSeq(s \o v) \o x /\ FlattenSeq(u) = FlattenSeq(v) \o x
      /\ FlattenSeq(v) \in Seq(S)
  <2>1. FlattenSeq(Append(v, x)) = FlattenSeq(v) \o x /\ FlattenSeq(v) \in Seq(S)
    BY FlattenAppend
  <2>2. \A w \in Seq(Seq(S)) : FlattenSeq(Append(w, x)) = FlattenSeq(w) \o x
    BY FlattenAppend
  <2>. QED
    BY <1>6, <1>8, <2>1, <2>2
<1>10. (FlattenSeq(s) \o FlattenSeq(v)) \o x = FlattenSeq(s) \o (FlattenSeq(v) \o x)
  <2>1. PICK a \in Seq(S), b \in Seq(S) : a = FlattenSeq(s) /\ b = FlattenSeq(v)
    BY <1>1, <1>9
  <2>2. (a \o b) \o x = a \o (b \o x)
    BY <1>0
  <2>. QED
    BY <2>1, <2>2
<1>. QED
  BY <1>4, <1>7, <1>9, <1>10

-----------------------------------------------------------------------------
(* The order of the walk. *)

Down(f, d) ==
  FlattenSeq([i \in DOMAIN Steps[d] |->
    IF Steps[d][i] \in Dirs THEN f[Steps[d][i]] ELSE <<Steps[d][i]>>])

LEMMA DownType ==
  ASSUME NEW f \in [Dirs -> Seq(Leaves)], NEW d \in Dirs
  PROVE  Down(f, d) \in Seq(Leaves)
<1> DEFINE u == [i \in DOMAIN Steps[d] |->
                  IF Steps[d][i] \in Dirs THEN f[Steps[d][i]] ELSE <<Steps[d][i]>>]
<1>1. Steps[d] \in Seq(Dirs \cup Leaves)
  BY TreeAssumption
<1>2. \A i \in DOMAIN Steps[d] : u[i] \in Seq(Leaves)
  <2>1. \A x \in Leaves : <<x>> \in Seq(Leaves)
    OBVIOUS
  <2>. QED
    BY <1>1, <2>1
<1>3. u \in Seq(Seq(Leaves))
  <2>1. DOMAIN Steps[d] = 1 .. Len(Steps[d]) /\ Len(Steps[d]) \in Nat
    BY <1>1
  <2>2. u \in [1 .. Len(Steps[d]) -> Seq(Leaves)]
    BY <1>2, <2>1
  <2>. HIDE DEF u
  <2>3. \A n \in Nat : \A w \in [1 .. n -> Seq(Leaves)] : w \in Seq(Seq(Leaves))
    OBVIOUS
  <2>. QED
    BY <2>1, <2>2, <2>3
<1>4. FlattenSeq(u) \in Seq(Leaves)
  <2>. HIDE DEF u
  <2>. QED
    BY <1>3, FlattenAppend, EmptySeq
<1>. QED
  BY <1>4 DEF Down

LEMMA DownAgree ==
  ASSUME NEW f, NEW g, NEW d \in Dirs, \A e \in SubDirs(d) : f[e] = g[e]
  PROVE  Down(f, d) = Down(g, d)
<1>1. \A i \in DOMAIN Steps[d] : Steps[d][i] \in Dirs => f[Steps[d][i]] = g[Steps[d][i]]
  BY DEF SubDirs
<1>2. [i \in DOMAIN Steps[d] |->
        IF Steps[d][i] \in Dirs THEN f[Steps[d][i]] ELSE <<Steps[d][i]>>]
      = [i \in DOMAIN Steps[d] |->
          IF Steps[d][i] \in Dirs THEN g[Steps[d][i]] ELSE <<Steps[d][i]>>]
  BY <1>1
<1>. QED
  BY <1>2 DEF Down

(* The height of a tree is what the recursion of DepthFirst ends by. *)
LEMMA DepthFirstExists ==
  \E f \in [Dirs -> Seq(Leaves)] : f = [d \in Dirs |-> Down(f, d)]
<1>1. Cardinality(Dirs) \in Nat
  BY TreeAssumption, FS_CardinalityType
<1>2. PICK height \in [Dirs -> 0 .. Cardinality(Dirs)] :
        \A d \in Dirs : \A e \in SubDirs(d) : height[e] < height[d]
  BY HeightAssumption
<1> DEFINE Fits(f, n) == \A d \in Dirs : height[d] < n => f[d] = Down(f, d)
           T == {n \in Nat : ~\E f \in [Dirs -> Seq(Leaves)] : Fits(f, n)}
<1>3. T = {}
  <2>1. SUFFICES ASSUME T # {} PROVE FALSE
    OBVIOUS
  <2>2. PICK n \in T : \A m \in T : n <= m
    <3>1. T \subseteq Nat
      OBVIOUS
    <3>. HIDE DEF T
    <3>. QED
      BY <2>1, <3>1, Least
  <2>a. n \in Nat
    OBVIOUS
  <2>3. n # 0
    <3>1. [d \in Dirs |-> <<>>] \in [Dirs -> Seq(Leaves)]
      BY EmptySeq
    <3>2. \A d \in Dirs : ~(height[d] < 0)
      BY <1>1, <1>2
    <3>. QED
      BY <3>1, <3>2
  <2>4. n - 1 \in Nat /\ n - 1 \notin T
    <3>1. n - 1 \in Nat /\ ~(n <= n - 1)
      BY <2>a, <2>3
    <3>. HIDE DEF T
    <3>. QED
      BY <2>2, <3>1
  <2>5. PICK f \in [Dirs -> Seq(Leaves)] : Fits(f, n - 1)
    BY <2>4
  <2> DEFINE g == [d \in Dirs |-> IF height[d] = n - 1 THEN Down(f, d) ELSE f[d]]
  <2>6. g \in [Dirs -> Seq(Leaves)]
    BY DownType
  <2>7. ASSUME NEW d \in Dirs, height[d] < n PROVE g[d] = Down(g, d)
    <3>1. height[d] \in Nat /\ \A e \in SubDirs(d) : e \in Dirs /\ height[e] < n - 1
      BY <1>1, <1>2, <2>a, <2>7, SubDirsAreDirs
    <3>2. \A e \in SubDirs(d) : g[e] = f[e]
      <4>1. \A e \in SubDirs(d) : height[e] # n - 1
        BY <1>1, <1>2, <3>1
      <4>. QED
        BY <3>1, <4>1
    <3>3. Down(g, d) = Down(f, d)
      <4>. HIDE DEF g
      <4>. QED
        BY <3>2, DownAgree
    <3>4. height[d] = n - 1 \/ height[d] < n - 1
      BY <2>a, <2>7, <3>1
    <3>5. height[d] < n - 1 => f[d] = Down(f, d) /\ height[d] # n - 1
      BY <2>a, <2>5, <3>1
    <3>6. g[d] = IF height[d] = n - 1 THEN Down(f, d) ELSE f[d]
      OBVIOUS
    <3>. HIDE DEF g
    <3>. QED
      BY <3>3, <3>4, <3>5, <3>6
  <2>8. n \notin T
    <3>1. Fits(g, n)
      BY <2>7
    <3>. QED
      BY <2>6, <3>1
  <2>. QED
    BY <2>8
<1>4. PICK f \in [Dirs -> Seq(Leaves)] : Fits(f, Cardinality(Dirs) + 1)
  <2>1. Cardinality(Dirs) + 1 \in Nat /\ Cardinality(Dirs) + 1 \notin T
    BY <1>1, <1>3, SMTT(30)
  <2>2. \E f \in [Dirs -> Seq(Leaves)] : Fits(f, Cardinality(Dirs) + 1)
    <3>. HIDE DEF Fits
    <3>. QED
      BY <2>1
  <2>. QED
    BY <2>2
<1>5. \A d \in Dirs : f[d] = Down(f, d)
  BY <1>1, <1>2, <1>4
<1>6. f = [d \in Dirs |-> Down(f, d)]
  BY <1>5
<1>. QED
  BY <1>6

(* ... and what makes it the only one. *)
LEMMA DepthFirstUnique ==
  ASSUME NEW f, NEW g, f = [d \in Dirs |-> Down(f, d)], g = [d \in Dirs |-> Down(g, d)]
  PROVE  f = g
<1>1. Cardinality(Dirs) \in Nat
  BY TreeAssumption, FS_CardinalityType
<1>2. PICK height \in [Dirs -> 0 .. Cardinality(Dirs)] :
        \A d \in Dirs : \A e \in SubDirs(d) : height[e] < height[d]
  BY HeightAssumption
<1>3. DOMAIN f = Dirs /\ DOMAIN g = Dirs
      /\ \A d \in Dirs : f[d] = Down(f, d) /\ g[d] = Down(g, d)
  <2> DEFINE F(d) == Down(f, d)
             G(d) == Down(g, d)
  <2>1. f = [d \in Dirs |-> F(d)] /\ g = [d \in Dirs |-> G(d)]
    OBVIOUS
  <2>2. \A d \in Dirs : f[d] = F(d) /\ g[d] = G(d)
    <3>. HIDE DEF F, G
    <3>. QED
      BY <2>1
  <2>. QED
    BY <2>2
<1> DEFINE T == {height[d] : d \in {e \in Dirs : f[e] # g[e]}}
<1>4. T = {}
  <2>1. SUFFICES ASSUME T # {} PROVE FALSE
    OBVIOUS
  <2>2. T \subseteq Nat
    BY <1>1, <1>2
  <2>3. PICK n \in T : \A m \in T : n <= m
    <3>. HIDE DEF T
    <3>. QED
      BY <2>1, <2>2, Least
  <2>4. PICK d \in Dirs : f[d] # g[d] /\ n = height[d]
    OBVIOUS
  <2>5. ASSUME NEW e \in SubDirs(d) PROVE f[e] = g[e]
    <3>1. e \in Dirs /\ height[e] < n /\ height[e] \in Nat /\ n \in Nat
      BY <1>1, <1>2, <2>4, SubDirsAreDirs
    <3>2. height[e] \notin T
      BY <2>3, <3>1
    <3>. QED
      BY <3>1, <3>2
  <2>6. Down(f, d) = Down(g, d)
    BY <2>5, DownAgree
  <2>. QED
    BY <1>3, <2>4, <2>6
<1>5. \A d \in Dirs : f[d] = g[d]
  BY <1>4
<1>6. f = [d \in Dirs |-> f[d]] /\ g = [d \in Dirs |-> g[d]]
  <2>1. \E F : f = [d \in Dirs |-> F[d]] /\ F = [d \in Dirs |-> Down(f, d)]
    OBVIOUS
  <2>2. \E G : g = [d \in Dirs |-> G[d]] /\ G = [d \in Dirs |-> Down(g, d)]
    OBVIOUS
  <2>. QED
    BY <2>1, <2>2
<1>. QED
  BY <1>5, <1>6

LEMMA DepthFirstIs ==
  /\ DepthFirst \in [Dirs -> Seq(Leaves)]
  /\ \A d \in Dirs : DepthFirst[d] = Down(DepthFirst, d)
<1> DEFINE Fits(f) == f = [d \in Dirs |-> Down(f, d)]
<1>1. DepthFirst = CHOOSE f : Fits(f)
  BY DEF DepthFirst, Down
<1>2. Fits(DepthFirst)
  BY <1>1, DepthFirstExists
<1>3. PICK f \in [Dirs -> Seq(Leaves)] : Fits(f)
  BY DepthFirstExists
<1>4. DepthFirst = f
  <2>1. PICK h : h = DepthFirst
    OBVIOUS
  <2>2. h = [d \in Dirs |-> Down(h, d)]
    BY <1>2, <2>1
  <2>. QED
    BY <1>3, <2>1, <2>2, DepthFirstUnique
<1>5. \A d \in Dirs : f[d] = Down(f, d)
  <2> DEFINE F(d) == Down(f, d)
  <2>1. f = [d \in Dirs |-> F(d)]
    BY <1>3
  <2>2. \A d \in Dirs : f[d] = F(d)
    <3>. HIDE DEF F, Fits
    <3>. QED
      BY <2>1
  <2>. QED
    BY <2>2
<1>. QED
  BY <1>4, <1>5

(* What a sequence of directories and leaves hands out, part by part. *)
LEMMA UnderType == \A x \in Dirs \cup Leaves : Under(x) \in Seq(Leaves)
<1>1. \A x \in Leaves : <<x>> \in Seq(Leaves)
  OBVIOUS
<1>. QED
  BY <1>1, DepthFirstIs DEF Under

LEMMA PartsType ==
  ASSUME NEW s \in Seq(Dirs \cup Leaves)
  PROVE  /\ [i \in DOMAIN s |-> Under(s[i])] \in Seq(Seq(Leaves))
         /\ Len([i \in DOMAIN s |-> Under(s[i])]) = Len(s)
<1> DEFINE u == [i \in DOMAIN s |-> Under(s[i])]
<1>1. DOMAIN s = 1 .. Len(s) /\ Len(s) \in Nat /\ \A i \in 1 .. Len(s) : s[i] \in Dirs \cup Leaves
  OBVIOUS
<1>2. u \in [1 .. Len(s) -> Seq(Leaves)]
  BY <1>1, UnderType
<1>3. \A n \in Nat : \A v \in [1 .. n -> Seq(Leaves)] : v \in Seq(Seq(Leaves)) /\ Len(v) = n
  OBVIOUS
<1>. HIDE DEF u
<1>4. u \in Seq(Seq(Leaves)) /\ Len(u) = Len(s)
  BY <1>1, <1>2, <1>3
<1>. QED
  BY <1>4 DEF u

LEMMA ExpandConcat ==
  ASSUME NEW s \in Seq(Dirs \cup Leaves), NEW t \in Seq(Dirs \cup Leaves)
  PROVE  /\ Expand(s) \in Seq(Leaves)
         /\ Expand(s \o t) = Expand(s) \o Expand(t)
<1> DEFINE P(v) == [i \in DOMAIN v |-> Under(v[i])]
<1>1. P(s) \in Seq(Seq(Leaves)) /\ P(t) \in Seq(Seq(Leaves))
      /\ Len(P(s)) = Len(s) /\ Len(P(t)) = Len(t)
  BY PartsType
<1>2. P(s \o t) = P(s) \o P(t)
  <2>1. /\ s \o t \in Seq(Dirs \cup Leaves) /\ Len(s \o t) = Len(s) + Len(t)
        /\ \A i \in 1 .. Len(s) + Len(t) :
             (s \o t)[i] = IF i <= Len(s) THEN s[i] ELSE t[i - Len(s)]
    BY ConcatProperties
  <2>2. P(s \o t) \in Seq(Seq(Leaves)) /\ Len(P(s \o t)) = Len(s) + Len(t)
    BY <2>1, PartsType
  <2>3. /\ P(s) \o P(t) \in Seq(Seq(Leaves)) /\ Len(P(s) \o P(t)) = Len(s) + Len(t)
        /\ \A i \in 1 .. Len(s) + Len(t) :
             (P(s) \o P(t))[i] = IF i <= Len(s) THEN P(s)[i] ELSE P(t)[i - Len(s)]
    <3>1. \A a, b \in Seq(Seq(Leaves)) :
            /\ a \o b \in Seq(Seq(Leaves)) /\ Len(a \o b) = Len(a) + Len(b)
            /\ \A i \in 1 .. Len(a) + Len(b) :
                 (a \o b)[i] = IF i <= Len(a) THEN a[i] ELSE b[i - Len(a)]
      BY ConcatProperties
    <3>. HIDE DEF P
    <3>2. PICK a \in Seq(Seq(Leaves)), b \in Seq(Seq(Leaves)) : a = P(s) /\ b = P(t)
      BY <1>1
    <3>3. Len(a) = Len(s) /\ Len(b) = Len(t)
      BY <1>1, <3>2
    <3>4. /\ a \o b \in Seq(Seq(Leaves)) /\ Len(a \o b) = Len(a) + Len(b)
          /\ \A i \in 1 .. Len(a) + Len(b) :
               (a \o b)[i] = IF i <= Len(a) THEN a[i] ELSE b[i - Len(a)]
      BY <3>1
    <3>. QED
      BY <3>2, <3>3, <3>4
  <2>4. ASSUME NEW i \in 1 .. Len(s) + Len(t)
        PROVE  P(s \o t)[i] = IF i <= Len(s) THEN P(s)[i] ELSE P(t)[i - Len(s)]
    <3>1. P(s \o t)[i] = Under((s \o t)[i])
      BY <2>1
    <3>2. CASE i <= Len(s)
      <4>1. P(s)[i] = Under(s[i])
        BY <3>2
      <4>. QED
        BY <2>1, <3>1, <3>2, <4>1
    <3>3. CASE ~(i <= Len(s))
      <4>1. i - Len(s) \in DOMAIN t
        BY <3>3
      <4>2. P(t)[i - Len(s)] = Under(t[i - Len(s)])
        BY <4>1
      <4>. QED
        BY <2>1, <3>1, <3>3, <4>2
    <3>. QED
      BY <3>2, <3>3
  <2>. HIDE DEF P
  <2>5. \A a, b \in Seq(Seq(Leaves)) :
          Len(a) = Len(b) /\ (\A i \in 1 .. Len(a) : a[i] = b[i]) => a = b
    BY SeqEqual
  <2>. QED
    BY <2>2, <2>3, <2>4, <2>5
<1>3. FlattenSeq(P(s)) \in Seq(Leaves)
      /\ FlattenSeq(P(s) \o P(t)) = FlattenSeq(P(s)) \o FlattenSeq(P(t))
  <2>. HIDE DEF P
  <2>. QED
    BY <1>1, FlattenConcat
<1>. QED
  BY <1>2, <1>3 DEF Expand

LEMMA ExpandOne ==
  ASSUME NEW x \in Dirs \cup Leaves PROVE Expand(<<x>>) = Under(x)
<1>1. [i \in DOMAIN <<x>> |-> Under(<<x>>[i])] = <<Under(x)>>
  OBVIOUS
<1>2. Under(x) \in Seq(Leaves) /\ <<>> \in Seq(Seq(Leaves))
  BY UnderType, EmptySeq
<1>3. PICK y \in Seq(Leaves) : y = Under(x)
  BY <1>2
<1>4. FlattenSeq(<<y>>) = y
  <2>1. FlattenSeq(Append(<<>>, y)) = FlattenSeq(<<>>) \o y /\ FlattenSeq(<<>>) = <<>>
    BY <1>2, FlattenAppend DEF FlattenSeq
  <2>2. Append(<<>>, y) = <<y>> /\ <<>> \o y = y
    BY ConcatEmptySeq
  <2>. QED
    BY <2>1, <2>2
<1>. QED
  BY <1>1, <1>3, <1>4 DEF Expand

LEMMA ExpandSteps ==
  ASSUME NEW d \in Dirs
  PROVE  Steps[d] \in Seq(Dirs \cup Leaves) /\ Expand(Steps[d]) = DepthFirst[d]
<1>1. DepthFirst[d] = Down(DepthFirst, d)
  BY DepthFirstIs
<1>. QED
  BY <1>1, TreeAssumption DEF Down, Expand, Under

LEMMA ExpandNothing == Expand(<<>>) = <<>>
<1>1. [i \in DOMAIN <<>> |-> Under(<<>>[i])] = <<>>
  OBVIOUS
<1>. QED
  BY <1>1 DEF Expand, FlattenSeq

LEMMA OrderInit == Init => OrderInv
<1> SUFFICES ASSUME Init PROVE OrderInv
  OBVIOUS
<1>1. InHand /\ at[Walker] = Root /\ ahead = <<>> /\ visited = <<>>
  BY DEF Init, InHand, Threads
<1>2. ToCome = <<Root>>
  BY <1>1 DEF ToCome
<1>3. Expand(<<Root>>) = DepthFirst[Root] /\ DepthFirst[Root] \in Seq(Leaves)
  BY TreeAssumption, ExpandOne, DepthFirstIs DEF Under
<1>4. phase[Walker] = "explore"
  BY DEF Init, Threads
<1>. QED
  BY <1>1, <1>2, <1>3, <1>4, ConcatEmptySeq DEF OrderInv

Ends == {"signal", "join", "returned"}

(* Steps that neither hand out, nor push, nor come to a directory. *)
LEMMA OrderStill ==
  ASSUME IInv, OrderInv, UNCHANGED <<ahead, visited>>, InHand' <=> InHand,
         InHand => at'[Walker] = at[Walker],
         phase'[Walker] \in Ends => phase[Walker] \in Ends \/ ahead = <<>>
  PROVE  OrderInv'
<1>1. ToCome' = ToCome
  BY DEF ToCome
<1>. QED
  BY <1>1 DEF OrderInv, Ends

LEMMA OrderMoves ==
  ASSUME IInv, OrderInv, Push \/ Visit \/ Descend PROVE OrderInv'
<1> USE ThreadFacts
<1> DEFINE S == Dirs \cup Leaves
<1>1. ahead \in Seq(S) /\ visited \in Seq(Leaves)
  BY DEF IInv, TypeOK
<1>2. phase'[Walker] \notin Ends
  BY DEF IInv, TypeOK, Push, Visit, Descend, Goes, Ends
<1>3. CASE Push
  <2>1. /\ at[Walker] \in Dirs /\ InHand /\ ~InHand' /\ visited' = visited
        /\ ahead' = Steps[at[Walker]] \o ahead
    BY <1>3 DEF IInv, TypeOK, Located, Push, Goes, InHand, Obtains
  <2>2. ToCome = <<at[Walker]>> \o ahead /\ ToCome' = Steps[at[Walker]] \o ahead
    BY <2>1 DEF ToCome
  <2>3. <<at[Walker]>> \in Seq(S)
    BY <2>1
  <2>4. Expand(ToCome) = Expand(<<at[Walker]>>) \o Expand(ahead)
    BY <1>1, <2>2, <2>3, ExpandConcat
  <2>5. Expand(ToCome') = Expand(Steps[at[Walker]]) \o Expand(ahead)
    BY <1>1, <2>1, <2>2, ExpandSteps, ExpandConcat
  <2>6. Expand(<<at[Walker]>>) = Expand(Steps[at[Walker]])
    BY <2>1, ExpandOne, ExpandSteps DEF Under
  <2>. QED
    BY <1>2, <2>1, <2>4, <2>5, <2>6 DEF OrderInv, Ends, Expand, Under
<1>4. CASE Visit \/ Descend
  <2>1. /\ ahead # <<>> /\ ahead' = Tail(ahead) /\ ~InHand
        /\ Head(ahead) \in S /\ Tail(ahead) \in Seq(S) /\ <<Head(ahead)>> \in Seq(S)
    <3>1. ahead # <<>> /\ ahead' = Tail(ahead) /\ phase[Walker] = "walk"
      BY <1>4 DEF Visit, Descend
    <3>. QED
      BY <1>1, <3>1 DEF InHand, Obtains
  <2>2. ahead = <<Head(ahead)>> \o Tail(ahead)
    BY <1>1, <2>1
  <2>3. ToCome = ahead
    BY <2>1 DEF ToCome
  <2>4. CASE Descend
    <3>1. /\ InHand' /\ at'[Walker] = Head(ahead) /\ visited' = visited
      BY <2>4 DEF IInv, TypeOK, Descend, InHand, Obtains
    <3>2. ToCome' = <<Head(ahead)>> \o Tail(ahead)
      BY <2>1, <3>1 DEF ToCome
    <3>. QED
      BY <1>2, <2>2, <2>3, <3>1, <3>2 DEF OrderInv, Ends, Expand, Under
  <2>5. CASE Visit
    <3>1. /\ ~InHand' /\ visited' = Append(visited, Head(ahead))
          /\ Head(ahead) \in Leaves /\ Head(ahead) \notin Dirs
      BY <2>5, TreeAssumption DEF Visit, InHand, Obtains
    <3>2. ToCome' = Tail(ahead)
      BY <2>1, <3>1 DEF ToCome
    <3>3. Expand(<<Head(ahead)>>) = <<Head(ahead)>> /\ <<Head(ahead)>> \in Seq(Leaves)
      BY <2>1, <3>1, ExpandOne DEF Under
    <3>4. Expand(ahead) = <<Head(ahead)>> \o Expand(Tail(ahead)) /\ Expand(Tail(ahead)) \in Seq(Leaves)
      <4>1. \A s, t \in Seq(S) : Expand(s) \in Seq(Leaves) /\ Expand(s \o t) = Expand(s) \o Expand(t)
        BY ExpandConcat
      <4>. QED
        BY <2>1, <2>2, <3>3, <4>1
    <3>5. visited \o (<<Head(ahead)>> \o Expand(Tail(ahead)))
            = (visited \o <<Head(ahead)>>) \o Expand(Tail(ahead))
      <4>1. \A p, q, r \in Seq(Leaves) : (p \o q) \o r = p \o (q \o r)
        BY Regroup
      <4>. QED
        BY <1>1, <3>3, <3>4, <4>1
    <3>6. visited' = visited \o <<Head(ahead)>>
      BY <1>1, <3>1, AppendIsConcat
    <3>. QED
      BY <1>2, <2>3, <3>2, <3>4, <3>5, <3>6 DEF OrderInv, Ends, Expand, Under
  <2>. QED
    BY <1>4, <2>4, <2>5
<1>. QED
  BY <1>3, <1>4

LEMMA OrderStep == IInv /\ OrderInv /\ [Next]_vars => OrderInv'
<1> SUFFICES ASSUME IInv, OrderInv, [Next]_vars PROVE OrderInv'
  OBVIOUS
<1> USE ThreadFacts
<1> DEFINE Same == /\ UNCHANGED <<ahead, visited>>
                   /\ InHand' <=> InHand
                   /\ InHand => at'[Walker] = at[Walker]
                   /\ phase'[Walker] \in Ends => phase[Walker] \in Ends \/ ahead = <<>>
<1>1. ASSUME NEW t \in Threads, ExploreStep(t) \/ HireStep(t) \/ WakeAlone(t) PROVE Same
  <2>1. CASE Explore(t)
    BY <2>1 DEF IInv, TypeOK, Explore, InHand, Obtains, Ends, walk
  <2>2. CASE Register(t) \/ Notified(t) \/ Hired(t)
    BY <2>2 DEF IInv, TypeOK, Register, Notified, Hired, Goes, InHand, Obtains, Ends, walk
  <2>3. CASE Notify(t)
    BY <2>3 DEF IInv, TypeOK, Notify, InHand, Obtains, Ends, walk
  <2>4. CASE Hire(t)
    BY <2>4, CoresAssumption DEF IInv, TypeOK, Hire, InHand, Obtains, Ends, walk, Walker
  <2>5. CASE WakeAlone(t)
    BY <2>5 DEF IInv, TypeOK, PhaseInv, WakeAlone, InHand, Obtains, Ends, walk
  <2>. QED
    BY <1>1, <2>1, <2>2, <2>3, <2>4, <2>5 DEF ExploreStep, HireStep
<1>2. CASE Obtain \/ Await
  <2>1. Same
    BY <1>2 DEF IInv, TypeOK, Obtain, Await, InHand, Obtains, Ends, walk
  <2>. QED
    BY <2>1, OrderStill
<1>3. CASE End \/ NotifyAll \/ Return
  <2>1. Same
    BY <1>3 DEF IInv, TypeOK, End, NotifyAll, Return, Goes, InHand, Obtains, Ends, walk
  <2>. QED
    BY <2>1, OrderStill
<1>4. ASSUME NEW w \in Workers, Claim(w) \/ Take(w) \/ Store(w) PROVE Same
  BY <1>4 DEF IInv, TypeOK, Claim, Take, Store, InHand, Obtains, Ends, walk
<1>5. CASE UNCHANGED vars
  <2>1. Same
    BY <1>5 DEF vars, InHand, Obtains
  <2>. QED
    BY <2>1, OrderStill
<1>. QED
  <2>1. ASSUME NEW t \in Threads, ExploreStep(t) \/ HireStep(t) \/ WakeAlone(t) PROVE OrderInv'
    BY <1>1, <2>1, OrderStill
  <2>2. ASSUME NEW w \in Workers, Claim(w) \/ Take(w) \/ Store(w) PROVE OrderInv'
    BY <1>4, <2>2, OrderStill
  <2>. QED
    BY <1>2, <1>3, <1>5, <2>1, <2>2, OrderMoves DEF Next, WalkerStep, WorkerStep, Over

LEMMA InvVisitsInOrder == IInv /\ OrderInv => VisitsInOrder
<1> SUFFICES ASSUME IInv, OrderInv PROVE VisitsInOrder
  OBVIOUS
<1> USE ThreadFacts
<1>1. visited \in Seq(Leaves) /\ ToCome \in Seq(Dirs \cup Leaves)
  <2>1. InHand => at[Walker] \in Dirs
    BY DEF IInv, TypeOK, Located, AtWork, InHand, Obtains
  <2>2. InHand => <<at[Walker]>> \in Seq(Dirs \cup Leaves)
    BY <2>1
  <2>. QED
    BY <2>2, ConcatProperties DEF IInv, TypeOK, ToCome
<1>2. Expand(ToCome) \in Seq(Leaves)
  BY <1>1, ExpandConcat
<1>3. IsPrefix(visited, visited \o Expand(ToCome))
  <2>1. PICK t \in Seq(Leaves) : t = Expand(ToCome)
    BY <1>2
  <2>2. SubSeq(visited \o t, 1, Len(visited)) = visited
    BY <1>1
  <2>3. Len(visited) <= Len(visited \o t)
    BY <1>1
  <2>4. IsPrefix(visited, visited \o t)
    BY <1>1, <2>2, <2>3 DEF IsPrefix
  <2>. QED
    BY <2>1, <2>4
<1>4. phase[Walker] = "returned" => visited = DepthFirst[Root]
  <2> SUFFICES ASSUME phase[Walker] = "returned" PROVE visited = DepthFirst[Root]
    OBVIOUS
  <2>1. ToCome = <<>>
    BY DEF OrderInv, ToCome, InHand, Obtains
  <2>. QED
    BY <1>1, <2>1, ExpandNothing, ConcatEmptySeq DEF OrderInv
<1>. QED
  BY <1>3, <1>4 DEF OrderInv, VisitsInOrder

(* Whichever threads explore what, the walk hands out the leaves of the tree
   depth first, in the order of each directory's items, and by its end all
   of them. *)
THEOREM WalksInOrder == Spec => []VisitsInOrder
<1>1. Init => IInv /\ OrderInv
  BY InvInit, OrderInit
<1>2. (IInv /\ OrderInv) /\ [Next]_vars => (IInv /\ OrderInv)'
  BY InvStep, OrderStep
<1>. QED
  BY <1>1, <1>2, InvVisitsInOrder, PTL DEF Spec

-----------------------------------------------------------------------------
(* The walker comes by every directory. *)

LEMMA ReachInit == Init => ReachInv
<1> SUFFICES ASSUME Init PROVE ReachInv
  OBVIOUS
<1>1. \A w \in Workers : ~AtWork(w)
  BY ThreadFacts DEF Init, AtWork
<1>. QED
  BY <1>1 DEF Init, ReachInv, Alive

LEMMA ReachKeeps ==
  ASSUME ReachInv,
         \A x \in Dirs : Alive(x)' =>
           \/ Alive(x) /\ (Due(x) => Due(x)')
           \/ \E p \in Dirs : x \in SubDirs(p) /\ (Alive(p)' \/ Has(Walker, p)'),
         \A p \in Dirs : Alive(p) \/ Has(Walker, p) =>
           Alive(p)' \/ Has(Walker, p)' \/ \A x \in SubDirs(p) : Due(x)'
  PROVE  ReachInv'
BY DEF ReachInv

LEMMA ReachExplore ==
  ASSUME IInv, ReachInv, NEW t \in Threads, Explore(t) PROVE ReachInv'
<1> USE ThreadFacts
<1>0. PICK d \in Dirs : d = at[t]
  BY DEF IInv, TypeOK, Located, AtWork, Explore
<1>1. phase[t] = "explore" /\ phase'[t] \in {"push", "register"}
  BY DEF IInv, TypeOK, Explore
<1>2. unclaimed' = unclaimed \cup SubDirs(d) /\ UNCHANGED <<stored, ahead, at>>
  BY <1>0 DEF Explore, walk
<1>3. \A u \in Threads : (AtWork(u) => AtWork(u)' \/ u = Walker) /\ (u # t => phase'[u] = phase[u])
  BY DEF IInv, TypeOK, Explore, AtWork
<1>4. \A x \in Dirs : (Has(Walker, x)' <=> Has(Walker, x)) /\ (Due(x)' <=> Due(x))
  BY <1>2 DEF IInv, TypeOK, Explore, Has, AtWork, Due, Ahead, Obtains
<1>5. \A w \in Workers, x \in Dirs : AtWork(w)' /\ at'[w] = x <=> AtWork(w) /\ at[w] = x
  BY DEF IInv, TypeOK, Explore, walk, AtWork
<1>6. \A x \in Dirs : Alive(x)' <=> Alive(x) \/ x \in SubDirs(d)
  BY <1>2, <1>5 DEF Alive
<1>7. Alive(d) \/ Has(Walker, d)
  BY <1>0, <1>1 DEF Threads, Alive, Has, AtWork
<1>8. Alive(d)' \/ Has(Walker, d)'
  BY <1>1, <1>4, <1>6, <1>7
<1>. QED
  BY <1>1, <1>4, <1>6, <1>8, ReachKeeps

LEMMA ReachPush ==
  ASSUME IInv, ReachInv, Push PROVE ReachInv'
<1> USE ThreadFacts
<1> DEFINE d == at[Walker]
<1>1. d \in Dirs /\ phase[Walker] = "push"
  BY DEF IInv, TypeOK, Located, Push, Goes
<1>2. UNCHANGED <<unclaimed, stored, at>>
  BY DEF Push, slots
<1>3. \A w \in Workers, x \in Dirs : AtWork(w)' /\ at'[w] = x <=> AtWork(w) /\ at[w] = x
  BY DEF IInv, TypeOK, Push, Goes, AtWork
<1>4. \A x \in Dirs : Alive(x)' <=> Alive(x)
  BY <1>2, <1>3 DEF Alive
<1>5. \A x \in Dirs : Has(Walker, x) => x = d
  BY DEF Has
<1>6. /\ \A i \in DOMAIN Steps[d] : \E j \in DOMAIN ahead' : ahead'[j] = Steps[d][i]
      /\ \A i \in DOMAIN ahead : \E j \in DOMAIN ahead' : ahead'[j] = ahead[i]
  <2>1. PICK a \in Seq(Dirs \cup Leaves), b \in Seq(Dirs \cup Leaves) :
          a = Steps[d] /\ b = ahead
    BY <1>1, TreeAssumption DEF IInv, TypeOK
  <2>2. /\ a \o b \in Seq(Dirs \cup Leaves) /\ Len(a \o b) = Len(a) + Len(b)
        /\ \A i \in 1 .. Len(a) + Len(b) :
             (a \o b)[i] = IF i <= Len(a) THEN a[i] ELSE b[i - Len(a)]
    BY ConcatProperties
  <2>3. DOMAIN a = 1 .. Len(a) /\ DOMAIN b = 1 .. Len(b) /\ DOMAIN (a \o b) = 1 .. Len(a) + Len(b)
        /\ Len(a) \in Nat /\ Len(b) \in Nat
    BY <2>2
  <2>4. ASSUME NEW i \in DOMAIN a PROVE \E j \in DOMAIN (a \o b) : (a \o b)[j] = a[i]
    <3>1. i \in 1 .. Len(a) + Len(b) /\ i <= Len(a)
      BY <2>3
    <3>. QED
      BY <2>2, <2>3, <3>1
  <2>5. ASSUME NEW i \in DOMAIN b PROVE \E j \in DOMAIN (a \o b) : (a \o b)[j] = b[i]
    <3>1. Len(a) + i \in 1 .. Len(a) + Len(b) /\ ~(Len(a) + i <= Len(a)) /\ (Len(a) + i) - Len(a) = i
      BY <2>3
    <3>. QED
      BY <2>2, <2>3, <3>1
  <2>6. ahead' = a \o b
    BY <2>1 DEF Push
  <2>. QED
    BY <2>1, <2>4, <2>5, <2>6
<1>7. \A x \in Dirs : Due(x) => Due(x)'
  BY <1>1, <1>6 DEF Due, Ahead, Obtains
<1>8. \A x \in SubDirs(d) : Due(x)'
  BY <1>6 DEF SubDirs, Due, Ahead
<1>. QED
  BY <1>4, <1>5, <1>7, <1>8, ReachKeeps

LEMMA ReachVisit ==
  ASSUME IInv, ReachInv, Visit \/ Descend PROVE ReachInv'
<1> USE ThreadFacts
<1>1. phase[Walker] = "walk" /\ UNCHANGED <<unclaimed, stored>>
  BY DEF Visit, Descend, slots
<1>2. \A w \in Workers, x \in Dirs : AtWork(w)' /\ at'[w] = x <=> AtWork(w) /\ at[w] = x
  BY DEF IInv, TypeOK, Visit, Descend, AtWork
<1>3. \A x \in Dirs : Alive(x)' <=> Alive(x)
  BY <1>1, <1>2 DEF Alive
<1>4. \A x \in Dirs : ~Has(Walker, x)
  BY <1>1 DEF Has, AtWork
<1>5. ASSUME NEW x \in Dirs, Due(x) PROVE Due(x)'
  <2>1. PICK i \in DOMAIN ahead : ahead[i] = x
    BY <1>1, <1>5 DEF Due, Ahead, Obtains
  <2>2. /\ ahead # <<>> /\ ahead' = Tail(ahead) /\ ahead \in Seq(Dirs \cup Leaves)
    BY DEF IInv, TypeOK, Visit, Descend
  <2>3. CASE i = 1
    <3>1. Head(ahead) = x
      BY <2>1, <2>2, <2>3
    <3>2. Descend /\ Obtains' /\ at'[Walker] = x
      BY <3>1, TreeAssumption DEF IInv, TypeOK, Visit, Descend, Obtains
    <3>. QED
      BY <3>2 DEF Due
  <2>4. CASE i # 1
    <3>1. i - 1 \in DOMAIN ahead' /\ ahead'[i - 1] = x
      BY <2>1, <2>2, <2>4
    <3>. QED
      BY <3>1 DEF Due, Ahead
  <2>. QED
    BY <2>3, <2>4
<1>. QED
  BY <1>3, <1>4, <1>5, ReachKeeps

LEMMA ReachObtain ==
  ASSUME IInv, ReachInv, Obtain \/ Await PROVE ReachInv'
<1> USE ThreadFacts
<1>0. PICK d \in Dirs : d = at[Walker]
  BY DEF IInv, TypeOK, Located, Obtain, Await
<1>1. Obtains /\ at' = at /\ ahead' = ahead
  BY DEF Obtain, Await, Obtains, walk
<1>2. \A w \in Workers, x \in Dirs : AtWork(w)' /\ at'[w] = x <=> AtWork(w) /\ at[w] = x
  BY DEF IInv, TypeOK, Obtain, Await, AtWork
<1>3. \A x \in Dirs : ~Has(Walker, x)
  BY <1>1 DEF Has, AtWork, Obtains
<1>4. CASE UNCHANGED <<unclaimed, stored>> /\ Obtains'
  <2>1. \A x \in Dirs : Alive(x)' <=> Alive(x)
    BY <1>2, <1>4 DEF Alive
  <2>2. \A x \in Dirs : Due(x) => Due(x)'
    BY <1>1, <1>4 DEF Due, Ahead
  <2>. QED
    BY <1>3, <2>1, <2>2, ReachKeeps
<1>5. CASE /\ d \in unclaimed \cup stored
           /\ unclaimed' = unclaimed \ {d} /\ stored' = stored \ {d}
           /\ phase'[Walker] \in {"explore", "push"}
  <2>1. \A t \in Threads : ~Has(t, d)
    BY <1>5 DEF IInv, OnceInv
  <2>2. \A x \in Dirs : Alive(x)' <=> Alive(x) /\ x # d
    BY <1>2, <1>5, <2>1 DEF Alive, Has
  <2>3. \A x \in Dirs : Due(x) /\ x # d => Due(x)'
    BY <1>0, <1>1 DEF Due, Ahead
  <2>4. Has(Walker, d)'
    BY <1>0, <1>1, <1>5 DEF Has, AtWork
  <2>. QED
    BY <1>3, <2>2, <2>3, <2>4, ReachKeeps
<1>6. CASE Obtain
  <2>1. CASE d \in unclaimed
    <3>1. d \notin stored
      BY <2>1 DEF IInv, OnceInv
    <3>. QED
      BY <1>0, <1>5, <1>6, <2>1, <3>1 DEF IInv, TypeOK, Obtain
  <2>2. CASE d \notin unclaimed
    BY <1>0, <1>4, <1>6, <2>2 DEF IInv, TypeOK, Obtain, Obtains
  <2>. QED
    BY <2>1, <2>2
<1>7. CASE Await
  <2>1. CASE d \in stored
    <3>1. d \notin unclaimed
      BY <2>1 DEF IInv, OnceInv
    <3>. QED
      BY <1>0, <1>5, <1>7, <2>1, <3>1 DEF IInv, TypeOK, Await
  <2>2. CASE d \notin stored
    BY <1>0, <1>4, <1>7, <2>2 DEF IInv, TypeOK, Await, Obtains
  <2>. QED
    BY <2>1, <2>2
<1>. QED
  BY <1>6, <1>7

LEMMA ReachWork ==
  ASSUME IInv, ReachInv, NEW w \in Workers, Take(w) \/ Store(w) PROVE ReachInv'
<1> USE ThreadFacts
<1> DEFINE d == at[w]
<1>1. ahead' = ahead /\ at'[Walker] = at[Walker]
  BY DEF IInv, TypeOK, Take, Store, walk
<1>2. \A x \in Dirs : (Has(Walker, x)' <=> Has(Walker, x)) /\ (Due(x)' <=> Due(x))
  <2>1. phase'[Walker] = phase[Walker] \/ (phase[Walker] = "waiting" /\ phase'[Walker] = "await")
    BY DEF IInv, TypeOK, Take, Store
  <2>. QED
    BY <1>1, <2>1 DEF Has, AtWork, Due, Ahead, Obtains
<1>3. \A v \in Workers : v # w => phase'[v] = phase[v] /\ at'[v] = at[v]
  BY DEF IInv, TypeOK, Take, Store
<1>4. \A x \in Dirs : Alive(x)' <=> Alive(x)
  <2>1. CASE Take(w)
    <3>1. stored' = stored /\ unclaimed' = unclaimed \ {d} /\ at'[w] = d /\ ~AtWork(w)
          /\ (AtWork(w)' <=> d \in unclaimed)
      BY <2>1 DEF IInv, TypeOK, Take, AtWork
    <3>. QED
      BY <1>3, <3>1 DEF Alive, AtWork
  <2>2. CASE Store(w)
    <3>1. unclaimed' = unclaimed /\ stored' = stored \cup {d} /\ AtWork(w) /\ ~AtWork(w)'
      BY <2>2 DEF IInv, TypeOK, Store, AtWork
    <3>. QED
      BY <1>3, <3>1 DEF Alive, AtWork
  <2>. QED
    BY <2>1, <2>2
<1>. QED
  BY <1>2, <1>4, ReachKeeps

LEMMA ReachStill == ASSUME ReachInv, Still PROVE ReachInv'
<1>1. \A x \in Dirs : Alive(x)' <=> Alive(x)
  BY DEF Still, Alive
<1>2. \A x \in Dirs : Due(x)' <=> Due(x)
  BY DEF Still, Due, Ahead
<1>3. \A x \in Dirs : Has(Walker, x)' <=> Has(Walker, x)
  BY ThreadFacts DEF Still
<1>. QED
  BY <1>1, <1>2, <1>3, ReachKeeps

LEMMA ReachStep == IInv /\ ReachInv /\ [Next]_vars => ReachInv'
<1> SUFFICES ASSUME IInv, ReachInv, [Next]_vars PROVE ReachInv'
  OBVIOUS
<1> USE ThreadFacts
<1>1. ASSUME NEW t \in Threads, ExploreStep(t) \/ HireStep(t) \/ WakeAlone(t) PROVE ReachInv'
  <2>1. CASE Explore(t)
    BY <2>1, ReachExplore
  <2>2. CASE ~Explore(t)
    BY <1>1, <2>2, StillSteps, ReachStill DEF ExploreStep, HireStep
  <2>. QED
    BY <2>1, <2>2
<1>2. ASSUME WalkerStep PROVE ReachInv'
  <2>1. CASE End \/ NotifyAll \/ Return
    BY <2>1, StillSteps, ReachStill
  <2>. QED
    BY <1>1, <1>2, <2>1, ReachPush, ReachVisit, ReachObtain DEF WalkerStep
<1>3. ASSUME NEW w \in Workers, WorkerStep(w) PROVE ReachInv'
  <2>1. CASE Claim(w)
    BY <2>1, StillSteps, ReachStill
  <2>. QED
    BY <1>1, <1>3, <2>1, ReachWork DEF WorkerStep
<1>4. ASSUME UNCHANGED vars PROVE ReachInv'
  <2>1. Still
    BY <1>4 DEF vars, Still, Has, AtWork, Obtains
  <2>. QED
    BY <2>1, ReachStill
<1>. QED
  BY <1>1, <1>2, <1>3, <1>4 DEF Next, Over

(* After the end nothing is left: of what is, the highest is in what is. *)
LEMMA NothingLeft ==
  ASSUME IInv, OrderInv, ReachInv, done PROVE unclaimed = {}
<1>1. ahead = <<>> /\ phase[Walker] \in {"signal", "join", "returned"}
  BY DEF IInv, EndInv, OrderInv
<1>2. \A d \in Dirs : ~Due(d) /\ ~Has(Walker, d)
  BY <1>1 DEF Due, Ahead, Obtains, Has, AtWork
<1>3. Cardinality(Dirs) \in Nat
  BY TreeAssumption, FS_CardinalityType
<1>4. PICK height \in [Dirs -> 0 .. Cardinality(Dirs)] :
        \A d \in Dirs : \A e \in SubDirs(d) : height[e] < height[d]
  BY HeightAssumption
<1> DEFINE T == {Cardinality(Dirs) - height[d] : d \in {e \in Dirs : Alive(e)}}
<1>5. T = {}
  <2>1. SUFFICES ASSUME T # {} PROVE FALSE
    OBVIOUS
  <2>2. T \subseteq Nat
    BY <1>3, <1>4
  <2>3. PICK n \in T : \A m \in T : n <= m
    <3>. HIDE DEF T
    <3>. QED
      BY <2>1, <2>2, Least
  <2>4. PICK d \in Dirs : Alive(d) /\ n = Cardinality(Dirs) - height[d]
    OBVIOUS
  <2>5. PICK p \in Dirs : d \in SubDirs(p) /\ Alive(p)
    BY <1>2, <2>4 DEF ReachInv
  <2>6. height[d] < height[p] /\ height[d] \in Nat /\ height[p] \in Nat
    BY <1>3, <1>4, <2>5
  <2>7. Cardinality(Dirs) - height[p] \in T
    BY <2>5
  <2>8. n <= Cardinality(Dirs) - height[p]
    <3>. HIDE DEF T
    <3>. QED
      BY <2>3, <2>7
  <2>. QED
    BY <1>3, <2>4, <2>6, <2>8
<1>6. \A d \in Dirs : ~Alive(d)
  BY <1>5
<1>. QED
  BY <1>6 DEF IInv, TypeOK, Alive

-----------------------------------------------------------------------------
(* An unclaimed directory is open, held or being registered. *)

Kept(d) == d \in open \/ \E w \in Workers : Holds(w, d)

LEMMA OpenInit == Init => OpenInv
<1> SUFFICES ASSUME Init PROVE OpenInv
  OBVIOUS
<1>1. \A t \in Threads : phase[t] \in {"explore", "absent"}
  BY DEF Init
<1>. QED
  BY <1>1, ThreadFacts DEF Init, OpenInv, Registered, Registers, Holds

LEMMA OpenKeeps ==
  ASSUME IInv, OpenInv, found' = found, unclaimed' \subseteq unclaimed,
         \A x \in Dirs : (Registers(x)' <=> Registers(x)) /\ (Kept(x)' => Kept(x)),
         \A x \in unclaimed' : Kept(x) => Kept(x)',
         open' \subseteq open,
         phase'[Walker] = "register" => phase[Walker] = "register" /\ at'[Walker] = at[Walker]
  PROVE  OpenInv'
<1>1. open \subseteq Dirs /\ unclaimed \subseteq Dirs
  BY DEF IInv, TypeOK
<1>. QED
  BY <1>1 DEF OpenInv, Registered, Kept

(* Steps in which no thread registers, nor goes on to another directory. *)
LEMMA OpenSteps ==
  ASSUME IInv, OpenInv, NEW t \in Threads,
         \/ Notify(t) \/ Notified(t) \/ HireStep(t) \/ WakeAlone(t)
         \/ Push \/ Visit \/ Descend \/ Obtain \/ Await \/ End \/ NotifyAll \/ Return
         \/ t \in Workers /\ (Claim(t) \/ Take(t) \/ Store(t))
  PROVE  OpenInv'
<1> USE ThreadFacts
<1>1. /\ found' = found /\ unclaimed' \subseteq unclaimed /\ open' \subseteq open
  BY DEF Notify, Notified, HireStep, Hire, Hired, WakeAlone, Push, Visit, Descend, Obtain,
         Await, End, NotifyAll, Return, Claim, Take, Store, slots, heap
<1>2. \A u \in Threads : phase'[u] = "register" <=> phase[u] = "register"
  <2>1. CASE Notify(t) \/ Notified(t) \/ WakeAlone(t)
    BY <2>1 DEF IInv, TypeOK, Notify, Notified, Goes, WakeAlone
  <2>2. CASE HireStep(t)
    BY <2>2, CoresAssumption, SMTT(30)
       DEF IInv, TypeOK, PhaseInv, HireStep, Hire, Hired, Goes, Threads, Workers, Walker
  <2>3. CASE Push \/ Visit \/ Descend \/ Obtain \/ Await
    BY <2>3 DEF IInv, TypeOK, Push, Visit, Descend, Obtain, Await, Goes
  <2>4. CASE End \/ NotifyAll \/ Return
    BY <2>4 DEF IInv, TypeOK, End, NotifyAll, Return, Goes
  <2>5. CASE t \in Workers /\ (Claim(t) \/ Take(t) \/ Store(t))
    BY <2>5 DEF IInv, TypeOK, Claim, Take, Store
  <2>. QED
    BY <2>1, <2>2, <2>3, <2>4, <2>5
<1>3. \A u \in Threads : phase[u] = "register" => at'[u] = at[u]
  BY DEF IInv, TypeOK, Notify, Notified, HireStep, Hire, Hired, WakeAlone, Push, Visit, Descend,
         Obtain, Await, End, NotifyAll, Return, Claim, Take, Store
<1>4. \A x \in Dirs : Registers(x)' <=> Registers(x)
  BY <1>2, <1>3 DEF Registers
<1>5. CASE ~(t \in Workers /\ (Claim(t) \/ Take(t) \/ Store(t)))
  <2>1. open' = open /\ next' = next /\ \A w \in Workers : at'[w] = at[w]
    BY <1>5 DEF IInv, TypeOK, Notify, Notified, HireStep, Hire, Hired, WakeAlone, Push, Visit, Descend,
         Obtain, Await, End, NotifyAll, Return, heap
  <2>2. \A w \in Workers : (phase'[w] = "take" <=> phase[w] = "take")
           /\ (phase'[w] \in {"notify", "store"} <=> phase[w] \in {"notify", "store"})
    <3>1. CASE Notify(t) \/ Notified(t) \/ WakeAlone(t)
      BY <3>1 DEF IInv, TypeOK, PhaseInv, WorkerPhases, Notify, Notified, Goes, WakeAlone, Threads
    <3>2. CASE HireStep(t)
      <4>1. \/ phase' = phase
            \/ \E u, p : /\ phase[u] \in {"absent", "hire"}
                       /\ p \in {"hire", "obtain", "claim"}
                       /\ phase' = [phase EXCEPT ![u] = p]
        <5>1. CASE Hire(t)
          <6>1. hired < Cores => hired \in Workers
            BY CoresAssumption DEF IInv, TypeOK, Workers
          <6>. QED
            BY <5>1, <6>1 DEF IInv, PhaseInv, Hire, Workers
        <5>2. CASE Hired(t)
          BY <5>2 DEF Hired, Goes
        <5>. QED
          BY <3>2, <5>1, <5>2 DEF HireStep
      <4>. QED
        BY <4>1 DEF IInv, TypeOK
    <3>3. CASE Push \/ Visit \/ Descend \/ Obtain \/ Await
      BY <3>3 DEF IInv, TypeOK, Push, Visit, Descend, Obtain, Await, Goes
    <3>4. CASE End \/ NotifyAll \/ Return
      BY <3>4 DEF IInv, TypeOK, End, NotifyAll, Return, Goes
    <3>. QED
      BY <1>5, <3>1, <3>2, <3>3, <3>4
  <2>3. \A w \in Workers, x \in Dirs : Holds(w, x)' <=> Holds(w, x)
    BY <2>1, <2>2 DEF Holds
  <2>4. \A x \in Dirs : Kept(x)' <=> Kept(x)
    BY <2>1, <2>3 DEF Kept
  <2>5. unclaimed \subseteq Dirs
    BY DEF IInv, TypeOK
  <2>. QED
    BY <1>1, <1>2, <1>3, <1>4, <2>4, <2>5, OpenKeeps
<1>6. CASE t \in Workers /\ (Claim(t) \/ Take(t) \/ Store(t))
  <2>1. \A w \in Workers, x \in Dirs : w # t => (Holds(w, x)' <=> Holds(w, x))
    BY <1>6 DEF IInv, TypeOK, Claim, Take, Store, Holds
  <2>2. \A x \in Dirs : Kept(x)' => Kept(x)
    <3>1. \A x \in Dirs : Holds(t, x)' => Holds(t, x) \/ x \in open
      BY <1>6, TreeAssumption DEF IInv, TypeOK, Claim, Take, Store, Holds
    <3>. QED
      BY <1>1, <2>1, <3>1 DEF Kept
  <2>3. \A x \in unclaimed' : Kept(x) => Kept(x)'
    <3>1. unclaimed \subseteq Dirs
      BY DEF IInv, TypeOK
    <3>2. \A x \in unclaimed' : Holds(t, x) => Holds(t, x)'
      <4>1. CASE Claim(t)
        BY <1>6, <4>1 DEF Claim, Holds
      <4>2. CASE Take(t)
        BY <1>6, <4>2 DEF Take, Holds
      <4>3. CASE Store(t)
        BY <1>1, <1>6, <3>1, <4>3, TreeAssumption DEF IInv, TypeOK, Store, Holds
      <4>. QED
        BY <1>6, <4>1, <4>2, <4>3
    <3>3. \A x \in open : x \in open' \/ Holds(t, x)'
      BY <1>6 DEF IInv, TypeOK, Claim, Take, Store, Holds, heap
    <3>. QED
      BY <1>1, <1>6, <2>1, <3>1, <3>2, <3>3 DEF Kept
  <2>. QED
    BY <1>1, <1>2, <1>3, <1>4, <2>2, <2>3, OpenKeeps
<1>. QED
  BY <1>5, <1>6

LEMMA OpenExplore ==
  ASSUME IInv, OpenInv, NEW t \in Threads, Explore(t) PROVE OpenInv'
<1> USE ThreadFacts
<1>0. PICK d \in Dirs : d = at[t]
  BY DEF IInv, TypeOK, Located, AtWork, Explore
<1>1. /\ phase[t] = "explore"
      /\ phase'[t] = IF t = Walker /\ SubDirs(d) = {} THEN "push" ELSE "register"
      /\ \A u \in Threads : u # t => phase'[u] = phase[u]
      /\ unclaimed' = unclaimed \cup SubDirs(d) /\ found' = found \cup SubDirs(d)
      /\ UNCHANGED <<open, at, next>>
  BY <1>0 DEF IInv, TypeOK, Explore, heap
<1>2. \A w \in Workers, x \in Dirs : Holds(w, x)' <=> Holds(w, x)
  BY <1>1 DEF Holds
<1>3. \A x \in Dirs : Registers(x)' <=> Registers(x) \/ x \in SubDirs(d)
  BY <1>0, <1>1 DEF Registers
<1>4. \A x \in SubDirs(d) : x \in Dirs /\ x \notin found
  <2>1. Unexplored(d)
    BY <1>0, <1>1 DEF Unexplored
  <2>. QED
    BY <2>1, SubDirsAreDirs DEF IInv, UnexploredInv
<1>5. unclaimed \subseteq Dirs /\ open \subseteq Dirs
  BY DEF IInv, TypeOK
<1>6. open' \subseteq found' /\ \A w \in Workers, x \in Dirs : Holds(w, x)' => x \in found'
  BY <1>1, <1>2 DEF OpenInv
<1>7. \A x \in Dirs : Registers(x)' => x \notin open' /\ \A w \in Workers : ~Holds(w, x)'
  BY <1>1, <1>2, <1>3, <1>4 DEF OpenInv
<1>8. \A x \in Registered' : x \in open' \/ \E w \in Workers : Holds(w, x)'
  BY <1>1, <1>2, <1>3, <1>4, <1>5 DEF OpenInv, Registered
<1>9. phase'[Walker] = "register" => SubDirs(at'[Walker]) # {}
  BY <1>0, <1>1 DEF OpenInv
<1>. QED
  BY <1>6, <1>7, <1>8, <1>9 DEF OpenInv

(* What a thread registers was found, and by it alone. *)
LEMMA RegistersOwn ==
  ASSUME IInv, NEW t \in Threads, phase[t] = "register", NEW d \in Dirs, d = at[t]
  PROVE  /\ SubDirs(d) \subseteq found
         /\ \A u \in Threads \ {t} : phase[u] = "register" => SubDirs(at[u]) \cap SubDirs(d) = {}
<1>1. Has(t, d)
  BY DEF Has, AtWork
<1>2. \A u \in Threads : Has(u, d) => u = t
  BY <1>1 DEF IInv, OnceInv
<1>3. SubDirs(d) \subseteq found
  <2>1. Unpushed(d)
    BY <1>1 DEF Unpushed
  <2>2. ~Unexplored(d)
    BY <1>1, <1>2 DEF IInv, OnceInv, FoundInv, Unexplored, Has, AtWork
  <2>3. \A e \in SubDirs(d) : Alive(e)
    BY <2>1, <2>2 DEF IInv, ExploredInv
  <2>4. \A e \in Dirs : Alive(e) => e \in found
    BY ThreadFacts DEF IInv, FoundInv, Alive, Has
  <2>. QED
    BY <2>3, <2>4, SubDirsAreDirs
<1>4. ASSUME NEW u \in Threads \ {t}, phase[u] = "register"
      PROVE  SubDirs(at[u]) \cap SubDirs(d) = {}
  <2>1. at[u] \in Dirs /\ Has(u, at[u])
    BY <1>4 DEF IInv, TypeOK, Located, AtWork, Has
  <2>. QED
    BY <1>2, <2>1, OneParent
<1>. QED
  BY <1>3, <1>4

LEMMA OpenRegister ==
  ASSUME IInv, OpenInv, NEW t \in Threads, Register(t) PROVE OpenInv'
<1> USE ThreadFacts
<1>0. PICK d \in Dirs : d = at[t]
  BY DEF IInv, TypeOK, Located, AtWork, Register, Goes
<1>1. /\ phase[t] = "register" /\ phase'[t] = "notify"
      /\ \A u \in Threads : u # t => phase'[u] = phase[u] /\ next'[u] = next[u]
      /\ UNCHANGED <<unclaimed, found, at>>
  BY DEF IInv, TypeOK, Register, Goes, slots
<1>2. /\ SubDirs(d) \subseteq found /\ SubDirs(d) \subseteq Dirs
      /\ \A u \in Threads \ {t} : phase[u] = "register" => SubDirs(at[u]) \cap SubDirs(d) = {}
  BY <1>0, <1>1, RegistersOwn, SubDirsAreDirs
<1>3. \A x \in Dirs : Registers(x)' <=> Registers(x) /\ x \notin SubDirs(d)
  BY <1>0, <1>1, <1>2 DEF Registers
<1>4. \A w \in Workers, x \in Dirs : w # t => (Holds(w, x)' <=> Holds(w, x))
  BY <1>1 DEF Holds
<1>5. \A x \in Dirs : t \in Workers => ~Holds(t, x)
  BY <1>1 DEF Holds
<1>6. open' \subseteq open \cup SubDirs(d)
  BY <1>0 DEF Register
<1>7. \A x \in Dirs : t \in Workers /\ Holds(t, x)' => x \in open \cup SubDirs(d)
  BY <1>0, <1>1, TreeAssumption DEF IInv, TypeOK, Register, Holds
<1>8. \A x \in open \cup SubDirs(d) : x \in open' \/ (t \in Workers /\ Holds(t, x)')
  BY <1>0, <1>1 DEF IInv, TypeOK, Register, Holds, Threads
<1>9. unclaimed \subseteq Dirs /\ open \subseteq Dirs
  BY DEF IInv, TypeOK
<1>10. open' \subseteq found' /\ \A w \in Workers, x \in Dirs : Holds(w, x)' => x \in found'
  BY <1>1, <1>2, <1>4, <1>6, <1>7 DEF OpenInv
<1>11. \A x \in Dirs : Registers(x)' => x \notin open' /\ \A w \in Workers : ~Holds(w, x)'
  BY <1>3, <1>4, <1>6, <1>7 DEF OpenInv
<1>12. \A x \in Registered' : x \in open' \/ \E w \in Workers : Holds(w, x)'
  BY <1>1, <1>3, <1>4, <1>5, <1>8, <1>9 DEF OpenInv, Registered
<1>13. phase'[Walker] = "register" => SubDirs(at'[Walker]) # {}
  BY <1>1 DEF OpenInv
<1>. QED
  BY <1>10, <1>11, <1>12, <1>13 DEF OpenInv

LEMMA OpenStep == IInv /\ OpenInv /\ [Next]_vars => OpenInv'
<1> SUFFICES ASSUME IInv, OpenInv, [Next]_vars PROVE OpenInv'
  OBVIOUS
<1>1. ASSUME NEW t \in Threads, ExploreStep(t) \/ HireStep(t) \/ WakeAlone(t) PROVE OpenInv'
  BY <1>1, OpenExplore, OpenRegister, OpenSteps DEF ExploreStep
<1>2. ASSUME WalkerStep PROVE OpenInv'
  BY <1>1, <1>2, ThreadFacts, OpenSteps DEF WalkerStep
<1>3. ASSUME NEW w \in Workers, WorkerStep(w) PROVE OpenInv'
  BY <1>1, <1>3, ThreadFacts, OpenSteps DEF WorkerStep
<1>4. ASSUME UNCHANGED vars PROVE OpenInv'
  BY <1>4 DEF vars, OpenInv, Registered, Registers, Holds
<1>. QED
  BY <1>1, <1>2, <1>3, <1>4 DEF Next, Over

-----------------------------------------------------------------------------
(* While a worker sleeps there is a thread, or a signal, for each directory. *)

(* What is in Credit, read both ways. *)
LEMMA CreditIs ==
  /\ \A t \in Ready : <<t, 0>> \in Credit
  /\ \A t \in Threads : phase[t] = "notify" => \A i \in 1 .. left[t] : <<t, i>> \in Credit
  /\ \A c \in Credit : \/ c[1] \in Ready /\ c = <<c[1], 0>>
                       \/ /\ c[1] \in Threads /\ phase[c[1]] = "notify"
                          /\ c[2] \in 1 .. left[c[1]] /\ c = <<c[1], c[2]>>
<1>1. ASSUME NEW t \in Threads, phase[t] = "notify", NEW i \in 1 .. left[t]
      PROVE  <<t, i>> \in Credit
  <2>1. <<t, i>> \in Owed(t)
    BY <1>1 DEF Owed
  <2>. QED
    BY <2>1 DEF Credit
<1>2. ASSUME NEW c \in Credit
      PROVE  \/ c[1] \in Ready /\ c = <<c[1], 0>>
             \/ /\ c[1] \in Threads /\ phase[c[1]] = "notify"
                /\ c[2] \in 1 .. left[c[1]] /\ c = <<c[1], c[2]>>
  <2>1. CASE c \in Ready \X {0}
    BY <2>1
  <2>2. CASE c \notin Ready \X {0}
    <3>1. PICK t \in Threads : c \in Owed(t)
      BY <2>2 DEF Credit
    <3>2. phase[t] = "notify" /\ c \in {t} \X (1 .. left[t])
      BY <3>1 DEF Owed
    <3>. QED
      BY <3>2
  <2>. QED
    BY <2>1, <2>2
<1>3. \A t \in Ready : <<t, 0>> \in Credit
  BY DEF Credit
<1>. QED
  BY <1>1, <1>2, <1>3

LEMMA SpareFinite ==
  ASSUME TypeOK PROVE IsFiniteSet(Credit) /\ IsFiniteSet(Registered)
<1>1. IsFiniteSet(Threads)
  <2>1. IsFiniteSet(1 .. (Cores - 1))
    BY CoresAssumption, FS_Interval
  <2>. QED
    BY <2>1, FS_AddElement DEF Threads, Workers
<1>2. IsFiniteSet(Ready \X {0})
  <2>1. Ready \in SUBSET Threads
    BY ThreadFacts DEF Ready
  <2>2. IsFiniteSet(Ready) /\ IsFiniteSet({0})
    BY <1>1, <2>1, FS_Subset, FS_Singleton
  <2>. QED
    BY <2>2, FS_Product
<1>3. \A t \in Threads : IsFiniteSet(Owed(t))
  <2>1. ASSUME NEW t \in Threads PROVE IsFiniteSet({t} \X (1 .. left[t]))
    <3>1. 1 \in Int /\ left[t] \in Int
      BY DEF TypeOK
    <3>2. IsFiniteSet({t}) /\ IsFiniteSet(1 .. left[t])
      BY <3>1, FS_Singleton, FS_Interval
    <3>. QED
      BY <3>2, FS_Product
  <2>. QED
    BY <2>1, FS_EmptySet DEF Owed
<1>4. IsFiniteSet(UNION {Owed(t) : t \in Threads})
  <2> DEFINE f == [t \in Threads |-> Owed(t)]
             T == {Owed(t) : t \in Threads}
  <2>1. f \in Surjection(Threads, T)
    BY DEF Surjection
  <2>2. IsFiniteSet(T)
    <3>. HIDE DEF f, T
    <3>. QED
      BY <1>1, <2>1, FS_Surjection
  <2>3. \A S \in T : IsFiniteSet(S)
    BY <1>3
  <2>. HIDE DEF T
  <2>. QED
    BY <2>2, <2>3, FS_UNION DEF T
<1>5. IsFiniteSet(Credit)
  BY <1>2, <1>4, FS_Union DEF Credit
<1>6. Registered \in SUBSET Dirs
  BY DEF Registered, TypeOK
<1>. QED
  BY <1>5, <1>6, TreeAssumption, FS_Subset

Asleep == \E w \in Workers : phase[w] = "asleep"

(* A step that takes A from the directories and adds B, and takes C from the
   threads and signals and adds D. *)
LEMMA SpareMoves ==
  ASSUME TypeOK, TypeOK', SpareInv, Asleep' => Asleep,
         NEW A, NEW B, NEW C, NEW D,
         IsFiniteSet(A), IsFiniteSet(B), IsFiniteSet(C), IsFiniteSet(D),
         A \subseteq Registered, Registered' \subseteq (Registered \ A) \cup B,
         D \cap Credit = {}, (Credit \ C) \cup D \subseteq Credit',
         Cardinality(B) + Cardinality(C) <= Cardinality(A) + Cardinality(D)
  PROVE  SpareInv'
<1> SUFFICES ASSUME Asleep' PROVE Cardinality(Registered') <= Cardinality(Credit')
  BY DEF SpareInv, Asleep
<1>1. Cardinality(Registered) <= Cardinality(Credit)
  BY DEF SpareInv, Asleep
<1>2. /\ IsFiniteSet(Registered) /\ IsFiniteSet(Credit)
      /\ IsFiniteSet(Registered') /\ IsFiniteSet(Credit')
  <2>1. IsFiniteSet(Registered) /\ IsFiniteSet(Credit)
    BY SpareFinite
  <2>2. (TypeOK => IsFiniteSet(Credit) /\ IsFiniteSet(Registered))'
    BY SpareFinite, PTL
  <2>. QED
    BY <2>1, <2>2
<1>3. /\ Cardinality(A) \in Nat /\ Cardinality(B) \in Nat
      /\ Cardinality(C) \in Nat /\ Cardinality(D) \in Nat
      /\ Cardinality(Registered) \in Nat /\ Cardinality(Credit) \in Nat
      /\ Cardinality(Registered') \in Nat /\ Cardinality(Credit') \in Nat
  BY <1>2, FS_CardinalityType
<1>4. /\ IsFiniteSet(Registered \ A)
      /\ Cardinality(Registered \ A) = Cardinality(Registered) - Cardinality(A)
  <2>1. Registered \cap A = A
    OBVIOUS
  <2>. QED
    BY <1>2, <2>1, FS_Difference
<1>5. Cardinality(Registered') <= Cardinality(Registered) - Cardinality(A) + Cardinality(B)
  <2> DEFINE R == (Registered \ A) \cup B
             X == (Registered \ A) \cap B
  <2>1. IsFiniteSet(R) /\ Cardinality(R) = Cardinality(Registered \ A) + Cardinality(B) - Cardinality(X)
    BY <1>4, FS_Union
  <2>2. X \in SUBSET B
    OBVIOUS
  <2>3. Cardinality(X) \in Nat
    BY <2>2, FS_Subset, FS_CardinalityType
  <2>4. Registered' \in SUBSET R
    OBVIOUS
  <2>5. Cardinality(Registered') <= Cardinality(R)
    <3>. HIDE DEF R
    <3>. QED
      BY <2>1, <2>4, FS_Subset
  <2>. HIDE DEF R, X
  <2>. QED
    BY <1>3, <1>4, <2>1, <2>3, <2>5
<1>6. Cardinality(Credit') >= Cardinality(Credit) - Cardinality(C) + Cardinality(D)
  <2> DEFINE K == Credit \ C
             X == Credit \cap C
             R == K \cup D
  <2>1. IsFiniteSet(K) /\ Cardinality(K) = Cardinality(Credit) - Cardinality(X)
    BY <1>2, FS_Difference
  <2>2. X \in SUBSET C
    OBVIOUS
  <2>3. Cardinality(X) \in Nat /\ Cardinality(X) <= Cardinality(C)
    BY <2>2, FS_Subset, FS_CardinalityType
  <2>4. K \cap D = {}
    OBVIOUS
  <2>5. Cardinality(R) = Cardinality(K) + Cardinality(D)
    <3>. HIDE DEF K
    <3>. QED
      <4>1. Cardinality(K) \in Nat
        BY <2>1, FS_CardinalityType
      <4>2. Cardinality(K \cup D) = Cardinality(K) + Cardinality(D) - Cardinality(K \cap D)
        BY <2>1, FS_Union
      <4>3. Cardinality(K \cap D) = 0
        BY <2>4, FS_EmptySet
      <4>. QED
        BY <1>3, <4>1, <4>2, <4>3
  <2>6. R \in SUBSET Credit'
    OBVIOUS
  <2>7. Cardinality(R) <= Cardinality(Credit')
    <3>. HIDE DEF R
    <3>. QED
      BY <1>2, <2>6, FS_Subset
  <2>. HIDE DEF K, X, R
  <2>. QED
    BY <1>3, <2>1, <2>3, <2>5, <2>7
<1>. QED
  BY <1>1, <1>3, <1>5, <1>6

(* The cases of it that the steps are. *)
LEMMA SpareGrows ==
  ASSUME TypeOK, TypeOK', SpareInv, Asleep' => Asleep,
         Registered' \subseteq Registered, Credit \subseteq Credit'
  PROVE  SpareInv'
<1>1. IsFiniteSet({}) /\ Cardinality({}) = 0
  BY FS_EmptySet
<1>. QED
  BY <1>1, SpareMoves

LEMMA SpareTakes ==
  ASSUME TypeOK, TypeOK', SpareInv, Asleep' => Asleep, NEW d \in Registered, NEW c,
         Registered' \subseteq Registered \ {d}, Credit \ {c} \subseteq Credit'
  PROVE  SpareInv'
<1>1. /\ IsFiniteSet({}) /\ Cardinality({}) = 0
      /\ IsFiniteSet({d}) /\ Cardinality({d}) = 1 /\ IsFiniteSet({c}) /\ Cardinality({c}) = 1
  BY FS_EmptySet, FS_Singleton
<1>. QED
  BY <1>1, SpareMoves

LEMMA SpareSwaps ==
  ASSUME TypeOK, TypeOK', SpareInv, Asleep' => Asleep, NEW c, NEW e,
         Registered' \subseteq Registered, e \notin Credit, (Credit \ {c}) \cup {e} \subseteq Credit'
  PROVE  SpareInv'
<1>1. /\ IsFiniteSet({}) /\ Cardinality({}) = 0
      /\ IsFiniteSet({e}) /\ Cardinality({e}) = 1 /\ IsFiniteSet({c}) /\ Cardinality({c}) = 1
  BY FS_EmptySet, FS_Singleton
<1>2. {e} \cap Credit = {}
  OBVIOUS
<1>. QED
  BY <1>1, <1>2, SpareMoves

(* Steps that put no thread out of reach, and no directory in it. *)
LEMMA CreditKeeps ==
  ASSUME Ready \subseteq Ready',
         \A t \in Threads : phase[t] = "notify" =>
            left[t] <= 0 \/ (phase'[t] = "notify" /\ left'[t] = left[t]),
         TypeOK
  PROVE  Credit \subseteq Credit'
<1> SUFFICES ASSUME NEW c \in Credit PROVE c \in Credit'
  OBVIOUS
<1>1. CASE c[1] \in Ready /\ c = <<c[1], 0>>
  BY <1>1, CreditIs DEF Credit
<1>2. CASE /\ c[1] \in Threads /\ phase[c[1]] = "notify"
           /\ c[2] \in 1 .. left[c[1]] /\ c = <<c[1], c[2]>>
  <2>1. left[c[1]] \in Int /\ ~(left[c[1]] <= 0)
    BY <1>2 DEF TypeOK
  <2>2. phase'[c[1]] = "notify" /\ left'[c[1]] = left[c[1]]
    BY <1>2, <2>1
  <2>3. c \in Owed(c[1])'
    BY <1>2, <2>2 DEF Owed
  <2>. QED
    BY <1>2, <2>3 DEF Credit
<1>. QED
  BY <1>1, <1>2, CreditIs

LEMMA SpareExplore ==
  ASSUME IInv, TypeOK', SpareInv, NEW t \in Threads, Explore(t) PROVE SpareInv'
<1> USE ThreadFacts
<1>0. PICK d \in Dirs : d = at[t]
  BY DEF IInv, TypeOK, Located, AtWork, Explore
<1>1. /\ phase[t] = "explore"
      /\ phase'[t] = IF t = Walker /\ SubDirs(d) = {} THEN "push" ELSE "register"
      /\ \A u \in Threads : u # t => phase'[u] = phase[u]
      /\ unclaimed' = unclaimed \cup SubDirs(d)
      /\ UNCHANGED <<at, next, left>>
  BY <1>0 DEF IInv, TypeOK, Explore
<1>2. \A x : Registers(x)' <=> Registers(x) \/ x \in SubDirs(d)
  BY <1>0, <1>1 DEF Registers
<1>3. Registered' \subseteq Registered
  BY <1>1, <1>2 DEF Registered
<1>4. Ready \subseteq Ready'
  BY <1>1 DEF Ready
<1>5. Credit \subseteq Credit'
  BY <1>1, <1>4, CreditKeeps DEF IInv
<1>6. Asleep' => Asleep
  BY <1>1 DEF Asleep
<1>. QED
  BY <1>3, <1>5, <1>6, SpareGrows DEF IInv

(* Register: n directories, and t with n - 1 signals for them. *)
LEMMA SpareRegister ==
  ASSUME IInv, TypeOK', SpareInv, NEW t \in Threads, Register(t) PROVE SpareInv'
<1> USE ThreadFacts
<1>0. PICK d \in Dirs : d = at[t]
  BY DEF IInv, TypeOK, Located, AtWork, Register, Goes
<1> DEFINE n == Cardinality(SubDirs(d))
<1>1. /\ phase[t] = "register" /\ phase'[t] = "notify" /\ left'[t] = n - 1
      /\ \A u \in Threads : u # t => phase'[u] = phase[u] /\ next'[u] = next[u] /\ left'[u] = left[u]
      /\ UNCHANGED <<unclaimed, at>>
  BY <1>0 DEF IInv, TypeOK, Register, Goes, slots
<1>2. \A x : Registers(x) => Registers(x)' \/ x \in SubDirs(d)
  BY <1>0, <1>1 DEF Registers
<1>3. Registered' \subseteq Registered \cup SubDirs(d)
  BY <1>1, <1>2 DEF Registered
<1>4. IsFiniteSet(SubDirs(d)) /\ n \in Nat
  <2>1. SubDirs(d) \in SUBSET Dirs
    BY SubDirsAreDirs
  <2>. QED
    BY <2>1, TreeAssumption, FS_Subset, FS_CardinalityType
<1>5. Ready \subseteq Ready' /\ t \notin Ready
  BY <1>1 DEF Ready
<1>6. Credit \subseteq Credit'
  BY <1>1, <1>5, CreditKeeps DEF IInv
<1>7. Asleep' => Asleep
  BY <1>1 DEF Asleep
<1>8. CASE n = 0
  <2>1. SubDirs(d) = {}
    BY <1>4, <1>8, FS_EmptySet
  <2>. QED
    BY <1>3, <1>6, <1>7, <2>1, SpareGrows DEF IInv
<1>9. CASE n # 0
  <2> DEFINE D == {t} \X (0 .. n - 1)
  <2>1. IsFiniteSet(D) /\ Cardinality(D) = n
    <3>1. 0 \in Int /\ n - 1 \in Int /\ ~(0 > n - 1)
      BY <1>4, <1>9
    <3>2. IsFiniteSet(0 .. n - 1) /\ Cardinality(0 .. n - 1) = n
      <4>. HIDE DEF n
      <4>. QED
        BY <1>4, <3>1, FS_Interval
    <3>3. IsFiniteSet({t}) /\ Cardinality({t}) = 1
      BY FS_Singleton
    <3>4. /\ IsFiniteSet(D)
          /\ Cardinality(D) = Cardinality({t}) * Cardinality(0 .. n - 1)
      <4>. HIDE DEF n
      <4>. QED
        BY <3>2, <3>3, FS_Product
    <3>. QED
      BY <1>4, <3>2, <3>3, <3>4
  <2>2. D \cap Credit = {}
    BY <1>1, <1>5, CreditIs
  <2>3. t \in Ready'
    <3>1. CASE t = Walker
      BY <1>1, <3>1 DEF Ready
    <3>2. CASE t \in Workers
      <4>1. SubDirs(d) # {}
        BY <1>9, FS_EmptySet
      <4>2. open \cup SubDirs(d) \subseteq Dirs /\ open \cup SubDirs(d) # {}
        BY <4>1, SubDirsAreDirs DEF IInv, TypeOK
      <4>3. next'[t] # NoDir
        BY <1>0, <3>2, <4>2, TreeAssumption DEF IInv, TypeOK, Register
      <4>. QED
        BY <1>1, <3>2, <4>3 DEF Ready
    <3>. QED
      BY <3>1, <3>2 DEF Threads
  <2>4. D \subseteq Credit'
    <3>1. \A i \in 1 .. n - 1 : <<t, i>> \in Owed(t)'
      BY <1>1 DEF Owed
    <3>2. <<t, 0>> \in Credit'
      BY <2>3 DEF Credit
    <3>3. \A i \in 1 .. n - 1 : <<t, i>> \in Credit'
      BY <3>1 DEF Credit
    <3>4. \A i \in 0 .. n - 1 : i = 0 \/ i \in 1 .. n - 1
      BY <1>4
    <3>. QED
      BY <3>2, <3>3, <3>4
  <2>5. IsFiniteSet({}) /\ Cardinality({}) = 0
    BY FS_EmptySet
  <2>6. Cardinality(SubDirs(d)) + Cardinality({}) <= Cardinality({}) + Cardinality(D)
    BY <1>4, <2>1, <2>5
  <2>. HIDE DEF D, n
  <2>. QED
    BY <1>3, <1>4, <1>6, <1>7, <2>1, <2>2, <2>4, <2>5, <2>6, SpareMoves DEF IInv
<1>. QED
  BY <1>8, <1>9

(* Notify: a signal given is a thread awake, or nobody sleeps. *)
LEMMA SpareNotify ==
  ASSUME IInv, TypeOK', SpareInv, NEW t \in Threads, Notify(t) PROVE SpareInv'
<1> USE ThreadFacts
<1>1. /\ phase[t] = "notify" /\ left[t] > 0 /\ left[t] \in Int
      /\ left' = [left EXCEPT ![t] = left[t] - 1] /\ UNCHANGED <<unclaimed, at, next>>
  BY DEF IInv, TypeOK, Notify, slots
<1>2. CASE ~Asleep
  BY <1>2 DEF Notify, Asleep, SpareInv
<1>3. CASE Asleep
  <2>1. PICK w \in Workers : phase[w] = "asleep" /\ phase' = [phase EXCEPT ![w] = "claim"]
    BY <1>3 DEF Notify, Asleep
  <2>2. w # t /\ w \in Threads
    BY <1>1, <2>1
  <2>3. \A u \in Threads : phase'[u] = IF u = w THEN "claim" ELSE phase[u]
    BY <2>1 DEF IInv, TypeOK
  <2>4. \A x : Registers(x)' <=> Registers(x)
    BY <1>1, <2>1, <2>3 DEF Registers
  <2>5. Registered' \subseteq Registered
    BY <1>1, <2>4 DEF Registered
  <2>6. Ready \subseteq Ready' /\ w \in Ready' /\ w \notin Ready
    BY <1>1, <2>1, <2>3 DEF Ready
  <2>7. <<w, 0>> \notin Credit
    <3>1. SUFFICES ASSUME <<w, 0>> \in Credit PROVE FALSE
      OBVIOUS
    <3>2. <<w, 0>>[1] = w
      OBVIOUS
    <3>. QED
      BY <2>1, <2>6, <3>1, <3>2, CreditIs
  <2>8. <<w, 0>> \in Credit'
    BY <2>6 DEF Credit
  <2>9. ASSUME NEW c \in Credit, c # <<t, left[t]>> PROVE c \in Credit'
    <3>1. CASE c[1] \in Ready /\ c = <<c[1], 0>>
      BY <2>6, <3>1 DEF Credit
    <3>2. CASE /\ c[1] \in Threads /\ phase[c[1]] = "notify"
               /\ c[2] \in 1 .. left[c[1]] /\ c = <<c[1], c[2]>>
      <4>1. c[1] # w /\ phase'[c[1]] = "notify"
        BY <2>1, <2>3, <3>2
      <4>2. c[2] \in 1 .. left'[c[1]]
        <5>1. CASE c[1] = t
          BY <1>1, <2>9, <3>2, <5>1 DEF IInv, TypeOK
        <5>2. CASE c[1] # t
          BY <1>1, <3>2, <5>2 DEF IInv, TypeOK
        <5>. QED
          BY <5>1, <5>2
      <4>3. c \in Owed(c[1])'
        BY <3>2, <4>1, <4>2 DEF Owed
      <4>. QED
        BY <3>2, <4>3 DEF Credit
    <3>. QED
      BY <3>1, <3>2, CreditIs
  <2>10. (Credit \ {<<t, left[t]>>}) \cup {<<w, 0>>} \subseteq Credit'
    BY <2>8, <2>9
  <2>. QED
    BY <1>3, <2>5, <2>7, <2>10, SpareSwaps DEF IInv
<1>. QED
  BY <1>2, <1>3

(* Steps that leave every thread that is ready ready, and no directory. *)
LEMMA SpareStill ==
  ASSUME IInv, TypeOK', SpareInv, NEW t \in Threads,
         Notified(t) \/ HireStep(t) \/ WakeAlone(t) \/ Push \/ Visit \/ Descend \/ Await \/ End \/ Return
  PROVE  SpareInv'
<1> USE ThreadFacts
<1>1. unclaimed' = unclaimed /\ next' = next
  BY DEF Notified, HireStep, Hire, Hired, WakeAlone, Push, Visit, Descend, Await, End, Return, slots
<1>2. \A u \in Threads :
        /\ phase'[u] = "register" <=> phase[u] = "register"
        /\ phase[u] = "register" => at'[u] = at[u]
        /\ phase[u] \in {"claim", "take"} => phase'[u] \in {"claim", "take"}
        /\ u # Walker /\ phase[u] \in {"notify", "store"} => phase'[u] \in {"notify", "store"}
        /\ phase[u] = "notify" => left[u] <= 0 \/ (phase'[u] = "notify" /\ left'[u] = left[u])
        /\ phase'[u] = "asleep" => phase[u] = "asleep"
        /\ phase[Walker] \notin {"explore", "register"} => phase'[Walker] \notin {"explore", "register"}
  <2>1. CASE Notified(t)
    BY <2>1 DEF IInv, TypeOK, Notified, Goes
  <2>2. CASE WakeAlone(t)
    BY <2>2 DEF IInv, TypeOK, WakeAlone
  <2>3. CASE HireStep(t)
    <3>1. /\ at' = at
          /\ \E u, p : /\ phase[u] \in {"absent", "hire"} /\ p \in {"hire", "obtain", "claim"}
                       /\ phase' \in {phase, [phase EXCEPT ![u] = p]}
          /\ \A u \in Threads : phase[u] = "notify" => left'[u] = left[u]
      <4>1. CASE Hire(t)
        <5>1. hired < Cores => hired \in Workers
          BY CoresAssumption DEF IInv, TypeOK, Workers
        <5>2. hired < Cores => phase[hired] = "absent"
          BY <5>1 DEF IInv, PhaseInv, Workers
        <5>3. phase[t] = "hire" /\ at' = at
          BY <4>1 DEF Hire
        <5>4. \/ phase' = phase
              \/ phase[hired] = "absent" /\ phase' = [phase EXCEPT ![hired] = "hire"]
          BY <4>1, <5>2 DEF Hire
        <5>5. \A u \in Threads : phase[u] = "notify" => left'[u] = left[u]
          BY <4>1, <5>2, <5>3 DEF IInv, TypeOK, Hire
        <5>. QED
          BY <5>3, <5>4, <5>5
      <4>2. CASE Hired(t)
        BY <4>2 DEF Hired, Goes
      <4>. QED
        BY <2>3, <4>1, <4>2 DEF HireStep
    <3>. QED
      BY <3>1 DEF IInv, TypeOK
  <2>4. CASE Push \/ Visit \/ End \/ Return
    BY <2>4 DEF IInv, TypeOK, Push, Visit, End, Return, Goes
  <2>5. CASE Descend \/ Await
    BY <2>5 DEF IInv, TypeOK, Descend, Await
  <2>. QED
    BY <2>1, <2>2, <2>3, <2>4, <2>5
<1>3. Registered' \subseteq Registered
  BY <1>1, <1>2 DEF Registered, Registers
<1>4. Ready \subseteq Ready'
  BY <1>1, <1>2 DEF Ready
<1>5. Credit \subseteq Credit'
  BY <1>2, <1>4, CreditKeeps DEF IInv
<1>6. Asleep' => Asleep
  BY <1>2 DEF Asleep
<1>. QED
  BY <1>3, <1>5, <1>6, SpareGrows DEF IInv

(* Obtain and Take: a thread takes its directory, and is ready no more. *)
LEMMA SpareObtain ==
  ASSUME IInv, TypeOK', SpareInv, Obtain PROVE SpareInv'
<1> USE ThreadFacts
<1>0. PICK d \in Dirs : d = at[Walker]
  BY DEF IInv, TypeOK, Located, Obtain
<1>1. /\ phase[Walker] = "obtain" /\ unclaimed' = unclaimed \ {d}
      /\ phase'[Walker] = IF d \in unclaimed THEN "explore" ELSE "await"
      /\ \A u \in Threads : u # Walker => phase'[u] = phase[u]
      /\ UNCHANGED <<at, next, left>>
  BY <1>0 DEF IInv, TypeOK, Obtain
<1>2. \A x : Registers(x)' <=> Registers(x)
  BY <1>1 DEF Registers
<1>3. Registered' = Registered \ {d}
  BY <1>1, <1>2 DEF Registered
<1>4. Asleep' => Asleep
  BY <1>1 DEF Asleep
<1>5. CASE d \in unclaimed
  <2>1. ~Registers(d)
    <3>1. SUFFICES ASSUME NEW u \in Threads, phase[u] = "register", d \in SubDirs(at[u]) PROVE FALSE
      BY DEF Registers
    <3>2. at[u] \in Dirs /\ Unpushed(at[u])
      BY <3>1 DEF IInv, TypeOK, Located, AtWork, Unpushed, Has
    <3>3. Due(d)
      BY <1>0, <1>1 DEF Due, Obtains
    <3>. QED
      BY <3>1, <3>2, <3>3 DEF IInv, UnpushedInv
  <2>2. d \in Registered
    BY <1>5, <2>1 DEF Registered
  <2>3. ASSUME NEW c \in Credit, c # <<Walker, 0>> PROVE c \in Credit'
    <3>1. CASE c[1] \in Ready /\ c = <<c[1], 0>>
      <4>1. c[1] \in Ready'
        BY <1>1, <2>3, <3>1 DEF Ready
      <4>. QED
        BY <3>1, <4>1 DEF Credit
    <3>2. CASE /\ c[1] \in Threads /\ phase[c[1]] = "notify"
               /\ c[2] \in 1 .. left[c[1]] /\ c = <<c[1], c[2]>>
      <4>1. c \in Owed(c[1])'
        BY <1>1, <3>2 DEF Owed
      <4>. QED
        BY <3>2, <4>1 DEF Credit
    <3>. QED
      BY <3>1, <3>2, CreditIs
  <2>. QED
    BY <1>3, <1>4, <2>2, <2>3, SpareTakes DEF IInv
<1>6. CASE d \notin unclaimed
  <2>1. Ready \subseteq Ready'
    BY <1>1, <1>6 DEF Ready
  <2>2. Credit \subseteq Credit'
    BY <1>1, <2>1, CreditKeeps DEF IInv
  <2>. QED
    BY <1>3, <1>4, <2>2, SpareGrows DEF IInv
<1>. QED
  BY <1>5, <1>6

LEMMA SpareTake ==
  ASSUME IInv, OpenInv, TypeOK', SpareInv, NEW w \in Workers, Take(w) PROVE SpareInv'
<1> USE ThreadFacts
<1>0. PICK d \in Dirs : d = at[w]
  BY DEF IInv, TypeOK, Located, Take
<1>1. /\ phase[w] = "take" /\ unclaimed' = unclaimed \ {d}
      /\ phase'[w] = IF d \in unclaimed THEN "explore" ELSE "claim"
      /\ \A u \in Threads : u # w => phase'[u] = phase[u]
      /\ UNCHANGED <<at, next, left>>
  BY <1>0 DEF IInv, TypeOK, Take
<1>2. \A x : Registers(x)' <=> Registers(x)
  BY <1>1 DEF Registers
<1>3. Registered' = Registered \ {d}
  BY <1>1, <1>2 DEF Registered
<1>4. Asleep' => Asleep
  BY <1>1 DEF Asleep
<1>5. CASE d \in unclaimed
  <2>1. ~Registers(d)
    BY <1>0, <1>1 DEF OpenInv, Holds
  <2>2. d \in Registered
    BY <1>5, <2>1 DEF Registered
  <2>3. ASSUME NEW c \in Credit, c # <<w, 0>> PROVE c \in Credit'
    <3>1. CASE c[1] \in Ready /\ c = <<c[1], 0>>
      <4>1. c[1] \in Ready'
        BY <1>1, <2>3, <3>1 DEF Ready
      <4>. QED
        BY <3>1, <4>1 DEF Credit
    <3>2. CASE /\ c[1] \in Threads /\ phase[c[1]] = "notify"
               /\ c[2] \in 1 .. left[c[1]] /\ c = <<c[1], c[2]>>
      <4>1. c \in Owed(c[1])'
        BY <1>1, <3>2 DEF Owed
      <4>. QED
        BY <3>2, <4>1 DEF Credit
    <3>. QED
      BY <3>1, <3>2, CreditIs
  <2>. QED
    BY <1>3, <1>4, <2>2, <2>3, SpareTakes DEF IInv
<1>6. CASE d \notin unclaimed
  <2>1. Ready \subseteq Ready'
    BY <1>1, <1>6 DEF Ready
  <2>2. Credit \subseteq Credit'
    BY <1>1, <2>1, CreditKeeps DEF IInv
  <2>. QED
    BY <1>3, <1>4, <2>2, SpareGrows DEF IInv
<1>. QED
  BY <1>5, <1>6

LEMMA SpareStore ==
  ASSUME IInv, TypeOK', SpareInv, NEW w \in Workers, Store(w) PROVE SpareInv'
<1> USE ThreadFacts
<1>1. /\ phase[w] = "store" /\ phase'[w] = IF next[w] = NoDir THEN "claim" ELSE "take"
      /\ \A u \in Threads : u # w =>
           /\ at'[u] = at[u]
           /\ \/ phase'[u] = phase[u]
              \/ u = Walker /\ phase[u] = "waiting" /\ phase'[u] = "await"
      /\ UNCHANGED <<unclaimed, next, left>>
  BY DEF IInv, TypeOK, Store
<1>2. \A x : Registers(x)' <=> Registers(x)
  BY <1>1 DEF Registers
<1>3. Registered' \subseteq Registered
  BY <1>1, <1>2 DEF Registered
<1>4. Ready \subseteq Ready'
  BY <1>1 DEF Ready
<1>5. Credit \subseteq Credit'
  BY <1>1, <1>4, CreditKeeps DEF IInv
<1>6. Asleep' => Asleep
  BY <1>1 DEF Asleep
<1>. QED
  BY <1>3, <1>5, <1>6, SpareGrows DEF IInv

(* A worker goes to sleep when the heap is empty: what is left, others hold. *)
LEMMA AllHeld ==
  ASSUME TypeOK, OpenInv, open = {}
  PROVE  Cardinality(Registered) <= Cardinality(Credit)
<1> DEFINE holder(d) == CHOOSE w \in Workers : Holds(w, d)
           f == [d \in Registered |-> <<holder(d), 0>>]
<1>1. \A d \in Registered : holder(d) \in Workers /\ Holds(holder(d), d)
  BY DEF OpenInv
<1>2. ASSUME NEW d \in Registered PROVE <<holder(d), 0>> \in Credit
  <2>1. d \in Dirs /\ d # NoDir
    BY TreeAssumption DEF Registered, TypeOK
  <2>2. holder(d) \in Ready
    BY <1>1, <2>1 DEF Holds, Ready
  <2>. QED
    BY <2>2, CreditIs
<1>3. ASSUME NEW d \in Registered, NEW e \in Registered, <<holder(d), 0>> = <<holder(e), 0>>
      PROVE  d = e
  BY <1>1, <1>3 DEF Holds
<1>4. f \in Injection(Registered, Credit)
  <2>. HIDE DEF holder
  <2>. QED
    BY <1>2, <1>3 DEF Injection, IsInjective
<1>. HIDE DEF f
<1>. QED
  BY <1>4, SpareFinite, FS_Injection

LEMMA SpareClaim ==
  ASSUME IInv, OrderInv, ReachInv, OpenInv, OpenInv', TypeOK', SpareInv,
         NEW w \in Workers, Claim(w)
  PROVE  SpareInv'
<1> USE ThreadFacts
<1>1. /\ phase[w] = "claim" /\ \A u \in Threads : u # w => phase'[u] = phase[u] /\ at'[u] = at[u]
      /\ UNCHANGED <<unclaimed, next, left>>
  BY DEF IInv, TypeOK, Claim, slots
<1>2. CASE done
  <2>1. unclaimed' = {}
    BY <1>1, <1>2, NothingLeft
  <2>2. Registered' = {}
    BY <2>1 DEF Registered
  <2>3. Cardinality(Registered') = 0
    BY <2>2, FS_EmptySet
  <2>4. (TypeOK => IsFiniteSet(Credit) /\ IsFiniteSet(Registered))'
    BY SpareFinite, PTL
  <2>5. Cardinality(Credit') \in Nat
    BY <2>4, FS_CardinalityType
  <2>. QED
    BY <2>3, <2>5 DEF SpareInv
<1>3. CASE phase'[w] = "take"
  <2>1. \A x : Registers(x)' <=> Registers(x)
    BY <1>1, <1>3 DEF Registers
  <2>2. Registered' \subseteq Registered
    BY <1>1, <2>1 DEF Registered
  <2>3. Ready \subseteq Ready'
    BY <1>1, <1>3 DEF Ready
  <2>4. Credit \subseteq Credit'
    BY <1>1, <2>3, CreditKeeps DEF IInv
  <2>5. Asleep' => Asleep
    BY <1>1, <1>3 DEF Asleep
  <2>. QED
    BY <2>2, <2>4, <2>5, SpareGrows DEF IInv
<1>4. CASE open' = {}
  <2>1. (TypeOK /\ OpenInv /\ open = {} => Cardinality(Registered) <= Cardinality(Credit))'
    BY AllHeld, PTL
  <2>. QED
    BY <1>4, <2>1 DEF SpareInv
<1>. QED
  BY <1>2, <1>3, <1>4 DEF IInv, TypeOK, Claim

LEMMA SpareStep ==
  /\ IInv /\ OrderInv /\ ReachInv /\ OpenInv /\ SpareInv
  /\ IInv' /\ OpenInv' /\ [Next]_vars
  => SpareInv'
<1> SUFFICES ASSUME IInv, OrderInv, ReachInv, OpenInv, SpareInv, IInv', OpenInv', [Next]_vars
             PROVE  SpareInv'
  OBVIOUS
<1> USE ThreadFacts
<1>0. TypeOK'
  BY DEF IInv
<1>1. ASSUME NEW t \in Threads, ExploreStep(t) \/ HireStep(t) \/ WakeAlone(t) PROVE SpareInv'
  BY <1>0, <1>1, SpareExplore, SpareRegister, SpareNotify, SpareStill DEF ExploreStep
<1>2. ASSUME WalkerStep PROVE SpareInv'
  <2>1. NotifyAll => ~Asleep'
    BY DEF NotifyAll, Asleep
  <2>2. NotifyAll => SpareInv'
    BY <2>1 DEF SpareInv, Asleep
  <2>. QED
    BY <1>0, <1>1, <1>2, <2>2, SpareStill, SpareObtain DEF WalkerStep
<1>3. ASSUME NEW w \in Workers, WorkerStep(w) PROVE SpareInv'
  BY <1>0, <1>1, <1>3, SpareClaim, SpareTake, SpareStore DEF WorkerStep
<1>4. ASSUME UNCHANGED vars PROVE SpareInv'
  BY <1>4 DEF vars, SpareInv, Registered, Registers, Credit, Ready, Owed
<1>. QED
  BY <1>1, <1>2, <1>3, <1>4 DEF Next, Over

LEMMA SpareInit == Init => SpareInv
  BY ThreadFacts DEF Init, SpareInv

LEMMA InvSleepsOverOne == IInv /\ SpareInv => SleepOverOne
<1> SUFFICES ASSUME IInv, SpareInv, \E w \in Workers : phase[w] = "asleep",
                    \A t \in Threads : phase[t] \notin
                      {"register", "notify", "claim", "take", "store", "hire"}
             PROVE  Cardinality(open \cap unclaimed) <= 1
  BY DEF SleepOverOne
<1> USE ThreadFacts
<1>1. Registered = unclaimed
  BY DEF Registered, Registers
<1>2. Ready \subseteq {Walker}
  BY DEF Ready
<1>3. Credit \in SUBSET {<<Walker, 0>>}
  BY <1>2, CreditIs
<1>4. IsFiniteSet({<<Walker, 0>>}) /\ Cardinality({<<Walker, 0>>}) = 1
  BY FS_Singleton
<1>5. Cardinality(Credit) <= 1 /\ Cardinality(Credit) \in Nat
  <2>1. IsFiniteSet(Credit)
    BY SpareFinite DEF IInv
  <2>. QED
    BY <1>3, <1>4, <2>1, FS_Subset, FS_CardinalityType
<1>6. open \cap unclaimed \in SUBSET Registered /\ IsFiniteSet(Registered)
  BY <1>1, SpareFinite DEF IInv
<1>7. /\ Cardinality(open \cap unclaimed) <= Cardinality(Registered)
      /\ Cardinality(Registered) \in Nat /\ Cardinality(open \cap unclaimed) \in Nat
  BY <1>6, FS_Subset, FS_CardinalityType
<1>8. Cardinality(Registered) <= Cardinality(Credit)
  BY DEF SpareInv
<1>. QED
  BY <1>5, <1>7, <1>8

(* However the threads race, no signal is spared that was needed: once those
   owed are given, workers sleep over at most one directory (register). *)
THEOREM SleepsOverOne == Spec => []SleepOverOne
<1>1. Init => IInv /\ OrderInv /\ ReachInv /\ OpenInv /\ SpareInv
  BY InvInit, OrderInit, ReachInit, OpenInit, SpareInit
<1>2. /\ IInv /\ OrderInv /\ ReachInv /\ OpenInv /\ SpareInv /\ [Next]_vars
      => IInv' /\ OrderInv' /\ ReachInv' /\ OpenInv' /\ SpareInv'
  BY InvStep, OrderStep, ReachStep, OpenStep, SpareStep
<1>. QED
  BY <1>1, <1>2, InvSleepsOverOne, PTL DEF Spec

=============================================================================
