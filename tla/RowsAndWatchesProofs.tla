------------------------ MODULE RowsAndWatchesProofs ------------------------
(***************************************************************************)
(* Two components that share no state.                                     *)
(*                                                                         *)
(* WatchTree, proved for every tree, any queue and any number of changes.  *)
(*                                                                         *)
(* RowStore, proved for any files, columns, keys and outputs, and however  *)
(* many rowids there are.                                                  *)
(***************************************************************************)
EXTENDS WatchTree, RowStore, FiniteSetTheorems, SequenceTheorems, WellFoundedInduction, TLAPS

-----------------------------------------------------------------------------
(* The tree.                                                               *)

LEMMA AboveType ==
  \A d \in Dirs : Above[d] \in SUBSET Dirs /\ d \in Above[d] /\ Root \in Above[d]
  BY TreeAssumption DEF Above

(* Above[d] is the least set of its kind. *)
LEMMA AboveLeast ==
  ASSUME NEW d \in Dirs, NEW s \in SUBSET Dirs, d \in s, HoldsParents(s)
  PROVE  Above[d] \subseteq s
  BY DEF Above

LEMMA AboveHolds == ASSUME NEW d \in Dirs PROVE HoldsParents(Above[d])
<1> SUFFICES ASSUME NEW e \in Above[d], e # Root PROVE Parent[e] \in Above[d]
  BY DEF HoldsParents
<1>1. e \in Dirs /\ Parent[e] \in Dirs
  BY AboveType, TreeAssumption
<1>2. ASSUME NEW s \in SUBSET Dirs, d \in s, HoldsParents(s)
      PROVE  Parent[e] \in s
  BY <1>2, AboveLeast DEF HoldsParents
<1>. QED
  BY <1>1, <1>2 DEF Above

LEMMA AboveTransitive ==
  ASSUME NEW d \in Dirs, NEW e \in Above[d] PROVE Above[e] \subseteq Above[d]
  BY AboveType, AboveHolds, AboveLeast

LEMMA AboveRoot == Above[Root] = {Root}
<1>1. HoldsParents({Root}) /\ {Root} \in SUBSET Dirs
  BY TreeAssumption DEF HoldsParents
<1>. QED
  BY <1>1, AboveLeast, AboveType, TreeAssumption

LEMMA AboveStep ==
  ASSUME NEW d \in Dirs \ {Root}
  PROVE  Parent[d] \in Above[d] /\ Above[d] = {d} \cup Above[Parent[d]]
<1> DEFINE s == {d} \cup Above[Parent[d]]
<1>1. Parent[d] \in Dirs /\ Parent[d] \in Above[d]
  BY TreeAssumption, AboveType, AboveHolds DEF HoldsParents
<1>2. Above[Parent[d]] \subseteq Above[d]
  BY <1>1, AboveTransitive
<1>3. s \in SUBSET Dirs /\ HoldsParents(s)
  BY <1>1, AboveType, AboveHolds DEF HoldsParents
<1>4. Above[d] \subseteq s
  BY <1>3, AboveLeast
<1>. QED
  BY <1>1, <1>2, <1>4, AboveType

(* The tree has no cycle: each directory has the root above it. *)
LEMMA AboveAcyclic ==
  ASSUME NEW d \in Dirs \ {Root} PROVE d \notin Above[Parent[d]]
<1> SUFFICES ASSUME d \in Above[Parent[d]] PROVE FALSE
  OBVIOUS
<1> DEFINE s == {e \in Dirs : d \in Above[e]}
<1>1. ASSUME NEW e \in s \ {Root} PROVE Parent[e] \in s
  <2>1. Parent[e] \in Dirs /\ Above[e] = {e} \cup Above[Parent[e]]
    BY TreeAssumption, AboveStep
  <2>. QED
    BY <2>1
<1>2. Above[d] \subseteq s
  <2>1. s \in SUBSET Dirs /\ d \in s /\ HoldsParents(s)
    BY <1>1, AboveType DEF HoldsParents
  <2>. HIDE DEF s
  <2>. QED
    BY <2>1, AboveLeast
<1>3. d \in Above[Root]
  BY <1>2, AboveType
<1>. QED
  BY <1>3, AboveRoot

(* The next directory on the way down from d to e. *)
LEMMA AboveNext ==
  ASSUME NEW e \in Dirs, NEW d \in Above[e], d # e
  PROVE  \E x \in Above[e] \ {Root} : Parent[x] = d
<1> SUFFICES ASSUME \A x \in Above[e] \ {Root} : Parent[x] # d PROVE FALSE
  OBVIOUS
<1> DEFINE s == Above[e] \ {d}
<1>1. s \in SUBSET Dirs /\ e \in s
  BY AboveType
<1>2. HoldsParents(s)
  BY AboveHolds DEF HoldsParents
<1>. QED
  BY <1>1, <1>2, AboveLeast

LEMMA AboveExists ==
  ASSUME TypeOK, TreeInv, NEW d \in exists PROVE Above[d] \subseteq exists
  BY AboveLeast DEF TypeOK, TreeInv, Closed

(* An event that finds a directory finds those below it. *)
LEMMA FindsBelow ==
  ASSUME NEW event, NEW e \in Dirs, NEW d \in Above[e], Finds(event, d)
  PROVE  Finds(event, e)
  BY AboveTransitive DEF Finds

LEMMA ParentType ==
  ASSUME TypeOK, TreeInv, NEW d \in exists \ {Root} PROVE Parent[d] \in exists
  BY DEF TypeOK, TreeInv, Closed, HoldsParents

-----------------------------------------------------------------------------
(* The queues.                                                             *)

(* What a queue of reports keeps when one is added. *)
LEMMA Reported ==
  ASSUME TypeOK, QueueInv, NEW d, NEW event \in Events, Report(d, event)
  PROVE  /\ raised' \in Seq(Events)
         /\ QueueInv'
         /\ Len(raised) \in Nat /\ Len(raised') \in Nat
         /\ Len(raised) <= Len(raised') /\ Len(raised') <= Len(raised) + 1
         /\ \A i \in 1 .. Len(raised) : raised'[i] = raised[i]
         /\ Len(raised') # Len(raised) =>
              raised'[Len(raised')] = Rescan \/ raised'[Len(raised')] = event
         /\ d \in watched =>
              /\ Len(raised') \in 1 .. Len(raised')
              /\ raised'[Len(raised')] = Rescan \/ raised'[Len(raised')] = event
<1>1. Rescan \in Events /\ QueueLimit \in Nat \ {0} /\ raised \in Seq(Events)
  BY TreeAssumption DEF Events, TypeOK
<1>2. CASE d \notin watched \/ Len(raised) > QueueLimit
  BY <1>1, <1>2 DEF Report, QueueInv
<1>3. CASE d \in watched /\ ~ (Len(raised) > QueueLimit)
  <2>1. raised' = Append(raised, IF Len(raised) = QueueLimit THEN Rescan ELSE event)
    BY <1>3 DEF Report
  <2>. QED
    BY <1>1, <1>3, <2>1 DEF QueueInv
<1>. QED
  BY <1>2, <1>3

LEMMA Stays ==
  ASSUME TypeOK, QueueInv, NEW d, NEW event \in Events, Report(d, event),
         NEW e, RaisedFinds(e)
  PROVE  RaisedFinds(e)'
  BY Reported DEF RaisedFinds

LEMMA Taken ==
  ASSUME NEW s \in Seq(Events), s # <<>>
  PROVE  /\ Head(s) \in Events /\ Tail(s) \in Seq(Events)
         /\ Head(s) = s[1]
         /\ Len(s) \in Nat \ {0} /\ Len(Tail(s)) = Len(s) - 1
         /\ \A i \in 1 .. Len(Tail(s)) : Tail(s)[i] = s[i + 1]
  OBVIOUS

LEMMA Passed ==
  ASSUME NEW s \in Seq(Events), NEW event \in Events
  PROVE  /\ Append(s, event) \in Seq(Events)
         /\ Len(s) \in Nat /\ Len(Append(s, event)) = Len(s) + 1
         /\ Append(s, event)[Len(s) + 1] = event
         /\ \A i \in 1 .. Len(s) : Append(s, event)[i] = s[i]
  OBVIOUS

(* A step that takes no report and changes no event at hand loses no find. *)
LEMMA EventsType ==
  /\ \A d \in Dirs : /\ Created(d) \in Events /\ Deleted(d) \in Events
                    /\ Wrote(d) \in Events /\ Created(d) \in Jobs
  /\ Rescan \in Events /\ Rescan \in Jobs
  /\ \A e \in Events : e.dir \in Dirs
  /\ \A e \in Jobs : e.dir \in Dirs
  BY TreeAssumption DEF Events, Jobs, Created, Deleted, Wrote, Rescan, Start, NoJob

-----------------------------------------------------------------------------
(* The tree changes.                                                       *)

LEMMA InitIInv == Init => IInv
<1> SUFFICES ASSUME Init PROVE IInv
  OBVIOUS
<1> USE DEF Init, IInv
<1>1. Root \in Dirs /\ QueueLimit \in Nat \ {0} /\ MaxChanges \in Nat
  BY TreeAssumption
<1>2. TypeOK
  BY <1>1 DEF TypeOK, Jobs, Closed
<1>3. TreeInv /\ QueueInv /\ PhaseInv
  BY <1>1 DEF TreeInv, QueueInv, PhaseInv, Start, NoJob
<1>4. WayInv /\ KnownInv
  BY DEF WayInv, KnownInv, Start
<1>5. CoveredInv
  BY <1>2, AboveType DEF CoveredInv, TypeOK, Finds, Start
<1>6. LateInv /\ OwedInv
  BY DEF LateInv, OwedInv
<1>. QED
  BY <1>2, <1>3, <1>4, <1>5, <1>6

LEMMA WriteIInv ==
  ASSUME IInv, NEW d \in Dirs, Write(d) PROVE IInv'
<1> USE DEF IInv
<1>1. /\ d \in exists /\ Report(d, Wrote(d)) /\ Wrote(d) \in Events
      /\ UNCHANGED <<exists, watched, unheard, sent, job, walk, reading, rows>>
      /\ changes' = changes + 1 /\ changes < MaxChanges
      /\ owed' = IF Started THEN owed \cup {d} ELSE owed
  BY EventsType DEF Write, Changed
<1> USE <1>1 DEF walk
<1>2. \A e : RaisedFinds(e) => RaisedFinds(e)'
  BY Stays
<1>3. TypeOK'
  BY Reported, TreeAssumption DEF TypeOK
<1>4. QueueInv'
  BY Reported
<1>5. TreeInv' /\ WayInv'
  BY DEF TreeInv, WayInv, Closed, HoldsParents
<1>6. PhaseInv'
  BY DEF PhaseInv, Started
<1>7. CoveredInv' /\ KnownInv'
  BY <1>2 DEF CoveredInv, KnownInv
<1>8. LateInv'
  <2> SUFFICES ASSUME NEW e \in exists \ unheard
               PROVE  /\ \A i \in 1 .. Len(raised') :
                           raised'[i].kind = "deleted" /\ raised'[i].dir \in Above[e]
                             => \E j \in i .. Len(raised') : Finds(raised'[j], e)
                      /\ \A i \in 1 .. Len(sent) :
                           sent[i].kind = "deleted" /\ sent[i].dir \in Above[e]
                             => \/ \E j \in i .. Len(sent) : Finds(sent[j], e)
                                \/ Finds(job, e) \/ RaisedFinds(e)'
    BY DEF LateInv
  <2>1. Wrote(d).kind # "deleted" /\ Rescan.kind # "deleted"
    BY DEF Wrote, Rescan
  <2>2. ASSUME NEW i \in 1 .. Len(raised'), raised'[i].kind = "deleted",
               raised'[i].dir \in Above[e]
        PROVE  \E j \in i .. Len(raised') : Finds(raised'[j], e)
    <3>1. i \in 1 .. Len(raised) /\ raised[i] = raised'[i]
      BY <2>1, <2>2, Reported
    <3>2. PICK j \in i .. Len(raised) : Finds(raised[j], e)
      BY <2>2, <3>1 DEF LateInv
    <3>. QED
      BY <3>1, <3>2, Reported
  <2>. QED
    BY <1>2, <2>2 DEF LateInv
<1>9. OwedInv'
  <2> SUFFICES ASSUME NEW e \in owed'
               PROVE  \/ \E i \in 1 .. Len(raised') :
                           Finds(raised'[i], e) \/ raised'[i] = Wrote(e)
                      \/ \E i \in 1 .. Len(sent) : Finds(sent[i], e) \/ sent[i] = Wrote(e)
                      \/ Finds(job, e)
                      \/ reading \cap Above[e] # {}
    BY DEF OwedInv
  <2>1. CASE e \in owed
    BY <2>1, Reported DEF OwedInv
  <2>2. CASE e = d /\ d \in watched
    BY <2>2, Reported DEF Finds, Rescan
  <2>3. CASE e = d /\ d \notin watched
    <3>1. RaisedFinds(d)' \/ Finds(job, d)
      BY <1>2, <2>3 DEF CoveredInv
    <3>. QED
      BY <2>3, <3>1 DEF RaisedFinds
  <2>. QED
    BY <2>1, <2>2, <2>3
<1>. QED
  BY <1>3, <1>4, <1>5, <1>6, <1>7, <1>8, <1>9

(* If what watch_tree holds to be watched lies below a directory that came   *)
(* back, so does the parent of that directory, or the walk is not above it.  *)
LEMMA KnownAbove ==
  ASSUME IInv, job # NoJob, NEW e \in known \ pending, NEW d \in Above[e], d # Root
  PROVE  Parent[d] \in known \ pending \/ job.dir \notin Above[Parent[d]]
<1> USE DEF IInv
<1> DEFINE s == {x \in Dirs : x \in known \ pending \/ job.dir \notin Above[x]}
<1>1. s \in SUBSET Dirs /\ e \in s /\ e \in Dirs /\ job.dir \in Dirs
  BY EventsType DEF TypeOK
<1>2. HoldsParents(s)
  <2> SUFFICES ASSUME NEW x \in s \ {Root} PROVE Parent[x] \in s
    BY DEF HoldsParents
  <2>1. Parent[x] \in Dirs /\ Above[x] = {x} \cup Above[Parent[x]]
    BY AboveStep, TreeAssumption
  <2>2. CASE x = job.dir
    BY <2>1, <2>2, AboveAcyclic
  <2>3. CASE x # job.dir /\ x \in known \ pending
    BY <2>1, <2>3 DEF WayInv
  <2>4. CASE job.dir \notin Above[x]
    BY <2>1, <2>4
  <2>. QED
    BY <2>2, <2>3, <2>4
<1>3. Above[e] \subseteq s
  <2> HIDE DEF s
  <2>. QED
    BY <1>1, <1>2, AboveLeast
<1>4. Parent[d] \in s
  BY <1>1, <1>2, <1>3, AboveType DEF HoldsParents
<1>. QED
  BY <1>4

LEMMA ArriveIInv ==
  ASSUME IInv, NEW d \in Dirs \ {Root}, NEW s \in SUBSET (Below(d) \ {d}),
         \A e \in s : Parent[e] \in s \cup {d}, Arrive(d, s \cup {d})
  PROVE  IInv'
<1> USE DEF IInv
<1> DEFINE held == s \cup {d}
           p == Parent[d]
<1>1. /\ d \notin exists /\ p \in exists
      /\ Report(p, Created(d)) /\ Created(d) \in Events
      /\ exists' = exists \cup held
      /\ UNCHANGED <<watched, sent, job, walk, reading, rows>>
      /\ changes' = changes + 1 /\ changes < MaxChanges
      /\ owed' = IF Started THEN owed \cup held ELSE owed
      /\ unheard' = IF p \in watched THEN unheard ELSE unheard \cup held
  BY EventsType DEF Arrive, Changed
<1>2. held \in SUBSET Dirs /\ p \in Dirs
  BY <1>1, TreeAssumption DEF Below, TypeOK
<1>3. \A e \in held : d \in Above[e] /\ p \in Above[e] /\ e # Root
  <2> SUFFICES ASSUME NEW e \in held
               PROVE  d \in Above[e] /\ p \in Above[e] /\ e # Root
    OBVIOUS
  <2>1. d \in Above[e] /\ e \in Dirs
    BY AboveType DEF Below
  <2>. QED
    BY <2>1, AboveHolds, AboveRoot DEF HoldsParents
<1> HIDE DEF p
<1> USE <1>1 DEF walk
<1>4. \A e : RaisedFinds(e) => RaisedFinds(e)'
  BY Stays
<1>5. p \in watched => \A e \in held : RaisedFinds(e)'
  BY <1>3, Reported DEF RaisedFinds, Finds, Created, Rescan
<1>6. p \notin watched => \/ \A e \in held : RaisedFinds(e)'
                         \/ /\ Finds(job, p)
                            /\ pending # {} \/ ~ (found \subseteq known) \/ walking \cap Above[p] # {}
  <2>1. p \notin watched /\ RaisedFinds(p) => \A e \in held : RaisedFinds(e)
    BY <1>2, <1>3, FindsBelow DEF RaisedFinds
  <2>. QED
    BY <1>4, <2>1 DEF CoveredInv
<1>7. \A e \in held : Finds(job, p) => Finds(job, e)
  BY <1>2, <1>3, FindsBelow
<1>8. TypeOK'
  BY <1>2, Reported, TreeAssumption DEF TypeOK
<1>9. QueueInv'
  BY Reported
<1>10. TreeInv' /\ WayInv'
  <2>1. HoldsParents(exists')
    BY <1>1, <1>2 DEF TreeInv, Closed, HoldsParents, p
  <2>. QED
    BY <2>1 DEF TreeInv, WayInv, Closed
<1>11. PhaseInv'
  BY DEF PhaseInv, Started
<1>12. CoveredInv'
  <2> SUFFICES ASSUME NEW e \in exists' \ watched, ~ RaisedFinds(e)'
               PROVE  /\ Finds(job, e)
                      /\ pending # {} \/ ~ (found \subseteq known) \/ walking \cap Above[e] # {}
    BY DEF CoveredInv
  <2>1. CASE e \in exists
    BY <1>4, <2>1 DEF CoveredInv
  <2>2. CASE e \in held
    BY <1>2, <1>3, <1>5, <1>6, <1>7, <2>2, AboveTransitive
  <2>. QED
    BY <2>1, <2>2
<1>13. KnownInv'
  <2> SUFFICES ASSUME job # NoJob, NEW e \in (known \cap exists') \ (pending \cup watched)
               PROVE  RaisedFinds(e)'
    BY DEF KnownInv
  <2>1. CASE e \in exists
    BY <1>4, <2>1 DEF KnownInv
  <2>2. CASE e \in held
    <3> SUFFICES ASSUME p \notin watched PROVE RaisedFinds(p)
      BY <1>2, <1>3, <1>4, <1>5, <2>2, FindsBelow DEF RaisedFinds
    <3>1. p \in known \ pending \/ job.dir \notin Above[p]
      BY <1>3, <2>2, KnownAbove DEF p
    <3>2. Finds(job, p) => job.dir \in Above[p]
      BY <1>2, AboveType DEF Finds, TypeOK, Jobs, Start, NoJob, Rescan
    <3>. QED
      BY <3>1, <3>2 DEF KnownInv, CoveredInv
  <2>. QED
    BY <2>1, <2>2
<1>14. LateInv'
  <2> SUFFICES ASSUME NEW e \in exists' \ unheard'
               PROVE  /\ \A i \in 1 .. Len(raised') :
                           raised'[i].kind = "deleted" /\ raised'[i].dir \in Above[e]
                             => \E j \in i .. Len(raised') : Finds(raised'[j], e)
                      /\ \A i \in 1 .. Len(sent) :
                           sent[i].kind = "deleted" /\ sent[i].dir \in Above[e]
                             => \/ \E j \in i .. Len(sent) : Finds(sent[j], e)
                                \/ Finds(job, e) \/ RaisedFinds(e)'
    BY DEF LateInv
  <2>1. Created(d).kind # "deleted" /\ Rescan.kind # "deleted"
    BY DEF Created, Rescan
  <2>2. CASE e \in exists
    <3>1. e \notin unheard
      BY DEF TypeOK
    <3>2. ASSUME NEW i \in 1 .. Len(raised'), raised'[i].kind = "deleted",
                 raised'[i].dir \in Above[e]
          PROVE  \E j \in i .. Len(raised') : Finds(raised'[j], e)
      <4>1. i \in 1 .. Len(raised) /\ raised[i] = raised'[i]
        BY <2>1, <3>2, Reported
      <4>2. PICK j \in i .. Len(raised) : Finds(raised[j], e)
        BY <2>2, <3>1, <3>2, <4>1 DEF LateInv
      <4>. QED
        BY <4>1, <4>2, Reported
    <3>. QED
      BY <1>4, <2>2, <3>1, <3>2 DEF LateInv
  <2>3. CASE e \in held
    <3>1. p \in watched
      BY <2>3
    <3>2. Finds(raised'[Len(raised')], e) /\ Len(raised') \in 1 .. Len(raised')
      BY <1>3, <2>3, <3>1, Reported DEF Finds, Created, Rescan
    <3>. QED
      BY <3>2 DEF RaisedFinds
  <2>. QED
    BY <2>2, <2>3
<1>15. OwedInv'
  <2> SUFFICES ASSUME NEW e \in owed'
               PROVE  \/ \E i \in 1 .. Len(raised') :
                           Finds(raised'[i], e) \/ raised'[i] = Wrote(e)
                      \/ \E i \in 1 .. Len(sent) : Finds(sent[i], e) \/ sent[i] = Wrote(e)
                      \/ Finds(job, e)
                      \/ reading \cap Above[e] # {}
    BY DEF OwedInv
  <2>1. CASE e \in owed
    BY <2>1, Reported DEF OwedInv
  <2>2. CASE e \in held
    BY <1>5, <1>6, <1>7, <2>2 DEF RaisedFinds
  <2>. QED
    BY <2>1, <2>2
<1>. QED
  BY <1>8, <1>9, <1>10, <1>11, <1>12, <1>13, <1>14, <1>15

LEMMA DepartIInv ==
  ASSUME IInv, NEW d \in Dirs \ {Root}, Depart(d) PROVE IInv'
<1> USE DEF IInv
<1>1. /\ d \in exists /\ Report(Parent[d], Deleted(d)) /\ Deleted(d) \in Events
      /\ exists' = exists \ Below(d) /\ watched' = watched \ Below(d)
      /\ UNCHANGED <<sent, job, walk, reading, rows>>
      /\ changes' = changes + 1 /\ changes < MaxChanges
      /\ owed' = owed \ Below(d) /\ unheard' = unheard \ Below(d)
  BY EventsType DEF Depart, Changed
<1> USE <1>1 DEF walk
<1>2. \A e \in exists' : e \in exists /\ e \in Dirs /\ d \notin Above[e]
  BY DEF Below, TypeOK
<1>3. \A e : RaisedFinds(e) => RaisedFinds(e)'
  BY Stays
<1>4. TypeOK'
  BY Reported, TreeAssumption DEF TypeOK
<1>5. QueueInv'
  BY Reported
<1>6. TreeInv' /\ WayInv'
  <2>1. Root \notin Below(d)
    BY AboveRoot DEF Below
  <2>2. HoldsParents(exists')
    <3> SUFFICES ASSUME NEW e \in exists' \ {Root} PROVE Parent[e] \in exists'
      BY DEF HoldsParents
    <3>1. Parent[e] \in exists /\ Above[Parent[e]] \subseteq Above[e]
      BY <1>2, ParentType, AboveStep, TreeAssumption
    <3>. QED
      BY <1>2, <3>1 DEF Below
  <2>. QED
    BY <2>1, <2>2 DEF TreeInv, WayInv, Closed
<1>7. PhaseInv'
  BY DEF PhaseInv
<1>8. CoveredInv' /\ KnownInv'
  BY <1>2, <1>3 DEF CoveredInv, KnownInv
<1>9. LateInv'
  <2> SUFFICES ASSUME NEW e \in exists' \ unheard'
               PROVE  /\ \A i \in 1 .. Len(raised') :
                           raised'[i].kind = "deleted" /\ raised'[i].dir \in Above[e]
                             => \E j \in i .. Len(raised') : Finds(raised'[j], e)
                      /\ \A i \in 1 .. Len(sent) :
                           sent[i].kind = "deleted" /\ sent[i].dir \in Above[e]
                             => \/ \E j \in i .. Len(sent) : Finds(sent[j], e)
                                \/ Finds(job, e) \/ RaisedFinds(e)'
    BY DEF LateInv
  <2>1. e \in exists \ unheard
    BY <1>2
  <2>2. ASSUME NEW i \in 1 .. Len(raised'), raised'[i].kind = "deleted",
               raised'[i].dir \in Above[e]
        PROVE  \E j \in i .. Len(raised') : Finds(raised'[j], e)
    <3>1. Deleted(d).dir \notin Above[e] /\ Rescan.kind # "deleted"
      BY <1>2 DEF Deleted, Rescan
    <3>2. i \in 1 .. Len(raised) /\ raised[i] = raised'[i]
      BY <2>2, <3>1, Reported
    <3>3. PICK j \in i .. Len(raised) : Finds(raised[j], e)
      BY <2>1, <2>2, <3>2 DEF LateInv
    <3>. QED
      BY <3>2, <3>3, Reported
  <2>. QED
    BY <1>3, <2>1, <2>2 DEF LateInv
<1>10. OwedInv'
  BY Reported DEF OwedInv
<1>. QED
  BY <1>4, <1>5, <1>6, <1>7, <1>8, <1>9, <1>10

-----------------------------------------------------------------------------
(* The watcher.                                                            *)

LEMMA WalkDirIInv ==
  ASSUME IInv, NEW d \in Dirs, WalkDir(d) PROVE IInv'
<1> USE DEF IInv
<1>1. /\ d \in walking
      /\ walking' = (walking \ {d}) \cup Children(d) /\ found' = found \cup {d}
      /\ UNCHANGED <<exists, changes, unheard, watched, raised, sent, job, known, pending>>
      /\ UNCHANGED <<reading, rows, owed>>
  BY DEF WalkDir, tree, index
<1> USE <1>1
<1>2. \A e : RaisedFinds(e)' <=> RaisedFinds(e)
  BY DEF RaisedFinds
<1>3. job # NoJob /\ pending = {}
  BY DEF PhaseInv
<1>4. TypeOK'
  BY DEF TypeOK, Children
<1>5. TreeInv' /\ QueueInv' /\ PhaseInv'
  BY <1>3 DEF TreeInv, QueueInv, PhaseInv
<1>6. WayInv'
  BY <1>3 DEF WayInv, Children
<1>7. CoveredInv'
  <2> SUFFICES ASSUME NEW e \in exists \ watched, ~ RaisedFinds(e)
               PROVE  Finds(job, e) /\ (~ (found' \subseteq known) \/ walking' \cap Above[e] # {})
    BY <1>2 DEF CoveredInv
  <2>1. Finds(job, e) /\ (~ (found \subseteq known) \/ walking \cap Above[e] # {})
    BY <1>3 DEF CoveredInv
  <2>2. CASE d = e
    BY <1>3, <2>1, <2>2 DEF KnownInv
  <2>3. CASE d \in Above[e] /\ d # e
    <3>1. PICK x \in Above[e] \ {Root} : Parent[x] = d
      BY <2>3, AboveNext DEF TypeOK
    <3>2. x \in Children(d)
      BY <3>1, AboveExists DEF Children
    <3>. QED
      BY <2>1, <3>1, <3>2
  <2>4. CASE d \notin Above[e]
    BY <2>1, <2>4
  <2>. QED
    BY <2>2, <2>3, <2>4
<1>8. KnownInv' /\ LateInv' /\ OwedInv'
  BY <1>2 DEF KnownInv, LateInv, OwedInv
<1>. QED
  BY <1>4, <1>5, <1>6, <1>7, <1>8

LEMMA WatchDirIInv ==
  ASSUME IInv, NEW d \in Dirs, WatchDir(d) PROVE IInv'
<1> USE DEF IInv
<1>1. /\ d \in pending /\ (d # Root => Parent[d] \notin pending)
      /\ watched' = IF d \in exists THEN watched \cup {d} ELSE watched
      /\ pending' = pending \ {d}
      /\ walking' = IF pending = {d} THEN {job.dir} ELSE {}
      /\ UNCHANGED <<exists, changes, unheard, raised, sent, job, known, found>>
      /\ UNCHANGED <<reading, rows, owed>>
  BY DEF WatchDir, tree, index
<1> USE <1>1
<1>2. \A e : RaisedFinds(e)' <=> RaisedFinds(e)
  BY DEF RaisedFinds
<1>3. job # NoJob /\ found = {} /\ job.dir \in Dirs
  BY EventsType DEF PhaseInv, TypeOK
<1>4. TypeOK'
  BY <1>3 DEF TypeOK
<1>5. TreeInv' /\ QueueInv' /\ PhaseInv'
  BY <1>3 DEF TreeInv, QueueInv, PhaseInv
<1>6. WayInv'
  BY <1>3 DEF WayInv, TypeOK
<1>7. CoveredInv'
  <2> SUFFICES ASSUME NEW e \in exists \ watched, ~ RaisedFinds(e)
               PROVE  Finds(job, e) /\ (pending' # {} \/ walking' \cap Above[e] # {})
    BY <1>2 DEF CoveredInv
  <2>1. Finds(job, e)
    BY DEF CoveredInv
  <2>2. job.dir \in Above[e]
    BY <1>3, <2>1, AboveType DEF Finds, TypeOK, Jobs, Start, NoJob, Rescan
  <2>. QED
    BY <2>1, <2>2
<1>8. KnownInv' /\ LateInv' /\ OwedInv'
  BY <1>2 DEF KnownInv, LateInv, OwedInv
<1>. QED
  BY <1>4, <1>5, <1>6, <1>7, <1>8

LEMMA WalkEndsIInv ==
  ASSUME IInv, WalkEnds PROVE IInv'
<1> USE DEF IInv
<1>1. /\ job # NoJob /\ walking = {} /\ pending = {} /\ found' = {}
      /\ UNCHANGED <<exists, changes, unheard, watched, raised, walking>>
      /\ UNCHANGED <<reading, rows, owed>>
  BY DEF WalkEnds, tree, index
<1> USE <1>1
<1>2. \A e : RaisedFinds(e)' <=> RaisedFinds(e)
  BY DEF RaisedFinds
<1>3. TreeInv' /\ QueueInv'
  BY DEF TreeInv, QueueInv
<1>4. CASE ~ (found \subseteq known)
  <2>1. /\ pending' = found \ known /\ known' = known \cup found
        /\ UNCHANGED <<job, sent>>
    BY <1>4 DEF WalkEnds
  <2>2. TypeOK' /\ PhaseInv'
    BY <2>1 DEF TypeOK, PhaseInv
  <2>3. WayInv'
    BY <2>1 DEF WayInv
  <2>4. CoveredInv'
    BY <1>2, <1>4, <2>1 DEF CoveredInv
  <2>5. KnownInv' /\ LateInv' /\ OwedInv'
    BY <1>2, <2>1 DEF KnownInv, LateInv, OwedInv
  <2>. QED
    BY <1>3, <2>2, <2>3, <2>4, <2>5
<1>5. CASE found \subseteq known
  <2>1. /\ job' = NoJob /\ UNCHANGED <<known, pending>>
        /\ sent' = IF job = Start THEN sent ELSE Append(sent, job)
    BY <1>5 DEF WalkEnds
  <2>2. job \in Events \/ job = Start
    BY DEF TypeOK, Jobs, Events
  <2>3. job = Start => sent = <<>> /\ owed = {}
    BY DEF PhaseInv
  <2>4. /\ sent' \in Seq(Events)
        /\ \A i \in 1 .. Len(sent) : i \in 1 .. Len(sent') /\ sent'[i] = sent[i]
        /\ job # Start => /\ Len(sent) \in Nat /\ Len(sent') = Len(sent) + 1
                          /\ sent'[Len(sent')] = job
    BY <2>1, <2>2, Passed DEF TypeOK
  <2>5. NoJob # Start /\ \A e : ~ Finds(NoJob, e)
    BY DEF NoJob, Start, Finds
  <2>6. TypeOK' /\ PhaseInv'
    BY <2>1, <2>4, <2>5 DEF TypeOK, PhaseInv, Jobs
  <2>7. WayInv' /\ KnownInv'
    BY <2>1 DEF WayInv, KnownInv
  <2>8. CoveredInv'
    BY <1>2, <1>5, <2>1 DEF CoveredInv
  <2>9. LateInv'
    <3> SUFFICES ASSUME NEW e \in exists \ unheard, NEW i \in 1 .. Len(sent'),
                        sent'[i].kind = "deleted", sent'[i].dir \in Above[e]
                 PROVE  (\E j \in i .. Len(sent') : Finds(sent'[j], e)) \/ RaisedFinds(e)
      BY <1>2, <2>1 DEF LateInv
    <3>1. job # Start /\ job.kind # "deleted"
      BY <2>1, <2>3 DEF TypeOK, Jobs, NoJob, Start, Rescan
    <3>2. i \in 1 .. Len(sent) /\ sent[i] = sent'[i]
      BY <2>4, <3>1
    <3>3. (\E j \in i .. Len(sent) : Finds(sent[j], e)) \/ Finds(job, e) \/ RaisedFinds(e)
      BY <3>2 DEF LateInv
    <3>. QED
      BY <2>4, <3>1, <3>2, <3>3
  <2>10. OwedInv'
    BY <2>1, <2>3, <2>4 DEF OwedInv
  <2>. QED
    BY <1>3, <2>6, <2>7, <2>8, <2>9, <2>10
<1>. QED
  BY <1>4, <1>5

LEMMA ForwardIInv ==
  ASSUME IInv, Forward PROVE IInv'
<1> USE DEF IInv
<1> DEFINE event == Head(raised)
<1>1. /\ job = NoJob /\ raised # <<>> /\ raised' = Tail(raised)
      /\ UNCHANGED <<exists, changes, unheard, watched, reading, rows, owed>>
  BY DEF Forward, tree, index
<1>2. /\ event \in Events /\ raised' \in Seq(Events) /\ event = raised[1]
      /\ Len(raised) \in Nat \ {0} /\ Len(raised') = Len(raised) - 1
      /\ \A i \in 1 .. Len(raised') : raised'[i] = raised[i + 1]
  BY <1>1, Taken DEF TypeOK
<1>3. \/ /\ event = Rescan \/ (event.kind = "created" /\ event.dir \in exists)
         /\ job' = event /\ sent' = sent
         /\ known' = {} /\ walking' = {event.dir} /\ found' = {} /\ pending' = {}
      \/ /\ ~ (event = Rescan \/ (event.kind = "created" /\ event.dir \in exists))
         /\ sent' = Append(sent, event) /\ UNCHANGED <<job, walk>>
  BY <1>1 DEF Forward, WatchTree, Rescan
<1> HIDE DEF event
<1> USE <1>1
<1>4. event.dir \in Dirs /\ event # NoJob /\ event # Start /\ NoJob # Start
  BY <1>2, EventsType DEF Events, Rescan, NoJob, Start
<1>5. \A e : RaisedFinds(e) => RaisedFinds(e)' \/ Finds(event, e)
  <2> SUFFICES ASSUME NEW e, NEW i \in 1 .. Len(raised), Finds(raised[i], e), ~ Finds(event, e)
               PROVE  \E j \in 1 .. Len(raised') : Finds(raised'[j], e)
    BY DEF RaisedFinds
  <2>1. i # 1 /\ i - 1 \in 1 .. Len(raised') /\ raised'[i - 1] = raised[i]
    BY <1>2
  <2>. QED
    BY <2>1
<1>6. \A e : ~ Finds(NoJob, e)
  BY DEF Finds, NoJob
<1>7. TreeInv'
  BY DEF TreeInv
<1>8. QueueInv'
  BY <1>2, TreeAssumption DEF QueueInv
<1>9. \A e \in exists \ unheard, i \in 1 .. Len(raised') :
        raised'[i].kind = "deleted" /\ raised'[i].dir \in Above[e]
          => \E j \in i .. Len(raised') : Finds(raised'[j], e)
  <2> SUFFICES ASSUME NEW e \in exists \ unheard, NEW i \in 1 .. Len(raised'),
                      raised'[i].kind = "deleted", raised'[i].dir \in Above[e]
               PROVE  \E j \in i .. Len(raised') : Finds(raised'[j], e)
    OBVIOUS
  <2>1. i + 1 \in 1 .. Len(raised) /\ raised'[i] = raised[i + 1]
    BY <1>2
  <2>2. PICK j \in (i + 1) .. Len(raised) : Finds(raised[j], e)
    BY <2>1 DEF LateInv
  <2>3. j - 1 \in i .. Len(raised') /\ raised'[j - 1] = raised[j]
    BY <1>2, <2>2
  <2>. QED
    BY <2>2, <2>3
<1>10. \A e \in owed :
         \/ \E i \in 1 .. Len(raised') : Finds(raised'[i], e) \/ raised'[i] = Wrote(e)
         \/ Finds(event, e) \/ event = Wrote(e)
         \/ \E i \in 1 .. Len(sent) : Finds(sent[i], e) \/ sent[i] = Wrote(e)
         \/ reading \cap Above[e] # {}
  <2> SUFFICES ASSUME NEW e \in owed, NEW i \in 1 .. Len(raised), i # 1,
                      Finds(raised[i], e) \/ raised[i] = Wrote(e)
               PROVE  \E j \in 1 .. Len(raised') : Finds(raised'[j], e) \/ raised'[j] = Wrote(e)
    BY <1>2, <1>6 DEF OwedInv
  <2>1. i - 1 \in 1 .. Len(raised') /\ raised'[i - 1] = raised[i]
    BY <1>2
  <2>. QED
    BY <2>1
<1>11. CASE /\ event = Rescan \/ (event.kind = "created" /\ event.dir \in exists)
            /\ job' = event /\ sent' = sent
            /\ known' = {} /\ walking' = {event.dir} /\ found' = {} /\ pending' = {}
  <2> USE <1>11
  <2>1. event \in Jobs
    BY <1>2 DEF Events, Jobs
  <2>2. TypeOK' /\ PhaseInv' /\ WayInv' /\ KnownInv'
    BY <1>2, <1>4, <2>1 DEF TypeOK, PhaseInv, WayInv, KnownInv
  <2>3. \A e \in exists : Finds(event, e) => event.dir \in Above[e]
    BY AboveType DEF Finds, Rescan, TypeOK
  <2>4. CoveredInv'
    BY <1>5, <1>6, <2>3 DEF CoveredInv
  <2>5. LateInv'
    BY <1>5, <1>6, <1>9 DEF LateInv
  <2>6. OwedInv'
    BY <1>10, <2>3 DEF OwedInv, Wrote, Rescan
  <2>. QED
    BY <1>7, <1>8, <2>2, <2>4, <2>5, <2>6
<1>12. CASE /\ ~ (event = Rescan \/ (event.kind = "created" /\ event.dir \in exists))
            /\ sent' = Append(sent, event) /\ UNCHANGED <<job, walk>>
  <2> USE <1>12 DEF walk
  <2>1. /\ sent' \in Seq(Events) /\ Len(sent) \in Nat /\ Len(sent') = Len(sent) + 1
        /\ sent'[Len(sent')] = event
        /\ \A i \in 1 .. Len(sent) : sent'[i] = sent[i]
    BY <1>2, Passed DEF TypeOK
  <2>2. \A e \in exists : ~ Finds(event, e)
    BY <1>2, AboveExists DEF Finds, Events, Rescan
  <2>3. TypeOK' /\ PhaseInv' /\ WayInv' /\ KnownInv'
    BY <1>2, <1>4, <2>1 DEF TypeOK, PhaseInv, WayInv, KnownInv
  <2>4. CoveredInv'
    BY <1>5, <1>6, <2>2 DEF CoveredInv, TypeOK
  <2>5. LateInv'
    <3> SUFFICES ASSUME NEW e \in exists \ unheard, NEW i \in 1 .. Len(sent'),
                        sent'[i].kind = "deleted", sent'[i].dir \in Above[e]
                 PROVE  (\E j \in i .. Len(sent') : Finds(sent'[j], e)) \/ RaisedFinds(e)'
      BY <1>9 DEF LateInv
    <3>1. CASE i \in 1 .. Len(sent)
      <4>1. (\E j \in i .. Len(sent) : Finds(sent[j], e)) \/ RaisedFinds(e)
        BY <1>6, <2>1, <3>1 DEF LateInv
      <4>. QED
        BY <1>5, <2>1, <2>2, <3>1, <4>1
    <3>2. CASE i = Len(sent')
      <4>1. raised[1].kind = "deleted" /\ raised[1].dir \in Above[e]
        BY <1>2, <2>1, <3>2
      <4>2. RaisedFinds(e)
        BY <1>2, <4>1 DEF LateInv, RaisedFinds
      <4>. QED
        BY <1>5, <2>2, <4>2
    <3>. QED
      BY <2>1, <3>1, <3>2
  <2>6. OwedInv'
    <3> SUFFICES ASSUME NEW e \in owed
                 PROVE  \/ \E i \in 1 .. Len(raised') : Finds(raised'[i], e) \/ raised'[i] = Wrote(e)
                        \/ \E i \in 1 .. Len(sent') : Finds(sent'[i], e) \/ sent'[i] = Wrote(e)
                        \/ reading \cap Above[e] # {}
      BY DEF OwedInv
    <3>1. Len(sent') \in 1 .. Len(sent') /\ 1 .. Len(sent) \subseteq 1 .. Len(sent')
      BY <2>1
    <3>2. ASSUME Finds(event, e) \/ event = Wrote(e)
          PROVE  \E i \in 1 .. Len(sent') : Finds(sent'[i], e) \/ sent'[i] = Wrote(e)
      BY <2>1, <3>1, <3>2
    <3>3. ASSUME NEW i \in 1 .. Len(sent), Finds(sent[i], e) \/ sent[i] = Wrote(e)
          PROVE  \E j \in 1 .. Len(sent') : Finds(sent'[j], e) \/ sent'[j] = Wrote(e)
      BY <2>1, <3>1, <3>3
    <3>. QED
      BY <1>10, <3>2, <3>3
  <2>. QED
    BY <1>7, <1>8, <2>3, <2>4, <2>5, <2>6
<1>. QED
  BY <1>3, <1>11, <1>12

-----------------------------------------------------------------------------
(* The index.                                                              *)

LEMMA ApplyIInv ==
  ASSUME IInv, Apply PROVE IInv'
<1> USE DEF IInv
<1> DEFINE event == Head(sent)
           d == event.dir
<1>1. /\ reading = {} /\ sent # <<>> /\ sent' = Tail(sent)
      /\ UNCHANGED <<exists, changes, unheard, watched, raised, job, walk>>
  BY DEF Apply, tree
<1>2. /\ event \in Events /\ sent' \in Seq(Events) /\ event = sent[1]
      /\ Len(sent) \in Nat \ {0} /\ Len(sent') = Len(sent) - 1
      /\ \A i \in 1 .. Len(sent') : sent'[i] = sent[i + 1]
  BY <1>1, Taken DEF TypeOK
<1>3. \/ /\ event.kind = "wrote"
         /\ rows' = IF d \in exists THEN rows \cup {d} ELSE rows
         /\ owed' = owed \ {d} /\ reading' = reading
      \/ /\ event.kind = "created"
         /\ reading' = {d} \cap exists /\ UNCHANGED <<rows, owed>>
      \/ /\ event.kind = "deleted"
         /\ rows' = rows \ Below(d)
         /\ owed' = owed \cup ((exists \cap rows \cap Below(d)) \ unheard)
         /\ reading' = reading
      \/ /\ event = Rescan
         /\ rows' = rows \cap exists /\ reading' = {Root} /\ owed' = owed
  BY <1>1, <1>2 DEF Apply, Events, Rescan
<1> HIDE DEF event
<1> USE <1>1 DEF walk
<1>4. d \in Dirs /\ job # Start
  BY <1>2, EventsType DEF PhaseInv
<1>5. \A e : RaisedFinds(e)' <=> RaisedFinds(e)
  BY DEF RaisedFinds
<1>6. TypeOK'
  BY <1>2, <1>3, <1>4, TreeAssumption DEF TypeOK
<1>7. TreeInv' /\ QueueInv' /\ PhaseInv' /\ WayInv'
  BY <1>4 DEF TreeInv, QueueInv, PhaseInv, WayInv
<1>8. CoveredInv' /\ KnownInv'
  BY <1>5 DEF CoveredInv, KnownInv
<1>9. LateInv'
  <2> SUFFICES ASSUME NEW e \in exists \ unheard, NEW i \in 1 .. Len(sent'),
                      sent'[i].kind = "deleted", sent'[i].dir \in Above[e]
               PROVE  \/ \E j \in i .. Len(sent') : Finds(sent'[j], e)
                      \/ Finds(job, e) \/ RaisedFinds(e)
    BY <1>5 DEF LateInv
  <2>1. i + 1 \in 1 .. Len(sent) /\ sent[i + 1] = sent'[i]
    BY <1>2
  <2>2. \/ \E j \in (i + 1) .. Len(sent) : Finds(sent[j], e)
        \/ Finds(job, e) \/ RaisedFinds(e)
    BY <2>1 DEF LateInv
  <2>3. ASSUME NEW j \in (i + 1) .. Len(sent)
        PROVE  j - 1 \in i .. Len(sent') /\ sent'[j - 1] = sent[j]
    BY <1>2
  <2>. QED
    BY <2>2, <2>3
<1>10. OwedInv'
  <2> SUFFICES ASSUME NEW e \in owed'
               PROVE  \/ \E i \in 1 .. Len(raised) : Finds(raised[i], e) \/ raised[i] = Wrote(e)
                      \/ \E i \in 1 .. Len(sent') : Finds(sent'[i], e) \/ sent'[i] = Wrote(e)
                      \/ Finds(job, e)
                      \/ reading' \cap Above[e] # {}
    BY DEF OwedInv
  <2>1. e \in exists /\ Above[e] \subseteq exists /\ Root \in Above[e]
    BY <1>6, AboveExists, AboveType DEF TypeOK
  <2>2. ASSUME NEW i \in 1 .. Len(sent), Finds(sent[i], e) \/ sent[i] = Wrote(e)
        PROVE  \/ Finds(event, e) \/ event = Wrote(e)
               \/ \E j \in 1 .. Len(sent') : Finds(sent'[j], e) \/ sent'[j] = Wrote(e)
    <3>1. i = 1 \/ (i - 1 \in 1 .. Len(sent') /\ sent'[i - 1] = sent[i])
      BY <1>2
    <3>. QED
      BY <1>2, <2>2, <3>1
  <2>3. CASE e \in owed
    <3> SUFFICES ASSUME Finds(event, e) \/ event = Wrote(e)
                 PROVE  reading' \cap Above[e] # {}
      BY <2>2, <2>3 DEF OwedInv
    <3>1. CASE event = Rescan
      BY <1>3, <2>1, <3>1 DEF Rescan
    <3>2. CASE event.kind = "created" /\ d \in Above[e]
      BY <1>3, <2>1, <3>2 DEF Rescan
    <3>3. event # Wrote(e)
      BY <1>3 DEF Wrote, Rescan
    <3>. QED
      BY <1>2, <3>1, <3>2, <3>3 DEF Finds, Events
  <2>4. CASE e \notin owed
    <3>1. event.kind = "deleted" /\ d \in Above[e] /\ e \notin unheard
      BY <1>3, <2>4 DEF Below
    <3>2. \/ \E j \in 1 .. Len(sent) : Finds(sent[j], e)
          \/ Finds(job, e) \/ RaisedFinds(e)
      BY <1>2, <2>1, <3>1 DEF LateInv
    <3>3. ~ Finds(event, e) /\ event # Wrote(e)
      BY <3>1 DEF Finds, Wrote
    <3>. QED
      BY <2>2, <3>2, <3>3 DEF RaisedFinds
  <2>. QED
    BY <2>3, <2>4
<1>. QED
  BY <1>6, <1>7, <1>8, <1>9, <1>10

LEMMA ReadDirIInv ==
  ASSUME IInv, NEW d \in Dirs, ReadDir(d) PROVE IInv'
<1> USE DEF IInv
<1>1. /\ d \in reading /\ reading' = (reading \ {d}) \cup Children(d)
      /\ rows' = IF d \in exists THEN rows \cup {d} ELSE rows
      /\ owed' = owed \ {d}
      /\ UNCHANGED <<exists, changes, unheard, watched, raised, sent, job, walk>>
  BY DEF ReadDir, tree
<1> USE <1>1 DEF walk
<1>2. \A e : RaisedFinds(e)' <=> RaisedFinds(e)
  BY DEF RaisedFinds
<1>3. TypeOK'
  BY DEF TypeOK, Children
<1>4. TreeInv' /\ QueueInv' /\ PhaseInv' /\ WayInv'
  BY DEF TreeInv, QueueInv, PhaseInv, WayInv
<1>5. CoveredInv' /\ KnownInv' /\ LateInv'
  BY <1>2 DEF CoveredInv, KnownInv, LateInv
<1>6. OwedInv'
  <2> SUFFICES ASSUME NEW e \in owed \ {d}, d \in Above[e]
               PROVE  reading' \cap Above[e] # {}
    BY DEF OwedInv
  <2>1. e \in exists /\ Above[e] \subseteq exists
    BY AboveExists DEF TypeOK
  <2>2. PICK x \in Above[e] \ {Root} : Parent[x] = d
    BY <2>1, AboveNext DEF TypeOK
  <2>. QED
    BY <2>1, <2>2 DEF Children
<1>. QED
  BY <1>3, <1>4, <1>5, <1>6

-----------------------------------------------------------------------------

LEMMA NextIInv == IInv /\ [Next]_vars => IInv'
<1> SUFFICES ASSUME IInv, [Next]_vars PROVE IInv'
  OBVIOUS
<1>1. CASE TreeStep
  BY <1>1, WriteIInv, ArriveIInv, DepartIInv DEF TreeStep
<1>2. CASE WatcherStep
  BY <1>2, WalkDirIInv, WatchDirIInv, WalkEndsIInv, ForwardIInv DEF WatcherStep
<1>3. CASE IndexStep
  BY <1>3, ApplyIInv, ReadDirIInv DEF IndexStep
<1>4. CASE UNCHANGED vars
  BY <1>4 DEF vars, tree, walk, index, IInv, TypeOK, TreeInv, QueueInv, PhaseInv, WayInv,
              CoveredInv, KnownInv, LateInv, OwedInv, RaisedFinds
<1>. QED
  BY <1>1, <1>2, <1>3, <1>4 DEF Next, Rest

(* Every state the watcher, the index and the tree reach is as IInv has it.  *)
THEOREM Invariance == Spec => []IInv
  BY InitIInv, NextIInv, PTL DEF Spec

(* Every state is well typed. *)
THEOREM TypeCorrect == Spec => []TypeOK
<1>1. IInv => TypeOK
  BY DEF IInv
<1>. QED
  BY <1>1, Invariance, PTL

(* A directory that has no watch is below one that is about to be walked     *)
(* again, in a tree of any shape that changes any number of times: only a    *)
(* later walk finds it, and there is one (watch_tree).                       *)
THEOREM NoneUnwatchedHolds == Spec => []NoneUnwatched
<1>1. IInv => NoneUnwatched
  BY DEF IInv, TypeOK, CoveredInv, RaisedFinds, NoneUnwatched, ToSet
<1>. QED
  BY <1>1, Invariance, PTL

(* No change is lost between the kernel's queue, the forwarder's walks and   *)
(* the index: the event, or the walk, that will have it read is to come.     *)
THEOREM NothingUnseenHolds == Spec => []NothingUnseen
<1>1. IInv => NothingUnseen
  BY DEF IInv, TypeOK, OwedInv, NothingUnseen, ToSet
<1>. QED
  BY <1>1, Invariance, PTL

-----------------------------------------------------------------------------
(* Sets of naturals, and their members in order.                           *)

LEMMA Least ==
  ASSUME NEW T, T \subseteq Nat, T # {}
  PROVE  \E x \in T : \A y \in T : x <= y
<1> DEFINE R == OpToRel(<, Nat)
<1>1. IsWellFoundedOn(R, Nat)
  BY NatLessThanWellFounded
<1>3. \A x, y \in Nat : y < x => <<y, x>> \in R
  BY DEF R, OpToRel
<1>h. HIDE DEF R
<1>2. PICK x \in T : \A y \in T : ~ (<<y, x>> \in R)
  BY <1>1, WFMin
<1>4. ASSUME NEW y \in T PROVE x <= y
  <2>1. x \in Nat /\ y \in Nat /\ ~(y < x)
    BY <1>2, <1>3
  <2>. QED
    BY <2>1
<1>. QED
  BY <1>4

(* A bounded set of naturals has a largest element, which Max is. *)
LEMMA MaxIs ==
  ASSUME NEW T, NEW n \in Nat, T \subseteq 0 .. n, T # {}
  PROVE  Max(T) \in T /\ \A x \in T : x <= Max(T)
<1> DEFINE U == {m \in Nat : \A x \in T : x <= m}
<1>1. U \subseteq Nat /\ n \in U
  OBVIOUS
<1>2. PICK m \in U : \A y \in U : m <= y
  <2>. HIDE DEF U
  <2>. QED
    BY <1>1, Least
<1>3. m \in T
  <2>1. SUFFICES ASSUME m \notin T PROVE FALSE
    OBVIOUS
  <2>2. m # 0
    <3>1. PICK x \in T : TRUE
      OBVIOUS
    <3>2. x \in Nat /\ x <= m /\ x # m
      BY <1>2, <2>1
    <3>. QED
      BY <1>2, <3>2
  <2>3. m - 1 \in U
    BY <1>2, <2>1, <2>2
  <2>. QED
    BY <1>2, <2>3
<1>4. \E x \in T : \A y \in T : x >= y
  BY <1>2, <1>3
<1>5. Max(T) \in T /\ \A y \in T : Max(T) >= y
  BY <1>4 DEF Max
<1>. QED
  BY <1>5

LEMMA MinIs ==
  ASSUME NEW T, T \subseteq Nat, T # {}
  PROVE  Min(T) \in T /\ \A x \in T : Min(T) <= x
<1>1. \E x \in T : \A y \in T : x <= y
  BY Least
<1>. QED
  BY <1>1 DEF Min

UpTo(T, i) == {j \in T : j <= i}
Rank(T, i) == Cardinality(UpTo(T, i))

(* A member's rank among a bounded set's grows with it, from 1. *)
LEMMA Ranked ==
  ASSUME NEW T, NEW n \in Nat, T \subseteq 1 .. n
  PROVE  /\ IsFiniteSet(T) /\ Cardinality(T) \in 0 .. n
         /\ \A i \in T : Rank(T, i) \in 1 .. Cardinality(T)
         /\ \A i, j \in T : i < j => Rank(T, i) < Rank(T, j)
<1>1. IsFiniteSet(1 .. n) /\ Cardinality(1 .. n) = n
  BY FS_Interval
<1>2. IsFiniteSet(T) /\ Cardinality(T) <= n /\ Cardinality(T) \in Nat
  BY <1>1, FS_Subset, FS_CardinalityType
<1>3. ASSUME NEW i \in T
      PROVE  /\ IsFiniteSet(UpTo(T, i)) /\ Rank(T, i) \in Nat
             /\ Rank(T, i) <= Cardinality(T) /\ Rank(T, i) # 0
  <2>1. UpTo(T, i) \in SUBSET T /\ i \in UpTo(T, i)
    BY DEF UpTo
  <2>2. IsFiniteSet(UpTo(T, i)) /\ Cardinality(UpTo(T, i)) <= Cardinality(T)
    BY <1>2, <2>1, FS_Subset
  <2>3. Cardinality(UpTo(T, i)) \in Nat /\ Cardinality(UpTo(T, i)) # 0
    BY <2>1, <2>2, FS_CardinalityType, FS_EmptySet
  <2>. QED
    BY <2>2, <2>3 DEF Rank
<1>4. ASSUME NEW i \in T, NEW j \in T, i < j PROVE Rank(T, i) < Rank(T, j)
  <2>0. i \in Nat /\ j \in Nat /\ \A x \in T : x \in Nat
    OBVIOUS
  <2>1. \A x : x \in UpTo(T, i) => x \in UpTo(T, j)
    BY <1>4, <2>0 DEF UpTo
  <2>4. j \in UpTo(T, j) /\ j \notin UpTo(T, i)
    BY <1>4, <2>0 DEF UpTo
  <2>2. IsFiniteSet(UpTo(T, j)) /\ Rank(T, j) \in Nat /\ Rank(T, i) \in Nat
    BY <1>3
  <2>3. Cardinality(UpTo(T, i)) <= Cardinality(UpTo(T, j))
        /\ Cardinality(UpTo(T, i)) # Cardinality(UpTo(T, j))
    BY <2>1, <2>2, <2>4, FS_Subset
  <2>. QED
    BY <2>2, <2>3 DEF Rank
<1>. QED
  BY <1>2, <1>3, <1>4

(* InOrder(T) runs through T, each member once. *)
LEMMA Ordered ==
  ASSUME NEW T, NEW n \in Nat, T \subseteq 1 .. n
  PROVE  /\ Cardinality(T) \in Nat
         /\ InOrder(T) \in [1 .. Cardinality(T) -> T]
         /\ \A i, j \in 1 .. Cardinality(T) : InOrder(T)[i] = InOrder(T)[j] => i = j
         /\ \A x \in T : \E i \in 1 .. Cardinality(T) : InOrder(T)[i] = x
<1> DEFINE N == Cardinality(T)
           rank == [i \in T |-> Rank(T, i)]
<1>1. /\ IsFiniteSet(T) /\ N \in Nat
      /\ \A i \in T : Rank(T, i) \in 1 .. N
      /\ \A i, j \in T : i < j => Rank(T, i) < Rank(T, j)
  <2>1. N \in 0 .. n /\ IsFiniteSet(T)
    BY Ranked
  <2>2. \A i \in T : Rank(T, i) \in 1 .. N
    BY Ranked
  <2>3. \A i, j \in T : i < j => Rank(T, i) < Rank(T, j)
    BY Ranked
  <2>. QED
    BY <2>1, <2>2, <2>3
<1>2. \A i, j \in T : Rank(T, i) = Rank(T, j) => i = j
  <2>1. ASSUME NEW i \in T, NEW j \in T, Rank(T, i) = Rank(T, j) PROVE i = j
    <3>1. i \in Nat /\ j \in Nat /\ Rank(T, i) \in Nat /\ ~ (Rank(T, i) < Rank(T, j)) /\ ~ (Rank(T, j) < Rank(T, i))
      BY <1>1, <2>1
    <3>2. ~ (i < j) /\ ~ (j < i)
      BY <1>1, <3>1
    <3>. QED
      BY <3>1, <3>2
  <2>. QED
    BY <2>1
<1>3. IsFiniteSet(1 .. N) /\ Cardinality(1 .. N) = N
  BY <1>1, FS_Interval
<1>4. rank \in Injection(T, 1 .. N)
  BY <1>1, <1>2 DEF Injection, IsInjective
<1>5. rank \in Surjection(T, 1 .. N)
  <2>. HIDE DEF rank
  <2>. QED
    BY <1>3, <1>4, FS_Injection
<1>6. \A m \in 1 .. N : \E i \in T : Rank(T, i) = m
  BY <1>5 DEF Surjection
<1>7. \A i : Cardinality({j \in T : j <= i}) = Rank(T, i)
  BY DEF Rank, UpTo
<1>8. \A m \in 1 .. N : InOrder(T)[m] \in T /\ Rank(T, InOrder(T)[m]) = m
  <2>1. ASSUME NEW m \in 1 .. N
        PROVE  InOrder(T)[m] = CHOOSE i \in T : Rank(T, i) = m
    BY <1>7 DEF InOrder
  <2>. QED
    BY <2>1, <1>6
<1>9. InOrder(T) \in [1 .. N -> T]
  <2>1. InOrder(T) = [m \in 1 .. N |-> InOrder(T)[m]]
    BY DEF InOrder
  <2>. QED
    BY <2>1, <1>8
<1>10. \A x \in T : \E i \in 1 .. N : InOrder(T)[i] = x
  <2>1. ASSUME NEW x \in T PROVE InOrder(T)[Rank(T, x)] = x
    BY <1>1, <1>2, <1>8
  <2>. QED
    BY <1>1, <2>1
<1>. QED
  BY <1>1, <1>8, <1>9, <1>10

(* In order, the first n naturals are themselves. *)
LEMMA InOrderAll ==
  ASSUME NEW n \in Nat
  PROVE  InOrder(1 .. n) = [i \in 1 .. n |-> i]
<1>1. Cardinality(1 .. n) = n
  BY FS_Interval
<1>2. ASSUME NEW i \in 1 .. n PROVE Cardinality({j \in 1 .. n : j <= i}) = i
  <2>1. {j \in 1 .. n : j <= i} = 1 .. i
    OBVIOUS
  <2>2. Cardinality(1 .. i) = i - 1 + 1
    BY FS_Interval
  <2>3. Cardinality({j \in 1 .. n : j <= i}) = Cardinality(1 .. i)
    BY <2>1, Zenon
  <2>. QED
    BY <2>2, <2>3
<1>3. ASSUME NEW m \in 1 .. n
      PROVE  (CHOOSE i \in 1 .. n : Cardinality({j \in 1 .. n : j <= i}) = m) = m
  BY <1>2
<1>. QED
  BY <1>1, <1>3 DEF InOrder

-----------------------------------------------------------------------------
(* SQLite's table.                                                         *)

TableOK(t) ==
  /\ \E n \in Nat : DOMAIN t \subseteq 1 .. n
  /\ \A r \in DOMAIN t : t[r] \in RowType

(* A unit has failed if its table would not be sound, and only then. *)
Judged(w) == w.failed \in BOOLEAN /\ (w.failed <=> ~Sound(w.table))

LEMMA ClashBoth == \A x, y : Clash(x, y) <=> Clash(y, x)
  BY DEF Clash

(* The unit p is w with rows put in at rowids with no row. *)
Put(w, p, at, new) ==
  /\ DOMAIN p.table = DOMAIN w.table \cup Range(at)
  /\ \A i \in DOMAIN at : p.table[at[i]] = new[i]
  /\ \A r \in DOMAIN w.table : p.table[r] = w.table[r]
  /\ p.placed = [i \in DOMAIN w.placed |-> IF i \in DOMAIN at THEN at[i] ELSE w.placed[i]]

LEMMA PutIn ==
  ASSUME NEW w, NEW at, NEW new, Distinct(at),
         \A i \in DOMAIN at : at[i] \notin DOMAIN w.table
  PROVE  Put(w, PutAll(w, at, new), at, new)
<1> DEFINE p == PutAll(w, at, new)
           t == w.table
<1>1. p.table = [r \in DOMAIN t \cup Range(at) |->
                  IF r \in Range(at) THEN new[CHOOSE i \in DOMAIN at : at[i] = r] ELSE t[r]]
      /\ p.placed = [i \in DOMAIN w.placed |-> IF i \in DOMAIN at THEN at[i] ELSE w.placed[i]]
  BY DEF PutAll
<1>2. ASSUME NEW i \in DOMAIN at PROVE at[i] \in Range(at) /\ (CHOOSE j \in DOMAIN at : at[j] = at[i]) = i
  BY DEF Distinct, Range
<1>3. \A r \in DOMAIN t : r \notin Range(at)
  BY DEF Range
<1>. HIDE DEF p
<1>4. DOMAIN p.table = DOMAIN t \cup Range(at)
  BY <1>1
<1>5. ASSUME NEW i \in DOMAIN at PROVE p.table[at[i]] = new[i]
  <2>1. at[i] \in DOMAIN t \cup Range(at) /\ at[i] \in Range(at)
    BY <1>2
  <2>2. p.table[at[i]] = new[CHOOSE j \in DOMAIN at : at[j] = at[i]]
    BY <1>1, <2>1
  <2>. QED
    BY <1>2, <2>2, Zenon
<1>6. ASSUME NEW r \in DOMAIN t PROVE p.table[r] = t[r]
  BY <1>1, <1>3
<1>. QED
  BY <1>1, <1>4, <1>5, <1>6 DEF p, Put

LEMMA PutInJudged ==
  ASSUME NEW w, NEW at, NEW new, Distinct(at), DOMAIN at \subseteq Nat,
         \A i \in DOMAIN at : at[i] \notin DOMAIN w.table, Judged(w)
  PROVE  Judged(PutAll(w, at, new))
<1> DEFINE p == PutAll(w, at, new)
           t == w.table
<1>1. /\ DOMAIN p.table = DOMAIN t \cup Range(at)
      /\ \A i \in DOMAIN at : p.table[at[i]] = new[i]
      /\ \A r \in DOMAIN t : p.table[r] = t[r]
  <2>1. Put(w, p, at, new)
    BY PutIn
  <2>. HIDE DEF p
  <2>. QED
    BY <2>1 DEF Put
<1>2. p.failed <=> \/ w.failed
                   \/ \E i \in DOMAIN at : \/ \E r \in DOMAIN t : Clash(new[i], t[r])
                                           \/ \E j \in DOMAIN at : j < i /\ Clash(new[i], new[j])
  BY DEF PutAll
<1>3. p.failed \in BOOLEAN
  BY DEF PutAll, Judged
<1>4. \A i \in DOMAIN at : at[i] \in Range(at)
  BY DEF Range
<1>5. \A r \in Range(at) : \E i \in DOMAIN at : at[i] = r
  BY DEF Range
<1>. HIDE DEF p
<1>6. ASSUME ~Sound(t) PROVE ~Sound(p.table)
  <2>1. PICK r \in DOMAIN t, s \in DOMAIN t : r # s /\ Clash(t[r], t[s])
    BY <1>6 DEF Sound
  <2>2. r \in DOMAIN p.table /\ s \in DOMAIN p.table /\ p.table[r] = t[r] /\ p.table[s] = t[s]
    BY <1>1
  <2>3. Clash(p.table[r], p.table[s])
    BY <2>1, <2>2
  <2>. QED
    BY <2>1, <2>2, <2>3 DEF Sound
<1>7. ASSUME NEW i \in DOMAIN at, NEW r \in DOMAIN t, Clash(new[i], t[r]) PROVE ~Sound(p.table)
  <2>2. r \in DOMAIN p.table /\ at[i] \in DOMAIN p.table /\ p.table[r] = t[r] /\ p.table[at[i]] = new[i]
        /\ at[i] # r
    BY <1>1, <1>4
  <2>3. Clash(p.table[at[i]], p.table[r])
    BY <1>7, <2>2
  <2>. QED
    BY <2>2, <2>3 DEF Sound
<1>8. ASSUME NEW i \in DOMAIN at, NEW j \in DOMAIN at, j < i, Clash(new[i], new[j]) PROVE ~Sound(p.table)
  <2>1. i \in Nat /\ j \in Nat /\ i # j
    BY <1>8
  <2>2. at[j] \in DOMAIN p.table /\ at[i] \in DOMAIN p.table /\ p.table[at[j]] = new[j] /\ p.table[at[i]] = new[i]
        /\ at[i] # at[j]
    BY <1>1, <1>4, <2>1 DEF Distinct
  <2>3. Clash(p.table[at[i]], p.table[at[j]])
    BY <1>8, <2>2
  <2>. QED
    BY <2>2, <2>3 DEF Sound
<1>9. ASSUME ~Sound(p.table) PROVE p.failed
  <2>1. PICK r \in DOMAIN p.table, s \in DOMAIN p.table : r # s /\ Clash(p.table[r], p.table[s])
    BY <1>9 DEF Sound
  <2>2. Clash(p.table[s], p.table[r])
    BY <2>1, ClashBoth
  <2>3. CASE r \in DOMAIN t /\ s \in DOMAIN t
    <3>1. Clash(t[r], t[s])
      BY <1>1, <2>1, <2>3
    <3>. QED
      BY <1>2, <2>1, <2>3, <3>1 DEF Judged, Sound
  <2>4. CASE r \in DOMAIN t /\ s \notin DOMAIN t
    <3>1. PICK j \in DOMAIN at : at[j] = s
      BY <1>1, <1>5, <2>4
    <3>2. Clash(new[j], t[r])
      BY <1>1, <2>2, <2>4, <3>1
    <3>. QED
      BY <1>2, <2>4, <3>2
  <2>5. CASE r \notin DOMAIN t /\ s \in DOMAIN t
    <3>1. PICK i \in DOMAIN at : at[i] = r
      BY <1>1, <1>5, <2>5
    <3>2. Clash(new[i], t[s])
      BY <1>1, <2>1, <2>5, <3>1
    <3>. QED
      BY <1>2, <2>5, <3>2
  <2>6. CASE r \notin DOMAIN t /\ s \notin DOMAIN t
    <3>1. PICK i \in DOMAIN at : at[i] = r
      BY <1>1, <1>5, <2>6
    <3>2. PICK j \in DOMAIN at : at[j] = s
      BY <1>1, <1>5, <2>6
    <3>3. i \in Nat /\ j \in Nat /\ i # j
      BY <2>1, <3>1, <3>2
    <3>4. Clash(new[i], new[j]) /\ Clash(new[j], new[i])
      BY <1>1, <2>1, <2>2, <3>1, <3>2
    <3>. QED
      BY <1>2, <3>3, <3>4
  <2>. QED
    BY <2>3, <2>4, <2>5, <2>6
<1>10. p.failed => ~Sound(p.table)
  BY <1>2, <1>6, <1>7, <1>8 DEF Judged
<1>11. Judged(p)
  BY <1>3, <1>9, <1>10 DEF Judged
<1>. QED
  BY <1>11 DEF p

(* New rows go in after the last. *)
NewAt(t, places) == [i \in places |-> Max(DOMAIN t \cup {0}) + Cardinality({j \in places : j <= i})]

LEMMA NewRowids ==
  ASSUME NEW t, NEW n \in Nat, DOMAIN t \subseteq 1 .. n,
         NEW places, NEW m \in Nat, places \subseteq 1 .. m
  PROVE  /\ DOMAIN NewAt(t, places) = places
         /\ Distinct(NewAt(t, places))
         /\ \A i \in places : NewAt(t, places)[i] \in 1 .. (n + m) /\ NewAt(t, places)[i] \notin DOMAIN t
<1> DEFINE last == Max(DOMAIN t \cup {0})
           at   == NewAt(t, places)
<1>1. last \in 0 .. n /\ \A r \in DOMAIN t : r <= last
  <2>1. DOMAIN t \cup {0} \subseteq 0 .. n /\ DOMAIN t \cup {0} # {}
    OBVIOUS
  <2>2. last \in DOMAIN t \cup {0} /\ \A r \in DOMAIN t \cup {0} : r <= last
    BY <2>1, MaxIs
  <2>. QED
    BY <2>1, <2>2
<1>2. DOMAIN at = places /\ \A i \in places : at[i] = last + Rank(places, i)
  BY DEF NewAt, Rank, UpTo
<1>3. /\ Cardinality(places) \in 0 .. m
      /\ \A i \in places : Rank(places, i) \in 1 .. Cardinality(places)
      /\ \A i, j \in places : i < j => Rank(places, i) < Rank(places, j)
  <2>1. Cardinality(places) \in 0 .. m
    BY Ranked
  <2>2. \A i \in places : Rank(places, i) \in 1 .. Cardinality(places)
    BY Ranked
  <2>3. \A i, j \in places : i < j => Rank(places, i) < Rank(places, j)
    BY Ranked
  <2>. QED
    BY <2>1, <2>2, <2>3
<1>. HIDE DEF last, at
<1>4. ASSUME NEW i \in places, NEW j \in places, at[i] = at[j] PROVE i = j
  <2>1. i \in Nat /\ j \in Nat /\ Rank(places, i) \in Nat /\ Rank(places, j) \in Nat /\ last \in Nat
    BY <1>1, <1>3
  <2>2. Rank(places, i) = Rank(places, j)
    BY <1>2, <1>4, <2>1
  <2>3. ~ (i < j) /\ ~ (j < i)
    BY <1>3, <2>1, <2>2
  <2>. QED
    BY <2>1, <2>3
<1>5. ASSUME NEW i \in places PROVE at[i] \in 1 .. (n + m) /\ at[i] \notin DOMAIN t
  <2>1. Rank(places, i) \in 1 .. m /\ last \in 0 .. n /\ at[i] = last + Rank(places, i)
    BY <1>1, <1>2, <1>3
  <2>. QED
    BY <1>1, <2>1
<1>6. Distinct(at)
  BY <1>2, <1>4 DEF Distinct
<1>. QED
  BY <1>2, <1>5, <1>6 DEF at

LEMMA PutNewIs ==
  ASSUME NEW w, NEW places, NEW new
  PROVE  PutNew(w, places, new) = PutAll(w, NewAt(w.table, places), new)
  BY DEF PutNew, NewAt

-----------------------------------------------------------------------------
(* Rows that match.                                                        *)

(* The places up to i of i's identity. *)
Alike(ids, i) == {j \in 1 .. i : ids[j] = ids[i]}

LEMMA NthGrows ==
  ASSUME NEW ids, NEW j \in Nat \ {0}
  PROVE  /\ Nth(ids, j) \in Nat \ {0}
         /\ \A i \in 1 .. (j - 1) : ids[i] = ids[j] => Nth(ids, i) < Nth(ids, j)
<1>1. ASSUME NEW i \in Nat \ {0}
      PROVE  IsFiniteSet(Alike(ids, i)) /\ Nth(ids, i) = Cardinality(Alike(ids, i)) /\ Nth(ids, i) \in Nat \ {0}
  <2>1. Alike(ids, i) \in SUBSET (1 .. i) /\ i \in Alike(ids, i)
    BY DEF Alike
  <2>0. IsFiniteSet(1 .. i)
    BY FS_Interval
  <2>2. IsFiniteSet(Alike(ids, i))
    BY <2>0, <2>1, FS_Subset
  <2>3. Cardinality(Alike(ids, i)) \in Nat \ {0}
    BY <2>1, <2>2, FS_CardinalityType, FS_EmptySet
  <2>4. Nth(ids, i) = Cardinality(Alike(ids, i))
    BY DEF Nth, Alike
  <2>. QED
    BY <2>2, <2>3, <2>4
<1>2. ASSUME NEW i \in 1 .. (j - 1), ids[i] = ids[j] PROVE Nth(ids, i) < Nth(ids, j)
  <2>1. \A x : x \in Alike(ids, i) => x \in Alike(ids, j)
    BY <1>2 DEF Alike
  <2>2. j \in Alike(ids, j) /\ j \notin Alike(ids, i)
    BY DEF Alike
  <2>3. i \in Nat \ {0}
    OBVIOUS
  <2>4. Cardinality(Alike(ids, i)) <= Cardinality(Alike(ids, j))
        /\ Cardinality(Alike(ids, i)) # Cardinality(Alike(ids, j))
    BY <1>1, <2>1, <2>2, FS_Subset
  <2>5. /\ Nth(ids, i) = Cardinality(Alike(ids, i)) /\ Nth(ids, i) \in Nat
        /\ Nth(ids, j) = Cardinality(Alike(ids, j)) /\ Nth(ids, j) \in Nat
    BY <1>1, <2>3
  <2>. QED
    BY <2>4, <2>5
<1>. QED
  BY <1>1, <1>2

(* No two places of one identity have the same number. *)
LEMMA NthTells ==
  ASSUME NEW ids, NEW i \in Nat \ {0}, NEW j \in Nat \ {0},
         ids[i] = ids[j], Nth(ids, i) = Nth(ids, j)
  PROVE  i = j
<1>1. Nth(ids, i) \in Nat /\ Nth(ids, j) \in Nat
  BY NthGrows
<1>2. ~ (i < j)
  <2>1. SUFFICES ASSUME i < j PROVE FALSE
    OBVIOUS
  <2>2. i \in 1 .. (j - 1)
    BY <2>1
  <2>. QED
    BY <1>1, <2>2, NthGrows
<1>3. ~ (j < i)
  <2>1. SUFFICES ASSUME j < i PROVE FALSE
    OBVIOUS
  <2>2. j \in 1 .. (i - 1)
    BY <2>1
  <2>. QED
    BY <1>1, <2>2, NthGrows
<1>. QED
  BY <1>2, <1>3

(* The only one of its identity is the first. *)
LEMMA NthFirst ==
  ASSUME NEW ids, NEW i \in Nat \ {0}, \A j \in 1 .. i : ids[j] = ids[i] => j = i
  PROVE  Nth(ids, i) = 1
<1>1. Alike(ids, i) = {i}
  BY DEF Alike
<1>2. Cardinality(Alike(ids, i)) = 1
  BY <1>1, FS_Singleton
<1>. QED
  BY <1>2 DEF Nth, Alike

(* A place is claimed once, and one place at most. *)
LEMMA ClaimOne ==
  ASSUME NEW had, NEW ids, NEW n \in Nat, DOMAIN had = 1 .. n, NEW i \in Nat \ {0}
  PROVE  /\ \A a, b \in Claim(had, ids, i) : a = b
         /\ \A j \in Nat \ {0}, a \in Claim(had, ids, i) : a \in Claim(had, ids, j) => i = j
<1>1. ASSUME NEW a \in Claim(had, ids, i), NEW b \in Claim(had, ids, i) PROVE a = b
  <2>1. a \in Nat \ {0} /\ b \in Nat \ {0} /\ had[a] = had[b] /\ Nth(had, a) = Nth(had, b)
    BY DEF Claim
  <2>. QED
    BY <2>1, NthTells
<1>2. ASSUME NEW j \in Nat \ {0}, NEW a \in Claim(had, ids, i), a \in Claim(had, ids, j) PROVE i = j
  <2>1. ids[i] = ids[j] /\ Nth(ids, i) = Nth(ids, j)
    BY <1>2 DEF Claim
  <2>. QED
    BY <2>1, NthTells
<1>. QED
  BY <1>1, <1>2

OutputOK(out) ==
  /\ out.rows \in Seq(RowType) /\ out.emits \in SUBSET Columns
  /\ \A i \in DOMAIN out.rows, c \in Columns \ out.emits : out.rows[i][c] = Null

On(out, key) == IF key = {} THEN out.emits ELSE key
Had(t, stored, out, key) == [n \in DOMAIN stored |-> Restrict(t[stored[n]], On(out, key))]
Ids(out, key) == [i \in DOMAIN out.rows |-> Restrict(out.rows[i], On(out, key))]

(* Each new row is placed at a stored one, or nowhere; none is taken twice. *)
Matching(placed, stored, out, had, ids) ==
  /\ DOMAIN placed = DOMAIN out.rows /\ placed = [i \in DOMAIN placed |-> placed[i]]
  /\ \A i \in DOMAIN placed : placed[i] = 0 <=> Claim(had, ids, i) = {}
  /\ \A i \in DOMAIN placed : placed[i] # 0 =>
       \E n \in Claim(had, ids, i) : n \in DOMAIN stored /\ placed[i] = stored[n]
  /\ \A i, j \in DOMAIN placed : placed[i] # 0 /\ placed[i] = placed[j] => i = j

LEMMA MatchIs ==
  ASSUME NEW t, NEW S, NEW stored \in Seq(S), Distinct(stored), 0 \notin S,
         NEW out, OutputOK(out), NEW key
  PROVE  Matching(Match(t, stored, out, key), stored, out, Had(t, stored, out, key), Ids(out, key))
<1> DEFINE placed == Match(t, stored, out, key)
           had    == Had(t, stored, out, key)
           ids    == Ids(out, key)
<1>1. placed = [i \in DOMAIN ids |->
                 IF Claim(had, ids, i) = {} THEN 0 ELSE stored[CHOOSE n \in Claim(had, ids, i) : TRUE]]
  BY DEF Match, Had, Ids, On
<1>2. DOMAIN ids = DOMAIN out.rows /\ DOMAIN had = DOMAIN stored
  BY DEF Ids, Had
<1>3. DOMAIN stored = 1 .. Len(stored) /\ Len(stored) \in Nat /\ DOMAIN out.rows \subseteq Nat \ {0}
  BY DEF OutputOK
<1>4. \A i : Claim(had, ids, i) \subseteq DOMAIN stored
  BY <1>2 DEF Claim
<1>. HIDE DEF placed, had, ids
<1>5. ASSUME NEW i \in DOMAIN placed, Claim(had, ids, i) # {}
      PROVE  \E n \in Claim(had, ids, i) : n \in DOMAIN stored /\ placed[i] = stored[n] /\ placed[i] # 0
  <2> DEFINE m == CHOOSE n \in Claim(had, ids, i) : TRUE
  <2>1. m \in Claim(had, ids, i) /\ placed[i] = stored[m]
    BY <1>1, <1>5
  <2>2. stored[m] \in S
    BY <1>3, <1>4, <2>1
  <2>. QED
    BY <1>4, <2>1, <2>2
<1>6. ASSUME NEW i \in DOMAIN placed, NEW j \in DOMAIN placed, placed[i] # 0, placed[i] = placed[j]
      PROVE  i = j
  <2>1. Claim(had, ids, i) # {} /\ Claim(had, ids, j) # {}
    BY <1>1, <1>6
  <2>2. PICK n \in Claim(had, ids, i) : n \in DOMAIN stored /\ placed[i] = stored[n]
    BY <1>5, <2>1
  <2>3. PICK m \in Claim(had, ids, j) : m \in DOMAIN stored /\ placed[j] = stored[m]
    BY <1>5, <2>1
  <2>4. n = m
    BY <1>6, <2>2, <2>3 DEF Distinct
  <2>5. i \in Nat \ {0} /\ j \in Nat \ {0}
    BY <1>1, <1>2, <1>3
  <2>. QED
    BY <1>2, <1>3, <2>3, <2>4, <2>5, ClaimOne
<1>7. \A i \in DOMAIN placed : placed[i] = 0 <=> Claim(had, ids, i) = {}
  BY <1>1, <1>5
<1>8. \A i \in DOMAIN placed : placed[i] # 0 =>
        \E n \in Claim(had, ids, i) : n \in DOMAIN stored /\ placed[i] = stored[n]
  BY <1>5, <1>7
<1>9. DOMAIN placed = DOMAIN out.rows /\ placed = [i \in DOMAIN placed |-> placed[i]]
  BY <1>1, <1>2
<1>10. Matching(placed, stored, out, had, ids)
  BY <1>6, <1>7, <1>8, <1>9 DEF Matching
<1>. QED
  BY <1>10 DEF placed, had, ids

-----------------------------------------------------------------------------
(* Updates, tried in order.                                                *)

Step(w, todo, new, i, before) ==
  IF i \in todo /\ ~InTheWay(before, w.placed[i], new[i])
  THEN Update(before, w.placed[i], new[i]) ELSE before

(* g is the table after each of the first m rows. *)
Steps(g, w, todo, new, m) ==
  g = [i \in 0 .. m |-> IF i = 0 THEN w.table ELSE Step(w, todo, new, i, g[i - 1])]

LEMMA StepsExist ==
  ASSUME NEW w, NEW todo, NEW new, NEW m \in Nat
  PROVE  \E g : Steps(g, w, todo, new, m)
<1> DEFINE Has(k) == \E g : Steps(g, w, todo, new, k)
           T == {k \in Nat : ~Has(k)}
<1>1. SUFFICES ASSUME T # {} PROVE FALSE
  OBVIOUS
<1>2. PICK k \in T : \A j \in T : k <= j
  <2>1. T \subseteq Nat
    OBVIOUS
  <2>. HIDE DEF T
  <2>. QED
    BY <1>1, <2>1, Least
<1>3. k \in Nat /\ ~Has(k)
  BY <1>2
<1>4. Has(0)
  <2> DEFINE g == [i \in 0 .. 0 |-> IF i = 0 THEN w.table ELSE w.table]
  <2>1. g = [i \in 0 .. 0 |-> IF i = 0 THEN w.table ELSE Step(w, todo, new, i, g[i - 1])]
    OBVIOUS
  <2>. HIDE DEF g
  <2>. QED
    BY <2>1 DEF Steps
<1>5. k # 0
  <2>. HIDE DEF Has
  <2>. QED
    BY <1>3, <1>4
<1>6. k - 1 \in Nat /\ Has(k - 1)
  <2>1. k - 1 \in Nat /\ k - 1 \notin T
    BY <1>2, <1>3, <1>5
  <2>. HIDE DEF Has
  <2>. QED
    BY <2>1
<1>7. PICK h : Steps(h, w, todo, new, k - 1)
  BY <1>6
<1> DEFINE g == [i \in 0 .. k |-> IF i < k THEN h[i] ELSE Step(w, todo, new, k, h[k - 1])]
<1>8. \A i \in 0 .. (k - 1) : h[i] = IF i = 0 THEN w.table ELSE Step(w, todo, new, i, h[i - 1])
  BY <1>7 DEF Steps
<1>9. \A i \in 0 .. k : g[i] = IF i = 0 THEN w.table ELSE Step(w, todo, new, i, g[i - 1])
  <2>1. ASSUME NEW i \in 0 .. k PROVE g[i] = IF i = 0 THEN w.table ELSE Step(w, todo, new, i, g[i - 1])
    <3>1. CASE i = k
      <4>1. k - 1 \in 0 .. k /\ k - 1 < k /\ k \in 0 .. k
        BY <1>6
      <4>2. g[k - 1] = h[k - 1]
        BY <4>1
      <4>3. g[k] = Step(w, todo, new, k, h[k - 1])
        BY <4>1
      <4>. QED
        BY <1>5, <3>1, <4>2, <4>3
    <3>2. CASE i # k /\ i # 0
      <4>1. i \in 0 .. (k - 1) /\ i - 1 \in 0 .. k /\ i < k /\ i - 1 < k
        BY <1>6, <3>2
      <4>2. g[i] = h[i] /\ g[i - 1] = h[i - 1]
        BY <4>1
      <4>3. h[i] = Step(w, todo, new, i, h[i - 1])
        BY <1>8, <3>2, <4>1
      <4>. QED
        BY <3>2, <4>2, <4>3
    <3>3. CASE i # k /\ i = 0
      <4>1. 0 \in 0 .. (k - 1) /\ 0 < k /\ 0 \in 0 .. k
        BY <1>6
      <4>2. g[0] = h[0]
        BY <4>1
      <4>. QED
        BY <1>8, <3>3, <4>1, <4>2
    <3>. QED
      BY <3>1, <3>2, <3>3
  <2>. QED
    BY <2>1
<1>10. DOMAIN g = 0 .. k /\ g = [i \in DOMAIN g |-> g[i]]
  OBVIOUS
<1>. HIDE DEF g
<1>11. Steps(g, w, todo, new, k)
  BY <1>9, <1>10 DEF Steps
<1>. QED
  BY <1>3, <1>11

LEMMA TriedSteps ==
  ASSUME NEW w, NEW todo, NEW new, Len(w.placed) \in Nat
  PROVE  Steps(Tried(w, todo, new), w, todo, new, Len(w.placed))
<1> DEFINE P(g) == Steps(g, w, todo, new, Len(w.placed))
<1>1. Tried(w, todo, new) = CHOOSE g : P(g)
  BY DEF Tried, Steps, Step
<1>2. \E g : P(g)
  BY StepsExist
<1>. QED
  BY <1>1, <1>2

(* What an update does to a table. *)
LEMMA UpdateIs ==
  ASSUME NEW t, NEW at \in DOMAIN t, NEW row
  PROVE  /\ DOMAIN Update(t, at, row) = DOMAIN t
         /\ Update(t, at, row)[at] = row
         /\ \A r \in DOMAIN t \ {at} : Update(t, at, row)[r] = t[r]
  BY DEF Update

LEMMA UpdateSound ==
  ASSUME NEW t, NEW at \in DOMAIN t, NEW row, Sound(t), ~InTheWay(t, at, row)
  PROVE  Sound(Update(t, at, row))
<1> DEFINE u == Update(t, at, row)
<1>1. DOMAIN u = DOMAIN t /\ u[at] = row /\ \A r \in DOMAIN t \ {at} : u[r] = t[r]
  BY UpdateIs
<1>2. \A r \in DOMAIN t \ {at} : ~Clash(row, t[r]) /\ ~Clash(t[r], row)
  BY ClashBoth DEF InTheWay
<1>. HIDE DEF u
<1>3. ASSUME NEW r \in DOMAIN u, NEW s \in DOMAIN u, r # s PROVE ~Clash(u[r], u[s])
  <2>1. CASE r = at
    <3>1. s \in DOMAIN t \ {at} /\ u[r] = row /\ u[s] = t[s]
      BY <1>1, <1>3, <2>1
    <3>2. ~Clash(row, t[s])
      BY <1>2, <3>1
    <3>. QED
      BY <3>1, <3>2
  <2>2. CASE s = at
    <3>1. r \in DOMAIN t \ {at} /\ u[s] = row /\ u[r] = t[r]
      BY <1>1, <1>3, <2>2
    <3>2. ~Clash(t[r], row)
      BY <1>2, <3>1
    <3>. QED
      BY <3>1, <3>2
  <2>3. CASE r # at /\ s # at
    <3>1. u[r] = t[r] /\ u[s] = t[s] /\ r \in DOMAIN t /\ s \in DOMAIN t
      BY <1>1, <2>3
    <3>2. ~Clash(t[r], t[s])
      BY <1>3, <3>1 DEF Sound
    <3>. QED
      BY <3>1, <3>2
  <2>. QED
    BY <2>1, <2>2, <2>3
<1>4. Sound(u)
  BY <1>3 DEF Sound
<1>. QED
  BY <1>4 DEF u

(* The rows an update may reach, and what may stand in its way. *)
Updatable(w, todo) ==
  /\ Len(w.placed) \in Nat /\ DOMAIN w.placed = 1 .. Len(w.placed) /\ todo \subseteq DOMAIN w.placed
  /\ \A i \in todo : w.placed[i] \in DOMAIN w.table
  /\ \A i, j \in todo : w.placed[i] = w.placed[j] => i = j

(* The table k rows on. *)
Reached(g, w, todo, new, k) ==
  /\ DOMAIN g[k] = DOMAIN w.table
  /\ Sound(w.table) => Sound(g[k])
  /\ \A j \in todo \ Blocked(w, todo, new) : j <= k => g[k][w.placed[j]] = new[j]
  /\ \A r \in DOMAIN w.table :
       (\A j \in todo : j <= k /\ w.placed[j] = r => j \in Blocked(w, todo, new)) => g[k][r] = w.table[r]

LEMMA TriedStep ==
  ASSUME NEW w, NEW todo, NEW new, Updatable(w, todo), NEW g, g = Tried(w, todo, new),
         NEW k \in 1 .. Len(w.placed), Reached(g, w, todo, new, k - 1)
  PROVE  Reached(g, w, todo, new, k)
<1> DEFINE n == Len(w.placed)
           blocked == Blocked(w, todo, new)
<1>1. n \in Nat /\ DOMAIN w.placed = 1 .. n /\ todo \subseteq 1 .. n
  BY DEF Updatable
<1>2. g[k] = Step(w, todo, new, k, g[k - 1])
  <2>1. Steps(g, w, todo, new, n)
    BY <1>1, TriedSteps
  <2>2. k \in 0 .. n /\ k # 0
    BY <1>1
  <2>. QED
    BY <2>1, <2>2 DEF Steps
<1>3. \A i \in todo : i \in blocked <=> InTheWay(g[i - 1], w.placed[i], new[i])
  BY DEF Blocked
<1>4. blocked \subseteq todo
  BY DEF Blocked
<1>. HIDE DEF n, blocked
<1>5. \A j \in todo : j \in Nat /\ (j <= k <=> j <= k - 1 \/ j = k)
  BY <1>1
<1>6. Reached(g, w, todo, new, k - 1)
  OBVIOUS
<1>7. CASE k \in todo \ blocked
  <2> DEFINE at == w.placed[k]
             before == g[k - 1]
  <2>1. g[k] = Update(before, at, new[k]) /\ ~InTheWay(before, at, new[k])
    BY <1>2, <1>3, <1>7 DEF Step
  <2>2. at \in DOMAIN before /\ DOMAIN before = DOMAIN w.table
    BY <1>6, <1>7 DEF Reached, Updatable
  <2>3. /\ DOMAIN g[k] = DOMAIN before
        /\ g[k][at] = new[k]
        /\ \A r \in DOMAIN before \ {at} : g[k][r] = before[r]
    BY <2>1, <2>2, UpdateIs
  <2>4. Sound(before) => Sound(g[k])
    BY <2>1, <2>2, UpdateSound
  <2>5. ASSUME NEW j \in todo \ blocked, j <= k PROVE g[k][w.placed[j]] = new[j]
    <3>1. CASE j = k
      BY <2>3, <3>1
    <3>2. CASE j # k
      <4>1. j <= k - 1 /\ w.placed[j] \in DOMAIN before /\ w.placed[j] # at
        BY <1>5, <1>7, <2>2, <2>5, <3>2 DEF Updatable
      <4>2. before[w.placed[j]] = new[j]
        BY <1>6, <4>1, <2>5 DEF Reached, blocked
      <4>. QED
        BY <2>3, <4>1, <4>2
    <3>. QED
      BY <3>1, <3>2
  <2>6. ASSUME NEW r \in DOMAIN w.table, \A j \in todo : j <= k /\ w.placed[j] = r => j \in blocked
        PROVE  g[k][r] = w.table[r]
    <3>1. r # at
      BY <1>5, <1>7, <2>6
    <3>2. \A j \in todo : j <= k - 1 /\ w.placed[j] = r => j \in blocked
      BY <1>5, <2>6
    <3>3. before[r] = w.table[r]
      BY <1>6, <3>2 DEF Reached, blocked
    <3>. QED
      BY <2>2, <2>3, <3>1, <3>3
  <2>. QED
    BY <1>6, <2>2, <2>3, <2>4, <2>5, <2>6 DEF Reached, blocked
<1>8. CASE k \notin todo \ blocked
  <2>1. g[k] = g[k - 1]
    BY <1>2, <1>3, <1>8 DEF Step
  <2>2. ASSUME NEW j \in todo \ blocked, j <= k PROVE g[k][w.placed[j]] = new[j]
    <3>1. j <= k - 1
      BY <1>5, <1>8, <2>2
    <3>. QED
      BY <1>6, <2>1, <2>2, <3>1 DEF Reached, blocked
  <2>3. ASSUME NEW r \in DOMAIN w.table, \A j \in todo : j <= k /\ w.placed[j] = r => j \in blocked
        PROVE  g[k][r] = w.table[r]
    <3>1. \A j \in todo : j <= k - 1 /\ w.placed[j] = r => j \in blocked
      BY <1>5, <2>3
    <3>. QED
      BY <1>6, <2>1, <3>1 DEF Reached, blocked
  <2>. QED
    BY <1>6, <2>1, <2>2, <2>3 DEF Reached, blocked
<1>. QED
  BY <1>7, <1>8

LEMMA TriedReached ==
  ASSUME NEW w, NEW todo, NEW new, Updatable(w, todo)
  PROVE  Reached(Tried(w, todo, new), w, todo, new, Len(w.placed))
<1>1. PICK g : g = Tried(w, todo, new)
  OBVIOUS
<1> DEFINE n == Len(w.placed)
           T == {k \in 0 .. n : ~Reached(g, w, todo, new, k)}
<1>2. n \in Nat /\ todo \subseteq 1 .. n
  BY DEF Updatable
<1>3. SUFFICES ASSUME T # {} PROVE FALSE
  BY <1>1, <1>2
<1>4. PICK k \in T : \A j \in T : k <= j
  <2>1. T \subseteq Nat
    OBVIOUS
  <2>. HIDE DEF T
  <2>. QED
    BY <1>3, <2>1, Least
<1>5. k \in 0 .. n /\ ~Reached(g, w, todo, new, k)
  BY <1>4
<1>6. Reached(g, w, todo, new, 0)
  <2>1. Steps(g, w, todo, new, n)
    BY <1>1, <1>2, TriedSteps
  <2>2. 0 \in 0 .. n
    BY <1>2
  <2>3. g[0] = w.table
    BY <2>1, <2>2 DEF Steps
  <2>4. \A j \in todo : ~ (j <= 0)
    BY <1>2
  <2>. QED
    BY <2>3, <2>4 DEF Reached
<1>7. k # 0
  BY <1>5, <1>6
<1>8. k \in 1 .. n /\ k - 1 \in 0 .. n /\ k - 1 \notin T
  BY <1>2, <1>4, <1>5, <1>7
<1>9. Reached(g, w, todo, new, k - 1)
  BY <1>8
<1>. QED
  BY <1>1, <1>5, <1>8, <1>9, TriedStep

LEMMA WithoutIs ==
  ASSUME NEW t, NEW rowids
  PROVE  /\ DOMAIN Without(t, rowids) = DOMAIN t \ rowids
         /\ \A r \in DOMAIN t \ rowids : Without(t, rowids)[r] = t[r]
         /\ Sound(t) => Sound(Without(t, rowids))
<1>1. /\ DOMAIN Without(t, rowids) = DOMAIN t \ rowids
      /\ \A r \in DOMAIN t \ rowids : Without(t, rowids)[r] = t[r]
  BY DEF Without, Restrict
<1>. QED
  BY <1>1 DEF Sound

(* However values move between rows, each update lands. *)
Updated(w, u, todo, new) ==
  /\ DOMAIN u.table = DOMAIN w.table
  /\ \A j \in todo : u.table[w.placed[j]] = new[j]
  /\ \A r \in DOMAIN w.table : (\A j \in todo : w.placed[j] # r) => u.table[r] = w.table[r]
  /\ DOMAIN u.placed = DOMAIN w.placed
  /\ \A i \in DOMAIN w.placed : u.placed[i] = w.placed[i]
  /\ Sound(w.table) => Judged(u)

LEMMA UpdateAllIs ==
  ASSUME NEW w, NEW todo, NEW new, Updatable(w, todo)
  PROVE  Updated(w, UpdateAll(w, todo, new), todo, new)
<1>1. PICK g : g = Tried(w, todo, new)
  OBVIOUS
<1> DEFINE n       == Len(w.placed)
           blocked == Blocked(w, todo, new)
           aside   == {w.placed[i] : i \in blocked}
           p       == Parted(w, todo, new)
           at      == Restrict(w.placed, blocked)
           u       == UpdateAll(w, todo, new)
<1>2. n \in Nat /\ DOMAIN w.placed = 1 .. n /\ todo \subseteq 1 .. n
  BY DEF Updatable
<1>3. blocked \subseteq todo
  BY DEF Blocked
<1>4. Reached(g, w, todo, new, n)
  BY <1>1, TriedReached
<1>5. p.table = Without(g[n], aside) /\ p.placed = w.placed /\ p.failed = FALSE
  BY <1>1 DEF Parted, Unit
<1>6. DOMAIN at = blocked /\ \A i \in blocked : at[i] = w.placed[i]
  BY DEF Restrict
<1>7. u = PutAll(p, at, new)
  BY DEF UpdateAll
<1>8. Distinct(at)
  BY <1>3, <1>6 DEF Distinct, Updatable
<1>9. DOMAIN p.table = DOMAIN w.table \ aside
      /\ \A r \in DOMAIN w.table \ aside : p.table[r] = g[n][r]
  <2>. HIDE DEF aside, p
  <2>1. /\ DOMAIN Without(g[n], aside) = DOMAIN g[n] \ aside
        /\ \A r \in DOMAIN g[n] \ aside : Without(g[n], aside)[r] = g[n][r]
    BY WithoutIs
  <2>2. DOMAIN g[n] = DOMAIN w.table
    BY <1>4 DEF Reached
  <2>. QED
    BY <1>5, <2>1, <2>2
<1>10. \A i \in DOMAIN at : at[i] \notin DOMAIN p.table
  BY <1>6, <1>9
<1>11. Range(at) = aside
  BY <1>6 DEF Range
<1>12. aside \subseteq DOMAIN w.table
  BY <1>3 DEF Updatable
<1>13. Put(p, u, at, new)
  BY <1>7, <1>8, <1>10, PutIn
<1>14. Sound(w.table) => Judged(u)
  <2>1. SUFFICES ASSUME Sound(w.table) PROVE Judged(u)
    OBVIOUS
  <2>2. Sound(p.table)
    <3>. HIDE DEF aside, p
    <3>1. Sound(g[n]) => Sound(Without(g[n], aside))
      BY WithoutIs
    <3>2. Sound(g[n])
      BY <1>4, <2>1 DEF Reached
    <3>. QED
      BY <1>5, <3>1, <3>2
  <2>3. Judged(p)
    BY <1>5, <2>2 DEF Judged
  <2>4. DOMAIN at \subseteq Nat
    BY <1>2, <1>3, <1>6
  <2>. HIDE DEF p, at, u
  <2>. QED
    BY <1>7, <1>8, <1>10, <2>3, <2>4, PutInJudged
<1>. HIDE DEF n, blocked, p, at, u
<1>15. DOMAIN u.table = DOMAIN w.table
  BY <1>9, <1>11, <1>12, <1>13 DEF Put
<1>16. ASSUME NEW j \in todo PROVE u.table[w.placed[j]] = new[j]
  <2>1. CASE j \in blocked
    BY <1>6, <1>13, <2>1 DEF Put
  <2>2. CASE j \notin blocked
    <3>1. w.placed[j] \notin aside /\ w.placed[j] \in DOMAIN w.table
      BY <1>3, <2>2 DEF Updatable
    <3>2. u.table[w.placed[j]] = g[n][w.placed[j]]
      BY <1>9, <1>13, <3>1 DEF Put
    <3>3. j <= n /\ j \in todo \ blocked
      BY <1>2, <2>2
    <3>. QED
      BY <1>4, <3>2, <3>3 DEF Reached, blocked
  <2>. QED
    BY <2>1, <2>2
<1>17. ASSUME NEW r \in DOMAIN w.table, \A j \in todo : w.placed[j] # r PROVE u.table[r] = w.table[r]
  <2>1. r \notin aside
    BY <1>3, <1>17
  <2>2. u.table[r] = g[n][r]
    BY <1>9, <1>13, <2>1 DEF Put
  <2>. QED
    BY <1>4, <1>17, <2>2 DEF Reached
<1>18. DOMAIN u.placed = DOMAIN w.placed /\ \A i \in DOMAIN w.placed : u.placed[i] = w.placed[i]
  BY <1>5, <1>6, <1>13 DEF Put
<1>. QED
  BY <1>14, <1>15, <1>16, <1>17, <1>18 DEF Updated, u

-----------------------------------------------------------------------------
(* What a unit leaves: in place of the rows `mine` of a table, new ones.   *)

Landed(t, mine, new, w) ==
  /\ DOMAIN w.placed = DOMAIN new /\ w.placed = [i \in DOMAIN w.placed |-> w.placed[i]]
  /\ Distinct(w.placed)
  /\ \A i \in DOMAIN new :
       /\ w.placed[i] \in Nat \ {0} /\ w.placed[i] \notin DOMAIN t \ mine
       /\ w.table[w.placed[i]] = new[i]
  /\ DOMAIN w.table = (DOMAIN t \ mine) \cup Range(w.placed)
  /\ \A r \in DOMAIN t \ mine : w.table[r] = t[r]
  /\ Sound(t) => Judged(w)

LEMMA Inserted ==
  ASSUME NEW t, NEW n \in Nat, DOMAIN t \subseteq 1 .. n,
         NEW new, NEW m \in Nat, DOMAIN new = 1 .. m
  PROVE  Landed(t, {}, new, insert_rows(t, new))
<1> DEFINE at   == NewAt(t, DOMAIN new)
           unit == Unit(t, [i \in DOMAIN new |-> 0])
           w    == insert_rows(t, new)
<1>1. unit.table = t /\ unit.placed = [i \in DOMAIN new |-> 0] /\ unit.failed = FALSE
  BY DEF Unit
<1>2. w = PutAll(unit, at, new)
  BY <1>1, PutNewIs DEF insert_rows
<1>3. /\ DOMAIN at = DOMAIN new
      /\ Distinct(at)
      /\ \A i \in DOMAIN new : at[i] \in Nat \ {0} /\ at[i] \notin DOMAIN t
  <2>1. DOMAIN at = DOMAIN new /\ Distinct(at)
    BY NewRowids
  <2>2. \A i \in DOMAIN new : at[i] \in 1 .. (n + m) /\ at[i] \notin DOMAIN t
    BY NewRowids
  <2>. QED
    BY <2>1, <2>2
<1>. HIDE DEF at, unit, w
<1>4. Put(unit, w, at, new)
  BY <1>1, <1>2, <1>3, PutIn
<1>5. Sound(t) => Judged(w)
  <2>1. Sound(t) => Judged(unit)
    BY <1>1 DEF Judged
  <2>2. DOMAIN at \subseteq Nat
    BY <1>3
  <2>. QED
    BY <1>1, <1>2, <1>3, <2>1, <2>2, PutInJudged
<1>6. DOMAIN w.placed = DOMAIN new /\ (\A i \in DOMAIN new : w.placed[i] = at[i])
      /\ w.placed = [i \in DOMAIN w.placed |-> w.placed[i]]
  <2>1. w.placed = [i \in DOMAIN new |-> at[i]]
    BY <1>1, <1>3, <1>4 DEF Put
  <2>. QED
    BY <2>1
<1>7. Range(w.placed) = Range(at)
  BY <1>3, <1>6 DEF Range
<1>8. Distinct(w.placed)
  BY <1>3, <1>6 DEF Distinct
<1>9. DOMAIN w.table = (DOMAIN t \ {}) \cup Range(w.placed)
  BY <1>1, <1>4, <1>7 DEF Put
<1>10. \A r \in DOMAIN t \ {} : w.table[r] = t[r]
  BY <1>1, <1>4 DEF Put
<1>11. \A i \in DOMAIN new : w.table[w.placed[i]] = new[i]
  BY <1>3, <1>4, <1>6 DEF Put
<1>. QED
  BY <1>3, <1>5, <1>6, <1>8, <1>9, <1>10, <1>11 DEF Landed, w

LEMMA InsertedAnew ==
  ASSUME NEW t, NEW n \in Nat, DOMAIN t \subseteq 1 .. n, NEW mine,
         NEW new, NEW m \in Nat, DOMAIN new = 1 .. m
  PROVE  Landed(t, mine, new, insert_rows(Without(t, mine), new))
<1> DEFINE u == Without(t, mine)
           w == insert_rows(u, new)
<1>1. DOMAIN u = DOMAIN t \ mine /\ (\A r \in DOMAIN t \ mine : u[r] = t[r]) /\ (Sound(t) => Sound(u))
  BY WithoutIs
<1>2. DOMAIN u \subseteq 1 .. n
  BY <1>1
<1>. HIDE DEF u
<1>3. Landed(u, {}, new, w)
  BY <1>2, Inserted
<1>. HIDE DEF w
<1>4. Landed(t, mine, new, w)
  BY <1>1, <1>3 DEF Landed
<1>. QED
  BY <1>4 DEF u, w

(* The rows that go in: a matched one keeps the columns the hook leaves out. *)
Merge(t, placed, out) ==
  [i \in DOMAIN placed |->
    IF placed[i] # 0 THEN Merged(t[placed[i]], out.rows[i], out.emits) ELSE out.rows[i]]

Moves(stored, placed) ==
  ToSet(stored) \ ToSet(placed) # {} \/ \E i \in DOMAIN placed : placed[i] = 0

LEMMA MatchType ==
  ASSUME NEW t, TableOK(t), NEW stored \in Seq(DOMAIN t), Distinct(stored),
         NEW out, OutputOK(out), NEW key
  PROVE  LET placed == Match(t, stored, out, key) IN
         /\ Len(placed) \in Nat /\ DOMAIN placed = 1 .. Len(placed) /\ DOMAIN placed = DOMAIN out.rows
         /\ \A i \in DOMAIN placed : placed[i] \in Nat
         /\ \A i \in DOMAIN placed : placed[i] # 0 => placed[i] \in ToSet(stored) /\ placed[i] \in DOMAIN t
         /\ \A i, j \in DOMAIN placed : placed[i] # 0 /\ placed[i] = placed[j] => i = j
<1> DEFINE placed == Match(t, stored, out, key)
           had    == Had(t, stored, out, key)
           ids    == Ids(out, key)
<1>1. PICK n \in Nat : DOMAIN t \subseteq 1 .. n
  BY DEF TableOK
<1>0. Matching(placed, stored, out, had, ids)
  <2>1. 0 \notin DOMAIN t
    BY <1>1
  <2>. QED
    BY <2>1, MatchIs
<1>4. DOMAIN out.rows = 1 .. Len(out.rows) /\ Len(out.rows) \in Nat
  BY DEF OutputOK
<1>. HIDE DEF placed, had, ids
<1>2. /\ DOMAIN placed = DOMAIN out.rows
      /\ \A i \in DOMAIN placed : placed[i] # 0 =>
           \E m \in Claim(had, ids, i) : m \in DOMAIN stored /\ placed[i] = stored[m]
      /\ \A i, j \in DOMAIN placed : placed[i] # 0 /\ placed[i] = placed[j] => i = j
  BY <1>0 DEF Matching
<1>3. placed = [i \in DOMAIN placed |-> placed[i]]
  BY <1>0, Zenon DEF Matching
<1>5. ASSUME NEW i \in DOMAIN placed, placed[i] # 0
      PROVE  placed[i] \in ToSet(stored) /\ placed[i] \in DOMAIN t
  <2>1. PICK m \in DOMAIN stored : placed[i] = stored[m]
    BY <1>2, <1>5
  <2>. QED
    BY <2>1 DEF ToSet
<1>6. \A i \in DOMAIN placed : placed[i] \in Nat
  <2>1. ASSUME NEW i \in DOMAIN placed PROVE placed[i] \in Nat
    <3>1. CASE placed[i] = 0
      BY <3>1
    <3>2. CASE placed[i] # 0
      BY <1>1, <1>5, <3>2
    <3>. QED
      BY <3>1, <3>2
  <2>. QED
    BY <2>1
<1>7. placed \in [1 .. Len(out.rows) -> Nat]
  BY <1>2, <1>3, <1>4, <1>6
<1>8. placed \in Seq(Nat)
  BY <1>4, <1>7, SeqDef
<1>9. Len(placed) \in Nat /\ DOMAIN placed = 1 .. Len(placed)
  BY <1>8
<1>. QED
  BY <1>2, <1>5, <1>6, <1>9 DEF placed

LEMMA Reconciled ==
  ASSUME NEW t, TableOK(t), NEW stored \in Seq(DOMAIN t), Distinct(stored),
         NEW out, OutputOK(out), NEW key
  PROVE  LET placed == Match(t, stored, out, key)
             w      == reconcile_rows(t, stored, out, key)
         IN  /\ Landed(t, ToSet(stored), Merge(t, placed, out), w)
             /\ \A i \in DOMAIN placed : placed[i] # 0 => w.placed[i] = placed[i]
             /\ w.moved = Moves(stored, placed)
<1> DEFINE placed == Match(t, stored, out, key)
           w      == reconcile_rows(t, stored, out, key)
           kept   == {i \in DOMAIN placed : placed[i] # 0}
           new    == [i \in DOMAIN placed |->
                       IF i \in kept THEN Merged(t[placed[i]], out.rows[i], out.emits)
                       ELSE out.rows[i]]
           updated == {i \in kept : new[i] # t[placed[i]]}
           added   == DOMAIN placed \ kept
           removed == ToSet(stored) \ ToSet(placed)
           unit    == Unit(Without(t, removed), placed)
           done    == UpdateAll(unit, updated, new)
           whole   == PutNew(done, added, new)
           at      == NewAt(done.table, added)
<1>1. PICK n \in Nat : DOMAIN t \subseteq 1 .. n
  BY DEF TableOK
<1>2. /\ Len(placed) \in Nat /\ DOMAIN placed = 1 .. Len(placed) /\ DOMAIN placed = DOMAIN out.rows
      /\ \A i \in DOMAIN placed : placed[i] \in Nat
      /\ \A i \in DOMAIN placed : placed[i] # 0 => placed[i] \in ToSet(stored) /\ placed[i] \in DOMAIN t
      /\ \A i, j \in DOMAIN placed : placed[i] # 0 /\ placed[i] = placed[j] => i = j
  BY MatchType
<1>3. /\ w.table = whole.table /\ w.placed = whole.placed /\ w.failed = whole.failed
      /\ w.moved = (removed # {} \/ added # {})
  BY DEF reconcile_rows
<1>4. new = Merge(t, placed, out)
  BY DEF Merge
<1>5. unit.table = Without(t, removed) /\ unit.placed = placed
  BY DEF Unit
<1>6. \A i \in DOMAIN placed : placed[i] \in ToSet(placed)
  BY DEF ToSet
<1>7. kept \subseteq DOMAIN placed /\ updated \subseteq kept /\ added \cup kept = DOMAIN placed
      /\ (\A i \in kept \ updated : new[i] = t[placed[i]])
      /\ (\A i \in DOMAIN placed : i \in kept <=> placed[i] # 0) /\ added = DOMAIN placed \ kept
      /\ DOMAIN new = DOMAIN placed
  OBVIOUS
<1>8. removed \subseteq DOMAIN t /\ removed \subseteq ToSet(stored) /\ (\A i \in DOMAIN placed : placed[i] \notin removed)
      /\ \A r \in ToSet(stored) \ removed : r \in ToSet(placed)
  <2>1. ToSet(stored) \subseteq DOMAIN t
    BY DEF ToSet
  <2>. QED
    BY <1>6, <2>1
<1>9. PutNew(done, added, new) = PutAll(done, at, new)
  BY PutNewIs
<1>. HIDE DEF placed, w, kept, new, updated, added, removed
<1>10. DOMAIN unit.table = DOMAIN t \ removed
       /\ (\A r \in DOMAIN t \ removed : unit.table[r] = t[r]) /\ (Sound(t) => Sound(unit.table))
  <2>. HIDE DEF unit
  <2>1. DOMAIN Without(t, removed) = DOMAIN t \ removed
    BY WithoutIs
  <2>2. \A r \in DOMAIN t \ removed : Without(t, removed)[r] = t[r]
    BY WithoutIs
  <2>3. Sound(t) => Sound(Without(t, removed))
    BY WithoutIs
  <2>. QED
    BY <1>5, <2>1, <2>2, <2>3
<1>. HIDE DEF unit
<1>11. Updatable(unit, updated)
  <2>1. \A i \in updated : placed[i] \in DOMAIN unit.table
    BY <1>2, <1>7, <1>8, <1>10
  <2>2. \A i, j \in updated : placed[i] = placed[j] => i = j
    BY <1>2, <1>7
  <2>. QED
    BY <1>2, <1>5, <1>7, <2>1, <2>2 DEF Updatable
<1>12. Updated(unit, done, updated, new)
  BY <1>11, UpdateAllIs
<1>13. /\ DOMAIN at = added
       /\ Distinct(at)
       /\ \A i \in added : at[i] \in Nat \ {0} /\ at[i] \notin DOMAIN done.table
  <2>1. DOMAIN done.table \subseteq 1 .. n
    BY <1>1, <1>10, <1>12 DEF Updated
  <2>2. added \subseteq 1 .. Len(placed) /\ Len(placed) \in Nat
    BY <1>2, <1>7
  <2>. HIDE DEF done
  <2>3. DOMAIN at = added /\ Distinct(at)
    BY <2>1, <2>2, NewRowids
  <2>4. \A i \in added : at[i] \in 1 .. (n + Len(placed)) /\ at[i] \notin DOMAIN done.table
    BY <2>1, <2>2, NewRowids
  <2>. QED
    BY <2>2, <2>3, <2>4
<1>. HIDE DEF done, at
<1>14. Put(done, whole, at, new)
  BY <1>9, <1>13, PutIn
<1>15. Sound(t) => Judged(whole)
  <2>1. DOMAIN at \subseteq Nat
    BY <1>2, <1>7, <1>13
  <2>2. Sound(t) => Judged(done)
    BY <1>10, <1>12 DEF Updated
  <2>. QED
    BY <1>9, <1>13, <2>1, <2>2, PutInJudged
<1>. HIDE DEF whole
<1>16. DOMAIN done.table = DOMAIN t \ removed /\ DOMAIN done.placed = DOMAIN placed
       /\ \A i \in DOMAIN placed : done.placed[i] = placed[i]
  BY <1>5, <1>10, <1>12 DEF Updated
<1>17. ASSUME NEW i \in kept PROVE done.table[placed[i]] = new[i] /\ placed[i] \in DOMAIN done.table
  <2>1. placed[i] \in DOMAIN t \ removed
    BY <1>2, <1>7, <1>8
  <2>2. CASE i \in updated
    BY <1>5, <1>12, <1>16, <2>1, <2>2 DEF Updated
  <2>3. CASE i \notin updated
    <3>1. \A j \in updated : placed[j] # placed[i]
      BY <1>2, <1>7, <2>3
    <3>2. done.table[placed[i]] = unit.table[placed[i]]
      BY <1>5, <1>10, <1>12, <2>1, <3>1 DEF Updated
    <3>. QED
      BY <1>7, <1>10, <1>16, <2>1, <2>3, <3>2
  <2>. QED
    BY <2>2, <2>3
<1>18. DOMAIN whole.placed = DOMAIN placed
       /\ (\A i \in DOMAIN placed : whole.placed[i] = IF i \in added THEN at[i] ELSE placed[i])
       /\ whole.placed = [i \in DOMAIN whole.placed |-> whole.placed[i]]
  <2>1. whole.placed = [i \in DOMAIN placed |-> IF i \in added THEN at[i] ELSE placed[i]]
    BY <1>13, <1>14, <1>16 DEF Put
  <2>. QED
    BY <2>1
<1>19. ASSUME NEW i \in DOMAIN placed
       PROVE  /\ whole.placed[i] \in Nat \ {0} /\ whole.placed[i] \notin DOMAIN t \ ToSet(stored)
              /\ whole.table[whole.placed[i]] = new[i]
  <2>1. CASE i \in added
    BY <1>8, <1>13, <1>14, <1>16, <1>18, <2>1 DEF Put
  <2>2. CASE i \in kept
    <3>1. whole.placed[i] = placed[i]
      BY <1>7, <1>18, <2>2
    <3>. QED
      BY <1>2, <1>7, <1>14, <1>17, <2>2, <3>1 DEF Put
  <2>. QED
    BY <1>7, <2>1, <2>2
<1>20. Distinct(whole.placed)
  <2>1. ASSUME NEW i \in DOMAIN placed, NEW j \in DOMAIN placed, whole.placed[i] = whole.placed[j] PROVE i = j
    <3>1. CASE i \in added /\ j \in added
      BY <1>13, <1>18, <2>1, <3>1 DEF Distinct
    <3>2. CASE i \in kept /\ j \in kept
      BY <1>2, <1>7, <1>18, <2>1, <3>2
    <3>3. CASE i \in added /\ j \in kept
      BY <1>7, <1>13, <1>17, <1>18, <2>1, <3>3
    <3>4. CASE i \in kept /\ j \in added
      BY <1>7, <1>13, <1>17, <1>18, <2>1, <3>4
    <3>. QED
      BY <1>7, <3>1, <3>2, <3>3, <3>4
  <2>. QED
    BY <1>18, <2>1 DEF Distinct
<1>21. DOMAIN whole.table = (DOMAIN t \ ToSet(stored)) \cup Range(whole.placed)
  <2>1. DOMAIN whole.table = (DOMAIN t \ removed) \cup Range(at)
    BY <1>14, <1>16 DEF Put
  <2>2. Range(at) \subseteq Range(whole.placed)
    <3>1. ASSUME NEW i \in added PROVE at[i] \in Range(whole.placed)
      BY <1>7, <1>18 DEF Range
    <3>. QED
      BY <1>13, <3>1 DEF Range
  <2>3. ASSUME NEW r \in ToSet(stored) \ removed PROVE r \in Range(whole.placed)
    <3>0. r \in DOMAIN t /\ r \in ToSet(placed)
      BY <1>8 DEF ToSet
    <3>1. PICK i \in DOMAIN placed : placed[i] = r
      BY <3>0 DEF ToSet
    <3>2. r # 0
      BY <1>1, <3>0
    <3>3. whole.placed[i] = r
      BY <1>7, <1>18, <3>1, <3>2
    <3>. QED
      BY <1>18, <3>1, <3>3 DEF Range
  <2>4. ASSUME NEW i \in DOMAIN placed PROVE whole.placed[i] \in (DOMAIN t \ removed) \cup Range(at)
    <3>1. CASE i \in added
      BY <1>13, <1>18, <3>1 DEF Range
    <3>2. CASE i \in kept
      BY <1>7, <1>16, <1>17, <1>18, <3>2
    <3>. QED
      BY <1>7, <3>1, <3>2
  <2>5. Range(whole.placed) \subseteq (DOMAIN t \ removed) \cup Range(at)
    BY <1>18, <2>4 DEF Range
  <2>. QED
    BY <1>8, <2>1, <2>2, <2>3, <2>5
<1>22. ASSUME NEW r \in DOMAIN t \ ToSet(stored) PROVE whole.table[r] = t[r]
  <2>1. r \in DOMAIN t \ removed
    BY <1>8
  <2>2. ASSUME NEW j \in updated PROVE placed[j] # r
    BY <1>2, <1>7
  <2>3. done.table[r] = t[r]
    BY <1>5, <1>10, <1>12, <2>1, <2>2 DEF Updated
  <2>. QED
    BY <1>14, <1>16, <2>1, <2>3 DEF Put
<1>23. Landed(t, ToSet(stored), new, w)
  <2>1. Sound(t) => Judged(w)
    BY <1>3, <1>15 DEF Judged
  <2>. QED
    BY <1>3, <1>7, <1>18, <1>19, <1>20, <1>21, <1>22, <2>1 DEF Landed
<1>24. \A i \in DOMAIN placed : placed[i] # 0 => w.placed[i] = placed[i]
  BY <1>3, <1>7, <1>18
<1>25. w.moved = Moves(stored, placed)
  BY <1>3 DEF Moves, removed, added, kept
<1>. QED
  BY <1>4, <1>23, <1>24, <1>25 DEF placed, w

(* Rows that are read as the output's are. *)
Fits(new, out) ==
  /\ DOMAIN new = DOMAIN out.rows
  /\ \A i \in DOMAIN new : new[i] \in RowType /\ Seen(new[i], out) = Seen(out.rows[i], out)

LEMMA RowsFit == ASSUME NEW out, OutputOK(out) PROVE Fits(out.rows, out)
  BY DEF Fits, OutputOK

LEMMA MergeFits ==
  ASSUME NEW t, TableOK(t), NEW out, OutputOK(out), NEW placed, DOMAIN placed = DOMAIN out.rows,
         \A i \in DOMAIN placed : placed[i] # 0 => placed[i] \in DOMAIN t
  PROVE  Fits(Merge(t, placed, out), out)
<1> DEFINE new == Merge(t, placed, out)
<1>1. DOMAIN new = DOMAIN out.rows
  BY DEF Merge
<1>2. ASSUME NEW i \in DOMAIN out.rows PROVE new[i] \in RowType /\ Seen(new[i], out) = Seen(out.rows[i], out)
  <2>1. new[i] = IF placed[i] # 0 THEN Merged(t[placed[i]], out.rows[i], out.emits) ELSE out.rows[i]
    BY DEF Merge
  <2>2. out.rows[i] \in RowType /\ out.emits \subseteq Columns
    BY DEF OutputOK
  <2>3. CASE placed[i] = 0
    BY <2>1, <2>2, <2>3
  <2>4. CASE placed[i] # 0
    <3>1. t[placed[i]] \in RowType
      BY <2>4 DEF TableOK
    <3>2. new[i] = [c \in Columns |-> IF c \in out.emits THEN out.rows[i][c] ELSE t[placed[i]][c]]
      BY <2>1, <2>4 DEF Merged
    <3>3. new[i] \in RowType
      BY <2>2, <3>1, <3>2 DEF RowType
    <3>4. \A c \in out.emits : new[i][c] = out.rows[i][c]
      BY <2>2, <3>2
    <3>5. Seen(new[i], out) = Seen(out.rows[i], out)
      BY <3>4 DEF Seen, Restrict
    <3>. QED
      BY <3>3, <3>5
  <2>. QED
    BY <2>3, <2>4
<1>. QED
  BY <1>1, <1>2 DEF Fits

-----------------------------------------------------------------------------
(* The invariant, of each operation in turn.                               *)

LEMMA NothingOK == OutputOK(Nothing)
<1>1. Nothing.rows = <<>> /\ Nothing.emits = {}
  BY DEF Nothing
<1>. QED
  BY <1>1 DEF OutputOK

LEMMA OutOK == \A out \in Outputs \cup {Nothing} : OutputOK(out)
<1>1. ASSUME NEW out \in Outputs PROVE OutputOK(out)
  <2>1. out \in [rows : Seq([Columns -> Values]), emits : SUBSET Columns]
    BY StoreAssumption
  <2>2. out.rows \in Seq([Columns -> Values]) /\ out.emits \in SUBSET Columns
    BY <2>1
  <2>. QED
    BY <2>2, StoreAssumption DEF OutputOK, RowType
<1>. QED
  BY <1>1, NothingOK

LEMMA TypeTable == StoreTypeOK => TableOK(table)
<1>1. MaxRowid \in Nat
  BY StoreAssumption
<1>. QED
  BY <1>1 DEF StoreTypeOK, TableOK

LEMMA StoreInvInit == StoreInit => StoreInv
<1> SUFFICES ASSUME StoreInit PROVE StoreInv
  OBVIOUS
<1>1. DOMAIN table = {} /\ ranges = {} /\ perTable \in BOOLEAN
  BY DEF StoreInit
<1>2. owned \in [Files -> Seq(1 .. MaxRowid)] /\ \A f \in Files : owned[f] = <<>>
  BY DEF StoreInit
<1>3. made \in [Files \cup {Hook} -> Outputs \cup {Nothing}]
      /\ \A o \in Files \cup {Hook} : made[o].rows = <<>>
  BY DEF StoreInit, Nothing
<1>4. StoreTypeOK
  BY <1>1, <1>2, <1>3 DEF StoreTypeOK
<1>5. OwnedInv /\ CoverInv /\ Sound(table)
  BY <1>1, <1>2 DEF OwnedInv, CoverInv, Sound, Distinct, ToSet
<1>6. MadeInv
  BY <1>2, <1>3 DEF MadeInv
<1>7. HookInv
  <2>1. made[Hook].rows = <<>>
    BY <1>3
  <2> DEFINE p == [i \in DOMAIN made[Hook].rows |-> i]
  <2>2. DOMAIN p = {} /\ p \in [DOMAIN made[Hook].rows -> DOMAIN table]
    BY <2>1
  <2>. HIDE DEF p
  <2>3. At(p, made[Hook])
    BY <1>1, <2>1, <2>2 DEF At, Distinct, Range
  <2>. QED
    BY <2>2, <2>3 DEF HookInv
<1>. QED
  BY <1>4, <1>5, <1>6, <1>7 DEF StoreInv

(* A file's unit keeps the invariant, landed or rolled back. *)
LEMMA LandKeeps ==
  ASSUME StoreInv, NEW f \in Files, NEW out \in Outputs \cup {Nothing}, NEW new, Fits(new, out),
         NEW w, Landed(table, ToSet(owned[f]), new, w), Land(f, out, w)
  PROVE  StoreInv'
<1> DEFINE mine == ToSet(owned[f])
           rest == DOMAIN table \ mine
<1>1. ~perTable /\ Bounded(w) /\ perTable' = perTable /\ ranges' = ranges
  BY DEF Land
<1>2. CASE w.failed
  <2>1. table' = table /\ owned' = owned /\ made' = made
    BY <1>2 DEF Land
  <2>. QED
    BY <1>1, <2>1 DEF StoreInv, StoreTypeOK, OwnedInv, CoverInv, MadeInv, HookInv, At
<1>3. CASE ~w.failed
  <2>1. table' = w.table /\ owned' = [owned EXCEPT ![f] = w.placed] /\ made' = [made EXCEPT ![f] = out]
    BY <1>3 DEF Land, Own
  <2>2. StoreTypeOK /\ OwnedInv /\ MadeInv /\ Sound(table)
    BY DEF StoreInv
  <2>3. MaxRowid \in Nat /\ OutputOK(out)
    BY StoreAssumption, OutOK
  <2>4. /\ owned'[f] = w.placed /\ made'[f] = out
        /\ \A g \in Files \ {f} : owned'[g] = owned[g] /\ made'[g] = made[g]
    BY <2>1, <2>2 DEF StoreTypeOK
  <2>5. /\ DOMAIN w.placed = DOMAIN out.rows
        /\ Distinct(w.placed)
        /\ \A i \in DOMAIN w.placed :
             /\ w.placed[i] \in Nat \ {0} /\ w.placed[i] \notin rest
             /\ table'[w.placed[i]] = new[i]
             /\ new[i] \in RowType /\ Seen(new[i], out) = Seen(out.rows[i], out)
        /\ DOMAIN table' = rest \cup Range(w.placed)
        /\ \A r \in rest : table'[r] = table[r]
    BY <2>1 DEF Landed, Fits
  <2>6. Range(w.placed) = ToSet(w.placed)
    BY DEF Range, ToSet
  <2>7. Sound(table)'
    <3>1. Sound(w.table)
      BY <1>3, <2>2 DEF Landed, Judged
    <3>. QED
      BY <2>1, <3>1 DEF Sound
  <2>8. DOMAIN table' \subseteq 1 .. MaxRowid
    <3>1. \A r \in DOMAIN table' : r <= MaxRowid
      BY <1>1, <2>1 DEF Bounded
    <3>2. \A r \in DOMAIN table' : r \in Nat \ {0}
      <4>1. \A r \in rest : r \in Nat \ {0}
        BY <2>2 DEF StoreTypeOK
      <4>2. \A r \in Range(w.placed) : r \in Nat \ {0}
        BY <2>5 DEF Range
      <4>. QED
        BY <2>5, <4>1, <4>2
    <3>. QED
      BY <2>3, <3>1, <3>2
  <2>9. \A r \in DOMAIN table' : table'[r] \in RowType
    <3>1. \A r \in rest : table'[r] \in RowType
      BY <2>2, <2>5 DEF StoreTypeOK
    <3>2. \A r \in Range(w.placed) : table'[r] \in RowType
      BY <2>5 DEF Range
    <3>. QED
      BY <2>5, <3>1, <3>2
  <2>10. \A i \in DOMAIN w.placed : w.placed[i] \in DOMAIN table'
    BY <2>5 DEF Range
  <2>11. w.placed \in Seq(1 .. MaxRowid)
    <3>1. DOMAIN w.placed = 1 .. Len(out.rows) /\ Len(out.rows) \in Nat
      BY <2>3, <2>5 DEF OutputOK
    <3>2. w.placed = [i \in DOMAIN w.placed |-> w.placed[i]]
      BY DEF Landed
    <3>3. w.placed \in [1 .. Len(out.rows) -> 1 .. MaxRowid]
      BY <2>8, <2>10, <3>1, <3>2
    <3>. QED
      BY <3>1, <3>3, SeqDef
  <2>12. StoreTypeOK'
    <3>1. owned' \in [Files -> Seq(1 .. MaxRowid)]
      BY <2>1, <2>2, <2>11 DEF StoreTypeOK
    <3>2. made' \in [Files \cup {Hook} -> Outputs \cup {Nothing}]
      BY <2>1, <2>2 DEF StoreTypeOK
    <3>. QED
      BY <1>1, <2>2, <2>8, <2>9, <3>1, <3>2 DEF StoreTypeOK
  <2>13. \A g \in Files : g # f => ToSet(owned[g]) \subseteq rest
    BY <1>1, <2>2 DEF OwnedInv
  <2>14. ToSet(w.placed) \cap rest = {}
    BY <2>5 DEF ToSet
  <2>15. OwnedInv'
    <3>1. \A g \in Files : Distinct(owned'[g]) /\ ToSet(owned'[g]) \subseteq DOMAIN table'
      <4>1. ASSUME NEW g \in Files \ {f} PROVE Distinct(owned[g]) /\ ToSet(owned[g]) \subseteq DOMAIN table'
        BY <1>1, <2>2, <2>5, <2>13 DEF OwnedInv
      <4>. QED
        BY <2>4, <2>5, <2>6, <4>1
    <3>2. \A g, h \in Files : g # h => ToSet(owned'[g]) \cap ToSet(owned'[h]) = {}
      <4>1. ASSUME NEW g \in Files, NEW h \in Files, g # h PROVE ToSet(owned'[g]) \cap ToSet(owned'[h]) = {}
        <5>1. CASE g = f
          BY <2>4, <2>13, <2>14, <4>1, <5>1
        <5>2. CASE h = f
          BY <2>4, <2>13, <2>14, <4>1, <5>2
        <5>3. CASE g # f /\ h # f
          BY <1>1, <2>2, <2>4, <4>1, <5>3 DEF OwnedInv
        <5>. QED
          BY <5>1, <5>2, <5>3
      <4>. QED
        BY <4>1
    <3>3. ASSUME NEW r \in DOMAIN table' PROVE \E g \in Files : r \in ToSet(owned'[g])
      <4>1. CASE r \in rest
        <5>1. PICK g \in Files : r \in ToSet(owned[g])
          BY <1>1, <2>2, <4>1 DEF OwnedInv
        <5>2. g # f
          BY <4>1, <5>1
        <5>. QED
          BY <2>4, <5>1, <5>2
      <4>2. CASE r \notin rest
        BY <2>4, <2>5, <2>6, <4>2
      <4>. QED
        BY <4>1, <4>2
    <3>. QED
      BY <3>1, <3>2, <3>3 DEF OwnedInv, Distinct, ToSet
  <2>16. MadeInv'
    <3>1. ASSUME NEW g \in Files
          PROVE  /\ DOMAIN owned'[g] = DOMAIN made'[g].rows
                 /\ \A i \in DOMAIN owned'[g] :
                      Seen(table'[owned'[g][i]], made'[g]) = Seen(made'[g].rows[i], made'[g])
      <4>1. CASE g = f
        BY <2>4, <2>5, <4>1
      <4>2. CASE g # f
        <5>1. owned'[g] = owned[g] /\ made'[g] = made[g]
          BY <2>4, <4>2
        <5>2. \A i \in DOMAIN owned[g] : table'[owned[g][i]] = table[owned[g][i]]
          BY <2>5, <2>13, <4>2 DEF ToSet
        <5>. QED
          BY <1>1, <2>2, <5>1, <5>2 DEF MadeInv
      <4>. QED
        BY <4>1, <4>2
    <3>. QED
      BY <3>1 DEF MadeInv, Seen
  <2>17. CoverInv' /\ HookInv'
    BY <1>1 DEF CoverInv, HookInv
  <2>. QED
    BY <2>7, <2>12, <2>15, <2>16, <2>17 DEF StoreInv
<1>. QED
  BY <1>2, <1>3

(* The range of a set holds it. *)
LEMMA RangeOfIs ==
  ASSUME NEW n \in Nat, NEW T, T \subseteq 1 .. n
  PROVE  /\ RangeOf(T) \subseteq (1 .. n) \X (1 .. n)
         /\ \A r \in T : \E s \in RangeOf(T) : r \in s[1] .. s[2]
<1>1. CASE T = {}
  BY <1>1 DEF RangeOf
<1>2. CASE T # {}
  <2>1. Min(T) \in T /\ \A r \in T : Min(T) <= r
    <3>1. T \subseteq Nat
      OBVIOUS
    <3>. QED
      BY <1>2, <3>1, MinIs
  <2>2. Max(T) \in T /\ \A r \in T : r <= Max(T)
    <3>1. T \subseteq 0 .. n
      OBVIOUS
    <3>. QED
      BY <1>2, <3>1, MaxIs
  <2>3. RangeOf(T) = {<<Min(T), Max(T)>>}
    BY <1>2 DEF RangeOf
  <2>4. Min(T) \in 1 .. n /\ Max(T) \in 1 .. n /\ \A r \in T : r \in Min(T) .. Max(T)
    <3>1. Min(T) \in 1 .. n /\ Max(T) \in 1 .. n
      BY <2>1, <2>2, Zenon
    <3>2. ASSUME NEW r \in T PROVE r \in Min(T) .. Max(T)
      <4>1. r \in 1 .. n /\ Min(T) <= r /\ r <= Max(T)
        BY <2>1, <2>2, Zenon
      <4>. QED
        BY <3>1, <4>1
    <3>. QED
      BY <3>1, <3>2
  <2>5. RangeOf(T) \subseteq (1 .. n) \X (1 .. n)
    BY <2>3, <2>4
  <2>6. ASSUME NEW r \in T PROVE \E s \in RangeOf(T) : r \in s[1] .. s[2]
    <3>1. PICK s \in RangeOf(T) : s = <<Min(T), Max(T)>>
      BY <2>3
    <3>2. s[1] = Min(T) /\ s[2] = Max(T)
      BY <3>1
    <3>. QED
      BY <2>4, <3>1, <3>2
  <2>. QED
    BY <2>5, <2>6
<1>. QED
  BY <1>1, <1>2

Covers(now, rowids) == \A r \in rowids : \E s \in now : r \in s[1] .. s[2]

(* A per-table hook's unit keeps the invariant, landed or rolled back. *)
LEMMA LandAllKeeps ==
  ASSUME StoreInv, NEW out \in Outputs, NEW new, Fits(new, out),
         NEW mine, DOMAIN table \subseteq mine,
         NEW w, Landed(table, mine, new, w),
         NEW now,
         Bounded(w) => now \subseteq (1 .. MaxRowid) \X (1 .. MaxRowid) /\ Covers(now, Range(w.placed)),
         LandAll(out, w, now)
  PROVE  StoreInv'
<1>1. perTable /\ Bounded(w) /\ perTable' = perTable /\ owned' = owned
  BY DEF LandAll
<1>2. CASE w.failed
  <2>1. table' = table /\ ranges' = ranges /\ made' = made
    BY <1>2 DEF LandAll
  <2>. QED
    BY <1>1, <2>1 DEF StoreInv, StoreTypeOK, OwnedInv, CoverInv, MadeInv, HookInv, At
<1>3. CASE ~w.failed
  <2>1. table' = w.table /\ ranges' = now /\ made' = [made EXCEPT ![Hook] = out]
    BY <1>3 DEF LandAll
  <2>2. StoreTypeOK /\ Sound(table)
    BY DEF StoreInv
  <2>3. MaxRowid \in Nat /\ OutputOK(out)
    BY StoreAssumption, OutOK
  <2>4. made'[Hook] = out /\ made' \in [Files \cup {Hook} -> Outputs \cup {Nothing}]
    BY <2>1, <2>2 DEF StoreTypeOK
  <2>5. /\ DOMAIN w.placed = DOMAIN out.rows
        /\ Distinct(w.placed)
        /\ \A i \in DOMAIN w.placed :
             /\ w.placed[i] \in Nat \ {0}
             /\ table'[w.placed[i]] = new[i]
             /\ new[i] \in RowType /\ Seen(new[i], out) = Seen(out.rows[i], out)
        /\ DOMAIN table' = Range(w.placed)
    BY <2>1 DEF Landed, Fits
  <2>6. Sound(table)'
    <3>1. Sound(w.table)
      BY <1>3, <2>2 DEF Landed, Judged
    <3>. QED
      BY <2>1, <3>1 DEF Sound
  <2>7. DOMAIN table' \subseteq 1 .. MaxRowid
    <3>1. \A r \in DOMAIN table' : r <= MaxRowid
      BY <1>1, <2>1 DEF Bounded
    <3>2. \A r \in DOMAIN table' : r \in Nat \ {0}
      BY <2>5 DEF Range
    <3>. QED
      BY <2>3, <3>1, <3>2
  <2>8. \A r \in DOMAIN table' : table'[r] \in RowType
    BY <2>5 DEF Range
  <2>9. StoreTypeOK'
    BY <1>1, <2>1, <2>2, <2>4, <2>7, <2>8 DEF StoreTypeOK
  <2>10. CoverInv'
    BY <1>1, <2>1, <2>5 DEF CoverInv, Covers
  <2>11. HookInv'
    <3>1. \A i \in DOMAIN w.placed : Seen(table'[w.placed[i]], out) = Seen(out.rows[i], out)
      BY <2>5
    <3>2. At(w.placed, made[Hook])'
      BY <2>4, <2>5, <3>1 DEF At, Distinct, Range, Seen
    <3>3. w.placed = [i \in DOMAIN w.placed |-> w.placed[i]]
      BY DEF Landed
    <3>4. \A i \in DOMAIN w.placed : w.placed[i] \in DOMAIN table'
      BY <2>5 DEF Range
    <3>5. w.placed \in [DOMAIN out.rows -> DOMAIN table']
      BY <2>5, <3>3, <3>4
    <3>. QED
      BY <2>4, <3>2, <3>5 DEF HookInv
  <2>12. OwnedInv' /\ MadeInv'
    BY <1>1 DEF OwnedInv, MadeInv
  <2>. QED
    BY <2>6, <2>9, <2>10, <2>11, <2>12 DEF StoreInv
<1>. QED
  BY <1>2, <1>3

-----------------------------------------------------------------------------
(* Each operation makes such a unit.                                       *)

OutRowsDomain(out) == Len(out.rows) \in Nat /\ DOMAIN out.rows = 1 .. Len(out.rows)

LEMMA OutRows == ASSUME NEW out, OutputOK(out) PROVE OutRowsDomain(out)
  BY DEF OutputOK, OutRowsDomain

LEMMA ReplacedLands ==
  ASSUME StoreTypeOK, NEW out, OutputOK(out), NEW mine
  PROVE  Landed(table, mine, out.rows, insert_rows(Without(table, mine), out.rows))
<1>1. DOMAIN table \subseteq 1 .. MaxRowid /\ MaxRowid \in Nat
  BY StoreAssumption DEF StoreTypeOK
<1>2. Len(out.rows) \in Nat /\ DOMAIN out.rows = 1 .. Len(out.rows)
  BY OutRows DEF OutRowsDomain
<1>. QED
  BY <1>1, <1>2, InsertedAnew

(* What a file owns is all there. *)
LEMMA StoredIs ==
  ASSUME StoreTypeOK, OwnedInv, ~perTable, NEW f \in Files
  PROVE  /\ Stored(f) = owned[f]
         /\ owned[f] \in Seq(DOMAIN table) /\ Distinct(owned[f])
<1>1. owned[f] \in Seq(1 .. MaxRowid) /\ Distinct(owned[f]) /\ ToSet(owned[f]) \subseteq DOMAIN table
  BY DEF StoreTypeOK, OwnedInv
<1>2. Len(owned[f]) \in Nat /\ DOMAIN owned[f] = 1 .. Len(owned[f])
      /\ owned[f] = [n \in 1 .. Len(owned[f]) |-> owned[f][n]]
  BY <1>1
<1>3. \A n \in DOMAIN owned[f] : owned[f][n] \in DOMAIN table
  BY <1>1 DEF ToSet
<1> DEFINE there == InOrder({n \in DOMAIN owned[f] : owned[f][n] \in DOMAIN table})
<1>4. there = [n \in 1 .. Len(owned[f]) |-> n]
  <2>1. {n \in DOMAIN owned[f] : owned[f][n] \in DOMAIN table} = 1 .. Len(owned[f])
    BY <1>2, <1>3
  <2>2. InOrder(1 .. Len(owned[f])) = [n \in 1 .. Len(owned[f]) |-> n]
    BY <1>2, InOrderAll
  <2>. QED
    BY <2>1, <2>2, Zenon
<1>5. Stored(f) = [n \in DOMAIN there |-> owned[f][there[n]]]
  BY DEF Stored
<1>. HIDE DEF there
<1>6. Stored(f) = [n \in 1 .. Len(owned[f]) |-> owned[f][n]]
  BY <1>4, <1>5
<1>7. owned[f] \in [1 .. Len(owned[f]) -> DOMAIN table]
  BY <1>2, <1>3
<1>8. owned[f] \in Seq(DOMAIN table)
  BY <1>2, <1>7, SeqDef
<1>. QED
  BY <1>1, <1>2, <1>6, <1>8

(* The rowids of a table, each once. *)
LEMMA RowidsIs ==
  ASSUME StoreTypeOK
  PROVE  /\ Rowids \in Seq(DOMAIN table) /\ Distinct(Rowids) /\ ToSet(Rowids) = DOMAIN table
<1> DEFINE N == Cardinality(DOMAIN table)
<1>1. DOMAIN table \subseteq 1 .. MaxRowid /\ MaxRowid \in Nat
  BY StoreAssumption DEF StoreTypeOK
<1>2. /\ N \in Nat
      /\ Rowids \in [1 .. N -> DOMAIN table]
      /\ \A i, j \in 1 .. N : Rowids[i] = Rowids[j] => i = j
      /\ \A x \in DOMAIN table : \E i \in 1 .. N : Rowids[i] = x
  <2>1. Rowids = InOrder(DOMAIN table)
    BY DEF Rowids
  <2>. QED
    BY <1>1, <2>1, Ordered
<1>. HIDE DEF N
<1>3. Rowids \in Seq(DOMAIN table)
  BY <1>2, SeqDef
<1>4. DOMAIN Rowids = 1 .. N /\ \A i \in 1 .. N : Rowids[i] \in DOMAIN table
  BY <1>2
<1>5. ToSet(Rowids) = DOMAIN table
  <2>1. ToSet(Rowids) = {Rowids[i] : i \in 1 .. N}
    BY <1>4 DEF ToSet
  <2>2. \A x \in DOMAIN table : x \in {Rowids[i] : i \in 1 .. N}
    BY <1>2
  <2>3. \A x \in {Rowids[i] : i \in 1 .. N} : x \in DOMAIN table
    BY <1>4
  <2>. QED
    BY <2>1, <2>2, <2>3
<1>. QED
  BY <1>2, <1>3, <1>4, <1>5 DEF Distinct

UpsertNew(f, out) ==
  IF row_key(out) = {} THEN out.rows
  ELSE Merge(table, Match(table, owned[f], out, row_key(out)), out)

LEMMA UpsertLands ==
  ASSUME StoreInv, ~perTable, NEW f \in Files, NEW out, OutputOK(out)
  PROVE  /\ Landed(table, ToSet(owned[f]), UpsertNew(f, out), Upserted(f, out))
         /\ Fits(UpsertNew(f, out), out)
<1>1. StoreTypeOK /\ OwnedInv /\ TableOK(table)
  BY TypeTable DEF StoreInv
<1>2. CASE row_key(out) = {}
  <2>1. Upserted(f, out) = insert_rows(Without(table, ToSet(owned[f])), out.rows)
    BY <1>2 DEF Upserted, Replaced
  <2>2. UpsertNew(f, out) = out.rows
    BY <1>2 DEF UpsertNew
  <2>. QED
    BY <1>1, <2>1, <2>2, ReplacedLands, RowsFit
<1>3. CASE row_key(out) # {}
  <2> DEFINE key == row_key(out)
             placed == Match(table, owned[f], out, key)
  <2>1. Stored(f) = owned[f] /\ owned[f] \in Seq(DOMAIN table) /\ Distinct(owned[f])
    BY <1>1, StoredIs
  <2>2. Upserted(f, out) = reconcile_rows(table, owned[f], out, key)
    BY <1>3, <2>1 DEF Upserted
  <2>3. UpsertNew(f, out) = Merge(table, placed, out)
    BY <1>3 DEF UpsertNew
  <2>. HIDE DEF key
  <2>4. Landed(table, ToSet(owned[f]), Merge(table, placed, out), reconcile_rows(table, owned[f], out, key))
    BY <1>1, <2>1, Reconciled
  <2>5. DOMAIN placed = DOMAIN out.rows /\ \A i \in DOMAIN placed : placed[i] # 0 => placed[i] \in DOMAIN table
    BY <1>1, <2>1, MatchType
  <2>6. Fits(Merge(table, placed, out), out)
    BY <1>1, <2>5, MergeFits
  <2>. QED
    BY <2>2, <2>3, <2>4, <2>6
<1>. QED
  BY <1>2, <1>3

(* A per-table hook's rows, reconciled: the ranges still cover them. *)
LEMMA RefreshKeeps ==
  ASSUME StoreInv, NEW out \in Outputs, NEW key, reconcile_batch_rows(out, key)
  PROVE  StoreInv'
<1> DEFINE w      == reconcile_rows(table, Rowids, out, key)
           placed == Match(table, Rowids, out, key)
<1>1. perTable /\ LandAll(out, w, Refit(w))
  BY DEF reconcile_batch_rows, LandAll
<1>2. StoreTypeOK /\ CoverInv /\ TableOK(table) /\ OutputOK(out) /\ MaxRowid \in Nat
  BY TypeTable, OutOK, StoreAssumption DEF StoreInv
<1>3. Rowids \in Seq(DOMAIN table) /\ Distinct(Rowids) /\ ToSet(Rowids) = DOMAIN table
  BY <1>2, RowidsIs
<1>4. Landed(table, ToSet(Rowids), Merge(table, placed, out), w)
  BY <1>2, <1>3, Reconciled
<1>5. \A i \in DOMAIN placed : placed[i] # 0 => w.placed[i] = placed[i]
  BY <1>2, <1>3, Reconciled
<1>6. w.moved = Moves(Rowids, placed)
  BY <1>2, <1>3, Reconciled
<1>7. /\ DOMAIN placed = DOMAIN out.rows
      /\ \A i \in DOMAIN placed : placed[i] # 0 => placed[i] \in ToSet(Rowids) /\ placed[i] \in DOMAIN table
  BY <1>2, <1>3, MatchType
<1>8. Fits(Merge(table, placed, out), out)
  BY <1>2, <1>7, MergeFits
<1>. HIDE DEF w, placed
<1>9. ToSet(w.placed) = Range(w.placed) /\ DOMAIN w.placed = DOMAIN placed
  BY <1>4, <1>7, <1>8 DEF ToSet, Range, Landed, Fits
<1>10. ASSUME Bounded(w)
       PROVE  Refit(w) \subseteq (1 .. MaxRowid) \X (1 .. MaxRowid) /\ Covers(Refit(w), Range(w.placed))
  <2>1. CASE w.moved
    <3>1. Refit(w) = RangeOf(Range(w.placed))
      BY <1>9, <2>1 DEF Refit
    <3>2. Range(w.placed) \subseteq 1 .. MaxRowid
      <4>1. \A i \in DOMAIN w.placed : w.placed[i] \in Nat \ {0} /\ w.placed[i] \in DOMAIN w.table
        BY <1>4 DEF Landed, Range
      <4>2. \A i \in DOMAIN w.placed : w.placed[i] \in 1 .. MaxRowid
        BY <1>2, <1>10, <4>1 DEF Bounded
      <4>. QED
        BY <4>2 DEF Range
    <3>. QED
      BY <1>2, <3>1, <3>2, RangeOfIs DEF Covers
  <2>2. CASE ~w.moved
    <3>1. Refit(w) = ranges
      BY <2>2 DEF Refit
    <3>2. \A i \in DOMAIN placed : placed[i] # 0
      BY <1>6, <2>2 DEF Moves
    <3>3. Range(w.placed) \subseteq DOMAIN table
      BY <1>5, <1>7, <1>9, <3>2 DEF Range
    <3>. QED
      BY <1>1, <1>2, <3>1, <3>3 DEF StoreTypeOK, CoverInv, Covers
  <2>. QED
    BY <2>1, <2>2
<1>. QED
  BY <1>1, <1>3, <1>4, <1>8, <1>10, LandAllKeeps

LEMMA StreamKeeps == ASSUME StoreInv, stream_table_rows PROVE StoreInv'
<1>0. PICK out \in Outputs : \E n \in 0 .. Len(out.rows) :
        LET w == insert_rows(table, out.rows)
            head == {w.placed[i] : i \in 1 .. n}
        IN  LandAll(out, w, RangeOf(head) \cup RangeOf(ToSet(w.placed) \ head))
  BY DEF stream_table_rows
<1>1. PICK n \in 0 .. Len(out.rows) :
        LET w == insert_rows(table, out.rows)
            head == {w.placed[i] : i \in 1 .. n}
        IN  LandAll(out, w, RangeOf(head) \cup RangeOf(ToSet(w.placed) \ head))
  BY <1>0
<1> DEFINE w == insert_rows(table, out.rows)
           head == {w.placed[i] : i \in 1 .. n}
           rest == ToSet(w.placed) \ head
           now == RangeOf(head) \cup RangeOf(rest)
<1>2. LandAll(out, w, now) /\ ranges = {}
  BY <1>1 DEF stream_table_rows
<1>3. perTable
  BY <1>2 DEF LandAll
<1>4. StoreTypeOK /\ CoverInv /\ OutputOK(out) /\ MaxRowid \in Nat
  BY OutOK, StoreAssumption DEF StoreInv
<1>5. DOMAIN table = {}
  BY <1>2, <1>3, <1>4 DEF CoverInv
<1>6. Len(out.rows) \in Nat /\ DOMAIN out.rows = 1 .. Len(out.rows)
  BY <1>4, OutRows DEF OutRowsDomain
<1>7. Landed(table, {}, out.rows, w)
  <2>1. DOMAIN table \subseteq 1 .. MaxRowid
    BY <1>5
  <2>. QED
    BY <1>4, <1>6, <2>1, Inserted
<1>8. Fits(out.rows, out)
  BY <1>4, RowsFit
<1>9. ASSUME Bounded(w)
      PROVE  now \subseteq (1 .. MaxRowid) \X (1 .. MaxRowid) /\ Covers(now, Range(w.placed))
  <2>. HIDE DEF w
  <2>1. \A i \in DOMAIN w.placed : w.placed[i] \in 1 .. MaxRowid
    <3>1. \A i \in DOMAIN w.placed : w.placed[i] \in Nat \ {0} /\ w.placed[i] \in DOMAIN w.table
      BY <1>7 DEF Landed, Range
    <3>. QED
      BY <1>4, <1>9, <3>1 DEF Bounded
  <2>2. 1 .. n \subseteq DOMAIN w.placed
    BY <1>6, <1>7 DEF Landed
  <2>3. head \subseteq 1 .. MaxRowid /\ rest \subseteq 1 .. MaxRowid /\ Range(w.placed) \subseteq head \cup rest
    BY <2>1, <2>2 DEF ToSet, Range
  <2>. HIDE DEF head, rest
  <2>4. /\ RangeOf(head) \subseteq (1 .. MaxRowid) \X (1 .. MaxRowid)
        /\ \A r \in head : \E s \in RangeOf(head) : r \in s[1] .. s[2]
    BY <1>4, <2>3, RangeOfIs
  <2>5. /\ RangeOf(rest) \subseteq (1 .. MaxRowid) \X (1 .. MaxRowid)
        /\ \A r \in rest : \E s \in RangeOf(rest) : r \in s[1] .. s[2]
    BY <1>4, <2>3, RangeOfIs
  <2>. QED
    BY <2>3, <2>4, <2>5 DEF Covers
<1>. HIDE DEF w, now
<1>. QED
  BY <1>2, <1>5, <1>7, <1>8, <1>9, LandAllKeeps

LEMMA RefillKeeps == ASSUME StoreInv, refill_table_rows PROVE StoreInv'
<1>1. PICK out \in Outputs :
        IF row_key(out) # {} THEN reconcile_batch_rows(out, row_key(out))
        ELSE LET w == insert_rows(Without(table, Covered), out.rows)
             IN  LandAll(out, w, RangeOf(ToSet(w.placed)))
  BY DEF refill_table_rows
<1>2. CASE row_key(out) # {}
  BY <1>1, <1>2, RefreshKeeps
<1>3. CASE row_key(out) = {}
  <2> DEFINE w == insert_rows(Without(table, Covered), out.rows)
             now == RangeOf(ToSet(w.placed))
  <2>2. LandAll(out, w, now)
    BY <1>1, <1>3
  <2>3. perTable
    BY <2>2 DEF LandAll
  <2>4. StoreTypeOK /\ CoverInv /\ OutputOK(out) /\ MaxRowid \in Nat
    BY OutOK, StoreAssumption DEF StoreInv
  <2>5. DOMAIN table \subseteq Covered
    BY <2>3, <2>4 DEF CoverInv, Covered
  <2>6. Landed(table, Covered, out.rows, w)
    BY <2>4, ReplacedLands
  <2>7. Fits(out.rows, out)
    BY <2>4, RowsFit
  <2>. HIDE DEF w
  <2>8. ASSUME Bounded(w)
        PROVE  now \subseteq (1 .. MaxRowid) \X (1 .. MaxRowid) /\ Covers(now, Range(w.placed))
    <3>1. \A i \in DOMAIN w.placed : w.placed[i] \in Nat \ {0} /\ w.placed[i] \in DOMAIN w.table
      BY <2>6 DEF Landed, Range
    <3>2. \A i \in DOMAIN w.placed : w.placed[i] \in 1 .. MaxRowid
      BY <2>4, <2>8, <3>1 DEF Bounded
    <3>3. ToSet(w.placed) \subseteq 1 .. MaxRowid /\ Range(w.placed) = ToSet(w.placed)
      BY <3>2 DEF ToSet, Range
    <3>. QED
      BY <2>4, <3>3, RangeOfIs DEF Covers
  <2>. HIDE DEF now
  <2>. QED
    BY <2>2, <2>5, <2>6, <2>7, <2>8, LandAllKeeps
<1>. QED
  BY <1>2, <1>3

LEMMA StoreInvNext == ASSUME StoreInv, [StoreNext]_storeVars PROVE StoreInv'
<1>1. ASSUME NEW f \in Files, handle_upsert(f) PROVE StoreInv'
  <2>1. PICK out \in Outputs : Land(f, out, Upserted(f, out))
    BY <1>1 DEF handle_upsert
  <2>2. ~perTable
    BY <2>1 DEF Land
  <2>3. Landed(table, ToSet(owned[f]), UpsertNew(f, out), Upserted(f, out)) /\ Fits(UpsertNew(f, out), out)
    BY <2>2, UpsertLands, OutOK
  <2>. QED
    BY <2>1, <2>3, LandKeeps
<1>2. ASSUME NEW f \in Files, NEW out \in Outputs \cup {Nothing}, Land(f, out, Replaced(f, out)) PROVE StoreInv'
  <2>1. OutputOK(out) /\ StoreTypeOK
    BY OutOK DEF StoreInv
  <2>2. Landed(table, ToSet(owned[f]), out.rows, Replaced(f, out)) /\ Fits(out.rows, out)
    BY <2>1, ReplacedLands, RowsFit DEF Replaced
  <2>. QED
    BY <1>2, <2>2, LandKeeps
<1>3. ASSUME NEW f \in Files, handle_delete(f) PROVE StoreInv'
  BY <1>2, <1>3 DEF handle_delete
<1>4. ASSUME NEW f \in Files, build_file(f) PROVE StoreInv'
  BY <1>2, <1>4 DEF build_file
<1>5. CASE refresh_table
  BY <1>5, RefreshKeeps DEF refresh_table
<1>6. CASE UNCHANGED storeVars
  BY <1>6 DEF storeVars, StoreInv, StoreTypeOK, Sound, OwnedInv, CoverInv, MadeInv, HookInv, At
<1>. QED
  BY <1>1, <1>3, <1>4, <1>5, <1>6, StreamKeeps, RefillKeeps DEF StoreNext

LEMMA StoreInvHolds == StoreSpec => []StoreInv
<1>1. StoreInit => StoreInv
  BY StoreInvInit
<1>2. StoreInv /\ [StoreNext]_storeVars => StoreInv'
  BY StoreInvNext
<1>. QED
  BY <1>1, <1>2, PTL DEF StoreSpec

-----------------------------------------------------------------------------
(* The properties.                                                         *)

Places == {p \in Files \X (1 .. MaxRowid) : p[2] \in DOMAIN owned[p[1]]}

LEMMA StoreInvOwned == StoreInv => Owned
<1> SUFFICES ASSUME StoreInv PROVE Owned
  OBVIOUS
<1>1. CASE perTable
  BY <1>1 DEF StoreInv, CoverInv, Owned, Covered
<1>2. CASE ~perTable
  <2>1. StoreTypeOK /\ OwnedInv /\ MaxRowid \in Nat
    BY StoreAssumption DEF StoreInv
  <2>2. DOMAIN table \subseteq 1 .. MaxRowid /\ IsFiniteSet(1 .. MaxRowid) /\ Cardinality(1 .. MaxRowid) = MaxRowid
    BY <2>1, FS_Interval DEF StoreTypeOK
  <2>3. IsFiniteSet(DOMAIN table)
    BY <2>2, FS_Subset
  <2>4. ASSUME NEW f \in Files
        PROVE  /\ DOMAIN owned[f] \subseteq 1 .. MaxRowid
               /\ \A i \in DOMAIN owned[f] : owned[f][i] \in DOMAIN table
    <3>1. Len(owned[f]) \in Nat /\ DOMAIN owned[f] = 1 .. Len(owned[f]) /\ owned[f] \in [1 .. Len(owned[f]) -> 1 .. MaxRowid]
      BY <2>1 DEF StoreTypeOK
    <3>2. owned[f] \in Injection(1 .. Len(owned[f]), 1 .. MaxRowid)
      BY <1>2, <2>1, <3>1 DEF OwnedInv, Distinct, Injection, IsInjective
    <3>3. Cardinality(1 .. Len(owned[f])) <= Cardinality(1 .. MaxRowid)
      BY <2>2, <3>2, FS_Injection
    <3>4. Cardinality(1 .. Len(owned[f])) = Len(owned[f])
      <4>1. CASE Len(owned[f]) = 0
        BY <4>1, FS_Interval
      <4>2. CASE Len(owned[f]) # 0
        BY <3>1, <4>2, FS_Interval
      <4>. QED
        BY <4>1, <4>2
    <3>5. Len(owned[f]) <= MaxRowid
      BY <2>2, <3>3, <3>4
    <3>. QED
      BY <1>2, <2>1, <3>1, <3>5 DEF OwnedInv, ToSet
  <2> DEFINE at == [p \in Places |-> owned[p[1]][p[2]]]
  <2>5. \A p \in Places : p[1] \in Files /\ p[2] \in DOMAIN owned[p[1]] /\ p = <<p[1], p[2]>>
    BY DEF Places
  <2>6. \A f \in Files : \A i \in DOMAIN owned[f] : <<f, i>> \in Places
    BY <2>4 DEF Places
  <2>7. at \in [Places -> DOMAIN table]
    BY <2>4, <2>5
  <2>8. ASSUME NEW p \in Places, NEW q \in Places, at[p] = at[q] PROVE p = q
    <3>1. at[p] = owned[p[1]][p[2]] /\ at[q] = owned[q[1]][q[2]]
      OBVIOUS
    <3>2. at[p] \in ToSet(owned[p[1]]) /\ at[q] \in ToSet(owned[q[1]])
      BY <2>5, <3>1 DEF ToSet
    <3>3. p[1] = q[1]
      BY <1>2, <2>1, <2>5, <2>8, <3>2 DEF OwnedInv
    <3>4. p[2] = q[2]
      BY <1>2, <2>1, <2>5, <2>8, <3>1, <3>3 DEF OwnedInv, Distinct
    <3>. QED
      BY <2>5, <3>3, <3>4
  <2>9. \A r \in DOMAIN table : \E p \in Places : at[p] = r
    <3>1. ASSUME NEW r \in DOMAIN table PROVE \E p \in Places : at[p] = r
      <4>1. PICK f \in Files : r \in ToSet(owned[f])
        BY <1>2, <2>1 DEF OwnedInv
      <4>2. PICK i \in DOMAIN owned[f] : owned[f][i] = r
        BY <4>1 DEF ToSet
      <4>3. <<f, i>> \in Places /\ at[<<f, i>>] = owned[f][i]
        BY <2>6
      <4>. QED
        BY <4>2, <4>3
    <3>. QED
      BY <3>1
  <2>. HIDE DEF at
  <2>10. at \in Injection(Places, DOMAIN table)
    BY <2>7, <2>8 DEF Injection, IsInjective
  <2>11. at \in Surjection(Places, DOMAIN table)
    BY <2>7, <2>9 DEF Surjection
  <2>12. Cardinality(Places) = Cardinality(DOMAIN table)
    BY <2>3, <2>10, <2>11, FS_Injection
  <2>13. {owned[p[1]][p[2]] : p \in Places} = DOMAIN table
    <3>1. \A p \in Places : owned[p[1]][p[2]] \in DOMAIN table
      BY <2>4, <2>5
    <3>2. \A r \in DOMAIN table : \E p \in Places : owned[p[1]][p[2]] = r
      BY <2>9 DEF at
    <3>. QED
      BY <3>1, <3>2
  <2>. QED
    BY <1>2, <2>12, <2>13 DEF Owned, Places
<1>. QED
  BY <1>1, <1>2

(* Owned (INTERNAL_ROWS_TABLE, db.rs). *)
THEOREM RowsAreOwned == StoreSpec => []Owned
  BY StoreInvHolds, StoreInvOwned, PTL

(* q takes the places of one list to those of another, each once. *)
Rearranged(a, b, q, n, m) ==
  /\ n \in Nat /\ m \in Nat /\ DOMAIN a = 1 .. n /\ DOMAIN b = 1 .. m
  /\ q \in [1 .. n -> 1 .. m]
  /\ \A i, j \in 1 .. n : q[i] = q[j] => i = j
  /\ \A k \in 1 .. m : \E i \in 1 .. n : q[i] = k
  /\ \A i \in 1 .. n : b[q[i]] = a[i]

(* Two such lists hold each row as often. *)
LEMMA AsOften ==
  ASSUME NEW a, NEW b, NEW q, NEW n, NEW m, Rearranged(a, b, q, n, m), NEW row
  PROVE  Times(a, row) = Times(b, row)
<1>0. Rearranged(a, b, q, n, m)
  OBVIOUS
<1>. USE <1>0 DEF Rearranged
<1> DEFINE S == {i \in DOMAIN a : a[i] = row}
           T == {i \in DOMAIN b : b[i] = row}
           f == [i \in S |-> q[i]]
<1>1. f \in Injection(S, T)
  BY DEF Injection, IsInjective
<1>2. f \in Surjection(S, T)
  <2>1. ASSUME NEW k \in T PROVE \E i \in S : f[i] = k
    <3>1. PICK i \in 1 .. n : q[i] = k
      OBVIOUS
    <3>2. i \in S /\ f[i] = k
      BY <3>1
    <3>. QED
      BY <3>2
  <2>2. f \in [S -> T]
    OBVIOUS
  <2>. HIDE DEF f, S, T
  <2>. QED
    BY <2>1, <2>2 DEF Surjection
<1>3. T \subseteq 1 .. m
  OBVIOUS
<1>. HIDE DEF f, S, T
<1>4. IsFiniteSet(1 .. m)
  BY FS_Interval
<1>5. IsFiniteSet(T)
  BY <1>3, <1>4, FS_Subset
<1>6. Cardinality(S) = Cardinality(T)
  BY <1>1, <1>2, <1>5, FS_Injection
<1>. QED
  BY <1>6 DEF Times, S, T

LEMMA StoreInvAsMade == StoreInv => AsMade
<1> SUFFICES ASSUME StoreInv PROVE AsMade
  OBVIOUS
<1>1. CASE ~perTable
  <2>1. MadeInv /\ StoreTypeOK
    BY DEF StoreInv
  <2>2. ASSUME NEW f \in Files
        PROVE  [i \in DOMAIN owned[f] |-> Seen(table[owned[f][i]], made[f])]
                 = [i \in DOMAIN made[f].rows |-> Seen(made[f].rows[i], made[f])]
    BY <1>1, <2>1 DEF MadeInv
  <2>. QED
    BY <1>1, <2>2 DEF AsMade
<1>2. CASE perTable
  <2> DEFINE out   == made[Hook]
             had   == [n \in DOMAIN Rowids |-> Seen(table[Rowids[n]], out)]
             wants == [i \in DOMAIN out.rows |-> Seen(out.rows[i], out)]
  <2>1. StoreTypeOK /\ OutputOK(out)
    BY OutOK DEF StoreInv, StoreTypeOK
  <2>2. PICK p : At(p, out)
    BY <1>2 DEF StoreInv, HookInv
  <2>3. Rowids \in Seq(DOMAIN table) /\ Distinct(Rowids) /\ ToSet(Rowids) = DOMAIN table
    BY <2>1, RowidsIs
  <2>4. Len(Rowids) \in Nat /\ DOMAIN Rowids = 1 .. Len(Rowids)
    BY <2>3
  <2>5. Len(out.rows) \in Nat /\ DOMAIN out.rows = 1 .. Len(out.rows)
    BY <2>1, OutRows DEF OutRowsDomain
  <2>6. /\ DOMAIN p = DOMAIN out.rows /\ Distinct(p) /\ Range(p) = DOMAIN table
        /\ \A i \in DOMAIN p : Seen(table[p[i]], out) = Seen(out.rows[i], out)
    BY <2>2 DEF At
  <2>7. DOMAIN had = 1 .. Len(Rowids) /\ DOMAIN wants = 1 .. Len(out.rows)
        /\ (\A n \in 1 .. Len(Rowids) : had[n] = Seen(table[Rowids[n]], out))
        /\ (\A i \in 1 .. Len(out.rows) : wants[i] = Seen(out.rows[i], out))
    BY <2>4, <2>5
  <2> HIDE DEF out, had, wants
  <2> DEFINE q == [i \in 1 .. Len(out.rows) |-> CHOOSE n \in 1 .. Len(Rowids) : Rowids[n] = p[i]]
  <2>8. \A i \in 1 .. Len(out.rows) : q[i] \in 1 .. Len(Rowids) /\ Rowids[q[i]] = p[i]
    <3>1. ASSUME NEW i \in 1 .. Len(out.rows) PROVE \E n \in 1 .. Len(Rowids) : Rowids[n] = p[i]
      <4>1. p[i] \in ToSet(Rowids)
        BY <2>3, <2>5, <2>6 DEF Range
      <4>. QED
        BY <2>4, <4>1 DEF ToSet
    <3>. QED
      BY <3>1
  <2>9. q \in [1 .. Len(out.rows) -> 1 .. Len(Rowids)]
    BY <2>8
  <2>. HIDE DEF q
  <2>10. \A i, j \in 1 .. Len(out.rows) : q[i] = q[j] => i = j
    BY <2>5, <2>6, <2>8 DEF Distinct
  <2>11. \A k \in 1 .. Len(Rowids) : \E i \in 1 .. Len(out.rows) : q[i] = k
    <3>1. ASSUME NEW k \in 1 .. Len(Rowids) PROVE \E i \in 1 .. Len(out.rows) : q[i] = k
      <4>1. Rowids[k] \in Range(p)
        BY <2>3, <2>4, <2>6
      <4>2. PICK i \in 1 .. Len(out.rows) : p[i] = Rowids[k]
        BY <2>5, <2>6, <4>1 DEF Range
      <4>3. q[i] \in 1 .. Len(Rowids) /\ Rowids[q[i]] = Rowids[k]
        BY <2>8, <4>2
      <4>. QED
        BY <2>3, <2>4, <4>3 DEF Distinct
    <3>. QED
      BY <3>1
  <2>12. ASSUME NEW i \in 1 .. Len(out.rows) PROVE had[q[i]] = wants[i]
    <3>1. had[q[i]] = Seen(table[p[i]], out)
      BY <2>7, <2>8
    <3>2. wants[i] = Seen(out.rows[i], out) /\ i \in DOMAIN p
      BY <2>5, <2>6, <2>7
    <3>. QED
      BY <2>6, <3>1, <3>2
  <2>13. ASSUME NEW row PROVE Times(wants, row) = Times(had, row)
    <3>1. PICK n, m : n = Len(out.rows) /\ m = Len(Rowids)
      OBVIOUS
    <3>2. n \in Nat /\ m \in Nat /\ DOMAIN wants = 1 .. n /\ DOMAIN had = 1 .. m
      BY <2>4, <2>5, <2>7, <3>1
    <3>3. q \in [1 .. n -> 1 .. m] /\ \A i, j \in 1 .. n : q[i] = q[j] => i = j
      BY <2>9, <2>10, <3>1
    <3>4. (\A k \in 1 .. m : \E i \in 1 .. n : q[i] = k) /\ \A i \in 1 .. n : had[q[i]] = wants[i]
      BY <2>11, <2>12, <3>1
    <3>5. Rearranged(wants, had, q, n, m)
      BY <3>2, <3>3, <3>4 DEF Rearranged
    <3>. QED
      BY <3>5, AsOften
  <2>. QED
    BY <1>2, <2>13 DEF AsMade, had, wants, out
<1>. QED
  BY <1>1, <1>2

THEOREM RowsAreAsMade == StoreSpec => []AsMade
  BY StoreInvHolds, StoreInvAsMade, PTL

-----------------------------------------------------------------------------
(* Rows of one key.                                                        *)

SameKey(row, other, key) == \A c \in key : row[c] = other[c]

(* The key an output is matched by is a unique one, filled and emitted. *)
LEMMA KeyIs ==
  ASSUME NEW out, OutputOK(out), row_key(out) # {}
  PROVE  /\ \E n \in DOMAIN Keys : Keys[n] = row_key(out)
         /\ \A i \in DOMAIN out.rows, c \in row_key(out) :
              /\ out.rows[i][c] # Null
              /\ c \in Columns /\ c \in out.emits
<1> DEFINE filled == {n \in DOMAIN Keys :
                       \A i \in DOMAIN out.rows, c \in Keys[n] : out.rows[i][c] # Null}
<1>1. filled # {} /\ row_key(out) = Keys[Min(filled)]
  BY DEF row_key
<1>2. filled \subseteq Nat
  BY StoreAssumption
<1>3. Min(filled) \in filled
  <2>. HIDE DEF filled
  <2>. QED
    BY <1>1, <1>2, MinIs
<1>4. PICK n \in DOMAIN Keys : /\ Keys[n] = row_key(out)
                               /\ \A i \in DOMAIN out.rows, c \in Keys[n] : out.rows[i][c] # Null
  BY <1>1, <1>3
<1>5. Keys[n] \in SUBSET Columns
  BY StoreAssumption
<1>. QED
  BY <1>4, <1>5 DEF OutputOK

LEMMA KeyClash ==
  ASSUME NEW out, OutputOK(out), row_key(out) # {}, NEW i \in DOMAIN out.rows,
         NEW row, SameKey(row, out.rows[i], row_key(out)),
         NEW other, SameKey(other, out.rows[i], row_key(out))
  PROVE  Clash(row, other)
  BY KeyIs DEF Clash, SameKey

LEMMA MergeKey ==
  ASSUME NEW t, TableOK(t), NEW out, OutputOK(out), row_key(out) # {},
         NEW placed, DOMAIN placed = DOMAIN out.rows, NEW i \in DOMAIN placed
  PROVE  SameKey(Merge(t, placed, out)[i], out.rows[i], row_key(out))
<1>1. Merge(t, placed, out)[i]
        = IF placed[i] # 0 THEN Merged(t[placed[i]], out.rows[i], out.emits) ELSE out.rows[i]
  BY DEF Merge
<1>2. \A c \in row_key(out) : c \in Columns /\ c \in out.emits
  BY KeyIs
<1>. QED
  BY <1>1, <1>2 DEF SameKey, Merged

(* A row is placed at one of its key; *)
LEMMA MatchAgrees ==
  ASSUME NEW t, TableOK(t), NEW stored \in Seq(DOMAIN t), Distinct(stored),
         NEW out, OutputOK(out), NEW key, key # {},
         NEW i \in DOMAIN out.rows, Match(t, stored, out, key)[i] # 0
  PROVE  SameKey(t[Match(t, stored, out, key)[i]], out.rows[i], key)
<1> DEFINE placed == Match(t, stored, out, key)
           had    == Had(t, stored, out, key)
           ids    == Ids(out, key)
<1>1. 0 \notin DOMAIN t
  BY DEF TableOK
<1>2. Matching(placed, stored, out, had, ids)
  BY <1>1, MatchIs
<1>. HIDE DEF placed, had, ids
<1>3. PICK m \in Claim(had, ids, i) : m \in DOMAIN stored /\ placed[i] = stored[m]
  BY <1>2 DEF Matching, placed
<1>4. had[m] = ids[i]
  BY DEF Claim
<1>5. had[m] = [c \in key |-> t[stored[m]][c]] /\ ids[i] = [c \in key |-> out.rows[i][c]]
  BY <1>3 DEF had, ids, Had, Ids, On, Restrict
<1>6. \A c \in key : t[stored[m]][c] = out.rows[i][c]
  <2>1. ASSUME NEW c \in key PROVE t[stored[m]][c] = out.rows[i][c]
    <3>1. had[m][c] = t[stored[m]][c] /\ ids[i][c] = out.rows[i][c]
      BY <1>5
    <3>. QED
      BY <1>4, <3>1
  <2>. QED
    BY <2>1
<1>. QED
  BY <1>3, <1>6 DEF SameKey, placed

(* and at the one of its key, if none of the new ones has the same. *)
LEMMA MatchFinds ==
  ASSUME NEW t, TableOK(t), Sound(t), NEW stored \in Seq(DOMAIN t), Distinct(stored),
         NEW out, OutputOK(out), NEW key, key = row_key(out), key # {},
         NEW i \in DOMAIN out.rows,
         \A j \in DOMAIN out.rows : SameKey(out.rows[j], out.rows[i], key) => j = i,
         NEW r \in ToSet(stored), SameKey(t[r], out.rows[i], key)
  PROVE  Match(t, stored, out, key)[i] = r
<1> DEFINE placed == Match(t, stored, out, key)
           had    == Had(t, stored, out, key)
           ids    == Ids(out, key)
<1>1. 0 \notin DOMAIN t
  BY DEF TableOK
<1>2. Matching(placed, stored, out, had, ids)
  BY <1>1, MatchIs
<1>3. PICK n \in DOMAIN stored : stored[n] = r
  BY DEF ToSet
<1>4. DOMAIN had = DOMAIN stored /\ DOMAIN ids = DOMAIN out.rows
      /\ (\A m \in DOMAIN stored : had[m] = [c \in key |-> t[stored[m]][c]])
      /\ (\A j \in DOMAIN out.rows : ids[j] = [c \in key |-> out.rows[j][c]])
  BY DEF Had, Ids, On, Restrict
<1>5. /\ Len(stored) \in Nat /\ DOMAIN stored = 1 .. Len(stored) /\ \A m \in DOMAIN stored : stored[m] \in DOMAIN t
      /\ Len(out.rows) \in Nat /\ DOMAIN out.rows = 1 .. Len(out.rows)
  BY OutRows DEF OutRowsDomain
<1>. HIDE DEF placed, had, ids
<1>6. had[n] = ids[i]
  <2>1. had[n] = [c \in key |-> t[stored[n]][c]] /\ ids[i] = [c \in key |-> out.rows[i][c]]
    BY <1>4, Zenon
  <2>2. \A c \in key : t[stored[n]][c] = out.rows[i][c]
    BY <1>3 DEF SameKey
  <2>. QED
    BY <2>1, <2>2
<1>7. Nth(ids, i) = 1
  <2>1. ASSUME NEW j \in 1 .. i, ids[j] = ids[i] PROVE j = i
    <3>1. j \in DOMAIN out.rows
      BY <1>5
    <3>2. SameKey(out.rows[j], out.rows[i], key)
      <4>1. ASSUME NEW c \in key PROVE out.rows[j][c] = out.rows[i][c]
        <5>1. ids[j] = [d \in key |-> out.rows[j][d]] /\ ids[i] = [d \in key |-> out.rows[i][d]]
          BY <1>4, <3>1, Zenon
        <5>2. ids[j][c] = out.rows[j][c] /\ ids[i][c] = out.rows[i][c]
          BY <5>1
        <5>. QED
          BY <2>1, <5>2
      <4>. QED
        BY <4>1 DEF SameKey
    <3>. QED
      BY <3>1, <3>2
  <2>2. i \in Nat \ {0}
    BY <1>5
  <2>. QED
    BY <2>1, <2>2, NthFirst
<1>8. Nth(had, n) = 1
  <2>1. ASSUME NEW m \in 1 .. n, had[m] = had[n] PROVE m = n
    <3>1. m \in DOMAIN stored
      BY <1>5
    <3>2. SameKey(t[stored[m]], out.rows[i], key)
      <4>1. ASSUME NEW c \in key PROVE t[stored[m]][c] = out.rows[i][c]
        <5>1. had[m] = [d \in key |-> t[stored[m]][d]] /\ ids[i] = [d \in key |-> out.rows[i][d]]
          BY <1>4, <3>1, Zenon
        <5>2. had[m][c] = t[stored[m]][c] /\ ids[i][c] = out.rows[i][c]
          BY <5>1
        <5>. QED
          BY <1>6, <2>1, <5>2
      <4>. QED
        BY <4>1 DEF SameKey
    <3>3. Clash(t[stored[m]], t[stored[n]])
      BY <1>3, <3>2, KeyClash
    <3>4. stored[m] = stored[n]
      BY <1>5, <3>1, <3>3 DEF Sound
    <3>. QED
      BY <3>1, <3>4 DEF Distinct
  <2>2. n \in Nat \ {0}
    BY <1>5
  <2>. QED
    BY <2>1, <2>2, NthFirst
<1>9. n \in Claim(had, ids, i)
  BY <1>4, <1>6, <1>7, <1>8 DEF Claim
<1>10. placed[i] # 0 /\ i \in DOMAIN placed
  BY <1>2, <1>9 DEF Matching
<1>11. PICK m \in Claim(had, ids, i) : m \in DOMAIN stored /\ placed[i] = stored[m]
  BY <1>2, <1>10 DEF Matching
<1>12. m = n
  BY <1>4, <1>5, <1>9, ClaimOne
<1>. QED
  BY <1>3, <1>11, <1>12 DEF placed

-----------------------------------------------------------------------------
(* An edit lands if the rows it leads to are sound.                        *)

(* Do new rows clash, with one another or with the rows beside them? *)
Clashes(t, mine, new) ==
  \/ \E i, j \in DOMAIN new : i # j /\ Clash(new[i], new[j])
  \/ \E i \in DOMAIN new, r \in DOMAIN t \ mine : Clash(new[i], t[r])

LEMMA FailsIfClashes ==
  ASSUME NEW t, Sound(t), NEW mine, NEW new, NEW w, Landed(t, mine, new, w)
  PROVE  w.failed <=> Clashes(t, mine, new)
<1> DEFINE rest == DOMAIN t \ mine
<1>1. /\ DOMAIN w.placed = DOMAIN new
      /\ Distinct(w.placed)
      /\ \A i \in DOMAIN new : w.placed[i] \notin rest /\ w.table[w.placed[i]] = new[i]
      /\ DOMAIN w.table = rest \cup Range(w.placed)
      /\ \A r \in rest : w.table[r] = t[r]
      /\ Judged(w)
  BY DEF Landed
<1>2. \A i \in DOMAIN new : w.placed[i] \in DOMAIN w.table
  BY <1>1 DEF Range
<1>3. \A r \in DOMAIN w.table \ rest : \E i \in DOMAIN new : w.placed[i] = r
  BY <1>1 DEF Range
<1>4. w.failed <=> ~Sound(w.table)
  BY <1>1 DEF Judged
<1>. HIDE DEF rest
<1>5. ASSUME Clashes(t, mine, new) PROVE ~Sound(w.table)
  <2>1. CASE \E i, j \in DOMAIN new : i # j /\ Clash(new[i], new[j])
    <3>1. PICK i \in DOMAIN new, j \in DOMAIN new : i # j /\ Clash(new[i], new[j])
      BY <2>1
    <3>2. w.placed[i] # w.placed[j]
      BY <1>1, <3>1 DEF Distinct
    <3>3. Clash(w.table[w.placed[i]], w.table[w.placed[j]])
      BY <1>1, <3>1
    <3>. QED
      BY <1>2, <3>2, <3>3 DEF Sound
  <2>2. CASE \E i \in DOMAIN new, r \in rest : Clash(new[i], t[r])
    <3>1. PICK i \in DOMAIN new, r \in rest : Clash(new[i], t[r])
      BY <2>2
    <3>2. w.placed[i] # r /\ r \in DOMAIN w.table
      BY <1>1
    <3>3. Clash(w.table[w.placed[i]], w.table[r])
      BY <1>1, <3>1
    <3>. QED
      BY <1>2, <3>2, <3>3 DEF Sound
  <2>. QED
    BY <1>5, <2>1, <2>2 DEF Clashes, rest
<1>6. ASSUME ~Sound(w.table) PROVE Clashes(t, mine, new)
  <2>1. PICK r \in DOMAIN w.table, s \in DOMAIN w.table : r # s /\ Clash(w.table[r], w.table[s])
    BY <1>6 DEF Sound
  <2>2. Clash(w.table[s], w.table[r])
    BY <2>1, ClashBoth
  <2>3. CASE r \in rest /\ s \in rest
    <3>1. Clash(t[r], t[s]) /\ r \in DOMAIN t /\ s \in DOMAIN t
      BY <1>1, <2>1, <2>3 DEF rest
    <3>. QED
      BY <2>1, <3>1 DEF Sound
  <2>4. CASE r \in rest /\ s \notin rest
    <3>1. PICK i \in DOMAIN new : w.placed[i] = s
      BY <1>3, <2>4
    <3>2. Clash(new[i], t[r])
      BY <1>1, <2>2, <2>4, <3>1
    <3>. QED
      BY <2>4, <3>2 DEF Clashes, rest
  <2>5. CASE r \notin rest /\ s \in rest
    <3>1. PICK i \in DOMAIN new : w.placed[i] = r
      BY <1>3, <2>5
    <3>2. Clash(new[i], t[s])
      BY <1>1, <2>1, <2>5, <3>1
    <3>. QED
      BY <2>5, <3>2 DEF Clashes, rest
  <2>6. CASE r \notin rest /\ s \notin rest
    <3>1. PICK i \in DOMAIN new : w.placed[i] = r
      BY <1>3, <2>6
    <3>2. PICK j \in DOMAIN new : w.placed[j] = s
      BY <1>3, <2>6
    <3>3. i # j /\ Clash(new[i], new[j])
      BY <1>1, <2>1, <3>1, <3>2
    <3>. QED
      BY <3>3 DEF Clashes
  <2>. QED
    BY <2>3, <2>4, <2>5, <2>6
<1>. QED
  BY <1>4, <1>5, <1>6

(* Two new rows of one key clash, whatever they are merged with. *)
LEMMA TwinsClash ==
  ASSUME NEW out, OutputOK(out), row_key(out) # {}, NEW new, DOMAIN new = DOMAIN out.rows,
         \A i \in DOMAIN new : SameKey(new[i], out.rows[i], row_key(out)),
         NEW i \in DOMAIN new, NEW j \in DOMAIN new, i # j,
         SameKey(out.rows[j], out.rows[i], row_key(out)), NEW t, NEW mine
  PROVE  Clashes(t, mine, new)
<1>1. SameKey(new[i], out.rows[i], row_key(out))
  OBVIOUS
<1>2. SameKey(new[j], out.rows[j], row_key(out))
  OBVIOUS
<1>3. SameKey(new[j], out.rows[i], row_key(out))
  BY <1>2 DEF SameKey
<1>4. Clash(new[i], new[j])
  BY <1>1, <1>3, KeyClash
<1>. QED
  BY <1>4 DEF Clashes

LEMMA StoreInvLandsIfSound == StoreInv => LandsIfSound
<1> SUFFICES ASSUME StoreInv, ~perTable, NEW f \in Files, NEW out \in Outputs
             PROVE  Upserted(f, out).failed <=> Clashes(table, ToSet(owned[f]), Wanted(f, out))
  BY DEF LandsIfSound, Clashes
<1> DEFINE mine   == ToSet(owned[f])
           new    == UpsertNew(f, out)
           wanted == Wanted(f, out)
           key    == row_key(out)
           placed == Match(table, owned[f], out, key)
           Old(i) == {r \in mine : key # {} /\ \A c \in key : table[r][c] = out.rows[i][c]}
<1>1. StoreTypeOK /\ OwnedInv /\ TableOK(table) /\ Sound(table) /\ OutputOK(out)
  BY TypeTable, OutOK DEF StoreInv
<1>2. Landed(table, mine, new, Upserted(f, out))
  BY <1>1, UpsertLands
<1>3. Upserted(f, out).failed <=> Clashes(table, mine, new)
  BY <1>1, <1>2, FailsIfClashes
<1>4. SUFFICES Clashes(table, mine, new) <=> Clashes(table, mine, wanted)
  BY <1>3
<1>5. wanted = [i \in DOMAIN out.rows |->
                 IF Old(i) = {} THEN out.rows[i]
                 ELSE Merged(table[CHOOSE r \in Old(i) : TRUE], out.rows[i], out.emits)]
  BY DEF Wanted
<1>6. CASE key = {}
  <2>1. new = out.rows
    BY <1>6 DEF UpsertNew
  <2>2. DOMAIN wanted = DOMAIN out.rows /\ \A i \in DOMAIN out.rows : wanted[i] = out.rows[i]
    <3>1. \A i : Old(i) = {}
      BY <1>6
    <3>. HIDE DEF Old, wanted
    <3>. QED
      BY <1>5, <3>1
  <2>. HIDE DEF wanted
  <2>. QED
    BY <2>1, <2>2 DEF Clashes
<1>7. CASE key # {}
  <2>1. new = Merge(table, placed, out)
    BY <1>7 DEF UpsertNew
  <2>2. owned[f] \in Seq(DOMAIN table) /\ Distinct(owned[f])
    BY <1>1, StoredIs
  <2>3. DOMAIN placed = DOMAIN out.rows
        /\ \A i \in DOMAIN placed : placed[i] # 0 => placed[i] \in mine
    BY <1>1, <2>2, MatchType
  <2>4. DOMAIN new = DOMAIN out.rows /\ DOMAIN wanted = DOMAIN out.rows
    BY <1>5, <2>1, <2>3 DEF Merge
  <2>5. \A i \in DOMAIN new : SameKey(new[i], out.rows[i], key)
    BY <1>1, <1>7, <2>1, <2>3, <2>4, MergeKey
  <2>6. \A i, r : r \in Old(i) <=> r \in mine /\ SameKey(table[r], out.rows[i], key)
    BY <1>7 DEF SameKey
  <2>7. \A i \in DOMAIN wanted : wanted[i] =
          IF Old(i) = {} THEN out.rows[i]
          ELSE Merged(table[CHOOSE r \in Old(i) : TRUE], out.rows[i], out.emits)
    BY <1>5, <2>4
  <2>8. \A i \in DOMAIN out.rows : placed[i] # 0 => SameKey(table[placed[i]], out.rows[i], key)
    <3>. HIDE DEF key
    <3>. QED
      BY <1>1, <1>7, <2>2, MatchAgrees
  <2>9. \A i \in DOMAIN out.rows, c \in key : c \in Columns /\ c \in out.emits
    BY <1>1, <1>7, KeyIs
  <2>. HIDE DEF wanted, Old, new, mine
  <2>10. \A i \in DOMAIN wanted : SameKey(wanted[i], out.rows[i], key)
    <3>1. ASSUME NEW i \in DOMAIN wanted, NEW c \in key PROVE wanted[i][c] = out.rows[i][c]
      <4>1. CASE Old(i) = {}
        BY <2>7, <4>1
      <4>2. CASE Old(i) # {}
        <5>1. wanted[i] = Merged(table[CHOOSE r \in Old(i) : TRUE], out.rows[i], out.emits)
          BY <2>7, <4>2
        <5>2. c \in Columns /\ c \in out.emits
          BY <2>4, <2>9
        <5>. QED
          BY <5>1, <5>2 DEF Merged
      <4>. QED
        BY <4>1, <4>2
    <3>. QED
      BY <3>1 DEF SameKey
  <2>11. CASE \E i, j \in DOMAIN out.rows : i # j /\ SameKey(out.rows[j], out.rows[i], key)
    <3>1. PICK i \in DOMAIN out.rows, j \in DOMAIN out.rows : i # j /\ SameKey(out.rows[j], out.rows[i], key)
      BY <2>11
    <3>2. Clashes(table, mine, new)
      BY <1>1, <1>7, <2>4, <2>5, <3>1, TwinsClash
    <3>3. Clashes(table, mine, wanted)
      BY <1>1, <1>7, <2>4, <2>10, <3>1, TwinsClash
    <3>. QED
      BY <3>2, <3>3
  <2>12. CASE \A i, j \in DOMAIN out.rows : SameKey(out.rows[j], out.rows[i], key) => j = i
    <3>1. ASSUME NEW i \in DOMAIN out.rows PROVE new[i] = wanted[i]
      <4>1. new[i] = IF placed[i] # 0 THEN Merged(table[placed[i]], out.rows[i], out.emits) ELSE out.rows[i]
        BY <2>1, <2>3 DEF Merge
      <4>2. ASSUME NEW r \in Old(i) PROVE placed[i] = r
        <5>1. r \in ToSet(owned[f]) /\ SameKey(table[r], out.rows[i], key)
          BY <2>6 DEF mine
        <5>2. \A j \in DOMAIN out.rows : SameKey(out.rows[j], out.rows[i], key) => j = i
          BY <2>12
        <5>. QED
          BY <1>1, <1>7, <2>2, <5>1, <5>2, MatchFinds
      <4>3. CASE Old(i) = {}
        <5>1. placed[i] = 0
          BY <2>3, <2>6, <2>8, <4>3
        <5>. QED
          BY <2>4, <2>7, <4>1, <4>3, <5>1
      <4>4. CASE Old(i) # {}
        <5> DEFINE r == CHOOSE r \in Old(i) : TRUE
        <5>1. r \in Old(i)
          BY <4>4
        <5>2. placed[i] = r
          BY <4>2, <5>1
        <5>3. r # 0
          BY <1>1, <2>2, <2>6, <5>1 DEF StoreTypeOK, mine, ToSet
        <5>. QED
          BY <2>4, <2>7, <4>1, <4>4, <5>2, <5>3
      <4>. QED
        BY <4>3, <4>4
    <3>. QED
      BY <2>4, <3>1 DEF Clashes
  <2>. QED
    BY <2>11, <2>12 DEF mine, new, wanted
<1>. QED
  BY <1>6, <1>7

THEOREM SoundEditsLand == StoreSpec => []LandsIfSound
  BY StoreInvHolds, StoreInvLandsIfSound, PTL

-----------------------------------------------------------------------------
(* A row whose key stays is edited in place.                               *)

(* A row at `rowids` is read as one of the output's. *)
Reads(rowids, out) ==
  \A r \in rowids : r \in DOMAIN table /\ \E i \in DOMAIN out.rows : Seen(table[r], out) = Seen(out.rows[i], out)

LEMMA RolledBackInPlace ==
  ASSUME StoreInv, table' = table, NEW out, OutputOK(out), NEW rowids, Reads(rowids, out)
  PROVE  InPlace(rowids, rowids, out)
<1> DEFINE key == row_key(out)
<1>1. SUFFICES ASSUME key # {}, NEW r \in rowids, NEW s \in rowids,
                      \A c \in key : table[r][c] = table'[s][c]
               PROVE  r = s /\ \A c \in Columns \ out.emits : table[r][c] = table'[s][c]
  BY DEF InPlace
<1>2. r \in DOMAIN table /\ s \in DOMAIN table
  BY DEF Reads
<1>3. PICK i \in DOMAIN out.rows : Seen(table[r], out) = Seen(out.rows[i], out)
  BY DEF Reads
<1>4. \A c \in key : c \in out.emits
  BY <1>1, KeyIs
<1>5. SameKey(table[r], out.rows[i], key)
  <2>1. ASSUME NEW c \in key PROVE table[r][c] = out.rows[i][c]
    <3>1. c \in out.emits
      BY <1>4
    <3>2. Seen(table[r], out)[c] = table[r][c] /\ Seen(out.rows[i], out)[c] = out.rows[i][c]
      BY <3>1 DEF Seen, Restrict
    <3>. QED
      BY <1>3, <3>2
  <2>. QED
    BY <2>1 DEF SameKey
<1>6. SameKey(table[s], out.rows[i], key)
  BY <1>1, <1>5 DEF SameKey
<1>7. Clash(table[r], table[s])
  BY <1>1, <1>5, <1>6, KeyClash
<1>8. r = s
  BY <1>2, <1>7 DEF StoreInv, Sound
<1>. QED
  BY <1>8

LEMMA ReconciledInPlace ==
  ASSUME TableOK(table), Sound(table), NEW stored \in Seq(DOMAIN table), Distinct(stored),
         NEW out, OutputOK(out), NEW w, w = reconcile_rows(table, stored, out, row_key(out)),
         ~w.failed, table' = w.table
  PROVE  InPlace(ToSet(stored), ToSet(w.placed), out)
<1> DEFINE key    == row_key(out)
           placed == Match(table, stored, out, key)
           new    == Merge(table, placed, out)
<1>1. SUFFICES ASSUME key # {}, NEW r \in ToSet(stored), NEW s \in ToSet(w.placed),
                      \A c \in key : table[r][c] = table'[s][c]
               PROVE  r = s /\ \A c \in Columns \ out.emits : table[r][c] = table'[s][c]
  BY DEF InPlace
<1>. HIDE DEF key
<1>2. Landed(table, ToSet(stored), new, w)
  BY Reconciled DEF key
<1>3. \A i \in DOMAIN placed : placed[i] # 0 => w.placed[i] = placed[i]
  BY Reconciled DEF key
<1>4. DOMAIN placed = DOMAIN out.rows
  BY MatchType
<1>5. DOMAIN new = DOMAIN out.rows
  BY <1>4 DEF Merge
<1>6. \A i \in DOMAIN new : SameKey(new[i], out.rows[i], key)
  BY <1>1, <1>4, <1>5, MergeKey DEF key
<1>7. \A i \in DOMAIN new : new[i] = IF placed[i] # 0 THEN Merged(table[placed[i]], out.rows[i], out.emits)
                                     ELSE out.rows[i]
  BY <1>4, <1>5 DEF Merge
<1>. HIDE DEF placed, new
<1>8. /\ DOMAIN w.placed = DOMAIN new /\ Distinct(w.placed)
      /\ \A i \in DOMAIN new : w.table[w.placed[i]] = new[i] /\ w.placed[i] \in DOMAIN w.table
      /\ Sound(w.table)
  BY <1>2 DEF Landed, Judged, Range
<1>9. PICK i \in DOMAIN out.rows : w.placed[i] = s
  BY <1>5, <1>8 DEF ToSet
<1>10. SameKey(table[r], out.rows[i], key)
  <2>1. table'[s] = new[i]
    BY <1>5, <1>8, <1>9
  <2>. QED
    BY <1>1, <1>5, <1>6, <2>1 DEF SameKey
<1>11. ASSUME NEW j \in DOMAIN out.rows, SameKey(out.rows[j], out.rows[i], key) PROVE j = i
  <2>1. SameKey(new[j], out.rows[i], key) /\ SameKey(new[i], out.rows[i], key)
    BY <1>5, <1>6, <1>11 DEF SameKey
  <2>2. Clash(new[j], new[i])
    BY <1>1, <2>1, KeyClash DEF key
  <2>3. w.placed[j] = w.placed[i]
    BY <1>5, <1>8, <2>2 DEF Sound
  <2>. QED
    BY <1>5, <1>8, <2>3 DEF Distinct
<1>12. placed[i] = r
  BY <1>1, <1>10, <1>11, MatchFinds DEF placed, key
<1>13. r \in Nat \ {0}
  BY DEF TableOK, ToSet
<1>14. r = s
  BY <1>3, <1>4, <1>9, <1>12, <1>13
<1>15. table'[s] = Merged(table[r], out.rows[i], out.emits)
  BY <1>5, <1>7, <1>8, <1>9, <1>12, <1>13
<1>16. \A c \in Columns \ out.emits : table[r][c] = table'[s][c]
  BY <1>15 DEF Merged
<1>. QED
  BY <1>14, <1>16

LEMMA UpsertInPlace ==
  ASSUME StoreInv, NEW f \in Files, handle_upsert(f)
  PROVE  InPlace(ToSet(owned[f]), ToSet(owned'[f]), made'[f])
<1>1. PICK out \in Outputs : Land(f, out, Upserted(f, out))
  BY DEF handle_upsert
<1> DEFINE w == Upserted(f, out)
<1>2. StoreTypeOK /\ OwnedInv /\ MadeInv /\ TableOK(table) /\ Sound(table) /\ ~perTable
  BY <1>1, TypeTable DEF StoreInv, Land
<1>3. CASE w.failed
  <2>1. table' = table /\ owned' = owned /\ made' = made
    BY <1>1, <1>3 DEF Land
  <2>2. OutputOK(made[f])
    BY <1>2, OutOK DEF StoreTypeOK
  <2>3. Reads(ToSet(owned[f]), made[f])
    BY <1>2 DEF Reads, MadeInv, OwnedInv, ToSet
  <2>4. InPlace(ToSet(owned[f]), ToSet(owned[f]), made[f])
    BY <2>1, <2>2, <2>3, RolledBackInPlace
  <2>. QED
    BY <2>1, <2>4
<1>4. CASE ~w.failed
  <2>1. table' = w.table /\ owned' = [owned EXCEPT ![f] = w.placed] /\ made' = [made EXCEPT ![f] = out]
    BY <1>1, <1>4 DEF Land, Own
  <2>2. owned'[f] = w.placed /\ made'[f] = out /\ OutputOK(out)
    BY <1>2, <2>1, OutOK DEF StoreTypeOK
  <2>3. CASE row_key(out) = {}
    BY <2>2, <2>3 DEF InPlace
  <2>4. CASE row_key(out) # {}
    <3>1. Stored(f) = owned[f] /\ owned[f] \in Seq(DOMAIN table) /\ Distinct(owned[f])
      BY <1>2, StoredIs
    <3>2. w = reconcile_rows(table, owned[f], out, row_key(out))
      BY <2>4, <3>1 DEF Upserted
    <3>. HIDE DEF w
    <3>3. InPlace(ToSet(owned[f]), ToSet(w.placed), out)
      BY <1>2, <1>4, <2>1, <2>2, <3>1, <3>2, ReconciledInPlace
    <3>. QED
      BY <2>2, <3>3
  <2>. QED
    BY <2>3, <2>4
<1>. QED
  BY <1>3, <1>4

LEMMA RefreshInPlace ==
  ASSUME StoreInv, refresh_table
  PROVE  InPlace(DOMAIN table, DOMAIN table', made'[Hook])
<1>1. PICK out \in Outputs : reconcile_batch_rows(out, row_key(out))
  BY DEF refresh_table
<1> DEFINE w == reconcile_rows(table, Rowids, out, row_key(out))
<1>2. LandAll(out, w, Refit(w)) /\ perTable
  BY <1>1 DEF reconcile_batch_rows, LandAll
<1>3. StoreTypeOK /\ TableOK(table) /\ Sound(table)
  BY TypeTable DEF StoreInv
<1>4. CASE w.failed
  <2>1. table' = table /\ made' = made
    BY <1>2, <1>4 DEF LandAll
  <2>2. OutputOK(made[Hook])
    BY <1>3, OutOK DEF StoreTypeOK
  <2>3. PICK p : At(p, made[Hook])
    BY <1>2 DEF StoreInv, HookInv
  <2>4. Reads(DOMAIN table, made[Hook])
    BY <2>3 DEF Reads, At, Range
  <2>5. InPlace(DOMAIN table, DOMAIN table, made[Hook])
    BY <2>1, <2>2, <2>4, RolledBackInPlace
  <2>. QED
    BY <2>1, <2>5
<1>5. CASE ~w.failed
  <2>1. table' = w.table /\ made' = [made EXCEPT ![Hook] = out]
    BY <1>2, <1>5 DEF LandAll
  <2>2. made'[Hook] = out /\ OutputOK(out)
    BY <1>3, <2>1, OutOK DEF StoreTypeOK
  <2>3. Rowids \in Seq(DOMAIN table) /\ Distinct(Rowids) /\ ToSet(Rowids) = DOMAIN table
    BY <1>3, RowidsIs
  <2>4. Landed(table, ToSet(Rowids), Merge(table, Match(table, Rowids, out, row_key(out)), out), w)
    BY <1>3, <2>2, <2>3, Reconciled
  <2>. HIDE DEF w
  <2>5. DOMAIN w.table = ToSet(w.placed)
    BY <2>3, <2>4 DEF Landed, ToSet, Range
  <2>6. InPlace(ToSet(Rowids), ToSet(w.placed), out)
    BY <1>3, <1>5, <2>1, <2>2, <2>3, ReconciledInPlace DEF w
  <2>. QED
    BY <2>1, <2>2, <2>3, <2>5, <2>6
<1>. QED
  BY <1>4, <1>5

THEOREM RowsEditedInPlace == StoreSpec => EditsInPlace
<1>1. StoreInv /\ [StoreNext]_storeVars =>
        [/\ \A f \in Files : handle_upsert(f) => InPlace(ToSet(owned[f]), ToSet(owned'[f]), made'[f])
         /\ refresh_table => InPlace(DOMAIN table, DOMAIN table', made'[Hook])]_storeVars
  BY UpsertInPlace, RefreshInPlace
<1>2. StoreSpec => []StoreInv
  BY StoreInvHolds
<1>. QED
  BY <1>1, <1>2, PTL DEF StoreSpec, EditsInPlace

=============================================================================
