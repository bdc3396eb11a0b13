-------------------------- MODULE ExtractionProofs --------------------------
(* Proofs about the extraction loop, for any integrations, endpoints and   *)
(* number of slots, and for any answers of the vendors.                    *)
EXTENDS Extraction, FiniteSetTheorems, SequenceTheorems, DataLemmas, TLAPS

-----------------------------------------------------------------------------
(* The inductive invariant, in parts. *)

Holders == {j \in Job : pc[j] \in Holding}

(* Between wg.Add and wg.Done. *)
Going == {j \in Job : pc[j] \notin {"unborn", "done"}}

Slots ==
    /\ IsFiniteSet(Holders)
    /\ Cardinality(Holders) = sem
    /\ sem <= Concurrency

WaitGroup ==
    /\ IsFiniteSet(Going)
    /\ Cardinality(Going) = wg

Phases ==
    /\ mainPc = "building" => jobs = {}
    /\ \A j \in Job \ jobs : pc[j] = "unborn"
    /\ mainPc = "waiting" => \A j \in jobs : pc[j] # "unborn"
    /\ mainPc = "returned" => \A j \in jobs : pc[j] = "done"

Settled == {"releasing", "finishing", "done"}

(* What the goroutine of a job holds before it is recorded. *)
Returns ==
    \A j \in Job :
        /\ pc[j] \in {"unborn", "queued", "executing"} => returned[j] = NoReturn
        /\ pc[j] = "recording" => returned[j].kind # "none"
        /\ returned[j].kind = "findings" =>
             /\ returned[j].findings # <<>>
             /\ \A i \in DOMAIN returned[j].findings : returned[j].findings[i].job = j

(* A job that is settled is in the one slice its return belongs to, and a  *)
(* job that is not in none; one that was cancelled in the queue failed.    *)
Recorded ==
    \A j \in Job :
        /\ j \in ToSet(realErrs) <=>
             pc[j] \in Settled /\ returned[j].kind \in {"none", "error"}
        /\ j \in ToSet(skipped) <=> pc[j] \in Settled /\ returned[j].kind = "skip"
        /\ Found(j) <=> pc[j] \in Settled /\ returned[j].kind = "findings"

NoDuplicates(s) == \A a, b \in DOMAIN s : s[a] = s[b] => a = b

RecordedOnce == NoDuplicates(realErrs) /\ NoDuplicates(skipped)

Classified ==
    mainPc = "returned" /\ jobs # {} =>
        (result.outcome = "error" <=> realErrs # <<>> /\ allFindings = <<>>)

-----------------------------------------------------------------------------
(* Sequences. *)

(* What is in a slice after one more was appended. *)
LEMMA AppendRange ==
    ASSUME NEW S, NEW s \in Seq(S), NEW x \in S
    PROVE  /\ Append(s, x) \in Seq(S)
           /\ Append(s, x) # <<>>
           /\ ToSet(Append(s, x)) = ToSet(s) \cup {x}
  <1>1. /\ Append(s, x) \in Seq(S) /\ Append(s, x) # <<>>
        /\ DOMAIN Append(s, x) = 1..(Len(s) + 1)
        /\ Append(s, x)[Len(s) + 1] = x
        /\ \A i \in 1..Len(s) : Append(s, x)[i] = s[i]
        /\ DOMAIN s = 1..Len(s) /\ Len(s) \in Nat
    BY AppendProperties
  <1> DEFINE t == Append(s, x)
  <1> HIDE DEF t
  <1>2. ToSet(t) \subseteq ToSet(s) \cup {x}
    BY <1>1 DEF ToSet, t
  <1>3. ToSet(s) \subseteq ToSet(t)
    <2>1. \A i \in DOMAIN s : s[i] = t[i] /\ i \in DOMAIN t
      BY <1>1 DEF t
    <2> QED
      BY <2>1 DEF ToSet
  <1>4. x \in ToSet(t)
    <2>1. t[Len(s) + 1] = x /\ Len(s) + 1 \in DOMAIN t
      BY <1>1 DEF t
    <2> QED
      BY <2>1 DEF ToSet
  <1> QED
    BY <1>1, <1>2, <1>3, <1>4 DEF t

(* A slice without duplicates stays so if what is appended is new. *)
LEMMA AppendNew ==
    ASSUME NEW S, NEW s \in Seq(S), NEW x \in S, NoDuplicates(s), x \notin ToSet(s)
    PROVE  NoDuplicates(Append(s, x))
  <1>1. /\ DOMAIN Append(s, x) = 1..(Len(s) + 1)
        /\ Append(s, x)[Len(s) + 1] = x
        /\ \A i \in 1..Len(s) : Append(s, x)[i] = s[i]
        /\ DOMAIN s = 1..Len(s) /\ Len(s) \in Nat
    BY AppendProperties
  <1>2. \A i \in 1..Len(s) : s[i] # x
    BY <1>1 DEF ToSet
  <1> QED
    BY <1>1, <1>2 DEF NoDuplicates

(* In a slice without duplicates a job is once or not at all. *)
LEMMA TimesOnce ==
    ASSUME NEW S, NEW s \in Seq(S), NoDuplicates(s), NEW j
    PROVE  TimesIn(j, s) = IF j \in ToSet(s) THEN 1 ELSE 0
  <1> DEFINE at == {i \in 1..Len(s) : s[i] = j}
  <1>0. DOMAIN s = 1..Len(s)
    OBVIOUS
  <1>1. CASE j \in ToSet(s)
    <2>1. PICK i \in DOMAIN s : s[i] = j
      BY <1>1 DEF ToSet
    <2>2. at = {i}
      BY <2>1, <1>0 DEF NoDuplicates
    <2> QED
      BY <1>1, <2>2, FS_Singleton DEF TimesIn
  <1>2. CASE j \notin ToSet(s)
    <2>1. at = {}
      BY <1>2, <1>0 DEF ToSet
    <2> QED
      BY <1>2, <2>1, FS_EmptySet DEF TimesIn
  <1> QED
    BY <1>1, <1>2

(* The pages a call returns are findings of its job. *)
LEMMA FindingsTyped ==
    ASSUME NEW j \in Job, NEW shapes \in PageLists
    PROVE  /\ FindingsOf(j, shapes) \in Seq(Finding)
           /\ FindingsOf(j, shapes) # <<>>
           /\ \A i \in DOMAIN FindingsOf(j, shapes) : FindingsOf(j, shapes)[i].job = j
  <1>1. shapes \in Seq(Shape) /\ Len(shapes) \in Nat /\ Len(shapes) # 0
    BY PageListsAssumption
  <1>2. \A p \in 1..Len(shapes) : shapes[p] \in Shape
    BY <1>1
  <1>3. ASSUME NEW p \in 1..Len(shapes)
        PROVE  /\ PageFinding(j, p, shapes[p]) \in Finding
               /\ PageFinding(j, p, shapes[p]).job = j
    <2> DEFINE items == IF shapes[p] = "null" THEN <<>> ELSE <<<<j, p>>>>
    <2>1. <<j, p>> \in Item
      BY DEF Item
    <2>2. items \in Seq(Item)
      <3> DEFINE item == <<j, p>>
      <3>1. item \in Item
        BY <2>1
      <3> HIDE DEF item
      <3>2. <<item>> \in Seq(Item) /\ <<>> \in Seq(Item)
        BY <3>1
      <3> QED
        BY <3>2 DEF item
    <2>3. PageFinding(j, p, shapes[p]) =
            [job |-> j, page |-> p, shape |-> shapes[p], items |-> items]
      BY DEF PageFinding
    <2> HIDE DEF items
    <2> QED
      BY <1>2, <2>2, <2>3 DEF Finding
  <1>4. FindingsOf(j, shapes) = [p \in 1..Len(shapes) |-> PageFinding(j, p, shapes[p])]
    BY DEF FindingsOf
  <1>5. FindingsOf(j, shapes) \in [1..Len(shapes) -> Finding]
    BY <1>3, <1>4
  <1>6. FindingsOf(j, shapes) \in Seq(Finding)
        /\ Len(FindingsOf(j, shapes)) = Len(shapes)
        /\ DOMAIN FindingsOf(j, shapes) = 1..Len(shapes)
    BY <1>1, <1>5
  <1> QED
    BY <1>1, <1>3, <1>4, <1>6

(* Who holds a slot is counted in sem, who is going in wg. *)
LEMMA Counted ==
    ASSUME TypeOK, Slots, WaitGroup, NEW j \in Job
    PROVE  /\ pc[j] \in Holding => sem - 1 \in Nat
           /\ pc[j] \notin {"unborn", "done"} => wg - 1 \in Nat
  <1>1. pc[j] \in Holding => Holders # {}
    BY DEF Holders
  <1>2. pc[j] \notin {"unborn", "done"} => Going # {}
    BY DEF Going
  <1>3. /\ IsFiniteSet(Holders) /\ Cardinality(Holders) = sem
        /\ IsFiniteSet(Going) /\ Cardinality(Going) = wg
    BY DEF Slots, WaitGroup
  <1>4. (Holders # {} => sem # 0) /\ (Going # {} => wg # 0)
    BY <1>3, FS_EmptySet
  <1> QED
    BY <1>1, <1>2, <1>4 DEF TypeOK

(* Every step keeps the types. *)
LEMMA TypesInductive ==
    TypeOK /\ Slots /\ WaitGroup /\ Returns /\ [Next]_vars => TypeOK'
  <1> SUFFICES ASSUME TypeOK, Slots, WaitGroup, Returns, [Next]_vars PROVE TypeOK'
    OBVIOUS
  <1> USE DEF TypeOK
  <1>1. CASE BuildJobs
    BY <1>1, JobsOfAssumption DEF BuildJobs, NoResult, jobVars, slices
  <1>2. ASSUME NEW j \in Job, Spawn(j) PROVE TypeOK'
    BY <1>2 DEF Spawn, slices
  <1>3. ASSUME NEW j \in Job, AcquireSlot(j) PROVE TypeOK'
    BY <1>3 DEF AcquireSlot, mainVars, slices
  <1>4. ASSUME NEW j \in Job, CancelledBeforeStart(j) PROVE TypeOK'
    BY <1>4, AppendRange DEF CancelledBeforeStart, mainVars
  <1>5. ASSUME NEW j \in Job, Deadline(j) PROVE TypeOK'
    BY <1>5 DEF Deadline, mainVars, slices
  <1>6. ASSUME NEW j \in Job, NEW ret, ExecuteReturns(j, ret),
               ret \in [kind : {"none", "findings", "skip", "error"},
                        findings : Seq(Finding)]
        PROVE  TypeOK'
    BY <1>6 DEF ExecuteReturns, mainVars, slices
  <1>7. ASSUME NEW j \in Job, ExecuteSucceeds(j) PROVE TypeOK'
    <2>1. PICK shapes \in PageLists :
            ExecuteReturns(j, Returned("findings", FindingsOf(j, shapes)))
      BY <1>7 DEF ExecuteSucceeds
    <2>2. FindingsOf(j, shapes) \in Seq(Finding)
      BY FindingsTyped
    <2> QED
      BY <1>6, <2>1, <2>2 DEF Returned
  <1>8. ASSUME NEW j \in Job, ExecuteSkips(j) \/ ExecuteFails(j) PROVE TypeOK'
    <2>1. <<>> \in Seq(Finding)
      OBVIOUS
    <2> QED
      BY <1>6, <1>8, <2>1 DEF ExecuteSkips, ExecuteFails, Returned
  <1>9. ASSUME NEW j \in Job, Record(j) PROVE TypeOK'
    <2>1. allFindings \o returned[j].findings \in Seq(Finding)
      BY ConcatProperties
    <2>2. Append(skipped, j) \in Seq(Job) /\ Append(realErrs, j) \in Seq(Job)
      BY AppendRange
    <2>3. allFindings' \in Seq(Finding) /\ skipped' \in Seq(Job) /\ realErrs' \in Seq(Job)
      <3>1. CASE returned[j].kind = "findings"
        BY <1>9, <2>1, <3>1 DEF Record
      <3>2. CASE returned[j].kind = "skip"
        BY <1>9, <2>2, <3>2 DEF Record
      <3>3. CASE returned[j].kind = "error"
        BY <1>9, <2>2, <3>3 DEF Record
      <3>4. CASE returned[j].kind = "none"
        BY <1>9, <3>4 DEF Record, Returns
      <3> QED
        BY <3>1, <3>2, <3>3, <3>4
    <2> QED
      BY <1>9, <2>3 DEF Record, mainVars
  <1>10. ASSUME NEW j \in Job, ReleaseSlot(j) PROVE TypeOK'
    BY <1>10, Counted DEF ReleaseSlot, mainVars, slices, Holding
  <1>11. ASSUME NEW j \in Job, Done(j) PROVE TypeOK'
    BY <1>11, Counted DEF Done, mainVars, slices
  <1>12. CASE Cancel
    BY <1>12 DEF Cancel, mainVars, jobVars, slices
  <1>13. CASE Collect
    BY <1>13 DEF Collect, NoResult, jobVars, slices
  <1>14. CASE UNCHANGED vars
    BY <1>14 DEF vars
  <1> QED
    BY <1>1, <1>2, <1>3, <1>4, <1>5, <1>7, <1>8, <1>9, <1>10, <1>11, <1>12,
       <1>13, <1>14 DEF Next, Goroutine, Terminated

(* What becomes of both sets when a goroutine moves on. *)
LEMMA Moved ==
    ASSUME TypeOK, NEW j \in Job, NEW l, pc' = [pc EXCEPT ![j] = l]
    PROVE  /\ Holders' = IF l \in Holding THEN Holders \cup {j} ELSE Holders \ {j}
           /\ Going' = IF l \notin {"unborn", "done"} THEN Going \cup {j}
                       ELSE Going \ {j}
  <1>1. \A i \in Job : pc'[i] = IF i = j THEN l ELSE pc[i]
    BY DEF TypeOK
  <1>2. Holders' = {i \in Job : pc'[i] \in Holding}
    BY DEF Holders
  <1>3. Going' = {i \in Job : pc'[i] \notin {"unborn", "done"}}
    BY DEF Going
  <1> QED
    BY <1>1, <1>2, <1>3 DEF Holders, Going

(* A slot is taken when there is one, and given back by its holder. *)
LEMMA SlotsInductive == TypeOK /\ Slots /\ [Next]_vars => Slots'
  <1> SUFFICES ASSUME TypeOK, Slots, [Next]_vars PROVE Slots'
    OBVIOUS
  <1> USE ConcurrencyAssumption DEF Slots
  <1>1. ASSUME NEW j \in Job, Spawn(j) PROVE Slots'
    <2>1. Holders' = Holders
      BY <1>1, Moved DEF Spawn, Holding, Holders
    <2> QED
      BY <1>1, <2>1 DEF Spawn
  <1>2. ASSUME NEW j \in Job, AcquireSlot(j) PROVE Slots'
    <2>1. Holders' = Holders \cup {j} /\ j \notin Holders
      BY <1>2, Moved DEF AcquireSlot, Holding, Holders
    <2>2. sem \in Nat
      BY DEF TypeOK
    <2>3. IsFiniteSet(Holders \cup {j}) /\ Cardinality(Holders \cup {j}) = sem + 1
      BY <2>1, FS_AddElement
    <2> QED
      BY <1>2, <2>1, <2>2, <2>3 DEF AcquireSlot
  <1>3. ASSUME NEW j \in Job, CancelledBeforeStart(j) PROVE Slots'
    <2>1. Holders' = Holders
      BY <1>3, Moved DEF CancelledBeforeStart, Holding, Holders
    <2> QED
      BY <1>3, <2>1 DEF CancelledBeforeStart
  <1>4. ASSUME NEW j \in Job, NEW ret, ExecuteReturns(j, ret) PROVE Slots'
    <2>1. Holders' = Holders
      BY <1>4, Moved DEF ExecuteReturns, Holding, Holders
    <2> QED
      BY <1>4, <2>1 DEF ExecuteReturns
  <1>5. ASSUME NEW j \in Job, Record(j) PROVE Slots'
    <2>1. Holders' = Holders
      BY <1>5, Moved DEF Record, Holding, Holders
    <2> QED
      BY <1>5, <2>1 DEF Record
  <1>6. ASSUME NEW j \in Job, ReleaseSlot(j) PROVE Slots'
    <2>1. Holders' = Holders \ {j} /\ j \in Holders
      BY <1>6, Moved DEF ReleaseSlot, Holding, Holders
    <2>2. sem \in Nat
      BY DEF TypeOK
    <2>3. IsFiniteSet(Holders \ {j}) /\ Cardinality(Holders \ {j}) = sem - 1
      BY <2>1, FS_RemoveElement
    <2> QED
      BY <1>6, <2>1, <2>2, <2>3 DEF ReleaseSlot
  <1>7. ASSUME NEW j \in Job, Done(j) PROVE Slots'
    <2>1. Holders' = Holders
      BY <1>7, Moved DEF Done, Holding, Holders
    <2> QED
      BY <1>7, <2>1 DEF Done
  <1>8. CASE UNCHANGED <<pc, sem>>
    BY <1>8 DEF Holders
  <1> QED
    BY <1>1, <1>2, <1>3, <1>4, <1>5, <1>6, <1>7, <1>8
    DEF Next, Goroutine, BuildJobs, Deadline, ExecuteSucceeds, ExecuteSkips,
        ExecuteFails, Cancel, Collect, Terminated, vars, jobVars

(* wg.Add comes with the goroutine, wg.Done with its end. *)
LEMMA WaitGroupInductive == TypeOK /\ WaitGroup /\ [Next]_vars => WaitGroup'
  <1> SUFFICES ASSUME TypeOK, WaitGroup, [Next]_vars PROVE WaitGroup'
    OBVIOUS
  <1> USE DEF WaitGroup
  <1>1. ASSUME NEW j \in Job, Spawn(j) PROVE WaitGroup'
    <2>1. Going' = Going \cup {j} /\ j \notin Going
      <3>1. pc' = [pc EXCEPT ![j] = "queued"] /\ pc[j] = "unborn"
        BY <1>1 DEF Spawn
      <3>2. Going' = IF "queued" \notin {"unborn", "done"} THEN Going \cup {j}
                     ELSE Going \ {j}
        BY <3>1, Moved
      <3> QED
        BY <3>1, <3>2 DEF Going
    <2>2. IsFiniteSet(Going \cup {j}) /\ Cardinality(Going \cup {j}) = wg + 1
      BY <2>1, FS_AddElement
    <2> QED
      BY <1>1, <2>1, <2>2 DEF Spawn
  <1>2. ASSUME NEW j \in Job, NEW l, pc' = [pc EXCEPT ![j] = l],
               pc[j] \notin {"unborn", "done"}, l \notin {"unborn", "done"}
        PROVE  Going' = Going
    BY <1>2, Moved DEF Going
  <1>3. ASSUME NEW j \in Job,
               \/ AcquireSlot(j) \/ CancelledBeforeStart(j)
               \/ Record(j) \/ ReleaseSlot(j)
        PROVE  WaitGroup'
    BY <1>2, <1>3 DEF AcquireSlot, CancelledBeforeStart, Record, ReleaseSlot
  <1>4. ASSUME NEW j \in Job, NEW ret, ExecuteReturns(j, ret) PROVE WaitGroup'
    BY <1>2, <1>4 DEF ExecuteReturns
  <1>5. ASSUME NEW j \in Job, Done(j) PROVE WaitGroup'
    <2>1. Going' = Going \ {j} /\ j \in Going
      BY <1>5, Moved DEF Done, Going
    <2>2. IsFiniteSet(Going \ {j}) /\ Cardinality(Going \ {j}) = wg - 1
      BY <2>1, FS_RemoveElement
    <2> QED
      BY <1>5, <2>1, <2>2 DEF Done
  <1>6. CASE UNCHANGED <<pc, wg>>
    BY <1>6 DEF Going
  <1> QED
    BY <1>1, <1>3, <1>4, <1>5, <1>6
    DEF Next, Goroutine, BuildJobs, Deadline, ExecuteSucceeds, ExecuteSkips,
        ExecuteFails, Cancel, Collect, Terminated, vars, jobVars

(* A finding is of a job of the batch, and in the slice of what was found. *)
LEMMA FoundAfterConcat ==
    ASSUME NEW s \in Seq(Finding), NEW t \in Seq(Finding), NEW j \in Job
    PROVE  (\E i \in DOMAIN (s \o t) : (s \o t)[i].job = j) <=>
             \/ \E i \in DOMAIN s : s[i].job = j
             \/ \E i \in DOMAIN t : t[i].job = j
  <1>1. /\ DOMAIN s = 1..Len(s) /\ DOMAIN t = 1..Len(t)
        /\ DOMAIN (s \o t) = 1..(Len(s) + Len(t))
        /\ Len(s) \in Nat /\ Len(t) \in Nat
    BY ConcatProperties
  <1>2. \A i \in 1..Len(s) : (s \o t)[i] = s[i]
    BY ConcatProperties
  <1>3. \A i \in 1..Len(t) : (s \o t)[Len(s) + i] = t[i]
    BY ConcatProperties
  <1>4. ASSUME NEW i \in DOMAIN (s \o t), (s \o t)[i].job = j
        PROVE  \/ \E k \in DOMAIN s : s[k].job = j
               \/ \E k \in DOMAIN t : t[k].job = j
    <2>1. CASE i \in 1..Len(s)
      BY <1>1, <1>2, <1>4, <2>1
    <2>2. CASE i \notin 1..Len(s)
      <3>1. i - Len(s) \in 1..Len(t) /\ i = Len(s) + (i - Len(s))
        BY <1>1, <2>2
      <3>2. t[i - Len(s)].job = j
        BY <1>3, <1>4, <3>1
      <3> QED
        BY <1>1, <3>1, <3>2
    <2> QED
      BY <2>1, <2>2
  <1>5. ASSUME NEW i \in DOMAIN s, s[i].job = j
        PROVE  \E k \in DOMAIN (s \o t) : (s \o t)[k].job = j
    <2>1. i \in DOMAIN (s \o t) /\ (s \o t)[i] = s[i]
      BY <1>1, <1>2
    <2> QED
      BY <1>5, <2>1
  <1>6. ASSUME NEW i \in DOMAIN t, t[i].job = j
        PROVE  \E k \in DOMAIN (s \o t) : (s \o t)[k].job = j
    <2>1. Len(s) + i \in DOMAIN (s \o t) /\ (s \o t)[Len(s) + i] = t[i]
      BY <1>1, <1>3
    <2> QED
      BY <1>6, <2>1
  <1> QED
    BY <1>4, <1>5, <1>6

(* What a call returned is of the goroutine's own job, and there is some. *)
LEMMA ReturnsInductive == TypeOK /\ Returns /\ [Next]_vars => Returns'
  <1> SUFFICES ASSUME TypeOK, Returns, [Next]_vars PROVE Returns'
    OBVIOUS
  <1>1. ASSUME NEW j \in Job, NEW l, pc' = [pc EXCEPT ![j] = l],
               UNCHANGED returned,
               l \in {"unborn", "queued", "executing"} =>
                 pc[j] \in {"unborn", "queued", "executing"},
               l # "recording"
        PROVE  Returns'
    <2>1. \A i \in Job : pc'[i] = IF i = j THEN l ELSE pc[i]
      BY <1>1 DEF TypeOK
    <2> QED
      BY <1>1, <2>1 DEF Returns
  <1>2. ASSUME NEW j \in Job, NEW ret, ExecuteReturns(j, ret), ret.kind # "none",
               ret.kind = "findings" =>
                 /\ ret.findings # <<>>
                 /\ \A i \in DOMAIN ret.findings : ret.findings[i].job = j
        PROVE  Returns'
    <2>1. \A i \in Job : /\ pc'[i] = IF i = j THEN "recording" ELSE pc[i]
                         /\ returned'[i] = IF i = j THEN ret ELSE returned[i]
      BY <1>2 DEF ExecuteReturns, TypeOK
    <2>2. ASSUME NEW i \in Job
          PROVE  /\ pc'[i] \in {"unborn", "queued", "executing"} => returned'[i] = NoReturn
                 /\ pc'[i] = "recording" => returned'[i].kind # "none"
                 /\ returned'[i].kind = "findings" =>
                      /\ returned'[i].findings # <<>>
                      /\ \A k \in DOMAIN returned'[i].findings :
                           returned'[i].findings[k].job = i
      <3>1. CASE i = j
        BY <1>2, <2>1, <3>1
      <3>2. CASE i # j
        BY <2>1, <3>2 DEF Returns
      <3> QED
        BY <3>1, <3>2
    <2> QED
      BY <2>2 DEF Returns
  <1>3. ASSUME NEW j \in Job, ExecuteSucceeds(j) PROVE Returns'
    <2>1. PICK shapes \in PageLists :
            ExecuteReturns(j, Returned("findings", FindingsOf(j, shapes)))
      BY <1>3 DEF ExecuteSucceeds
    <2>2. /\ Returned("findings", FindingsOf(j, shapes)).kind = "findings"
          /\ Returned("findings", FindingsOf(j, shapes)).findings = FindingsOf(j, shapes)
      BY DEF Returned
    <2> QED
      BY <1>2, <2>1, <2>2, FindingsTyped
  <1>4. ASSUME NEW j \in Job, ExecuteSkips(j) \/ ExecuteFails(j) PROVE Returns'
    <2>1. Returned("skip", <<>>).kind = "skip" /\ Returned("error", <<>>).kind = "error"
      BY DEF Returned
    <2> QED
      BY <1>2, <1>4, <2>1 DEF ExecuteSkips, ExecuteFails
  <1>5. ASSUME NEW j \in Job,
               \/ Spawn(j) \/ AcquireSlot(j) \/ CancelledBeforeStart(j)
               \/ Record(j) \/ ReleaseSlot(j) \/ Done(j)
        PROVE  Returns'
    BY <1>1, <1>5 DEF Spawn, AcquireSlot, CancelledBeforeStart, Record,
                      ReleaseSlot, Done
  <1>6. CASE UNCHANGED <<pc, returned>>
    BY <1>6 DEF Returns
  <1> QED
    BY <1>3, <1>4, <1>5, <1>6
    DEF Next, Goroutine, BuildJobs, Deadline, Cancel, Collect, Terminated,
        vars, jobVars

(* No goroutine is left when wg.Wait returns. *)
LEMMA WaitReturns ==
    ASSUME TypeOK, WaitGroup, wg = 0
    PROVE  \A j \in Job : pc[j] \in {"unborn", "done"}
  <1>1. Going = {}
    BY FS_EmptySet DEF WaitGroup
  <1> QED
    BY <1>1 DEF Going

(* Only jobs of the batch have goroutines, and Extract outlives them all.  *)
LEMMA PhasesInductive == TypeOK /\ WaitGroup /\ Phases /\ [Next]_vars => Phases'
  <1> SUFFICES ASSUME TypeOK, WaitGroup, Phases, [Next]_vars PROVE Phases'
    OBVIOUS
  <1>1. CASE BuildJobs
    <2>1. \A j \in Job : pc[j] = "unborn"
      BY <1>1 DEF BuildJobs, Phases
    <2>2. pc' = pc
      BY <1>1 DEF BuildJobs, jobVars
    <2>3. \/ mainPc' = "returned" /\ jobs' = {}
          \/ mainPc' = "spawning"
      BY <1>1 DEF BuildJobs, Phases
    <2> QED
      BY <2>1, <2>2, <2>3 DEF Phases
  <1>2. ASSUME NEW j \in Job, Spawn(j) PROVE Phases'
    <2>1. \A i \in Job : pc'[i] = IF i = j THEN "queued" ELSE pc[i]
      BY <1>2 DEF Spawn, TypeOK
    <2>2. jobs' = jobs /\ j \in jobs /\ mainPc = "spawning"
      BY <1>2 DEF Spawn
    <2>3. mainPc' \in {"spawning", "waiting"}
      BY <1>2 DEF Spawn
    <2>4. mainPc' = "waiting" => \A i \in jobs \ {j} : pc[i] # "unborn"
      BY <1>2 DEF Spawn
    <2>5. jobs \subseteq Job
      BY DEF TypeOK
    <2> QED
      BY <2>1, <2>2, <2>3, <2>4, <2>5 DEF Phases
  <1>3. ASSUME NEW j \in Job, NEW l, pc' = [pc EXCEPT ![j] = l], l # "unborn",
               pc[j] \notin {"unborn", "done"}, UNCHANGED <<mainPc, jobs>>
        PROVE  Phases'
    <2>1. \A i \in Job : pc'[i] = IF i = j THEN l ELSE pc[i]
      BY <1>3 DEF TypeOK
    <2>2. j \in jobs /\ mainPc \notin {"building", "returned"} /\ jobs \subseteq Job
      BY <1>3 DEF Phases, TypeOK
    <2> QED
      BY <1>3, <2>1, <2>2 DEF Phases
  <1>4. ASSUME NEW j \in Job,
               \/ AcquireSlot(j) \/ CancelledBeforeStart(j)
               \/ Record(j) \/ ReleaseSlot(j) \/ Done(j)
        PROVE  Phases'
    BY <1>3, <1>4 DEF AcquireSlot, CancelledBeforeStart, Record, ReleaseSlot,
                      Done, mainVars
  <1>5. ASSUME NEW j \in Job, NEW ret, ExecuteReturns(j, ret) PROVE Phases'
    BY <1>3, <1>5 DEF ExecuteReturns, mainVars
  <1>6. CASE Collect
    <2>1. \A j \in jobs : pc[j] = "done"
      BY <1>6, WaitReturns DEF Collect, Phases, TypeOK
    <2> QED
      BY <1>6, <2>1 DEF Collect, Phases, jobVars
  <1>7. CASE UNCHANGED <<mainPc, jobs, pc>>
    BY <1>7 DEF Phases
  <1> QED
    BY <1>1, <1>2, <1>4, <1>5, <1>6, <1>7
    DEF Next, Goroutine, Deadline, ExecuteSucceeds, ExecuteSkips,
        ExecuteFails, Cancel, Terminated, vars, mainVars, jobVars

(* A job whose goroutine moves without touching a slice stays where it is. *)
LEMMA RecordedKept ==
    ASSUME TypeOK, Recorded, NEW j \in Job, NEW l, pc' = [pc EXCEPT ![j] = l],
           l \in Settled <=> pc[j] \in Settled, UNCHANGED <<returned, slices>>
    PROVE  Recorded'
  <1>1. \A i \in Job : pc'[i] \in Settled <=> pc[i] \in Settled
    BY DEF TypeOK
  <1>2. \A i \in Job : Found(i)' <=> Found(i)
    BY DEF Found, slices
  <1> QED
    BY <1>1, <1>2 DEF Recorded, slices

(* Each goroutine appends what its call returned, to the slice it is for.  *)
LEMMA RecordedInductive ==
    TypeOK /\ Returns /\ Recorded /\ [Next]_vars => Recorded'
  <1> SUFFICES ASSUME TypeOK, Returns, Recorded, [Next]_vars PROVE Recorded'
    OBVIOUS
  <1>1. ASSUME NEW j \in Job,
               Spawn(j) \/ AcquireSlot(j) \/ ReleaseSlot(j) \/ Done(j)
        PROVE  Recorded'
    BY <1>1, RecordedKept DEF Spawn, AcquireSlot, ReleaseSlot, Done, Settled
  <1>2. ASSUME NEW j \in Job, CancelledBeforeStart(j) PROVE Recorded'
    <2>1. \A i \in Job : pc'[i] = IF i = j THEN "finishing" ELSE pc[i]
      BY <1>2 DEF CancelledBeforeStart, TypeOK
    <2>2. ToSet(realErrs') = ToSet(realErrs) \cup {j}
      BY <1>2, AppendRange DEF CancelledBeforeStart, TypeOK
    <2>3. skipped' = skipped /\ returned' = returned /\ allFindings' = allFindings
      BY <1>2 DEF CancelledBeforeStart
    <2>4. returned[j].kind = "none" /\ pc[j] \notin Settled
      BY <1>2 DEF CancelledBeforeStart, Returns, NoReturn, Settled
    <2>5. \A i \in Job : Found(i)' <=> Found(i)
      BY <2>3 DEF Found
    <2> QED
      BY <2>1, <2>2, <2>3, <2>4, <2>5 DEF Recorded, Settled
  <1>3. ASSUME NEW j \in Job, NEW ret, ExecuteReturns(j, ret) PROVE Recorded'
    <2>1. \A i \in Job : /\ pc'[i] = IF i = j THEN "recording" ELSE pc[i]
                         /\ returned'[i] = IF i = j THEN ret ELSE returned[i]
      BY <1>3 DEF ExecuteReturns, TypeOK
    <2>2. pc[j] \notin Settled /\ "recording" \notin Settled
      BY <1>3 DEF ExecuteReturns, Settled
    <2>3. UNCHANGED slices
      BY <1>3 DEF ExecuteReturns
    <2>4. \A i \in Job : Found(i)' <=> Found(i)
      BY <2>3 DEF Found, slices
    <2> QED
      BY <2>1, <2>2, <2>3, <2>4 DEF Recorded, slices
  <1>4. ASSUME NEW j \in Job, Record(j) PROVE Recorded'
    <2>1. \A i \in Job : pc'[i] = IF i = j THEN "releasing" ELSE pc[i]
      BY <1>4 DEF Record, TypeOK
    <2>2. pc[j] \notin Settled /\ "releasing" \in Settled /\ returned' = returned
      BY <1>4 DEF Record, Settled
    <2>3. CASE returned[j].kind = "findings"
      <3>1. /\ allFindings' = allFindings \o returned[j].findings
            /\ realErrs' = realErrs /\ skipped' = skipped
        BY <1>4, <2>3 DEF Record
      <3>2. /\ allFindings \in Seq(Finding)
            /\ returned[j].findings \in Seq(Finding)
        BY DEF TypeOK
      <3>3. returned[j].findings # <<>> /\
              \A k \in DOMAIN returned[j].findings : returned[j].findings[k].job = j
        BY <2>3 DEF Returns
      <3>4. \E k \in DOMAIN returned[j].findings : returned[j].findings[k].job = j
        <4>1. 1 \in DOMAIN returned[j].findings
          BY <3>2, <3>3
        <4> QED
          BY <3>3, <4>1
      <3>5. \A i \in Job : Found(i)' <=> Found(i) \/ i = j
        <4>1. ASSUME NEW i \in Job PROVE Found(i)' <=> Found(i) \/ i = j
          <5>1. Found(i)' <=>
                  \/ Found(i)
                  \/ \E k \in DOMAIN returned[j].findings :
                       returned[j].findings[k].job = i
            BY <3>1, <3>2, FoundAfterConcat DEF Found
          <5> QED
            BY <3>3, <3>4, <5>1
        <4> QED
          BY <4>1
      <3> QED
        BY <2>1, <2>2, <2>3, <3>1, <3>5 DEF Recorded
    <2>4. CASE returned[j].kind = "skip"
      <3>1. /\ skipped' = Append(skipped, j)
            /\ realErrs' = realErrs /\ allFindings' = allFindings
        BY <1>4, <2>4 DEF Record
      <3>2. ToSet(skipped') = ToSet(skipped) \cup {j}
        BY <3>1, AppendRange DEF TypeOK
      <3>3. \A i \in Job : Found(i)' <=> Found(i)
        BY <3>1 DEF Found
      <3> QED
        BY <2>1, <2>2, <2>4, <3>1, <3>2, <3>3 DEF Recorded
    <2>5. CASE returned[j].kind = "error"
      <3>1. /\ realErrs' = Append(realErrs, j)
            /\ skipped' = skipped /\ allFindings' = allFindings
        BY <1>4, <2>5 DEF Record
      <3>2. ToSet(realErrs') = ToSet(realErrs) \cup {j}
        BY <3>1, AppendRange DEF TypeOK
      <3>3. \A i \in Job : Found(i)' <=> Found(i)
        BY <3>1 DEF Found
      <3> QED
        BY <2>1, <2>2, <2>5, <3>1, <3>2, <3>3 DEF Recorded
    <2> QED
      BY <1>4, <2>3, <2>4, <2>5 DEF Record, Returns, TypeOK
  <1>5. CASE UNCHANGED <<pc, returned, slices>>
    <2>1. \A i \in Job : Found(i)' <=> Found(i)
      BY <1>5 DEF Found, slices
    <2> QED
      BY <1>5, <2>1 DEF Recorded, slices
  <1> QED
    BY <1>1, <1>2, <1>3, <1>4, <1>5
    DEF Next, Goroutine, BuildJobs, Deadline, ExecuteSucceeds, ExecuteSkips,
        ExecuteFails, Cancel, Collect, Terminated, vars, jobVars, slices

(* A job is appended to a slice at most once. *)
LEMMA RecordedOnceInductive ==
    TypeOK /\ Returns /\ Recorded /\ RecordedOnce /\ [Next]_vars => RecordedOnce'
  <1> SUFFICES ASSUME TypeOK, Returns, Recorded, RecordedOnce, [Next]_vars
               PROVE  RecordedOnce'
    OBVIOUS
  <1>1. ASSUME NEW j \in Job, CancelledBeforeStart(j) PROVE RecordedOnce'
    <2>1. j \notin ToSet(realErrs)
      BY <1>1 DEF CancelledBeforeStart, Recorded, Settled
    <2> QED
      BY <1>1, <2>1, AppendNew DEF CancelledBeforeStart, RecordedOnce, TypeOK
  <1>2. ASSUME NEW j \in Job, Record(j) PROVE RecordedOnce'
    <2>1. j \notin ToSet(realErrs) /\ j \notin ToSet(skipped)
      BY <1>2 DEF Record, Recorded, Settled
    <2>2. NoDuplicates(Append(realErrs, j)) /\ NoDuplicates(Append(skipped, j))
      BY <2>1, AppendNew DEF RecordedOnce, TypeOK
    <2>3. CASE returned[j].kind = "findings"
      BY <1>2, <2>3 DEF Record, RecordedOnce
    <2>4. CASE returned[j].kind = "skip"
      BY <1>2, <2>2, <2>4 DEF Record, RecordedOnce
    <2>5. CASE returned[j].kind = "error"
      BY <1>2, <2>2, <2>5 DEF Record, RecordedOnce
    <2> QED
      BY <1>2, <2>3, <2>4, <2>5 DEF Record, Returns, TypeOK
  <1>3. CASE UNCHANGED <<realErrs, skipped>>
    BY <1>3 DEF RecordedOnce
  <1> QED
    BY <1>1, <1>2, <1>3
    DEF Next, Goroutine, BuildJobs, Spawn, AcquireSlot, Deadline, ExecuteReturns,
        ExecuteSucceeds, ExecuteSkips, ExecuteFails, ReleaseSlot, Done, Cancel,
        Collect, Terminated, vars, slices

(* What is appended to a slice comes behind it, and all of it. *)
LEMMA PagesAppended ==
    ASSUME NEW s \in Seq(Finding), NEW t \in Seq(Finding), NEW j \in Job,
           t # <<>>, \A i \in DOMAIN s : s[i].job # j
    PROVE  PagesTogether(j, t, s \o t)
  <1> DEFINE a == Len(s) + 1
             u == s \o t
  <1>1. /\ DOMAIN s = 1..Len(s) /\ Len(s) \in Nat
        /\ Len(t) \in Nat /\ Len(t) # 0
        /\ u \in Seq(Finding) /\ Len(u) = Len(s) + Len(t)
        /\ DOMAIN u = 1..(Len(s) + Len(t))
    BY ConcatProperties
  <1>2. \A i \in 1..Len(s) : u[i] = s[i]
    BY ConcatProperties
  <1>3. \A i \in 1..Len(t) : u[Len(s) + i] = t[i]
    BY ConcatProperties
  <1> HIDE DEF u
  <1>4. a \in DOMAIN u /\ a + Len(t) - 1 = Len(u)
    BY <1>1
  <1>5. ASSUME NEW i \in DOMAIN u
        PROVE  IF i \in a..a + Len(t) - 1 THEN u[i] = t[i - a + 1] ELSE u[i].job # j
    <2>1. CASE i \in a..a + Len(t) - 1
      <3>1. i - a + 1 \in 1..Len(t) /\ Len(s) + (i - a + 1) = i
        BY <1>1, <2>1
      <3>2. u[i] = t[i - a + 1]
        BY <1>3, <3>1
      <3> QED
        BY <2>1, <3>2
    <2>2. CASE i \notin a..a + Len(t) - 1
      <3>1. i \in 1..Len(s)
        BY <1>1, <2>2
      <3>2. u[i].job # j
        BY <1>1, <1>2, <3>1
      <3> QED
        BY <2>2, <3>2
    <2> QED
      BY <2>1, <2>2
  <1>6. PagesTogether(j, t, u)
    <2> HIDE DEF a
    <2> QED
      BY <1>4, <1>5 DEF PagesTogether
  <1> QED
    BY <1>6 DEF u

(* What is appended for another job leaves the pages of this one together. *)
LEMMA PagesKept ==
    ASSUME NEW s \in Seq(Finding), NEW t \in Seq(Finding), NEW j \in Job,
           NEW pages \in Seq(Finding), PagesTogether(j, pages, s),
           \A i \in DOMAIN t : t[i].job # j
    PROVE  PagesTogether(j, pages, s \o t)
  <1> DEFINE u == s \o t
  <1>1. /\ DOMAIN s = 1..Len(s) /\ Len(s) \in Nat
        /\ DOMAIN t = 1..Len(t) /\ Len(t) \in Nat
        /\ Len(u) = Len(s) + Len(t)
        /\ DOMAIN u = 1..(Len(s) + Len(t))
        /\ Len(pages) \in Nat
    BY ConcatProperties
  <1>2. \A i \in 1..Len(s) : u[i] = s[i]
    BY ConcatProperties
  <1>3. \A i \in 1..Len(t) : u[Len(s) + i] = t[i]
    BY ConcatProperties
  <1> HIDE DEF u
  <1>4. PICK a \in DOMAIN s :
          /\ a + Len(pages) - 1 <= Len(s)
          /\ \A i \in DOMAIN s :
               IF i \in a..a + Len(pages) - 1 THEN s[i] = pages[i - a + 1]
               ELSE s[i].job # j
    BY DEF PagesTogether
  <1>5. a \in DOMAIN u /\ a + Len(pages) - 1 <= Len(u)
    BY <1>1, <1>4
  <1>6. ASSUME NEW i \in DOMAIN u
        PROVE  IF i \in a..a + Len(pages) - 1 THEN u[i] = pages[i - a + 1]
               ELSE u[i].job # j
    <2>1. CASE i \in 1..Len(s)
      BY <1>1, <1>2, <1>4, <2>1
    <2>2. CASE i \notin 1..Len(s)
      <3>1. i - Len(s) \in 1..Len(t) /\ i = Len(s) + (i - Len(s))
        BY <1>1, <2>2
      <3>2. u[i].job # j
        BY <1>1, <1>3, <3>1
      <3>3. i \notin a..a + Len(pages) - 1
        BY <1>1, <1>4, <2>2
      <3> QED
        BY <3>2, <3>3
    <2> QED
      BY <2>1, <2>2
  <1>7. PagesTogether(j, pages, u)
    BY <1>5, <1>6 DEF PagesTogether
  <1> QED
    BY <1>7 DEF u

(* No other goroutine gets between the pages of a job. *)
LEMMA ContiguousInductive ==
    TypeOK /\ Returns /\ Recorded /\ JobPagesContiguous /\ [Next]_vars
        => JobPagesContiguous'
  <1> SUFFICES ASSUME TypeOK, Returns, Recorded, JobPagesContiguous, [Next]_vars
               PROVE  JobPagesContiguous'
    OBVIOUS
  <1>1. ASSUME NEW j \in Job, NEW ret, ExecuteReturns(j, ret)
        PROVE  JobPagesContiguous'
    <2>1. ~Found(j)
      BY <1>1 DEF ExecuteReturns, Recorded, Settled
    <2>2. allFindings' = allFindings
      BY <1>1 DEF ExecuteReturns, slices
    <2>3. \A i \in Job \ {j} : returned'[i] = returned[i]
      BY <1>1 DEF ExecuteReturns, TypeOK
    <2>4. \A i \in Job : Found(i)' <=> Found(i)
      BY <2>2 DEF Found
    <2> QED
      BY <2>1, <2>2, <2>3, <2>4 DEF JobPagesContiguous
  <1>2. ASSUME NEW j \in Job, Record(j) PROVE JobPagesContiguous'
    <2>1. returned' = returned
      BY <1>2 DEF Record
    <2>2. CASE returned[j].kind = "findings"
      <3> DEFINE pages == returned[j].findings
      <3>1. /\ allFindings' = allFindings \o pages
            /\ allFindings \in Seq(Finding)
            /\ pages \in Seq(Finding)
            /\ pages # <<>>
            /\ \A k \in DOMAIN pages : pages[k].job = j
        BY <1>2, <2>2 DEF Record, TypeOK, Returns
      <3>2. \A k \in DOMAIN allFindings : allFindings[k].job # j
        BY <1>2 DEF Record, Recorded, Settled, Found
      <3>3. PagesTogether(j, pages, allFindings')
        BY <3>1, <3>2, PagesAppended
      <3>4. ASSUME NEW i \in Job, i # j, Found(i)'
            PROVE  PagesTogether(i, returned[i].findings, allFindings')
        <4>1. Found(i)
          <5>1. ~ \E k \in DOMAIN pages : pages[k].job = i
            BY <3>1, <3>4
          <5> HIDE DEF pages
          <5> QED
            BY <3>1, <3>4, <5>1, FoundAfterConcat DEF Found
        <4>2. PagesTogether(i, returned[i].findings, allFindings)
          BY <4>1 DEF JobPagesContiguous
        <4>3. \A k \in DOMAIN pages : pages[k].job # i
          BY <3>1, <3>4
        <4>4. returned[i].findings \in Seq(Finding)
          BY DEF TypeOK
        <4> HIDE DEF pages
        <4> QED
          BY <3>1, <4>2, <4>3, <4>4, PagesKept
      <3> QED
        BY <2>1, <3>3, <3>4 DEF JobPagesContiguous
    <2>3. CASE returned[j].kind \in {"skip", "error"}
      <3>1. allFindings' = allFindings
        BY <1>2, <2>3 DEF Record
      <3>2. \A i \in Job : Found(i)' <=> Found(i)
        BY <3>1 DEF Found
      <3> QED
        BY <2>1, <3>1, <3>2 DEF JobPagesContiguous
    <2> QED
      BY <1>2, <2>2, <2>3 DEF Record, Returns, TypeOK
  <1>3. CASE UNCHANGED <<allFindings, returned>>
    <2>1. \A i \in Job : Found(i)' <=> Found(i)
      BY <1>3 DEF Found
    <2> QED
      BY <1>3, <2>1 DEF JobPagesContiguous
  <1> QED
    BY <1>1, <1>2, <1>3
    DEF Next, Goroutine, BuildJobs, Spawn, AcquireSlot, CancelledBeforeStart,
        Deadline, ExecuteSucceeds, ExecuteSkips, ExecuteFails, ReleaseSlot,
        Done, Cancel, Collect, Terminated, vars, jobVars, slices

(* Collect decides between an error and a result. *)
LEMMA ClassifiedInductive ==
    TypeOK /\ Phases /\ Classified /\ [Next]_vars => Classified'
  <1> SUFFICES ASSUME TypeOK, Phases, Classified, [Next]_vars PROVE Classified'
    OBVIOUS
  <1>1. CASE BuildJobs
    BY <1>1 DEF BuildJobs, Classified, Phases
  <1>2. CASE Collect
    <2>1. UNCHANGED slices
      BY <1>2 DEF Collect
    <2> QED
      BY <1>2, <2>1 DEF Collect, Classified, NoResult, slices
  <1>3. CASE mainPc' # "returned"
    BY <1>3 DEF Classified
  <1>4. CASE UNCHANGED <<mainPc, jobs, result, slices>>
    BY <1>4 DEF Classified, slices
  <1>5. ASSUME NEW j \in Job, CancelledBeforeStart(j) \/ Record(j)
        PROVE  mainPc' # "returned"
    <2>1. mainPc' = mainPc /\ pc[j] \notin {"unborn", "done"}
      BY <1>5 DEF CancelledBeforeStart, Record, mainVars
    <2> QED
      BY <2>1 DEF Phases
  <1> QED
    BY <1>1, <1>2, <1>3, <1>4, <1>5
    DEF Next, Goroutine, Spawn, AcquireSlot, Deadline, ExecuteReturns,
        ExecuteSucceeds, ExecuteSkips, ExecuteFails, ReleaseSlot, Done, Cancel,
        Terminated, vars, mainVars, jobVars, slices

-----------------------------------------------------------------------------
(* The theorems. *)

Inv ==
    /\ TypeOK
    /\ Slots
    /\ WaitGroup
    /\ Phases
    /\ Returns
    /\ Recorded
    /\ RecordedOnce
    /\ JobPagesContiguous
    /\ Classified

(* Nothing has begun yet. *)
LEMMA InvInitially == Init => Inv
  <1> SUFFICES ASSUME Init PROVE Inv
    OBVIOUS
  <1>1. TypeOK
    <2>1. <<>> \in Seq(Finding) /\ <<>> \in Seq(Job)
      OBVIOUS
    <2>2. NoReturn \in [kind : {"none", "findings", "skip", "error"},
                       findings : Seq(Finding)]
      BY <2>1 DEF NoReturn
    <2>3. result.outcome = "none"
      BY DEF Init, NoResult
    <2> QED
      BY <2>1, <2>2, <2>3 DEF Init, TypeOK
  <1>2. Holders = {} /\ Going = {}
    BY DEF Init, Holders, Going, Holding
  <1>3. Slots /\ WaitGroup
    BY <1>2, FS_EmptySet, ConcurrencyAssumption DEF Init, Slots, WaitGroup
  <1>4. Phases /\ Classified
    BY DEF Init, Phases, Classified
  <1>5. Returns
    BY DEF Init, Returns, NoReturn
  <1>6. Recorded
    BY DEF Init, Recorded, Settled, Found, ToSet
  <1>7. RecordedOnce
    BY DEF Init, RecordedOnce, NoDuplicates
  <1>8. JobPagesContiguous
    BY DEF Init, JobPagesContiguous, Found
  <1> QED
    BY <1>1, <1>3, <1>4, <1>5, <1>6, <1>7, <1>8 DEF Inv

(* Every variable of the extraction keeps its type, and the invariant the  *)
(* other theorems need holds (executeJobs).                                *)
THEOREM ExtractionInvariant == Spec => [](TypeOK /\ Inv)
  <1>1. Inv /\ [Next]_vars => Inv'
    BY TypesInductive, SlotsInductive, WaitGroupInductive, PhasesInductive,
       ReturnsInductive, RecordedInductive, RecordedOnceInductive,
       ContiguousInductive, ClassifiedInductive DEF Inv
  <1>2. Inv => TypeOK
    BY DEF Inv
  <1> QED
    BY <1>1, <1>2, InvInitially, PTL DEF Spec

(* At no time are more goroutines at work than there are slots, and every  *)
(* slot taken has its goroutine (runSingleExtractionJob).                  *)
THEOREM BoundedConcurrencyAlways == Spec => []BoundedConcurrency
  <1>1. Inv => BoundedConcurrency
    BY DEF Inv, Slots, Holders, BoundedConcurrency
  <1> QED
    BY <1>1, ExtractionInvariant, PTL

(* When Extract returns every job has left exactly one account. *)
THEOREM EveryJobAccountedAlways == Spec => []EveryJobAccounted
  <1>1. Inv => EveryJobAccounted
    <2> SUFFICES ASSUME Inv, mainPc = "returned" PROVE EveryJobAccounted
      BY DEF EveryJobAccounted
    <2>1. ASSUME NEW j \in Job
          PROVE  Accounts(j) = IF pc[j] \in Settled THEN 1 ELSE 0
      <3>1. TimesIn(j, realErrs) = IF j \in ToSet(realErrs) THEN 1 ELSE 0
        BY TimesOnce DEF Inv, RecordedOnce, TypeOK
      <3>2. TimesIn(j, skipped) = IF j \in ToSet(skipped) THEN 1 ELSE 0
        BY TimesOnce DEF Inv, RecordedOnce, TypeOK
      <3>3. returned[j].kind \in {"none", "findings", "skip", "error"}
        BY DEF Inv, TypeOK
      <3> QED
        BY <3>1, <3>2, <3>3 DEF Accounts, Inv, Recorded
    <2>2. \A j \in jobs : j \in Job /\ pc[j] = "done"
      BY DEF Inv, Phases, TypeOK
    <2>3. \A j \in Job \ jobs : pc[j] = "unborn"
      BY DEF Inv, Phases
    <2> QED
      BY <2>1, <2>2, <2>3 DEF EveryJobAccounted, Settled
  <1> QED
    BY <1>1, ExtractionInvariant, PTL

(* The pages of a job stay together and in order in the shared slice. *)
THEOREM JobPagesContiguousAlways == Spec => []JobPagesContiguous
  <1>1. Inv => JobPagesContiguous
    BY DEF Inv
  <1> QED
    BY <1>1, ExtractionInvariant, PTL

(* Extract reports an error when some job failed and none found anything.  *)
THEOREM ErrorOnlyWhenNothingFoundAlways == Spec => []ErrorOnlyWhenNothingFound
  <1>1. Inv => ErrorOnlyWhenNothingFound
    <2> SUFFICES ASSUME Inv, mainPc = "returned", jobs # {}
                 PROVE  (result.outcome = "error") <=>
                          /\ \E j \in jobs : TimesIn(j, realErrs) > 0
                          /\ \A j \in jobs : returned[j].kind # "findings"
      BY DEF ErrorOnlyWhenNothingFound
    <2>1. result.outcome = "error" <=> realErrs # <<>> /\ allFindings = <<>>
      BY DEF Inv, Classified
    <2>2. /\ \A j \in jobs : j \in Job /\ pc[j] = "done"
          /\ \A j \in Job : pc[j] \in Settled => j \in jobs
      BY DEF Inv, Phases, TypeOK, Settled
    <2>3. realErrs # <<>> <=> \E j \in jobs : TimesIn(j, realErrs) > 0
      <3>1. \A j \in Job : TimesIn(j, realErrs) = IF j \in ToSet(realErrs) THEN 1 ELSE 0
        BY TimesOnce DEF Inv, RecordedOnce, TypeOK
      <3>2. realErrs # <<>> => realErrs[1] \in ToSet(realErrs) /\ realErrs[1] \in Job
        BY DEF Inv, TypeOK, ToSet
      <3>3. \A j \in Job : j \in ToSet(realErrs) => j \in jobs /\ realErrs # <<>>
        <4>1. \A j \in ToSet(realErrs) : realErrs # <<>>
          BY DEF ToSet
        <4> QED
          BY <2>2, <4>1 DEF Inv, Recorded
      <3> QED
        BY <2>2, <3>1, <3>2, <3>3
    <2>4. allFindings = <<>> <=> \A j \in jobs : returned[j].kind # "findings"
      <3>1. allFindings \in Seq(Finding)
        BY DEF Inv, TypeOK
      <3>2. allFindings # <<>> => Found(allFindings[1].job) /\ allFindings[1].job \in Job
        <4>1. allFindings # <<>> => 1 \in DOMAIN allFindings /\ allFindings[1] \in Finding
          BY <3>1
        <4> QED
          BY <4>1 DEF Found, Finding
      <3>3. \A j \in Job : Found(j) => allFindings # <<>>
        BY DEF Found
      <3>4. \A j \in Job : Found(j) <=> pc[j] \in Settled /\ returned[j].kind = "findings"
        BY DEF Inv, Recorded
      <3> QED
        BY <2>2, <3>2, <3>3, <3>4 DEF Settled
    <2> QED
      BY <2>1, <2>3, <2>4
  <1> QED
    BY <1>1, ExtractionInvariant, PTL

(* A step that records nothing keeps a slice as its own prefix. *)
LEMMA PrefixOfItself ==
    ASSUME NEW S, NEW s \in Seq(S) PROVE IsPrefix(s, s)
  BY DEF IsPrefix

(* So does appending one element. *)
LEMMA PrefixOfAppend ==
    ASSUME NEW S, NEW s \in Seq(S), NEW x \in S PROVE IsPrefix(s, Append(s, x))
  BY DEF IsPrefix

(* And so does appending a sequence. *)
LEMMA PrefixOfConcat ==
    ASSUME NEW S, NEW s \in Seq(S), NEW t \in Seq(S) PROVE IsPrefix(s, s \o t)
  BY DEF IsPrefix

(* Nothing is recorded once Extract has returned, and until then the       *)
(* slices are only appended to: no goroutine undoes what another recorded. *)
THEOREM RecordsOnlyGrowAlways == Spec => RecordsOnlyGrow
  <1> DEFINE Grows == /\ IsPrefix(allFindings, allFindings')
                      /\ IsPrefix(realErrs, realErrs')
                      /\ IsPrefix(skipped, skipped')
                      /\ mainPc = "returned" => UNCHANGED <<slices, result>>
  <1>1. ASSUME Inv, [Next]_vars PROVE Grows
    <2>1. /\ allFindings \in Seq(Finding) /\ realErrs \in Seq(Job) /\ skipped \in Seq(Job)
      BY <1>1 DEF Inv, TypeOK
    <2>2. /\ IsPrefix(allFindings, allFindings)
          /\ IsPrefix(realErrs, realErrs)
          /\ IsPrefix(skipped, skipped)
      BY <2>1, PrefixOfItself
    <2>3. \A j \in Job : pc[j] \in {"queued", "recording"} => mainPc # "returned"
      BY <1>1 DEF Inv, Phases
    <2>4. ASSUME NEW j \in Job, CancelledBeforeStart(j) PROVE Grows
      BY <2>1, <2>2, <2>3, <2>4, PrefixOfAppend DEF CancelledBeforeStart
    <2>5. ASSUME NEW j \in Job, Record(j) PROVE Grows
      <3>1. returned[j].findings \in Seq(Finding)
        BY <1>1 DEF Inv, TypeOK
      <3>2. /\ IsPrefix(allFindings, allFindings \o returned[j].findings)
            /\ IsPrefix(realErrs, Append(realErrs, j))
            /\ IsPrefix(skipped, Append(skipped, j))
        BY <2>1, <3>1, PrefixOfAppend, PrefixOfConcat
      <3>3. returned[j].kind \in {"findings", "skip", "error"}
        BY <1>1, <2>5 DEF Inv, TypeOK, Returns, Record
      <3> QED
        BY <2>2, <2>3, <2>5, <3>2, <3>3 DEF Record
    <2>6. CASE Collect
      BY <2>2, <2>6 DEF Collect, slices
    <2>7. CASE BuildJobs
      BY <2>2, <2>7 DEF BuildJobs, slices
    <2>8. CASE UNCHANGED <<slices, result>>
      BY <2>2, <2>8 DEF slices
    <2> QED
      BY <1>1, <2>4, <2>5, <2>6, <2>7, <2>8
      DEF Next, Goroutine, Spawn, AcquireSlot, Deadline, ExecuteSucceeds, ExecuteSkips,
          ExecuteFails, ExecuteReturns, ReleaseSlot, Done, Cancel, Terminated,
          mainVars, vars, slices
  <1>2. Inv /\ [Next]_vars => [Grows]_vars
    BY <1>1
  <1> QED
    BY <1>2, ExtractionInvariant, PTL DEF Spec, RecordsOnlyGrow

-----------------------------------------------------------------------------
(* The loop as a parallel batch. *)

PhaseBar == CASE mainPc = "building" -> "idle"
              [] mainPc = "returned" -> "finished"
              [] OTHER -> "running"
OutcomeBar == [j \in Job |-> Settlement(j)]

(* What a job is settled with, as its goroutine sees it. *)
StatusOf(j) ==
    IF pc[j] \notin Settled THEN "pending"
    ELSE IF returned[j].kind = "none" THEN "error" ELSE returned[j].kind

(* The slices say of a job what its goroutine knows of it. *)
LEMMA SettlementIsStatus == Inv => \A j \in Job : Settlement(j) = StatusOf(j)
  <1> SUFFICES ASSUME Inv, NEW j \in Job PROVE Settlement(j) = StatusOf(j)
    OBVIOUS
  <1>1. returned[j].kind \in {"none", "findings", "skip", "error"}
    BY DEF Inv, TypeOK
  <1> QED
    BY <1>1 DEF Inv, Recorded, Settlement, StatusOf

(* A goroutine that is queued or at work belongs to a running batch. *)
LEMMA RunningBatch ==
    ASSUME Inv, NEW j \in Job, pc[j] \notin {"unborn", "done"}
    PROVE  j \in jobs /\ PhaseBar = "running"
  <1>1. j \in jobs
    BY DEF Inv, Phases
  <1>2. mainPc # "building" /\ mainPc # "returned"
    BY <1>1 DEF Inv, Phases
  <1> QED
    BY <1>1, <1>2 DEF PhaseBar

(* Every step of the loop is one of the batch, or none. *)
LEMMA BatchNext ==
    ASSUME Inv, Inv', [Next]_vars,
           \A j \in Job : Settlement(j) = StatusOf(j),
           \A j \in Job : Settlement(j)' = StatusOf(j)'
    PROVE  [Batch!Next]_(Batch!vars)
  <1> SUFFICES \/ PhaseBar' = PhaseBar /\ jobs' = jobs /\ OutcomeBar' = OutcomeBar
               \/ Batch!Next
    BY DEF PhaseBar, OutcomeBar, Batch!vars
  <1>0. /\ pc = [j \in Job |-> pc[j]]
        /\ DOMAIN returned = Job
        /\ jobs \in SUBSET Job
    BY DEF Inv, TypeOK
  <1>1. ASSUME \A j \in Job : StatusOf(j)' = StatusOf(j) PROVE OutcomeBar' = OutcomeBar
    BY <1>1 DEF OutcomeBar
  <1>2. CASE BuildJobs
    <2>1. OutcomeBar' = OutcomeBar
      BY <1>1, <1>2 DEF BuildJobs, jobVars, StatusOf
    <2>2. PhaseBar = "idle"
      BY <1>2 DEF BuildJobs, PhaseBar
    <2>3. \/ PhaseBar' = "finished" /\ jobs' = jobs
          \/ PhaseBar' = "running"
      BY <1>2 DEF BuildJobs, PhaseBar
    <2>4. jobs' \in SUBSET Job
      BY DEF Inv, TypeOK
    <2>5. Batch!Refuse \/ Batch!Accept(jobs')
      BY <2>1, <2>2, <2>3 DEF Batch!Refuse, Batch!Accept, PhaseBar, OutcomeBar
    <2> QED
      BY <2>4, <2>5 DEF Batch!Next
  <1>3. ASSUME NEW j \in Job, pc[j] \notin {"unborn", "done"}, pc[j] \notin Settled,
               pc' = [pc EXCEPT ![j] = IF pc[j] = "queued" THEN "finishing" ELSE "releasing"],
               returned[j].kind = "none" => pc[j] = "queued",
               UNCHANGED <<mainPc, jobs, returned>>
        PROVE  Batch!Next
    <2>1. j \in jobs /\ PhaseBar = "running"
      BY <1>3, RunningBatch
    <2>2. PhaseBar' = PhaseBar
      BY <1>3 DEF PhaseBar
    <2>3. StatusOf(j) = "pending" /\ StatusOf(j)' \in {"findings", "skip", "error"}
      <3>1. returned[j].kind \in {"none", "findings", "skip", "error"}
        BY DEF Inv, TypeOK
      <3> QED
        BY <1>0, <1>3, <3>1 DEF StatusOf, Settled
    <2>4. \A i \in Job : i # j => StatusOf(i)' = StatusOf(i)
      BY <1>0, <1>3 DEF StatusOf
    <2>5. OutcomeBar[j] = "pending"
      BY <2>3 DEF OutcomeBar
    <2>6. OutcomeBar' = [OutcomeBar EXCEPT ![j] = StatusOf(j)']
      BY <2>4 DEF OutcomeBar
    <2>7. Batch!Settle(j, StatusOf(j)')
      BY <1>3, <2>1, <2>2, <2>5, <2>6 DEF Batch!Settle, PhaseBar, OutcomeBar
    <2> QED
      BY <2>3, <2>7 DEF Batch!Next
  <1>4. ASSUME NEW j \in Job, CancelledBeforeStart(j) PROVE Batch!Next
    <2>1. pc[j] \notin {"unborn", "done"} /\ pc[j] \notin Settled
      BY <1>4 DEF CancelledBeforeStart, Settled
    <2> QED
      BY <1>3, <1>4, <2>1 DEF CancelledBeforeStart, mainVars
  <1>5. ASSUME NEW j \in Job, Record(j) PROVE Batch!Next
    <2>1. pc[j] \notin {"unborn", "done"} /\ pc[j] \notin Settled
      BY <1>5 DEF Record, Settled
    <2>2. returned[j].kind # "none"
      BY <1>5 DEF Record, Inv, Returns
    <2> QED
      BY <1>3, <1>5, <2>1, <2>2 DEF Record, mainVars
  <1>6. CASE Collect
    <2>1. \A j \in jobs : pc[j] = "done" /\ j \in Job
      BY <1>6, WaitReturns, <1>0 DEF Collect, Inv, Phases
    <2>2. OutcomeBar' = OutcomeBar
      BY <1>1, <1>6 DEF Collect, jobVars, StatusOf
    <2>3. PhaseBar = "running" /\ PhaseBar' = "finished"
      BY <1>6 DEF Collect, PhaseBar
    <2>4. \A j \in jobs : OutcomeBar[j] # "pending"
      <3>1. \A j \in Job : returned[j].kind # "pending"
        BY DEF Inv, TypeOK
      <3> QED
        BY <2>1, <3>1 DEF OutcomeBar, StatusOf, Settled
    <2>5. Batch!Finish
      BY <1>6, <2>2, <2>3, <2>4 DEF Collect, Batch!Finish, PhaseBar, OutcomeBar
    <2> QED
      BY <2>5 DEF Batch!Next
  <1>7. ASSUME NEW j \in Job, Spawn(j) \/ Goroutine(j),
               ~CancelledBeforeStart(j), ~Record(j)
        PROVE  PhaseBar' = PhaseBar /\ jobs' = jobs /\ OutcomeBar' = OutcomeBar
    <2>1. PhaseBar' = PhaseBar /\ jobs' = jobs
      BY <1>7 DEF Spawn, Goroutine, AcquireSlot, Deadline, ExecuteSucceeds, ExecuteSkips,
                  ExecuteFails, ExecuteReturns, ReleaseSlot, Done, mainVars, PhaseBar
    <2>2. CASE UNCHANGED returned
      <3>1. \E l : /\ pc' = [pc EXCEPT ![j] = l]
                   /\ l \in Settled <=> pc[j] \in Settled
        <4>1. CASE Deadline(j)
          <5>1. pc' = [pc EXCEPT ![j] = pc[j]]
            BY <4>1, <1>0 DEF Deadline
          <5> QED
            BY <5>1
        <4> QED
          BY <1>7, <2>2, <4>1
          DEF Spawn, Goroutine, AcquireSlot, ExecuteSucceeds, ExecuteSkips,
              ExecuteFails, ExecuteReturns, ReleaseSlot, Done, Settled
      <3> QED
        BY <1>0, <1>1, <2>1, <2>2, <3>1 DEF StatusOf
    <2>3. ASSUME NEW ret, ExecuteReturns(j, ret) PROVE OutcomeBar' = OutcomeBar
      BY <1>0, <1>1, <2>3 DEF ExecuteReturns, StatusOf, Settled
    <2> QED
      BY <1>7, <2>1, <2>2, <2>3
      DEF Spawn, Goroutine, AcquireSlot, Deadline, ExecuteSucceeds, ExecuteSkips,
          ExecuteFails, ReleaseSlot, Done
  <1>8. CASE UNCHANGED <<mainPc, jobs, pc, returned>>
    BY <1>1, <1>8 DEF PhaseBar, StatusOf
  <1> QED
    BY <1>2, <1>4, <1>5, <1>6, <1>7, <1>8
    DEF Next, Cancel, Terminated, mainVars, jobVars, vars

(* With its slots, timeouts and cancellation the extraction loop is still  *)
(* a parallel batch: every endpoint settles once, and Extract answers when *)
(* all have settled.                                                       *)
THEOREM ExtractionImplementsBatch == Spec => ImplementsBatch
  <1>1. Init => Batch!Init
    BY DEF Init, Batch!Init, Settlement, Found, ToSet
  <1>2. Inv => \A j \in Job : Settlement(j) = StatusOf(j)
    BY SettlementIsStatus
  <1>3. (\A j \in Job : Settlement(j) = StatusOf(j))'
          => \A j \in Job : Settlement(j)' = StatusOf(j)'
    OBVIOUS
  <1>4. /\ Inv /\ Inv' /\ [Next]_vars
        /\ \A j \in Job : Settlement(j) = StatusOf(j)
        /\ (\A j \in Job : Settlement(j) = StatusOf(j))'
        => [Batch!Next]_(Batch!vars)
    BY <1>3, BatchNext
  <1> QED
    BY <1>1, <1>2, <1>4, ExtractionInvariant, PTL
    DEF Spec, ImplementsBatch, Batch!Spec

-----------------------------------------------------------------------------
(* Grouping and merging, for any findings in any order. *)

(* What a page holds is in one item at most, which carries its number. *)
OnePage(f) == f.items \in {<<>>, <<<<f.job, f.page>>>>}

(* The pages of a job come in their order in s. *)
Paged(s) ==
    /\ s \in Seq(Finding)
    /\ \A i \in DOMAIN s : OnePage(s[i])
    /\ \A a, b \in DOMAIN s : a < b /\ s[a].job = s[b].job => s[a].page < s[b].page

(* The items of a job come in the order of their pages. *)
Rising(items) ==
    /\ items \in Seq(Item)
    /\ \A a, b \in 1..Len(items) :
         a < b /\ items[a][1] = items[b][1] => items[a][2] < items[b][2]

(* One more finding behind those of earlier pages. *)
LEMMA PagedAppend ==
    ASSUME NEW s, Paged(s), NEW f \in Finding, OnePage(f),
           \A x \in ToSet(s) : x.job = f.job => x.page < f.page
    PROVE  Paged(Append(s, f))
  <1>1. /\ Append(s, f) \in Seq(Finding)
        /\ DOMAIN Append(s, f) = 1..(Len(s) + 1)
        /\ Append(s, f)[Len(s) + 1] = f
        /\ \A i \in 1..Len(s) : Append(s, f)[i] = s[i]
        /\ DOMAIN s = 1..Len(s) /\ Len(s) \in Nat
    BY AppendProperties DEF Paged
  <1> DEFINE t == Append(s, f)
  <1> HIDE DEF t
  <1>2. \A i \in 1..Len(s) : s[i] \in ToSet(s)
    BY <1>1 DEF ToSet
  <1>3. ASSUME NEW i \in DOMAIN t PROVE OnePage(t[i])
    BY <1>1 DEF Paged, t
  <1>4. ASSUME NEW a \in DOMAIN t, NEW b \in DOMAIN t, a < b, t[a].job = t[b].job
        PROVE  t[a].page < t[b].page
    <2>1. a \in 1..Len(s) /\ t[a] = s[a]
      BY <1>1, <1>4 DEF t
    <2>2. CASE b \in 1..Len(s)
      BY <1>1, <1>4, <2>1, <2>2 DEF Paged, t
    <2>3. CASE b = Len(s) + 1
      BY <1>1, <1>2, <1>4, <2>1, <2>3 DEF t
    <2> QED
      BY <1>1, <2>2, <2>3 DEF t
  <1> QED
    BY <1>1, <1>3, <1>4 DEF Paged, t

(* The group of a key has its findings, in their order. *)
LEMMA GroupOfKey ==
    ASSUME NEW s, Paged(s), NEW k
    PROVE  /\ Paged(GroupOf(s, k))
           /\ ToSet(GroupOf(s, k)) = {s[i] : i \in {n \in DOMAIN s : KeyOf[s[n].job] = k}}
  <1>1. Len(s) \in Nat /\ DOMAIN s = 1..Len(s) /\ \A n \in 1..Len(s) : s[n] \in Finding
    BY DEF Paged
  <1> DEFINE Recursion(g) ==
               g = [n \in 0..Len(s) |->
                      IF n = 0 THEN <<>>
                      ELSE IF KeyOf[s[n].job] = k THEN Append(g[n - 1], s[n])
                      ELSE g[n - 1]]
             upTo == CHOOSE g : Recursion(g)
  <1>2. GroupOf(s, k) = upTo[Len(s)]
    BY DEF GroupOf
  <1>3. Recursion(upTo)
    <2> DEFINE step == [n \in 1..Len(s) |-> [x \in Seq(Finding) |->
                          IF KeyOf[s[n].job] = k THEN Append(x, s[n]) ELSE x]]
    <2>1. \A n \in 1..Len(s) : \A x \in Seq(Finding) :
            /\ step[n][x] = IF KeyOf[s[n].job] = k THEN Append(x, s[n]) ELSE x
            /\ step[n][x] \in Seq(Finding)
      BY <1>1
    <2>2. <<>> \in Seq(Finding)
      OBVIOUS
    <2> HIDE DEF step
    <2>3. PICK g \in [0..Len(s) -> Seq(Finding)] :
            g[0] = <<>> /\ \A n \in 1..Len(s) : g[n] = step[n][g[n - 1]]
      <3> DEFINE N == Len(s)
                 T == Seq(Finding)
                 base == <<>>
      <3>1. N \in Nat /\ base \in T /\ StaysIn(T, step, N)
        BY <1>1, <2>1, <2>2 DEF StaysIn
      <3> HIDE DEF N, T, base
      <3>2. \E g \in [0..N -> T] : Recurs(g, base, step, N)
        BY <3>1, RecursionExists
      <3> QED
        BY <3>2 DEF Recurs, N, T, base
    <2>4. ASSUME NEW n \in 0..Len(s), n # 0
          PROVE  step[n][g[n - 1]]
                   = IF KeyOf[s[n].job] = k THEN Append(g[n - 1], s[n]) ELSE g[n - 1]
      <3>1. n \in 1..Len(s) /\ n - 1 \in 0..Len(s)
        BY <1>1, <2>4
      <3>2. g[n - 1] \in Seq(Finding)
        BY <3>1
      <3> QED
        BY <2>1, <3>1, <3>2
    <2>5. Recursion(g)
      <3>1. ASSUME NEW n \in 0..Len(s)
            PROVE  g[n] = IF n = 0 THEN <<>> ELSE IF KeyOf[s[n].job] = k THEN Append(g[n - 1], s[n]) ELSE g[n - 1]
        <4>1. n # 0 => n \in 1..Len(s)
          BY <1>1
        <4> QED
          BY <2>3, <2>4, <4>1
      <3> QED
        BY <2>3, <3>1
    <2> QED
      BY <2>5
  <1> HIDE DEF upTo
  <1>7. /\ upTo[0] = <<>>
        /\ \A n \in 1..Len(s) :
             upTo[n] = IF KeyOf[s[n].job] = k THEN Append(upTo[n - 1], s[n]) ELSE upTo[n - 1]
    <2>1. 0 \in 0..Len(s) /\ \A n \in 1..Len(s) : n \in 0..Len(s) /\ n # 0
      BY <1>1
    <2> QED
      BY <1>3, <2>1
  <1> DEFINE Members(n) == {s[i] : i \in {m \in 1..n : KeyOf[s[m].job] = k}}
             Good == {n \in 0..Len(s) : Paged(upTo[n]) /\ ToSet(upTo[n]) = Members(n)}
  <1>4. 0 \in Good
    <2>1. upTo[0] = <<>>
      BY <1>7
    <2>2. Paged(<<>>) /\ ToSet(<<>>) = {} /\ Members(0) = {}
      BY DEF Paged, ToSet
    <2> QED
      BY <1>1, <2>1, <2>2
  <1>5. ASSUME NEW n \in 1..Len(s), n - 1 \in Good PROVE n \in Good
    <2>1. upTo[n] = IF KeyOf[s[n].job] = k THEN Append(upTo[n - 1], s[n]) ELSE upTo[n - 1]
      BY <1>7
    <2>2. Paged(upTo[n - 1]) /\ ToSet(upTo[n - 1]) = Members(n - 1)
      BY <1>5
    <2>3. 1..n = (1..n - 1) \cup {n} /\ n \in 0..Len(s)
      BY <1>1
    <2>4. CASE KeyOf[s[n].job] = k
      <3>1. Members(n) = Members(n - 1) \cup {s[n]}
        BY <2>3, <2>4
      <3>2. upTo[n - 1] \in Seq(Finding) /\ s[n] \in Finding /\ OnePage(s[n])
        BY <1>1, <2>2 DEF Paged
      <3>3. ToSet(Append(upTo[n - 1], s[n])) = Members(n)
        BY <2>2, <3>1, <3>2, AppendRange
      <3>4. ASSUME NEW x \in Members(n - 1), x.job = s[n].job PROVE x.page < s[n].page
        <4>1. PICK i \in 1..n - 1 : x = s[i]
          OBVIOUS
        <4> QED
          BY <1>1, <3>4, <4>1 DEF Paged
      <3>5. Paged(Append(upTo[n - 1], s[n]))
        BY <2>2, <3>2, <3>4, PagedAppend
      <3> HIDE DEF Members
      <3> QED
        BY <2>1, <2>3, <2>4, <3>3, <3>5
    <2>5. CASE KeyOf[s[n].job] # k
      <3>1. Members(n) = Members(n - 1)
        BY <2>3, <2>5
      <3> HIDE DEF Members
      <3> QED
        BY <2>1, <2>2, <2>3, <2>5, <3>1
    <2> QED
      BY <2>4, <2>5
  <1>6. Len(s) \in Good
    <2> HIDE DEF Good
    <2>1. 0..Len(s) \subseteq Good
      BY <1>1, <1>4, <1>5, UpTo
    <2> QED
      BY <1>1, <2>1
  <1> QED
    BY <1>1, <1>2, <1>6

(* Every key of a finding is there once. *)
LEMMA KeysOnce ==
    ASSUME NEW s \in Seq(Finding)
    PROVE  /\ KeysOrdered(s) \in Seq(Key)
           /\ NoDuplicates(KeysOrdered(s))
           /\ ToSet(KeysOrdered(s)) = {KeyOf[s[i].job] : i \in DOMAIN s}
  <1> DEFINE key(n) == KeyOf[s[n].job]
             seen(n) == \E m \in 1..n - 1 : key(m) = key(n)
             Recursion(g) ==
               g = [n \in 0..Len(s) |->
                      IF n = 0 THEN <<>>
                      ELSE IF seen(n) THEN g[n - 1]
                      ELSE Append(g[n - 1], key(n))]
             upTo == CHOOSE g : Recursion(g)
  <1>1. Len(s) \in Nat /\ DOMAIN s = 1..Len(s) /\ \A n \in 1..Len(s) : key(n) \in Key
    <2>1. \A n \in 1..Len(s) : s[n].job \in Job
      <3>1. \A f \in Finding : f.job \in Job
        BY DEF Finding
      <3> QED
        BY <3>1
    <2> QED
      BY <2>1, KeyOfAssumption
  <1>2. KeysOrdered(s) = upTo[Len(s)]
    BY DEF KeysOrdered
  <1>3. Recursion(upTo)
    <2> DEFINE step == [n \in 1..Len(s) |-> [x \in Seq(Key) |->
                          IF seen(n) THEN x ELSE Append(x, key(n))]]
    <2>1. \A n \in 1..Len(s) : \A x \in Seq(Key) :
            /\ step[n][x] = IF seen(n) THEN x ELSE Append(x, key(n))
            /\ step[n][x] \in Seq(Key)
      <3> HIDE DEF seen, key
      <3> QED
        BY <1>1
    <2>2. <<>> \in Seq(Key)
      OBVIOUS
    <2> HIDE DEF step
    <2>3. PICK g \in [0..Len(s) -> Seq(Key)] :
            g[0] = <<>> /\ \A n \in 1..Len(s) : g[n] = step[n][g[n - 1]]
      <3> DEFINE N == Len(s)
                 T == Seq(Key)
                 base == <<>>
      <3>1. N \in Nat /\ base \in T /\ StaysIn(T, step, N)
        BY <1>1, <2>1, <2>2 DEF StaysIn
      <3> HIDE DEF N, T, base
      <3>2. \E g \in [0..N -> T] : Recurs(g, base, step, N)
        BY <3>1, RecursionExists
      <3> QED
        BY <3>2 DEF Recurs, N, T, base
    <2>4. ASSUME NEW n \in 0..Len(s), n # 0
          PROVE  step[n][g[n - 1]] = IF seen(n) THEN g[n - 1] ELSE Append(g[n - 1], key(n))
      <3>1. n \in 1..Len(s) /\ n - 1 \in 0..Len(s)
        BY <1>1, <2>4
      <3>2. g[n - 1] \in Seq(Key)
        BY <3>1
      <3> HIDE DEF seen, key
      <3> QED
        BY <2>1, <3>1, <3>2
    <2>5. Recursion(g)
      <3>1. ASSUME NEW n \in 0..Len(s)
            PROVE  g[n] = IF n = 0 THEN <<>> ELSE IF seen(n) THEN g[n - 1] ELSE Append(g[n - 1], key(n))
        <4>1. n # 0 => n \in 1..Len(s)
          BY <1>1
        <4> QED
          BY <2>3, <2>4, <4>1
      <3> QED
        BY <2>3, <3>1
    <2> QED
      BY <2>5
  <1> HIDE DEF upTo
  <1>7. /\ upTo[0] = <<>>
        /\ \A n \in 1..Len(s) :
             upTo[n] = IF seen(n) THEN upTo[n - 1] ELSE Append(upTo[n - 1], key(n))
    <2>1. 0 \in 0..Len(s) /\ \A n \in 1..Len(s) : n \in 0..Len(s) /\ n # 0
      BY <1>1
    <2> HIDE DEF seen, key
    <2> QED
      BY <1>3, <2>1
  <1> DEFINE Keys(n) == {key(i) : i \in 1..n}
             Good == {n \in 0..Len(s) : /\ upTo[n] \in Seq(Key)
                                        /\ NoDuplicates(upTo[n])
                                        /\ ToSet(upTo[n]) = Keys(n)}
  <1>4. 0 \in Good
    <2>1. upTo[0] = <<>>
      BY <1>7
    <2>2. <<>> \in Seq(Key) /\ NoDuplicates(<<>>) /\ ToSet(<<>>) = {} /\ Keys(0) = {}
      BY DEF NoDuplicates, ToSet
    <2>3. 0 \in 0..Len(s)
      BY <1>1
    <2> HIDE DEF Keys
    <2> QED
      BY <2>1, <2>2, <2>3
  <1>5. ASSUME NEW n \in 1..Len(s), n - 1 \in Good PROVE n \in Good
    <2>1. upTo[n] = IF seen(n) THEN upTo[n - 1] ELSE Append(upTo[n - 1], key(n))
      BY <1>7
    <2>2. /\ upTo[n - 1] \in Seq(Key) /\ NoDuplicates(upTo[n - 1])
          /\ ToSet(upTo[n - 1]) = Keys(n - 1)
      BY <1>5
    <2>3. 1..n = (1..n - 1) \cup {n} /\ n \in 0..Len(s)
      BY <1>1
    <2>4. Keys(n) = Keys(n - 1) \cup {key(n)}
      BY <2>3
    <2>5. seen(n) <=> key(n) \in Keys(n - 1)
      OBVIOUS
    <2>6. key(n) \in Key
      BY <1>1
    <2> HIDE DEF seen, key, Keys
    <2>7. CASE seen(n)
      BY <2>1, <2>2, <2>3, <2>4, <2>5, <2>7
    <2>8. CASE ~seen(n)
      <3>1. /\ ToSet(Append(upTo[n - 1], key(n))) = Keys(n)
            /\ Append(upTo[n - 1], key(n)) \in Seq(Key)
        BY <2>2, <2>4, <2>6, AppendRange
      <3>2. NoDuplicates(Append(upTo[n - 1], key(n)))
        BY <2>2, <2>5, <2>6, <2>8, AppendNew
      <3> QED
        BY <2>1, <2>3, <2>8, <3>1, <3>2
    <2> QED
      BY <2>7, <2>8
  <1>6. Len(s) \in Good
    <2> HIDE DEF Good
    <2>1. 0..Len(s) \subseteq Good
      BY <1>1, <1>4, <1>5, UpTo
    <2> QED
      BY <1>1, <2>1
  <1> QED
    BY <1>1, <1>2, <1>6

(* Items that come in the order of their pages come once each. *)
LEMMA RisingOnce ==
    ASSUME NEW m, Rising(m)
    PROVE  Len(m) = Cardinality(ToSet(m))
  <1>1. Len(m) \in Nat /\ DOMAIN m = 1..Len(m)
    BY DEF Rising
  <1>2. ASSUME NEW a \in 1..Len(m), NEW b \in 1..Len(m), m[a] = m[b] PROVE a = b
    <2>1. m[a][2] \in Nat
      BY DEF Rising, Item
    <2>2. ~ (a < b) /\ ~ (b < a)
      BY <1>2, <2>1 DEF Rising
    <2> QED
      BY <1>1, <2>2
  <1>3. m \in Bijection(1..Len(m), ToSet(m))
    <2>1. ToSet(m) = {m[i] : i \in 1..Len(m)}
      BY <1>1 DEF ToSet
    <2>2. m \in [1..Len(m) -> ToSet(m)]
      BY <1>1, <2>1 DEF Rising
    <2> QED
      BY <1>2, <2>1, <2>2 DEF Bijection, Injection, Surjection, IsInjective
  <1>4. ExistsBijection(1..Len(m), ToSet(m))
    BY <1>3 DEF ExistsBijection
  <1> QED
    BY <1>1, <1>4, FS_CountingElements

(* The items of one more page behind those of earlier pages. *)
LEMMA RisingConcat ==
    ASSUME NEW m, Rising(m), NEW f \in Finding, OnePage(f),
           \A x \in ToSet(m) : x[1] = f.job => x[2] < f.page
    PROVE  Rising(m \o f.items) /\ ToSet(m \o f.items) = ToSet(m) \cup ToSet(f.items)
  <1>1. m \in Seq(Item) /\ Len(m) \in Nat /\ DOMAIN m = 1..Len(m)
    BY DEF Rising
  <1>2. CASE f.items = <<>>
    <2>1. m \o <<>> = m /\ ToSet(<<>>) = {}
      BY <1>1 DEF ToSet
    <2> QED
      BY <1>2, <2>1
  <1>3. CASE f.items = <<<<f.job, f.page>>>>
    <2> DEFINE x == <<f.job, f.page>>
    <2>1. x \in Item /\ x[1] = f.job /\ x[2] = f.page
      BY DEF Finding, Item
    <2> HIDE DEF x
    <2>2. m \o <<x>> = Append(m, x) /\ ToSet(<<x>>) = {x}
      <3>1. m \o <<x>> = Append(m, x)
        BY <1>1, <2>1
      <3>2. ToSet(<<x>>) = {x}
        BY DEF ToSet
      <3> QED
        BY <3>1, <3>2
    <2>3. /\ Append(m, x) \in Seq(Item)
          /\ Len(Append(m, x)) = Len(m) + 1
          /\ Append(m, x)[Len(m) + 1] = x
          /\ \A i \in 1..Len(m) : Append(m, x)[i] = m[i]
      BY <1>1, <2>1, AppendProperties
    <2> DEFINE t == Append(m, x)
    <2> HIDE DEF t
    <2>4. ASSUME NEW a \in 1..Len(t), NEW b \in 1..Len(t), a < b, t[a][1] = t[b][1]
          PROVE  t[a][2] < t[b][2]
      <3>1. a \in 1..Len(m) /\ t[a] = m[a] /\ m[a] \in ToSet(m)
        BY <1>1, <2>3, <2>4 DEF t, ToSet
      <3>2. CASE b \in 1..Len(m)
        BY <2>3, <2>4, <3>1, <3>2 DEF t, Rising
      <3>3. CASE b = Len(m) + 1
        BY <2>1, <2>3, <2>4, <3>1, <3>3 DEF t
      <3> QED
        BY <1>1, <2>3, <3>2, <3>3 DEF t
    <2>5. Rising(Append(m, x))
      BY <2>3, <2>4 DEF Rising, t
    <2>6. ToSet(Append(m, x)) = ToSet(m) \cup {x}
      BY <1>1, <2>1, AppendRange
    <2> QED
      BY <1>3, <2>2, <2>5, <2>6 DEF x
  <1> QED
    BY <1>2, <1>3 DEF OnePage

(* What is merged of a group are the items of its findings, in order. *)
LEMMA ItemsMerged ==
    ASSUME NEW g, Paged(g)
    PROVE  /\ Rising(MergedItems(g))
           /\ ToSet(MergedItems(g)) = UNION {ToSet(g[i].items) : i \in DOMAIN g}
  <1>1. Len(g) \in Nat /\ DOMAIN g = 1..Len(g)
        /\ \A n \in 1..Len(g) : g[n] \in Finding /\ OnePage(g[n])
    BY DEF Paged
  <1> DEFINE Recursion(f) ==
               f = [n \in 0..Len(g) |-> IF n = 0 THEN <<>> ELSE f[n - 1] \o g[n].items]
             upTo == CHOOSE f : Recursion(f)
  <1>2. MergedItems(g) = upTo[Len(g)]
    BY DEF MergedItems
  <1>3. Recursion(upTo)
    <2> DEFINE step == [n \in 1..Len(g) |-> [x \in Seq(Item) |-> x \o g[n].items]]
    <2>1. \A n \in 1..Len(g) : g[n].items \in Seq(Item)
      BY <1>1 DEF Finding
    <2>2. \A n \in 1..Len(g) : \A x \in Seq(Item) :
            step[n][x] = x \o g[n].items /\ step[n][x] \in Seq(Item)
      BY <2>1
    <2>3. <<>> \in Seq(Item)
      OBVIOUS
    <2> HIDE DEF step
    <2>4. PICK f \in [0..Len(g) -> Seq(Item)] :
            f[0] = <<>> /\ \A n \in 1..Len(g) : f[n] = step[n][f[n - 1]]
      <3> DEFINE N == Len(g)
                 T == Seq(Item)
                 base == <<>>
      <3>1. N \in Nat /\ base \in T /\ StaysIn(T, step, N)
        BY <1>1, <2>2, <2>3 DEF StaysIn
      <3> HIDE DEF N, T, base
      <3>2. \E f \in [0..N -> T] : Recurs(f, base, step, N)
        BY <3>1, RecursionExists
      <3> QED
        BY <3>2 DEF Recurs, N, T, base
    <2>5. ASSUME NEW n \in 0..Len(g)
          PROVE  f[n] = IF n = 0 THEN <<>> ELSE f[n - 1] \o g[n].items
      <3>1. n # 0 => n \in 1..Len(g) /\ n - 1 \in 0..Len(g)
        BY <1>1
      <3> QED
        BY <2>2, <2>4, <3>1
    <2>6. Recursion(f)
      BY <2>4, <2>5
    <2> QED
      BY <2>6
  <1> HIDE DEF upTo
  <1>4. /\ upTo[0] = <<>>
        /\ \A n \in 1..Len(g) : upTo[n] = upTo[n - 1] \o g[n].items
    <2>1. 0 \in 0..Len(g) /\ \A n \in 1..Len(g) : n \in 0..Len(g) /\ n # 0
      BY <1>1
    <2> QED
      BY <1>3, <2>1
  <1> DEFINE All(n) == UNION {ToSet(g[i].items) : i \in 1..n}
             Good == {n \in 0..Len(g) : Rising(upTo[n]) /\ ToSet(upTo[n]) = All(n)}
  <1>5. 0 \in Good
    <2>1. Rising(<<>>) /\ ToSet(<<>>) = {} /\ All(0) = {}
      BY DEF Rising, ToSet
    <2>2. 0 \in 0..Len(g)
      BY <1>1
    <2> HIDE DEF All
    <2> QED
      BY <1>4, <2>1, <2>2
  <1>6. ASSUME NEW n \in 1..Len(g), n - 1 \in Good PROVE n \in Good
    <2>1. upTo[n] = upTo[n - 1] \o g[n].items
      BY <1>4
    <2>2. Rising(upTo[n - 1]) /\ ToSet(upTo[n - 1]) = All(n - 1)
      BY <1>6
    <2>3. 1..n = (1..n - 1) \cup {n} /\ n \in 0..Len(g) /\ g[n] \in Finding /\ OnePage(g[n])
      BY <1>1
    <2>4. All(n) = All(n - 1) \cup ToSet(g[n].items)
      BY <2>3
    <2>5. ASSUME NEW x \in All(n - 1), x[1] = g[n].job PROVE x[2] < g[n].page
      <3>1. PICK i \in 1..n - 1 : x \in ToSet(g[i].items)
        OBVIOUS
      <3>2. i \in 1..Len(g) /\ i < n
        BY <1>1
      <3>3. x = <<g[i].job, g[i].page>>
        <4>1. OnePage(g[i])
          BY <1>1, <3>2
        <4> QED
          BY <3>1, <4>1 DEF OnePage, ToSet
      <3>4. x[1] = g[i].job /\ x[2] = g[i].page
        BY <3>3
      <3> QED
        BY <1>1, <2>5, <3>2, <3>4 DEF Paged
    <2> HIDE DEF All
    <2>6. /\ Rising(upTo[n - 1] \o g[n].items)
          /\ ToSet(upTo[n - 1] \o g[n].items) = ToSet(upTo[n - 1]) \cup ToSet(g[n].items)
      BY <2>2, <2>3, <2>5, RisingConcat
    <2> QED
      BY <2>1, <2>2, <2>3, <2>4, <2>6
  <1>7. Len(g) \in Good
    <2> HIDE DEF Good
    <2>1. 0..Len(g) \subseteq Good
      BY <1>1, <1>5, <1>6, UpTo
    <2> QED
      BY <1>1, <2>1
  <1> QED
    BY <1>1, <1>2, <1>7

(* So are those of the finding that is made of a group of array pages. *)
LEMMA GroupMerged ==
    ASSUME NEW g, Paged(g), g # <<>>, \A i \in DOMAIN g : IsJSONArray(g[i])
    PROVE  /\ Rising(MergeFindingsGroup(g).items)
           /\ ToSet(MergeFindingsGroup(g).items) = UNION {ToSet(g[i].items) : i \in DOMAIN g}
  <1>1. Len(g) \in Nat /\ Len(g) # 0 /\ DOMAIN g = 1..Len(g) /\ g[1] \in Finding
    BY DEF Paged
  <1>2. CASE Len(g) = 1
    <2>1. MergeFindingsGroup(g) = g[1]
      BY <1>2 DEF MergeFindingsGroup
    <2>2. DOMAIN g = {1}
      BY <1>1, <1>2
    <2>3. UNION {ToSet(g[i].items) : i \in DOMAIN g} = ToSet(g[1].items)
      BY <2>2
    <2>4. g[1].items \in Seq(Item) /\ Len(g[1].items) \in {0, 1}
      <3>1. g[1].items \in Seq(Item) /\ OnePage(g[1])
        BY <1>1, <2>2 DEF Finding, Paged
      <3> QED
        BY <3>1 DEF OnePage
    <2>5. Rising(g[1].items)
      BY <2>4 DEF Rising
    <2> QED
      BY <2>1, <2>3, <2>5
  <1>3. CASE Len(g) # 1
    <2> DEFINE merged == MergedItems(g)
               shape == IF merged = <<>> THEN "null" ELSE "array"
    <2>1. MergeFindingsGroup(g) = [g[1] EXCEPT !.items = merged, !.shape = shape]
      BY <1>1, <1>3 DEF MergeFindingsGroup
    <2> HIDE DEF merged, shape
    <2>2. MergeFindingsGroup(g).items = merged
      BY <1>1, <2>1 DEF Finding
    <2> QED
      BY <2>2, ItemsMerged DEF merged
  <1> QED
    BY <1>2, <1>3

(* A key with findings has one evidence, and one of array pages has every  *)
(* item of them once, in order.                                            *)
OneEvidence(s, e, k) ==
    LET all == {i \in DOMAIN s : KeyOf[s[i].job] = k}
    IN  /\ Cardinality({n \in DOMAIN e : e[n].key = k}) = IF all = {} THEN 0 ELSE 1
        /\ \A n \in DOMAIN e :
             e[n].key = k /\ (\A i \in all : IsJSONArray(s[i])) =>
               /\ Rising(e[n].finding.items)
               /\ ToSet(e[n].finding.items) = UNION {ToSet(s[i].items) : i \in all}

LEMMA EvidenceForKey ==
    ASSUME NEW s, Paged(s), NEW e, e = GroupAndMergeFindings(s), NEW k
    PROVE  OneEvidence(s, e, k)
  <1> DEFINE all == {i \in DOMAIN s : KeyOf[s[i].job] = k}
  <1> DEFINE keys == KeysOrdered(s)
  <1>1. keys \in Seq(Key) /\ NoDuplicates(keys) /\ ToSet(keys) = {KeyOf[s[i].job] : i \in DOMAIN s}
    BY KeysOnce DEF Paged
  <1>2. e = [i \in 1..Len(keys) |->
               [key |-> keys[i], finding |-> MergeFindingsGroup(GroupOf(s, keys[i]))]]
    BY DEF GroupAndMergeFindings
  <1> HIDE DEF keys
  <1>3. /\ DOMAIN e = 1..Len(keys)
        /\ \A n \in DOMAIN e : /\ e[n].key = keys[n]
                               /\ e[n].finding = MergeFindingsGroup(GroupOf(s, keys[n]))
    BY <1>2
  <1>4. k \in ToSet(keys) <=> all # {}
    BY <1>1
  <1>5. Cardinality({n \in DOMAIN e : e[n].key = k}) = IF all = {} THEN 0 ELSE 1
    <2>1. {n \in DOMAIN e : e[n].key = k} = {n \in 1..Len(keys) : keys[n] = k}
      BY <1>3
    <2>2. Cardinality({n \in DOMAIN e : e[n].key = k}) = TimesIn(k, keys)
      BY <2>1 DEF TimesIn
    <2> QED
      BY <1>1, <1>4, <2>2, TimesOnce
  <1>6. ASSUME NEW n \in DOMAIN e, e[n].key = k, \A i \in all : IsJSONArray(s[i])
        PROVE  /\ Rising(e[n].finding.items)
               /\ ToSet(e[n].finding.items) = UNION {ToSet(s[i].items) : i \in all}
    <2> DEFINE g == GroupOf(s, k)
    <2>1. Paged(g) /\ ToSet(g) = {s[i] : i \in all}
      BY GroupOfKey
    <2> HIDE DEF g
    <2>2. e[n].finding = MergeFindingsGroup(g)
      BY <1>3, <1>6 DEF g
    <2>3. ToSet(g) = {g[i] : i \in DOMAIN g}
      BY DEF ToSet
    <2>4. all # {}
      <3>1. k \in ToSet(keys)
        BY <1>1, <1>3, <1>6 DEF ToSet
      <3> QED
        BY <1>4, <3>1
    <2>5. g # <<>> /\ \A i \in DOMAIN g : IsJSONArray(g[i])
      <3>1. \A f \in ToSet(g) : IsJSONArray(f)
        BY <1>6, <2>1
      <3>2. ToSet(g) # {}
        BY <2>1, <2>4
      <3>3. ToSet(<<>>) = {}
        BY DEF ToSet
      <3> QED
        BY <2>3, <3>1, <3>2, <3>3
    <2>6. UNION {ToSet(g[i].items) : i \in DOMAIN g} = UNION {ToSet(s[i].items) : i \in all}
      <3>1. UNION {ToSet(g[i].items) : i \in DOMAIN g} = UNION {ToSet(f.items) : f \in ToSet(g)}
        BY <2>3
      <3>2. UNION {ToSet(s[i].items) : i \in all} = UNION {ToSet(f.items) : f \in {s[i] : i \in all}}
        OBVIOUS
      <3> QED
        BY <2>1, <3>1, <3>2
    <2> QED
      BY <2>1, <2>2, <2>5, <2>6, GroupMerged
  <1> QED
    BY <1>5, <1>6 DEF OneEvidence

-----------------------------------------------------------------------------
(* The evidence. *)

(* What a job has returned are its pages, by number. *)
PagesNumbered ==
    \A j \in Job : returned[j].kind = "findings" =>
        \A i \in DOMAIN returned[j].findings :
            /\ returned[j].findings[i].page = i
            /\ OnePage(returned[j].findings[i])

(* What Extract has returned is made of all that was recorded. *)
Evidenced ==
    result.outcome = "ok" =>
        /\ mainPc = "returned"
        /\ \E s : s = allFindings /\ result.evidence = GroupAndMergeFindings(s)

(* A successful call returns its pages by number. *)
LEMMA PagesNumberedInductive ==
    TypeOK /\ PagesNumbered /\ [Next]_vars => PagesNumbered'
  <1> SUFFICES ASSUME TypeOK, PagesNumbered, [Next]_vars PROVE PagesNumbered'
    OBVIOUS
  <1>1. ASSUME NEW j \in Job, NEW ret, ExecuteReturns(j, ret),
               ret.kind = "findings" =>
                 \A i \in DOMAIN ret.findings :
                   ret.findings[i].page = i /\ OnePage(ret.findings[i])
        PROVE  PagesNumbered'
    <2>1. \A i \in Job : returned'[i] = IF i = j THEN ret ELSE returned[i]
      BY <1>1 DEF ExecuteReturns, TypeOK
    <2> QED
      BY <1>1, <2>1 DEF PagesNumbered, OnePage
  <1>2. ASSUME NEW j \in Job, ExecuteSucceeds(j) PROVE PagesNumbered'
    <2>1. PICK shapes \in PageLists :
            ExecuteReturns(j, Returned("findings", FindingsOf(j, shapes)))
      BY <1>2 DEF ExecuteSucceeds
    <2>2. Returned("findings", FindingsOf(j, shapes)).findings = FindingsOf(j, shapes)
      BY DEF Returned
    <2>3. \A i \in DOMAIN FindingsOf(j, shapes) :
            /\ FindingsOf(j, shapes)[i].page = i
            /\ OnePage(FindingsOf(j, shapes)[i])
      BY DEF FindingsOf, PageFinding, OnePage
    <2> QED
      BY <1>1, <2>1, <2>2, <2>3
  <1>3. ASSUME NEW j \in Job, ExecuteSkips(j) \/ ExecuteFails(j) PROVE PagesNumbered'
    <2>1. Returned("skip", <<>>).kind = "skip" /\ Returned("error", <<>>).kind = "error"
      BY DEF Returned
    <2> QED
      BY <1>1, <1>3, <2>1 DEF ExecuteSkips, ExecuteFails
  <1>4. CASE UNCHANGED returned
    BY <1>4 DEF PagesNumbered, OnePage
  <1> QED
    BY <1>2, <1>3, <1>4
    DEF Next, Goroutine, Spawn, AcquireSlot, CancelledBeforeStart, Record, ReleaseSlot,
        Done, BuildJobs, Deadline, Cancel, Collect, Terminated, vars, jobVars

(* Nothing is recorded behind the evidence that Collect has made. *)
LEMMA EvidencedInductive ==
    TypeOK /\ Phases /\ Evidenced /\ [Next]_vars => Evidenced'
  <1> SUFFICES ASSUME TypeOK, Phases, Evidenced, [Next]_vars PROVE Evidenced'
    OBVIOUS
  <1>1. CASE BuildJobs
    BY <1>1 DEF BuildJobs, Evidenced, NoResult
  <1>2. CASE Collect
    <2>1. UNCHANGED allFindings /\ mainPc' = "returned"
      BY <1>2 DEF Collect, slices
    <2>2. result'.outcome = "ok" => result'.evidence = GroupAndMergeFindings(allFindings)
      BY <1>2 DEF Collect, NoResult
    <2> QED
      BY <2>1, <2>2 DEF Evidenced
  <1>3. CASE UNCHANGED <<mainPc, result, allFindings>>
    BY <1>3 DEF Evidenced
  <1>4. ASSUME NEW j \in Job, CancelledBeforeStart(j) \/ Record(j) \/ Spawn(j)
        PROVE  Evidenced'
    <2>1. UNCHANGED result /\ mainPc # "returned"
      BY <1>4 DEF CancelledBeforeStart, Record, Spawn, mainVars, Phases
    <2> QED
      BY <2>1 DEF Evidenced
  <1> QED
    BY <1>1, <1>2, <1>3, <1>4
    DEF Next, Goroutine, AcquireSlot, Deadline, ExecuteReturns,
        ExecuteSucceeds, ExecuteSkips, ExecuteFails, ReleaseSlot, Done, Cancel,
        Terminated, vars, mainVars, jobVars, slices

(* What is recorded are the pages of the jobs, in order. *)
LEMMA RecordedPaged == Inv /\ PagesNumbered => Paged(allFindings)
  <1> SUFFICES ASSUME Inv, PagesNumbered PROVE Paged(allFindings)
    OBVIOUS
  <1> DEFINE s == allFindings
  <1>1. s \in Seq(Finding) /\ DOMAIN s = 1..Len(s) /\ \A i \in DOMAIN s : s[i].job \in Job
    <2>1. \A f \in Finding : f.job \in Job
      BY DEF Finding
    <2> QED
      BY <2>1 DEF Inv, TypeOK
  <1>2. ASSUME NEW j \in Job, Found(j)
        PROVE  \E first \in Nat : \A i \in DOMAIN s : s[i].job = j =>
                 s[i].page = i - first /\ OnePage(s[i])
    <2>1. returned[j].kind = "findings" /\ returned[j].findings \in Seq(Finding)
      BY <1>2 DEF Inv, Recorded, TypeOK
    <2> DEFINE pages == returned[j].findings
    <2>2. PICK a \in DOMAIN s :
            /\ a + Len(pages) - 1 <= Len(s)
            /\ \A i \in DOMAIN s :
                 IF i \in a..a + Len(pages) - 1 THEN s[i] = pages[i - a + 1] ELSE s[i].job # j
      BY <1>2 DEF Inv, JobPagesContiguous, PagesTogether
    <2>3. \A i \in DOMAIN pages : pages[i].page = i /\ OnePage(pages[i])
      BY <2>1 DEF PagesNumbered
    <2>4. DOMAIN pages = 1..Len(pages) /\ Len(pages) \in Nat /\ a \in Nat /\ a - 1 \in Nat
      BY <1>1, <2>1
    <2> HIDE DEF pages
    <2>5. ASSUME NEW i \in DOMAIN s, s[i].job = j
          PROVE  s[i].page = i - (a - 1) /\ OnePage(s[i])
      <3>1. i \in a..a + Len(pages) - 1 /\ s[i] = pages[i - a + 1]
        BY <2>2, <2>5
      <3>2. i - a + 1 \in DOMAIN pages /\ i - a + 1 = i - (a - 1)
        BY <1>1, <2>4, <3>1
      <3> QED
        BY <2>3, <3>1, <3>2
    <2> QED
      BY <2>4, <2>5
  <1>3. \A i \in DOMAIN s : Found(s[i].job)
    BY DEF Found
  <1>4. \A i \in DOMAIN s : OnePage(s[i])
    BY <1>1, <1>2, <1>3
  <1>5. ASSUME NEW a \in DOMAIN s, NEW b \in DOMAIN s, a < b, s[a].job = s[b].job
        PROVE  s[a].page < s[b].page
    <2>1. PICK first \in Nat : \A i \in DOMAIN s : s[i].job = s[a].job => s[i].page = i - first
      BY <1>1, <1>2, <1>3
    <2>2. s[a].page = a - first /\ s[b].page = b - first
      BY <1>5, <2>1
    <2> QED
      BY <1>1, <1>5, <2>2
  <1> QED
    BY <1>1, <1>4, <1>5 DEF Paged

(* There is one evidence for every key that any job found something for,   *)
(* and when all its pages are arrays it holds every item of every page     *)
(* once, the pages of each job in order (groupAndMergeFindings).           *)
THEOREM EvidenceCompleteAlways == Spec => []EvidenceComplete
  <1>1. Init => PagesNumbered /\ Evidenced
    BY DEF Init, PagesNumbered, NoReturn, Evidenced, NoResult
  <1>2. TypeOK /\ Inv /\ PagesNumbered /\ Evidenced /\ [Next]_vars => (PagesNumbered /\ Evidenced)'
    BY PagesNumberedInductive, EvidencedInductive DEF Inv
  <1>3. Inv /\ PagesNumbered /\ Evidenced => EvidenceComplete
    <2> SUFFICES ASSUME Inv, PagesNumbered, Evidenced, result.outcome = "ok", NEW k \in Key,
                        NEW found,
                        found = {j \in jobs : returned[j].kind = "findings" /\ KeyOf[j] = k}
                 PROVE  /\ Cardinality(EvidenceOf(k)) = IF found = {} THEN 0 ELSE 1
                        /\ AllArrays(k) => \A n \in EvidenceOf(k) :
                             /\ Rising(result.evidence[n].finding.items)
                             /\ ToSet(result.evidence[n].finding.items) = ItemsOf(k)
      <3>1. \A k \in Key : \A items : Rising(items) /\ ToSet(items) = ItemsOf(k) =>
              Len(items) = Cardinality(ItemsOf(k))
        BY RisingOnce
      <3> QED
        BY <3>1 DEF EvidenceComplete, Rising
    <2>1. Paged(allFindings)
      BY RecordedPaged
    <2>2. result.evidence = GroupAndMergeFindings(allFindings) /\ mainPc = "returned"
      BY DEF Evidenced
    <2>3. FindingsFor(k) = {i \in DOMAIN allFindings : KeyOf[allFindings[i].job] = k}
      BY DEF FindingsFor
    <2>4. found = {} <=> FindingsFor(k) = {}
      <3>1. \A j \in Job : Found(j) <=> pc[j] \in Settled /\ returned[j].kind = "findings"
        BY DEF Inv, Recorded
      <3>2. \A j \in Job : j \in jobs <=> pc[j] \in Settled
        BY <2>2 DEF Inv, Phases, Settled
      <3>3. jobs \subseteq Job /\ \A i \in DOMAIN allFindings : allFindings[i].job \in Job
        <4>1. \A f \in Finding : f.job \in Job
          BY DEF Finding
        <4> QED
          BY <4>1 DEF Inv, TypeOK
      <3> QED
        BY <2>3, <3>1, <3>2, <3>3 DEF Found
    <2>5. /\ Cardinality({n \in DOMAIN result.evidence : result.evidence[n].key = k})
               = IF FindingsFor(k) = {} THEN 0 ELSE 1
          /\ \A n \in DOMAIN result.evidence :
               result.evidence[n].key = k /\ (\A i \in FindingsFor(k) : IsJSONArray(allFindings[i])) =>
                 /\ Rising(result.evidence[n].finding.items)
                 /\ ToSet(result.evidence[n].finding.items)
                      = UNION {ToSet(allFindings[i].items) : i \in FindingsFor(k)}
      <3>1. OneEvidence(allFindings, result.evidence, k)
        BY <2>1, <2>2, EvidenceForKey
      <3> QED
        BY <2>3, <3>1 DEF OneEvidence
    <2> QED
      BY <2>4, <2>5 DEF EvidenceOf, AllArrays, ItemsOf
  <1> QED
    BY <1>1, <1>2, <1>3, ExtractionInvariant, PTL DEF Spec

-----------------------------------------------------------------------------
(* A concurrency of 0, which the flag of that name admits: the channel of  *)
(* slots has no room and no receiver.                                      *)

(* Goroutines leave the queue by cancellation only. *)
NobodyServed ==
    /\ allFindings = <<>>
    /\ \A j \in Job : \/ pc[j] \in {"unborn", "queued"}
                      \/ cancelled /\ pc[j] \in {"finishing", "done"}

(* With jobs to do, Extract finds nothing, and does not even return unless *)
(* its context is cancelled.                                               *)
WaitsForever ==
    /\ allFindings = <<>>
    /\ jobs # {} /\ ~cancelled => mainPc # "returned"

(* Without slots nobody is served: every goroutine waits at the semaphore, *)
(* and Extract for all of them (runSingleExtractionJob, executeJobs).      *)
THEOREM NoSlotsNoAnswer == ASSUME Concurrency = 0 PROVE Spec => []WaitsForever
  <1>1. Init => NobodyServed
    BY DEF Init, NobodyServed
  <1>2. Inv /\ NobodyServed /\ [Next]_vars => NobodyServed'
    <2> SUFFICES ASSUME Inv, NobodyServed, [Next]_vars PROVE NobodyServed'
      OBVIOUS
    <2> USE DEF NobodyServed
    <2>0. pc \in [Job -> {"unborn", "queued", "executing", "recording",
                          "releasing", "finishing", "done"}] /\ sem \in Nat
      BY DEF Inv, TypeOK
    <2>1. CASE UNCHANGED <<pc, allFindings, cancelled>>
      BY <2>1
    <2>2. CASE Cancel
      BY <2>2 DEF Cancel, mainVars, jobVars, slices
    <2>3. ASSUME NEW j \in Job, Spawn(j) PROVE NobodyServed'
      BY <2>0, <2>3 DEF Spawn, slices
    <2>4. ASSUME NEW j \in Job, CancelledBeforeStart(j) PROVE NobodyServed'
      BY <2>0, <2>4 DEF CancelledBeforeStart, mainVars
    <2>5. ASSUME NEW j \in Job, Done(j) PROVE NobodyServed'
      BY <2>0, <2>5 DEF Done, mainVars, slices
    <2>6. ASSUME NEW j \in Job PROVE ~AcquireSlot(j)
      BY <2>0 DEF AcquireSlot
    <2>7. ASSUME NEW j \in Job
          PROVE  ~ (\/ Deadline(j) \/ ExecuteSucceeds(j) \/ ExecuteSkips(j)
                    \/ ExecuteFails(j) \/ Record(j) \/ ReleaseSlot(j))
      BY DEF Deadline, ExecuteReturns, ExecuteSucceeds, ExecuteSkips,
             ExecuteFails, Record, ReleaseSlot
    <2> QED
      BY <2>1, <2>2, <2>3, <2>4, <2>5, <2>6, <2>7
      DEF Next, Goroutine, BuildJobs, Collect, Terminated, vars, mainVars,
          jobVars, slices
  <1>3. Inv /\ NobodyServed => WaitsForever
    BY DEF Inv, TypeOK, Phases, NobodyServed, WaitsForever
  <1> QED
    BY <1>1, <1>2, <1>3, ExtractionInvariant, PTL DEF Spec
=============================================================================
