--------------------------- MODULE PipelineProofs ---------------------------
(***************************************************************************)
(* Proofs about the pipeline, for any number of runs, evidence files,      *)
(* days, assessments and processes.                                        *)
(***************************************************************************)
EXTENDS Pipeline, FiniteSetTheorems, TLAPS

(* The types hold in every state: the base that the rest is proved on. *)
LEMMA TypesInit == Init => Types
  <1> SUFFICES ASSUME Init PROVE Types
    OBVIOUS
  <1> 1 \in Day
    BY MaxDayAssumption DEF Day
  <1> QED
    BY DEF Init, LedgerInit, CourierInit, AssessorInit, Types, RunPc, RunOver,
           Uploading, AssessmentPc, AssessmentOver, Attesting

(* A step of a collector run keeps the types. *)
LEMMA TypesRun ==
    ASSUME Types, NEW r \in Run, CourierNext(r), UNCHANGED assessorVars
    PROVE  Types'
  <1> USE DEF Types, assessorVars, heldVars, readVars, ledgerVars, courierVars, history,
              Goto, RunPc, RunOver, Uploading
  <1>1. CASE StartRun(r)
    BY <1>1 DEF StartRun
  <1>2. CASE ExtractNothing(r)
    BY <1>2 DEF ExtractNothing
  <1>3. CASE BeginDelivery(r)
    BY <1>3 DEF BeginDelivery
  <1>4. CASE \E e \in Evid : PutEvidence(r, e)
    BY <1>4 DEF PutEvidence, Put, Stored, WithEntry, EvidenceFile, File, Path, Kind, SidecarKind
  <1>5. CASE PutProvenance(r)
    BY <1>5 DEF PutProvenance, Put, Stored, WithEntry, ProvenanceFile, File, Path, Kind, SidecarKind
  <1>6. CASE PutLog(r)
    BY <1>6 DEF PutLog, Put, Stored, WithEntry, LogFile, File, Path, Kind, SidecarKind
  <1>7. CASE SkipLog(r)
    BY <1>7 DEF SkipLog
  <1>8. CASE PutManifest(r)
    BY <1>8 DEF PutManifest, Put, Stored, WithEntry, ManifestFile, File, Path, Kind, SidecarKind
  <1>9. CASE PutFails(r)
    <2>1. CASE UNCHANGED <<store, history>>
      BY <1>9, <2>1 DEF PutFails
    <2>2. CASE PutDue(r)
      <3>1. PICK path \in Path : \E content : Put(r, path, content)
        BY <2>2 DEF PutDue, EvidenceFile, ProvenanceFile, LogFile, ManifestFile, File, Path, Kind, SidecarKind
      <3> QED
        BY <1>9, <3>1 DEF PutFails, Put, Stored, WithEntry
    <2> QED
      BY <1>9, <2>1, <2>2 DEF PutFails
  <1>10. CASE CrashRun(r)
    BY <1>10 DEF CrashRun
  <1> QED
    BY <1>1, <1>2, <1>3, <1>4, <1>5, <1>6, <1>7, <1>8, <1>9, <1>10
       DEF CourierNext, Deliver

(* So does a step of an assessment. *)
LEMMA TypesAssessment ==
    ASSUME Types, NEW a \in Assessment, AssessorNext(a), UNCHANGED courierVars
    PROVE  Types'
  <1> USE DEF Types, assessorVars, heldVars, readVars, ledgerVars, courierVars, history,
              Move, AssessmentPc, AssessmentOver, Attesting
  <1>1. CASE StartAssessment(a)
    BY <1>1 DEF StartAssessment
  <1>2. CASE ReadManifest(a) \/ NoManifest(a)
    BY <1>2 DEF ReadManifest, NoManifest
  <1>3. CASE LoadPolicies(a)
    BY <1>3 DEF LoadPolicies
  <1>4. CASE \E p \in pending[a] : ReadPayload(a, p) \/ ReadFails(a, p)
    BY <1>4 DEF ReadPayload, ReadFails
  <1>5. CASE AssessmentFails(a) \/ PassGate(a) \/ Reject(a) \/ Evaluate(a)
    BY <1>5 DEF AssessmentFails, PassGate, Reject, Evaluate
  <1>6. CASE SchemaDrift(a)
    BY <1>6 DEF SchemaDrift
  <1>7. CASE WriteLedger(a)
    BY <1>7 DEF WriteLedger, WriteFile, Stored, WithEntry, LedgerFile, File, Path, Kind, SidecarKind
  <1>8. CASE WriteVerdict(a)
    BY <1>8 DEF WriteVerdict, WriteFile, Stored, WithEntry, VerdictFile, File, Path, Kind, SidecarKind
  <1>9. CASE WriteResults(a)
    BY <1>9 DEF WriteResults, WriteFile, Stored, WithEntry, ResultsFile, File, Path, Kind, SidecarKind
  <1>10. CASE CrashAssessment(a)
    BY <1>10 DEF CrashAssessment
  <1> QED
    BY <1>1, <1>2, <1>3, <1>4, <1>5, <1>6, <1>7, <1>8, <1>9, <1>10
       DEF AssessorNext, Assess

(* And the end of a day. *)
LEMMA TypesMidnight ==
    ASSUME Types, Midnight, UNCHANGED <<courierVars, assessorVars>>
    PROVE  Types'
  <1>1. today' \in Day
    BY MaxDayAssumption DEF Types, Midnight, Day
  <1> QED
    BY <1>1 DEF Types, Midnight, courierVars, assessorVars, history

(* Every step keeps the types. *)
LEMMA TypesNext == Types /\ [Next]_vars => Types'
  <1> SUFFICES ASSUME Types, [Next]_vars PROVE Types'
    OBVIOUS
  <1>1. CASE \E r \in Run : CourierNext(r) /\ UNCHANGED assessorVars
    BY <1>1, TypesRun
  <1>2. CASE \E a \in Assessment : AssessorNext(a) /\ UNCHANGED courierVars
    BY <1>2, TypesAssessment
  <1>3. CASE Midnight /\ UNCHANGED <<courierVars, assessorVars>>
    BY <1>3, TypesMidnight
  <1>4. CASE UNCHANGED vars
    BY <1>4 DEF Types, vars, ledgerVars, courierVars, assessorVars, history
  <1> QED
    BY <1>1, <1>2, <1>3, <1>4 DEF Next

(* Whatever runs, crashes and restarts, every variable keeps its type. *)
THEOREM TypesInvariant == Spec => []Types
  BY TypesInit, TypesNext, PTL DEF Spec

-----------------------------------------------------------------------------
(* What a step may put into the ledger. *)

(* A put changes the object at its own path only. *)
LEMMA StoredOne ==
    ASSUME NEW path, NEW content, Stored(path, content), NEW p
    PROVE  /\ Exists(p)' <=> (p = path \/ Exists(p))
           /\ p = path => store'[p] = content
           /\ p # path /\ Exists(p) => store'[p] = store[p]
  BY DEF Stored, WithEntry, Exists

(* A run writes nothing but what it is due to write. *)
LEMMA RunPuts ==
    ASSUME Types, BookKeeping, NEW r \in Run, CourierNext(r)
    PROVE  \/ UNCHANGED <<store, history>>
           \/ PutDue(r)
  <1> USE DEF ledgerVars, history
  <1>1. CASE StartRun(r) \/ ExtractNothing(r) \/ BeginDelivery(r) \/ SkipLog(r) \/ CrashRun(r)
    BY <1>1 DEF StartRun, ExtractNothing, BeginDelivery, SkipLog, CrashRun
  <1>2. ASSUME NEW e \in Evid, PutEvidence(r, e)
        PROVE  PutDue(r)
    BY <1>2 DEF PutEvidence, PutDue
  <1>3. CASE PutProvenance(r)
    BY <1>3 DEF PutProvenance, PutDue
  <1>4. CASE PutLog(r)
    BY <1>4 DEF PutLog, PutDue
  <1>5. CASE PutManifest(r)
    BY <1>5 DEF PutManifest, PutDue
  <1>6. CASE PutFails(r)
    BY <1>6 DEF PutFails
  <1> QED
    BY <1>1, <1>2, <1>3, <1>4, <1>5, <1>6 DEF CourierNext, Deliver

(* An assessment writes nothing but its own three objects. *)
LEMMA AssessmentPuts ==
    ASSUME NEW a \in Assessment, AssessorNext(a)
    PROVE  \/ UNCHANGED store
           \/ \E path \in {LedgerFile(day[a]), VerdictFile(day[a]), ResultsFile(day[a])} :
                \E content : Stored(path, content)
  <1> USE DEF ledgerVars
  <1>1. CASE WriteLedger(a) \/ WriteVerdict(a) \/ WriteResults(a)
    BY <1>1 DEF WriteLedger, WriteVerdict, WriteResults, WriteFile
  <1> QED
    BY <1>1 DEF AssessorNext, Assess, StartAssessment, ReadManifest, NoManifest, LoadPolicies,
       ReadPayload, ReadFails, AssessmentFails, PassGate, Reject, Evaluate, SchemaDrift,
       CrashAssessment

(* A step of one run leaves what the others remember. *)
LEMMA OtherRuns ==
    ASSUME Types, NEW q \in Run, NEW r \in Run, r # q, CourierNext(q)
    PROVE  /\ runPc'[r] = runPc[r] /\ runDay'[r] = runDay[r]
           /\ produced'[r] = produced[r] /\ todo'[r] = todo[r]
           /\ current'[r] = current[r] /\ checksums'[r] = checksums[r]
           /\ r \in published' <=> r \in published
  <1> USE DEF Goto, history, Types
  <1>1. CASE StartRun(q) \/ ExtractNothing(q) \/ BeginDelivery(q) \/ SkipLog(q) \/ CrashRun(q)
    BY <1>1 DEF StartRun, ExtractNothing, BeginDelivery, SkipLog, CrashRun
  <1>2. CASE (\E e \in Evid : PutEvidence(q, e)) \/ PutManifest(q)
    BY <1>2 DEF PutEvidence, PutManifest, Put
  <1>3. CASE PutProvenance(q)
    BY <1>3 DEF PutProvenance, Put
  <1>4. CASE PutLog(q)
    BY <1>4 DEF PutLog, Put
  <1>5. CASE PutFails(q)
    <2>1. published' \in {published, published \cup {q}}
      BY <1>5 DEF PutFails, PutDue, Put
    <2> QED
      BY <1>5, <2>1 DEF PutFails
  <1> QED
    BY <1>1, <1>2, <1>3, <1>4, <1>5 DEF CourierNext, Deliver

-----------------------------------------------------------------------------
(* Runs keep their books. *)

(* At the start no run has anything to account for. *)
LEMMA BookKeepingInit == Init => BookKeeping
  BY DEF Init, CourierInit, BookKeeping, Books, Uploading

(* A run keeps its accounts at each of its steps. *)
LEMMA BookKeepingRun ==
    ASSUME Types, BookKeeping, NEW q \in Run, CourierNext(q)
    PROVE  BookKeeping'
  <1>1. ASSUME NEW r \in Run, r # q PROVE Books(r)'
    <2>1. Books(r)
      BY DEF BookKeeping
    <2> QED
      BY <1>1, <2>1, OtherRuns DEF Books, FilesOf, LogOf
  <1>2. Books(q)'
    <2> USE DEF Books, FilesOf, LogOf, Goto, Types, Uploading, history
    <2>0. Books(q)
      BY DEF BookKeeping
    <2> HIDE DEF Books
    <2>1. CASE StartRun(q) \/ ExtractNothing(q)
      BY <2>0, <2>1 DEF StartRun, ExtractNothing, Books
    <2>2. CASE BeginDelivery(q)
      BY <2>0, <2>2 DEF BeginDelivery, Books
    <2>3. ASSUME NEW e \in Evid, PutEvidence(q, e) PROVE Books(q)'
      BY <2>0, <2>3 DEF PutEvidence, Put, EvidenceFile, File, Books
    <2>4. CASE PutProvenance(q)
      <3> DEFINE e == current[q]
      <3>1. /\ runPc[q] = "sidecar" /\ runPc'[q] \in {"log", "evidence"}
            /\ e \in todo[q] /\ todo'[q] = todo[q] \ {e}
            /\ produced' = produced /\ runDay' = runDay
            /\ checksums'[q] = checksums[q] \cup FilesOf(q, e)
            /\ published' = published
            /\ runPc'[q] = "log" => todo'[q] = {}
        BY <2>0, <2>4 DEF PutProvenance, Put, ProvenanceFile, File, Books
      <3>2. \A f \in Evid : FilesOf(q, f)' = FilesOf(q, f)
        BY <3>1
      <3> HIDE DEF e, FilesOf
      <3> QED
        <4>1. /\ todo'[q] \subseteq produced'[q]
              /\ runPc'[q] \notin {"idle", "extracting", "nothing", "sidecar", "manifest"}
              /\ produced'[q] # {}
              /\ q \notin published'
          BY <2>0, <3>1 DEF Books
        <4>2. \A f \in produced'[q] \ todo'[q] : FilesOf(q, f)' \subseteq checksums'[q]
          BY <2>0, <3>1, <3>2 DEF Books
        <4>3. ASSUME NEW f \in checksums'[q]
              PROVE  \/ f = LogOf(q)'
                     \/ \E g \in produced'[q] \ todo'[q] : f \in FilesOf(q, g)'
          BY <2>0, <3>1, <3>2, <4>3 DEF Books
        <4> QED
          BY <3>1, <4>1, <4>2, <4>3 DEF Books
    <2>5. CASE PutLog(q)
      <3>1. /\ runPc[q] = "log" /\ runPc'[q] = "manifest"
            /\ todo' = todo /\ produced' = produced /\ runDay' = runDay
            /\ checksums'[q] = checksums[q] \cup {LogOf(q)}
            /\ published' = published
        BY <2>5 DEF PutLog, Put, LogFile, File
      <3>2. LogOf(q)' = LogOf(q) /\ \A f \in Evid : FilesOf(q, f)' = FilesOf(q, f)
        BY <3>1
      <3> HIDE DEF LogOf, FilesOf
      <3> QED
        BY <2>0, <3>1, <3>2 DEF Books
    <2>6. CASE SkipLog(q) \/ CrashRun(q)
      BY <2>0, <2>6 DEF SkipLog, CrashRun, Books
    <2>7. CASE PutManifest(q)
      BY <2>0, <2>7 DEF PutManifest, Put, Books
    <2>8. CASE PutFails(q)
      BY <2>0, <2>8 DEF PutFails, PutDue, Put, EvidenceFile, ProvenanceFile, LogFile, File, Books
    <2> QED
      BY <2>1, <2>2, <2>3, <2>4, <2>5, <2>6, <2>7, <2>8 DEF CourierNext, Deliver
  <1> QED
    BY <1>1, <1>2 DEF BookKeeping

(* Nothing else touches them. *)
LEMMA BookKeepingNext == Types /\ BookKeeping /\ [Next]_vars => BookKeeping'
  <1> SUFFICES ASSUME Types, BookKeeping, [Next]_vars PROVE BookKeeping'
    OBVIOUS
  <1>1. CASE \E r \in Run : CourierNext(r)
    BY <1>1, BookKeepingRun
  <1>2. CASE UNCHANGED courierVars
    BY <1>2 DEF BookKeeping, Books, FilesOf, LogOf, courierVars, history
  <1> QED
    BY <1>1, <1>2 DEF Next, vars

(* What a published run has produced is settled. *)
LEMMA PublishedKept ==
    ASSUME Types, BookKeeping, [Next]_vars, NEW r \in published
    PROVE  /\ r \in published'
           /\ runDay'[r] = runDay[r]
           /\ produced'[r] = produced[r]
           /\ checksums'[r] = checksums[r]
  <1> r \in Run
    BY DEF Types
  <1>1. CASE CourierNext(r)
    <2>1. runPc[r] \in {"delivered", "failed"}
      BY DEF BookKeeping, Books
    <2> QED
      BY <1>1, <2>1 DEF CourierNext, StartRun, ExtractNothing, BeginDelivery, Deliver,
         PutEvidence, PutProvenance, PutLog, SkipLog, PutManifest, PutFails, CrashRun, Uploading
  <1>2. ASSUME NEW q \in Run, q # r, CourierNext(q)
        PROVE  /\ runDay'[r] = runDay[r] /\ produced'[r] = produced[r]
               /\ checksums'[r] = checksums[r] /\ r \in published'
    BY <1>2, OtherRuns
  <1>3. CASE UNCHANGED courierVars
    BY <1>3 DEF courierVars, history
  <1> QED
    BY <1>1, <1>2, <1>3 DEF Next, vars

-----------------------------------------------------------------------------
(* Every manifest in the ledger is that of a run which has delivered. *)

(* A manifest is written by the run that publishes it. *)
LEMMA ManifestPuts ==
    ASSUME Types, BookKeeping, NEW q \in Run, CourierNext(q), NEW d \in Day,
           Exists(ManifestFile(d))'
    PROVE  \/ /\ Exists(ManifestFile(d))
              /\ store'[ManifestFile(d)] = store[ManifestFile(d)]
           \/ /\ store'[ManifestFile(d)] = Manifest(q, checksums'[q])
              /\ runDay'[q] = d
              /\ q \in published'
  <1>1. CASE UNCHANGED <<store, history>>
    BY <1>1 DEF Exists
  <1>2. CASE PutDue(q)
    <2>1. CASE runPc[q] = "manifest"
      <3>1. Put(q, ManifestFile(runDay[q]), Manifest(q, checksums[q]))
        BY <1>2, <2>1 DEF PutDue
      <3>2. UNCHANGED <<runDay, checksums>>
        BY <2>1 DEF CourierNext, StartRun, ExtractNothing, BeginDelivery, Deliver,
           PutEvidence, PutProvenance, PutLog, SkipLog, PutManifest, PutFails, CrashRun, history
      <3>3. q \in published'
        BY <3>1 DEF Put, ManifestFile, File
      <3> QED
        BY <3>1, <3>2, <3>3, StoredOne DEF Put, ManifestFile, File
    <2>2. CASE runPc[q] # "manifest"
      <3>1. PICK path \in {EvidenceFile(runDay[q], f) : f \in Evid}
                            \cup {ProvenanceFile(runDay[q], current[q]), LogFile(runDay[q])} :
                   \E content : Put(q, path, content)
        BY <1>2, <2>2 DEF PutDue, Types
      <3>2. path # ManifestFile(d)
        BY DEF EvidenceFile, ProvenanceFile, LogFile, ManifestFile, File
      <3> QED
        BY <3>1, <3>2, StoredOne DEF Put
    <2> QED
      BY <2>1, <2>2
  <1> QED
    BY <1>1, <1>2, RunPuts

(* An assessment holds on to the manifest it has read from the store. *)
LEMMA HeldManifests ==
    ASSUME Types, NEW a \in Assessment, AssessorNext(a), NEW b \in Assessment,
           pc'[b] \in HasManifest
    PROVE  /\ day'[b] = day[b]
           /\ \/ pc[b] \in HasManifest /\ manifest'[b] = manifest[b]
              \/ /\ Exists(ManifestFile(day[b]))
                 /\ manifest'[b] = store[ManifestFile(day[b])]
  <1> USE DEF Types, Move, HasManifest, Attesting, heldVars
  <1>1. CASE StartAssessment(a) \/ NoManifest(a) \/ AssessmentFails(a) \/ CrashAssessment(a)
    BY <1>1 DEF StartAssessment, NoManifest, AssessmentFails, CrashAssessment
  <1>2. CASE ReadManifest(a)
    BY <1>2 DEF ReadManifest
  <1>3. CASE LoadPolicies(a)
    BY <1>3 DEF LoadPolicies
  <1>4. CASE \E p \in pending[a] : ReadPayload(a, p) \/ ReadFails(a, p)
    BY <1>4 DEF ReadPayload, ReadFails
  <1>5. CASE PassGate(a) \/ Reject(a) \/ Evaluate(a)
    BY <1>5 DEF PassGate, Reject, Evaluate
  <1>6. CASE SchemaDrift(a)
    BY <1>6 DEF SchemaDrift
  <1>7. CASE WriteLedger(a) \/ WriteVerdict(a) \/ WriteResults(a)
    BY <1>7 DEF WriteLedger, WriteVerdict, WriteResults
  <1> QED
    BY <1>1, <1>2, <1>3, <1>4, <1>5, <1>6, <1>7 DEF AssessorNext, Assess

(* No manifest is there at the start. *)
LEMMA ManifestsWholeInit == Init => ManifestsWhole
  BY DEF Init, LedgerInit, AssessorInit, ManifestsWhole, HasManifest, Attesting, Exists

(* Every manifest in the store or in a hand is that of a published run. *)
LEMMA ManifestsWholeNext ==
    Types /\ BookKeeping /\ ManifestsWhole /\ [Next]_vars => ManifestsWhole'
  <1> SUFFICES ASSUME Types, BookKeeping, ManifestsWhole, [Next]_vars
               PROVE  ManifestsWhole'
    OBVIOUS
  <1>1. ASSUME NEW d \in Day, Exists(ManifestFile(d))'
        PROVE  WholeManifest(store[ManifestFile(d)], d)'
    <2>1. CASE /\ Exists(ManifestFile(d))
               /\ store'[ManifestFile(d)] = store[ManifestFile(d)]
      <3>1. WholeManifest(store[ManifestFile(d)], d)
        BY <2>1 DEF ManifestsWhole
      <3> QED
        BY <2>1, <3>1, PublishedKept DEF WholeManifest
    <2>2. ASSUME NEW q \in Run, CourierNext(q)
          PROVE  WholeManifest(store[ManifestFile(d)], d)'
      BY <1>1, <2>1, <2>2, ManifestPuts DEF WholeManifest
    <2>3. ASSUME NEW a \in Assessment, AssessorNext(a)
          PROVE  WholeManifest(store[ManifestFile(d)], d)'
      <3>1. CASE UNCHANGED store
        BY <1>1, <2>1, <3>1 DEF Exists
      <3>2. ASSUME NEW path \in {LedgerFile(day[a]), VerdictFile(day[a]), ResultsFile(day[a])},
                   NEW content, Stored(path, content)
            PROVE  WholeManifest(store[ManifestFile(d)], d)'
        <4>1. path # ManifestFile(d)
          BY DEF ManifestFile, LedgerFile, VerdictFile, ResultsFile, File
        <4> QED
          BY <1>1, <2>1, <3>2, <4>1, StoredOne
      <3> QED
        BY <2>3, <3>1, <3>2, AssessmentPuts
    <2>4. CASE UNCHANGED store
      BY <1>1, <2>1, <2>4 DEF Exists
    <2> QED
      BY <2>2, <2>3, <2>4 DEF Next, vars, Midnight, ledgerVars
  <1>2. ASSUME NEW b \in Assessment, pc'[b] \in HasManifest
        PROVE  WholeManifest(manifest[b], day[b])'
    <2>1. /\ day'[b] = day[b]
          /\ \/ pc[b] \in HasManifest /\ manifest'[b] = manifest[b]
             \/ /\ Exists(ManifestFile(day[b]))
                /\ manifest'[b] = store[ManifestFile(day[b])]
      BY <1>2, HeldManifests DEF Next, vars, assessorVars
    <2>2. WholeManifest(manifest'[b], day[b])
      BY <2>1 DEF ManifestsWhole, Types
    <2> QED
      BY <2>1, <2>2, PublishedKept DEF WholeManifest
  <1> QED
    BY <1>1, <1>2 DEF ManifestsWhole

-----------------------------------------------------------------------------
(* Behind the gate there is one whole run. *)

(* A signed manifest holds its run and files, and its signature verifies. *)
LEMMA SignedManifest ==
    ASSUME NEW r, NEW files
    PROVE  /\ Manifest(r, files).run = r
           /\ Manifest(r, files).files = files
           /\ Verifies(Manifest(r, files), CollectorKey)
  BY DEF Manifest, Sign, Unsigned, Verifies, NoSignature

(* The manifest of a published run lists all it produced and no more. *)
LEMMA PublishedFiles ==
    ASSUME BookKeeping, Types, NEW r \in published
    PROVE  LET valid == ValidFiles(Manifest(r, checksums[r]))
           IN  /\ \A e \in produced[r] : FilesOf(r, e) \subseteq valid
               /\ \A f \in valid : \E e \in produced[r] : f \in FilesOf(r, e)
  <1>1. Books(r) /\ todo[r] = {}
    BY DEF BookKeeping, Books, Types
  <1>2. ValidFiles(Manifest(r, checksums[r])) = {f \in checksums[r] : f.path.kind # "log"}
    BY SignedManifest DEF ValidFiles
  <1>3. \A e : \A f \in FilesOf(r, e) : f.path.kind # "log"
    BY DEF FilesOf, FileChecksum, EvidenceFile, ProvenanceFile, File
  <1>4. LogOf(r).path.kind = "log"
    BY DEF LogOf, FileChecksum, LogFile, File
  <1> QED
    BY <1>1, <1>2, <1>3, <1>4 DEF Books

(* A file in a manifest is an evidence or its provenance, with its hash. *)
LEMMA ListedFile ==
    ASSUME NEW r, NEW e, NEW f \in FilesOf(r, e)
    PROVE  \/ /\ f.path = EvidenceFile(runDay[r], e)
              /\ f.path.kind = "evidence"
              /\ f.sha256 = Hash(Evidence(r, e))
           \/ /\ f.path = ProvenanceFile(runDay[r], e)
              /\ f.path.kind = "provenance"
              /\ f.sha256 = Hash(Provenance(r, e))
  BY DEF FilesOf, FileChecksum, EvidenceFile, ProvenanceFile, File

(* Different contents have different hashes. *)
LEMMA HashInjective == ASSUME NEW x, NEW y, Hash(x) = Hash(y) PROVE x = y
  BY DEF Hash

(* What the gate has let through is what the run of the manifest delivered. *)
LEMMA GatePassed ==
    ASSUME Types, BookKeeping, NEW a \in Assessment, NEW r \in published,
           manifest[a] = Manifest(r, checksums[r]), VerifyPayloads(a)
    PROVE  /\ {payloads[a][p] : p \in WithSidecar(a)} = Delivered(r)
           /\ \A p \in WithSidecar(a) : VerifyEvidenceProvenance(a, p)
  <1> DEFINE E(e) == EvidenceFile(runDay[r], e)
             P(e) == ProvenanceFile(runDay[r], e)
  <1>1. \A e : SidecarOf(E(e)) = P(e)
    BY DEF SidecarOf, EvidenceFile, ProvenanceFile, File
  <1>2. ASSUME NEW e \in produced[r]
        PROVE  /\ E(e) \in EvidencePaths(a)
               /\ payloads[a][E(e)] = Evidence(r, e)
               /\ P(e) \in DOMAIN payloads[a]
               /\ payloads[a][P(e)] = Provenance(r, e)
    <2> DEFINE fe == FileChecksum(E(e), Evidence(r, e))
               fp == FileChecksum(P(e), Provenance(r, e))
    <2>1. fe \in ValidFiles(manifest[a]) /\ fp \in ValidFiles(manifest[a])
      BY PublishedFiles DEF FilesOf
    <2>2. /\ fe.path = E(e) /\ fe.path.kind = "evidence" /\ fe.sha256 = Hash(Evidence(r, e))
          /\ fp.path = P(e) /\ fp.sha256 = Hash(Provenance(r, e))
      BY DEF FileChecksum, EvidenceFile, File
    <2> HIDE DEF fe, fp, E, P
    <2> QED
      BY <2>1, <2>2, HashInjective DEF VerifyPayloads, EvidencePaths, SidecarKind
  <1>3. ASSUME NEW p \in EvidencePaths(a)
        PROVE  \E e \in produced[r] : p = E(e)
    <2>1. PICK f \in ValidFiles(manifest[a]) : f.path.kind \notin SidecarKind /\ p = f.path
      BY DEF EvidencePaths
    <2>2. PICK e \in produced[r] : f \in FilesOf(r, e)
      BY PublishedFiles
    <2> QED
      BY <2>1, <2>2, ListedFile DEF ProvenanceFile, File, SidecarKind
  <1>4. WithSidecar(a) = {E(e) : e \in produced[r]}
    <2> HIDE DEF E, P
    <2> QED
      BY <1>1, <1>2, <1>3 DEF WithSidecar
  <1>5. ASSUME NEW p \in WithSidecar(a) PROVE VerifyEvidenceProvenance(a, p)
    <2>1. PICK e \in produced[r] : p = E(e)
      BY <1>4
    <2>2. Verifies(Provenance(r, e), CollectorKey)
      BY DEF Verifies, Provenance, Sign, Unsigned, NoSignature
    <2>3. Provenance(r, e).payloadHash = Evidence(r, e).payloadHash
      BY DEF Provenance, Sign
    <2>4. IsEvidence(Evidence(r, e))
      BY DEF IsEvidence, Evidence
    <2> HIDE DEF E, P
    <2> QED
      BY <1>1, <1>2, <2>1, <2>2, <2>3, <2>4 DEF VerifyEvidenceProvenance
  <1> HIDE DEF E, P
  <1> QED
    BY <1>2, <1>4, <1>5 DEF Delivered

BeforeGate == {"idle", "ingesting", "policies", "reading", "rejected"}

(* The steps that lead to the gate, and from it to the attestation. *)
LEMMA GateSteps ==
    ASSUME Types, NEW a \in Assessment, AssessorNext(a), NEW b \in Assessment
    PROVE  /\ pc'[b] \in BeforeGate =>
                pc[b] \in BeforeGate /\ evaluated'[b] = evaluated[b]
           /\ pc'[b] \in Attesting =>
                /\ manifest'[b] = manifest[b]
                /\ \/ pc[b] \in Attesting /\ evaluated'[b] = evaluated[b]
                   \/ a = b /\ PassGate(b)
  <1> USE DEF Types, Move, BeforeGate, Attesting, heldVars
  <1>1. CASE StartAssessment(a) \/ ReadManifest(a) \/ NoManifest(a) \/ LoadPolicies(a)
    BY <1>1 DEF StartAssessment, ReadManifest, NoManifest, LoadPolicies
  <1>2. CASE \E p \in pending[a] : ReadPayload(a, p) \/ ReadFails(a, p)
    BY <1>2 DEF ReadPayload, ReadFails
  <1>3. CASE AssessmentFails(a) \/ CrashAssessment(a) \/ Reject(a) \/ Evaluate(a)
    BY <1>3 DEF AssessmentFails, CrashAssessment, Reject, Evaluate
  <1>4. CASE PassGate(a)
    <2>1. /\ pc' = [pc EXCEPT ![a] = "evaluating"] /\ manifest' = manifest
          /\ \A c \in Assessment \ {a} : evaluated'[c] = evaluated[c]
      BY <1>4 DEF PassGate
    <2> QED
      BY <1>4, <2>1
  <1>5. CASE SchemaDrift(a)
    BY <1>5 DEF SchemaDrift
  <1>6. CASE WriteLedger(a) \/ WriteVerdict(a) \/ WriteResults(a)
    BY <1>6 DEF WriteLedger, WriteVerdict, WriteResults
  <1> QED
    BY <1>1, <1>2, <1>3, <1>4, <1>5, <1>6 DEF AssessorNext, Assess

(* No assessment is at the gate at the start. *)
LEMMA GateHoldsInit == Init => GateHolds
  BY DEF Init, AssessorInit, GateHolds, Attesting

(* Past the gate an assessment has evaluated what its manifest lists. *)
LEMMA GateHoldsNext ==
    Types /\ BookKeeping /\ ManifestsWhole /\ GateHolds /\ [Next]_vars => GateHolds'
  <1> SUFFICES ASSUME Types, BookKeeping, ManifestsWhole, GateHolds, [Next]_vars,
                      NEW b \in Assessment
               PROVE  /\ pc'[b] \in BeforeGate => evaluated'[b] = {}
                      /\ pc'[b] \in Attesting =>
                           evaluated'[b] = Delivered(manifest[b].run)'
    BY DEF GateHolds, BeforeGate
  <1>1. ASSUME NEW r \in published PROVE Delivered(r)' = Delivered(r)
    BY PublishedKept DEF Delivered
  <1>2. ASSUME pc[b] \in HasManifest
        PROVE  \E r \in published : manifest[b] = Manifest(r, checksums[r])
    BY <1>2 DEF ManifestsWhole, WholeManifest
  <1>3. CASE UNCHANGED assessorVars
    <2>1. pc[b] \in Attesting => manifest[b].run \in published
      BY <1>2, SignedManifest DEF HasManifest
    <2> QED
      BY <1>1, <1>3, <2>1 DEF GateHolds, BeforeGate, assessorVars
  <1>4. ASSUME NEW a \in Assessment, AssessorNext(a)
        PROVE  /\ pc'[b] \in BeforeGate => evaluated'[b] = {}
               /\ pc'[b] \in Attesting => evaluated'[b] = Delivered(manifest[b].run)'
    <2>1. pc'[b] \in BeforeGate => evaluated'[b] = {}
      BY <1>4, GateSteps DEF GateHolds, BeforeGate
    <2>2. ASSUME pc[b] \in Attesting, evaluated'[b] = evaluated[b], manifest'[b] = manifest[b]
          PROVE  evaluated'[b] = Delivered(manifest[b].run)'
      <3>1. manifest[b].run \in published
        BY <2>2, <1>2, SignedManifest DEF HasManifest
      <3> QED
        BY <1>1, <2>2, <3>1 DEF GateHolds
    <2>3. ASSUME PassGate(b), manifest'[b] = manifest[b]
          PROVE  evaluated'[b] = Delivered(manifest[b].run)'
      <3>1. pc[b] \in HasManifest
        BY <2>3 DEF PassGate, HasManifest
      <3>2. PICK r \in published : manifest[b] = Manifest(r, checksums[r])
        BY <1>2, <3>1
      <3>3. evaluated'[b] = {payloads[b][p] : p \in WithSidecar(b)}
        BY <2>3 DEF PassGate, Types
      <3>4. evaluated'[b] = Delivered(r)
        BY <2>3, <3>2, <3>3, GatePassed DEF PassGate
      <3> QED
        BY <1>1, <2>3, <3>2, <3>4, SignedManifest
    <2> QED
      BY <1>4, <2>1, <2>2, <2>3, GateSteps
  <1> QED
    BY <1>3, <1>4 DEF Next, vars

-----------------------------------------------------------------------------
(* The layers together. *)

Core == Types /\ BookKeeping /\ ManifestsWhole /\ GateHolds

(* The parts above are invariants of the pipeline. *)
THEOREM CoreInvariant == Spec => []Core
  <1>1. Init => Core
    BY TypesInit, BookKeepingInit, ManifestsWholeInit, GateHoldsInit DEF Core
  <1>2. Core /\ [Next]_vars => Core'
    BY TypesNext, BookKeepingNext, ManifestsWholeNext, GateHoldsNext DEF Core
  <1> QED
    BY <1>1, <1>2, PTL DEF Spec

(* The files of a manifest have paths of the store. *)
LEMMA ValidPaths ==
    ASSUME Core, NEW b \in Assessment, pc[b] \in HasManifest,
           NEW f \in ValidFiles(manifest[b])
    PROVE  f.path \in Path
  <1>1. PICK r \in published : manifest[b] = Manifest(r, checksums[r])
    BY DEF Core, ManifestsWhole, WholeManifest
  <1>2. PICK e \in produced[r] : f \in FilesOf(r, e)
    BY <1>1, PublishedFiles DEF Core
  <1>3. r \in Run /\ e \in Evid /\ runDay[r] \in Day
    BY DEF Core, Types
  <1>4. EvidenceFile(runDay[r], e) \in Path /\ ProvenanceFile(runDay[r], e) \in Path
    BY <1>3 DEF EvidenceFile, ProvenanceFile, File, Path, Kind, SidecarKind
  <1> QED
    BY <1>2, <1>4, ListedFile

(* The type invariant: assessments only ever read keys of the ledger, as   *)
(* every manifest they hold lists nothing else.                            *)
THEOREM TypeCorrect == Spec => []TypeOK
  <1>1. Init => TypeOK
    BY TypesInit DEF Init, AssessorInit, TypeOK
  <1>2. ASSUME TypeOK, Core, Types', [Next]_vars PROVE TypeOK'
    <2> USE DEF TypeOK, Types
    <2>1. ASSUME NEW a \in Assessment, LoadPolicies(a) PROVE TypeOK'
      <3>1. {f.path : f \in ValidFiles(manifest[a])} \subseteq Path
        BY <1>2, <2>1, ValidPaths DEF LoadPolicies, HasManifest
      <3> QED
        BY <1>2, <2>1, <3>1 DEF LoadPolicies
    <2>2. ASSUME NEW a \in Assessment, NEW p \in pending[a], ReadPayload(a, p) PROVE TypeOK'
      <3>1. DOMAIN WithEntry(payloads[a], p, store[p]) = DOMAIN payloads[a] \cup {p}
        BY DEF WithEntry
      <3>2. p \in Path
        BY <1>2, <2>2
      <3>3. pending' = [pending EXCEPT ![a] = @ \ {p}]
        BY <2>2 DEF ReadPayload
      <3>4. \/ payloads' = [payloads EXCEPT ![a] = WithEntry(@, p, store[p])]
            \/ payloads' = payloads
        BY <2>2 DEF ReadPayload
      <3>5. \A b \in Assessment : DOMAIN payloads'[b] \subseteq Path
        BY <1>2, <3>1, <3>2, <3>4
      <3>6. pending' \in [Assessment -> SUBSET Path]
        BY <1>2, <3>3
      <3> QED
        BY <1>2, <3>5, <3>6
    <2>3. ASSUME NEW a \in Assessment, NEW p \in pending[a], ReadFails(a, p) PROVE TypeOK'
      BY <1>2, <2>3 DEF ReadFails
    <2>4. CASE UNCHANGED <<payloads, pending>>
      BY <1>2, <2>4
    <2>5. ASSUME NEW a \in Assessment, AssessorNext(a) PROVE TypeOK'
      BY <2>1, <2>2, <2>3, <2>4, <2>5 DEF AssessorNext, Assess, StartAssessment, ReadManifest,
         NoManifest, AssessmentFails, PassGate, Reject, Evaluate, SchemaDrift, WriteLedger,
         WriteVerdict, WriteResults, CrashAssessment, readVars
    <2> QED
      BY <1>2, <2>4, <2>5 DEF Next, vars, assessorVars
  <1> QED
    BY <1>1, <1>2, TypesInvariant, CoreInvariant, PTL DEF Spec

(* No verdict is about a mixture of runs or a part of one: what an         *)
(* assessment past the gate has evaluated is all that the run named in its *)
(* manifest delivered.                                                     *)
THEOREM AttestsOneWholeRunAlways == Spec => []AttestsOneWholeRun
  <1>1. Core => AttestsOneWholeRun
    BY SignedManifest DEF Core, AttestsOneWholeRun, GateHolds, ManifestsWhole, HasManifest,
       WholeManifest
  <1> QED
    BY <1>1, CoreInvariant, PTL

(* An assessment attests to a run of the day it started on. *)
THEOREM SameDayAlways == Spec => []SameDay
  <1>1. Core => SameDay
    BY SignedManifest DEF Core, SameDay, ManifestsWhole, HasManifest, WholeManifest
  <1> QED
    BY <1>1, CoreInvariant, PTL

-----------------------------------------------------------------------------
(* What an undisturbed run has put stays in the ledger. *)

CourierKind == {"evidence", "provenance", "log", "manifest"}

(* What run r puts under a key. *)
Content(r, path) ==
    CASE path.kind = "evidence" -> Evidence(r, path.id)
      [] path.kind = "provenance" -> Provenance(r, path.id)
      [] path.kind = "log" -> TraceLog(r)
      [] OTHER -> Manifest(r, checksums[r])

(* What a run is due to write lies in the directory of its day. *)
LEMMA DuePut ==
    ASSUME NEW r \in Run, PutDue(r)
    PROVE  \E path : /\ path.day = runDay[r]
                     /\ path.kind \in CourierKind
                     /\ Put(r, path, Content(r, path))
  <1> USE DEF CourierKind
  <1>1. ASSUME NEW e
        PROVE  LET p == EvidenceFile(runDay[r], e)
               IN  p.day = runDay[r] /\ p.kind = "evidence" /\ Content(r, p) = Evidence(r, e)
    BY DEF EvidenceFile, File, Content
  <1>2. ASSUME NEW e
        PROVE  LET p == ProvenanceFile(runDay[r], e)
               IN  p.day = runDay[r] /\ p.kind = "provenance" /\ Content(r, p) = Provenance(r, e)
    BY DEF ProvenanceFile, File, Content
  <1>3. LET p == LogFile(runDay[r])
        IN  p.day = runDay[r] /\ p.kind = "log" /\ Content(r, p) = TraceLog(r)
    BY DEF LogFile, File, Content
  <1>4. LET p == ManifestFile(runDay[r])
        IN  p.day = runDay[r] /\ p.kind = "manifest" /\ Content(r, p) = Manifest(r, checksums[r])
    BY DEF ManifestFile, File, Content
  <1> QED
    BY <1>1, <1>2, <1>3, <1>4 DEF PutDue

(* The checksum of a file is that of what the run writes there. *)
LEMMA ListedContent ==
    ASSUME NEW r \in Run, Books(r), NEW f \in checksums[r]
    PROVE  /\ f.path.day = runDay[r]
           /\ f.path.kind \in {"evidence", "provenance", "log"}
           /\ f.sha256 = Hash(Content(r, f.path))
  <1>1. CASE f = LogOf(r)
    BY <1>1 DEF LogOf, FileChecksum, LogFile, File, Content
  <1>2. ASSUME NEW e, f \in FilesOf(r, e) PROVE  /\ f.path.day = runDay[r]
               /\ f.path.kind \in {"evidence", "provenance", "log"}
               /\ f.sha256 = Hash(Content(r, f.path))
    BY <1>2 DEF FilesOf, FileChecksum, EvidenceFile, ProvenanceFile, File, Content
  <1> QED
    BY <1>1, <1>2 DEF Books

(* A Put elsewhere does not touch what r has put. *)
LEMMA KeptElsewhere ==
    ASSUME Types, NEW r \in Run, Books(r), Kept(r),
           NEW path, NEW content, Stored(path, content),
           path.day # runDay[r] \/ path.kind \notin CourierKind,
           runPc'[r] = runPc[r], runDay'[r] = runDay[r], current'[r] = current[r],
           checksums'[r] = checksums[r], r \in published' <=> r \in published
    PROVE  Kept(r)'
  <1>1. \A f \in checksums[r] : f.path # path
    BY ListedContent DEF CourierKind
  <1>2. \A e : EvidenceFile(runDay[r], e) # path
    BY DEF EvidenceFile, File, CourierKind
  <1>3. ManifestFile(runDay[r]) # path
    BY DEF ManifestFile, File, CourierKind
  <1> QED
    BY <1>1, <1>2, <1>3, StoredOne DEF Kept

(* A run that disturbs no other leaves their files as they were. *)
LEMMA KeptByRun ==
    ASSUME Types, BookKeeping, UndisturbedKept, NEW q \in Run, CourierNext(q),
           NEW r \in Run, disturbed'[r] = {}
    PROVE  Kept(r)'
  <1> USE DEF Types, history, Goto
  <1>1. Books(r)
    BY DEF BookKeeping
  <1>2. CASE r # q /\ UNCHANGED <<store, history>>
    BY <1>2, OtherRuns DEF Kept, UndisturbedKept, Exists
  <1>3. CASE r # q /\ PutDue(q)
    <2>1. PICK path : path.day = runDay[q] /\ Put(q, path, Content(q, path))
      BY <1>3, DuePut
    <2>2. disturbed[r] = {} /\ (runDay[q] # runDay[r] \/ produced[r] = {})
      BY <1>3, <2>1 DEF Put
    <2>3. Kept(r)
      BY <2>2 DEF UndisturbedKept
    <2>4. CASE runDay[q] # runDay[r]
      BY <1>1, <1>3, <2>1, <2>3, <2>4, KeptElsewhere, OtherRuns DEF Put
    <2>5. CASE produced[r] = {}
      <3>1. checksums[r] = {} /\ r \notin published /\ runPc[r] # "sidecar"
        BY <1>1, <2>5 DEF Books, Uploading
      <3> QED
        BY <1>3, <3>1, OtherRuns DEF Kept
    <2> QED
      BY <2>2, <2>4, <2>5
  <1>4. ASSUME r = q PROVE Kept(q)'
    <2> USE <1>4
    <2> HIDE DEF Types
    <2>0. Books(q)'
      BY BookKeepingRun DEF BookKeeping
    <2>1. CASE /\ UNCHANGED <<store, history>>
               /\ runPc'[q] # "sidecar"
               /\ checksums'[q] = checksums[q]
               /\ q \in published' <=> q \in published
               /\ \/ runDay'[q] = runDay[q]
                  \/ checksums[q] = {} /\ q \notin published
      <3> Kept(q)
        BY <2>1 DEF UndisturbedKept
      <3> QED
        BY <2>1 DEF Kept, Exists
    <2>2. CASE StartRun(q) \/ ExtractNothing(q) \/ SkipLog(q) \/ CrashRun(q)
      BY <2>1, <2>2 DEF StartRun, ExtractNothing, SkipLog, CrashRun, Types, ledgerVars
    <2>3. CASE BeginDelivery(q)
      <3>1. checksums[q] = {} /\ q \notin published
        BY <1>1, <2>3 DEF BeginDelivery, Books
      <3> QED
        BY <2>1, <2>3, <3>1 DEF BeginDelivery, Types, ledgerVars
    <2>4. ASSUME PutDue(q), NEW f \in checksums[q]
          PROVE  Exists(f.path)' /\ Hash(store'[f.path]) = f.sha256
      <3>1. PICK path : Put(q, path, Content(q, path))
        BY <2>4, DuePut
      <3>2. Kept(q)
        BY <3>1 DEF Put, UndisturbedKept, Types
      <3> QED
        BY <1>1, <2>4, <3>1, <3>2, ListedContent, StoredOne DEF Put, Kept
    <2>5. ASSUME NEW e \in Evid, PutEvidence(q, e) PROVE Kept(q)'
      <3>1. PutDue(q)
        BY <2>5 DEF PutEvidence, PutDue
      <3>2. q \notin published' /\ checksums' = checksums /\ runDay' = runDay /\ current'[q] = e
        BY <1>1, <2>5 DEF PutEvidence, Put, EvidenceFile, File, Books, Types
      <3>3. Exists(EvidenceFile(runDay[q], e))'
            /\ store'[EvidenceFile(runDay[q], e)] = Evidence(q, e)
        BY <2>5, StoredOne DEF PutEvidence, Put
      <3> QED
        BY <2>4, <3>1, <3>2, <3>3 DEF Kept
    <2>6. CASE PutProvenance(q)
      <3> DEFINE e == current[q]
      <3>1. PutDue(q) /\ runPc[q] = "sidecar"
        BY <2>6 DEF PutProvenance, PutDue
      <3>2. /\ q \notin published' /\ runDay' = runDay /\ runPc'[q] # "sidecar"
            /\ checksums'[q] = checksums[q] \cup FilesOf(q, e)
            /\ disturbed'[q] = disturbed[q]
        BY <1>1, <2>6 DEF PutProvenance, Put, ProvenanceFile, File, FilesOf, Books, Types
      <3>3. Stored(ProvenanceFile(runDay[q], e), Provenance(q, e))
        BY <2>6 DEF PutProvenance, Put
      <3>4. Exists(EvidenceFile(runDay[q], e)) /\ store[EvidenceFile(runDay[q], e)] = Evidence(q, e)
        BY <3>1, <3>2 DEF Kept, UndisturbedKept
      <3>5. EvidenceFile(runDay[q], e) # ProvenanceFile(runDay[q], e)
        BY DEF EvidenceFile, ProvenanceFile, File
      <3>6. ASSUME NEW f \in FilesOf(q, e)
            PROVE  Exists(f.path)' /\ Hash(store'[f.path]) = f.sha256
        <4> HIDE DEF e
        <4> QED
          BY <3>3, <3>4, <3>5, StoredOne, ListedFile
      <3> QED
        BY <2>4, <3>1, <3>2, <3>6 DEF Kept
    <2>7. CASE PutLog(q)
      <3>1. PutDue(q)
        BY <2>7 DEF PutLog, PutDue
      <3>2. /\ q \notin published' /\ runDay' = runDay /\ runPc'[q] # "sidecar"
            /\ checksums'[q] = checksums[q] \cup {LogOf(q)}
        BY <1>1, <2>7 DEF PutLog, Put, LogFile, File, LogOf, Books, Types
      <3>3. Exists(LogFile(runDay[q]))' /\ store'[LogFile(runDay[q])] = TraceLog(q)
        BY <2>7, StoredOne DEF PutLog, Put
      <3>4. LogOf(q).path = LogFile(runDay[q]) /\ LogOf(q).sha256 = Hash(TraceLog(q))
        BY DEF LogOf, FileChecksum
      <3> QED
        BY <2>4, <3>1, <3>2, <3>3, <3>4 DEF Kept
    <2>8. CASE /\ PutDue(q)
               /\ runDay' = runDay /\ checksums' = checksums /\ runPc'[q] # "sidecar"
      <3>1. q \in published' =>
              /\ Exists(ManifestFile(runDay[q]))'
              /\ store'[ManifestFile(runDay[q])] = Manifest(q, checksums[q])
        <4>1. q \notin published
          BY <1>1, <2>8 DEF PutDue, Books
        <4>2. CASE runPc[q] = "manifest"
          BY <2>8, <4>2, StoredOne DEF PutDue, Put
        <4>3. CASE runPc[q] # "manifest"
          BY <2>8, <4>1, <4>3 DEF PutDue, Put, EvidenceFile, ProvenanceFile, LogFile, File
        <4> QED
          BY <4>2, <4>3
      <3> QED
        BY <2>4, <2>8, <3>1 DEF Kept
    <2>9. CASE PutManifest(q)
      BY <2>8, <2>9 DEF PutManifest, PutDue, Types
    <2>10. CASE PutFails(q)
      BY <2>1, <2>8, <2>10 DEF PutFails, Types
    <2> QED
      BY <2>2, <2>3, <2>5, <2>6, <2>7, <2>9, <2>10 DEF CourierNext, Deliver
  <1> QED
    BY <1>2, <1>3, <1>4, RunPuts

(* An assessment leaves the files of every run. *)
LEMMA KeptByAssessment ==
    ASSUME Types, BookKeeping, NEW a \in Assessment, AssessorNext(a), UNCHANGED courierVars,
           NEW r \in Run, Kept(r)
    PROVE  Kept(r)'
  <1> USE DEF courierVars, history
  <1>1. CASE UNCHANGED store
    BY <1>1 DEF Kept, Exists
  <1>2. ASSUME NEW path \in {LedgerFile(day[a]), VerdictFile(day[a]), ResultsFile(day[a])},
               NEW content, Stored(path, content)
        PROVE  Kept(r)'
    <2>1. path.kind \notin CourierKind
      BY DEF LedgerFile, VerdictFile, ResultsFile, File, CourierKind
    <2>2. Books(r)
      BY DEF BookKeeping
    <2> QED
      BY <1>2, <2>1, <2>2, KeptElsewhere
  <1> QED
    BY <1>1, <1>2, AssessmentPuts

(* The files of a run that nobody has disturbed stay. *)
LEMMA UndisturbedKeptNext ==
    Types /\ BookKeeping /\ UndisturbedKept /\ [Next]_vars => UndisturbedKept'
  <1> SUFFICES ASSUME Types, BookKeeping, UndisturbedKept, [Next]_vars,
                      NEW r \in Run, disturbed'[r] = {}
               PROVE  Kept(r)'
    BY DEF UndisturbedKept
  <1>1. ASSUME NEW q \in Run, CourierNext(q) PROVE Kept(r)'
    BY <1>1, KeptByRun
  <1>2. CASE UNCHANGED courierVars
    <2>1. Kept(r)
      BY <1>2 DEF UndisturbedKept, courierVars, history
    <2>2. ASSUME NEW a \in Assessment, AssessorNext(a) PROVE Kept(r)'
      BY <1>2, <2>1, <2>2, KeptByAssessment
    <2>3. CASE UNCHANGED store
      BY <1>2, <2>1, <2>3 DEF Kept, Exists, courierVars, history
    <2> QED
      BY <2>2, <2>3, <1>1 DEF Next, Midnight, vars, ledgerVars
  <1> QED
    BY <1>1, <1>2 DEF Next, vars

(* At the start no run has files. *)
LEMMA UndisturbedKeptInit == Init => UndisturbedKept
  BY DEF Init, CourierInit, UndisturbedKept, Kept

(* In every state the files of an undisturbed run are those it wrote. *)
THEOREM LedgerInvariant == Spec => [](Core /\ UndisturbedKept)
  <1>1. Init => UndisturbedKept
    BY UndisturbedKeptInit
  <1>2. Core /\ UndisturbedKept /\ [Next]_vars => UndisturbedKept'
    BY UndisturbedKeptNext DEF Core
  <1> QED
    BY <1>1, <1>2, CoreInvariant, PTL DEF Spec

(* A run that nobody disturbs leaves a directory that jula-verify accepts. *)
THEOREM UndisturbedRunVerifiesAlways == Spec => []UndisturbedRunVerifies
  <1>1. ASSUME Core, UndisturbedKept, NEW r \in published, disturbed[r] = {}
        PROVE  VerifyChain(runDay[r], FALSE)
    <2> DEFINE d == runDay[r]
    <2>1. r \in Run /\ Kept(r) /\ Books(r)
      BY <1>1 DEF Core, Types, UndisturbedKept, BookKeeping
    <2>2. store[ManifestFile(d)] = Manifest(r, checksums[r]) /\ Exists(ManifestFile(d))
      BY <2>1 DEF Kept
    <2>3. VerifyManifest(d) /\ EvidenceFiles(d) = checksums[r]
      BY <2>2, SignedManifest DEF VerifyManifest, EvidenceFiles
    <2>4. VerifyFileHashes(d)
      BY <2>1, <2>3 DEF Kept, VerifyFileHashes
    <2>5. ASSUME NEW f \in EvidenceFiles(d), f.path.kind \in SidecarKind
          PROVE  Exists(f.path) /\ Verifies(store[f.path], CollectorKey)
      <3>1. Exists(f.path) /\ store[f.path] = Content(r, f.path)
        BY <2>1, <2>3, ListedContent, HashInjective DEF Kept
      <3>2. f.path.kind = "provenance"
        BY <2>1, <2>3, <2>5, ListedContent DEF SidecarKind
      <3>3. Content(r, f.path) = Provenance(r, f.path.id)
        BY <3>2 DEF Content
      <3>4. Verifies(Provenance(r, f.path.id), CollectorKey)
        BY DEF Verifies, Provenance, Sign, Unsigned, NoSignature
      <3> QED
        BY <3>1, <3>3, <3>4
    <2> QED
      BY <2>3, <2>4, <2>5 DEF VerifyChain, VerifyProvenances
  <1>2. Core /\ UndisturbedKept => UndisturbedRunVerifies
    BY <1>1 DEF UndisturbedRunVerifies
  <1> QED
    BY <1>2, LedgerInvariant, PTL

(* What jula-verify accepts is one whole run, by the hashes its manifest   *)
(* holds, however many runs have written into the directory.               *)
THEOREM VerifiedIsOneWholeRunAlways == Spec => []VerifiedIsOneWholeRun
  <1>1. ASSUME Core, NEW d \in Day, VerifyChain(d, FALSE), NEW r \in published,
               runDay[r] = d, store[ManifestFile(d)] = Manifest(r, checksums[r]),
               NEW e \in produced[r]
        PROVE  /\ store[EvidenceFile(d, e)] = Evidence(r, e)
               /\ store[ProvenanceFile(d, e)] = Provenance(r, e)
    <2>1. FilesOf(r, e) \subseteq EvidenceFiles(d)
      BY <1>1, PublishedFiles, SignedManifest DEF Core, ValidFiles, EvidenceFiles
    <2>2. \A f \in FilesOf(r, e) : Hash(store[f.path]) = f.sha256
      BY <1>1, <2>1 DEF VerifyChain, VerifyFileHashes
    <2>3. /\ Hash(store[EvidenceFile(d, e)]) = Hash(Evidence(r, e))
          /\ Hash(store[ProvenanceFile(d, e)]) = Hash(Provenance(r, e))
      BY <1>1, <2>2 DEF FilesOf, FileChecksum
    <2> QED
      BY <2>3, HashInjective
  <1>2. ASSUME Core, NEW d \in Day, VerifyChain(d, FALSE)
        PROVE  \E r \in published : runDay[r] = d /\ store[ManifestFile(d)] = Manifest(r, checksums[r])
    BY <1>2 DEF Core, ManifestsWhole, WholeManifest, VerifyChain, VerifyManifest
  <1>3. Core => VerifiedIsOneWholeRun
    <2> SUFFICES ASSUME Core, NEW d \in Day, VerifyChain(d, FALSE)
                 PROVE  \E r \in published :
                          /\ runDay[r] = d
                          /\ store[ManifestFile(d)].run = r
                          /\ \A e \in produced[r] :
                               /\ store[EvidenceFile(d, e)] = Evidence(r, e)
                               /\ store[ProvenanceFile(d, e)] = Provenance(r, e)
      BY DEF VerifiedIsOneWholeRun
    <2>1. PICK r \in published : /\ runDay[r] = d
                                /\ store[ManifestFile(d)] = Manifest(r, checksums[r])
      BY <1>2
    <2>2. store[ManifestFile(d)].run = r
      BY <2>1, SignedManifest
    <2> QED
      BY <1>1, <2>1, <2>2
  <1> QED
    BY <1>3, CoreInvariant, PTL

-----------------------------------------------------------------------------
(* The gatekeeper raises no false alarm. *)

(* A run that was disturbed stays disturbed. *)
LEMMA DisturbedGrows ==
    ASSUME Types, [Next]_vars, NEW r \in Run PROVE disturbed[r] \subseteq disturbed'[r]
  <1>1. ASSUME NEW q \in Run, NEW path, NEW content, Put(q, path, content)
        PROVE  disturbed[r] \subseteq disturbed'[r]
    BY <1>1 DEF Put, Types
  <1>2. CASE UNCHANGED disturbed
    BY <1>2
  <1>3. ASSUME NEW q \in Run, CourierNext(q) PROVE disturbed[r] \subseteq disturbed'[r]
    BY <1>1, <1>2, <1>3 DEF CourierNext, StartRun, ExtractNothing, BeginDelivery, Deliver,
       PutEvidence, PutProvenance, PutLog, SkipLog, PutManifest, PutFails, PutDue, CrashRun, history
  <1> QED
    BY <1>2, <1>3 DEF Next, vars, courierVars, history

(* What a step of any assessment does to one that is then reading. *)
ReadStep(b) ==
    /\ manifest'[b] = manifest[b]
    /\ \/ /\ pc[b] = "policies"
          /\ pending'[b] = {f.path : f \in ValidFiles(manifest[b])}
       \/ /\ pc[b] = "reading"
          /\ payloads'[b] = payloads[b]
          /\ pending'[b] = pending[b]
          /\ readFailed'[b] = readFailed[b]
       \/ pc[b] = "reading" /\ readFailed'[b]
       \/ \E p \in pending[b] :
            /\ pc[b] = "reading"
            /\ pending'[b] = pending[b] \ {p}
            /\ Exists(p)
            /\ payloads'[b] = WithEntry(payloads[b], p, store[p])
            /\ readFailed'[b] = readFailed[b]

(* The steps after which an assessment goes on reading. *)
LEMMA ReadSteps ==
    ASSUME Types, NEW a \in Assessment, AssessorNext(a), NEW b \in Assessment,
           pc'[b] = "reading"
    PROVE  ReadStep(b)
  <1> USE DEF Types, Move, heldVars, readVars, ReadStep
  <1>1. CASE StartAssessment(a) \/ ReadManifest(a) \/ NoManifest(a)
    BY <1>1 DEF StartAssessment, ReadManifest, NoManifest
  <1>2. CASE LoadPolicies(a)
    BY <1>2 DEF LoadPolicies
  <1>3. ASSUME NEW p \in pending[a], ReadPayload(a, p) PROVE ReadStep(b)
    BY <1>3 DEF ReadPayload
  <1>4. ASSUME NEW p \in pending[a], ReadFails(a, p) PROVE ReadStep(b)
    BY <1>4 DEF ReadFails
  <1>5. CASE AssessmentFails(a) \/ CrashAssessment(a) \/ Reject(a) \/ Evaluate(a)
    BY <1>5 DEF AssessmentFails, CrashAssessment, Reject, Evaluate
  <1>6. CASE PassGate(a) \/ SchemaDrift(a)
    BY <1>6 DEF PassGate, SchemaDrift
  <1>7. CASE WriteLedger(a) \/ WriteVerdict(a) \/ WriteResults(a)
    BY <1>7 DEF WriteLedger, WriteVerdict, WriteResults
  <1> QED
    BY <1>1, <1>2, <1>3, <1>4, <1>5, <1>6, <1>7 DEF AssessorNext, Assess

(* The manifest in the hand of an assessment is that of a published run. *)
LEMMA HeldRun ==
    ASSUME Types, BookKeeping, ManifestsWhole, NEW b \in Assessment, pc[b] \in HasManifest
    PROVE  LET r == manifest[b].run
           IN  /\ r \in published /\ r \in Run
               /\ manifest[b] = Manifest(r, checksums[r])
               /\ ValidFiles(manifest[b]) \subseteq checksums[r]
  <1>1. PICK r \in published : manifest[b] = Manifest(r, checksums[r])
    BY DEF ManifestsWhole, WholeManifest
  <1> QED
    BY <1>1, SignedManifest DEF Types, ValidFiles

(* At the start no assessment has read anything. *)
LEMMA UndisturbedReadInit == Init => UndisturbedRead
  BY DEF Init, AssessorInit, UndisturbedRead

(* What an assessment reads of an undisturbed run is what it wrote. *)
LEMMA UndisturbedReadNext ==
    Core /\ UndisturbedKept /\ UndisturbedRead /\ [Next]_vars => UndisturbedRead'
  <1> DEFINE Read(b, f) == \/ f.path \in pending[b]
                          \/ /\ f.path \in DOMAIN payloads[b]
                             /\ Hash(payloads[b][f.path]) = f.sha256
  <1> SUFFICES ASSUME Core, UndisturbedKept, UndisturbedRead, [Next]_vars,
                      NEW b \in Assessment, pc'[b] = "reading",
                      disturbed'[manifest'[b].run] = {}, ~readFailed'[b],
                      NEW f \in ValidFiles(manifest[b])'
               PROVE  Read(b, f)'
    BY DEF UndisturbedRead
  <1> USE DEF Core
  <1>1. CASE UNCHANGED assessorVars
    <2>1. manifest[b].run \in Run /\ pc[b] = "reading"
      BY <1>1, HeldRun DEF assessorVars, HasManifest
    <2>2. disturbed[manifest[b].run] = {}
      BY <1>1, <2>1, DisturbedGrows DEF assessorVars
    <2>3. Read(b, f)
      BY <1>1, <2>1, <2>2 DEF UndisturbedRead, assessorVars, ValidFiles
    <2> QED
      BY <1>1, <2>3 DEF assessorVars
  <1>2. ASSUME NEW a \in Assessment, AssessorNext(a), UNCHANGED courierVars
        PROVE  Read(b, f)'
    <2>1. ReadStep(b)
      BY <1>2, ReadSteps
    <2>2. pc[b] \in HasManifest /\ manifest'[b] = manifest[b]
      BY <2>1 DEF ReadStep, HasManifest
    <2> DEFINE r == manifest[b].run
    <2>3. r \in Run /\ f \in checksums[r] /\ f \in ValidFiles(manifest[b])
      BY <2>2, HeldRun DEF ValidFiles
    <2>4. disturbed[r] = {}
      BY <1>2, <2>2 DEF courierVars, history
    <2>5. Hash(store[f.path]) = f.sha256
      BY <2>3, <2>4 DEF UndisturbedKept, Kept
    <2>6. pc[b] = "reading" /\ ~readFailed[b] => Read(b, f)
      BY <2>3, <2>4 DEF UndisturbedRead
    <2>7. CASE pc[b] = "policies" /\ pending'[b] = {g.path : g \in ValidFiles(manifest[b])}
      BY <2>3, <2>7
    <2>8. CASE /\ pc[b] = "reading" /\ payloads'[b] = payloads[b]
               /\ pending'[b] = pending[b] /\ readFailed'[b] = readFailed[b]
      BY <2>6, <2>8
    <2>9. ASSUME NEW p \in pending[b], pc[b] = "reading", pending'[b] = pending[b] \ {p},
                 payloads'[b] = WithEntry(payloads[b], p, store[p]),
                 readFailed'[b] = readFailed[b]
          PROVE  Read(b, f)'
      BY <2>5, <2>6, <2>9 DEF WithEntry
    <2> QED
      BY <2>1, <2>7, <2>8, <2>9 DEF ReadStep
  <1> QED
    BY <1>1, <1>2 DEF Next, vars

(* An assessment that has rejected has done so at the gate. *)
LEMMA RejectSteps ==
    ASSUME Types, NEW a \in Assessment, AssessorNext(a), NEW b \in Assessment,
           pc'[b] = "rejected"
    PROVE  /\ manifest'[b] = manifest[b]
           /\ pc[b] = "rejected" \/ Reject(b)
  <1> USE DEF Types, Move, heldVars
  <1>1. CASE StartAssessment(a) \/ ReadManifest(a) \/ NoManifest(a) \/ LoadPolicies(a)
    BY <1>1 DEF StartAssessment, ReadManifest, NoManifest, LoadPolicies
  <1>2. CASE \E p \in pending[a] : ReadPayload(a, p) \/ ReadFails(a, p)
    BY <1>2 DEF ReadPayload, ReadFails
  <1>3. CASE AssessmentFails(a) \/ CrashAssessment(a) \/ Evaluate(a) \/ PassGate(a)
    BY <1>3 DEF AssessmentFails, CrashAssessment, Evaluate, PassGate
  <1>4. CASE Reject(a)
    <2>1. pc' = [pc EXCEPT ![a] = "rejected"] /\ manifest' = manifest
      BY <1>4 DEF Reject
    <2> QED
      BY <1>4, <2>1
  <1>5. CASE SchemaDrift(a)
    BY <1>5 DEF SchemaDrift
  <1>6. CASE WriteLedger(a) \/ WriteVerdict(a) \/ WriteResults(a)
    BY <1>6 DEF WriteLedger, WriteVerdict, WriteResults
  <1> QED
    BY <1>1, <1>2, <1>3, <1>4, <1>5, <1>6 DEF AssessorNext, Assess

(* The gate rejects only the manifest of a run that was disturbed. *)
LEMMA RejectedDisturbed ==
    ASSUME Core, UndisturbedRead, NEW b \in Assessment, Reject(b)
    PROVE  disturbed[manifest[b].run] # {}
  <1> SUFFICES ASSUME disturbed[manifest[b].run] = {} PROVE FALSE
    OBVIOUS
  <1>1. pc[b] = "reading" /\ pending[b] = {} /\ ~readFailed[b]
    BY DEF Reject
  <1>2. VerifyPayloads(b)
    BY <1>1 DEF UndisturbedRead, VerifyPayloads
  <1>3. \E r \in published : manifest[b] = Manifest(r, checksums[r])
    BY <1>1 DEF Core, ManifestsWhole, WholeManifest, HasManifest
  <1>4. \A p \in WithSidecar(b) : VerifyEvidenceProvenance(b, p)
    BY <1>2, <1>3, GatePassed DEF Core
  <1> QED
    BY <1>2, <1>4 DEF Reject

(* So no step raises a false alarm. *)
LEMMA NoFalseAlarmNext ==
    Core /\ UndisturbedRead /\ NoFalseAlarm /\ [Next]_vars => NoFalseAlarm'
  <1> SUFFICES ASSUME Core, UndisturbedRead, NoFalseAlarm, [Next]_vars,
                      NEW b \in Assessment, pc'[b] = "rejected"
               PROVE  disturbed'[manifest'[b].run] # {}
    BY DEF NoFalseAlarm
  <1>1. /\ manifest'[b] = manifest[b]
        /\ pc[b] = "rejected" \/ Reject(b)
    BY RejectSteps DEF Core, Next, vars, assessorVars
  <1>2. disturbed[manifest[b].run] # {}
    BY <1>1, RejectedDisturbed DEF NoFalseAlarm
  <1>3. pc[b] \in HasManifest
    BY <1>1 DEF Reject, HasManifest
  <1>4. manifest[b].run \in Run
    BY <1>3, HeldRun DEF Core
  <1> QED
    BY <1>1, <1>2, <1>4, DisturbedGrows DEF Core

(* What was read of an undisturbed run is what it delivered, and no such   *)
(* run is rejected: each needs the other to be inductive.                  *)
THEOREM ReadInvariant == Spec => [](UndisturbedRead /\ NoFalseAlarm)
  <1>1. Init => UndisturbedRead /\ NoFalseAlarm
    BY UndisturbedReadInit DEF Init, AssessorInit, NoFalseAlarm
  <1>2. Core /\ UndisturbedKept /\ UndisturbedRead /\ NoFalseAlarm /\ [Next]_vars
          => (UndisturbedRead /\ NoFalseAlarm)'
    BY UndisturbedReadNext, NoFalseAlarmNext
  <1> QED
    BY <1>1, <1>2, LedgerInvariant, PTL DEF Spec

(* The gatekeeper rejects a manifest only after another run has stored     *)
(* something in the directory of the manifest's run.                       *)
THEOREM NoFalseAlarmAlways == Spec => []NoFalseAlarm
  BY ReadInvariant, PTL

(* The inductive invariant the run over several days checks holds of every *)
(* instance.                                                               *)
THEOREM InductiveInvariant == Spec => []IInv
  <1>1. TypeOK /\ Core /\ UndisturbedKept /\ UndisturbedRead /\ NoFalseAlarm => IInv
    BY DEF Core, IInv
  <1> QED
    BY <1>1, TypeCorrect, LedgerInvariant, ReadInvariant, PTL

-----------------------------------------------------------------------------
(* The refinement. *)

PublishedBar == [r \in published |-> Delivered(r)]
AttestedBar == [a \in {b \in Assessment : evaluated[b] # {}} |->
                  [run |-> manifest[a].run, evidence |-> evaluated[a]]]

LEMMA AbstractInit == Init => Abstract!Init
  BY DEF Init, CourierInit, AssessorInit, Abstract!Init, PublishedBar, AttestedBar

(* A run becomes published once, when the store takes its manifest. *)
LEMMA PublishSteps ==
    ASSUME Core, Core', NEW q \in Run, CourierNext(q), published' # published
    PROVE  /\ q \notin published
           /\ published' = published \cup {q}
           /\ Delivered(q)' \in {{Evidence(q, e) : e \in S} : S \in (SUBSET Evid) \ {{}}}
  <1>1. PutDue(q)
    BY RunPuts DEF Core, history
  <1>2. published' = published \cup {q}
    BY <1>1 DEF PutDue, Put
  <1>3. produced'[q] \in (SUBSET Evid) \ {{}}
    BY <1>2 DEF Core, Types, BookKeeping, Books
  <1> QED
    BY <1>2, <1>3 DEF Delivered

(* An assessment comes to attest when it passes the gate. *)
LEMMA AttestSteps ==
    ASSUME Core, NEW a \in Assessment, AssessorNext(a), ~PassGate(a)
    PROVE  /\ evaluated' = evaluated
           /\ \A b \in Assessment : evaluated[b] # {} => manifest'[b] = manifest[b]
  <1>1. CASE ReadManifest(a)
    <2>1. evaluated[a] = {}
      BY <1>1 DEF ReadManifest, Core, GateHolds
    <2> QED
      BY <1>1, <2>1 DEF ReadManifest, Core, Types
  <1>2. CASE ~ReadManifest(a)
    BY <1>2 DEF AssessorNext, Assess, StartAssessment, NoManifest, LoadPolicies, ReadPayload,
       ReadFails, AssessmentFails, Reject, Evaluate, SchemaDrift, WriteLedger, WriteVerdict,
       WriteResults, CrashAssessment, heldVars
  <1> QED
    BY <1>1, <1>2

LEMMA PassGateStep ==
    ASSUME Core, NEW a \in Assessment, PassGate(a)
    PROVE  /\ manifest' = manifest
           /\ evaluated[a] = {}
           /\ manifest[a].run \in published
           /\ evaluated' = [evaluated EXCEPT ![a] = Delivered(manifest[a].run)]
           /\ Delivered(manifest[a].run) # {}
  <1>1. pc[a] = "reading" /\ VerifyPayloads(a)
    BY DEF PassGate
  <1>2. PICK r \in published : manifest[a] = Manifest(r, checksums[r])
    BY <1>1 DEF Core, ManifestsWhole, WholeManifest, HasManifest
  <1>3. manifest[a].run = r
    BY <1>2, SignedManifest
  <1>4. {payloads[a][p] : p \in WithSidecar(a)} = Delivered(r)
    BY <1>1, <1>2, GatePassed DEF Core
  <1>5. evaluated[a] = {}
    BY <1>1 DEF Core, GateHolds
  <1>6. produced[r] # {}
    BY DEF Core, Types, BookKeeping, Books
  <1>7. Delivered(r) # {}
    BY <1>6 DEF Delivered
  <1> QED
    BY <1>3, <1>4, <1>5, <1>7 DEF PassGate, heldVars

LEMMA PublishedBarKept ==
    ASSUME Core, [Next]_vars, published' = published PROVE PublishedBar' = PublishedBar
  BY PublishedKept DEF Core, PublishedBar, Delivered

LEMMA AbstractNext ==
    ASSUME Core, Core', [Next]_vars PROVE [Abstract!Next]_(Abstract!vars)
  <1> SUFFICES \/ PublishedBar' = PublishedBar /\ AttestedBar' = AttestedBar
               \/ Abstract!Next
    BY DEF PublishedBar, AttestedBar, Abstract!vars
  <1>1. ASSUME NEW q \in Run, CourierNext(q), UNCHANGED assessorVars, published' # published
        PROVE  Abstract!Next
    <2>1. /\ q \notin published
          /\ published' = published \cup {q}
          /\ Delivered(q)' \in {{Evidence(q, e) : e \in S} : S \in (SUBSET Evid) \ {{}}}
      BY <1>1, PublishSteps
    <2>2. \A r \in published : Delivered(r)' = Delivered(r)
      BY PublishedKept DEF Core, Delivered
    <2>3. PublishedBar' = Abstract!With(PublishedBar, q, Delivered(q)')
      BY <2>1, <2>2 DEF PublishedBar, Abstract!With
    <2>4. AttestedBar' = AttestedBar
      BY <1>1 DEF AttestedBar, assessorVars
    <2>5. Abstract!Publish(q)
      BY <2>1, <2>3, <2>4 DEF Abstract!Publish, PublishedBar, AttestedBar
    <2> QED
      BY <2>5 DEF Abstract!Next
  <1>2. ASSUME NEW a \in Assessment, PassGate(a), UNCHANGED courierVars
        PROVE  Abstract!Next
    <2> DEFINE r == manifest[a].run
    <2>1. /\ manifest' = manifest /\ evaluated[a] = {} /\ r \in published
          /\ evaluated' = [evaluated EXCEPT ![a] = Delivered(r)] /\ Delivered(r) # {}
      BY <1>2, PassGateStep
    <2>2. PublishedBar' = PublishedBar
      BY <1>2, PublishedBarKept DEF courierVars, history
    <2>3. AttestedBar' = Abstract!With(AttestedBar, a, [run |-> r, evidence |-> PublishedBar[r]])
      <3>1. PublishedBar[r] = Delivered(r)
        BY <2>1 DEF PublishedBar
      <3> HIDE DEF r
      <3>2. DOMAIN evaluated = Assessment
        BY DEF Core, Types
      <3> QED
        BY <2>1, <3>1, <3>2 DEF AttestedBar, Abstract!With, r
    <2>4. Abstract!Attest(a)
      BY <2>1, <2>2, <2>3 DEF Abstract!Attest, PublishedBar, AttestedBar
    <2> QED
      BY <2>4 DEF Abstract!Next
  <1>3. CASE UNCHANGED <<published, assessorVars>>
    BY <1>3, PublishedBarKept DEF AttestedBar, assessorVars
  <1>4. ASSUME NEW a \in Assessment, AssessorNext(a), ~PassGate(a), UNCHANGED courierVars
        PROVE  PublishedBar' = PublishedBar /\ AttestedBar' = AttestedBar
    <2>1. PublishedBar' = PublishedBar
      BY <1>4, PublishedBarKept DEF courierVars, history
    <2> QED
      BY <1>4, <2>1, AttestSteps DEF AttestedBar
  <1> QED
    BY <1>1, <1>2, <1>3, <1>4 DEF Next, vars, courierVars, history

(* Stepwise uploads that may fail, overlap and overwrite, and downloads    *)
(* file by file, look like one atomic publication per run and one atomic   *)
(* attestation per assessment.                                             *)
THEOREM PipelineImplementsAttestation == Spec => ImplementsAttestation
  <1>1. Init => Abstract!Init
    BY AbstractInit
  <1>2. Core /\ Core' /\ [Next]_vars => [Abstract!Next]_(Abstract!vars)
    BY AbstractNext
  <1> QED
    BY <1>1, <1>2, CoreInvariant, PTL DEF Spec, ImplementsAttestation, Abstract!Spec

-----------------------------------------------------------------------------
(* The verdicts. *)

(* Its findings, manifest and evidence will not change any more. *)
Settled == {"results"} \cup AssessmentOver

(* The findings are about the policies that were loaded. *)
FindingsWhole ==
    \A a \in Assessment : pc[a] \in {"ledger", "verdict", "results"} =>
        DOMAIN findings[a] = registered[a]

(* Assessment a stands behind verdict v. *)
Issued(a, v) ==
    /\ pc[a] \in Settled
    /\ manifest[a].run \in published
    /\ evaluated[a] = Delivered(manifest[a].run)
    /\ DOMAIN findings[a] = registered[a]
    /\ v = Verdict(a)

VerdictsIssued ==
    \A d \in Day : VerdictFile(d) \in DOMAIN store =>
        \E a \in Assessment : Issued(a, store[VerdictFile(d)])

VInv == Core /\ FindingsWhole /\ VerdictsIssued

-----------------------------------------------------------------------------
(* A signed verdict has the fields it was made of, and verifies. *)
LEMMA SignedVerdict ==
    ASSUME NEW a
    PROVE  /\ Verifies(Verdict(a), AssessorKey)
           /\ Verdict(a).run = manifest[a].run
           /\ Verdict(a).ledgerHash = Hash(FindingsLedger(a))
           /\ Verdict(a).controlsPassed = Cardinality(Passed(a))
           /\ Verdict(a).controlsFailed = Cardinality(registered[a] \ Passed(a))
  BY DEF Verdict, Sign, Unsigned, Verifies, NoSignature

(* What it counts adds up to the policies that were loaded. *)
LEMMA CountsAddUp ==
    ASSUME Types, NEW a \in Assessment
    PROVE  Cardinality(Passed(a)) + Cardinality(registered[a] \ Passed(a))
             = Cardinality(registered[a])
  <1>1. registered[a] \subseteq Control
    BY DEF Types
  <1>2. IsFiniteSet(registered[a])
    BY <1>1, ControlAssumption, FS_Subset
  <1>3. registered[a] \cap Passed(a) = Passed(a)
    BY DEF Passed
  <1>4. IsFiniteSet(Passed(a))
    BY <1>2, FS_Subset DEF Passed
  <1>5. /\ Cardinality(registered[a] \ Passed(a))
             = Cardinality(registered[a]) - Cardinality(Passed(a))
        /\ Cardinality(registered[a]) \in Nat /\ Cardinality(Passed(a)) \in Nat
    <2>1. Cardinality(registered[a] \ Passed(a))
            = Cardinality(registered[a]) - Cardinality(registered[a] \cap Passed(a))
      BY <1>2, FS_Difference
    <2> QED
      BY <1>2, <1>3, <1>4, <2>1, FS_CardinalityType
  <1> QED
    BY <1>5

(* Every verdict in the ledger is sound when an assessment stands behind   *)
(* it.                                                                     *)
LEMMA IssuedSound == VInv => VerdictSound
  <1> SUFFICES ASSUME VInv, NEW d \in Day, Exists(VerdictFile(d))
               PROVE  LET v == store[VerdictFile(d)]
                      IN  /\ VerifyVerdict(d)
                          /\ \E a \in Assessment :
                               /\ evaluated[a] = Delivered(v.run)
                               /\ v.run = manifest[a].run
                               /\ v.ledgerHash = Hash(FindingsLedger(a))
                               /\ v.controlsPassed + v.controlsFailed
                                    = Cardinality(registered[a])
                               /\ DOMAIN findings[a] = registered[a]
    BY DEF VerdictSound
  <1>1. PICK a \in Assessment : Issued(a, store[VerdictFile(d)])
    BY DEF VInv, VerdictsIssued, Exists
  <1>2. store[VerdictFile(d)] = Verdict(a)
    BY <1>1 DEF Issued
  <1>3. VerifyVerdict(d)
    BY <1>2, SignedVerdict DEF VerifyVerdict
  <1>4. Cardinality(Passed(a)) + Cardinality(registered[a] \ Passed(a))
          = Cardinality(registered[a])
    BY CountsAddUp DEF VInv, Core
  <1> QED
    BY <1>1, <1>2, <1>3, <1>4, SignedVerdict DEF Issued

-----------------------------------------------------------------------------
(* A settled assessment stays as it is, whatever the others do. *)
LEMMA SettledStays ==
    ASSUME Types, NEW b \in Assessment, AssessorNext(b),
           NEW a \in Assessment, pc[a] \in Settled
    PROVE  /\ pc'[a] \in Settled
           /\ manifest'[a] = manifest[a]
           /\ registered'[a] = registered[a]
           /\ evaluated'[a] = evaluated[a]
           /\ findings'[a] = findings[a]
  <1> USE DEF Types, Move, Settled, AssessmentOver, heldVars
  <1>1. CASE StartAssessment(b) \/ ReadManifest(b) \/ NoManifest(b) \/ LoadPolicies(b)
    BY <1>1 DEF StartAssessment, ReadManifest, NoManifest, LoadPolicies
  <1>2. CASE \E p \in pending[b] : ReadPayload(b, p) \/ ReadFails(b, p)
    BY <1>2 DEF ReadPayload, ReadFails
  <1>3. CASE AssessmentFails(b) \/ CrashAssessment(b) \/ Reject(b)
    BY <1>3 DEF AssessmentFails, CrashAssessment, Reject
  <1>4. CASE Evaluate(b)
    <2>1. /\ pc[b] = "evaluating" /\ pc' = [pc EXCEPT ![b] = "ledger"]
          /\ \A c \in Assessment \ {b} : findings'[c] = findings[c]
          /\ UNCHANGED <<manifest, registered, evaluated>>
      BY <1>4 DEF Evaluate
    <2> QED
      BY <2>1
  <1>5. CASE PassGate(b)
    <2>1. /\ pc[b] = "reading" /\ pc' = [pc EXCEPT ![b] = "evaluating"]
          /\ \A c \in Assessment \ {b} : evaluated'[c] = evaluated[c]
          /\ UNCHANGED <<manifest, registered, findings>>
      BY <1>5 DEF PassGate
    <2> QED
      BY <2>1
  <1>6. CASE SchemaDrift(b)
    BY <1>6 DEF SchemaDrift
  <1>7. CASE WriteLedger(b) \/ WriteVerdict(b) \/ WriteResults(b)
    BY <1>7 DEF WriteLedger, WriteVerdict, WriteResults
  <1> QED
    BY <1>1, <1>2, <1>3, <1>4, <1>5, <1>6, <1>7 DEF AssessorNext, Assess

(* Whoever stands behind a verdict goes on doing so. *)
LEMMA IssuedStays ==
    ASSUME Core, [Next]_vars, NEW a \in Assessment, NEW v, Issued(a, v)
    PROVE  Issued(a, v)'
  <1>1. /\ pc'[a] \in Settled
        /\ manifest'[a] = manifest[a] /\ registered'[a] = registered[a]
        /\ evaluated'[a] = evaluated[a] /\ findings'[a] = findings[a]
    <2>1. ASSUME NEW b \in Assessment, AssessorNext(b)
          PROVE  /\ pc'[a] \in Settled
                 /\ manifest'[a] = manifest[a] /\ registered'[a] = registered[a]
                 /\ evaluated'[a] = evaluated[a] /\ findings'[a] = findings[a]
      BY <2>1, SettledStays DEF Core, Issued
    <2>2. CASE UNCHANGED assessorVars
      BY <2>2 DEF assessorVars, Issued
    <2> QED
      BY <2>1, <2>2 DEF Next, vars
  <1>2. manifest[a].run \in published' /\ produced'[manifest[a].run] = produced[manifest[a].run]
    BY PublishedKept DEF Core, Issued
  <1>3. Passed(a)' = Passed(a)
    BY <1>1 DEF Passed
  <1>4. Verdict(a)' = Verdict(a)
    BY <1>1, <1>3 DEF Verdict, FindingsLedger
  <1>5. Delivered(manifest[a].run)' = Delivered(manifest[a].run)
    BY <1>1, <1>2 DEF Delivered
  <1> QED
    BY <1>1, <1>2, <1>4, <1>5 DEF Issued

(* An assessment puts a verdict of its own, and nobody else puts any. *)
LEMMA VerdictPuts ==
    ASSUME Core, [Next]_vars, NEW d \in Day, NEW p, p = VerdictFile(d), p \in DOMAIN store'
    PROVE  \/ p \in DOMAIN store /\ store'[p] = store[p]
           \/ \E a \in Assessment : /\ WriteVerdict(a) /\ UNCHANGED courierVars
                                    /\ store'[p] = Verdict(a)
  <1> DEFINE same == p \in DOMAIN store /\ store'[p] = store[p]
  <1>1. CASE UNCHANGED store
    BY <1>1
  <1>2. ASSUME NEW path, NEW content, Stored(path, content)
        PROVE  IF p = path THEN store'[p] = content ELSE same
    BY <1>2 DEF Stored, WithEntry
  <1>3. ASSUME NEW r \in Run, CourierNext(r) PROVE same
    <2>1. CASE PutDue(r)
      <3>1. PICK path : path.kind \in CourierKind /\ Put(r, path, Content(r, path))
        BY <2>1, DuePut
      <3>2. path # p
        BY <3>1 DEF CourierKind, VerdictFile, File
      <3> QED
        BY <1>2, <3>1, <3>2 DEF Put
    <2> QED
      BY <1>1, <1>3, <2>1, RunPuts DEF Core
  <1>4. ASSUME NEW a \in Assessment, AssessorNext(a), UNCHANGED courierVars
        PROVE  same \/ (WriteVerdict(a) /\ store'[p] = Verdict(a))
    <2>1. CASE WriteVerdict(a)
      <3>1. CASE Stored(VerdictFile(day[a]), Verdict(a))
        BY <1>2, <2>1, <3>1
      <3> QED
        BY <1>1, <2>1, <3>1 DEF WriteVerdict, WriteFile
    <2>2. CASE WriteLedger(a)
      <3>1. LedgerFile(day[a]) # p
        BY DEF LedgerFile, VerdictFile, File
      <3> QED
        BY <1>1, <1>2, <2>2, <3>1 DEF WriteLedger, WriteFile
    <2>3. CASE WriteResults(a)
      <3>1. ResultsFile(day[a]) # p
        BY DEF ResultsFile, VerdictFile, File
      <3> QED
        BY <1>1, <1>2, <2>3, <3>1 DEF WriteResults, WriteFile
    <2>4. CASE ~WriteVerdict(a) /\ ~WriteLedger(a) /\ ~WriteResults(a)
      <3>1. UNCHANGED store
        BY <1>4, <2>4 DEF AssessorNext, Assess, StartAssessment, ReadManifest, NoManifest,
           LoadPolicies, ReadPayload, ReadFails, AssessmentFails, PassGate, Reject, Evaluate,
           SchemaDrift, CrashAssessment, ledgerVars
      <3> QED
        BY <1>1, <3>1
    <2> QED
      BY <2>1, <2>2, <2>3, <2>4
  <1> QED
    BY <1>1, <1>3, <1>4 DEF Next, Midnight, vars, ledgerVars

(* The findings are whole from the evaluation on. *)
LEMMA FindingsWholeNext ==
    ASSUME Core, FindingsWhole, [Next]_vars PROVE FindingsWhole'
  <1> SUFFICES ASSUME NEW a \in Assessment, pc'[a] \in {"ledger", "verdict", "results"}
               PROVE  DOMAIN findings'[a] = registered'[a]
    BY DEF FindingsWhole
  <1> USE DEF Core, Types, FindingsWhole, Move, heldVars
  <1>1. CASE UNCHANGED assessorVars
    BY <1>1 DEF assessorVars
  <1>2. ASSUME NEW b \in Assessment, AssessorNext(b)
        PROVE  DOMAIN findings'[a] = registered'[a]
    <2>1. CASE StartAssessment(b) \/ ReadManifest(b) \/ NoManifest(b) \/ LoadPolicies(b)
      BY <2>1 DEF StartAssessment, ReadManifest, NoManifest, LoadPolicies
    <2>2. CASE \E p \in pending[b] : ReadPayload(b, p) \/ ReadFails(b, p)
      BY <2>2 DEF ReadPayload, ReadFails
    <2>3. CASE AssessmentFails(b) \/ CrashAssessment(b) \/ Reject(b) \/ PassGate(b)
      BY <2>3 DEF AssessmentFails, CrashAssessment, Reject, PassGate
    <2>4. CASE Evaluate(b)
      <3>1. /\ pc' = [pc EXCEPT ![b] = "ledger"] /\ registered' = registered
            /\ \E f \in [registered[b] -> ComplianceVerdict \ {VerdictDrifted}] :
                 findings' = [findings EXCEPT ![b] = f]
        BY <2>4 DEF Evaluate
      <3> QED
        BY <3>1
    <2>5. CASE SchemaDrift(b)
      BY <2>5 DEF SchemaDrift
    <2>6. CASE WriteLedger(b) \/ WriteVerdict(b) \/ WriteResults(b)
      BY <2>6 DEF WriteLedger, WriteVerdict, WriteResults
    <2> QED
      BY <1>2, <2>1, <2>2, <2>3, <2>4, <2>5, <2>6 DEF AssessorNext, Assess
  <1> QED
    BY <1>1, <1>2 DEF Next, vars

(* So every verdict keeps an assessment that stands behind it. *)
LEMMA VerdictsIssuedNext ==
    ASSUME Core, FindingsWhole, VerdictsIssued, [Next]_vars PROVE VerdictsIssued'
  <1> SUFFICES ASSUME NEW d \in Day, NEW p, p = VerdictFile(d), p \in DOMAIN store',
                      NEW v, v = store'[p]
               PROVE  \E a \in Assessment : Issued(a, v)'
    BY DEF VerdictsIssued, Issued, VerdictFile, File
  <1>1. CASE p \in DOMAIN store /\ store'[p] = store[p]
    <2>1. PICK a \in Assessment : Issued(a, v)
      BY <1>1 DEF VerdictsIssued
    <2> QED
      BY <2>1, IssuedStays
  <1>2. ASSUME NEW a \in Assessment, WriteVerdict(a), UNCHANGED courierVars,
               store'[p] = Verdict(a)
        PROVE  Issued(a, v)'
    <2>1. /\ pc[a] = "verdict" /\ pc'[a] = "results"
          /\ UNCHANGED <<manifest, registered, evaluated, findings, published, produced>>
      BY <1>2 DEF WriteVerdict, Move, heldVars, Core, Types, courierVars, history
    <2>2. manifest[a].run \in published /\ evaluated[a] = Delivered(manifest[a].run)
      <3>1. evaluated[a] = Delivered(manifest[a].run)
        BY <2>1 DEF Core, GateHolds, Attesting
      <3>2. \E r \in published : manifest[a] = Manifest(r, checksums[r])
        BY <2>1 DEF Core, ManifestsWhole, WholeManifest, HasManifest, Attesting
      <3> QED
        BY <3>1, <3>2, SignedManifest
    <2>3. DOMAIN findings[a] = registered[a]
      BY <2>1 DEF FindingsWhole
    <2>4. Verdict(a)' = Verdict(a)
      BY <2>1 DEF Verdict, Passed, FindingsLedger
    <2>5. Delivered(manifest[a].run)' = Delivered(manifest[a].run)
      BY <2>1 DEF Delivered
    <2> QED
      BY <1>2, <2>1, <2>2, <2>3, <2>4, <2>5 DEF Issued, Settled
  <1> QED
    BY <1>1, <1>2, VerdictPuts

(* A verdict in the ledger names the run whose whole evidence was          *)
(* evaluated, counts every policy once and verifies, whatever assessments  *)
(* overlap, drift or crash.                                                *)
THEOREM VerdictSoundAlways == Spec => []VerdictSound
  <1>1. Init => FindingsWhole /\ VerdictsIssued
    BY DEF Init, LedgerInit, AssessorInit, FindingsWhole, VerdictsIssued, Exists
  <1>2. Core /\ FindingsWhole /\ VerdictsIssued /\ [Next]_vars
          => (FindingsWhole /\ VerdictsIssued)'
    BY FindingsWholeNext, VerdictsIssuedNext
  <1>3. Core /\ FindingsWhole /\ VerdictsIssued => VerdictSound
    BY IssuedSound DEF VInv
  <1> QED
    BY <1>1, <1>2, <1>3, CoreInvariant, PTL DEF Spec
=============================================================================
