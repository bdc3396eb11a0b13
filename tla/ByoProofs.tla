----------------------------- MODULE ByoProofs -----------------------------
(***************************************************************************)
(* Proofs about evidence that jula-sign-evidence has signed, for any       *)
(* number of invocations, input files, days and assessments.               *)
(***************************************************************************)
EXTENDS ByoPipeline, TLAPS

(* What the steps of an assessment rely on. *)
Functions ==
    /\ signPc \in [Run -> SignPc]
    /\ DOMAIN listed = Run
    /\ pc \in [Assessment -> AssessmentPc]
    /\ day \in [Assessment -> Day]
    /\ DOMAIN manifest = Assessment
    /\ DOMAIN payloads = Assessment
    /\ DOMAIN pending = Assessment

(* How far an invocation is with its files. *)
Progress ==
    /\ through \in [Run -> Nat]
    /\ signDay \in [Run -> Day]
    /\ today \in Day
    /\ \A r \in Run :
         /\ through[r] <= Len(Input[r])
         /\ signPc[r] = "idle" => through[r] = 0
         /\ signPc[r] \in {"file", "sidecar"} => through[r] < Len(Input[r])
         /\ signPc[r] \in {"manifest", "signed"} => through[r] = Len(Input[r])

(* The two entries of a manifest for an input file. *)
EntriesFor(r, f) ==
    {FileChecksum(FilePath(r, f), f.content),
     FileChecksum(SidecarPath(r, f), SidecarFor(r, f))}

(* Every file an invocation is through with is listed, and nothing else. *)
Lists ==
    \A r \in Run :
        \A x : x \in listed[r] <=>
             \E i \in 1..through[r] : x \in EntriesFor(r, Input[r][i])

(* Manifest m, of directory d, is that of an invocation which was through  *)
(* with its files.                                                         *)
WholeInput(m, d) ==
    \E r \in Run : /\ m = Manifest(r, listed[r])
                   /\ signDay[r] = d
                   /\ signPc[r] \in {"signed", "failed"}
                   /\ through[r] = Len(Input[r])

StoredManifests ==
    \A d \in Day : ManifestFile(d) \in DOMAIN store =>
        WholeInput(store[ManifestFile(d)], d)

BehindManifest == {"policies", "reading"} \cup Attesting

HeldManifests ==
    \A a \in Assessment :
        /\ pc[a] \in BehindManifest => WholeInput(manifest[a], day[a])
        /\ pc[a] \in Attesting => VerifyPayloads(a)

(* What an assessment stores. *)
Assessed == {"ledger", "verdict", "results"}

-----------------------------------------------------------------------------
(* The signing. *)

(* An input file and its sidecar have paths of the store. *)
LEMMA InputPaths ==
    ASSUME Functions, Progress, NEW r \in Run, NEW i \in 1..Len(Input[r])
    PROVE  /\ FilePath(r, Input[r][i]) \in Path
           /\ SidecarPath(r, Input[r][i]) \in Path
           /\ FilePath(r, Input[r][i]).kind # "manifest"
           /\ SidecarPath(r, Input[r][i]).kind # "manifest"
           /\ FilePath(r, Input[r][i]).kind # "log"
           /\ SidecarPath(r, Input[r][i]).kind # "log"
           /\ FilePath(r, Input[r][i]).kind \notin Assessed
           /\ SidecarPath(r, Input[r][i]).kind \notin Assessed
           /\ FilePath(r, Input[r][i]).day = signDay[r]
           /\ SidecarPath(r, Input[r][i]).day = signDay[r]
  <1>1. signDay[r] \in Day
    BY DEF Progress
  <1>2. /\ Input[r][i].kind \in {"evidence", "csv", "provenance", "csv_prov"}
        /\ Input[r][i].id \in Evid
    BY InputAssumption DEF SidecarSuffix
  <1>3. SidecarSuffix[Input[r][i].kind]
          \in {"evidence_prov", "csv_prov", "provenance_prov", "csv_prov_prov"}
    BY <1>2 DEF SidecarSuffix
  <1> QED
    BY <1>1, <1>2, <1>3 DEF FilePath, SidecarPath, File, Path, Kind, SidecarKind, Assessed

(* A step of one invocation leaves what the others know. *)
LEMMA OtherSignings ==
    ASSUME Functions, Progress, NEW q \in Run, SignNext(q), NEW r \in Run, r # q
    PROVE  /\ signPc'[r] = signPc[r] /\ signDay'[r] = signDay[r]
           /\ through'[r] = through[r] /\ listed'[r] = listed[r]
  BY DEF Functions, Progress, SignNext, StartSigning, RefuseSigning, PutFile, PutSidecar, FileDone,
         PutSignedManifest, SigningFails, ToStep, ledgerVars

(* The steps of an invocation. *)
LEMMA SignSteps ==
    ASSUME Functions, Progress, NEW r \in Run, SignNext(r)
    PROVE  /\ signPc' = [signPc EXCEPT ![r] = signPc'[r]] /\ signPc'[r] \in SignPc
           /\ signDay' = [signDay EXCEPT ![r] = signDay'[r]]
           /\ DOMAIN listed' = Run /\ today' = today
           /\ \/ /\ signPc[r] = "idle" /\ signPc'[r] \in {"file", "failed"}
                 /\ signPc'[r] = "file" => Len(Input[r]) > 0
                 /\ signDay'[r] \in {signDay[r], today}
                 /\ UNCHANGED <<through, listed, store>>
              \/ /\ signPc[r] \in Signing /\ UNCHANGED <<signDay, through, listed>>
                 /\ signPc'[r] \in {"sidecar", "signed", "failed"}
                 /\ signPc'[r] = "sidecar" => signPc[r] = "file"
                 /\ signPc'[r] = "signed" => signPc[r] = "manifest"
                 /\ UNCHANGED store \/ StoreDue(r)
              \/ /\ signPc[r] = "sidecar" /\ UNCHANGED signDay /\ FileDone(r) /\ StoreDue(r)
  <1> USE DEF Functions, Progress, ToStep, ledgerVars
  <1>1. CASE StartSigning(r) \/ RefuseSigning(r)
    BY <1>1 DEF StartSigning, RefuseSigning, SignPc, Signing
  <1>2. CASE PutFile(r)
    BY <1>2 DEF PutFile, StoreDue, SignPc, Signing
  <1>3. CASE PutSidecar(r)
    BY <1>3 DEF PutSidecar, FileDone, StoreDue, SignPc, Signing
  <1>4. CASE PutSignedManifest(r)
    BY <1>4 DEF PutSignedManifest, StoreDue, SignPc, Signing
  <1>5. CASE SigningFails(r)
    BY <1>5 DEF SigningFails, SignPc, Signing
  <1> QED
    BY <1>1, <1>2, <1>3, <1>4, <1>5 DEF SignNext

(* An invocation goes through its files one by one. *)
LEMMA ProgressKept ==
    ASSUME Functions, Progress, [Next]_vars
    PROVE  Progress'
  <1>1. CASE UNCHANGED <<signPc, signDay, through, today>>
    BY <1>1 DEF Progress
  <1>2. CASE Midnight /\ UNCHANGED signVars
    <2>1. today' \in Day
      BY <1>2, MaxDayAssumption DEF Midnight, Day, Progress
    <2> QED
      BY <1>2, <2>1 DEF Progress, signVars
  <1>3. ASSUME NEW r \in Run, SignNext(r) PROVE Progress'
    <2>0. Len(Input[r]) \in Nat
      BY InputAssumption
    <2>1. /\ today' \in Day /\ signDay' \in [Run -> Day]
      BY <1>3, SignSteps DEF Progress
    <2>2. \A q \in Run : q # r => /\ signPc'[q] = signPc[q] /\ through'[q] = through[q]
      BY <1>3, OtherSignings
    <2>3. /\ through' \in [Run -> Nat]
          /\ through'[r] <= Len(Input[r])
          /\ signPc'[r] = "idle" => through'[r] = 0
          /\ signPc'[r] \in {"file", "sidecar"} => through'[r] < Len(Input[r])
          /\ signPc'[r] \in {"manifest", "signed"} => through'[r] = Len(Input[r])
      <3>1. CASE /\ signPc[r] = "idle" /\ signPc'[r] \in {"file", "failed"}
                 /\ signPc'[r] = "file" => Len(Input[r]) > 0
                 /\ UNCHANGED <<through, listed, store>>
        BY <2>0, <3>1 DEF Progress
      <3>2. CASE /\ signPc[r] \in Signing /\ UNCHANGED <<signDay, through, listed>>
                 /\ signPc'[r] \in {"sidecar", "signed", "failed"}
                 /\ signPc'[r] = "sidecar" => signPc[r] = "file"
                 /\ signPc'[r] = "signed" => signPc[r] = "manifest"
        BY <3>2 DEF Progress
      <3>3. CASE signPc[r] = "sidecar" /\ FileDone(r)
        <4>1. through[r] \in Nat /\ through[r] < Len(Input[r])
          BY <3>3 DEF Progress
        <4>2. /\ through' = [through EXCEPT ![r] = through[r] + 1]
              /\ signPc'[r] = IF through[r] + 1 = Len(Input[r]) THEN "manifest" ELSE "file"
          BY <3>3 DEF FileDone, ToStep, Functions
        <4> QED
          BY <2>0, <4>1, <4>2 DEF Progress
      <3> QED
        BY <1>3, <3>1, <3>2, <3>3, SignSteps
    <2> QED
      BY <2>1, <2>2, <2>3 DEF Progress
  <1>4. CASE (\E a \in Assessment : AssessorNext(a)) /\ UNCHANGED signVars
    <2>1. UNCHANGED today
      BY <1>4 DEF AssessorNext, Assess, StartAssessment, ReadManifest, NoManifest, LoadPolicies,
         ReadPayload, ReadFails, AssessmentFails, PassGate, Reject, Evaluate, SchemaDrift,
         WriteLedger, WriteVerdict, WriteResults, CrashAssessment, ledgerVars
    <2> QED
      BY <1>1, <1>4, <2>1 DEF signVars
  <1> QED
    BY <1>1, <1>2, <1>3, <1>4 DEF Next, vars, signVars, ledgerVars

(* The next file adds its two entries to the list. *)
LEMMA FileListed ==
    ASSUME Functions, Progress, Lists, NEW r \in Run, signPc[r] = "sidecar", FileDone(r),
           UNCHANGED signDay
    PROVE  /\ through'[r] = through[r] + 1
           /\ \A x : x \in listed'[r] <=>
                \E i \in 1..through'[r] : x \in EntriesFor(r, Input[r][i])'
  <1>1. through[r] \in Nat
    BY DEF Progress
  <1>2. through'[r] = through[r] + 1
    BY DEF FileDone, Progress
  <1>3. listed'[r] = listed[r] \cup EntriesFor(r, Input[r][through[r] + 1])
    BY DEF FileDone, EntriesFor, Due, Functions
  <1>4. \A i : EntriesFor(r, Input[r][i])' = EntriesFor(r, Input[r][i])
    BY DEF EntriesFor, FilePath, SidecarPath, SidecarFor
  <1>5. \A x : x \in listed[r] <=> \E i \in 1..through[r] : x \in EntriesFor(r, Input[r][i])
    BY DEF Lists
  <1>6. 1..through[r] + 1 = (1..through[r]) \cup {through[r] + 1}
    BY <1>1
  <1> QED
    BY <1>2, <1>3, <1>4, <1>5, <1>6

(* The list is always that of the files that are through. *)
LEMMA ListsKept ==
    ASSUME Functions, Progress, Lists, [Next]_vars
    PROVE  Lists'
  <1> SUFFICES ASSUME NEW r \in Run
               PROVE  \A x : x \in listed'[r] <=>
                        \E i \in 1..through'[r] : x \in EntriesFor(r, Input[r][i])'
    BY DEF Lists
  <1>1. CASE /\ through'[r] = through[r] /\ listed'[r] = listed[r]
             /\ signDay'[r] = signDay[r] \/ through[r] = 0
    <2>1. CASE signDay'[r] = signDay[r]
      <3>1. \A i : EntriesFor(r, Input[r][i])' = EntriesFor(r, Input[r][i])
        BY <2>1 DEF EntriesFor, FilePath, SidecarPath, SidecarFor
      <3> QED
        BY <1>1, <3>1 DEF Lists
    <2>2. CASE through[r] = 0
      <3>1. 1..through'[r] = {} /\ 1..through[r] = {}
        BY <1>1, <2>2
      <3> QED
        BY <1>1, <2>2, <3>1 DEF Lists
    <2> QED
      BY <1>1, <2>1, <2>2
  <1>2. CASE UNCHANGED signVars
    BY <1>1, <1>2 DEF signVars
  <1>3. ASSUME NEW q \in Run, q # r, SignNext(q)
        PROVE  /\ signPc'[r] = signPc[r] /\ signDay'[r] = signDay[r]
               /\ through'[r] = through[r] /\ listed'[r] = listed[r]
    BY <1>3, OtherSignings
  <1>4. CASE SignNext(r)
    <2>1. CASE signPc[r] = "sidecar" /\ UNCHANGED signDay /\ FileDone(r)
      BY <2>1, FileListed
    <2>2. CASE signPc[r] = "idle" /\ UNCHANGED <<through, listed>>
      BY <1>1, <1>4, <2>2, SignSteps DEF Progress
    <2>3. CASE /\ UNCHANGED <<signDay, through, listed>>
               /\ signPc'[r] \in {"sidecar", "signed", "failed"}
      BY <1>1, <2>3
    <2> QED
      BY <1>4, <2>1, <2>2, <2>3, SignSteps
  <1> QED
    BY <1>1, <1>2, <1>3, <1>4 DEF Next, vars

(* A manifest that is whole stays so: its invocation is over. *)
LEMMA WholeStays ==
    ASSUME Functions, Progress, [Next]_vars, NEW m, NEW d, WholeInput(m, d)
    PROVE  WholeInput(m, d)'
  <1>1. PICK r \in Run : /\ m = Manifest(r, listed[r])
                         /\ signDay[r] = d
                         /\ signPc[r] \in {"signed", "failed"}
                         /\ through[r] = Len(Input[r])
    BY DEF WholeInput
  <1>2. /\ signPc'[r] = signPc[r] /\ signDay'[r] = signDay[r]
        /\ through'[r] = through[r] /\ listed'[r] = listed[r]
    <2>1. CASE UNCHANGED signVars
      BY <2>1 DEF signVars
    <2>2. ASSUME NEW q \in Run, SignNext(q) PROVE q # r
      BY <1>1, <2>2, SignSteps DEF Signing
    <2> QED
      BY <2>1, <2>2, OtherSignings DEF Next, vars
  <1> QED
    BY <1>1, <1>2 DEF WholeInput, Manifest, Sign, Unsigned

-----------------------------------------------------------------------------
(* The manifests in the ledger. *)

(* What is due is a file, a sidecar, or the manifest of all files. *)
LEMMA DueStored ==
    ASSUME Functions, Progress, NEW r \in Run, StoreDue(r)
    PROVE  \E path, content :
             /\ Stored(path, content)
             /\ path \in Path /\ path.day = signDay[r]
             /\ path.kind = "manifest" =>
                  /\ content = Manifest(r, listed[r])
                  /\ signPc[r] = "manifest" /\ through[r] = Len(Input[r])
  <1>1. CASE signPc[r] \in {"file", "sidecar"}
    <2>1. through[r] \in Nat /\ through[r] < Len(Input[r]) /\ Len(Input[r]) \in Nat
      BY <1>1, InputAssumption DEF Progress
    <2>2. through[r] + 1 \in 1..Len(Input[r])
      BY <2>1
    <2> QED
      BY <1>1, <2>2, InputPaths DEF StoreDue, Due
  <1>2. CASE signPc[r] = "manifest"
    <2>1. ManifestFile(signDay[r]) \in Path /\ ManifestFile(signDay[r]).day = signDay[r]
      BY DEF Progress, ManifestFile, File, Path, Kind
    <2> QED
      BY <1>2, <2>1 DEF StoreDue, Progress
  <1> QED
    BY <1>1, <1>2 DEF StoreDue

(* An assessment stores no manifest. *)
LEMMA AssessmentStores ==
    ASSUME Functions, NEW a \in Assessment, AssessorNext(a)
    PROVE  \/ UNCHANGED store
           \/ \E path, content :
                /\ Stored(path, content)
                /\ path \in Path /\ path.kind # "manifest" /\ path.kind \in Assessed
  <1>1. day[a] \in Day
    BY DEF Functions
  <1>2. \A path \in {LedgerFile(day[a]), VerdictFile(day[a]), ResultsFile(day[a])} :
          path \in Path /\ path.kind # "manifest" /\ path.kind \in Assessed
    BY <1>1 DEF LedgerFile, VerdictFile, ResultsFile, File, Path, Kind, Assessed
  <1>3. CASE WriteLedger(a) \/ WriteVerdict(a) \/ WriteResults(a)
    BY <1>2, <1>3 DEF WriteLedger, WriteVerdict, WriteResults, WriteFile
  <1> QED
    BY <1>3 DEF AssessorNext, Assess, StartAssessment, ReadManifest, NoManifest, LoadPolicies,
       ReadPayload, ReadFails, AssessmentFails, PassGate, Reject, Evaluate, SchemaDrift,
       CrashAssessment, ledgerVars

(* Whatever is in the ledger as a manifest is one of a whole input. *)
LEMMA StoredManifestsKept ==
    ASSUME Functions, Progress, StoredManifests, [Next]_vars
    PROVE  StoredManifests'
  <1> SUFFICES ASSUME NEW d \in Day, NEW p, p = ManifestFile(d), p \in DOMAIN store',
                      NEW m, m = store'[p]
               PROVE  WholeInput(m, d)'
    BY DEF StoredManifests, WholeInput, ManifestFile, File
  <1>1. CASE p \in DOMAIN store /\ store'[p] = store[p]
    <2>1. WholeInput(m, d)
      BY <1>1 DEF StoredManifests
    <2> QED
      BY <2>1, WholeStays
  <1>2. CASE UNCHANGED store
    BY <1>1, <1>2
  <1>3. ASSUME NEW path, NEW content, Stored(path, content)
        PROVE  IF p = path THEN m = content ELSE p \in DOMAIN store /\ store'[p] = store[p]
    BY <1>3 DEF Stored, WithEntry
  <1>4. p.kind = "manifest"
    BY DEF ManifestFile, File
  <1>5. ASSUME NEW a \in Assessment, AssessorNext(a) PROVE WholeInput(m, d)'
    BY <1>1, <1>2, <1>3, <1>4, <1>5, AssessmentStores
  <1>6. ASSUME NEW r \in Run, SignNext(r) PROVE WholeInput(m, d)'
    <2>1. CASE StoreDue(r)
      <3>1. PICK path, content :
               /\ Stored(path, content)
               /\ path.day = signDay[r]
               /\ path.kind = "manifest" =>
                    /\ content = Manifest(r, listed[r])
                    /\ signPc[r] = "manifest" /\ through[r] = Len(Input[r])
        BY <2>1, DueStored
      <3>2. CASE p = path
        <4>1. /\ m = Manifest(r, listed[r]) /\ signPc[r] = "manifest"
              /\ through[r] = Len(Input[r])
          BY <1>3, <1>4, <3>1, <3>2
        <4>3. signDay[r] = d
          BY <3>1, <3>2 DEF ManifestFile, File
        <4>2. /\ signPc'[r] \in {"signed", "failed"} /\ signDay' = signDay
              /\ through' = through /\ listed' = listed
          BY <1>6, <4>1, SignSteps
        <4> QED
          BY <4>1, <4>2, <4>3 DEF WholeInput, Manifest, Sign, Unsigned
      <3>3. CASE p # path
        BY <1>1, <1>3, <3>1, <3>3
      <3> QED
        BY <3>2, <3>3
    <2> QED
      BY <1>2, <1>6, <2>1, SignSteps
  <1> QED
    BY <1>2, <1>5, <1>6 DEF Next, Midnight, vars, ledgerVars

-----------------------------------------------------------------------------
(* The manifests the assessments hold. *)

(* The steps of an assessment keep its variables functions. *)
LEMMA FunctionsAssessment ==
    ASSUME Functions, today \in Day, NEW a \in Assessment, AssessorNext(a)
    PROVE  /\ pc' \in [Assessment -> AssessmentPc]
           /\ day' \in [Assessment -> Day]
           /\ DOMAIN manifest' = Assessment
           /\ DOMAIN payloads' = Assessment
           /\ DOMAIN pending' = Assessment
  <1> USE DEF Functions, Move, AssessmentPc, AssessmentOver, heldVars, readVars
  <1>1. CASE StartAssessment(a) \/ ReadManifest(a) \/ NoManifest(a) \/ LoadPolicies(a)
    BY <1>1 DEF StartAssessment, ReadManifest, NoManifest, LoadPolicies
  <1>2. CASE \E p \in pending[a] : ReadPayload(a, p) \/ ReadFails(a, p)
    BY <1>2 DEF ReadPayload, ReadFails
  <1>3. CASE AssessmentFails(a) \/ CrashAssessment(a) \/ Reject(a) \/ Evaluate(a)
    BY <1>3 DEF AssessmentFails, CrashAssessment, Reject, Evaluate
  <1>4. CASE PassGate(a)
    BY <1>4 DEF PassGate
  <1>5. CASE SchemaDrift(a)
    BY <1>5 DEF SchemaDrift
  <1>6. CASE WriteLedger(a) \/ WriteVerdict(a) \/ WriteResults(a)
    BY <1>6 DEF WriteLedger, WriteVerdict, WriteResults
  <1> QED
    BY <1>1, <1>2, <1>3, <1>4, <1>5, <1>6 DEF AssessorNext, Assess

(* So does every other step. *)
LEMMA FunctionsKept ==
    ASSUME Functions, Progress, [Next]_vars
    PROVE  Functions'
  <1>1. ASSUME NEW r \in Run, SignNext(r), UNCHANGED assessorVars PROVE Functions'
    <2>1. signPc' \in [Run -> SignPc] /\ DOMAIN listed' = Run
      BY <1>1, SignSteps DEF Functions
    <2> QED
      BY <1>1, <2>1 DEF Functions, assessorVars
  <1>2. ASSUME NEW a \in Assessment, AssessorNext(a), UNCHANGED signVars PROVE Functions'
    BY <1>2, FunctionsAssessment DEF Functions, Progress, signVars
  <1>3. CASE UNCHANGED <<signVars, assessorVars>>
    BY <1>3 DEF Functions, signVars, assessorVars
  <1> QED
    BY <1>1, <1>2, <1>3 DEF Next, vars

(* What an assessment takes for its manifest, and when it is past the gate. *)
LEMMA ManifestSteps ==
    ASSUME Functions, NEW a \in Assessment, AssessorNext(a), NEW b \in Assessment
    PROVE  /\ pc'[b] \in BehindManifest => day'[b] = day[b]
           /\ pc'[b] \in BehindManifest =>
                \/ pc[b] \in BehindManifest /\ manifest'[b] = manifest[b]
                \/ /\ ManifestFile(day[b]) \in DOMAIN store
                   /\ manifest'[b] = store[ManifestFile(day[b])]
           /\ pc'[b] \in Attesting =>
                /\ manifest'[b] = manifest[b] /\ payloads'[b] = payloads[b]
                /\ pc[b] \in Attesting \/ VerifyPayloads(b)
  <1> USE DEF Functions, Move, BehindManifest, Attesting, heldVars, readVars
  <1>1. CASE StartAssessment(a) \/ ReadManifest(a) \/ NoManifest(a) \/ LoadPolicies(a)
    BY <1>1 DEF StartAssessment, ReadManifest, NoManifest, LoadPolicies, Exists
  <1>2. CASE \E p \in pending[a] : ReadPayload(a, p) \/ ReadFails(a, p)
    BY <1>2 DEF ReadPayload, ReadFails
  <1>3. CASE AssessmentFails(a) \/ CrashAssessment(a) \/ Reject(a) \/ Evaluate(a)
    BY <1>3 DEF AssessmentFails, CrashAssessment, Reject, Evaluate
  <1>4. CASE PassGate(a)
    <2>1. /\ pc' = [pc EXCEPT ![a] = "evaluating"] /\ pc[a] = "reading"
          /\ UNCHANGED <<manifest, day, payloads>> /\ VerifyPayloads(a)
      BY <1>4 DEF PassGate
    <2> QED
      BY <2>1
  <1>5. CASE SchemaDrift(a)
    BY <1>5 DEF SchemaDrift
  <1>6. CASE WriteLedger(a) \/ WriteVerdict(a) \/ WriteResults(a)
    BY <1>6 DEF WriteLedger, WriteVerdict, WriteResults
  <1> QED
    BY <1>1, <1>2, <1>3, <1>4, <1>5, <1>6 DEF AssessorNext, Assess

(* An assessment with a manifest holds one of a whole input. *)
LEMMA HeldManifestsKept ==
    ASSUME Functions, Progress, StoredManifests, HeldManifests, [Next]_vars
    PROVE  HeldManifests'
  <1> SUFFICES ASSUME NEW b \in Assessment, NEW m, m = manifest'[b],
                      NEW d, d = day'[b]
               PROVE  /\ pc'[b] \in BehindManifest => WholeInput(m, d)'
                      /\ pc'[b] \in Attesting => VerifyPayloads(b)'
    BY DEF HeldManifests, WholeInput
  <1>1. CASE UNCHANGED assessorVars
    <2>1. /\ pc'[b] = pc[b] /\ manifest'[b] = manifest[b] /\ payloads'[b] = payloads[b]
          /\ day'[b] = day[b]
      BY <1>1 DEF assessorVars
    <2>2. VerifyPayloads(b)' <=> VerifyPayloads(b)
      BY <2>1 DEF VerifyPayloads, ValidFiles, Hash
    <2>3. pc[b] \in BehindManifest => WholeInput(m, d)
      BY <2>1 DEF HeldManifests
    <2> QED
      BY <2>1, <2>2, <2>3, WholeStays DEF HeldManifests
  <1>2. ASSUME NEW a \in Assessment, AssessorNext(a)
        PROVE  /\ pc'[b] \in BehindManifest => WholeInput(m, d)'
               /\ pc'[b] \in Attesting => VerifyPayloads(b)'
    <2>1. ASSUME pc'[b] \in BehindManifest
          PROVE  WholeInput(m, d)'
      <3>1. day[b] \in Day
        BY DEF Functions
      <3>2. WholeInput(m, d)
        BY <1>2, <2>1, <3>1, ManifestSteps DEF HeldManifests, StoredManifests
      <3> QED
        BY <3>2, WholeStays
    <2>2. ASSUME pc'[b] \in Attesting
          PROVE  VerifyPayloads(b)'
      <3>1. manifest'[b] = manifest[b] /\ payloads'[b] = payloads[b] /\ VerifyPayloads(b)
        BY <1>2, <2>2, ManifestSteps DEF HeldManifests
      <3> QED
        BY <3>1 DEF VerifyPayloads, ValidFiles, Hash
    <2> QED
      BY <2>1, <2>2
  <1> QED
    BY <1>1, <1>2 DEF Next, vars

-----------------------------------------------------------------------------
(* The layers together. *)

Signed == Functions /\ Progress /\ Lists /\ StoredManifests /\ HeldManifests

(* At the start nothing is signed, stored or read. *)
LEMMA SignedInit == Init => Signed
  <1> SUFFICES ASSUME Init PROVE Signed
    OBVIOUS
  <1> USE DEF Init, SignInit, AssessorInit, LedgerInit
  <1>1. 1 \in Day
    BY MaxDayAssumption DEF Day
  <1>2. Functions
    BY <1>1 DEF Functions, SignPc, AssessmentPc
  <1>3. Progress
    BY <1>1, InputAssumption DEF Progress
  <1>4. Lists
    BY DEF Lists
  <1>5. StoredManifests
    BY DEF StoredManifests
  <1>6. HeldManifests
    BY DEF HeldManifests, BehindManifest, Attesting
  <1> QED
    BY <1>2, <1>3, <1>4, <1>5, <1>6 DEF Signed

(* The parts above are invariants of signers and assessors together. *)
THEOREM SignedInvariant == Spec => []Signed
  <1>1. Signed /\ [Next]_vars => Signed'
    BY FunctionsKept, ProgressKept, ListsKept, StoredManifestsKept, HeldManifestsKept DEF Signed
  <1> QED
    BY <1>1, SignedInit, PTL DEF Spec

(* A signed manifest holds its run and files. *)
LEMMA HoldsRunAndFiles ==
    ASSUME NEW r, NEW files
    PROVE  Manifest(r, files).run = r /\ Manifest(r, files).files = files
  BY DEF Manifest, Sign, Unsigned, NoSignature

(* A listed file the gate has let through has the content of the list. *)
LEMMA ReadAsListed ==
    ASSUME NEW a \in Assessment, NEW path, NEW content, VerifyPayloads(a),
           FileChecksum(path, content) \in manifest[a].files, path.kind # "log"
    PROVE  payloads[a][path] = content
  <1> DEFINE f == FileChecksum(path, content)
  <1>1. f.path = path /\ f.sha256 = Hash(content)
    BY DEF FileChecksum
  <1>2. f \in ValidFiles(manifest[a])
    BY <1>1 DEF ValidFiles
  <1> HIDE DEF f
  <1>3. Hash(payloads[a][path]) = Hash(content)
    BY <1>1, <1>2 DEF VerifyPayloads
  <1> QED
    BY <1>3 DEF Hash

(* What the gate has let through is the input of one invocation, file by   *)
(* file, whatever other invocations have put over it since the manifest    *)
(* (GatekeeperValidation, signDirectory).                                  *)
THEOREM GateAdmitsOneInputAlways == Spec => []GateAdmitsOneInput
  <1>1. Signed => GateAdmitsOneInput
    <2> SUFFICES ASSUME Signed, NEW a \in Assessment, pc[a] \in Attesting,
                        NEW r, r = manifest[a].run
                 PROVE  /\ signPc[r] \in {"signed", "failed"}
                        /\ signDay[r] = day[a]
                        /\ \A f \in InputFiles(r) :
                             /\ payloads[a][FilePath(r, f)] = f.content
                             /\ payloads[a][SidecarPath(r, f)] = SidecarFor(r, f)
      BY DEF GateAdmitsOneInput
    <2>1. WholeInput(manifest[a], day[a]) /\ VerifyPayloads(a)
      BY DEF Signed, HeldManifests, BehindManifest
    <2>2. PICK q \in Run : /\ manifest[a] = Manifest(q, listed[q])
                           /\ signDay[q] = day[a]
                           /\ signPc[q] \in {"signed", "failed"}
                           /\ through[q] = Len(Input[q])
      BY <2>1 DEF WholeInput
    <2>3. q = r /\ manifest[a].files = listed[r]
      BY <2>2, HoldsRunAndFiles
    <2>4. ASSUME NEW f \in InputFiles(r)
          PROVE  /\ payloads[a][FilePath(r, f)] = f.content
                 /\ payloads[a][SidecarPath(r, f)] = SidecarFor(r, f)
      <3>1. PICK i \in 1..Len(Input[r]) : f = Input[r][i]
        BY <2>2, <2>3, InputAssumption DEF InputFiles
      <3>2. FilePath(r, f).kind # "log" /\ SidecarPath(r, f).kind # "log"
        BY <2>2, <2>3, <3>1, InputPaths DEF Signed
      <3>3. EntriesFor(r, f) \subseteq listed[r]
        BY <2>2, <2>3, <3>1 DEF Signed, Lists
      <3>4. /\ FileChecksum(FilePath(r, f), f.content) \in manifest[a].files
            /\ FileChecksum(SidecarPath(r, f), SidecarFor(r, f)) \in manifest[a].files
        BY <2>3, <3>3 DEF EntriesFor
      <3> QED
        BY <2>1, <3>2, <3>4, ReadAsListed
    <2> QED
      BY <2>2, <2>3, <2>4
  <1> QED
    BY <1>1, SignedInvariant, PTL
-----------------------------------------------------------------------------
(* The paths. *)

StoredPaths == DOMAIN store \subseteq Path

ReadPaths ==
    /\ pending \in [Assessment -> SUBSET Path]
    /\ \A a \in Assessment : DOMAIN payloads[a] \subseteq Path

(* Everything stored has a path of the store. *)
LEMMA StoredPathsKept ==
    ASSUME Functions, Progress, StoredPaths, [Next]_vars
    PROVE  StoredPaths'
  <1>1. CASE UNCHANGED store
    BY <1>1 DEF StoredPaths
  <1>2. ASSUME NEW path \in Path, NEW content, Stored(path, content)
        PROVE  StoredPaths'
    BY <1>2 DEF StoredPaths, Stored, WithEntry
  <1>3. ASSUME NEW r \in Run, SignNext(r) PROVE StoredPaths'
    BY <1>1, <1>2, <1>3, SignSteps, DueStored
  <1>4. ASSUME NEW a \in Assessment, AssessorNext(a) PROVE StoredPaths'
    BY <1>1, <1>2, <1>4, AssessmentStores
  <1> QED
    BY <1>1, <1>3, <1>4 DEF Next, Midnight, vars, ledgerVars

(* What an invocation has listed has a path of the store. *)
LEMMA ListedPaths ==
    ASSUME Functions, Progress, Lists, NEW r \in Run, NEW f \in listed[r]
    PROVE  f.path \in Path
  <1>1. PICK i \in 1..through[r] : f \in EntriesFor(r, Input[r][i])
    BY DEF Lists
  <1>2. i \in 1..Len(Input[r])
    BY InputAssumption DEF Progress
  <1> QED
    BY <1>1, <1>2, InputPaths DEF EntriesFor, FileChecksum

(* An assessment reads what its manifest lists. *)
LEMMA ReadPathsKept ==
    ASSUME Signed, ReadPaths, [Next]_vars
    PROVE  ReadPaths'
  <1>1. CASE UNCHANGED <<pending, payloads>>
    BY <1>1 DEF ReadPaths
  <1>2. ASSUME NEW a \in Assessment, LoadPolicies(a) PROVE ReadPaths'
    <2>1. WholeInput(manifest[a], day[a])
      BY <1>2 DEF LoadPolicies, Signed, HeldManifests, BehindManifest
    <2>2. PICK r \in Run : manifest[a] = Manifest(r, listed[r])
      BY <2>1 DEF WholeInput
    <2>3. \A f \in ValidFiles(manifest[a]) : f.path \in Path
      BY <2>2, HoldsRunAndFiles, ListedPaths DEF ValidFiles, Signed
    <2>4. /\ pending' = [pending EXCEPT ![a] = {f.path : f \in ValidFiles(manifest[a])}]
          /\ payloads' = payloads
      BY <1>2 DEF LoadPolicies
    <2> QED
      BY <2>3, <2>4 DEF ReadPaths
  <1>3. ASSUME NEW a \in Assessment, NEW p \in pending[a], ReadPayload(a, p) \/ ReadFails(a, p)
        PROVE  ReadPaths'
    <2>1. p \in Path /\ pending' = [pending EXCEPT ![a] = @ \ {p}]
      BY <1>3 DEF ReadPayload, ReadFails, ReadPaths
    <2>2. \/ payloads' = payloads
          \/ payloads' = [payloads EXCEPT ![a] = WithEntry(payloads[a], p, store[p])]
      BY <1>3 DEF ReadPayload, ReadFails
    <2>3. DOMAIN WithEntry(payloads[a], p, store[p]) = DOMAIN payloads[a] \cup {p}
      BY DEF WithEntry
    <2>4. \A b \in Assessment : DOMAIN payloads'[b] \subseteq Path
      BY <2>1, <2>2, <2>3 DEF ReadPaths, Signed, Functions
    <2> QED
      BY <2>1, <2>4 DEF ReadPaths
  <1>4. ASSUME NEW a \in Assessment, AssessorNext(a) PROVE ReadPaths'
    BY <1>1, <1>2, <1>3, <1>4 DEF AssessorNext, Assess, StartAssessment, ReadManifest, NoManifest,
       AssessmentFails, PassGate, Reject, Evaluate, SchemaDrift, WriteLedger, WriteVerdict,
       WriteResults, CrashAssessment, readVars
  <1> QED
    BY <1>1, <1>4 DEF Next, vars, assessorVars, readVars

(* Every variable keeps its type: whatever is stored, listed and read has  *)
(* a path of the store, and no invocation goes beyond its last file.       *)
THEOREM ByoTypeCorrect == Spec => []TypeOK
  <1>1. Init => StoredPaths /\ ReadPaths
    BY DEF Init, LedgerInit, AssessorInit, StoredPaths, ReadPaths
  <1>2. Signed /\ StoredPaths /\ ReadPaths /\ [Next]_vars => (StoredPaths /\ ReadPaths)'
    BY StoredPathsKept, ReadPathsKept DEF Signed
  <1>3. Signed /\ StoredPaths /\ ReadPaths => TypeOK
    <2> SUFFICES ASSUME Signed, StoredPaths, ReadPaths PROVE TypeOK
      OBVIOUS
    <2>1. ASSUME NEW r \in Run PROVE through[r] \in 0..Len(Input[r])
      <3>1. through[r] \in Nat /\ Len(Input[r]) \in Nat /\ through[r] <= Len(Input[r])
        BY InputAssumption DEF Signed, Progress
      <3> QED
        BY <3>1
    <2>2. \A r \in Run : \A f \in listed[r] : f.path \in Path
      BY ListedPaths DEF Signed
    <2> QED
      BY <2>1, <2>2 DEF TypeOK, Signed, Functions, Progress, StoredPaths, ReadPaths
  <1> QED
    BY <1>1, <1>2, <1>3, SignedInvariant, PTL DEF Spec

-----------------------------------------------------------------------------
(* What a lone invocation has delivered. *)

Holds(path, content) == Exists(path) /\ store[path] = content

(* File i of r and its sidecar are in the ledger. *)
HoldsFile(r, i) ==
    /\ Holds(FilePath(r, Input[r][i]), Input[r][i].content)
    /\ Holds(SidecarPath(r, Input[r][i]), SidecarFor(r, Input[r][i]))

(* The ledger holds what a lone invocation has put there: its manifest and, *)
(* unless they have each other's names, every file and sidecar.             *)
Delivered(r) ==
    /\ signPc[r] = "signed" => Holds(ManifestFile(signDay[r]), Manifest(r, listed[r]))
    /\ signPc[r] \in Signing \cup {"signed"} /\ ~Collides(r) =>
         /\ \A i \in 1..through[r] : HoldsFile(r, i)
         /\ signPc[r] = "sidecar" => Holds(FilePath(r, Due(r)), Due(r).content)

AllDelivered == \A r \in Run : Alone(r) => Delivered(r)

(* The paths of an input without collisions are all different. *)
LEMMA PathsApart ==
    ASSUME NEW r \in Run, ~Collides(r),
           NEW i \in 1..Len(Input[r]), NEW j \in 1..Len(Input[r])
    PROVE  /\ FilePath(r, Input[r][i]) # SidecarPath(r, Input[r][j])
           /\ i # j => /\ FilePath(r, Input[r][i]) # FilePath(r, Input[r][j])
                       /\ SidecarPath(r, Input[r][i]) # SidecarPath(r, Input[r][j])
  <1>1. DOMAIN Input[r] = 1..Len(Input[r])
    BY InputAssumption
  <1>2. Input[r][i] \in InputFiles(r) /\ Input[r][j] \in InputFiles(r)
    BY <1>1 DEF InputFiles
  <1>3. ASSUME i # j
        PROVE  Input[r][i].kind # Input[r][j].kind \/ Input[r][i].id # Input[r][j].id
    BY <1>1, <1>3, WalkAssumption
  <1>4. /\ Input[r][i].kind \in {"evidence", "csv", "provenance", "csv_prov"}
        /\ Input[r][j].kind \in {"evidence", "csv", "provenance", "csv_prov"}
    BY <1>1, InputAssumption DEF SidecarSuffix
  <1>5. SidecarSuffix[Input[r][i].kind] = SidecarSuffix[Input[r][j].kind]
          => Input[r][i].kind = Input[r][j].kind
    BY <1>4 DEF SidecarSuffix
  <1>6. ASSUME i # j
        PROVE  /\ FilePath(r, Input[r][i]) # FilePath(r, Input[r][j])
               /\ SidecarPath(r, Input[r][i]) # SidecarPath(r, Input[r][j])
    BY <1>3, <1>5, <1>6 DEF FilePath, SidecarPath, File
  <1> QED
    BY <1>2, <1>6 DEF Collides

(* An object stays until another one is put at its path. *)
LEMMA HoldsOn ==
    ASSUME NEW path, NEW content, Holds(path, content),
           \/ UNCHANGED store
           \/ \E p, c : Stored(p, c) /\ p # path
    PROVE  path \in DOMAIN store' /\ store'[path] = content
  BY DEF Holds, Exists, Stored, WithEntry

(* What is put is there. *)
LEMMA HoldsWhatIsPut ==
    ASSUME NEW path, NEW content, Stored(path, content)
    PROVE  path \in DOMAIN store' /\ store'[path] = content
  BY DEF Stored, WithEntry

(* Who is alone at a step past the start was alone before it. *)
LEMMA AloneBefore ==
    ASSUME Functions, Progress, [Next]_vars, NEW r \in Run, Alone(r)', signPc[r] # "idle"
    PROVE  Alone(r) /\ signDay'[r] = signDay[r]
  <1>1. CASE UNCHANGED signVars
    BY <1>1 DEF signVars, Alone
  <1>2. ASSUME NEW q \in Run, SignNext(q)
        PROVE  Alone(r) /\ signDay'[r] = signDay[r]
    <2>1. signDay'[r] = signDay[r]
      <3>1. CASE q = r
        BY <1>2, <3>1, SignSteps DEF FileDone
      <3>2. CASE q # r
        BY <1>2, <3>2, OtherSignings
      <3> QED
        BY <3>1, <3>2
    <2>2. ASSUME NEW s \in Run \ {r}
          PROVE  signPc[s] = "idle" \/ signDay[s] # signDay[r]
      <3>1. signPc'[s] = "idle" \/ signDay'[s] # signDay[r]
        BY <2>1 DEF Alone
      <3>2. CASE s # q
        BY <1>2, <3>1, <3>2, OtherSignings
      <3>3. CASE s = q
        <4>1. signPc[s] = "idle" \/ (signDay' = signDay /\ signPc'[s] # "idle")
          BY <1>2, <3>3, SignSteps DEF FileDone, ToStep, Functions
        <4> QED
          BY <3>1, <4>1
      <3> QED
        BY <3>2, <3>3
    <2> QED
      BY <2>1, <2>2 DEF Alone
  <1> QED
    BY <1>1, <1>2 DEF Next, vars

(* The steps of others leave what a lone invocation has put. *)
LEMMA OthersElsewhere ==
    ASSUME Functions, Progress, NEW r \in Run, Alone(r), signPc[r] # "idle",
           \/ \E q \in Run \ {r} : SignNext(q)
           \/ \E a \in Assessment : AssessorNext(a)
    PROVE  \/ UNCHANGED store
           \/ \E p, c : Stored(p, c) /\ (p.day # signDay[r] \/ p.kind \in Assessed)
  <1>1. ASSUME NEW q \in Run \ {r}, SignNext(q), StoreDue(q)
        PROVE  \E p, c : Stored(p, c) /\ p.day # signDay[r]
    <2>1. signDay[q] # signDay[r]
      BY <1>1 DEF Alone, StoreDue
    <2> QED
      BY <1>1, <2>1, DueStored
  <1>2. ASSUME NEW q \in Run \ {r}, SignNext(q)
        PROVE  UNCHANGED store \/ StoreDue(q)
    BY <1>2, SignSteps
  <1> QED
    BY <1>1, <1>2, AssessmentStores

(* A step leaves the names of a lone invocation's objects. *)
LEMMA NamesStay ==
    ASSUME NEW r \in Run, signDay'[r] = signDay[r],
           (* what Delivered says of the next state, in the names of this one *)
           signPc'[r] = "signed" =>
             /\ ManifestFile(signDay[r]) \in DOMAIN store'
             /\ store'[ManifestFile(signDay[r])] = Manifest(r, listed'[r]),
           signPc'[r] \in Signing \cup {"signed"} /\ ~Collides(r) =>
             /\ \A i \in 1..through'[r] :
                  /\ FilePath(r, Input[r][i]) \in DOMAIN store'
                  /\ store'[FilePath(r, Input[r][i])] = Input[r][i].content
                  /\ SidecarPath(r, Input[r][i]) \in DOMAIN store'
                  /\ store'[SidecarPath(r, Input[r][i])] = SidecarFor(r, Input[r][i])
             /\ signPc'[r] = "sidecar" =>
                  /\ FilePath(r, Input[r][through'[r] + 1]) \in DOMAIN store'
                  /\ store'[FilePath(r, Input[r][through'[r] + 1])]
                       = Input[r][through'[r] + 1].content
    PROVE  Delivered(r)'
  <1>1. \A f : /\ FilePath(r, f)' = File(signDay[r], f.kind, f.id)
               /\ SidecarPath(r, f)' = File(signDay[r], SidecarSuffix[f.kind], f.id)
    BY DEF FilePath, SidecarPath
  <1>2. \A f : /\ FilePath(r, f) = File(signDay[r], f.kind, f.id)
               /\ SidecarPath(r, f) = File(signDay[r], SidecarSuffix[f.kind], f.id)
    BY DEF FilePath, SidecarPath
  <1>3. Collides(r)' <=> Collides(r)
    BY DEF Collides, FilePath, SidecarPath, InputFiles
  <1>4. \A i \in 1..through'[r] : signPc'[r] \in Signing \cup {"signed"} /\ ~Collides(r) => HoldsFile(r, i)'
    BY DEF HoldsFile, Holds, Exists, FilePath, SidecarPath, SidecarFor
  <1>5. signPc'[r] = "sidecar" /\ ~Collides(r) => Holds(FilePath(r, Due(r)), Due(r).content)'
    BY DEF Signing, Holds, Exists, Due, FilePath
  <1>6. signPc'[r] = "signed" => Holds(ManifestFile(signDay[r]), Manifest(r, listed[r]))'
    BY DEF Holds, Exists, ManifestFile, Manifest, Sign, Unsigned
  <1> QED
    BY <1>3, <1>4, <1>5, <1>6 DEF Delivered

(* What others do leaves what a lone invocation has delivered. *)
LEMMA DeliveredWithOthers ==
    ASSUME Functions, Progress, NEW r \in Run, Alone(r), signPc[r] # "idle", Delivered(r),
           /\ signPc'[r] = signPc[r] /\ signDay'[r] = signDay[r]
           /\ through'[r] = through[r] /\ listed'[r] = listed[r],
           \/ UNCHANGED store
           \/ \E p, c : Stored(p, c) /\ (p.day # signDay[r] \/ p.kind \in Assessed)
    PROVE  Delivered(r)'
  <1>1. ASSUME NEW path, NEW content, Holds(path, content), path.day = signDay[r],
               path.kind \notin Assessed
        PROVE  path \in DOMAIN store' /\ store'[path] = content
    BY <1>1, HoldsOn
  <1>2. /\ ManifestFile(signDay[r]).day = signDay[r]
        /\ ManifestFile(signDay[r]).kind \notin Assessed
    BY DEF ManifestFile, File, Assessed
  <1>3. /\ through[r] \in Nat /\ Len(Input[r]) \in Nat /\ through[r] <= Len(Input[r])
        /\ signPc[r] = "sidecar" => through[r] < Len(Input[r])
    BY InputAssumption DEF Progress
  <1>4. ASSUME NEW i \in 1..through[r], HoldsFile(r, i)
        PROVE  /\ FilePath(r, Input[r][i]) \in DOMAIN store'
               /\ store'[FilePath(r, Input[r][i])] = Input[r][i].content
               /\ SidecarPath(r, Input[r][i]) \in DOMAIN store'
               /\ store'[SidecarPath(r, Input[r][i])] = SidecarFor(r, Input[r][i])
    <2>1. i \in 1..Len(Input[r])
      BY <1>3
    <2> QED
      BY <1>1, <1>4, <2>1, InputPaths DEF HoldsFile
  <1>5. ASSUME signPc[r] = "sidecar", Holds(FilePath(r, Due(r)), Due(r).content)
        PROVE  /\ FilePath(r, Input[r][through[r] + 1]) \in DOMAIN store'
               /\ store'[FilePath(r, Input[r][through[r] + 1])] = Input[r][through[r] + 1].content
    <2>1. through[r] + 1 \in 1..Len(Input[r])
      BY <1>3, <1>5
    <2> QED
      BY <1>1, <1>5, <2>1, InputPaths DEF Due
  <1>6. signPc[r] = "signed" =>
          /\ ManifestFile(signDay[r]) \in DOMAIN store'
          /\ store'[ManifestFile(signDay[r])] = Manifest(r, listed[r])
    BY <1>1, <1>2 DEF Delivered
  <1> QED
    BY <1>4, <1>5, <1>6, NamesStay DEF Delivered

(* Its own steps put one object after the other. *)
LEMMA DeliveredByItself ==
    ASSUME Functions, Progress, NEW r \in Run, signPc[r] # "idle", Delivered(r), SignNext(r)
    PROVE  Delivered(r)'
  <1>1. /\ through[r] \in Nat /\ Len(Input[r]) \in Nat /\ through[r] <= Len(Input[r])
        /\ signPc[r] \in {"file", "sidecar"} =>
             through[r] < Len(Input[r]) /\ through[r] + 1 \in 1..Len(Input[r])
    BY InputAssumption DEF Progress
  <1>2. \A i \in 1..through[r] : i \in 1..Len(Input[r]) /\ i # through[r] + 1
    BY <1>1
  <1>3. ASSUME NEW path, NEW content, Stored(path, content), ~Collides(r),
               NEW i \in 1..through[r], HoldsFile(r, i),
               path # FilePath(r, Input[r][i]), path # SidecarPath(r, Input[r][i])
        PROVE  /\ FilePath(r, Input[r][i]) \in DOMAIN store'
               /\ store'[FilePath(r, Input[r][i])] = Input[r][i].content
               /\ SidecarPath(r, Input[r][i]) \in DOMAIN store'
               /\ store'[SidecarPath(r, Input[r][i])] = SidecarFor(r, Input[r][i])
    BY <1>3, HoldsOn DEF HoldsFile
  <1>4. CASE PutFile(r)
    <2>1. /\ Stored(FilePath(r, Due(r)), Due(r).content) /\ signPc[r] = "file"
          /\ signPc'[r] = "sidecar" /\ UNCHANGED <<signDay, through, listed>>
      BY <1>4 DEF PutFile, ToStep, Functions
    <2>2. ASSUME ~Collides(r), NEW i \in 1..through[r]
          PROVE  /\ FilePath(r, Due(r)) # FilePath(r, Input[r][i])
                 /\ FilePath(r, Due(r)) # SidecarPath(r, Input[r][i])
                 /\ HoldsFile(r, i)
      BY <1>1, <1>2, <2>1, <2>2, PathsApart DEF Due, Delivered, Signing
    <2>3. /\ FilePath(r, Due(r)) \in DOMAIN store'
          /\ store'[FilePath(r, Due(r))] = Due(r).content
      BY <2>1, HoldsWhatIsPut
    <2> QED
      BY <1>3, <2>1, <2>2, <2>3, NamesStay DEF Due
  <1>5. CASE PutSidecar(r)
    <2>1. /\ Stored(SidecarPath(r, Due(r)), SidecarFor(r, Due(r))) /\ signPc[r] = "sidecar"
          /\ signPc'[r] \in {"file", "manifest"} /\ UNCHANGED signDay
          /\ through'[r] = through[r] + 1
      BY <1>5 DEF PutSidecar, FileDone, ToStep, Functions, Progress
    <2>2. ASSUME ~Collides(r), NEW i \in 1..through[r]
          PROVE  /\ SidecarPath(r, Due(r)) # FilePath(r, Input[r][i])
                 /\ SidecarPath(r, Due(r)) # SidecarPath(r, Input[r][i])
                 /\ HoldsFile(r, i)
      BY <1>1, <1>2, <2>1, <2>2, PathsApart DEF Due, Delivered, Signing
    <2>3. /\ SidecarPath(r, Due(r)) \in DOMAIN store'
          /\ store'[SidecarPath(r, Due(r))] = SidecarFor(r, Due(r))
      BY <2>1, HoldsWhatIsPut
    <2>4. ASSUME ~Collides(r)
          PROVE  /\ FilePath(r, Due(r)) \in DOMAIN store'
                 /\ store'[FilePath(r, Due(r))] = Due(r).content
      <3>1. Holds(FilePath(r, Due(r)), Due(r).content)
        BY <2>1, <2>4 DEF Delivered, Signing
      <3>2. SidecarPath(r, Due(r)) # FilePath(r, Due(r))
        BY <1>1, <2>1, <2>4, PathsApart DEF Due
      <3> QED
        BY <2>1, <3>1, <3>2, HoldsOn
    <2>5. 1..through[r] + 1 = (1..through[r]) \cup {through[r] + 1}
      BY <1>1
    <2> QED
      BY <1>3, <2>1, <2>2, <2>3, <2>4, <2>5, NamesStay DEF Due
  <1>6. CASE PutSignedManifest(r)
    <2>1. /\ Stored(ManifestFile(signDay[r]), Manifest(r, listed[r])) /\ signPc[r] = "manifest"
          /\ signPc'[r] = "signed" /\ UNCHANGED <<signDay, through, listed>>
      BY <1>6 DEF PutSignedManifest, ToStep, Functions
    <2>2. ManifestFile(signDay[r]).kind = "manifest"
      BY DEF ManifestFile, File
    <2>3. ASSUME ~Collides(r), NEW i \in 1..through[r]
          PROVE  /\ ManifestFile(signDay[r]) # FilePath(r, Input[r][i])
                 /\ ManifestFile(signDay[r]) # SidecarPath(r, Input[r][i])
                 /\ HoldsFile(r, i)
      BY <1>2, <2>1, <2>2, <2>3, InputPaths DEF Delivered, Signing
    <2>4. /\ ManifestFile(signDay[r]) \in DOMAIN store'
          /\ store'[ManifestFile(signDay[r])] = Manifest(r, listed[r])
      BY <2>1, HoldsWhatIsPut
    <2> QED
      BY <1>3, <2>1, <2>3, <2>4, NamesStay
  <1>7. CASE SigningFails(r)
    BY <1>7 DEF SigningFails, ToStep, Functions, Delivered, Signing
  <1> QED
    BY <1>4, <1>5, <1>6, <1>7 DEF SignNext, StartSigning, RefuseSigning

(* While nobody else writes to its day, an invocation's objects stay. *)
LEMMA DeliveredKept ==
    ASSUME Functions, Progress, AllDelivered, [Next]_vars, NEW r \in Run, Alone(r)'
    PROVE  Delivered(r)'
  <1>1. CASE signPc[r] = "idle"
    <2>1. signPc'[r] \in {"idle", "file", "failed"} /\ through'[r] = 0
      <3>1. CASE SignNext(r)
        BY <1>1, <3>1, SignSteps DEF Progress, Signing
      <3>2. CASE signPc'[r] = signPc[r] /\ through'[r] = through[r]
        BY <1>1, <3>2 DEF Progress
      <3> QED
        BY <3>1, <3>2, OtherSignings DEF Next, vars, signVars
    <2>2. 1..through'[r] = {}
      BY <2>1
    <2> QED
      BY <2>1, <2>2 DEF Delivered
  <1>2. CASE signPc[r] # "idle"
    <2>1. Alone(r) /\ signDay'[r] = signDay[r] /\ Delivered(r)
      BY <1>2, AloneBefore DEF AllDelivered
    <2>2. CASE SignNext(r)
      BY <1>2, <2>1, <2>2, DeliveredByItself
    <2>3. ASSUME NEW q \in Run \ {r}, SignNext(q)
          PROVE  Delivered(r)'
      BY <1>2, <2>1, <2>3, OthersElsewhere, OtherSignings, DeliveredWithOthers
    <2>4. ASSUME NEW a \in Assessment, AssessorNext(a), UNCHANGED signVars
          PROVE  Delivered(r)'
      BY <1>2, <2>1, <2>4, OthersElsewhere, DeliveredWithOthers DEF signVars
    <2>5. CASE UNCHANGED <<store, signVars>>
      BY <1>2, <2>1, <2>5, DeliveredWithOthers DEF signVars
    <2> QED
      BY <2>2, <2>3, <2>4, <2>5 DEF Next, Midnight, vars, ledgerVars
  <1> QED
    BY <1>1, <1>2

-----------------------------------------------------------------------------
(* What the verifier makes of it. *)

(* A manifest and a sidecar have the signature of the collector's key. *)
LEMMA SignedVerifies ==
    ASSUME NEW r, NEW files, NEW f
    PROVE  /\ Verifies(Manifest(r, files), CollectorKey)
           /\ Verifies(SidecarFor(r, f), CollectorKey)
  BY DEF Verifies, Manifest, SidecarFor, Sign, Unsigned, NoSignature

(* What jula-verify says of a directory whose manifest is that of r. *)
LEMMA VerifierFinds ==
    ASSUME Functions, Progress, Lists, NEW r \in Run, signPc[r] = "signed", Delivered(r)
    PROVE  VerifyChain(signDay[r], FALSE) <=> ~Collides(r) /\ SidecarsSigned(r)
  <1> DEFINE d == signDay[r]
  <1>1. /\ through[r] = Len(Input[r]) /\ DOMAIN Input[r] = 1..Len(Input[r])
    BY InputAssumption DEF Progress
  <1>2. Exists(ManifestFile(d)) /\ store[ManifestFile(d)] = Manifest(r, listed[r])
    BY DEF Delivered, Holds
  <1>3. VerifyManifest(d) /\ EvidenceFiles(d) = listed[r]
    BY <1>2, SignedVerifies, HoldsRunAndFiles DEF VerifyManifest, EvidenceFiles
  <1>4. \A x : x \in EvidenceFiles(d) <=>
          \E i \in 1..Len(Input[r]) : x \in EntriesFor(r, Input[r][i])
    BY <1>1, <1>3 DEF Lists
  <1> HIDE DEF d
  <1>5. ASSUME VerifyChain(d, FALSE), NEW i \in 1..Len(Input[r])
        PROVE  /\ store[FilePath(r, Input[r][i])] = Input[r][i].content
               /\ store[SidecarPath(r, Input[r][i])] = SidecarFor(r, Input[r][i])
               /\ FilePath(r, Input[r][i]).kind \in SidecarKind =>
                    Verifies(store[FilePath(r, Input[r][i])], CollectorKey)
    <2>1. /\ FileChecksum(FilePath(r, Input[r][i]), Input[r][i].content) \in EvidenceFiles(d)
          /\ FileChecksum(SidecarPath(r, Input[r][i]), SidecarFor(r, Input[r][i]))
               \in EvidenceFiles(d)
      BY <1>4 DEF EntriesFor
    <2>2. ASSUME NEW path, NEW content, FileChecksum(path, content) \in EvidenceFiles(d)
          PROVE  /\ store[path] = content
                 /\ path.kind \in SidecarKind => Verifies(store[path], CollectorKey)
      BY <1>5, <2>2 DEF VerifyChain, VerifyFileHashes, VerifyProvenances, FileChecksum, Hash
    <2> QED
      BY <2>1, <2>2
  <1>6. ASSUME VerifyChain(d, FALSE) PROVE ~Collides(r) /\ SidecarsSigned(r)
    <2>1. ASSUME NEW i \in 1..Len(Input[r]), NEW j \in 1..Len(Input[r])
          PROVE  FilePath(r, Input[r][i]) # SidecarPath(r, Input[r][j])
      <3>1. Input[r][i].content # SidecarFor(r, Input[r][j])
        BY <1>1, WalkAssumption
      <3> QED
        BY <1>5, <1>6, <3>1
    <2>2. ASSUME NEW i \in 1..Len(Input[r]), Input[r][i].kind \in SidecarKind
          PROVE  Verifies(Input[r][i].content, CollectorKey)
      <3>1. FilePath(r, Input[r][i]).kind = Input[r][i].kind
        BY DEF FilePath, File
      <3> QED
        BY <1>5, <1>6, <2>2, <3>1
    <2> QED
      BY <1>1, <2>1, <2>2 DEF Collides, SidecarsSigned, InputFiles
  <1>7. ASSUME ~Collides(r), SidecarsSigned(r) PROVE VerifyChain(d, FALSE)
    <2>1. ASSUME NEW x \in EvidenceFiles(d)
          PROVE  /\ Exists(x.path) /\ Hash(store[x.path]) = x.sha256
                 /\ x.path.kind \in SidecarKind => Verifies(store[x.path], CollectorKey)
      <3>1. PICK i \in 1..Len(Input[r]) : x \in EntriesFor(r, Input[r][i])
        BY <1>4
      <3>2. HoldsFile(r, i)
        BY <1>1, <1>7, <3>1 DEF Delivered
      <3>3. CASE x = FileChecksum(FilePath(r, Input[r][i]), Input[r][i].content)
        <4>1. /\ x.path = FilePath(r, Input[r][i]) /\ x.sha256 = Hash(Input[r][i].content)
              /\ x.path.kind = Input[r][i].kind
          BY <3>3 DEF FileChecksum, FilePath, File
        <4>2. Input[r][i] \in InputFiles(r)
          BY <1>1 DEF InputFiles
        <4> QED
          BY <1>7, <3>2, <4>1, <4>2 DEF HoldsFile, Holds, SidecarsSigned
      <3>4. CASE x = FileChecksum(SidecarPath(r, Input[r][i]), SidecarFor(r, Input[r][i]))
        <4>1. /\ x.path = SidecarPath(r, Input[r][i])
              /\ x.sha256 = Hash(SidecarFor(r, Input[r][i]))
          BY <3>4 DEF FileChecksum
        <4> QED
          BY <3>2, <4>1, SignedVerifies DEF HoldsFile, Holds
      <3> QED
        BY <3>1, <3>3, <3>4 DEF EntriesFor
    <2> QED
      BY <1>3, <2>1 DEF VerifyChain, VerifyFileHashes, VerifyProvenances
  <1> QED
    BY <1>6, <1>7 DEF d

(* A directory that was signed to the end, and that nobody else wrote to,  *)
(* is one that jula-verify accepts unless its names collide or a file only *)
(* has the name of a sidecar; then it never does (signDirectory against    *)
(* verifyChain).                                                           *)
THEOREM SignedDirectoryVerifiesAlways == Spec => []SignedDirectoryVerifies
  <1>1. Init => AllDelivered
    BY DEF Init, SignInit, AllDelivered, Delivered, Signing
  <1>2. Signed /\ AllDelivered /\ [Next]_vars => AllDelivered'
    <2> SUFFICES ASSUME Signed, AllDelivered, [Next]_vars, NEW r \in Run, Alone(r)'
                 PROVE  Delivered(r)'
      BY DEF AllDelivered
    <2> QED
      BY DeliveredKept DEF Signed
  <1>3. Signed /\ AllDelivered => SignedDirectoryVerifies
    BY VerifierFinds DEF Signed, AllDelivered, SignedDirectoryVerifies
  <1> QED
    BY <1>1, <1>2, <1>3, SignedInvariant, PTL DEF Spec

(* What jula-verify accepts is the whole input of one invocation, file by  *)
(* file with its sidecar, whatever other invocations have put into the     *)
(* directory before and since (verifyChain against signDirectory).         *)
THEOREM VerifiedIsOneWholeInputAlways == Spec => []VerifiedIsOneWholeInput
  <1>1. ASSUME Signed, NEW d \in Day, VerifyChain(d, FALSE), NEW r \in Run,
               store[ManifestFile(d)] = Manifest(r, listed[r]),
               through[r] = Len(Input[r]), NEW f \in InputFiles(r)
        PROVE  /\ store[FilePath(r, f)] = f.content
               /\ store[SidecarPath(r, f)] = SidecarFor(r, f)
    <2>1. EvidenceFiles(d) = listed[r]
      BY <1>1, HoldsRunAndFiles DEF EvidenceFiles
    <2>2. PICK i \in 1..Len(Input[r]) : f = Input[r][i]
      BY InputAssumption DEF InputFiles
    <2>3. EntriesFor(r, f) \subseteq EvidenceFiles(d)
      BY <1>1, <2>1, <2>2 DEF Signed, Lists
    <2>4. ASSUME NEW path, NEW content, FileChecksum(path, content) \in EvidenceFiles(d)
          PROVE  store[path] = content
      BY <1>1, <2>4 DEF VerifyChain, VerifyFileHashes, FileChecksum, Hash
    <2> QED
      BY <2>3, <2>4 DEF EntriesFor
  <1>2. ASSUME Signed, NEW d \in Day, VerifyChain(d, FALSE)
        PROVE  \E r \in Run : /\ store[ManifestFile(d)] = Manifest(r, listed[r])
                              /\ signDay[r] = d
                              /\ through[r] = Len(Input[r])
    <2>1. ManifestFile(d) \in DOMAIN store
      BY <1>2 DEF VerifyChain, VerifyManifest, Exists
    <2> QED
      BY <1>2, <2>1 DEF Signed, StoredManifests, WholeInput
  <1>3. Signed => VerifiedIsOneWholeInput
    <2> SUFFICES ASSUME Signed, NEW d \in Day, VerifyChain(d, FALSE)
                 PROVE  \E r \in Run :
                          /\ signDay[r] = d
                          /\ store[ManifestFile(d)].run = r
                          /\ \A f \in InputFiles(r) :
                               /\ store[FilePath(r, f)] = f.content
                               /\ store[SidecarPath(r, f)] = SidecarFor(r, f)
      BY DEF VerifiedIsOneWholeInput
    <2>1. PICK r \in Run : /\ store[ManifestFile(d)] = Manifest(r, listed[r])
                           /\ signDay[r] = d
                           /\ through[r] = Len(Input[r])
      BY <1>2
    <2>2. store[ManifestFile(d)].run = r
      BY <2>1, HoldsRunAndFiles
    <2> QED
      BY <1>1, <2>1, <2>2
  <1> QED
    BY <1>3, SignedInvariant, PTL
=============================================================================
