------------------------------- MODULE Import -------------------------------
(***************************************************************************)
(* The import command (governor/cmd/import/main.go): it reads a catalog of *)
(* controls and has the AI turn each of them into a requirement, unless    *)
(* requirements.csv has one for the control and the provider already.      *)
(*                                                                         *)
(* A catalog is the sequence of control IDs that parsing and               *)
(* --filter-group leave; formats and tarballs are ways in which loading it *)
(* may fail.                                                               *)
(***************************************************************************)
EXTENDS Failover, Requirements

CONSTANTS
    Active,         \* active_providers of workspace.yaml
    Catalogs,       \* the catalogs that may be imported
    Extractions     \* what the AI may answer

ASSUME ImportAssumption ==
    /\ Active \subseteq Provider
    /\ \A c \in Catalogs : c \in Seq(Control)

(* RequirementExtraction: the provider the AI names, its Status, and       *)
(* whether Parameter_Field is N/A or Confidence or Operator void.          *)
Extraction == [provider : Provider, status : {"", "APPROVED", "MANUAL_AUDIT"},
               noField : BOOLEAN, void : BOOLEAN]

ASSUME ExtractionsAssumption == Extractions \subseteq Extraction

VARIABLES
    provider,   \* --provider, if it is active
    catalog,    \* the catalog entries
    next,       \* the entry that is triaged
    processed,  \* processedControls: control and provider
    missed      \* history: the entries that left no row, or not a whole one

importVars == <<provider, catalog, next, processed, missed>>
triageVars == <<next, missed>>

(* No --provider, or one that workspace.yaml does not enable. *)
NoProvider == "none"

ImportInit ==
    /\ provider = NoProvider
    /\ catalog = <<>>
    /\ next = 1
    /\ processed = {}
    /\ missed = {}

-----------------------------------------------------------------------------
(* initializeImport: --reset removes the file before anything can fail.    *)
StartImport(p, c, reset) ==
    /\ Start("import")
    /\ provider' = p
    /\ catalog' = c
    /\ IF reset
       THEN header' = "absent" /\ lines' = <<>> /\ cut' = FALSE
       ELSE UNCHANGED fileVars
    /\ UNCHANGED <<callVars, next, processed, missed>>

(* parseIdempotencyRecords: without a header there are no columns. *)
Recorded ==
    IF header = "present"
    THEN {<<lines[i].control, lines[i].provider>> : i \in DOMAIN lines}
    ELSE {}

(* Fault: the provider of a row is not part of its key. *)
LoadIdempotencyStateByControl ==
    /\ At("import", "start")
    /\ Configured # {}
    /\ IF header = "absent"
       THEN header' \in {"empty", "present"} /\ processed' = {}
       ELSE /\ Readable
            /\ processed' = {<<k[1], NoProvider>> : k \in Recorded}
            /\ UNCHANGED header
    /\ Goto("catalog")
    /\ UNCHANGED <<lines, cut, callVars, provider, catalog, triageVars>>

(* initializeIdempotencyFile does not look at the error of Flush either.   *)
LoadIdempotencyState ==
    /\ At("import", "start")
    /\ Configured # {}
    /\ IF header = "absent"
       THEN header' \in {"empty", "present"} /\ processed' = {}
       ELSE Readable /\ processed' = Recorded /\ UNCHANGED header
    /\ Goto("catalog")
    /\ UNCHANGED <<lines, cut, callVars, provider, catalog, triageVars>>

(* The hash of a local CSV catalog is also written to a file of its own,   *)
(* which no command reads.                                                 *)
LoadCatalogEntries ==
    /\ At("import", "catalog")
    /\ Goto("rows")
    /\ UNCHANGED <<fileVars, callVars, importVars>>

(* --catalog-url, or the release of the registry: http.Get, which has no   *)
(* timeout.                                                                *)
BeginDownload ==
    /\ At("import", "catalog")
    /\ Goto("downloading")
    /\ UNCHANGED <<fileVars, callVars, importVars>>

CatalogDownloaded ==
    /\ At("import", "downloading")
    /\ Goto("rows")
    /\ UNCHANGED <<fileVars, callVars, importVars>>

(* What is forgotten when the process ends. *)
ForgetImport ==
    /\ provider' = NoProvider
    /\ catalog' = <<>>
    /\ next' = 1
    /\ processed' = {}
    /\ missed' = {}

(* No AI endpoint, no workspace, no prompt, or an unreadable file:         *)
(* log.Fatal.                                                              *)
ImportRefused ==
    /\ At("import", "start")
    /\ End
    /\ ForgetImport
    /\ UNCHANGED <<fileVars, callVars>>

(* The catalog is not there, is not the one of the registry, or does not   *)
(* parse: log.Fatal, after the file was created.                           *)
CatalogRefused ==
    /\ At("import", "catalog") \/ At("import", "downloading")
    /\ End
    /\ ForgetImport
    /\ UNCHANGED <<fileVars, callVars>>

-----------------------------------------------------------------------------
Entry == catalog[next]
Triaging == At("import", "rows") /\ next <= Len(catalog)

ToNext(s, hasRow) ==
    /\ next' = next + 1
    /\ missed' = IF hasRow THEN missed ELSE missed \cup {next}
    /\ Goto(s)
    /\ UNCHANGED <<provider, catalog, processed>>

Skippable ==
    \/ <<Entry, provider>> \in processed
    \/ provider = NoProvider

(* Already triaged, or no provider to ask for. *)
SkipEntry ==
    /\ Triaging
    /\ Skippable
    /\ ToNext("rows", TRUE)
    /\ UNCHANGED <<fileVars, callVars>>

AskForRequirement ==
    /\ Triaging
    /\ ~Skippable
    /\ BeginCall
    /\ Goto("asking")
    /\ UNCHANGED <<fileVars, importVars>>

(* The provider of the command replaces the one the AI named, except in    *)
(* what the AI calls a manual control; the status is the AI's.             *)
RowFor(x) ==
    LET manual == x.status = "MANUAL_AUDIT" \/ x.noField
    IN  [control  |-> Entry,
         provider |-> IF manual THEN x.provider ELSE provider,
         status   |-> IF x.noField \/ x.void THEN "MANUAL_AUDIT"
                      ELSE IF x.status = "" THEN "PENDING" ELSE x.status,
         run      |-> runs,
         asked    |-> provider]

RecordRequirement(x) ==
    /\ At("import", "asking")
    /\ call = "answered"
    /\ WriteRow(RowFor(x))
    /\ ToNext("rows", lines' # lines /\ ~cut')
    /\ EndCall

(* Fault: the first control that fails ends the import. *)
TriageFailureEndsImport ==
    /\ At("import", "asking")
    /\ call \in {"answered", "failed"}
    /\ Goto("done")
    /\ EndCall
    /\ UNCHANGED <<fileVars, importVars>>

(* Fault: a control that fails is tried again. *)
TriageFailureRepeats ==
    /\ At("import", "asking")
    /\ call \in {"answered", "failed"}
    /\ Goto("rows")
    /\ EndCall
    /\ UNCHANGED <<fileVars, importVars>>

(* All tiers failed, the answer is not JSON, or the file cannot be opened. *)
TriageFails ==
    /\ At("import", "asking")
    /\ call \in {"answered", "failed"}
    /\ ToNext("rows", FALSE)
    /\ EndCall
    /\ UNCHANGED fileVars

ImportDone ==
    /\ At("import", "rows")
    /\ next > Len(catalog)
    /\ Goto("done")
    /\ UNCHANGED <<fileVars, callVars, importVars>>

ImportExits ==
    /\ At("import", "done")
    /\ End
    /\ ForgetImport
    /\ UNCHANGED <<fileVars, callVars>>

ImportStep ==
    \/ LoadIdempotencyState
    \/ LoadCatalogEntries
    \/ BeginDownload
    \/ CatalogDownloaded
    \/ ImportRefused
    \/ CatalogRefused
    \/ SkipEntry
    \/ AskForRequirement
    \/ \E x \in Extractions : RecordRequirement(x)
    \/ TriageFails
    \/ ImportDone
    \/ ImportExits

ImportTypeOK ==
    /\ provider \in Active \cup {NoProvider}
    /\ catalog \in Catalogs \cup {<<>>}
    /\ next \in 1..Len(catalog) + 1
    /\ processed \subseteq Control \X Provider
    /\ missed \subseteq 1..Len(catalog)

-----------------------------------------------------------------------------
(* The rows that the import has put under its own provider. *)
Automated(row) == row # Garbled /\ row.provider = row.asked

(* A control is not asked for twice: two rows of one control for one       *)
(* provider, each from an import for that provider, are of the same        *)
(* import, whose catalog lists the control twice.  This holds as long as   *)
(* the file has its header, however many imports were killed on the way.   *)
TriagedOnce ==
    header = "present" =>
        \A i, j \in DOMAIN lines :
            /\ Automated(lines[i])
            /\ Automated(lines[j])
            /\ lines[i].control = lines[j].control
            /\ lines[i].provider = lines[j].provider
            => lines[i].run = lines[j].run

(* An import that is done, also one that goes on where others died, has    *)
(* left a row for every control of its catalog, of its provider or from an *)
(* import for it, except those whose call or write failed in it, or a file *)
(* that the next import refuses.                                           *)
CompletedImportCovers ==
    At("import", "done") /\ provider # NoProvider =>
        \/ ~Readable
        \/ \A n \in DOMAIN catalog \ missed :
               \E i \in DOMAIN lines :
                   /\ lines[i].control = catalog[n]
                   /\ provider \in {lines[i].provider, lines[i].asked}
=============================================================================
