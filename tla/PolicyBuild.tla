---------------------------- MODULE PolicyBuild -----------------------------
(***************************************************************************)
(* The build and translate commands (governor/cmd/build and translate):    *)
(* policies from approved requirements, and a translator from a sample,    *)
(* both written by the AI.  A policy is the row it was generated from.     *)
(* os.WriteFile truncates the file before it writes, so one whose write    *)
(* failed, or that of a process that was killed, is empty or cut: Torn.    *)
(***************************************************************************)
EXTENDS Failover, Requirements

CONSTANTS
    FileOf          \* the file of a control's policy: sanitizeFilename

ASSUME BuildAssumption == DOMAIN FileOf = Control

(* A record, as a row is one. *)
Torn == [torn |-> TRUE]

VARIABLES
    policies,   \* policies/rules: the row each file was generated from
    translators,\* engine/translators: the file of the sample
    row,        \* the line of requirements.csv that build is at
    begun,      \* history: the lines for which this build opened the file
    generated   \* history: the lines whose policies it reports as saved

buildVars == <<policies, translators, row, begun, generated>>

BuildInit ==
    /\ policies = [f \in {} |-> Garbled]
    /\ translators = "absent"
    /\ row = 1
    /\ begun = {}
    /\ generated = {}

ForgetBuild == row' = 1 /\ begun' = {} /\ generated' = {}

Approved(i) == IsRow(i) /\ lines[i].status = "APPROVED"

-----------------------------------------------------------------------------
StartBuild ==
    /\ Start("build")
    /\ UNCHANGED <<fileVars, callVars, buildVars>>

(* runBuild up to its loop; the columns it needs are those of the header.  *)
ReadHeader ==
    /\ At("build", "start")
    /\ Configured # {}
    /\ header = "present"
    /\ Goto("rows")
    /\ UNCHANGED <<fileVars, callVars, buildVars>>

(* No AI endpoint, workspace, prompt, ledger, or column of it. *)
BuildRefused ==
    /\ At("build", "start")
    /\ End
    /\ ForgetBuild
    /\ UNCHANGED <<fileVars, callVars, policies, translators>>

ToNextRow ==
    /\ row' = row + 1
    /\ Goto("rows")
    /\ UNCHANGED <<fileVars, translators>>

(* A line with other fields than the header, or not APPROVED. *)
SkipRow ==
    /\ At("build", "rows")
    /\ row <= Len(lines)
    /\ ~Approved(row)
    /\ ToNextRow
    /\ UNCHANGED <<callVars, policies, begun, generated>>

AskForPolicy ==
    /\ At("build", "rows")
    /\ row <= Len(lines)
    /\ Approved(row)
    /\ BeginCall
    /\ Goto("asking")
    /\ UNCHANGED <<fileVars, buildVars>>

PolicyFile == FileOf[lines[row].control]

Holds(policy) ==
    policies' = [f \in DOMAIN policies \cup {PolicyFile} |->
                   IF f = PolicyFile THEN policy ELSE policies[f]]

(* All tiers failed, or the file cannot be opened. *)
PolicyFails ==
    /\ At("build", "asking")
    /\ call \in {"answered", "failed"}
    /\ ToNextRow
    /\ EndCall
    /\ UNCHANGED <<policies, begun, generated>>

(* os.WriteFile creates the file, or empties it. *)
OpenPolicyFile ==
    /\ At("build", "asking")
    /\ call = "answered"
    /\ Holds(Torn)
    /\ begun' = begun \cup {row}
    /\ Goto("saving")
    /\ EndCall
    /\ UNCHANGED <<fileVars, translators, row, generated>>

(* Fault: the error of the write is not looked at. *)
SavePolicyUnseen ==
    /\ At("build", "saving")
    /\ Holds(lines[row]) \/ UNCHANGED policies
    /\ generated' = generated \cup {row}
    /\ ToNextRow
    /\ UNCHANGED <<callVars, begun>>

SavePolicy ==
    /\ At("build", "saving")
    /\ Holds(lines[row])
    /\ generated' = generated \cup {row}
    /\ ToNextRow
    /\ UNCHANGED <<callVars, begun>>

(* Write fails, or Close after the last byte: "Failed to save", and on.    *)
WriteFails ==
    /\ At("build", "saving")
    /\ Holds(lines[row]) \/ UNCHANGED policies
    /\ ToNextRow
    /\ UNCHANGED <<callVars, begun, generated>>

BuildDone ==
    /\ At("build", "rows")
    /\ row > Len(lines)
    /\ Goto("done")
    /\ UNCHANGED <<fileVars, callVars, buildVars>>

BuildExits ==
    /\ At("build", "done")
    /\ End
    /\ ForgetBuild
    /\ UNCHANGED <<fileVars, callVars, policies, translators>>

BuildStep ==
    \/ ReadHeader
    \/ BuildRefused
    \/ SkipRow
    \/ AskForPolicy
    \/ PolicyFails
    \/ OpenPolicyFile
    \/ SavePolicy
    \/ WriteFails
    \/ BuildDone
    \/ BuildExits

-----------------------------------------------------------------------------
StartTranslate ==
    /\ Start("translate")
    /\ UNCHANGED <<fileVars, callVars, buildVars>>

(* runTranslate: the sample and the prompt are there. *)
AskForTranslator ==
    /\ At("translate", "start")
    /\ Configured # {}
    /\ BeginCall
    /\ Goto("asking")
    /\ UNCHANGED <<fileVars, buildVars>>

(* What the AI wrote replaces the file, validated or not. *)
OpenTranslator ==
    /\ At("translate", "asking")
    /\ call = "answered"
    /\ translators' = "torn"
    /\ Goto("saving")
    /\ EndCall
    /\ UNCHANGED <<fileVars, policies, row, begun, generated>>

SaveTranslator ==
    /\ At("translate", "saving")
    /\ translators' = "whole"
    /\ Goto("done")
    /\ UNCHANGED <<fileVars, callVars, policies, row, begun, generated>>

(* An input is missing, all tiers failed, or the file cannot be opened or  *)
(* written; or the command is done.                                        *)
TranslateExits ==
    /\ command = "translate"
    /\ \/ step \in {"start", "saving", "done"} /\ UNCHANGED callVars
       \/ /\ step = "asking"
          /\ call \in {"answered", "failed"}
          /\ EndCall
    /\ End
    /\ UNCHANGED <<fileVars, buildVars>>

TranslateStep ==
    \/ AskForTranslator
    \/ OpenTranslator
    \/ SaveTranslator
    \/ TranslateExits

BuildTypeOK ==
    /\ DOMAIN policies \subseteq {FileOf[c] : c \in Control}
    /\ \A f \in DOMAIN policies : policies[f] \in Row \cup {Torn}
    /\ translators \in {"absent", "torn", "whole"}
    /\ row \in 1..Len(lines) + 1
    /\ begun \subseteq DOMAIN lines
    /\ generated \subseteq begun

-----------------------------------------------------------------------------
LinesOf(f, S) == {i \in S : IsRow(i) /\ FileOf[lines[i].control] = f}

(* When a build is done, a file that it opened is decided by the last of   *)
(* the requirements it opened it for, all of them approved, also where two *)
(* controls share the file: it holds that one's policy if the build has    *)
(* reported it as saved, and if the write failed no policy of an earlier   *)
(* requirement is left in it.                                              *)
CompletedBuildIsLastApproved ==
    At("build", "done") =>
        \A f \in {FileOf[c] : c \in Control} :
            LET mine == LinesOf(f, begun)
            IN  /\ \A i \in mine : Approved(i)
                /\ mine # {} =>
                     /\ f \in DOMAIN policies
                     /\ \E last \in mine :
                          /\ \A i \in mine : i <= last
                          /\ policies[f] \in {lines[last], Torn}
                          /\ last \in generated => policies[f] = lines[last]
=============================================================================
