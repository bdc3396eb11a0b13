------------------------------ MODULE Governor ------------------------------
(***************************************************************************)
(* The governor: its commands, one at a time, the AI client they share,    *)
(* and the people who edit requirements.csv in between.  A command may be  *)
(* killed at any step.                                                     *)
(***************************************************************************)
EXTENDS Import, PolicyBuild

vars == <<fileVars, commandVars, callVars, importVars, buildVars>>

Init ==
    /\ RequirementsInit
    /\ CallInit
    /\ ImportInit
    /\ BuildInit

StartCommand ==
    \/ /\ \E p \in Active \cup {NoProvider}, c \in Catalogs, reset \in BOOLEAN :
             StartImport(p, c, reset)
       /\ UNCHANGED buildVars
    \/ (StartBuild \/ StartTranslate) /\ UNCHANGED importVars

(* Edits of requirements.csv by hand. *)
Edit ==
    /\ \E i \in DOMAIN lines : Decide(i) \/ Repair(i)
    /\ UNCHANGED <<callVars, importVars, buildVars>>

(* Also the end of a process by log.Fatalf. *)
ProcessEnds ==
    /\ command # "none"
    /\ End
    /\ EndCall
    /\ ForgetImport
    /\ ForgetBuild
    /\ UNCHANGED <<fileVars, policies, translators>>

Aborted == call = "aborted" /\ ProcessEnds

CommandStep ==
    \/ ImportStep /\ UNCHANGED buildVars
    \/ (BuildStep \/ TranslateStep) /\ UNCHANGED importVars
    \/ CallStep /\ UNCHANGED <<fileVars, commandVars, importVars, buildVars>>
    \/ Aborted

Next ==
    \/ StartCommand
    \/ Edit
    \/ CommandStep
    \/ ProcessEnds

Spec == Init /\ [][Next]_vars

(* A command waits for something that need not end: http.Get of a catalog, *)
(* which has no timeout, or a request to a tier whose timeout is 0.        *)
Hanging ==
    \/ At("import", "downloading")
    \/ call = "asking" /\ tier \notin Limited

(* A command is one goroutine.  Every other request of it has a timeout    *)
(* and every pause an end.                                                 *)
FairSpec == Spec /\ WF_vars(CommandStep /\ ~Hanging)

-----------------------------------------------------------------------------
(* Every variable of the governor keeps its type, and no tier gets an      *)
(* attempt beyond JULA_MAX_RETRIES_PER_TIER.                               *)
TypeOK ==
    /\ RequirementsTypeOK
    /\ CallTypeOK
    /\ ImportTypeOK
    /\ BuildTypeOK
    /\ call # "idle" <=> step = "asking"

(* A command that was started ends, whatever the AI endpoints answer and   *)
(* however often it fails, unless one download, or one request without a   *)
(* timeout, never ends.                                                    *)
CommandsEnd == command # "none" ~> command = "none" \/ []Hanging
=============================================================================
