---------------------------- MODULE Requirements ----------------------------
(***************************************************************************)
(* requirements.csv, which import appends to, people edit and build reads, *)
(* and the governor command that is running (governor/cmd).                *)
(*                                                                         *)
(* The file is its lines.  A write that fails half way leaves a line       *)
(* without its end, and the next row is written on that same line.  A line *)
(* put together like that, or cut before its last field, does not have the *)
(* fields of the header: it is Garbled.                                    *)
(***************************************************************************)
EXTENDS Naturals, Sequences, SequencesExt

CONSTANTS
    Control,        \* control IDs
    Provider,       \* cloud platforms
    MaxRuns         \* bound on the number of commands

ASSUME MaxRunsAssumption == MaxRuns \in Nat

Status == {"PENDING", "APPROVED", "MANUAL_AUDIT"}

(* run and asked are history: the import that wrote the row, and the      *)
(* provider it asked for.                                                  *)
Row == [control : Control, provider : Provider, status : Status,
        run : 1..MaxRuns, asked : Provider]
Garbled == [garbled |-> TRUE]
Line == Row \cup {Garbled}

VARIABLES
    header,     \* whether the file exists, and begins with its header
    lines,      \* the lines behind the header
    cut,        \* the last of them has no end
    command,    \* the command that is running
    step,       \* where it is
    runs        \* the number of commands that have been started

fileVars == <<header, lines, cut>>
commandVars == <<command, step, runs>>

RequirementsInit ==
    /\ header = "absent"
    /\ lines = <<>>
    /\ cut = FALSE
    /\ command = "none"
    /\ step = "start"
    /\ runs = 0

At(c, s) == command = c /\ step = s
Goto(s) == step' = s /\ UNCHANGED <<command, runs>>

Start(c) ==
    /\ command = "none"
    /\ runs < MaxRuns
    /\ command' = c
    /\ runs' = runs + 1
    /\ step' = "start"

End ==
    /\ command' = "none"
    /\ step' = "start"
    /\ UNCHANGED runs

-----------------------------------------------------------------------------
IsRow(i) == lines[i] # Garbled

Readable == \A i \in DOMAIN lines : IsRow(i)

(* csv.Writer writes the line at once and the error of Flush is not looked *)
(* at: all of the row may be written, or none, or its beginning, which is  *)
(* a row only if the cut is in the last field.                             *)
Glue(line) == IF cut THEN Append(Front(lines), Garbled) ELSE Append(lines, line)

WriteRow(row) ==
    /\ \/ lines' = Glue(row) /\ cut' = FALSE
       \/ lines' \in {Glue(row), Glue(Garbled)} /\ cut' = TRUE
       \/ UNCHANGED <<lines, cut>>
    /\ UNCHANGED header

(* People approve a requirement, withdraw the approval, and remove a line  *)
(* that cannot be read, while no command is running.                       *)
Decide(i) ==
    /\ command = "none"
    /\ IsRow(i)
    /\ lines[i].status \in {"PENDING", "APPROVED"}
    /\ lines' = [lines EXCEPT ![i].status =
                   IF @ = "PENDING" THEN "APPROVED" ELSE "PENDING"]
    /\ UNCHANGED <<header, cut, commandVars>>

Repair(i) ==
    /\ command = "none"
    /\ ~IsRow(i)
    /\ lines' = RemoveAt(lines, i)
    /\ cut' = FALSE
    /\ UNCHANGED <<header, commandVars>>

RequirementsTypeOK ==
    /\ header \in {"absent", "empty", "present"}
    /\ lines \in Seq(Line)
    /\ cut \in BOOLEAN
    /\ cut => lines # <<>>
    /\ command \in {"none", "import", "build", "translate"}
    /\ step \in {"start", "catalog", "downloading", "rows", "asking", "saving", "done"}
    /\ runs \in 0..MaxRuns
=============================================================================
