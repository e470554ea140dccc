----------------------------- MODULE VillageImport -----------------------------
(***************************************************************************)
(* VillageImportPanel of apps/frontend-admin: a file is chosen, tried      *)
(* (a dry run tells what is wrong with it) and, when nothing is, imported. *)
(***************************************************************************)
EXTENDS Integers

CONSTANTS
    MaxFiles        \* bound: files chosen; 0 is none

VARIABLES
    selectedFile,
    chosen,         \* files chosen so far
    preview,        \* the summary on display: of which file, and is it faultless
    isPreviewing,   \* the file being tried, 0: none
    isImporting,    \* the file being imported, and the file it was confirmed for
    confirmOpen,    \* the dialog is open
    confirmed,      \* history: the file whose summary was on display when it was opened
    overtaken       \* history: another file was chosen during the trial on display

vars == <<selectedFile, chosen, preview, isPreviewing, isImporting, confirmOpen, confirmed, overtaken>>

Files == 0..MaxFiles
NoSummary == [file |-> 0, clean |-> FALSE]
NoImport == [file |-> 0, tried |-> 0]

Init ==
    /\ selectedFile = 0 /\ chosen = 0 /\ preview = NoSummary
    /\ isPreviewing = 0 /\ isImporting = NoImport
    /\ confirmOpen = FALSE /\ confirmed = 0 /\ overtaken = FALSE

\* The input is never disabled; the open dialog covers it.
FileChangeOnly ==
    /\ ~confirmOpen /\ chosen < MaxFiles /\ chosen' = chosen + 1
    /\ selectedFile' \in {0, chosen + 1}
    /\ UNCHANGED <<preview, isPreviewing, isImporting, confirmOpen, confirmed, overtaken>>
handleFileChange ==
    /\ ~confirmOpen /\ chosen < MaxFiles /\ chosen' = chosen + 1
    /\ selectedFile' \in {0, chosen + 1}
    /\ preview' = NoSummary /\ overtaken' = FALSE
    /\ UNCHANGED <<isPreviewing, isImporting, confirmOpen, confirmed>>

handlePreview ==
    /\ ~confirmOpen /\ selectedFile # 0 /\ isPreviewing = 0
    /\ isPreviewing' = selectedFile
    /\ UNCHANGED <<selectedFile, chosen, preview, isImporting, confirmOpen, confirmed, overtaken>>

\* Its answer is shown whatever was chosen meanwhile; an error takes the summary away.
Previewed ==
    /\ isPreviewing # 0 /\ isPreviewing' = 0
    /\ \/ \E clean \in BOOLEAN : preview' = [file |-> isPreviewing, clean |-> clean]
       \/ preview' = NoSummary
    /\ overtaken' = (selectedFile # isPreviewing)
    /\ UNCHANGED <<selectedFile, chosen, isImporting, confirmOpen, confirmed>>

\* The button is there when the summary has valid rows and no invalid one; the dialog's
\* buttons, but not the escape key, are disabled while the import is under way.
OpenConfirm ==
    /\ preview.clean /\ ~confirmOpen /\ confirmOpen' = TRUE
    /\ confirmed' = IF overtaken THEN selectedFile ELSE preview.file
    /\ UNCHANGED <<selectedFile, chosen, preview, isPreviewing, isImporting, overtaken>>

CloseConfirm ==
    /\ confirmOpen /\ confirmOpen' = FALSE
    /\ UNCHANGED <<selectedFile, chosen, preview, isPreviewing, isImporting, confirmed, overtaken>>

handleConfirmImport ==
    /\ confirmOpen /\ isImporting = NoImport /\ selectedFile # 0
    /\ isImporting' = [file |-> selectedFile, tried |-> confirmed]
    /\ UNCHANGED <<selectedFile, chosen, preview, isPreviewing, confirmOpen, confirmed, overtaken>>

\* The summary of the import takes the place of the trial's, and the input is emptied,
\* with what was chosen meanwhile.
Imported ==
    /\ isImporting # NoImport /\ isImporting' = NoImport
    /\ \/ /\ preview' = [file |-> isImporting.file, clean |-> TRUE]
          /\ confirmOpen' = FALSE /\ selectedFile' = 0 /\ overtaken' = FALSE
       \/ UNCHANGED <<preview, confirmOpen, selectedFile, overtaken>>
    /\ UNCHANGED <<chosen, isPreviewing, confirmed>>

Next ==
    \/ handleFileChange \/ handlePreview \/ Previewed
    \/ OpenConfirm \/ CloseConfirm \/ handleConfirmImport \/ Imported

Spec == Init /\ [][Next]_vars

TypeOK ==
    /\ selectedFile \in Files /\ chosen \in Files /\ isPreviewing \in Files /\ confirmed \in Files
    /\ preview \in [file : Files, clean : BOOLEAN]
    /\ isImporting \in [file : Files, tried : Files]
    /\ {confirmOpen, overtaken} \subseteq BOOLEAN

(* The file that is imported is the one whose faultless summary was on display when *)
(* the dialog was opened, unless it was chosen while another one was being tried.   *)
ImportedWasTried == isImporting.tried = isImporting.file

=============================================================================
