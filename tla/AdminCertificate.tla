-------------------------- MODULE AdminCertificate --------------------------
(***************************************************************************)
(* CustomCertificateUpload of the Configure page (screens/Configure.tsx):   *)
(* two files that the browser reads at its own pace, a dialog, and the      *)
(* upload. A file's text is the file; the server takes or refuses a pair.   *)
(***************************************************************************)
EXTENDS Naturals, FiniteSets, ConfirmModal

CONSTANTS File,        \* files the operator may choose
          MaxReads,    \* files being read together
          MaxUploads   \* uploads under way together

VARIABLES
    fileValue,    \* certificate and privateKey
    fileName,     \* certificateName and privateKeyName
    reading,      \* files being read
    formExpanded, \* the form is shown
    uploadDialog, \* the dialog
    uploadState,  \* state of the upload
    uploads       \* uploads under way

vars == <<fileValue, fileName, reading, formExpanded, uploadDialog, uploadState, uploads>>

Field == {"certificate", "privateKey"}
NoFile == "no file"
Reading(field, file) == [field |-> field, file |-> file]

Init ==
    /\ fileValue = [f \in Field |-> NoFile] /\ fileName = fileValue
    /\ reading = {} /\ formExpanded = FALSE /\ uploadDialog = Closed
    /\ uploadState = "idle" /\ uploads = {}

\* The form, unless "accepted" stands in its place; the dialog in front of it does
\* not keep the operator from its inputs.
FormShown == uploadState # "success"

Expand ==
    /\ FormShown
    /\ formExpanded' = ~formExpanded
    /\ UNCHANGED <<fileValue, fileName, reading, uploadDialog, uploadState, uploads>>

\* Mutant: the name is shown before the file has been read.
ChooseNamed(field, file) ==
    /\ FormShown /\ formExpanded /\ Cardinality(reading) < MaxReads
    /\ reading' = reading \cup {Reading(field, file)}
    /\ fileName' = [fileName EXCEPT ![field] = file]
    /\ UNCHANGED <<fileValue, formExpanded, uploadDialog, uploadState, uploads>>

\* readFile up to its await; the inputs wait for nothing.
Choose(field, file) ==
    /\ FormShown /\ formExpanded /\ Cardinality(reading) < MaxReads
    /\ reading' = reading \cup {Reading(field, file)}
    /\ UNCHANGED <<fileValue, fileName, formExpanded, uploadDialog, uploadState, uploads>>

\* Reads end in any order, and each says that nothing is being uploaded.
Read(r) ==
    /\ reading' = reading \ {r}
    /\ fileValue' = [fileValue EXCEPT ![r.field] = r.file]
    /\ fileName' = [fileName EXCEPT ![r.field] = r.file]
    /\ uploadState' = "idle"
    /\ UNCHANGED <<formExpanded, uploadDialog, uploads>>

OpenDialog ==
    /\ FormShown /\ formExpanded /\ uploadState # "running" /\ ~IsOpen(uploadDialog)
    /\ \A f \in Field : fileValue[f] # NoFile
    /\ uploadDialog' = Open(uploadDialog, "upload")
    /\ UNCHANGED <<fileValue, fileName, reading, formExpanded, uploadState, uploads>>

Type ==
    /\ uploadState # "success" /\ Attentive(uploadDialog)
    /\ uploadDialog' = TypeWord(uploadDialog)
    /\ UNCHANGED <<fileValue, fileName, reading, formExpanded, uploadState, uploads>>

Cancel ==
    /\ uploadState # "success" /\ Attentive(uploadDialog)
    /\ uploadDialog' = Close(uploadDialog)
    /\ UNCHANGED <<fileValue, fileName, reading, formExpanded, uploadState, uploads>>

\* The dialog's handler with apply up to its request: the dialog waits for nothing.
Apply ==
    /\ uploadState # "success" /\ MayConfirm(uploadDialog) /\ Cardinality(uploads) < MaxUploads
    /\ uploadDialog' = Finish(Close(Confirm(uploadDialog)))
    /\ uploadState' = "running"
    /\ uploads' = uploads \cup {[value |-> fileValue, name |-> fileName]}
    /\ UNCHANGED <<fileValue, fileName, reading, formExpanded>>

\* Only the text of the key is forgotten, not its name. The dialog unmounts with the
\* form and, when it was open, comes back with it, empty.
Accepted(u) ==
    /\ uploads' = uploads \ {u}
    /\ uploadState' = "success"
    /\ fileValue' = [fileValue EXCEPT !["privateKey"] = NoFile]
    /\ uploadDialog' = Open(uploadDialog, uploadDialog.target)
    /\ UNCHANGED <<fileName, reading, formExpanded>>

Refused(u) ==
    /\ uploads' = uploads \ {u}
    /\ uploadState' = "error"
    /\ UNCHANGED <<fileValue, fileName, reading, formExpanded, uploadDialog>>

\* "reload web access status" of an upload that was accepted.
Reload ==
    /\ uploadState = "success"
    /\ fileValue' = [f \in Field |-> NoFile] /\ fileName' = fileValue'
    /\ reading' = {} /\ formExpanded' = FALSE /\ uploadDialog' = Closed
    /\ uploadState' = "idle" /\ uploads' = {}

Next ==
    \/ Expand \/ OpenDialog \/ Type \/ Cancel \/ Apply \/ Reload
    \/ \E field \in Field, file \in File : Choose(field, file)
    \/ \E r \in reading : Read(r)
    \/ \E u \in uploads : Accepted(u) \/ Refused(u)

Spec == Init /\ [][Next]_vars

-----------------------------------------------------------------------------
(* Properties *)

\* No file is uploaded but the ones whose names the form had when the operator
\* confirmed, however late and in whatever order files are read, before the dialog
\* or under it. (A file may be missing: an accepted upload forgets the key, under a
\* dialog that is open again.)
UploadIsWhatIsShown ==
    \A u \in uploads, f \in Field : u.value[f] \in {u.name[f], NoFile}

\* The form that says it is validating has an upload under way.
WorkIsUnderWay == uploadState = "running" => uploads # {}
=============================================================================
