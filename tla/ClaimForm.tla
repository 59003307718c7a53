------------------------------- MODULE ClaimForm -------------------------------
(***************************************************************************)
(* The claims workspace: one person's form, the lists it was filled from,  *)
(* and the save request behind it, which writes the header, the removals   *)
(* and the lines one call at a time and answers only at the end.           *)
(*                                                                         *)
(* A line is known by its client key, which the table does not make        *)
(* unique; what it says is a text the validation accepts or not.  A line   *)
(* has at most one file to upload.  The amounts, the advances and the      *)
(* statuses after submission are the Claims module's.                      *)
(***************************************************************************)
EXTENDS Naturals, FiniteSets

CONSTANTS
  FormClaim,   \* ids of claims
  FormLine,    \* client keys of lines
  GoodText,    \* texts of a line that pass the validation
  Blank,       \* the text of a line just added, which does not
  NewClaim,    \* the form's id before a claim is saved
  MaxCopies    \* bound: rows stored, and files uploaded, for one client key

ASSUME ClaimFormAssumption ==
  NewClaim \notin FormClaim /\ Blank \notin GoodText /\ MaxCopies \in Nat \ {0}

VARIABLES
  savedClaims,   \* ids of claims that are stored
  savedLines,    \* per claim and key: how many rows there are, and their text
  evidence,      \* per claim and key: how often a file was uploaded and linked
  listed,        \* the lines the workspace last loaded
  form,          \* the editor
  saving         \* where the save request stands

claimFormVars == <<savedClaims, savedLines, evidence, listed, form, saving>>

FormText == GoodText \cup {Blank}
NoLine == [rows |-> 0, text |-> Blank]
NoLines == [l \in FormLine |-> NoLine]
StoredLines == [FormLine -> [rows : 0..MaxCopies, text : FormText]]

\* A line of the editor: "new" has no id yet.
Absent == [is |-> "absent", text |-> Blank]
EditorLines == [FormLine -> [is : {"absent", "new", "saved"}, text : FormText]]
SaveState == {"saved", "unsaved", "saving", "error"}

Shown(lines) == {l \in FormLine : lines[l].is # "absent"}
ClaimFormOf(c, stored, state) ==
  [claim |-> c, files |-> {}, removed |-> {}, state |-> state,
   lines |-> [l \in FormLine |-> IF stored[l].rows > 0
                                 THEN [is |-> "saved", text |-> stored[l].text]
                                 ELSE Absent]]

\* A form without a line is given one.
BlankForm(c, l, state) ==
  [ClaimFormOf(c, NoLines, state) EXCEPT !.lines[l] = [is |-> "new", text |-> Blank]]
Opened(c, stored, l) ==
  IF \E k \in FormLine : stored[k].rows > 0
  THEN ClaimFormOf(c, stored, "saved") ELSE BlankForm(c, l, "saved")

NotSaving == [step |-> "idle"]
Database == <<savedClaims, savedLines, evidence>>
Dirty(f) == [f EXCEPT !.state = "unsaved"]

-----------------------------------------------------------------------------
(* The editor.  Typing is possible while a save is under way. *)

TypeInLine(l, t) ==
  /\ form.lines[l].text # t \/ form.lines[l].is = "absent"
  /\ form' = [Dirty(form) EXCEPT !.lines[l] =
                [is |-> IF @.is = "absent" THEN "new" ELSE @.is, text |-> t]]
  /\ UNCHANGED <<Database, listed, saving>>

RemoveLine(l) ==
  /\ form.lines[l].is # "absent"
  /\ form' = [Dirty(form) EXCEPT
       !.lines[l] = Absent, !.files = @ \ {l},
       !.removed = IF form.lines[l].is = "saved" THEN @ \cup {l} ELSE @]
  /\ UNCHANGED <<Database, listed, saving>>

ChooseFile(l) ==
  /\ form.lines[l].is # "absent"
  /\ form' = [Dirty(form) EXCEPT !.files = @ \cup {l}]
  /\ UNCHANGED <<Database, listed, saving>>

\* Cancel, or a change of the claim's mode.
ResetForm(l) ==
  /\ form' = BlankForm(NewClaim, l, "unsaved")
  /\ UNCHANGED <<Database, listed, saving>>

\* Edit, from the list as it was loaded; changes not saved are given up.
LoadIntoForm(c, l) ==
  /\ c \in savedClaims
  /\ form' = Opened(c, listed[c], l)
  /\ UNCHANGED <<Database, listed, saving>>

\* The page of one claim fills the form from the lines it knew before it
\* loaded them: on the first load, none.
OpenClaimPage(c, l) ==
  /\ c \in savedClaims /\ saving = NotSaving
  /\ listed' = savedLines
  /\ form' = Opened(c, NoLines, l)
  /\ UNCHANGED <<Database, saving>>

ReloadLists ==
  /\ listed' = savedLines
  /\ UNCHANGED <<Database, form, saving>>

-----------------------------------------------------------------------------
(* Saving *)

SaveFails == form' = [form EXCEPT !.state = "error"] /\ saving' = NotSaving

\* A form that is not valid is not sent.
BeginSave ==
  /\ saving = NotSaving
  /\ LET sent == Shown(form.lines) IN
     IF sent # {} /\ \A l \in sent : form.lines[l].text \in GoodText
     THEN /\ form' = [form EXCEPT !.state = "saving"]
          /\ saving' = [step |-> "header", claim |-> form.claim, form |-> form]
     ELSE SaveFails
  /\ UNCHANGED <<Database, listed>>

SaveFormHeader(c) ==
  /\ saving.step = "header"
  /\ IF saving.claim = NewClaim
     THEN c \notin savedClaims /\ savedClaims' = savedClaims \cup {c}
     ELSE c = saving.claim /\ UNCHANGED savedClaims
  /\ saving' = [step |-> "check", claim |-> c, form |-> saving.form]
  /\ UNCHANGED <<savedLines, evidence, listed, form>>

Rest(step) == [step |-> step, claim |-> saving.claim, form |-> saving.form,
               left |-> Shown(saving.form.lines)]

\* Lines with evidence are not removed, and nothing after them is saved.  The
\* evidence is looked for by one call and the lines deleted by the next.
CheckRemoved ==
  /\ saving.step = "check"
  /\ IF \E l \in saving.form.removed : evidence[saving.claim][l] > 0
     THEN SaveFails ELSE saving' = Rest("remove") /\ UNCHANGED form
  /\ UNCHANGED <<Database, listed>>

RemoveLines ==
  /\ saving.step = "remove"
  /\ savedLines' = [savedLines EXCEPT ![saving.claim] =
       [l \in FormLine |-> IF l \in saving.form.removed THEN NoLine ELSE @[l]]]
  /\ saving' = Rest("lines")
  /\ UNCHANGED <<savedClaims, evidence, listed, form>>

\* Somebody else links a document to a line that is stored.
EvidenceArrives(c, l) ==
  /\ savedLines[c][l].rows > 0 /\ evidence[c][l] < MaxCopies
  /\ evidence' = [evidence EXCEPT ![c][l] = @ + 1]
  /\ UNCHANGED <<savedClaims, savedLines, listed, form, saving>>

\* A line with an id is updated, if it is there; any other is inserted.
SaveFormLine(l) ==
  /\ saving.step = "lines" /\ l \in saving.left
  /\ LET c    == saving.claim
         line == saving.form.lines[l]
         old  == savedLines[c][l]
     IN  IF line.is = "saved" /\ old.rows = 0
         THEN SaveFails /\ UNCHANGED savedLines
         ELSE /\ line.is = "new" => old.rows < MaxCopies
              /\ savedLines' = [savedLines EXCEPT ![c][l] =
                   [rows |-> IF line.is = "new" THEN old.rows + 1 ELSE old.rows,
                    text |-> line.text]]
              /\ saving' = [saving EXCEPT !.left = @ \ {l}]
              /\ UNCHANGED form
  /\ UNCHANGED <<savedClaims, evidence, listed>>

\* Any call of the save may fail; what was written stays.
SaveIsRefused ==
  /\ saving.step \in {"header", "check", "remove", "lines"}
  /\ SaveFails
  /\ UNCHANGED <<Database, listed>>

LinesSaved ==
  /\ saving.step = "lines" /\ saving.left = {}
  /\ saving' = [step |-> "uploads", claim |-> saving.claim,
                left |-> saving.form.files \cap Shown(saving.form.lines), ok |-> TRUE]
  /\ UNCHANGED <<Database, listed, form>>

UploadLineFile(l, fails) ==
  /\ saving.step = "uploads" /\ l \in saving.left
  /\ LET c == saving.claim IN
     /\ ~fails => evidence[c][l] < MaxCopies
     /\ evidence' = [evidence EXCEPT ![c][l] = IF fails THEN @ ELSE @ + 1]
  /\ saving' = [saving EXCEPT !.left = @ \ {l}, !.ok = @ /\ ~fails]
  /\ UNCHANGED <<savedClaims, savedLines, listed, form>>

\* The files are kept if one of them failed, those that did not included.  The
\* form is filled from the database again, unless reading it fails.
EndSave(readable) ==
  /\ saving.step = "uploads" /\ saving.left = {}
  /\ LET c     == saving.claim
         state == IF saving.ok THEN "saved" ELSE "error"
         files == IF saving.ok THEN {} ELSE form.files
         next  == IF readable THEN ClaimFormOf(c, savedLines[c], state)
                  ELSE [form EXCEPT !.state = state, !.removed = {}]
     IN  form' = [next EXCEPT !.files = files]
  /\ listed' = IF readable THEN savedLines ELSE listed
  /\ saving' = NotSaving
  /\ UNCHANGED Database

-----------------------------------------------------------------------------
ClaimFormInit ==
  /\ savedClaims = {}
  /\ savedLines = [c \in FormClaim |-> NoLines]
  /\ evidence = [c \in FormClaim |-> [l \in FormLine |-> 0]]
  /\ listed = savedLines
  /\ \E l \in FormLine : form = BlankForm(NewClaim, l, "saved")
  /\ saving = NotSaving

ClaimFormNext ==
  \/ \E l \in FormLine :
       \/ \E t \in GoodText : TypeInLine(l, t)
       \/ RemoveLine(l) \/ ChooseFile(l) \/ ResetForm(l) \/ SaveFormLine(l)
       \/ \E c \in FormClaim : LoadIntoForm(c, l) \/ OpenClaimPage(c, l)
                                 \/ EvidenceArrives(c, l)
       \/ \E fails \in BOOLEAN : UploadLineFile(l, fails)
  \/ \E c \in FormClaim : SaveFormHeader(c)
  \/ \E readable \in BOOLEAN : EndSave(readable)
  \/ ReloadLists \/ BeginSave \/ CheckRemoved \/ RemoveLines \/ SaveIsRefused \/ LinesSaved

ClaimFormSpec == ClaimFormInit /\ [][ClaimFormNext]_claimFormVars

-----------------------------------------------------------------------------
\* The stored lines, the form and the save keep their shape.
ClaimFormTypeOK ==
  /\ savedClaims \subseteq FormClaim
  /\ savedLines \in [FormClaim -> StoredLines] /\ listed \in [FormClaim -> StoredLines]
  /\ evidence \in [FormClaim -> [FormLine -> 0..MaxCopies]]
  /\ form \in [claim : FormClaim \cup {NewClaim}, files : SUBSET FormLine,
               removed : SUBSET FormLine, state : SaveState, lines : EditorLines]
  /\ saving.step \in {"idle", "header", "check", "remove", "lines", "uploads"}
=============================================================================
