---------------------------- MODULE DocumentSave ----------------------------
(***************************************************************************)
(* Saving a document that is made of several files: the top document, the  *)
(* external entities it refers to and the documents it includes by         *)
(* XInclude. StructEditor::saveDocument and Grove::saveAsXmlFile decide    *)
(* which files are written; an entity or an included document is written   *)
(* only if its declaration says that its content was modified, a flag that *)
(* commands set when they are executed and put back when they are undone   *)
(* (CommandContext::setEntityModified, unsetEntityModified).               *)
(*                                                                         *)
(* The undo history is the module CommandExecutor, its document the        *)
(* contents of all the files. One step is one command or one call of       *)
(* saveDocument: nothing runs between the files of a save.                 *)
(***************************************************************************)
EXTENDS Integers, Sequences

CONSTANTS
  Command, NULL, DepthLimit, AddressReuse, MaxHistory,   \* as in CommandExecutor
  Top,            \* the file of the top document
  Entity,         \* the files of its external general entities
  Included,       \* the files of the documents it includes
  Text,           \* the contents of a file
  Absent, Torn,   \* no such file; a file whose writing did not complete
  Place,          \* where Save As may go: "beside" the document as it was opened,
                  \*   under a new name, or "away", in another directory
  Protected,      \* the files that are write-protected as they are opened
  OpenFails,      \* the files that may not open for writing
  WriteFails,     \* the files whose writing may fail half-way
  UndoWritten     \* may a command be undone that was done when files were written?

File == {Top} \cup Entity \cup Included

ASSUME NullAssumption == NULL \notin Command
ASSUME LimitAssumption == DepthLimit \in Int /\ MaxHistory \in Nat
ASSUME SwitchAssumption == AddressReuse \in BOOLEAN
ASSUME FileAssumption == Top \notin Entity \cup Included /\ Entity \cap Included = {}
ASSUME TextAssumption == Absent \notin Text /\ Torn \notin Text
ASSUME PlaceAssumption == Place \subseteq {"beside", "away"}
ASSUME FaultAssumption ==
  Protected \cup OpenFails \cup WriteFails \subseteq File /\ UndoWritten \in BOOLEAN

VARIABLES
  hist, lastDone, notModifiedAt, childCount, wasCleared,
  content,        \* the files as edited
  saved,          \* the files when the document was last reported as saved
  object,         \* the command at each address: the file it edits, CD_IS_ENTITY_MODIFIED
  flag,           \* isContentModified() of the declaration of each file
  readOnly,       \* the files whose declaration isReadOnly()
  place,          \* where the top document is: "home" as opened, or a Place
  disk,           \* the files, at the places they can be at
  written         \* of the commands in the list, those done at a save that wrote files

historyVars ==
  <<hist, lastDone, notModifiedAt, childCount, wasCleared, content, saved>>
vars == <<historyVars, object, flag, readOnly, place, disk, written>>

History == INSTANCE CommandExecutor
  WITH Doc <- [File -> Text], doc <- content, RewriteLast <- FALSE

\* The addresses of the commands in the list h.
Listed(h) == {h[i].addr : i \in 1..Len(h)}

Location == File \X ({"home"} \cup Place)

\* The types of the variables.
TypeOK ==
  /\ History!TypeOK
  /\ DOMAIN object = Listed(hist)
  /\ \A c \in DOMAIN object : object[c] \in [file : File, modified : BOOLEAN]
  /\ flag \in [File -> BOOLEAN]
  /\ readOnly \subseteq File
  /\ place \in {"home"} \cup Place
  /\ disk \in [Location -> Text \cup {Absent, Torn}]
  /\ written \subseteq Listed(hist)

-----------------------------------------------------------------------------

\* The path of f when the top document is at p: an entity goes with the directory
\* of the document, an included document stays where it is.
PathOf(f, p) ==
  <<f, CASE f = Top -> p
         [] f \in Entity -> IF p = "away" THEN "away" ELSE "home"
         [] f \in Included -> "home">>

\* set_lock_status() of the document at p.
Locked(p) == {f \in Protected : PathOf(f, p)[2] = "home"}

\* openDocument().
Init ==
  /\ content \in [File -> Text]
  /\ History!Init
  /\ object = << >>
  /\ flag = [f \in File |-> FALSE]
  /\ readOnly = Locked("home")
  /\ place = "home"
  /\ disk = [l \in Location |-> IF l[2] = "home" THEN content[l[1]] ELSE Absent]
  /\ written = {}

Remember_Nothing(c, f) ==
  object' = [b \in Listed(hist') |->
    IF b = c THEN [file |-> f, modified |-> FALSE] ELSE object[b]]

Remember_KeepsDropped(c, f) ==
  LET bit == c \in Listed(hist) /\ object[c].modified
  IN object' = [b \in Listed(hist) \cup {c} |->
       IF b = c THEN [file |-> f, modified |-> bit \/ flag[f]] ELSE object[b]]

\* setEntityModified(): c, which edits f, takes note of the flag it finds. A bit
\* that is set once is never cleared, a new command has it clear.
Remember(c, f) ==
  LET bit == c \in Listed(hist) /\ object[c].modified
  IN object' = [b \in Listed(hist') |->
       IF b = c THEN [file |-> f, modified |-> bit \/ flag[f]] ELSE object[b]]

Execute(f, t) ==
  /\ f \notin readOnly
  /\ \E c \in Command :
       /\ History!ExecuteAndAdd(c, [content EXCEPT ![f] = t])
       /\ Remember(c, f)
  /\ flag' = [flag EXCEPT ![f] = TRUE]
  /\ written' = written \cap Listed(hist')
  /\ UNCHANGED <<readOnly, place, disk>>

\* unsetEntityModified(): the flag is again as the command found it.
Undo ==
  /\ UndoWritten \/ lastDone \notin written
  /\ History!Undo
  /\ flag' = [flag EXCEPT ![object[lastDone].file] = object[lastDone].modified]
  /\ UNCHANGED <<object, readOnly, place, disk, written>>

Redo ==
  /\ History!Redo
  /\ Remember(lastDone', object[lastDone'].file)
  /\ flag' = [flag EXCEPT ![object[lastDone'].file] = TRUE]
  /\ UNCHANGED <<readOnly, place, disk, written>>

-----------------------------------------------------------------------------

\* The entities and included documents that saveAsXmlFile() sets out to write;
\* GS_FORCE_SAVE is about the entities only.
Chosen(force) ==
  {f \in Entity \cup Included : flag[f]} \cup IF force THEN Entity ELSE {}

\* Those whose flag is reset: an entity that does not open is passed over, the
\* flag of an included document is reset although it could not be saved.
Reset(chosen, unopened) == chosen \ (Entity \cap unopened)

SavedOk_TopOnly(chosen, unopened) == TRUE

\* saveAsXmlFile() answers TRUE: of a file that opens no error is noticed, since
\* close() of a local file always answers DAV_RESULT_OK.
SavedOk(chosen, unopened) == chosen \cap unopened = {}

\* The files written, when the document goes to p: those torn do not get complete.
Write(files, torn, p) ==
  disk' = [l \in Location |->
    IF \E f \in files : l = PathOf(f, p)
    THEN IF l[1] \in torn THEN Torn ELSE content[l[1]]
    ELSE disk[l]]

\* saveDocument() with the document going to p: writes what it can, and only if it
\* is satisfied is the document not modified, and at p.
SaveTo(p, force) ==
  LET top == IF force \/ Top \notin readOnly THEN {Top} ELSE {}
      chosen == Chosen(force)
  IN
  \E unopened \in SUBSET OpenFails, torn \in SUBSET WriteFails :
    IF Top \in top \cap unopened
    THEN UNCHANGED vars
    ELSE /\ Write((top \cup chosen) \ unopened, torn, p)
         /\ flag' = [f \in File |-> flag[f] /\ f \notin Reset(chosen, unopened)]
         /\ written' = {hist[i].addr : i \in 1..History!Done}
         /\ UNCHANGED object
         /\ IF SavedOk(chosen, unopened)
            THEN /\ History!SetNotModified
                 /\ place' = p
                 /\ readOnly' = IF p = place THEN readOnly ELSE Locked(p)
            ELSE UNCHANGED <<historyVars, place, readOnly>>

\* The Save action is enabled while the document is modified.
Save == History!IsModified /\ SaveTo(place, FALSE)

\* Save As, to a place that has no such document yet: to another directory every
\* entity is saved, too.
SaveAs(p) ==
  /\ p # place
  /\ disk[PathOf(Top, p)] = Absent
  /\ SaveTo(p, (p = "away") # (place = "away"))

\* The document is closed and opened again, with a history and declarations of its
\* own; a file that is not there or not complete does not open.
Reopen ==
  /\ content' = [f \in File |-> disk[PathOf(f, place)]]
  /\ content' \in [File -> Text]
  /\ hist' = <<>> /\ lastDone' = NULL /\ notModifiedAt' = NULL
  /\ childCount' = 0 /\ wasCleared' = FALSE
  /\ saved' = content'
  /\ object' = << >>
  /\ flag' = [f \in File |-> FALSE]
  /\ readOnly' = Locked(place)
  /\ written' = {}
  /\ UNCHANGED <<place, disk>>

Next ==
  \/ \E f \in File, t \in Text : Execute(f, t)
  \/ Undo
  \/ Redo
  \/ Save
  \/ \E p \in Place : SaveAs(p)
  \/ Reopen

Spec == Init /\ [][Next]_vars

-----------------------------------------------------------------------------

\* The flag GroveSaver relies on: an entity or included document whose content is
\* not what its path holds is marked as modified, so that the next save writes it.
FlagSound ==
  \A f \in Entity \cup Included : disk[PathOf(f, place)] # content[f] => flag[f]

\* A document that is not modified is on the disk, all the files of it.
UnmodifiedIsOnDisk ==
  ~History!IsModified => \A f \in File : disk[PathOf(f, place)] = content[f]

=============================================================================
