------------------------------ MODULE AutoSave ------------------------------
(***************************************************************************)
(* Autosave and recovery of an edited document: StructAutoSaver with its   *)
(* two timers, the autosave directory that make_auto_save() fills and      *)
(* clean_auto_save() removes, restore_auto_save() when a document is       *)
(* opened, and QtSerna::restore_autosave() when the program starts.        *)
(*                                                                         *)
(* The program has one thread: an event that writes files is one step that *)
(* goes through a sequence of states of the disk, and a crash leaves the   *)
(* disk in one of them. The undo history is the module CommandExecutor.    *)
(* One document is open at a time and has a single file.                   *)
(***************************************************************************)
EXTENDS Integers, Sequences

CONSTANTS
  Command, NULL, DepthLimit, AddressReuse, MaxHistory,   \* as in CommandExecutor
  Path,           \* the paths of documents
  Text,           \* the contents of a document
  Absent, Torn,   \* no such file; a file that is empty or not complete
  NoEntry,        \* the entity map has no entry, or is not there
  Nothing,        \* no document is autosaved, or open
  CrashIn,        \* when the program may crash, a subset of
                  \*   "idle" no event is handled    "prompt" the user is asked
                  \*   "save", "restore": writing files    "clean", "unclean":
                  \*   removing an autosave, with its copy gone but not its map,
                  \*   or otherwise    "autosave", "overwrite": autosaving for
                  \*   the first time, or again
  MaySaveAs,      \* is Save As used?
  UndoMisleads,   \* may undo lead to where the flag misleads, see FlagMisleads?
  ToggleModified  \* may autosave be switched while the document is modified?

ASSUME NullAssumption == NULL \notin Command
ASSUME TextAssumption == Absent \notin Text /\ Torn \notin Text /\ Absent # Torn
ASSUME NothingAssumption == Nothing \notin Path
ASSUME NoEntryAssumption == NoEntry \notin [modified : BOOLEAN, outdated : BOOLEAN]
ASSUME UnlimitedAssumption ==       \* the history is not trimmed
  DepthLimit \in Int /\ DepthLimit <= 0
ASSUME CrashAssumption ==
  CrashIn \subseteq
    {"idle", "prompt", "save", "clean", "unclean", "restore", "autosave",
     "overwrite"}
ASSUME UseAssumption == {MaySaveAs, UndoMisleads, ToggleModified} \subseteq BOOLEAN

VARIABLES
  hist, lastDone, notModifiedAt, childCount, wasCleared,
  doc,            \* the document as edited
  saved,          \* the document when it was last reported as saved, or was opened
  pc,             \* what the program is doing
  docPath,        \* DOC_PATH of the open document, its grove's topSysid()
  topSysid,       \* StructAutoSaver::topSysid_
  isNew,          \* #not-saved: it was created and never saved
  forceModified,  \* forceModified_
  waitingForDelay, waitingForIdle,   \* isWaitingForDelay_, isWaitingForIdle_
  enabled,        \* app/autosave/enabled, in the configuration
  disk,           \* the files, see Disk
  kept            \* the autosave to be relied on: the last one that completed,
                  \*   until what it keeps is saved, discarded or recovered

historyVars ==
  <<hist, lastDone, notModifiedAt, childCount, wasCleared, doc, saved>>
sessionVars == <<pc, docPath, topSysid, isNew, forceModified>>
timerVars == <<waitingForDelay, waitingForIdle>>
vars == <<historyVars, sessionVars, timerVars, enabled, disk, kept>>

History == INSTANCE CommandExecutor WITH Doc <- Text, RewriteLast <- FALSE

\* An entry of entity.map: the modified flag of the file when it was autosaved, and
\* whether the file is now newer than the modTime_ it had.
Entry == [modified : BOOLEAN, outdated : BOOLEAN] \cup {NoEntry}

\* The documents, their autosave directories with a copy and an entity map, and the
\* list app/autosave/not-saved of new documents to be recovered at start.
Disk ==
  [file : [Path -> Text \cup {Absent, Torn}],
   copy : [Path -> Text \cup {Absent, Torn}],
   entry : [Path -> Entry],
   notSaved : SUBSET Path]

\* The types of the variables.
TypeOK ==
  /\ History!TypeOK
  /\ pc \in {"down", "starting", "ready", "asking", "open"}
  /\ docPath \in Path \cup {Nothing} /\ topSysid \in Path \cup {Nothing}
  /\ docPath = Nothing <=> pc \in {"down", "starting", "ready"}
  /\ isNew \in BOOLEAN /\ forceModified \in BOOLEAN /\ enabled \in BOOLEAN
  /\ waitingForDelay \in BOOLEAN /\ waitingForIdle \in BOOLEAN
  /\ disk \in Disk
  /\ kept \in [path : Path, text : Text] \cup {Nothing}

IsModified == forceModified \/ History!IsModified

-----------------------------------------------------------------------------
\* The states of the disk d that a function goes through, as a sequence.

LastOf(steps) == steps[Len(steps)]

\* A file that is written is newer than when it was autosaved.
Touched(d, p, t) ==
  [d EXCEPT !.file[p] = t,
            !.entry[p] = IF @ = NoEntry THEN @ ELSE [@ EXCEPT !.outdated = TRUE]]

\* saveAsXmlFile().
Writing(d, p, t) == <<Touched(d, p, Torn), Touched(d, p, t)>>

Cleaning_LeavesList(d, p) ==
  LET emptied == [d EXCEPT !.copy[p] = Absent]
  IN <<d, emptied, [emptied EXCEPT !.entry[p] = NoEntry]>>

\* clean_auto_save(): the files of the directory go in the order of their names.
Cleaning(d, p) ==
  LET unlisted == [d EXCEPT !.notSaved = @ \ {p}]
      emptied == [unlisted EXCEPT !.copy[p] = Absent]
  IN <<unlisted, emptied, [emptied EXCEPT !.entry[p] = NoEntry]>>

\* restore_from_entity_map(): copy_file() empties the file before it misses the copy.
Copying(d, p) ==
  <<Touched(d, p, Torn)>> \o
  IF d.copy[p] = Absent THEN <<>> ELSE <<Touched(d, p, d.copy[p])>>

Autosaving_EntryFirst(d, p) ==
  LET listed == [d EXCEPT !.entry[p] =
                   [modified |-> History!Done > 0, outdated |-> FALSE]]
      copied == [listed EXCEPT !.copy[p] = doc]
  IN <<listed, [listed EXCEPT !.copy[p] = Torn], copied,
       IF isNew THEN [copied EXCEPT !.notSaved = @ \cup {p}] ELSE copied>>

Autosaving_Unlisted(d, p) ==
  LET begun == [d EXCEPT !.entry[p] = NoEntry]
      copied == [begun EXCEPT !.copy[p] = doc]
  IN <<begun, [begun EXCEPT !.copy[p] = Torn], copied,
       [copied EXCEPT !.entry[p] =
         [modified |-> History!Done > 0, outdated |-> FALSE]]>>

\* make_auto_save(): a new map, the copy, its entry, and the list of new documents.
\* The modified flag of the top document is the one that the first command found
\* clear: it is set while a command is done.
Autosaving(d, p) ==
  LET begun == [d EXCEPT !.entry[p] = NoEntry]
      copied == [begun EXCEPT !.copy[p] = doc]
      listed == [copied EXCEPT !.entry[p] =
                   [modified |-> History!Done > 0, outdated |-> FALSE]]
  IN <<begun, [begun EXCEPT !.copy[p] = Torn], copied, listed,
       IF isNew THEN [listed EXCEPT !.notSaved = @ \cup {p}] ELSE listed>>

\* That flag is clear in a document that is modified and would have to be recovered
\* over a file.
FlagMisleads ==
  pc = "open" /\ IsModified /\ History!Done = 0 /\ disk.file[docPath] # Absent

-----------------------------------------------------------------------------

ClearHistory(t) ==
  /\ hist' = <<>> /\ lastDone' = NULL /\ notModifiedAt' = NULL
  /\ childCount' = 0 /\ wasCleared' = FALSE
  /\ doc' = t /\ saved' = t

NoDocument_KeepsPath ==
  /\ ClearHistory(CHOOSE t \in Text : TRUE)
  /\ UNCHANGED docPath /\ topSysid' = Nothing
  /\ isNew' = FALSE /\ forceModified' = FALSE
  /\ waitingForDelay' = FALSE /\ waitingForIdle' = FALSE

\* No document is open; doc and saved stay at a value that does not matter.
NoDocument ==
  /\ ClearHistory(CHOOSE t \in Text : TRUE)
  /\ docPath' = Nothing /\ topSysid' = Nothing
  /\ isNew' = FALSE /\ forceModified' = FALSE
  /\ waitingForDelay' = FALSE /\ waitingForIdle' = FALSE

\* The process is gone, with the disk in one of the states it was to go through.
Down(when, steps) ==
  /\ when \in CrashIn
  /\ disk' \in {steps[i] : i \in 1..Len(steps)}
  /\ pc' = "down"
  /\ NoDocument
  /\ UNCHANGED enabled

DownIn(cleaning) ==
  \/ Down("unclean", <<cleaning[1], cleaning[3]>>)
  \/ Down("clean", <<cleaning[2]>>)

\* Nothing is relied on any more of what was autosaved of p.
Without(p) == IF kept # Nothing /\ kept.path = p THEN Nothing ELSE kept

Done(steps) == disk' = LastOf(steps)

Init ==
  /\ History!Init
  /\ doc = CHOOSE t \in Text : TRUE
  /\ pc = "down"
  /\ docPath = Nothing /\ topSysid = Nothing
  /\ isNew = FALSE /\ forceModified = FALSE
  /\ waitingForDelay = FALSE /\ waitingForIdle = FALSE
  /\ enabled \in BOOLEAN
  /\ \E f \in [Path -> Text \cup {Absent}] :
       disk = [file |-> f, copy |-> [p \in Path |-> Absent],
               entry |-> [p \in Path |-> NoEntry], notSaved |-> {}]
  /\ kept = Nothing

Start ==
  /\ pc = "down"
  /\ pc' = "starting"
  /\ UNCHANGED <<historyVars, docPath, topSysid, isNew, forceModified, timerVars,
                 enabled, disk, kept>>

\* The program, or the machine, goes down while no file is written.
Crash ==
  /\ \/ pc \in {"ready", "open"} /\ "idle" \in CrashIn
     \/ pc = "asking" /\ "prompt" \in CrashIn
  /\ pc' = "down"
  /\ NoDocument
  /\ UNCHANGED <<enabled, disk, kept>>

\* The document at p begins to be opened: the constructor of StructAutoSaver.
BeginOpen(p) ==
  /\ pc' = "asking"
  /\ docPath' = p /\ topSysid' = p
  /\ UNCHANGED <<historyVars, isNew, forceModified, timerVars, enabled>>

\* QtSerna::restore_autosave() goes round while a new document is in the list. One
\* whose file is there is left in the list.
SkipNotSaved(p) ==
  /\ pc = "starting"
  /\ p \in disk.notSaved
  /\ disk.file[p] # Absent
  /\ UNCHANGED vars

RestoreNotSaved(p) ==
  /\ pc = "starting"
  /\ p \in disk.notSaved
  /\ disk.file[p] = Absent
  /\ IF disk.entry[p] = NoEntry
     THEN /\ Done(Cleaning(disk, p))
          /\ UNCHANGED <<historyVars, sessionVars, timerVars, enabled, kept>>
     ELSE LET copying == Copying(disk, p) IN
          \/ Down("restore", copying) /\ UNCHANGED kept
          \/ disk.copy[p] # Absent /\ Done(copying) /\ BeginOpen(p) /\ UNCHANGED kept
          \/ /\ disk.copy[p] = Absent
             /\ Done(copying \o Cleaning(LastOf(copying), p))
             /\ UNCHANGED <<historyVars, sessionVars, timerVars, enabled, kept>>

\* None is left: the program waits for the user.
Started ==
  /\ pc = "starting"
  /\ disk.notSaved = {}
  /\ pc' = "ready"
  /\ UNCHANGED <<historyVars, docPath, topSysid, isNew, forceModified, timerVars,
                 enabled, disk, kept>>

OpenDocument(p) ==
  /\ pc = "ready"
  /\ disk.file[p] # Absent
  /\ BeginOpen(p)
  /\ UNCHANGED <<disk, kept>>

\* "This document was not saved properly. Recover document?" is asked if there is
\* something to recover, and asked again if the file is newer. Whatever comes of
\* it, the autosave is removed; then the file is read.
Restore(yes, yesAgain) ==
  LET p == docPath
      e == disk.entry[p]
      copies == e # NoEntry /\ yes /\ IF e.outdated THEN yesAgain ELSE e.modified
      copying == IF copies THEN Copying(disk, p) ELSE <<disk>>
      cleaning == Cleaning(LastOf(copying), p)
  IN
  /\ pc = "asking"
  /\ \/ Down("restore", copying) /\ UNCHANGED kept
     \/ DownIn(cleaning) /\ kept' = Without(p)
     \/ /\ Done(cleaning)
        /\ kept' = Without(p)
        /\ UNCHANGED enabled
        /\ IF LastOf(cleaning).file[p] \in Text
           THEN /\ pc' = "open"
                /\ ClearHistory(LastOf(cleaning).file[p])
                /\ UNCHANGED <<docPath, topSysid, isNew, forceModified, timerVars>>
           ELSE pc' = "ready" /\ NoDocument

\* A new document with the text t, to be saved at p; an autosave that is found
\* there is restored without a question.
NewDocument(p, t) ==
  LET copying == IF disk.entry[p] = NoEntry THEN <<disk>> ELSE Copying(disk, p)
  IN
  /\ pc = "ready"
  /\ disk.file[p] = Absent
  /\ Done(Cleaning(LastOf(copying), p))
  /\ pc' = "open"
  /\ ClearHistory(t)
  /\ docPath' = p /\ topSysid' = p
  /\ isNew' = TRUE /\ forceModified' = TRUE
  /\ kept' = Without(p)
  /\ UNCHANGED <<timerVars, enabled>>

-----------------------------------------------------------------------------

Updated_OnceModified ==
  waitingForDelay' = (IF IsModified THEN waitingForDelay ELSE enabled)
  /\ UNCHANGED waitingForIdle

\* notifyUpdated() of a document that is modified: resetDelayTimer(timeout_).
Updated == waitingForDelay' = enabled /\ UNCHANGED waitingForIdle

\* notifyUpdated() of a document that is not: what was autosaved is not needed.
NotModified == waitingForDelay' = FALSE /\ waitingForIdle' = FALSE /\ kept' = Nothing

Edit(t) ==
  /\ pc = "open"
  /\ t # doc
  /\ \E c \in Command : History!ExecuteAndAdd(c, t)
  /\ Updated
  /\ UNCHANGED <<sessionVars, enabled, disk, kept>>

NotifyUpdated_TimersOnly(modified) ==
  IF modified
  THEN Updated /\ UNCHANGED <<sessionVars, enabled, disk, kept>>
  ELSE NotModified /\ UNCHANGED <<sessionVars, enabled, disk>>

\* notifyUpdated() after an undo or a redo.
NotifyUpdated(modified) ==
  IF modified
  THEN Updated /\ UNCHANGED <<sessionVars, enabled, disk, kept>>
  ELSE /\ Done(Cleaning(disk, topSysid))
       /\ NotModified
       /\ topSysid' = docPath
       /\ UNCHANGED <<pc, docPath, isNew, forceModified, enabled>>

Undo ==
  /\ pc = "open"
  /\ History!Undo
  /\ NotifyUpdated(forceModified \/ History!IsModified')
  /\ UndoMisleads \/ ~FlagMisleads'

Redo ==
  /\ pc = "open"
  /\ History!Redo
  /\ NotifyUpdated(forceModified \/ History!IsModified')

\* The process goes down while the document is written at p, or after it.
SaveInterrupted(p) ==
  LET writing == Writing(disk, p, doc) IN
  \/ Down("save", writing) /\ UNCHANGED kept
  \/ DownIn(Cleaning(LastOf(writing), topSysid)) /\ kept' = Nothing

\* saveDocument() that succeeds, at p; setNotModified() comes before DOC_PATH
\* is changed.
SaveAt(p) ==
  /\ pc = "open"
  /\ \/ SaveInterrupted(p)
     \/ /\ Done(Cleaning(LastOf(Writing(disk, p, doc)), topSysid))
        /\ History!SetNotModified
        /\ NotModified
        /\ topSysid' = docPath
        /\ docPath' = p
        /\ isNew' = FALSE /\ forceModified' = FALSE
        /\ UNCHANGED <<pc, enabled>>

Save == IsModified /\ SaveAt(docPath)

SaveAs(p) ==
  /\ MaySaveAs
  /\ p # docPath
  /\ SaveAt(p)

\* The document is closed, its changes being discarded if there are any.
Close ==
  LET cleaning == Cleaning(disk, docPath) IN
  /\ pc = "open"
  /\ kept' = Nothing
  /\ \/ DownIn(cleaning)
     \/ Done(cleaning) /\ pc' = "ready" /\ NoDocument /\ UNCHANGED enabled

-----------------------------------------------------------------------------

\* delayTimerExpired().
DelayTimerExpired ==
  /\ waitingForDelay
  /\ waitingForDelay' = FALSE
  /\ waitingForIdle' = TRUE
  /\ UNCHANGED <<historyVars, sessionVars, enabled, disk, kept>>

\* idleTimerExpired(), from AutoSaveMgr when no event is pending.
IdleTimerExpired ==
  LET autosaving == Autosaving(disk, docPath)
      again == disk.entry[docPath] # NoEntry
      this == [path |-> docPath, text |-> doc]
  IN
  /\ waitingForIdle
  /\ \/ /\ Down(IF again THEN "overwrite" ELSE "autosave", autosaving)
        /\ kept' = IF disk' = LastOf(autosaving) THEN this ELSE kept
     \/ /\ Done(autosaving)
        /\ waitingForIdle' = FALSE
        /\ kept' = this
        /\ UNCHANGED <<historyVars, sessionVars, waitingForDelay, enabled>>

\* setTimeout(): a timer that runs goes on with the delay it was started with, one
\* that does not run is not started.
SetTimeout(on) == waitingForDelay' = (waitingForDelay /\ on)

\* The user switches autosave on or off, or it is switched when nothing is open.
SetEnabled(on) ==
  /\ pc \in {"ready", "open"}
  /\ on # enabled
  /\ pc = "open" => ToggleModified \/ ~IsModified
  /\ enabled' = on
  /\ SetTimeout(on)
  /\ UNCHANGED <<historyVars, sessionVars, waitingForIdle, disk, kept>>

Next ==
  \/ Start
  \/ Crash
  \/ Started
  \/ \E p \in Path : SkipNotSaved(p) \/ RestoreNotSaved(p)
  \/ \E p \in Path : OpenDocument(p) \/ SaveAs(p)
  \/ \E yes, yesAgain \in BOOLEAN : Restore(yes, yesAgain)
  \/ \E p \in Path, t \in Text : NewDocument(p, t)
  \/ \E t \in Text : Edit(t)
  \/ Undo
  \/ Redo
  \/ Save
  \/ Close
  \/ DelayTimerExpired
  \/ IdleTimerExpired
  \/ \E on \in BOOLEAN : SetEnabled(on)

\* The program gets on with its start; a timer that runs expires, and the user
\* leaves it the moment AutoSaveMgr asks for.
Fairness ==
  /\ WF_vars(Started)
  /\ WF_vars(\E p \in Path : RestoreNotSaved(p))
  /\ WF_vars(DelayTimerExpired)
  /\ WF_vars(IdleTimerExpired)

Spec == Init /\ [][Next]_vars /\ Fairness

-----------------------------------------------------------------------------

\* A document that is open and not modified has no autosave: it would be told not
\* to have been saved properly, although it was.
UnmodifiedIsClean ==
  pc = "open" /\ ~IsModified =>
    disk.entry[docPath] = NoEntry /\ docPath \notin disk.notSaved

\* What was autosaved and is still needed can be recovered, now or after a crash:
\* the entity map leads to it, and restore_auto_save() copies it if the user agrees.
KeptIsRecoverable ==
  kept # Nothing =>
    LET e == disk.entry[kept.path] IN
    /\ e # NoEntry
    /\ disk.copy[kept.path] = kept.text
    /\ IF disk.file[kept.path] = Absent
       THEN kept.path \in disk.notSaved
       ELSE e.modified \/ e.outdated

\* A recovery that empties a document on the disk, because it does not come to its
\* end or finds nothing to copy, can be tried again.
TornIsRecoverable ==
  [][\A p \in Path :
       pc # "open" /\ disk.file[p] \in Text /\ disk'.file[p] = Torn =>
         disk'.entry[p] # NoEntry /\ disk'.copy[p] \in Text]_vars

\* The start of the program comes to its end.
StartEnds == pc = "starting" ~> pc # "starting"

\* With autosave enabled, any text the user leaves unsaved is autosaved.
WorkIsKept ==
  \A t \in Text :
    (pc = "open" /\ enabled /\ History!IsModified /\ doc = t)
      ~> \/ kept # Nothing /\ kept.text = t
         \/ pc # "open" \/ ~enabled \/ ~IsModified \/ doc # t

=============================================================================
