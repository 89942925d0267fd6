# A verification project for the Serna XML editor

Serna is a WYSIWYG editor for XML documents, written in C++ on Qt. The directory `src/sfworks`
holds its framework (document trees, undo, XPath, XSLT, layout, URI resources), `src/serna` the
application (structure editor, document windows, autosave, plugins), `src/3rd` vendored libraries
and `src/build`, `src/tools` the build system.

This project models the part that holds the user's work: the history of commands that undo and redo
walk along, the path from a key to the document, the flags and the mark that decide what a save
writes and whether the document counts as modified, the commands that change the tree of a document and
change it back, the autosave with its recovery after a crash, the catalogs by which a document finds its parts, and the dispatch of events that ties these together. Almost everything
in that part happens in one thread, in event handlers. What is hard about
it is not preemption. Several small pieces of state, kept by different classes, must agree after every
sequence of events: a pointer into the history, a flag on an entity, a bit in a command, a boolean in
the edit policy, an iterator of a loop whose body handles events, a time stamp in a file. And the process may end while files are being written.

## 1. Inventory

Each component with its state, its operations, what it shares with others, what is hard about it
and what makes it correct.

| Component | State | Operations | Talks to | Hard | Correct when |
|---|---|---|---|---|---|
| **Undo history** `sfworks/common/impl/CommandExecutor.cxx`, `Command.cxx` | list of commands, cursor `lastDone_`, mark `notModifiedAt_`, `childCount_`, `depthLimit_`, `wasCleared_` | `executeAndAdd`, `undo`, `redo`, `removeLastCommand`, `mergeLastCommand`, `setNotModified`, `clearHistory` | commands (execute, unexecute, mergeWith), structure editor | raw pointers to commands that are trimmed and cut; counters kept beside the list; merging rewrites the end of the list under the mark | commands are undone and redone where they were made; no command is done twice; the length stays bounded; *unmodified* means saved |
| **Text editing** `serna/structeditor/impl/SE_Update.cxx`, `EditPolicyImpl.cxx`, `EditingCommands.cxx`, `CommandLink.cxx`, `StructEditor.cxx` | cursor, `continueText_`, validation mode, `forceModified_`, messages held by command links | the events InsertText, Delete, Undo, Redo, Save; `executeAndUpdate`, `updateView`, `doUntil` | undo history, view, validator, user (a question in the middle of a command) | a boolean read at one event decides a merge at the end of the next; refusal and cancellation half-way through an event | merged commands undo what they did; only commands that are done are merged |
| **Elementary editing commands** `sfworks/groveeditor/impl/GroveCommands.cxx`, `GroveEditor.cxx` | per command: what it edits, `CD_IS_ENTITY_MODIFIED` | `doExecute`, `doUnexecute`, `mergeWith` of some forty classes | grove, entity declarations | a command remembers what it found, and what it found may have changed by the time it is undone | each is inverted by its undo, also when it was merged |
| **Composite commands** `sfworks/common/impl/MacroCommand.cxx`, `GroveBatchCommand` | children, progress | execute and unexecute the children in turn | elementary commands | failure half-way, in either direction | all or nothing |
| **Saving** `serna/structeditor/impl/SE_OpenDoc.cxx`, `sfworks/grove/impl/Grove.cxx`, `gsutils.cxx`, `sfworks/dav` | files, `isContentModified()` of each declaration, `isReadOnly()`, the path of the document | `saveDocument` (Save, Save As), `saveAsXmlFile` for the document, its entities and included documents | undo history (mark), commands (flags), file system | several files, of which some fail; flags that commands, undo and saves write in turn | what the editor says is saved is on the disk |
| **Autosave and recovery** `serna/structeditor/impl/StructAutoSave.cxx`, `serna/utils/impl/AutoSaveMgr.cxx`, `struct_autosave_utils.cxx`, `file_utils.cxx`, `serna/core/qt/QtSerna.cxx` | two timers, the list of the documents that wait, `topSysid_`, the autosave directory (copies, `entity.map`), the list `app/autosave/not-saved`, `app/autosave/enabled` | `notifyUpdated`, `delayTimerExpired`, `idleTimerExpired`, `setTimeout`; `subscribe`, `unsubscribe`, `processQuanta`, `timerEvent` of the list of waiting documents; `make_auto_save`, `clean_auto_save`, `restore_auto_save`; `restore_autosave` at the start | structure editor, saving, configuration, user (recovery questions), file system | crashes while it writes; timers against edits, saves and reconfiguration; recovery of a file that is newer or older | unsaved work gets autosaved, is found again after a crash, and is not offered when it is not needed; the program starts |
| **Event dispatch** `sfworks/common/impl/CommandEvent.cxx`, `PropertyTreeEventFactory.cxx` | the subscribers of a factory, the factories of a context | subscribe, unsubscribe, destruction of either side, `dispatchEvent` | everything | handlers that subscribe, unsubscribe, destroy a subscriber or dispatch during a dispatch | both sides agree; every subscriber that stays is called once |
| **Grove** `sfworks/grove/impl/Nodes.cxx`, `GrovePos.cxx`, `EntityReferenceTable.cxx`, `IdManager.cxx` | node tree, table of entity references, table of IDs | insertion, removal, copies, recalculation of the references | commands, saving, view | tables kept beside the tree | tables and tree agree after execute and undo |
| **Document lifecycle** `serna/core/impl/DocumentCommands.cxx`, `WindowCommands.cxx`, `serna/docview/impl/SernaDoc.cxx` | open documents and windows | new, open, close, reload, switch between editors | structure editor, autosave | questions and vetoes in the middle; documents opened from within an event | nothing modified is dropped without a question |
| **URI resources and catalogs** `sfworks/urimgr`, `sfworks/catmgr` | cached resources, catalogs as they were built and the time stamps of their files, the list of catalogs | resolve, build, delegate, go on, strike references | saving, parsing, configuration | order of entries, delegation, circles of catalogs; what one resolution builds and strikes is used by all later ones | the entry that the catalog standard names wins; resolution ends |
| **Remote access and locks** `sfworks/dav` | sessions, locks, downloads | lock, unlock, get, put | saving | lost locks, time-outs | a file is written only under its lock |
| **Schema validation** `sfworks/xs` | grammars, content models | load, match | structure editor (strict mode) | matching with wildcards and counters | what is accepted is valid |
| **XPath, XSLT** `sfworks/xpath`, `sfworks/xslt` | compiled expressions, result tree | evaluate, update incrementally | formatter, editing | incremental updates | the same result as from scratch |
| **Formatter, view, scene** `sfworks/formatter`, `sceneareaset`, `editableview` | areas, cursor context | layout, painting, cursor movement | editing | arithmetic of fonts | graphics |
| **User interface, property trees, plugins, plain text editor, parsing, tools** | widgets, configuration, bindings | - | all | wiring | - |

`PROJECT.json` lists each with its sources, what is modelled of it and why the rest is not, and the
hazards (which step at which line can go wrong) with the properties that watch over them.

### How the modelled parts interact

    key, menu --> EditPolicy --> StructEditor::executeAndUpdate --> CommandExecutor::executeAndAdd
                  continueText_       |  updateView: refuse, cancel      |  Command::doExecute
                                      |                                  |    setEntityModified: flag
                                      v                                  v
                             mergeLastCommand <------------------ list, lastDone_, notModifiedAt_
                                                                         |
    Save, Save As --> StructEditor::saveDocument --> Grove::saveAsXmlFile|(reads and resets flags)
                            |        setNotModified --------------------->
                            v
    edit, undo, redo --> StructAutoSaver::notifyUpdated --> delay timer --> list of AutoSaveMgr,
                            | (unmodified)                                  shared by the documents
                            v                                                  | timerEvent
                     clean_auto_save                                     make_auto_save
    start --> restore_autosave,  open --> restore_auto_save --> the files

A command of the structure editor is one of `GroveEditor::Editor`, which builds it from elementary commands
that move nodes of the grove. Menus, views and documents hear of each other through command event factories, to which
the contexts of handlers subscribe.

All of these calls are synchronous. Only three things interleave: events of the user, the timers
of the savers (which fire between events, and while an autosave shows its progress) and crashes (which may come anywhere).

## 2. Modules

| Module | Models | Uses |
|---|---|---|
| `UndoHistory` | abstract specification: a list of versions of the document, of which one is shown | |
| `CommandExecutor` | `Common::CommandExecutor` and what `Command::execute`, `unexecute` check | `UndoHistory` (refinement) |
| `CommandExecutorProofs` | theorems about it | `CommandExecutor`, TLAPS |
| `CommandExecutorRefinement` | the theorem that it implements `UndoHistory` | `CommandExecutorProofs` |
| `StructEditor` | keys, undo, redo and save in one text | an instance of `CommandExecutor` |
| `StructEditorProofs` | theorems about it | `StructEditor`, an instance of `CommandExecutorRefinement` |
| `DocumentSave` | Save and Save As of a document of several files | an instance of `CommandExecutor` |
| `DocumentSaveProofs` | theorems about it | `DocumentSave`, an instance of `CommandExecutorProofs` |
| `AutoSave` | timers, autosave directory, recovery, crashes | an instance of `CommandExecutor` |
| `AutoSaveProofs` | theorems about it | `AutoSave`, TLAPS |
| `AutoSaveQueue` | the list of `AutoSaveMgr` with several documents | |
| `AutoSaveQueueProofs` | theorems about it | `AutoSaveQueue`, TLAPS |
| `EventDispatch` | command event factories and contexts | |
| `EventDispatchProofs` | theorems about it | `EventDispatch`, TLAPS |
| `GroveTree` | elements and texts of a document, positions, moves of nodes | |
| `GroveShape` | ancestors of a node, the subtree below it, the tags and characters of a document in a row | `GroveTree` |
| `GroveCommands` | the elementary commands, and how composite ones are built of them | `GroveTree` |
| `GroveHistory` | composite commands of any elementary ones, built, given up, undone and redone one part at a time | `GroveCommands` |
| `GroveHistoryProofs` | theorems about it and about the elementary commands | `GroveHistory`, TLAPS |
| `GroveSelections` | removing, tagging, copying a selection; pasting | `GroveCommands`, `GroveShape` |
| `GroveEditor` | the operations of the editor, undo, redo; what the operations are for | `GroveSelections` |
| `CatalogResolver` | XML catalogs: building, resolving, circles, files that change | |
| `MC...` | model values and symmetry for TLC | the module it is named after |

`StructEditor`, `DocumentSave` and `AutoSave` do not repeat the history. They hold its variables and take its actions
(`History!ExecuteAndAdd`, `History!Undo`, ...) as conjuncts of theirs, with the contents of a document
instantiated by a text, by a function from files to texts, and by an abstract text. What is proved of
`CommandExecutor` is therefore proved of the history in each of them.

In all modules `map` in `PROJECT.json` gives for each definition the lines it stands for. A definition
`X_Mistake` is `X` with a mistake that some property notices; nothing uses it.

### CommandExecutor

A command is a heap object, and `lastDone_` and `notModifiedAt_` are raw pointers, so the module knows
commands by *address*: `Command` is the set of addresses an allocator may return, and `Fresh` gives a
new command one that no living command has. Whether the address still held by `notModifiedAt_` may be
given out again, after the command it named was freed, is the constant `AddressReuse`; the C++
allocator does that.

`add()` cuts the redo tail, trims the oldest command if there are more than `depthLimit_`, and appends,
in one action, as the code does in one call. The depth test comes before the append, which is why a
limited list holds one command more than its limit. `removeLastCommand()` and `mergeLastCommand()` are
guarded as their callers call them: the editor removes only a command it has just undone and merges
only one it has just done (`RewriteLast`). Reopening a document makes a new executor. A command that is
not valid or throws changes nothing, so it is no action.

### StructEditor

One text node, a cursor, and the handlers that run for a key. An event of the editor is a sequence of
steps (`pc`): `executeAndUpdate` makes and does the command, `updateView` shows it, refuses it (strict
validation) or lets the user cancel it, and `mergeLastCommand` joins it to the one before when the typing
goes on. Nothing else runs between those steps, and the question to the user is where they
may part. `continueText_` is the boolean by which the edit policy knows that the typing goes on: read
when a key comes, set at once for the next key, cleared by anything that has a handler of its own.
Which events fail to clear it is the constant `Interrupts`:

* `"shortcut"`: undo, redo and save by keyboard shortcut do not pass through a handler that clears it;
* `"cancel"`: the stylesheet may give a command no visual effect, or not show the place that the command suggests for the cursor. The user may then cancel the command, or
  proceed, and the cursor is put back to where it was (`PutBack`; an undo or redo does so without asking);
* `"strict"`: strict validation may be switched on, and then refuses commands.

A command carries what `mergeWith()` looks at: kind, position, text and validation messages. `Execute`
and `Unexecute` are what `doExecute` and `doUnexecute` do to the text, so `CommandsInvert` is about real
insertion and removal, not about the versions that `CommandExecutor` takes for granted.

### DocumentSave

Every file has a *content as edited* and, at each place it can be, a state of the disk: a text, absent, or
torn. `flag` is `isContentModified()` of the file's declaration, the only thing `saveAsXmlFile` goes by
when it decides whether to write an entity or an included document. Each command has the bit by which undo
puts the flag back. Save As goes to `"beside"` (another name in the same directory: entities stay where
they are) or `"away"` (another directory: entities are forced along). Included documents are referred to
by absolute URL and stay. Faults are `OpenFails` (a file that may refuse to open, noticed by the code) and
`WriteFails` (a write that fails later, which the code does not notice).

Assumptions of this module: a Save As goes only to a place with no such document (the code asks before it
overwrites); included documents have no entities of their own; and, in the passing run, a command
done before a save is not undone after it (`UndoWritten = FALSE`; what happens otherwise is the
run `undo_after_save`).

### AutoSave

The disk is part of the state: each document's file, its copy and its entry in `entity.map` in the autosave
directory, and the list of new documents. A function that writes files is a sequence of states of the disk
(`Writing`, `Cleaning`, `Copying`, `Autosaving`). An event that completes ends in the last of them; a crash
(`Down`) leaves any one of them. Timers are booleans: a delay that runs, then a wait for the moment when no
event is pending. `kept` is not in the program: it is the autosave the user may rely on, the last one that
completed until its text is saved, discarded or recovered. The properties compare it with the disk.

One document is open at a time and it has one file. When a start recovers a new document, the rest of the
list waits for the next start. `CrashIn` says when the program may crash, with `"autosave"` (a
first autosave) apart from `"overwrite"` (a repeated one), and `"clean"` (the copy is removed and the map is
not) apart from `"unclean"` (any other moment of a removal), because the code survives the ones and not
the others. `MaySaveAs`, `UndoMisleads` and `ToggleModified` each let in one situation in which the code does
not keep the property that a passing run checks without it (section 5).

### AutoSaveQueue

What `AutoSave` takes as one step, "the idle timer expires", is here the list in which the documents wait: each saver has its delay
timer and two flags, `AutoSaveMgr` has the list and a timer, and `timerEvent()` walks the list until an event is pending. `served` is the
saver whose handler it has called. That handler shows a progress bar and so handles events: delay timers of other documents expire, and
another process may ask for a document to be opened. The user's events are dropped meanwhile by `StageEventFilter` (`UserEvents`), and
that is what keeps `timerEvent()` from popping the wrong entry. What is left out: reconfiguration of the savers (it is in `AutoSave`) and a
failing autosave, which ends the same way.

### EventDispatch

A factory keeps a multimap from contexts to subscriptions, a context keeps the set of its factories, and the destructor of either strikes it from the
other. `dispatchEvent()` walks the multimap with an iterator while it calls the handlers. `calls` is the stack of these walks. A context is
a number, because the multimap orders its entries by address; a ticket stands for the order of arrival under one address. `standing` and `told` are not in the
program: they say which entries were there when the walk began and which it has come to. The code relies on one thing of its
handlers, and so does the module: a handler neither destroys nor unsubscribes its own context, nor destroys the factory that called it
(`Runs`, `Dispatches`). No handler in the program does. Forwarding of events to the next context keeps no state and is left out; so is the tree of factories of the property trees.

### GroveTree, GroveShape, GroveCommands, GroveSelections, GroveEditor, GroveHistory

A grove is the children of each element and the name or text of each node. A node is an address, and a removed node keeps its children and
its text: a command holds a reference to it and puts back the same node. Positions are those of `GrovePos`: an index
in a text, or an element and the child after the position, `Null` at the end.
`GroveTree` has no recursive operator, so that theorems can be stated about it; what is computed along the tree (ancestors, the text of a subtree) is in `GroveShape`.
`Forest` says what a tree is without recursion: no node is at two places, in a text or in itself, and of any set of elements with children one is a child of none of them.

An elementary command is a record of what its object keeps. `Execute` and `Unexecute` are its `doExecute()` and `doUnexecute()`; `SuggestedDone` and
`SuggestedUndone` are its `pos()`, where it leaves the cursor. A composite command is built by executing its parts one after the other, each made for the grove that the
parts before it left: a record `st` with the grove, the parts so far and whether all succeeded is handed on, and `Then(st, c)` adds a part. That is
`MacroCommand::executeAndAdd`, and `Undone` is its rollback and its undo. An operator `ThenX` adds the parts of `X`. A position that a command was
told to keep valid (`adjustPos`) is `drop`.

`GroveEditor` has an action for each operation of the editor, and puts them on a list that is undone and redone. `Wanted` is the reference definition of what they are for.
It knows nothing of nodes and indexes: a document is its tags and characters in a row, a selection is a range of that row, and an operation takes away
or puts in a piece of it, with the tags whose other half is not selected treated as the operation promises (they stay, in a cut; they are completed, in a copy;
they are closed before and opened after, around a tagged region).

`GroveHistory` is the same history seen from the other end. It knows nothing of operations: a composite command is any elementary commands, one after the other, with new nodes or with nodes that are in the document.
Each turn of a loop of `MacroCommand` is a step, so that one may look at the grove between two parts, and a command is given up, undone and redone from there. Its nodes are all in the grove
from the start, at no place of it, with the names, texts and children that they will have, where a constructor of the code makes them. That a part is what a constructor and the code
around it can make is `Fits`: a node to be inserted is in no place, a text that is removed is what stands there, what a fragment is taken from are neighbours. Of the parts that the
operations of `GroveEditor` make this is the property `PartsFit`.

A part that throws while it is undone (`MacroCommand.cxx:100`) is not modelled: none of the twelve commands throws when it is undone. The one check they have there, in `Join::doUnexecute` (`GroveCommands.cxx:1592`), repeats a check that `doExecute` has made (`GroveCommands.cxx:1570`).

Left out: sections that lay entity references, choices and redlining over the tree, attributes, replication of a command to several references of one
entity, and merging (it is in `StructEditor`). A selection is dropped only where it does not touch what is dragged: in that case the code uses a stale position (section 5). New
commands of `GroveEditor` are made when nothing is left to redo; `GroveHistory` cuts the redo tail. It does not limit the depth, which is `CommandExecutor`'s.

### CatalogResolver

A catalog is built from its file when a resolution comes to it and the file is newer than what was built. It is then shared by all documents
and kept, whatever the list of configured catalogs is. The state is the files with their time stamps, the catalogs as built, and the list. A
resolution is one step (`Ask`): a record that goes through `Visit`, `Build`, `ResolveOf`, `ProcessDelegates` and `ProcessNexts` as the `Resolver` goes through
the functions of these names, with the set of the catalogs it has visited, its identifiers (a delegation clears one of them for good) and the catalogs as it leaves them.
A reference to a catalog that was visited is not built, or is erased if it was.

`Defined` is the reference definition, written from the files alone: the best entry of a catalog, or else its delegates in the order of their length, or else the next catalogs, where a
way never comes back to a catalog that it has come through.

Identifiers are sequences, as far as `norm_uri` and `norm_pubid` leave them. Left out: what the parser resolves while it reads a catalog, catalogs that are not files (they
are built once), and the copies of the list to which a document adds its own catalogs: they share the catalogs that are built and strike them in the same way.

## 3. Runs

| Run | Instance | Distinct states | Shows |
|---|---|---|---|
| `history` | 4 addresses, 3 documents, depth limit 2, merging and cancelling | 1 201 | `ExecutedPrefix`, `CommandsInContext`, `DepthBound`, `MarkIsSaved`; and `KeepsPromise`: the list with its cursor implements `UndoHistory` |
| `editor` | 2 characters, texts up to 2, 3 addresses, no interrupts | 203 984 | `CommandsInvert` over merged commands; `UnmodifiedIsSaved` |
| `editor_interrupted` | the same, with every interrupt | 766 344 | `MergeSeesDone`: whatever is refused or cancelled, a merge is of two commands that are done |
| `save` | a top document, one entity, one included document; Save As beside and away; top document or entity may refuse to open | 773 564 | `FlagSound`, `UnmodifiedIsOnDisk` |
| `autosave` | 2 paths, 2 texts; crashes between events, at a prompt, in a save, in a recovery, in a first autosave, in a removal; Save As | 164 682 | `KeptIsRecoverable`, `TornIsRecoverable` |
| `autosave_live` | 2 paths, 2 texts; crashes between events | 18 534 | `StartEnds`, `WorkIsKept` under fairness; `UnmodifiedIsClean` |
| `autosave_queue` | 3 savers | 2 213 | `WaitingIsQueued`, `ServedIsFront`, `ChangedIsWaiting`; under fairness `ChangedIsAutosaved` |
| `event_dispatch` | 3 contexts, 2 factories, 4 subscriptions, dispatches nested 2 deep | 400 330 | `Registered`, `IteratorValid`, `ToldOnce` |
| `grove_editor` | two documents with one command, one small document with two; three clipboards | 207 377 | `UndoRestores`, `CursorInGrove`, `DoneAsWanted`, `CopiesSelection`, `PartsFit` |
| `grove_history` | two documents with two parts in all commands, one small document with three; one or two new elements and texts | 186 738 | `ForestKept`, `UndoRestores`, `RedoSucceeds` |
| `catalogs` | 3 catalogs, three lists that begin at either side of a circle, up to two contents each with 17 entries in all, identifiers of all three kinds, two writes | 410 016 | `AnswersAsDefined`, `OnlyCirclesAreStruck` |
| `undo_after_save` | as `save`, `UndoWritten` | violation | `UnmodifiedIsOnDisk` fails |

Counts are after symmetry reduction, which permutes addresses, documents, characters, paths or factories. It is not used in
the runs with liveness properties, nor in `grove_editor`, `grove_history` and `catalogs`. Every run but `editor_interrupted`, `autosave_live` and `grove_editor` checks the type invariant of its module, too.

### What the properties say

* **`CommandsInContext`**: every command is undone and redone in the document it was made for, whatever was trimmed,
  cut, merged or cancelled. This is what makes `doUnexecute` of a grove command, which holds node pointers, safe to call.
* **`ExecutedPrefix`**: the executed bits and the cursor agree, so neither `undo()` nor `redo()` can throw.
* **`MarkIsSaved`, `UnmodifiedIsSaved`**: the pointer comparison in `isModified()` really compares documents.
* **`CommandsInvert`**: a command, merged or not, makes the document it is said to make and takes it back.
* **`FlagSound`**: an entity or included document that differs from its file is flagged, so the next save writes it.
* **`UnmodifiedIsOnDisk`**: a document that counts as unmodified is on the disk, in all its files.
* **`KeptIsRecoverable`**: the last autosave of unsaved work leads, by the map, the flag, the time stamp and the
  list, to a recovery that gives the text back, in every state, also when the program is down.
* **`TornIsRecoverable`**: a recovery that empties a document on the disk leaves the means to try again.
* **`UnmodifiedIsClean`**: the autosave goes away with the last unsaved change.
* **`WaitingIsQueued`**: the flag of a saver and its place in the list agree, so that the odd walk of `unsubscribe()`, which steps over the
  entry behind the one it erases, misses nothing, and no saver stays out of the list with a flag that keeps it from coming back.
* **`ServedIsFront`**: after its handler has handled events, `timerEvent()` still pops the entry it called.
* **`ChangedIsWaiting`**: a document changed since its last autosave always has a timer that runs or a place in the list. It is what remains of the next one without fairness.
* **`ChangedIsAutosaved`**: every changed document is autosaved in the end, saved or closed, whatever the other documents in the list do.
* **`Registered`**: whichever of a factory and a context is destroyed first, no reference to it remains on the other side.
* **`IteratorValid`, `ToldOnce`**: the walk of a dispatch never stands on an erased entry, and each subscriber that is there from its begin to its end is told once, however often handlers
  subscribe, destroy and dispatch in between.
* **`UndoRestores`** of `GroveEditor`: undo and redo of any operation bring back the same nodes in the same places; an operation that fails half-way leaves the document as it was.
* **`PartsFit`**: the parts that the operations make are made for groves that they fit. It joins `GroveEditor` to the theorems on the elementary commands, whose hypothesis it is.
* **`UndoRestores`** of `GroveHistory`: the same of any composite commands, also after each of their parts, and not only of the document but of the whole grove: the nodes that are in no place
  are as they were, too, and commands that are still to be undone or redone rely on that.
* **`ForestKept`**: whatever is executed, given up, undone and redone, a node is never at two places, in itself or below itself.
* **`RedoSucceeds`**: a part that was executed once can be executed whenever it is redone. `MacroCommand::doExecute()` does not undo the parts before one that fails, so that a failure would leave half a command behind.
* **`DoneAsWanted`, `CopiesSelection`**: whatever elements a selection begins and ends in, and wherever it is pasted or dropped, the document becomes what `Wanted` says, and the clipboard holds what was selected.
* **`CursorInGrove`**: the place a command suggests for the cursor, after it is done and after it is undone, exists: it is not in a text that a join has removed.
* **`AnswersAsDefined`**: whatever was asked before and whatever was written or removed since, an identifier is resolved to what the files say now, except in a state of `ReferenceLost`: a resolution from another
  list has struck a reference that led it back, from a catalog to which the present list leads in another way. The code answers wrong in some of these states (section 5), and the run shows that it does so in no other.
* **`OnlyCirclesAreStruck`**: a catalog that is up to date has all of its file, except for references that can lead back to it. Neither `check_circular` when it is built nor the `erase` of a later resolution strikes anything else, which would be lost to all resolutions to come.
* **`StartEnds`, `WorkIsKept`**: the program gets through its start; with autosave on, text left unsaved is autosaved.

### Bounds

* `history`: the longest list is three commands (limit 2, plus one), so `MaxHistory = 4` cuts nothing off; four addresses
  leave one for a mark that points at a freed command. Three documents tell a chain from a cycle. The theorems of section 4 have no bounds.
* `editor`: texts up to two characters and two commands in the list are the smallest with a merge of two,
  a cut, a trim (`DepthLimit = 1`) and an insertion elsewhere than at the end.
* `save`: three commands put one on each file, or two on one file with a save and an undo between them. One entity and one included
  document are enough for every combination of files that are written, passed over and reset, because they are handled in a loop without state except the answer.
* `autosave`: two paths are what Save As, or a second document opened after the first, needs. Three commands before a save allow an
  undo past it and a redo. Further texts add nothing: texts are only compared.
* `autosave_queue`: with three documents one is served while one is behind it in the list and one comes or goes.
* `event_dispatch`: three contexts put a subscriber before, at and after the iterator; four subscriptions allow two entries of one context in one factory. The theorems of section 4 have no bounds.
* `grove_editor`: the two large documents have texts on both sides of an element and inside it, elements in which the sides of a selection are at different
  depths, an empty element, and neighbours that can be joined; every selection in them is tried with every operation. A second command, after which two are undone and redone, is tried on `<p>a<q>b</q></p>`. `MaxElements` and `MaxTexts` are
  more than any of these reach.
* `grove_history`: every elementary command is executed in one of the documents with every node and place it can be given there, and a second one after it, in the same command or in another; with each pair, the first can be
  undone before the second is made, and both are undone and redone in part. The third part, which one document is small enough for, comes between two others. The theorems have no bounds.
* `catalogs`: two of the catalogs are a circle of next catalogs or delegations, one is behind them and leads nowhere, and all kinds of entries occur. The lists begin at either side of the circle, so that each of the two is built with
  a reference to the other, and one of these is erased by a later resolution; a list of two goes on to the catalog that is behind the circle. With two writes a file
  is written, removed and written again, or two files of one circle are written after both were built. `ReferenceLost` is true in less than a tenth of the states. Each catalog is referred to by one other: what happens otherwise is in section 5.
* `DepthLimit = 0` (unlimited) in `save` and `autosave`: trimming is covered by `history` and `editor`.

### Fairness

`WF(DelayTimerExpired)` and `WF(IdleTimerExpired)`: Qt fires a timer that runs, and `AutoSaveMgr` calls the handler
as soon as no event is pending, which happens whenever the user pauses. In `AutoSaveQueue` the same is said in more detail: the timers, the idle handler and the autosave that runs are weakly fair (`WF` of `DelayTimerExpired`, `ProcessQuanta`, `TimerEvent`,
`Served`), and `timerEvent()`, which gives up when it sees an event pending, does not see one every time it is called for ever (`SF` of `TimerEvent /\ Serve(subscriberList)`: the user pauses again and again).
`WF(Started)` and `WF(RestoreNotSaved)`: the loop in
`QtSerna::restore_autosave` runs in the main thread and goes on by itself. `SkipNotSaved` is a turn of that loop that changes nothing.
No fairness is assumed of the user: neither edits, saves, answers nor the start of the program are ever owed. A crash is never fair.

## 4. Proofs

`CommandExecutorProofs` and `CommandExecutorRefinement` prove, with TLAPS, for every set of addresses and documents, every depth limit and every length of the list:

| Theorem | Says | Under |
|---|---|---|
| `TypeCorrect` | `Spec => []TypeOK` | |
| `NamesAreDistinct` | `Spec => []DistinctCommands` | |
| `CursorSplitsHistory` | `Spec => [](DistinctCommands /\ ExecutedPrefix)` | |
| `HistoryIsAChain` | `Spec => []CommandsInContext` | |
| `HistoryIsBounded` | `Spec => []DepthBound` | |
| `HistoryKeepsPromise` | `Spec => KeepsPromise`: the specification `UndoHistory` is implemented | |
| `MarkPointsAtSaved` | `Spec => []MarkIsSaved` | `~AddressReuse` |
| `UnmodifiedMeansSaved` | `Spec => []UnmodifiedIsSaved` | `~AddressReuse`, `~RewriteLast` |

`AutoSaveQueueProofs` proves, for every set of savers, and `EventDispatchProofs`, for every set of contexts and factories, any number of subscriptions and any depth of dispatches:

| Theorem | Says |
|---|---|
| `QueueTypeCorrect` | `Spec => []TypeOK` |
| `ListIsWaiting` | `Spec => []WaitingIsQueued` |
| `FrontIsServed` | `Spec => []ServedIsFront` |
| `OnlyModifiedWait` | `Spec => []WaitingIsModified` |
| `NoChangeIsForgotten` | `Spec => []ChangedIsWaiting` |
| `DispatchTypeCorrect` | `Spec => []TypeOK` |
| `SubscriptionsAgree` | `Spec => []Registered` |
| `IteratorsStayValid` | `Spec => []IteratorValid` |
| `EveryoneIsToldOnce` | `Spec => []ToldOnce` |

`StructEditorProofs`, `DocumentSaveProofs` and `AutoSaveProofs` prove, for every set of characters, texts, files, paths and addresses, and every length of text and history:

| Module | Theorem | Says | Under |
|---|---|---|---|
| `StructEditorProofs` | `EditorTypeCorrect` | `Spec => []TypeOK` | |
| | `MergesWhatIsDone` | `Spec => []MergeSeesDone` | |
| | `TypingKeepsPromise` | `Spec => HP!KeepsPromise`: the history, as the keys use it, implements `UndoHistory` | |
| | `CommandsTakeBack` | `Spec => []CommandsInvert` | `Interrupts = {}` |
| | `TypedTextIsKept` | `Spec => []UnmodifiedIsSaved` | `Interrupts = {}`, `~AddressReuse` |
| `DocumentSaveProofs` | `DocumentTypeCorrect` | `Spec => []TypeOK` | |
| | `FlagsTellModified` | `Spec => []FlagSound` | `FlagsRelied` |
| | `UnmodifiedFilesAreOnDisk` | `Spec => []UnmodifiedIsOnDisk` | `DiskRelied` |
| `AutoSaveProofs` | `AutoSaveTypeCorrect` | `Spec => []TypeOK` | |
| | `TornCanBeRecovered` | `Spec => TornIsRecoverable`, an action property | `"clean" \notin CrashIn` |
| | `AutosavesAreRecoverable` | `Spec => []KeptIsRecoverable` | `~UndoMisleads`, `"overwrite" \notin CrashIn` |
| | `UnmodifiedHasNoAutosave` | `Spec => []UnmodifiedIsClean` | `~MaySaveAs`, `~AddressReuse` |

`GroveHistoryProofs` proves, for every set of names and characters, every number of nodes, every document, and any number and size of commands:

| Theorem | Says |
|---|---|
| `CommandsAreUndone` | each of the twelve elementary commands, executed on a grove that it fits and where its preconditions hold, leaves a grove that is a forest, and undoing it brings back exactly the grove that there was |
| `TypeCorrect` | `Spec => []TypeOK` |
| `ForestAlways` | `Spec => []ForestKept` |
| `UndoRestored` | `Spec => []UndoRestores` |
| `RedoAlwaysSucceeds` | `Spec => []RedoSucceeds` |

`FlagsRelied` is: nothing that was written is undone (`~UndoWritten`); an entity or included document that could be opened is written; included
documents open; and if the document can be saved to another directory, an entity that may not open there is the only one.
`DiskRelied` adds that no file fails to be written and that the top document is not write-protected. Such hypotheses leave out what the
code gets wrong, and no more: each is one of the switches and faults of section 5, where a configuration without it violates the property, and
the theorem covers every other combination of crashes, faults and switches.

The assumptions of the first table are those of `CommandExecutor`: the null pointer is no address (`NullAssumption`), the depth limit is an integer
and the bound a natural number (`LimitAssumption`), the two switches are Boolean (`SwitchAssumption`). The other modules assume the same of their histories, and of their own constants that values standing for
nothing (`NoText`, `Absent`, `Torn`, `Nothing`, `NoEntry`) are different from those that stand for something, that a file is the top document, an entity or an included document and
only one of these, and that sets of interrupts, faults and crashes have members that the module knows. Two assumptions bound the model and not the code: texts are no longer than `MaxText`, which is any number,
and `AutoSave` does not trim the history (`UnlimitedAssumption`; the trimming is in the other instances).

**The inductive invariant.** None of the properties is inductive alone. `undo()` follows `lastDone_` to a child: that it lands on the
child it was set to needs that addresses are distinct; that the child is executed needs `ExecutedPrefix`; that the document it
leaves is the one the next `undo()` expects needs the chain of `CommandsInContext`; and `add()` keeps the bound only if `childCount_` counts
what is there. `HistoryInv` is their conjunction with `TypeOK`. Each action has a lemma that it keeps `HistoryInv`, resting on
lemmas about the list: where an address is found (`PositionOf`), what the two tests of the code say of the cursor (`CursorFacts`),
what is left of the list after a cut and a trim (`ExecuteMakes`), and after the last command is dropped (`DropKeeps`,
used by removal and by merging).

**The mark.** `MarkIsSaved` is preserved by a step only given `HistoryInv`, and for `add()` only if the new address is not the one in the
mark: that is the assumption `~AddressReuse`. `UnmodifiedIsSaved` needs one thing more. A null mark says that the saved document is the
one *before* the first command, unless the list was trimmed: `FloorIsSaved`. Merging and cancelling break that: they may reset the mark
to null when the saved document was not before the first command. So `~RewriteLast` is an assumption of the last theorem, and the need for
both assumptions is shown by violated configurations (the two rows of `UnmodifiedIsSaved` in section 5).

**The refinement.** `UndoHistory` has a list of versions and a position. `Versions` reads the list off the commands (the document the
first was made for, then the document each made) and the position is one more than the cursor. `AreVersions` says what such a
list is without naming the variables, so that one lemma serves before and after a step. `Shown` says that the version at the position is the document, which
is where `CommandsInContext` comes in. Then each action has a lemma that it is the action of `UndoHistory` it stands for: a command with its cut and its trim is
one `Edit`, a cancellation is a `Withdraw`, a merge is a `Merge`; undo and redo leave the versions as they are. The steps on
sequences (a piece of a list, and one element more) are `IsSlice` and `IsSliceAndOne`.

**The list of the autosaves.** `QueueInv` is the conjunction of `TypeOK`, `WaitingIsQueued`, `ServedIsFront` and `WaitingIsModified`. They lean on each other: that the entry popped is the one that was
served needs that the list has no entry twice and that nobody leaves it while one is served; that nobody does needs that only
modified documents wait, so that a document that is saved or closed is the only one that leaves. The lemmas about the list say what subscribing, unsubscribing and popping do to its range and
that they keep it injective; each action then has one step. `ChangedIsWaiting` is inductive alone.

**The dispatch.** `DispatchInv` joins `TypeOK` and `Registered` to `Walks`, which says of every call on the stack what `ToldOnce` and `IteratorValid` say, and that
tickets of entries that stood at its begin are older than any that come. New entries have the newest ticket, so an entry that is inserted
during a walk is either before the iterator and not among the standing ones, or behind it and still to come; a step of the iterator passes over no entry because it goes to the first of the `Rest`.

**One history in three places.** `StructEditorProofs` and `DocumentSaveProofs` instantiate `CommandExecutorProofs` as `HP` (the first by way of `CommandExecutorRefinement`) with what their modules
give to `CommandExecutor`. `SameStates` and `SameSteps` say that the actions and the invariant of `HP` are those of `History`, and what a step does to the
list is then taken from the lemmas of the history: `HP!HistoryInv` is a conjunct of both invariants. `AutoSave` needs less of the list, that the cursor is
null or in it, and proves that by itself.
`TypingKeepsPromise` needs no more than that every step of `StructEditor` is one of `HP` or leaves the history alone (`StepOfHistory`), so that `HP!Spec` follows, and then is `HP!HistoryKeepsPromise`.
There is no such theorem about `DocumentSave`: its `Reopen` reads the document from the files, which need not be what was reported as saved, and the history promises nothing across that.

**Typing.** `EditInv` says what holds with any interruption: the handler's place (`pc`) tells how much of the list is done, so that the merge, which comes after it, sees everything done. `TextInv` adds
what the commands do to the text. Their lengths always fit (`Sized`), and with them the cursor; that they make what they say (`Makes`) needs more: a merged command appends what was
typed later to what was typed before, wherever it was typed. So `TypingOK` says that while typing goes on, the cursor is where the last command left it, and
that the key about to be merged begins where the command before it ends; `MergedFits` then is a fact about insertions (`InsertsJoin`). `MarkInv` adds that no typing goes on over the mark: a save ends
the typing, so that the command which a merge drops or rewrites is never the one that the mark stands for. This is why `UnmodifiedIsSaved` holds here, although the history alone has
`RewriteLast` as a counterexample.

**Flags.** An undo puts back the flag its command found. That is right if the files are still as they were when the command found the flag clear: `BeforeOnDisk`, for the done commands that no save
has passed over (`written`). With `EditsOneFile` an undo then leaves the other files alone. Of the commands that are
not done it says nothing: a command that is done again records the flag as it finds it then.

**The disk.** `MarkOnDisk` finds the place of the mark in the list: the number `m` of the command after which the document was saved. Either the disk holds that document, or a later command was on the
disk too (`MarkAt`); since commands that were written are not undone (`WrittenDone`), the document is reported as not modified only when the cursor is at `m`, and then no later command is done. No assumption about reused addresses is
needed: as written commands stay done, the command at the mark leaves the list only by trimming, and that sets `wasCleared`.

**Recovery.** `SessionInv` joins the types to what the saver has when no document is open. `EntryHasCopy` says that an entry of a map has a complete copy; the lemmas about the states
a file operation goes through (`Cleaning`, `Copying`, `Writing`) say that a crash at any of them keeps it, except the one between the copy and the map. `Recoverable` says the same of the one autosave that must not
be lost, and needs of the session that what waits for an autosave has either something to undo or no file to be recovered over (`WaitingCounts`). `CleanInv` is about the files of an unmodified document.

**The commands of the grove.** `CommandsAreUndone` is about moves of nodes among sequences of children. Two lemmas carry it: `Put` (nodes that are in no place are put between two pieces of the children of an
element) and `Take` (they are taken from between them), each with what it does to the places of all other nodes, and so to `OnePlace`; and `PutTaken` and `TakenPut`, that one takes back the other. The operators of
`GroveTree` look places up from nodes (`Parent`, `Index`, `AfterNode`); `PlacePieces`, `RowPieces` and `PosPieces` turn those into pieces of a sequence. With them each command
is a few puts and takes, and its lemma `...Inverts` follows them forth and back: a join of elements, for instance, takes all children of the second, puts them behind those of the first, takes the
second, and back. That no element comes to be below itself is `NoNewCycles`: nodes that are put into an element do not have it below them. It speaks of sets that are closed under children (`Below`),
as nothing here can be said by recursion.

**The history of the grove.** With `CommandsAreUndone` the rest does not look into commands. The inductive invariant `IInv` has a `Chain` for each command of the history and the one that is worked on: the groves it has gone
through, one more than its parts, each part fitting the grove before it and leading to the one after it. `HistoryInv` joins the chains to each other and `WorkInv` says where in its chain a command that is built, given up, undone
or redone is. The groves are compared as a whole, with the nodes that are in no place. That is what makes the invariant inductive: a part that is redone needs its nodes to be as they were when they
were last taken out, not only the document to be. Each action that makes a part has a lemma that the part fits (`InsertTextFits`, ..., `TagNodesFits`). The assumptions are that the bounds are numbers (`NodesAssumption`, `PartsAssumption`), that the documents
are forests (`DocumentsAssumption`) and that typed characters are characters (`NewCharAssumption`).

Only model-checked: the properties of `GroveEditor` and of `CatalogResolver`, and liveness. These two modules use recursive operators, because trees and chains of catalogs are of any depth: what they compute is
a matter of induction over data, which is out of the prover's reach, and so are liveness under fairness (`StartEnds`, `WorkIsKept`, `ChangedIsAutosaved`) and `ENABLED`. For `GroveEditor` the theorems on `GroveHistory` do much of what
a proof would: by `PartsFit`, which TLC checks, each of its commands is one of those that they speak of.

## 5. Where the code does not do what it says

One run ends in a counterexample that the code really has (`findings` in `PROJECT.json` quotes the line of the source that says otherwise).

| Run | In short |
|---|---|
| `undo_after_save` | edit an entity, save, undo, save: the second save leaves the entity out and reports success |

The same modules show more, with these changes to a configuration (`check` replaces its properties):

| Take | With | Violated | Why |
|---|---|---|---|
| `MCCommandExecutor.cfg` | `AddressReuse = TRUE`, `RewriteLast = FALSE`, check `UnmodifiedIsSaved` | `UnmodifiedIsSaved` | do a command, save, undo it, do another that gets the freed address: the document looks saved |
| `StructEditor.cfg` | `Interrupts = {"shortcut"}` | `CommandsInvert` | type, move, type, undo by shortcut, type: the new text is merged into a command that was made elsewhere, and undo removes other characters (`Command.h:86` asks `mergeWith()` to answer FALSE) |
| `StructEditor.cfg` | `Interrupts = {"cancel"}` | `CommandsInvert` | `updateView()` answers TRUE for a cancelled command, and the two before it are merged; it does so, too, when it has put the cursor back and the user proceeds, and the next key is inserted before what was typed but merged behind it |
| `StructEditor.cfg` | `Interrupts = {"strict"}` | `CommandsInvert` | a refused key leaves `continueText_` set |
| `StructEditor.cfg` | `Interrupts = {"shortcut"}`, `{"cancel"}` or `{"strict"}`; check `UnmodifiedIsSaved` | `UnmodifiedIsSaved` | a key merged into a command done before a save resets the mark |
| `StructEditor.cfg` | `AddressReuse = TRUE`, check `UnmodifiedIsSaved` | `UnmodifiedIsSaved` | as for the history alone |
| `AutoSaveLive.cfg` | `AddressReuse = TRUE`, check `UnmodifiedIsClean` | `UnmodifiedIsClean` | the same: a document that looks unmodified has an autosave of its changes |
| `UndoAfterSave.cfg` | as it is, or `UndoWritten = FALSE` and `WriteFails = {entity}`, or `UndoWritten = FALSE` and `OpenFails = {included}`; check `FlagSound` | `FlagSound` | the flag of a file that is not on the disk is clear |
| `UndoAfterSave.cfg` | `UndoWritten = FALSE`, `Protected = {top}` | `UnmodifiedIsOnDisk` | Save As of a write-protected document beside itself writes nothing and reports success |
| `UndoAfterSave.cfg` | `UndoWritten = FALSE`, `OpenFails = {included}` | `UnmodifiedIsOnDisk` | the flag of an included document is reset although it was not written |
| `UndoAfterSave.cfg` | `UndoWritten = FALSE`, `WriteFails = {top}` | `UnmodifiedIsOnDisk` | `close()` of a local file answers OK whatever became of the writes |
| `UndoAfterSave.cfg` | `UndoWritten = FALSE`, `Entity = {entity, entity2}`, `Included = {}`, `Place = {"away"}`, `OpenFails = {entity}`, check `FlagSound` | `FlagSound` | flags of entities that were written at the new place stay reset when Save As gives up |
| `AutoSave.cfg` | `CrashIn = {"clean"}`, check `TornIsRecoverable` | `TornIsRecoverable` | the copy is removed before the map that names it; a recovery after a crash in between empties the document |
| `AutoSave.cfg` | `CrashIn = {"overwrite"}`, check `KeptIsRecoverable` | `KeptIsRecoverable` | a second autosave empties map and copies of the first |
| `AutoSaveLive.cfg` | `CrashIn = {"idle", "prompt"}` | `StartEnds` | a crash at the question about a recovered new document: its file is there now, so the loop of `QtSerna::restore_autosave` (`QtSerna.cxx:504`) never takes it off the list |
| `AutoSaveLive.cfg` | `ToggleModified = TRUE` | `WorkIsKept` | autosave switched on in a modified document waits for the next edit |
| `AutoSaveLive.cfg` | `MaySaveAs = TRUE` | `UnmodifiedIsClean` | `topSysid_` keeps the old path after Save As, so the autosave at the new one is not removed |
| `AutoSave.cfg` | `CrashIn = {"idle"}`, `UndoMisleads = TRUE`, check `KeptIsRecoverable` | `KeptIsRecoverable` | an autosave made after undo past a save is marked as not modified, and is not restored |
| `CatalogResolver.cfg` | check `Answered`, which is `AnswersAsDefined` without its condition | `Answered` | a circle that was entered at one side is struck there for good: after `[Sub]` was configured and searched, the references of `Root` to `Sub` are gone (`CatalogBuilder.cxx:162`), `Root` is up to date and is not built again (`Catalog.cxx:290`), catalogs are never freed (`CatalogHolder.cxx:110`), and under `[Root]` what only `Sub` has is not found |
| `CatalogResolver.cfg` | `Entries <- SharedEntries` (two catalogs lead to the same one), check `OnlyCirclesAreStruck` or `Answered` | `OnlyCirclesAreStruck`, `Answered` | a catalog that was visited on another branch counts as a circle: the reference to it is struck for good, also for resolutions that come only to the catalog it was struck from (these are states of `ReferenceLost`, `AnswersAsDefined` holds) |
| `CatalogResolver.cfg` | `Ticks = {0, 1}` (a file written twice in one second) | `AnswersAsDefined` | the second version has the time stamp of the first and is not read |

Met while the grove's commands were translated, and outside of what the model enumerates or checks:

* A selection dropped at its own edge is pasted at a position that the cut has made stale (`SernaDragData.cxx:386`, `GroveCommands.cxx:800`).
* `TagRegion` refuses a selection that starts just before the element it ends in (`GroveCommands.cxx:997`), and given an empty selection at the end of an element wraps the whole last child (`:990`).
* `Untag` does not join a single text that comes out of the element with the text after it, unless there is a text before it, too.
* `RemoveAttribute` is undone by putting the attribute at the end of the list; `RenameAttribute` loses it if the addition throws (`:1345`).
* An error thrown while a catalog is built leaves `isBeingBuilt_` set, and the catalog is never searched again (`Catalog.cxx:302`). A `prefer` of an inner group is added to that of the outer one and does not replace it (`CatalogBuilder.cxx:122`).
* `PropertyTreeEventFactory::update` clears the marks behind its walk, with them those of changes made by the handlers it has called.

## 6. Not modelled

* **Sections of the grove** (entity references, choices, redlining), their table and the table of IDs, and with them the replication of a command to the
  references of an entity: the next thing to add to `GroveTree`. Attributes of elements are a list per element; their commands are single assignments.
* **Document lifecycle**: closing and reloading with questions and vetoes. The parts of it that touch an autosave are in `AutoSave`.
* **URI resources**: of the component only the catalogs are modelled; the resources themselves are files or downloads that are read.
* **Remote locks**: a network protocol beside the editing core.
* **Schema validation**: matching of content models is a pure algorithm and would be checked against a reference definition; loading is parsing.
* **XPath, XSLT**: their state is the whole stylesheet and document.
* **Layout, painting, user interface, plugins, bindings, parsing**: graphics, wiring, and front ends to vendored libraries.

## 7. Running

    tlc -config MCCommandExecutor.cfg MCCommandExecutor.tla
    tlc -config GroveEditor.cfg MCGroveEditor.tla
    tlapm CommandExecutorProofs.tla
    tlapm CommandExecutorRefinement.tla
    tlapm AutoSaveQueueProofs.tla
    tlapm EventDispatchProofs.tla
    tlapm StructEditorProofs.tla
    tlapm DocumentSaveProofs.tla
    tlapm AutoSaveProofs.tla
    tlapm GroveHistoryProofs.tla

`runs` in `PROJECT.json` has the module and the configuration of each run.
