---------------------------- MODULE StructEditor ----------------------------
(***************************************************************************)
(* Editing one text with the keyboard: StructEditor::executeAndUpdate,     *)
(* updateView and doUntil drive the undo history (CommandExecutor), the    *)
(* InsertText event merges what is typed in one go, and the edit policy    *)
(* remembers in continueText_ whether the typing goes on.                  *)
(*                                                                         *)
(* The history is the module CommandExecutor; a command is here also an    *)
(* object that edits the text, and what CommandExecutor takes for granted, *)
(* that a command undoes what it did, has to hold of the objects.          *)
(***************************************************************************)
EXTENDS Integers, Sequences

CONSTANTS
  Command, NULL, DepthLimit, AddressReuse, MaxHistory,   \* as in CommandExecutor
  Char,           \* the characters that are typed
  NoText,         \* the element has no text node
  MaxText,        \* bound of the model: the longest text
  Interrupts      \* what else than a click may come between two keys, a subset of
                  \*   "shortcut" undo, redo and save leave the edit window alone
                  \*   "cancel"   the stylesheet may not show what was typed, and then the user
                  \*              cancels it, or proceeds with the cursor left where it was
                  \*   "strict"   strict validation may be switched on

ASSUME NullAssumption == NULL \notin Command
ASSUME LimitAssumption == DepthLimit \in Int /\ MaxHistory \in Nat
ASSUME SwitchAssumption == AddressReuse \in BOOLEAN
ASSUME MaxTextAssumption == MaxText \in Nat \ {0}
ASSUME NoTextAssumption == NoText \notin UNION {[1..n -> Char] : n \in 0..MaxText}
ASSUME InterruptsAssumption == Interrupts \subseteq {"shortcut", "cancel", "strict"}

VARIABLES
  hist, lastDone, notModifiedAt, childCount, wasCleared, doc, saved,
  object,         \* the command at each address: what it edits
  cursor,         \* the index in the text at which the next key inserts
  continueText,   \* EditPolicyImpl::continueText_
  forceModified,  \* forceModified_
  validation,     \* isValidationOn_: 0 off, 1 on, 2 strict
  pc,             \* where the event handler is
  oldCursor,      \* its local old_cursor, 0 between two events
  merging         \* its InsertTextEventData::continueText_, FALSE between two

historyVars ==
  <<hist, lastDone, notModifiedAt, childCount, wasCleared, doc, saved>>
locals == <<pc, oldCursor, merging>>
vars ==
  <<historyVars, object, cursor, continueText, forceModified, validation, locals>>

Text == (UNION {[1..n -> Char] : n \in 0..MaxText}) \cup {NoText}

History == INSTANCE CommandExecutor WITH Doc <- Text, RewriteLast <- TRUE

\* pos_, text_ (removed_ of a RemoveText), and the validation messages its link
\* holds: those the command caused (myList_), or only those it found (prevList_).
Object ==
  [kind : {"InsertText", "InsertTextNode", "RemoveText"},
   pos : 0..MaxText, text : Text \ {NoText}, messages : {"none", "prev", "my"}]

\* The types of the variables.
TypeOK ==
  /\ History!TypeOK
  /\ DOMAIN object \subseteq Command
  /\ \A c \in DOMAIN object : object[c] \in Object
  /\ cursor \in 0..MaxText /\ oldCursor \in 0..MaxText
  /\ continueText \in BOOLEAN /\ merging \in BOOLEAN /\ forceModified \in BOOLEAN
  /\ validation \in 0..2
  /\ pc \in {"idle", "view", "redone", "remove", "merge"}

-----------------------------------------------------------------------------

Smaller(i, j) == IF i < j THEN i ELSE j

\* QString::insert and QString::remove at index i.
Insert(t, i, s) ==
  SubSeq(t, 1, Smaller(i, Len(t))) \o s \o SubSeq(t, i + 1, Len(t))
Remove(t, i, n) ==
  SubSeq(t, 1, Smaller(i, Len(t))) \o SubSeq(t, i + n + 1, Len(t))

\* doExecute() and doUnexecute() of the object o in the text t. The node that an
\* InsertTextNode takes away keeps its characters.
Execute(o, t) ==
  CASE o.kind = "InsertText" -> Insert(t, o.pos, o.text)
    [] o.kind = "InsertTextNode" -> o.text
    [] o.kind = "RemoveText" -> Remove(t, o.pos, Len(o.text))

Unexecute(o, t) ==
  CASE o.kind = "InsertText" -> Remove(t, o.pos, Len(o.text))
    [] o.kind = "InsertTextNode" -> NoText
    [] o.kind = "RemoveText" -> Insert(t, o.pos, o.text)

PosAfter_OneBeyond(o) == o.pos + Len(o.text)

\* suggestedPos_ after either.
PosAfter(o) ==
  IF o.kind = "RemoveText" THEN o.pos ELSE o.pos + Len(o.text)
PosBefore(o) ==
  IF o.kind = "RemoveText" THEN o.pos + Len(o.text) ELSE o.pos

\* CommandLink::mergeWith: nothing the validator spoke of is merged.
Mergeable(o, p) ==
  /\ o.messages = "none" /\ p.messages = "none"
  /\ o.kind \in {"InsertText", "InsertTextNode"}
  /\ p.kind = "InsertText"

\* InsertText::mergeWith appends the other's text to its own, wherever that was
\* inserted; InsertTextNode::mergeWith reads what its node now holds.
Merged(o, p) ==
  [o EXCEPT !.text = IF o.kind = "InsertText" THEN o.text \o p.text ELSE doc]

-----------------------------------------------------------------------------

Init ==
  /\ History!Init
  /\ object = << >>
  /\ cursor = IF doc = NoText THEN 0 ELSE Len(doc)
  /\ continueText = FALSE
  /\ forceModified \in BOOLEAN
  /\ validation = 1
  /\ pc = "idle" /\ oldCursor = 0 /\ merging = FALSE

Return == pc' = "idle" /\ oldCursor' = 0 /\ merging' = FALSE

\* executeAndUpdate() up to its call of updateView().
Start(o) ==
  /\ pc = "idle"
  /\ \E c \in Command :
       /\ History!ExecuteAndAdd(c, Execute(o, doc))
       /\ object' = [b \in {hist'[i].addr : i \in 1..Len(hist')} |->
                       IF b = c THEN o ELSE object[b]]
  /\ oldCursor' = cursor
  /\ cursor' = PosAfter(o)
  /\ pc' = "view"
  /\ UNCHANGED <<forceModified, validation>>

Messages == IF validation = 0 THEN {"none"} ELSE {"none", "prev", "my"}

\* A character key: an InsertText event, which looks at continueText_ before it
\* is set for the next key, whatever becomes of this one.
Type(x) ==
  /\ doc # NoText => Len(doc) < MaxText
  /\ \E m \in Messages :
       Start([kind |-> IF doc = NoText THEN "InsertTextNode" ELSE "InsertText",
              pos |-> cursor, text |-> <<x>>, messages |-> m])
  /\ merging' = continueText
  /\ continueText' = TRUE

\* The delete key, before a character that is not the only one.
Delete ==
  /\ doc # NoText /\ Len(doc) > 1 /\ cursor < Len(doc)
  /\ \E m \in Messages :
       Start([kind |-> "RemoveText", pos |-> cursor,
              text |-> <<doc[cursor + 1]>>, messages |-> m])
  /\ merging' = FALSE
  /\ continueText' = FALSE

\* The object of the command just done.
LastObject == object[lastDone]

Refused == validation = 2 /\ LastObject.messages = "my"

Refuse_AnswersTrue ==
  /\ pc \in {"view", "redone"} /\ Refused
  /\ History!Undo
  /\ cursor' = oldCursor
  /\ pc' = IF merging THEN "merge" ELSE "idle"
  /\ UNCHANGED <<object, continueText, forceModified, validation, oldCursor, merging>>

\* updateView() in strict mode undoes what the schema does not allow; the event
\* ends there and the command stays in the redo tail.
Refuse ==
  /\ pc \in {"view", "redone"}
  /\ Refused
  /\ History!Undo
  /\ cursor' = oldCursor
  /\ Return
  /\ UNCHANGED <<object, continueText, forceModified, validation>>

\* What updateView() answering TRUE leads to: a merge if the typing goes on.
Updated == IF merging THEN pc' = "merge" /\ UNCHANGED <<oldCursor, merging>> ELSE Return

\* Where the cursor goes that was at p, when the view of the text t does not show the
\* place that the command suggests.
PutBack(p, t) ==
  IF "cancel" \in Interrupts THEN {IF t = NoText THEN 0 ELSE Smaller(p, Len(t))} ELSE {}

\* updateView() leaves the cursor where the command suggests, if it can.
Show ==
  /\ pc \in {"view", "redone"}
  /\ ~Refused
  /\ cursor' \in {cursor} \cup PutBack(oldCursor, doc)
  /\ Updated
  /\ UNCHANGED <<historyVars, object, continueText, forceModified, validation>>

\* "Operation has no visual effect", or "Cursor positioning failed", and the
\* user answers Cancel. The command leaves the list, but updateView() is TRUE.
Cancel ==
  /\ "cancel" \in Interrupts
  /\ pc = "view"
  /\ ~Refused
  /\ History!Undo
  /\ cursor' = oldCursor
  /\ pc' = "remove"
  /\ UNCHANGED <<object, continueText, forceModified, validation, oldCursor, merging>>

RemoveCancelled ==
  /\ pc = "remove"
  /\ History!RemoveLastCommand
  /\ Updated
  /\ UNCHANGED <<object, cursor, continueText, forceModified, validation>>

\* The end of a continued InsertText event: mergeLastCommand().
MergeTyped ==
  LET n == Len(hist)
      o == object[hist[n - 1].addr]
      p == object[hist[n].addr]
  IN
  /\ pc = "merge"
  /\ IF n >= 2 /\ Mergeable(o, p)
       THEN /\ History!MergeLastCommand
            /\ object' = [object EXCEPT ![hist[n - 1].addr] = Merged(o, p)]
       ELSE UNCHANGED <<historyVars, object>>
  /\ Return
  /\ UNCHANGED <<cursor, continueText, forceModified, validation>>

Move_GoesOnTyping ==
  /\ pc = "idle"
  /\ cursor' \in IF doc = NoText THEN {0} ELSE 0..Len(doc)
  /\ UNCHANGED <<historyVars, object, continueText, forceModified, validation, locals>>

\* A mouse press, a focus change, a cursor key: the typing ends.
Move ==
  /\ pc = "idle"
  /\ cursor' \in IF doc = NoText THEN {0} ELSE 0..Len(doc)
  /\ continueText' = FALSE
  /\ UNCHANGED <<historyVars, object, forceModified, validation, locals>>

KeepsTyping_Always == UNCHANGED continueText

\* Undo, redo and save break the typing only by what the user does to invoke them.
KeepsTyping ==
  continueText' \in {FALSE} \cup IF "shortcut" \in Interrupts THEN {continueText} ELSE {}

\* doUntil(-1) and doUntil(1), the Undo and Redo events; a redo is refused in
\* strict mode as a new command is.
Undo ==
  /\ pc = "idle"
  /\ History!Undo
  /\ cursor' \in {PosBefore(LastObject)} \cup PutBack(cursor, doc')
  /\ KeepsTyping
  /\ UNCHANGED <<object, forceModified, validation, locals>>

Redo ==
  /\ pc = "idle"
  /\ History!Redo
  /\ cursor' = PosAfter(object[lastDone'])
  /\ KeepsTyping
  /\ pc' = "redone" /\ oldCursor' = cursor /\ merging' = FALSE
  /\ UNCHANGED <<object, forceModified, validation>>

\* saveDocument() that succeeds; one that fails changes nothing here.
Save ==
  /\ pc = "idle"
  /\ History!SetNotModified
  /\ forceModified' = FALSE
  /\ KeepsTyping
  /\ UNCHANGED <<object, cursor, validation, locals>>

\* Edit->Validation, from the menu.
SetValidation ==
  /\ pc = "idle"
  /\ validation' \in 0..2
  /\ validation' = 2 => "strict" \in Interrupts
  /\ continueText' = FALSE
  /\ UNCHANGED <<historyVars, object, cursor, forceModified, locals>>

Next ==
  \/ \E x \in Char : Type(x)
  \/ Delete
  \/ Refuse
  \/ Show
  \/ Cancel
  \/ RemoveCancelled
  \/ MergeTyped
  \/ Move
  \/ Undo
  \/ Redo
  \/ Save
  \/ SetValidation

Spec == Init /\ [][Next]_vars

-----------------------------------------------------------------------------

IsModified == forceModified \/ History!IsModified

\* What CommandExecutor relies on, and Command.h asks of mergeWith(): a command,
\* merged or not, makes the document it is said to make and takes it back.
CommandsInvert ==
  \A i \in 1..Len(hist) :
    LET o == object[hist[i].addr] IN
    /\ Execute(o, hist[i].before) = hist[i].after
    /\ Unexecute(o, hist[i].after) = hist[i].before

\* mergeLastCommand() merges the last two commands of the list, done or not: it
\* is called only when both are done.
MergeSeesDone == pc = "merge" => ~History!IsRedoPossible

\* Between two events, a document reported as not modified is the saved one.
UnmodifiedIsSaved == pc = "idle" /\ ~IsModified => doc = saved

=============================================================================
