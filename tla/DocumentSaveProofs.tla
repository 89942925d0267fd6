------------------------ MODULE DocumentSaveProofs ------------------------
(***************************************************************************)
(* Proofs about saving a document of several files, for any numbers of      *)
(* files, texts and commands and any length of the undo history. What is    *)
(* proved of the history on its own is taken from CommandExecutorProofs,    *)
(* instantiated as DocumentSave instantiates CommandExecutor.               *)
(***************************************************************************)
EXTENDS DocumentSave, SequenceTheorems, TLAPS

HP == INSTANCE CommandExecutorProofs
  WITH Doc <- [File -> Text], doc <- content, RewriteLast <- FALSE

\* The assumptions of the instance.
LEMMA Switches == AddressReuse \in BOOLEAN /\ FALSE \in BOOLEAN
BY SwitchAssumption

-----------------------------------------------------------------------------
\* The two instances of the history are one.

LEMMA SameStates ==
  /\ History!TypeOK <=> HP!TypeOK
  /\ History!Done = HP!Done /\ History!Done' = HP!Done'
  /\ History!IsModified <=> HP!IsModified
  /\ Listed(hist) = {hist[i].addr : i \in 1..Len(hist)}
  /\ History!Init <=> HP!Init
<1>1. History!TypeOK <=> HP!TypeOK
  BY DEF History!TypeOK, HP!TypeOK, History!CommandObject, HP!CommandObject,
         History!Pointer, HP!Pointer
<1>2. History!Done = HP!Done /\ History!Done' = HP!Done'
  BY DEF History!Done, HP!Done, History!Position, HP!Position
<1>3. History!IsModified <=> HP!IsModified
  BY DEF History!IsModified, HP!IsModified
<1>4. History!Init <=> HP!Init
  BY DEF History!Init, HP!Init
<1>5. QED
  BY <1>1, <1>2, <1>3, <1>4 DEF Listed

LEMMA SameSteps ==
  /\ \A c \in Command, d \in [File -> Text] :
       History!ExecuteAndAdd(c, d) <=> HP!ExecuteAndAdd(c, d)
  /\ History!Undo <=> HP!Undo
  /\ History!Redo <=> HP!Redo
  /\ History!SetNotModified <=> HP!SetNotModified
<1>1. History!WithoutRedo = HP!WithoutRedo
  BY SameStates
     DEF History!WithoutRedo, HP!WithoutRedo, History!IsRedoPossible, HP!IsRedoPossible,
         History!LastChild, HP!LastChild
<1>2. (History!TooDeep <=> HP!TooDeep) /\ History!Fresh = HP!Fresh
  BY <1>1 DEF History!TooDeep, HP!TooDeep, History!Fresh, HP!Fresh
<1>3. \A c \in Command, d \in [File -> Text] :
        History!ExecuteAndAdd(c, d) <=> HP!ExecuteAndAdd(c, d)
  BY <1>1, <1>2 DEF History!ExecuteAndAdd, HP!ExecuteAndAdd
<1>4. History!Undo <=> HP!Undo
  BY SameStates DEF History!Undo, HP!Undo, History!IsUndoPossible, HP!IsUndoPossible
<1>5. History!Redo <=> HP!Redo
  BY SameStates
     DEF History!Redo, HP!Redo, History!IsRedoPossible, HP!IsRedoPossible,
         History!LastChild, HP!LastChild
<1>6. History!SetNotModified <=> HP!SetNotModified
  BY DEF History!SetNotModified, HP!SetNotModified
<1>7. QED
  BY <1>3, <1>4, <1>5, <1>6

-----------------------------------------------------------------------------
\* What is known of the history, as the steps of this module see it.

\* The history is well formed and the declarations go with its commands.
HistoryOK == HP!HistoryInv /\ TypeOK

LEMMA HistoryFacts ==
  ASSUME HistoryOK
  PROVE  /\ HP!Done \in 0..Len(hist) /\ Len(hist) \in Nat
         /\ \A i \in 1..Len(hist) :
              /\ hist[i].addr \in Command /\ hist[i].addr \in Listed(hist)
              /\ hist[i].before \in [File -> Text] /\ hist[i].after \in [File -> Text]
         /\ \A i, j \in 1..Len(hist) : hist[i].addr = hist[j].addr => i = j
<1>1. HP!HistoryInv
  BY DEF HistoryOK
<1>2. /\ HP!Done \in 0..Len(hist)
      /\ \A i \in 1..Len(hist) : hist[i] \in HP!CommandObject
  BY <1>1, HP!CursorFacts, NullAssumption, LimitAssumption, Switches
<1>3. Len(hist) \in Nat
  BY <1>1, LenProperties DEF HP!HistoryInv, HP!TypeOK
<1>4. \A i, j \in 1..Len(hist) : hist[i].addr = hist[j].addr => i = j
  BY <1>1 DEF HP!HistoryInv, HP!DistinctCommands, HP!NoDuplicates
<1>5. QED
  BY <1>2, <1>3, <1>4 DEF HP!CommandObject, Listed

LEMMA InitOK == HP!Init => HP!HistoryInv
BY HP!InitHistoryInv, NullAssumption, LimitAssumption, Switches

LEMMA InitOKNext == HP!Init' => HP!HistoryInv'
BY InitOK, PTL

\* Undo and redo change no command: the one at position m moves, and the files
\* are those it was made for, or those it made.
LEMMA UndoFacts ==
  ASSUME HistoryOK, Undo
  PROVE  /\ HP!HistoryInv' /\ Len(hist') = Len(hist) /\ Listed(hist') = Listed(hist)
         /\ \A i \in 1..Len(hist) : /\ hist'[i].addr = hist[i].addr
                                    /\ hist'[i].before = hist[i].before
                                    /\ hist'[i].after = hist[i].after
         /\ HP!Done \in 1..Len(hist) /\ HP!Done' = HP!Done - 1
         /\ hist[HP!Done].addr = lastDone
         /\ content = hist[HP!Done].after /\ content' = hist[HP!Done].before
<1>1. HP!HistoryInv /\ HP!Undo
  BY SameSteps DEF HistoryOK, Undo
<1>2. /\ HP!HistoryInv' /\ HP!SameCommands
      /\ HP!Done \in 1..Len(hist) /\ HP!Done' = HP!Done - 1
      /\ hist[HP!Done].addr = lastDone
      /\ content = hist[HP!Done].after /\ content' = hist[HP!Done].before
  BY <1>1, HP!UndoMoves, NullAssumption, LimitAssumption, Switches
<1>3. QED
  BY <1>2 DEF HP!SameCommands, Listed

LEMMA RedoFacts ==
  ASSUME HistoryOK, Redo
  PROVE  /\ HP!HistoryInv' /\ Len(hist') = Len(hist) /\ Listed(hist') = Listed(hist)
         /\ \A i \in 1..Len(hist) : /\ hist'[i].addr = hist[i].addr
                                    /\ hist'[i].before = hist[i].before
                                    /\ hist'[i].after = hist[i].after
         /\ HP!Done + 1 \in 1..Len(hist) /\ HP!Done' = HP!Done + 1
         /\ hist[HP!Done + 1].addr = lastDone'
         /\ content = hist[HP!Done + 1].before /\ content' = hist[HP!Done + 1].after
<1>1. HP!HistoryInv /\ HP!Redo
  BY SameSteps DEF HistoryOK, Redo
<1>2. /\ HP!HistoryInv' /\ HP!SameCommands
      /\ HP!Done + 1 \in 1..Len(hist) /\ HP!Done' = HP!Done + 1
      /\ hist[HP!Done + 1].addr = lastDone'
      /\ content = hist[HP!Done + 1].before /\ content' = hist[HP!Done + 1].after
  BY <1>1, HP!RedoMoves, NullAssumption, LimitAssumption, Switches
<1>3. QED
  BY <1>2 DEF HP!SameCommands, Listed

\* The list after a new command c that puts t into f: the done commands, the
\* first o of them dropped, and c.
NewList(c, f, t, o) ==
  /\ o \in {0, 1} /\ HP!Done - o \in Nat
  /\ Len(hist') = HP!Done - o + 1 /\ HP!Done' = HP!Done - o + 1
  /\ \A i \in 1..(HP!Done - o) : hist'[i] = hist[i + o] /\ i + o \in 1..HP!Done
  /\ hist'[HP!Done - o + 1].addr = c /\ c \notin Listed(hist)
  /\ hist'[HP!Done - o + 1].before = content
  /\ hist'[HP!Done - o + 1].after = [content EXCEPT ![f] = t]
  /\ content' = [content EXCEPT ![f] = t]
  /\ Listed(hist') \subseteq Listed(hist) \cup {c}
  /\ o = 1 => wasCleared'
  /\ wasCleared => wasCleared'

LEMMA ExecuteFacts ==
  ASSUME HistoryOK, NEW f \in File, NEW t \in Text, NEW c \in Command,
         History!ExecuteAndAdd(c, [content EXCEPT ![f] = t])
  PROVE  HP!HistoryInv' /\ \E o \in {0, 1} : NewList(c, f, t, o)
<1>1. PICK d \in [File -> Text] : d = [content EXCEPT ![f] = t]
  BY DEF HistoryOK, TypeOK, History!TypeOK
<1>2. HP!HistoryInv /\ HP!ExecuteAndAdd(c, d)
  BY <1>1, SameSteps DEF HistoryOK
<1>3. HP!HistoryInv' /\ HP!Done' = Len(hist')
  BY <1>2, HP!ExecuteMoves, NullAssumption, LimitAssumption, Switches
<1>4. \E o \in {0, 1} : HP!Appended(o, c, d)
  BY <1>2, HP!ExecuteMakes, NullAssumption, LimitAssumption, Switches
<1>5. PICK o \in {0, 1} : HP!Appended(o, c, d)
  BY <1>4
<1>6. /\ HP!Done \in 0..Len(hist) /\ Len(hist) \in Nat
      /\ c \notin Listed(hist) /\ content' = d
      /\ wasCleared' = (wasCleared \/ HP!TooDeep)
  BY <1>2, HistoryFacts DEF HP!ExecuteAndAdd, HP!Fresh, Listed
<1>7. /\ HP!Done - o \in Nat
      /\ Len(hist') = HP!Done - o + 1
      /\ \A i \in 1..(HP!Done - o) : hist'[i] = hist[i + o] /\ i + o \in 1..HP!Done
      /\ hist'[HP!Done - o + 1].addr = c
      /\ hist'[HP!Done - o + 1].before = content
      /\ hist'[HP!Done - o + 1].after = d
      /\ o = 1 => HP!TooDeep
  BY <1>5, <1>6 DEF HP!Appended, HP!NewCommand
<1>8. Listed(hist') \subseteq Listed(hist) \cup {c}
  <2>1. ASSUME NEW i \in 1..Len(hist') PROVE hist'[i].addr \in Listed(hist) \cup {c}
    <3>1. CASE i = HP!Done - o + 1
      BY <3>1, <1>7
    <3>2. CASE i # HP!Done - o + 1
      <4>1. i \in 1..(HP!Done - o)
        BY <3>2, <1>6, <1>7
      <4>2. hist'[i] = hist[i + o] /\ i + o \in 1..Len(hist)
        BY <4>1, <1>6, <1>7
      <4>3. QED
        BY <4>2 DEF Listed
    <3>3. QED
      BY <3>1, <3>2
  <2>2. QED
    BY <2>1 DEF Listed
<1>9. (o = 1 => wasCleared') /\ (wasCleared => wasCleared')
  BY <1>6, <1>7, Zenon
<1>10. NewList(c, f, t, o)
  BY <1>1, <1>3, <1>6, <1>7, <1>8, <1>9 DEF NewList
<1>11. QED
  BY <1>3, <1>10

\* A save that comes to writing its files: those it opened, at p.
SaveWith(p, force, unopened, torn) ==
  LET top == IF force \/ Top \notin readOnly THEN {Top} ELSE {}
      chosen == Chosen(force)
  IN
  /\ unopened \subseteq OpenFails /\ torn \subseteq WriteFails
  /\ Top \notin top \cap unopened
  /\ Write((top \cup chosen) \ unopened, torn, p)
  /\ flag' = [f \in File |-> flag[f] /\ f \notin Reset(chosen, unopened)]
  /\ written' = {hist[i].addr : i \in 1..HP!Done}
  /\ UNCHANGED <<object, hist, lastDone, content>>
  /\ IF SavedOk(chosen, unopened)
       THEN /\ HP!SetNotModified
            /\ place' = p
            /\ readOnly' = IF p = place THEN readOnly ELSE Locked(p)
       ELSE UNCHANGED <<historyVars, place, readOnly>>

LEMMA SaveFacts ==
  ASSUME NEW p, NEW force, SaveTo(p, force)
  PROVE  \/ UNCHANGED vars
         \/ \E unopened, torn : SaveWith(p, force, unopened, torn)
<1> DEFINE top == IF force \/ Top \notin readOnly THEN {Top} ELSE {}
           chosen == Chosen(force)
<1>1. PICK unopened \in SUBSET OpenFails, torn \in SUBSET WriteFails :
        IF Top \in top \cap unopened
        THEN UNCHANGED vars
        ELSE /\ Write((top \cup chosen) \ unopened, torn, p)
             /\ flag' = [f \in File |-> flag[f] /\ f \notin Reset(chosen, unopened)]
             /\ written' = {hist[i].addr : i \in 1..History!Done}
             /\ UNCHANGED object
             /\ IF SavedOk(chosen, unopened)
                THEN /\ History!SetNotModified
                     /\ place' = p
                     /\ readOnly' = IF p = place THEN readOnly ELSE Locked(p)
                ELSE UNCHANGED <<historyVars, place, readOnly>>
  BY DEF SaveTo
<1>2. CASE Top \in top \cap unopened
  BY <1>1, <1>2
<1>3. CASE Top \notin top \cap unopened
  <2>1. UNCHANGED <<hist, lastDone, content>>
    BY <1>1, <1>3 DEF History!SetNotModified, historyVars
  <2>2. SaveWith(p, force, unopened, torn)
    BY <1>1, <1>3, <2>1, SameStates, SameSteps DEF SaveWith
  <2>3. QED
    BY <2>2
<1>4. QED
  BY <1>2, <1>3

\* The two ways to save.
LEMMA SaveSteps ==
  ASSUME Save \/ \E p \in Place : SaveAs(p), HistoryOK
  PROVE  \E p \in {"home"} \cup Place, force \in BOOLEAN :
           /\ SaveTo(p, force)
           /\ force <=> (p = "away") # (place = "away")
<1>1. CASE Save
  <2>1. SaveTo(place, FALSE) /\ place \in {"home"} \cup Place
    BY <1>1 DEF Save, HistoryOK, TypeOK
  <2>2. QED
    BY <2>1
<1>2. CASE \E p \in Place : SaveAs(p)
  <2>1. PICK p \in Place : SaveTo(p, (p = "away") # (place = "away"))
    BY <1>2 DEF SaveAs
  <2>2. PICK force \in BOOLEAN : force = ((p = "away") # (place = "away"))
    OBVIOUS
  <2>3. QED
    BY <2>1, <2>2
<1>3. QED
  BY <1>1, <1>2

-----------------------------------------------------------------------------
\* The types.

\* A command takes note of a flag: the objects stay those of the listed commands.
LEMMA RememberTypes ==
  ASSUME TypeOK, NEW c, NEW f \in File, Remember(c, f),
         Listed(hist') \subseteq Listed(hist) \cup {c}
  PROVE  /\ DOMAIN object' = Listed(hist')
         /\ \A b \in DOMAIN object' : object'[b] \in [file : File, modified : BOOLEAN]
<1> DEFINE bit == c \in Listed(hist) /\ object[c].modified
           o == [file |-> f, modified |-> bit \/ flag[f]]
<1>1. object' = [b \in Listed(hist') |-> IF b = c THEN o ELSE object[b]]
  BY DEF Remember
<1>2. o \in [file : File, modified : BOOLEAN]
  <2>1. flag[f] \in BOOLEAN
    BY DEF TypeOK
  <2>2. (bit \/ flag[f]) \in BOOLEAN
    BY <2>1, Zenon
  <2>3. QED
    BY <2>2, Zenon
<1> HIDE DEF o
<1>3. ASSUME NEW b \in Listed(hist') PROVE object'[b] \in [file : File, modified : BOOLEAN]
  <2>1. CASE b = c
    BY <2>1, <1>1, <1>2
  <2>2. CASE b # c
    <3>1. b \in DOMAIN object /\ object'[b] = object[b]
      BY <2>2, <1>1 DEF TypeOK
    <3>2. QED
      BY <3>1 DEF TypeOK
  <2>3. QED
    BY <2>1, <2>2
<1>4. QED
  BY <1>1, <1>3

LEMMA HistoryTypes == HP!HistoryInv' => History!TypeOK'
<1>1. History!TypeOK' <=> HP!TypeOK'
  BY DEF History!TypeOK, HP!TypeOK, History!CommandObject, HP!CommandObject,
         History!Pointer, HP!Pointer
<1>2. QED
  BY <1>1 DEF HP!HistoryInv

LEMMA InitDoc == Init => HistoryOK
<1> SUFFICES ASSUME Init PROVE HistoryOK
  OBVIOUS
<1>1. HP!HistoryInv
  BY InitOK, SameStates DEF Init
<1>2. History!TypeOK /\ hist = <<>>
  BY <1>1, SameStates DEF HP!HistoryInv, Init, History!Init
<1>3. Listed(hist) = {}
  BY <1>2 DEF Listed
<1>4. DOMAIN object = {} /\ written = {}
  BY DEF Init
<1>5. flag \in [File -> BOOLEAN] /\ readOnly \subseteq File /\ place = "home"
  BY FaultAssumption DEF Init, Locked
<1>6. disk \in [Location -> Text \cup {Absent, Torn}]
  <2>1. \A l \in Location : l[1] \in File
    BY DEF Location
  <2>2. content \in [File -> Text]
    BY DEF Init
  <2>3. \A l \in Location :
          (IF l[2] = "home" THEN content[l[1]] ELSE Absent) \in Text \cup {Absent, Torn}
    BY <2>1, <2>2
  <2>4. QED
    BY <2>3 DEF Init
<1>7. TypeOK
  BY <1>2, <1>3, <1>4, <1>5, <1>6 DEF TypeOK
<1>8. QED
  BY <1>1, <1>7 DEF HistoryOK

LEMMA ExecuteDoc ==
  ASSUME HistoryOK, NEW f \in File, NEW t \in Text, Execute(f, t)
  PROVE  HistoryOK'
<1>1. PICK c \in Command :
        History!ExecuteAndAdd(c, [content EXCEPT ![f] = t]) /\ Remember(c, f)
  BY DEF Execute
<1>2. HP!HistoryInv' /\ Listed(hist') \subseteq Listed(hist) \cup {c}
  BY <1>1, ExecuteFacts DEF NewList
<1>3. /\ DOMAIN object' = Listed(hist')
      /\ \A b \in DOMAIN object' : object'[b] \in [file : File, modified : BOOLEAN]
  BY <1>1, <1>2, RememberTypes DEF HistoryOK
<1>4. flag' \in [File -> BOOLEAN] /\ written' \subseteq Listed(hist')
  BY DEF Execute, HistoryOK, TypeOK
<1>5. UNCHANGED <<readOnly, place, disk>>
  BY DEF Execute
<1>6. QED
  BY <1>2, <1>3, <1>4, <1>5, HistoryTypes DEF HistoryOK, TypeOK

LEMMA UndoDoc == HistoryOK /\ Undo => HistoryOK'
<1> SUFFICES ASSUME HistoryOK, Undo PROVE HistoryOK'
  OBVIOUS
<1>1. /\ HP!HistoryInv' /\ Listed(hist') = Listed(hist)
      /\ HP!Done \in 1..Len(hist) /\ hist[HP!Done].addr = lastDone
  BY UndoFacts
<1>2. lastDone \in DOMAIN object
  BY <1>1, HistoryFacts DEF HistoryOK, TypeOK
<1>3. object[lastDone].modified \in BOOLEAN
  BY <1>2 DEF HistoryOK, TypeOK
<1>4. flag' \in [File -> BOOLEAN]
  BY <1>3 DEF Undo, HistoryOK, TypeOK
<1>5. UNCHANGED <<object, readOnly, place, disk, written>>
  BY DEF Undo
<1>6. QED
  BY <1>1, <1>4, <1>5, HistoryTypes DEF HistoryOK, TypeOK

LEMMA RedoDoc == HistoryOK /\ Redo => HistoryOK'
<1> SUFFICES ASSUME HistoryOK, Redo PROVE HistoryOK'
  OBVIOUS
<1>1. /\ HP!HistoryInv' /\ Listed(hist') = Listed(hist)
      /\ HP!Done + 1 \in 1..Len(hist) /\ hist[HP!Done + 1].addr = lastDone'
  BY RedoFacts
<1>2. lastDone' \in DOMAIN object
  BY <1>1, HistoryFacts DEF HistoryOK, TypeOK
<1>3. PICK f \in File : f = object[lastDone'].file
  BY <1>2 DEF HistoryOK, TypeOK
<1>4. PICK c : c = lastDone'
  OBVIOUS
<1>5. Remember(c, f)
  BY <1>3, <1>4 DEF Redo
<1>6. /\ DOMAIN object' = Listed(hist')
      /\ \A b \in DOMAIN object' : object'[b] \in [file : File, modified : BOOLEAN]
  BY <1>1, <1>5, RememberTypes DEF HistoryOK
<1>7. flag' \in [File -> BOOLEAN]
  BY DEF Redo, HistoryOK, TypeOK
<1>8. UNCHANGED <<readOnly, place, disk, written>>
  BY DEF Redo
<1>9. QED
  BY <1>1, <1>6, <1>7, <1>8, HistoryTypes DEF HistoryOK, TypeOK

LEMMA SaveDoc ==
  ASSUME HistoryOK, NEW p \in {"home"} \cup Place, NEW force,
         NEW unopened, NEW torn, SaveWith(p, force, unopened, torn)
  PROVE  HistoryOK'
<1>1. UNCHANGED <<hist, lastDone, content, object>>
  BY DEF SaveWith
<1>2. HP!HistoryInv'
  <2>1. CASE HP!SetNotModified
    BY <2>1, HP!SaveKeeps, NullAssumption, LimitAssumption, Switches DEF HistoryOK
  <2>2. CASE UNCHANGED historyVars
    BY <2>2 DEF historyVars, HistoryOK, HP!HistoryInv, HP!TypeOK, HP!DistinctCommands,
                HP!ExecutedPrefix, HP!CommandsInContext, HP!DepthBound, HP!Done
  <2>3. QED
    BY <2>1, <2>2 DEF SaveWith
<1>3. /\ place' \in {"home"} \cup Place /\ readOnly' \subseteq File
  BY FaultAssumption DEF SaveWith, Locked, HistoryOK, TypeOK
<1>4. flag' \in [File -> BOOLEAN]
  BY DEF SaveWith, HistoryOK, TypeOK
<1>5. written' \subseteq Listed(hist')
  BY <1>1, HistoryFacts DEF SaveWith
<1>6. disk' \in [Location -> Text \cup {Absent, Torn}]
  <2>1. \A l \in Location : l[1] \in File
    BY DEF Location
  <2>2. content \in [File -> Text] /\ disk \in [Location -> Text \cup {Absent, Torn}]
    BY DEF HistoryOK, TypeOK, History!TypeOK
  <2>3. QED
    BY <2>1, <2>2 DEF SaveWith, Write
<1>7. Listed(hist') = Listed(hist)
  BY <1>1
<1>8. QED
  BY <1>1, <1>2, <1>3, <1>4, <1>5, <1>6, <1>7, HistoryTypes DEF HistoryOK, TypeOK

\* A document that is opened again starts as one that is opened.
LEMMA ReopenDoc == HistoryOK /\ Reopen => HistoryOK'
<1> SUFFICES ASSUME HistoryOK, Reopen PROVE HistoryOK'
  OBVIOUS
<1>1. HP!HistoryInv'
  BY InitOKNext DEF Reopen, HP!Init
<1>2. Listed(hist') = {}
  BY DEF Reopen, Listed
<1>3. /\ DOMAIN object' = {} /\ written' = {}
      /\ flag' \in [File -> BOOLEAN] /\ readOnly' \subseteq File
      /\ UNCHANGED <<place, disk>>
  BY FaultAssumption DEF Reopen, Locked
<1>4. QED
  BY <1>1, <1>2, <1>3, HistoryTypes DEF HistoryOK, TypeOK

LEMMA StutterDoc == HistoryOK /\ UNCHANGED vars => HistoryOK'
<1> SUFFICES ASSUME HistoryOK, UNCHANGED vars PROVE HistoryOK'
  OBVIOUS
<1>1. HP!HistoryInv'
  BY DEF vars, historyVars, HistoryOK, HP!HistoryInv, HP!TypeOK, HP!DistinctCommands,
         HP!ExecutedPrefix, HP!CommandsInContext, HP!DepthBound, HP!Done
<1>2. QED
  BY <1>1, HistoryTypes DEF vars, historyVars, HistoryOK, TypeOK

LEMMA NextDoc == HistoryOK /\ [Next]_vars => HistoryOK'
<1> SUFFICES ASSUME HistoryOK, [Next]_vars PROVE HistoryOK'
  OBVIOUS
<1>1. CASE \E f \in File, t \in Text : Execute(f, t)
  BY <1>1, ExecuteDoc
<1>2. CASE Undo \/ Redo
  BY <1>2, UndoDoc, RedoDoc
<1>3. CASE Save \/ \E p \in Place : SaveAs(p)
  <2>1. PICK p \in {"home"} \cup Place, force \in BOOLEAN : SaveTo(p, force)
    BY <1>3, SaveSteps
  <2>2. QED
    BY <2>1, SaveFacts, SaveDoc, StutterDoc
<1>4. CASE Reopen
  BY <1>4, ReopenDoc
<1>5. CASE UNCHANGED vars
  BY <1>5, StutterDoc
<1>6. QED
  BY <1>1, <1>2, <1>3, <1>4, <1>5 DEF Next

\* The history, the declarations and the disk always have their types.
THEOREM DocumentTypeCorrect == Spec => []TypeOK
<1>1. HistoryOK => TypeOK
  BY DEF HistoryOK
<1>2. QED
  BY <1>1, InitDoc, NextDoc, PTL DEF Spec

-----------------------------------------------------------------------------
(***************************************************************************)
(* The flags. What Undo puts a flag back to is what its command found: it   *)
(* is right if nothing was written in between, so that files as they were   *)
(* before a command that found its flag clear are still those on the disk.  *)
(***************************************************************************)

\* A command edits the file it names, and no other.
EditsOneFile ==
  \A i \in 1..Len(hist) : \A g \in File :
    g # object[hist[i].addr].file => hist[i].before[g] = hist[i].after[g]

\* A done command that was not done at a save and found the flag clear edits a
\* file that is on the disk as the command found it.
BeforeOnDisk ==
  \A i \in 1..HP!Done :
    LET o == object[hist[i].addr] IN
    /\ hist[i].addr \notin written
    /\ ~o.modified
    /\ o.file \in Entity \cup Included
    => disk[PathOf(o.file, place)] = hist[i].before[o.file]

FlagInv == HistoryOK /\ EditsOneFile /\ BeforeOnDisk /\ FlagSound

\* Where the flags can be relied on: what was written is not undone; an entity or
\* included document, once it is open, is written; an included document opens; and
\* if the document may go to another directory, an entity that may not open there
\* is the only one. (TLC refutes FlagSound without each of them.)
FlagsRelied ==
  /\ ~UndoWritten
  /\ WriteFails \cap (Entity \cup Included) = {}
  /\ OpenFails \cap Included = {}
  /\ "away" \in Place => \A e \in OpenFails \cap Entity : Entity = {e}

LEMMA Paths ==
  /\ \A f, g \in File : \A p, q : PathOf(f, p) = PathOf(g, q) => f = g
  /\ \A f \in File : \A p : PathOf(f, p)[1] = f
  /\ \A f \in File, p \in {"home"} \cup Place : PathOf(f, p) \in Location
  /\ \A f \in Included : \A p, q : PathOf(f, p) = PathOf(f, q)
  /\ \A f \in Entity : \A p, q :
       (p = "away" <=> q = "away") => PathOf(f, p) = PathOf(f, q)
<1>1. \A f \in File : \A p : PathOf(f, p)[1] = f
  BY DEF PathOf
<1>2. \A f, g \in File : \A p, q : PathOf(f, p) = PathOf(g, q) => f = g
  BY <1>1
<1>3. \A f \in Included : f # Top /\ f \notin Entity
  BY FileAssumption
<1>4. \A f \in Entity : f # Top /\ f \notin Included
  BY FileAssumption
<1>5. \A f \in Included : \A p : PathOf(f, p) = <<f, "home">>
  BY <1>3 DEF PathOf
<1>6. \A f \in Entity : \A p : PathOf(f, p) = <<f, IF p = "away" THEN "away" ELSE "home">>
  BY <1>4 DEF PathOf
<1>7. \A p : PathOf(Top, p) = <<Top, p>>
  BY FileAssumption DEF PathOf
<1>8. \A f \in File, p \in {"home"} \cup Place : PathOf(f, p) \in Location
  BY <1>5, <1>6, <1>7 DEF File, Location
<1>9. QED
  BY <1>1, <1>2, <1>5, <1>6, <1>8

\* The objects after c took note of the flag of f.
LEMMA RememberFacts ==
  ASSUME NEW c, NEW f, Remember(c, f)
  PROVE  /\ \A b \in Listed(hist') : b # c => object'[b] = object[b]
         /\ c \in Listed(hist') =>
              /\ object'[c].file = f
              /\ ~object'[c].modified => ~flag[f]
<1> DEFINE bit == c \in Listed(hist) /\ object[c].modified
           m == bit \/ flag[f]
<1>1. object' = [b \in Listed(hist') |->
        IF b = c THEN [file |-> f, modified |-> m] ELSE object[b]]
  BY DEF Remember
<1>2. flag[f] => m
  OBVIOUS
<1>3. [file |-> f, modified |-> m].file = f /\ [file |-> f, modified |-> m].modified = m
  OBVIOUS
<1> HIDE DEF m
<1>4. QED
  BY <1>1, <1>2, <1>3, Zenon

LEMMA ExecuteFlag ==
  ASSUME FlagInv, NEW f \in File, NEW t \in Text, Execute(f, t)
  PROVE  FlagInv'
<1>1. PICK c \in Command :
        History!ExecuteAndAdd(c, [content EXCEPT ![f] = t]) /\ Remember(c, f)
  BY DEF Execute
<1>2. HistoryOK /\ HistoryOK' /\ content \in [File -> Text]
  BY ExecuteDoc DEF FlagInv, HistoryOK, TypeOK, History!TypeOK
<1>3. PICK o \in {0, 1} : NewList(c, f, t, o)
  BY <1>1, <1>2, ExecuteFacts
<1>4. PICK n \in Nat : n = HP!Done - o
  BY <1>3 DEF NewList
<1>5. /\ Len(hist') = n + 1 /\ HP!Done' = n + 1
      /\ \A i \in 1..n : /\ hist'[i] = hist[i + o]
                         /\ i + o \in 1..HP!Done /\ i + o \in 1..Len(hist)
      /\ hist'[n + 1].addr = c
      /\ hist'[n + 1].before = content
      /\ hist'[n + 1].after = [content EXCEPT ![f] = t]
      /\ content' = [content EXCEPT ![f] = t]
      /\ c \notin Listed(hist)
  BY <1>2, <1>3, <1>4, HistoryFacts DEF NewList
<1>6. \A i \in 1..(n + 1) : hist'[i].addr \in Listed(hist')
  BY <1>5 DEF Listed
<1>7. /\ object'[c].file = f
      /\ ~object'[c].modified => ~flag[f]
  BY <1>1, <1>4, <1>5, <1>6, RememberFacts
<1>8. \A i \in 1..n : /\ hist'[i].addr = hist[i + o].addr
                      /\ hist'[i].addr # c
                      /\ object'[hist'[i].addr] = object[hist[i + o].addr]
  BY <1>1, <1>2, <1>4, <1>5, <1>6, RememberFacts, HistoryFacts
<1>9. UNCHANGED <<place, disk>> /\ flag' = [flag EXCEPT ![f] = TRUE]
      /\ written' = written \cap Listed(hist')
  BY DEF Execute
<1>10. EditsOneFile'
  <2>1. ASSUME NEW i \in 1..(n + 1), NEW g \in File, g # object'[hist'[i].addr].file
        PROVE  hist'[i].before[g] = hist'[i].after[g]
    <3>1. CASE i = n + 1
      <4>1. g # f
        BY <3>1, <2>1, <1>5, <1>7
      <4>2. QED
        BY <3>1, <4>1, <1>2, <1>5
    <3>2. CASE i # n + 1
      <4>1. i \in 1..n
        BY <3>2, <1>4
      <4>2. PICK j \in 1..Len(hist) :
              hist'[i] = hist[j] /\ object'[hist'[i].addr] = object[hist[j].addr]
        BY <4>1, <1>5, <1>8
      <4>3. g # object[hist[j].addr].file
        BY <2>1, <4>2
      <4>4. hist[j].before[g] = hist[j].after[g]
        BY <4>3 DEF FlagInv, EditsOneFile
      <4>5. QED
        BY <4>2, <4>4
    <3>3. QED
      BY <3>1, <3>2
  <2>2. QED
    BY <2>1, <1>5 DEF EditsOneFile
<1>11. FlagSound /\ flag \in [File -> BOOLEAN]
  BY <1>2 DEF FlagInv, HistoryOK, TypeOK
<1>12. BeforeOnDisk'
  <2>1. ASSUME NEW i \in 1..(n + 1), NEW b, b = object'[hist'[i].addr],
               hist'[i].addr \notin written', ~b.modified, b.file \in Entity \cup Included
        PROVE  disk'[PathOf(b.file, place')] = hist'[i].before[b.file]
    <3>1. CASE i = n + 1
      <4>1. b.file = f /\ ~flag[f]
        BY <3>1, <2>1, <1>5, <1>7
      <4>2. QED
        BY <3>1, <4>1, <2>1, <1>5, <1>9, <1>11 DEF FlagSound
    <3>2. CASE i # n + 1
      <4>1. i \in 1..n
        BY <3>2, <1>4
      <4>2. hist[i + o].addr \notin written
        BY <4>1, <2>1, <1>6, <1>8, <1>9
      <4>3. b = object[hist[i + o].addr] /\ i + o \in 1..HP!Done
        BY <4>1, <2>1, <1>5, <1>8
      <4>4. disk[PathOf(b.file, place)] = hist[i + o].before[b.file]
        BY <4>2, <4>3, <2>1 DEF FlagInv, BeforeOnDisk
      <4>5. QED
        BY <4>1, <4>4, <1>5, <1>9
    <3>3. QED
      BY <3>1, <3>2
  <2>2. QED
    BY <2>1, <1>5 DEF BeforeOnDisk
<1>13. FlagSound'
  <2>1. ASSUME NEW g \in Entity \cup Included, ~flag'[g]
        PROVE  disk'[PathOf(g, place')] = content'[g]
    <3>1. g \in File
      BY DEF File
    <3>2. g # f /\ ~flag[g]
      BY <3>1, <2>1, <1>9, <1>11
    <3>3. content'[g] = content[g]
      BY <3>1, <3>2, <1>2, <1>5
    <3>4. QED
      BY <3>2, <3>3, <1>9, <1>11 DEF FlagSound
  <2>2. QED
    BY <2>1 DEF FlagSound
<1>14. QED
  BY <1>2, <1>10, <1>12, <1>13 DEF FlagInv

LEMMA UndoFlag == FlagInv /\ ~UndoWritten /\ Undo => FlagInv'
<1> SUFFICES ASSUME FlagInv, ~UndoWritten, Undo PROVE FlagInv'
  OBVIOUS
<1>1. HistoryOK /\ HistoryOK' /\ content \in [File -> Text]
  BY UndoDoc DEF FlagInv, HistoryOK, TypeOK, History!TypeOK
<1>2. PICK k \in 1..Len(hist) : k = HP!Done /\ k \in Nat
  BY <1>1, UndoFacts, HistoryFacts
<1>3. /\ Len(hist') = Len(hist) /\ HP!Done' = k - 1
      /\ \A i \in 1..Len(hist) : /\ hist'[i].addr = hist[i].addr
                                 /\ hist'[i].before = hist[i].before
                                 /\ hist'[i].after = hist[i].after
      /\ hist[k].addr = lastDone
      /\ content = hist[k].after /\ content' = hist[k].before
      /\ 1..(k - 1) \subseteq 1..Len(hist)
  BY <1>1, <1>2, UndoFacts, HistoryFacts
<1>4. PICK o, f : o = object[lastDone] /\ f = o.file
  OBVIOUS
<1>5. /\ UNCHANGED <<object, place, disk, written>>
      /\ flag' = [flag EXCEPT ![f] = o.modified]
      /\ lastDone \notin written
  BY <1>4 DEF Undo
<1>6. EditsOneFile'
  BY <1>3, <1>5 DEF FlagInv, EditsOneFile
<1>7. BeforeOnDisk'
  <2>1. ASSUME NEW i \in 1..(k - 1)
        PROVE  /\ i \in 1..HP!Done /\ i \in 1..Len(hist)
               /\ hist'[i].addr = hist[i].addr /\ hist'[i].before = hist[i].before
    BY <1>2, <1>3
  <2>2. QED
    BY <2>1, <1>3, <1>5 DEF FlagInv, BeforeOnDisk
<1>8. FlagSound'
  <2>1. ASSUME NEW g \in Entity \cup Included, ~flag'[g]
        PROVE  disk'[PathOf(g, place')] = content'[g]
    <3>1. g \in File /\ flag \in [File -> BOOLEAN]
      BY <1>1 DEF File, HistoryOK, TypeOK
    <3>2. CASE g = f
      <4>1. ~o.modified /\ o.file \in Entity \cup Included
        BY <3>1, <3>2, <2>1, <1>4, <1>5
      <4>2. disk[PathOf(o.file, place)] = hist[k].before[o.file]
        BY <4>1, <1>2, <1>3, <1>4, <1>5 DEF FlagInv, BeforeOnDisk
      <4>3. QED
        BY <4>2, <3>2, <1>3, <1>4, <1>5
    <3>3. CASE g # f
      <4>1. ~flag[g]
        BY <3>1, <3>3, <2>1, <1>5
      <4>2. hist[k].before[g] = hist[k].after[g]
        BY <3>1, <3>3, <1>3, <1>4 DEF FlagInv, EditsOneFile
      <4>3. QED
        BY <4>1, <4>2, <1>3, <1>5 DEF FlagInv, FlagSound
    <3>4. QED
      BY <3>2, <3>3
  <2>2. QED
    BY <2>1 DEF FlagSound
<1>9. QED
  BY <1>1, <1>6, <1>7, <1>8 DEF FlagInv

LEMMA RedoFlag == FlagInv /\ Redo => FlagInv'
<1> SUFFICES ASSUME FlagInv, Redo PROVE FlagInv'
  OBVIOUS
<1>1. HistoryOK /\ HistoryOK' /\ content \in [File -> Text]
  BY RedoDoc DEF FlagInv, HistoryOK, TypeOK, History!TypeOK
<1>2. PICK k \in 1..Len(hist) : k = HP!Done + 1 /\ k \in Nat /\ k - 1 = HP!Done
  BY <1>1, RedoFacts, HistoryFacts
<1>3. /\ Len(hist') = Len(hist) /\ HP!Done' = k /\ Listed(hist') = Listed(hist)
      /\ \A i \in 1..Len(hist) : /\ hist'[i].addr = hist[i].addr
                                 /\ hist'[i].before = hist[i].before
                                 /\ hist'[i].after = hist[i].after
      /\ content = hist[k].before /\ content' = hist[k].after
      /\ 1..k \subseteq 1..Len(hist)
  <2>1. /\ Len(hist') = Len(hist) /\ HP!Done' = HP!Done + 1
        /\ Listed(hist') = Listed(hist)
        /\ \A i \in 1..Len(hist) : /\ hist'[i].addr = hist[i].addr
                                   /\ hist'[i].before = hist[i].before
                                   /\ hist'[i].after = hist[i].after
        /\ content = hist[HP!Done + 1].before /\ content' = hist[HP!Done + 1].after
    BY <1>1, RedoFacts
  <2>2. 1..k \subseteq 1..Len(hist)
    BY <1>1, <1>2, HistoryFacts
  <2>3. QED
    BY <2>1, <2>2, <1>2
<1>4. PICK c, f : c = hist[k].addr /\ c = lastDone' /\ f = object[c].file
  BY <1>1, <1>2, RedoFacts
<1>5. /\ UNCHANGED <<place, disk, written>>
      /\ flag' = [flag EXCEPT ![f] = TRUE]
      /\ Remember(c, f)
  BY <1>4 DEF Redo
<1>6. \A i \in 1..Len(hist) : i # k => object'[hist[i].addr] = object[hist[i].addr]
  <2>1. ASSUME NEW i \in 1..Len(hist), i # k
        PROVE  hist[i].addr \in Listed(hist') /\ hist[i].addr # c
    BY <2>1, <1>1, <1>3, <1>4, HistoryFacts
  <2>2. QED
    BY <2>1, <1>5, RememberFacts
<1>7. object'[c].file = f /\ (~object'[c].modified => ~flag[f])
  <2>1. c \in Listed(hist')
    BY <1>1, <1>3, <1>4, HistoryFacts
  <2>2. QED
    BY <2>1, <1>5, RememberFacts
<1>8. EditsOneFile'
  <2>1. ASSUME NEW i \in 1..Len(hist), NEW g \in File, g # object'[hist[i].addr].file
        PROVE  hist[i].before[g] = hist[i].after[g]
    <3>1. g # object[hist[i].addr].file
      BY <2>1, <1>4, <1>6, <1>7
    <3>2. QED
      BY <3>1 DEF FlagInv, EditsOneFile
  <2>2. QED
    BY <2>1, <1>3 DEF EditsOneFile
<1>9. FlagSound /\ flag \in [File -> BOOLEAN]
  BY <1>1 DEF FlagInv, HistoryOK, TypeOK
<1>10. BeforeOnDisk'
  <2>1. ASSUME NEW i \in 1..k, NEW b, b = object'[hist[i].addr],
               hist[i].addr \notin written, ~b.modified, b.file \in Entity \cup Included
        PROVE  disk[PathOf(b.file, place)] = hist[i].before[b.file]
    <3>1. CASE i = k
      <4>1. b.file = f /\ ~flag[f]
        BY <3>1, <2>1, <1>4, <1>7
      <4>2. QED
        BY <3>1, <4>1, <2>1, <1>3, <1>9 DEF FlagSound
    <3>2. CASE i # k
      <4>1. i \in 1..HP!Done /\ b = object[hist[i].addr]
        BY <3>2, <2>1, <1>2, <1>3, <1>6
      <4>2. QED
        BY <4>1, <2>1 DEF FlagInv, BeforeOnDisk
    <3>3. QED
      BY <3>1, <3>2
  <2>2. ASSUME NEW i \in 1..k
        PROVE  hist'[i].addr = hist[i].addr /\ hist'[i].before = hist[i].before
    BY <1>3
  <2>3. QED
    BY <2>1, <2>2, <1>3, <1>5 DEF BeforeOnDisk
<1>11. FlagSound'
  <2>1. ASSUME NEW g \in Entity \cup Included, ~flag'[g]
        PROVE  disk'[PathOf(g, place')] = content'[g]
    <3>1. g \in File
      BY DEF File
    <3>2. g # f /\ ~flag[g]
      BY <3>1, <2>1, <1>5, <1>9
    <3>3. hist[k].before[g] = hist[k].after[g]
      BY <3>1, <3>2, <1>4 DEF FlagInv, EditsOneFile
    <3>4. QED
      BY <3>2, <3>3, <1>3, <1>5, <1>9 DEF FlagSound
  <2>2. QED
    BY <2>1 DEF FlagSound
<1>12. QED
  BY <1>1, <1>8, <1>10, <1>11 DEF FlagInv

\* What a save that wrote its files leaves on the disk at the path of f.
LEMMA WrittenAt ==
  ASSUME NEW p \in {"home"} \cup Place, NEW q \in {"home"} \cup Place,
         NEW files \in SUBSET File, NEW torn, Write(files, torn, p), NEW f \in File
  PROVE  disk'[PathOf(f, q)] = IF f \in files /\ PathOf(f, q) = PathOf(f, p)
                               THEN IF f \in torn THEN Torn ELSE content[f]
                               ELSE disk[PathOf(f, q)]
<1>1. PathOf(f, q) \in Location /\ PathOf(f, q)[1] = f
  BY Paths
<1>2. (\E g \in files : PathOf(f, q) = PathOf(g, p))
        <=> f \in files /\ PathOf(f, q) = PathOf(f, p)
  BY Paths
<1>3. QED
  BY <1>1, <1>2 DEF Write

LEMMA SaveFlag ==
  ASSUME FlagInv, FlagsRelied, NEW p \in {"home"} \cup Place, NEW force \in BOOLEAN,
         force <=> (p = "away") # (place = "away"),
         NEW unopened, NEW torn, SaveWith(p, force, unopened, torn)
  PROVE  FlagInv'
<1> DEFINE top == IF force \/ Top \notin readOnly THEN {Top} ELSE {}
           chosen == Chosen(force)
           files == (top \cup chosen) \ unopened
<1>1. HistoryOK /\ HistoryOK' /\ place \in {"home"} \cup Place
      /\ place' \in {"home"} \cup Place /\ flag \in [File -> BOOLEAN]
  BY SaveDoc DEF FlagInv, HistoryOK, TypeOK
<1>2. /\ UNCHANGED <<hist, lastDone, content, object>>
      /\ unopened \subseteq OpenFails /\ torn \subseteq WriteFails
      /\ Write(files, torn, p)
      /\ flag' = [f \in File |-> flag[f] /\ f \notin Reset(chosen, unopened)]
      /\ written' = {hist[i].addr : i \in 1..HP!Done}
      /\ IF SavedOk(chosen, unopened) THEN place' = p ELSE place' = place
  BY DEF SaveWith
<1>3. HP!Done' = HP!Done
  BY <1>2 DEF HP!Done
<1>4. EditsOneFile' /\ BeforeOnDisk'
  <2>1. EditsOneFile'
    BY <1>2 DEF FlagInv, EditsOneFile
  <2>2. \A i \in 1..HP!Done : hist[i].addr \in written'
    BY <1>2
  <2>3. QED
    BY <2>1, <2>2, <1>2, <1>3 DEF BeforeOnDisk
<1>5. files \in SUBSET File
  BY DEF Chosen, File
<1> HIDE DEF files
<1>6. ASSUME NEW f \in Entity \cup Included, ~flag'[f]
      PROVE  disk'[PathOf(f, place')] = content[f]
  <2>1. /\ f \in File /\ f # Top /\ f \notin torn
        /\ f \in files <=> f \in chosen /\ f \notin unopened
    BY <1>2, FileAssumption DEF File, FlagsRelied, files
  <2>2. disk'[PathOf(f, place')] =
          IF f \in files /\ PathOf(f, place') = PathOf(f, p)
          THEN content[f] ELSE disk[PathOf(f, place')]
    BY <1>1, <1>2, <1>5, <2>1, WrittenAt
  <2>3. ~flag[f] => disk[PathOf(f, place)] = content[f]
    BY DEF FlagInv, FlagSound
  <2>4. flag[f] => f \in Reset(chosen, unopened)
    BY <1>1, <1>2, <1>6, <2>1
  <2>5. CASE f \notin chosen
    <3>1. ~flag[f] /\ (force => f \in Included)
      BY <2>5 DEF Chosen
    <3>2. PathOf(f, p) = PathOf(f, place)
      <4>1. CASE f \in Included
        BY <4>1, Paths
      <4>2. CASE f \in Entity
        <5>1. ~force
          BY <3>1, <4>2, FileAssumption
        <5>2. QED
          BY <4>2, <5>1, Paths
      <4>3. QED
        BY <4>1, <4>2
    <3>3. QED
      BY <3>1, <3>2, <2>1, <2>2, <2>3, <2>5, <1>2
  <2>6. CASE f \in chosen /\ f \notin unopened
    <3>1. CASE SavedOk(chosen, unopened)
      BY <3>1, <2>1, <2>2, <2>6, <1>2
    <3>2. CASE ~SavedOk(chosen, unopened)
      <4>1. PICK e \in chosen : e \in unopened
        BY <3>2 DEF SavedOk
      <4>2. e \in Entity /\ e \in OpenFails
        BY <4>1, <1>2 DEF Chosen, FlagsRelied
      <4>3. PathOf(f, p) = PathOf(f, place)
        <5>1. CASE f \in Included
          BY <5>1, Paths
        <5>2. CASE f \in Entity
          <6>1. f # e /\ Entity # {e}
            BY <4>1, <5>2, <2>6
          <6>2. "away" \notin Place
            BY <4>2, <6>1 DEF FlagsRelied
          <6>3. p # "away" /\ place # "away"
            BY <6>2, <1>1
          <6>4. QED
            BY <5>2, <6>3, Paths
        <5>3. QED
          BY <5>1, <5>2
      <4>4. QED
        BY <3>2, <4>3, <2>1, <2>2, <2>6, <1>2
    <3>3. QED
      BY <3>1, <3>2
  <2>7. CASE f \in chosen /\ f \in unopened
    <3>1. f \in Entity /\ ~SavedOk(chosen, unopened)
      BY <2>7, <1>2 DEF FlagsRelied, SavedOk
    <3>2. ~flag[f] /\ place' = place
      BY <3>1, <2>4, <2>7, <1>2 DEF Reset
    <3>3. QED
      BY <3>2, <2>1, <2>2, <2>3, <2>7
  <2>8. QED
    BY <2>5, <2>6, <2>7
<1>7. FlagSound'
  BY <1>2, <1>6 DEF FlagSound
<1>8. QED
  BY <1>1, <1>4, <1>7 DEF FlagInv

LEMMA InitFlag == Init => FlagInv
<1> SUFFICES ASSUME Init PROVE FlagInv
  OBVIOUS
<1>1. HistoryOK /\ hist = <<>>
  BY InitDoc DEF Init, History!Init
<1>2. HP!Done = 0
  BY DEF Init, History!Init, HP!Done, HP!Position
<1>3. EditsOneFile /\ BeforeOnDisk
  BY <1>1, <1>2 DEF EditsOneFile, BeforeOnDisk
<1>4. ASSUME NEW f \in Entity \cup Included PROVE disk[PathOf(f, place)] = content[f]
  <2>1. f \in File /\ place = "home" /\ f # Top
    BY FileAssumption DEF File, Init
  <2>2. PathOf(f, place) = <<f, "home">>
    BY <2>1, FileAssumption DEF PathOf
  <2>3. PathOf(f, place) \in Location
    BY <2>1, Paths
  <2>4. QED
    BY <2>2, <2>3 DEF Init
<1>5. QED
  BY <1>1, <1>3, <1>4 DEF FlagInv, FlagSound

LEMMA ReopenFlag == HistoryOK /\ Reopen => FlagInv'
<1> SUFFICES ASSUME HistoryOK, Reopen PROVE FlagInv'
  OBVIOUS
<1>1. HistoryOK' /\ hist' = <<>>
  BY ReopenDoc DEF Reopen
<1>2. HP!Done' = 0
  BY DEF Reopen, HP!Done, HP!Position
<1>3. EditsOneFile' /\ BeforeOnDisk'
  BY <1>1, <1>2 DEF EditsOneFile, BeforeOnDisk
<1>4. FlagSound'
  BY DEF Reopen, FlagSound, File
<1>5. QED
  BY <1>1, <1>3, <1>4 DEF FlagInv

LEMMA StutterFlag == FlagInv /\ UNCHANGED vars => FlagInv'
<1> SUFFICES ASSUME FlagInv, UNCHANGED vars PROVE FlagInv'
  OBVIOUS
<1>1. HistoryOK' /\ HP!Done' = HP!Done
  BY StutterDoc DEF FlagInv, vars, historyVars, HP!Done
<1>2. EditsOneFile' /\ BeforeOnDisk' /\ FlagSound'
  BY <1>1 DEF vars, historyVars, FlagInv, EditsOneFile, BeforeOnDisk, FlagSound
<1>3. QED
  BY <1>1, <1>2 DEF FlagInv

LEMMA NextFlag == FlagInv /\ FlagsRelied /\ [Next]_vars => FlagInv'
<1> SUFFICES ASSUME FlagInv, FlagsRelied, [Next]_vars PROVE FlagInv'
  OBVIOUS
<1>0. HistoryOK
  BY DEF FlagInv
<1>1. CASE \E f \in File, t \in Text : Execute(f, t)
  BY <1>1, ExecuteFlag
<1>2. CASE Undo \/ Redo
  BY <1>2, UndoFlag, RedoFlag DEF FlagsRelied
<1>3. CASE Save \/ \E p \in Place : SaveAs(p)
  <2>1. PICK p \in {"home"} \cup Place, force \in BOOLEAN :
          /\ SaveTo(p, force)
          /\ force <=> (p = "away") # (place = "away")
    BY <1>0, <1>3, SaveSteps
  <2>2. CASE UNCHANGED vars
    BY <2>2, StutterFlag
  <2>3. CASE \E unopened, torn : SaveWith(p, force, unopened, torn)
    BY <2>1, <2>3, SaveFlag
  <2>4. QED
    BY <2>1, <2>2, <2>3, SaveFacts
<1>4. CASE Reopen
  BY <1>0, <1>4, ReopenFlag
<1>5. CASE UNCHANGED vars
  BY <1>5, StutterFlag
<1>6. QED
  BY <1>1, <1>2, <1>3, <1>4, <1>5 DEF Next

\* An entity or included document whose content is not what its path holds is
\* marked as modified, so that GroveSaver writes it at the next save: whatever was
\* edited, undone, done again, saved in part or saved elsewhere.
THEOREM FlagsTellModified == FlagsRelied => (Spec => []FlagSound)
<1> SUFFICES ASSUME FlagsRelied PROVE Spec => []FlagSound
  OBVIOUS
<1>1. FlagInv => FlagSound
  BY DEF FlagInv
<1>2. FlagInv /\ [Next]_vars => FlagInv'
  BY NextFlag
<1>3. QED
  BY <1>1, <1>2, InitFlag, PTL DEF Spec

-----------------------------------------------------------------------------
(***************************************************************************)
(* The disk. The commands up to the mark were all done at a save that wrote *)
(* files, so undo does not go below the mark; and as long as none beyond it *)
(* was, the disk holds what the mark stands for.                            *)
(***************************************************************************)

SavedOnDisk == \A f \in File : disk[PathOf(f, place)] = saved[f]

WrittenDone ==
  \A i \in 1..Len(hist) : hist[i].addr \in written => i <= HP!Done

\* What was saved is what the m-th command made.
SavedAt(m) ==
  /\ m = HP!Done => content = saved
  /\ m \in 1..Len(hist) => hist[m].after = saved
  /\ m + 1 \in 1..Len(hist) => hist[m + 1].before = saved

\* The mark is at the m-th command, all up to it were written, and either the disk
\* is as it was saved or a later command was written, too.
MarkAt(m) ==
  /\ notModifiedAt = IF m = 0 THEN NULL ELSE hist[m].addr
  /\ SavedAt(m)
  /\ \A i \in 1..m : hist[i].addr \in written
  /\ SavedOnDisk \/ \E j \in (m + 1)..Len(hist) : hist[j].addr \in written

MarkOnDisk == ~wasCleared => \E m \in 0..HP!Done : MarkAt(m)

DiskInv ==
  /\ FlagInv
  /\ readOnly \subseteq Protected
  /\ WrittenDone /\ MarkOnDisk

\* Where the disk can be relied on: the flags can, a file that was opened is written
\* to its end, and the top document is not write-protected. (TLC refutes
\* UnmodifiedIsOnDisk without each of them. The mark is safe even if its address
\* is given to a new command: it leaves the list only when that is trimmed.)
DiskRelied == FlagsRelied /\ WriteFails = {} /\ Top \notin Protected

\* The cursor, read as a pointer.
LEMMA CursorIs ==
  ASSUME HistoryOK
  PROVE  lastDone = IF HP!Done = 0 THEN NULL ELSE hist[HP!Done].addr
<1>1. lastDone = NULL \/ (HP!Done \in 1..Len(hist) /\ hist[HP!Done].addr = lastDone)
  BY DEF HistoryOK, HP!HistoryInv, HP!ExecutedPrefix
<1>2. lastDone = NULL => HP!Done = 0
  BY DEF HP!Done, HP!Position
<1>3. QED
  BY <1>1, <1>2

LEMMA ExecuteDisk ==
  ASSUME DiskInv, NEW f \in File, NEW t \in Text, Execute(f, t)
  PROVE  DiskInv'
<1>1. PICK c \in Command, d \in [File -> Text] :
        d = [content EXCEPT ![f] = t] /\ History!ExecuteAndAdd(c, d)
  BY DEF Execute, DiskInv, FlagInv, HistoryOK, TypeOK, History!TypeOK
<1>2. HistoryOK /\ HP!HistoryInv /\ FlagInv'
  BY ExecuteFlag DEF DiskInv, FlagInv, HistoryOK
<1>3. HP!ExecuteAndAdd(c, d)
  BY <1>1, SameSteps
<1>5. PICK o \in {0, 1} : NewList(c, f, t, o)
  BY <1>1, <1>2, ExecuteFacts
<1>6. PICK n \in Nat : n = HP!Done - o
  BY <1>5 DEF NewList
<1>7. /\ Len(hist') = n + 1 /\ HP!Done' = n + 1
      /\ \A i \in 1..n : hist'[i] = hist[i + o] /\ i + o \in 1..Len(hist)
      /\ hist'[n + 1].addr = c /\ c \notin Listed(hist)
      /\ hist'[n + 1].before = content
      /\ o = 1 => wasCleared'
      /\ wasCleared => wasCleared'
  BY <1>2, <1>5, <1>6, HistoryFacts DEF NewList
<1>8. /\ UNCHANGED <<readOnly, place, disk, notModifiedAt, saved>>
      /\ written' = written \cap Listed(hist')
  BY <1>3 DEF Execute, HP!ExecuteAndAdd
<1>9. WrittenDone'
  BY <1>7 DEF WrittenDone
<1>10. ASSUME ~wasCleared' PROVE \E m \in 0..HP!Done' : MarkAt(m)'
  <2>1. o = 0 /\ ~wasCleared /\ n = HP!Done
    <3>1. o = 0 /\ ~wasCleared
      BY <1>7, <1>10, Zenon
    <3>2. QED
      BY <3>1, <1>2, <1>6, HistoryFacts
  <2>2. PICK m \in 0..n : MarkAt(m)
    BY <2>1 DEF DiskInv, MarkOnDisk
  <2>3. \A i \in 1..n : hist'[i] = hist[i] /\ i \in 1..Len(hist) /\ i \in 1..(n + 1)
    BY <2>1, <1>7
  <2>4. \A i \in 1..n : hist[i].addr \in written => hist'[i].addr \in written'
    BY <2>3, <1>7, <1>8 DEF Listed
  <2>5. notModifiedAt' = IF m = 0 THEN NULL ELSE hist'[m].addr
    BY <2>2, <2>3, <1>8 DEF MarkAt
  <2>6. \A i \in 1..m : hist'[i].addr \in written'
    BY <2>2, <2>4 DEF MarkAt
  <2>7. SavedOnDisk' \/ \E j \in (m + 1)..Len(hist') : hist'[j].addr \in written'
    <3>1. CASE SavedOnDisk
      BY <3>1, <1>8 DEF SavedOnDisk
    <3>2. CASE ~SavedOnDisk
      <4>1. PICK j \in (m + 1)..Len(hist) : hist[j].addr \in written
        BY <3>2, <2>2 DEF MarkAt
      <4>2. j \in 1..n /\ j \in (m + 1)..Len(hist')
        BY <4>1, <2>1, <1>2, <1>7, HistoryFacts DEF DiskInv, WrittenDone
      <4>3. QED
        BY <4>1, <4>2, <2>4
    <3>3. QED
      BY <3>1, <3>2
  <2>8. SavedAt(m)'
    <3>1. m # HP!Done'
      BY <1>7
    <3>2. m \in 1..Len(hist') => hist'[m].after = saved
      BY <2>2, <2>3, <1>7 DEF MarkAt, SavedAt
    <3>3. CASE m = n
      BY <3>1, <3>2, <3>3, <2>1, <2>2, <1>7, <1>8 DEF MarkAt, SavedAt
    <3>4. CASE m < n
      <4>1. m + 1 \in 1..n
        BY <3>4
      <4>2. hist[m + 1].before = saved /\ hist'[m + 1] = hist[m + 1]
        BY <4>1, <2>2, <2>3 DEF MarkAt, SavedAt
      <4>3. QED
        BY <4>2, <3>1, <3>2, <1>8 DEF SavedAt
    <3>5. QED
      BY <3>3, <3>4
  <2>9. MarkAt(m)' /\ m \in 0..HP!Done'
    BY <2>5, <2>6, <2>7, <2>8, <1>7 DEF MarkAt
  <2>10. QED
    BY <2>9
<1>11. QED
  BY <1>2, <1>8, <1>9, <1>10 DEF DiskInv, MarkOnDisk

LEMMA UndoDisk == DiskInv /\ ~UndoWritten /\ Undo => DiskInv'
<1> SUFFICES ASSUME DiskInv, ~UndoWritten, Undo PROVE DiskInv'
  OBVIOUS
<1>1. HistoryOK /\ HP!HistoryInv /\ FlagInv' /\ HP!Undo
  BY UndoFlag, SameSteps DEF DiskInv, FlagInv, HistoryOK, Undo
<1>3. PICK k \in 1..Len(hist) : k = HP!Done /\ k \in Nat
  BY <1>1, UndoFacts, HistoryFacts
<1>4. /\ Len(hist') = Len(hist) /\ HP!Done' = k - 1
      /\ \A i \in 1..Len(hist) : /\ hist'[i].addr = hist[i].addr
                                 /\ hist'[i].before = hist[i].before
                                 /\ hist'[i].after = hist[i].after
      /\ content' = hist[k].before
      /\ hist[k].addr \notin written
  BY <1>1, <1>3, UndoFacts DEF Undo
<1>5. UNCHANGED <<readOnly, place, disk, written, notModifiedAt, wasCleared, saved>>
  BY <1>1 DEF Undo, HP!Undo
<1>6. WrittenDone'
  BY <1>3, <1>4, <1>5 DEF DiskInv, WrittenDone
<1>7. ASSUME ~wasCleared PROVE \E m \in 0..(k - 1) : MarkAt(m)'
  <2>1. PICK m \in 0..k : MarkAt(m)
    BY <1>3, <1>7 DEF DiskInv, MarkOnDisk
  <2>2. m # k
    BY <2>1, <1>3, <1>4 DEF MarkAt
  <2>3. \A i \in 1..m : i \in 1..Len(hist)
    BY <1>3
  <2>4. \A i \in (m + 1)..Len(hist) : i \in 1..Len(hist)
    OBVIOUS
  <2>5. MarkAt(m)'
    <3>1. notModifiedAt' = IF m = 0 THEN NULL ELSE hist'[m].addr
      BY <2>1, <2>3, <1>4, <1>5 DEF MarkAt
    <3>2. \A i \in 1..m : hist'[i].addr \in written'
      BY <2>1, <2>3, <1>4, <1>5 DEF MarkAt
    <3>3. SavedOnDisk' \/ \E j \in (m + 1)..Len(hist') : hist'[j].addr \in written'
      BY <2>1, <2>4, <1>4, <1>5 DEF MarkAt, SavedOnDisk
    <3>4. SavedAt(m)'
      BY <2>1, <2>2, <1>3, <1>4, <1>5 DEF MarkAt, SavedAt
    <3>5. QED
      BY <3>1, <3>2, <3>3, <3>4 DEF MarkAt
  <2>6. QED
    BY <2>2, <2>5, <1>3
<1>8. QED
  BY <1>1, <1>4, <1>5, <1>6, <1>7 DEF DiskInv, MarkOnDisk

LEMMA RedoDisk == DiskInv /\ Redo => DiskInv'
<1> SUFFICES ASSUME DiskInv, Redo PROVE DiskInv'
  OBVIOUS
<1>1. HistoryOK /\ HP!HistoryInv /\ FlagInv' /\ HP!Redo
  BY RedoFlag, SameSteps DEF DiskInv, FlagInv, HistoryOK, Redo
<1>3. /\ HP!Done \in 0..Len(hist) /\ Len(hist) \in Nat /\ HP!Done' = HP!Done + 1
      /\ Len(hist') = Len(hist)
      /\ \A i \in 1..Len(hist) : /\ hist'[i].addr = hist[i].addr
                                 /\ hist'[i].before = hist[i].before
                                 /\ hist'[i].after = hist[i].after
  BY <1>1, RedoFacts, HistoryFacts
<1>4. UNCHANGED <<readOnly, place, disk, written, notModifiedAt, wasCleared, saved>>
  BY <1>1 DEF Redo, HP!Redo
<1>5. WrittenDone'
  BY <1>3, <1>4 DEF DiskInv, WrittenDone
<1>6. ASSUME ~wasCleared PROVE \E m \in 0..(HP!Done + 1) : MarkAt(m)'
  <2>1. PICK m \in 0..HP!Done : MarkAt(m)
    BY <1>6 DEF DiskInv, MarkOnDisk
  <2>2. /\ \A i \in 1..m : i \in 1..Len(hist)
        /\ \A i \in (m + 1)..Len(hist) : i \in 1..Len(hist)
        /\ m \in 0..(HP!Done + 1)
    BY <1>3
  <2>3. MarkAt(m)'
    <3>1. notModifiedAt' = IF m = 0 THEN NULL ELSE hist'[m].addr
      BY <2>1, <2>2, <1>3, <1>4 DEF MarkAt
    <3>2. \A i \in 1..m : hist'[i].addr \in written'
      BY <2>1, <2>2, <1>3, <1>4 DEF MarkAt
    <3>3. SavedOnDisk' \/ \E j \in (m + 1)..Len(hist') : hist'[j].addr \in written'
      BY <2>1, <2>2, <1>3, <1>4 DEF MarkAt, SavedOnDisk
    <3>4. SavedAt(m)'
      BY <2>1, <2>2, <1>3, <1>4 DEF MarkAt, SavedAt
    <3>5. QED
      BY <3>1, <3>2, <3>3, <3>4 DEF MarkAt
  <2>4. QED
    BY <2>2, <2>3
<1>7. QED
  BY <1>1, <1>3, <1>4, <1>5, <1>6 DEF DiskInv, MarkOnDisk

LEMMA SaveDisk ==
  ASSUME DiskInv, DiskRelied, NEW p \in {"home"} \cup Place, NEW force \in BOOLEAN,
         force <=> (p = "away") # (place = "away"),
         NEW unopened, NEW torn, SaveWith(p, force, unopened, torn)
  PROVE  DiskInv'
<1> DEFINE top == IF force \/ Top \notin readOnly THEN {Top} ELSE {}
           chosen == Chosen(force)
           files == (top \cup chosen) \ unopened
<1>1. HistoryOK /\ HP!HistoryInv /\ FlagInv' /\ place \in {"home"} \cup Place
  BY SaveFlag DEF DiskRelied, DiskInv, FlagInv, HistoryOK, TypeOK
<1>2. /\ UNCHANGED <<hist, lastDone, content, object>>
      /\ torn = {} /\ Top \notin top \cap unopened
      /\ Write(files, torn, p)
      /\ written' = {hist[i].addr : i \in 1..HP!Done}
  BY DEF SaveWith, DiskRelied
<1>3. /\ HP!Done' = HP!Done /\ HP!Done \in 0..Len(hist) /\ Len(hist) \in Nat
      /\ \A i \in 1..HP!Done : hist[i].addr \in written'
  BY <1>1, <1>2, HistoryFacts DEF HP!Done
<1>4. WrittenDone'
  <2>1. ASSUME NEW i \in 1..Len(hist), hist[i].addr \in written' PROVE i <= HP!Done
    <3>1. PICK j \in 1..HP!Done : hist[i].addr = hist[j].addr
      BY <2>1, <1>2
    <3>2. i = j
      BY <3>1, <1>1, <1>3, HistoryFacts
    <3>3. QED
      BY <3>2, <1>3
  <2>2. QED
    BY <2>1, <1>2, <1>3 DEF WrittenDone
<1>5. files \in SUBSET File /\ Top \in files
  BY <1>2 DEF Chosen, File, DiskRelied, DiskInv
<1> HIDE DEF files
<1>6. \A f \in File, q \in {"home"} \cup Place :
        disk'[PathOf(f, q)] = IF f \in files /\ PathOf(f, q) = PathOf(f, p)
                              THEN content[f] ELSE disk[PathOf(f, q)]
  <2> TAKE f \in File, q \in {"home"} \cup Place
  <2>1. f \notin torn
    BY <1>2
  <2>2. disk'[PathOf(f, q)] = IF f \in files /\ PathOf(f, q) = PathOf(f, p)
                              THEN IF f \in torn THEN Torn ELSE content[f]
                              ELSE disk[PathOf(f, q)]
    <3>1. Write(files, torn, p) /\ files \in SUBSET File
      BY <1>2, <1>5
    <3>2. QED
      BY <3>1, WrittenAt
  <2>3. QED
    BY <2>1, <2>2
<1>7. CASE SavedOk(chosen, unopened)
  <2>1. HP!SetNotModified /\ place' = p /\ readOnly' \subseteq Protected
    BY <1>7 DEF SaveWith, DiskInv, Locked
  <2>3. saved' = content /\ notModifiedAt' = lastDone
    BY <2>1 DEF HP!SetNotModified
  <2>4. ASSUME NEW f \in File PROVE disk'[PathOf(f, p)] = content[f]
    <3>1. CASE f \in files
      BY <3>1, <1>6
    <3>2. CASE f \notin files
      <4>1. f \notin chosen /\ f \in Entity \cup Included
        BY <3>2, <1>5, <1>7 DEF files, SavedOk, File
      <4>2. ~flag[f] /\ (force => f \in Included)
        BY <4>1 DEF Chosen
      <4>3. disk[PathOf(f, place)] = content[f]
        BY <4>1, <4>2 DEF DiskInv, FlagInv, FlagSound
      <4>4. PathOf(f, p) = PathOf(f, place)
        <5>1. CASE f \in Included
          BY <5>1, Paths
        <5>2. CASE f \in Entity
          BY <4>2, <5>2, FileAssumption, Paths
        <5>3. QED
          BY <4>1, <5>1, <5>2
      <4>5. QED
        BY <3>2, <4>3, <4>4, <1>6
    <3>3. QED
      BY <3>1, <3>2
  <2>5. SavedOnDisk'
    BY <1>2, <2>1, <2>3, <2>4 DEF SavedOnDisk
  <2>6. PICK m \in 0..HP!Done : m = HP!Done
    BY <1>3
  <2>7. MarkAt(m)'
    <3>1. notModifiedAt' = IF m = 0 THEN NULL ELSE hist'[m].addr
      BY <1>1, <1>2, <2>3, <2>6, CursorIs
    <3>2. SavedAt(m)'
      BY <1>1, <1>2, <1>3, <2>3, <2>6
         DEF SavedAt, HP!HistoryInv, HP!CommandsInContext
    <3>3. QED
      BY <3>1, <3>2, <2>5, <2>6, <1>2, <1>3 DEF MarkAt
  <2>8. QED
    BY <1>1, <1>3, <1>4, <2>1, <2>7 DEF DiskInv, MarkOnDisk
<1>8. CASE ~SavedOk(chosen, unopened)
  <2>1. UNCHANGED <<historyVars, place, readOnly>>
    BY <1>8 DEF SaveWith
  <2>3. ASSUME ~wasCleared PROVE \E m \in 0..HP!Done : MarkAt(m)'
    <3>1. PICK m \in 0..HP!Done : MarkAt(m)
      BY <2>3 DEF DiskInv, MarkOnDisk
    <3>2. notModifiedAt' = IF m = 0 THEN NULL ELSE hist'[m].addr
      BY <3>1, <2>1 DEF MarkAt, historyVars
    <3>3. \A i \in 1..m : hist'[i].addr \in written'
      BY <1>2, <1>3
    <3>4. SavedOnDisk' \/ \E j \in (m + 1)..Len(hist') : hist'[j].addr \in written'
      <4>1. CASE m < HP!Done
        <5>1. HP!Done \in (m + 1)..Len(hist') /\ HP!Done \in 1..HP!Done
          BY <4>1, <1>2, <1>3
        <5>2. QED
          BY <5>1, <1>2, <1>3
      <4>2. CASE m = HP!Done
        <5>1. content = saved
          BY <4>2, <3>1 DEF MarkAt, SavedAt
        <5>2. SavedOnDisk
          BY <4>2, <3>1, <1>3 DEF MarkAt, DiskInv, WrittenDone
        <5>3. QED
          BY <5>1, <5>2, <1>1, <1>6, <2>1 DEF SavedOnDisk, historyVars
      <4>3. QED
        BY <4>1, <4>2, <1>3
    <3>5. SavedAt(m)'
      BY <3>1, <1>3, <2>1 DEF MarkAt, SavedAt, historyVars
    <3>6. QED
      BY <3>2, <3>3, <3>4, <3>5 DEF MarkAt
  <2>4. QED
    BY <1>1, <1>3, <1>4, <2>1, <2>3 DEF DiskInv, MarkOnDisk, historyVars
<1>9. QED
  BY <1>7, <1>8

LEMMA ReopenDisk == DiskInv /\ Reopen => DiskInv'
<1> SUFFICES ASSUME DiskInv, Reopen PROVE DiskInv'
  OBVIOUS
<1>1. FlagInv'
  BY ReopenFlag DEF DiskInv, FlagInv
<1>2. /\ hist' = <<>> /\ Len(hist') = 0 /\ notModifiedAt' = NULL
      /\ readOnly' \subseteq Protected
      /\ saved' = [f \in File |-> disk[PathOf(f, place)]] /\ content' = saved'
      /\ UNCHANGED <<place, disk>>
  BY DEF Reopen, Locked
<1>3. HP!Done' = 0
  BY DEF Reopen, HP!Done, HP!Position
<1>4. SavedOnDisk'
  BY <1>2 DEF SavedOnDisk
<1>5. 0 \in 0..HP!Done' /\ MarkAt(0)'
  BY <1>2, <1>3, <1>4 DEF MarkAt, SavedAt
<1>6. WrittenDone' /\ MarkOnDisk'
  BY <1>2, <1>5 DEF WrittenDone, MarkOnDisk
<1>7. QED
  BY <1>1, <1>2, <1>6 DEF DiskInv

LEMMA InitDisk == Init => DiskInv
<1> SUFFICES ASSUME Init PROVE DiskInv
  OBVIOUS
<1>1. FlagInv
  BY InitFlag
<1>2. /\ hist = <<>> /\ Len(hist) = 0 /\ notModifiedAt = NULL /\ saved = content
      /\ readOnly \subseteq Protected /\ place = "home"
  BY DEF Init, History!Init, Locked
<1>3. HP!Done = 0
  BY DEF Init, History!Init, HP!Done, HP!Position
<1>4. ASSUME NEW f \in File PROVE disk[PathOf(f, place)] = saved[f]
  <2>1. PathOf(f, place) = <<f, "home">>
    BY <1>2, FileAssumption DEF PathOf, File
  <2>2. PathOf(f, place) \in Location
    BY <1>2, Paths
  <2>3. QED
    BY <2>1, <2>2, <1>2 DEF Init
<1>5. 0 \in 0..HP!Done /\ MarkAt(0)
  BY <1>2, <1>3, <1>4 DEF MarkAt, SavedAt, SavedOnDisk
<1>6. WrittenDone /\ MarkOnDisk
  BY <1>2, <1>5 DEF WrittenDone, MarkOnDisk
<1>7. QED
  BY <1>1, <1>2, <1>6 DEF DiskInv

LEMMA StutterDisk == DiskInv /\ UNCHANGED vars => DiskInv'
<1> SUFFICES ASSUME DiskInv, UNCHANGED vars PROVE DiskInv'
  OBVIOUS
<1>1. FlagInv' /\ HP!Done' = HP!Done
  BY StutterFlag DEF DiskInv, vars, historyVars, HP!Done
<1>3. WrittenDone' /\ MarkOnDisk' /\ readOnly' \subseteq Protected
  BY <1>1 DEF vars, historyVars, DiskInv, WrittenDone, MarkOnDisk, MarkAt, SavedAt,
             SavedOnDisk
<1>4. QED
  BY <1>1, <1>3 DEF DiskInv

LEMMA NextDisk == DiskInv /\ DiskRelied /\ [Next]_vars => DiskInv'
<1> SUFFICES ASSUME DiskInv, DiskRelied, [Next]_vars PROVE DiskInv'
  OBVIOUS
<1>0. HistoryOK /\ ~UndoWritten
  BY DEF DiskInv, FlagInv, DiskRelied, FlagsRelied
<1>1. CASE \E f \in File, t \in Text : Execute(f, t)
  BY <1>0, <1>1, ExecuteDisk
<1>2. CASE Undo \/ Redo
  BY <1>0, <1>2, UndoDisk, RedoDisk
<1>3. CASE Save \/ \E p \in Place : SaveAs(p)
  <2>1. PICK p \in {"home"} \cup Place, force \in BOOLEAN :
          /\ SaveTo(p, force)
          /\ force <=> (p = "away") # (place = "away")
    BY <1>0, <1>3, SaveSteps
  <2>2. CASE UNCHANGED vars
    BY <2>2, StutterDisk
  <2>3. CASE \E unopened, torn : SaveWith(p, force, unopened, torn)
    BY <2>1, <2>3, SaveDisk
  <2>4. QED
    BY <2>1, <2>2, <2>3, SaveFacts
<1>4. CASE Reopen
  BY <1>4, ReopenDisk
<1>5. CASE UNCHANGED vars
  BY <1>5, StutterDisk
<1>6. QED
  BY <1>1, <1>2, <1>3, <1>4, <1>5 DEF Next

\* A document that is reported as not modified is on the disk where it is said to
\* be, the top document, its entities and the documents it includes, after any
\* edits, undos, redos and saves, in place or elsewhere, complete or in part.
THEOREM UnmodifiedFilesAreOnDisk == DiskRelied => (Spec => []UnmodifiedIsOnDisk)
<1> SUFFICES ASSUME DiskRelied PROVE Spec => []UnmodifiedIsOnDisk
  OBVIOUS
<1>1. DiskInv => UnmodifiedIsOnDisk
  <2> SUFFICES ASSUME DiskInv, ~History!IsModified
               PROVE  \A f \in File : disk[PathOf(f, place)] = content[f]
    BY DEF UnmodifiedIsOnDisk
  <2>1. ~wasCleared /\ notModifiedAt = lastDone
    BY DEF History!IsModified
  <2>2. HistoryOK
    BY DEF DiskInv, FlagInv
  <2>4. PICK m \in 0..HP!Done : MarkAt(m)
    BY <2>1 DEF DiskInv, MarkOnDisk
  <2>5. m = HP!Done
    <3>1. /\ HP!Done \in 0..Len(hist) /\ Len(hist) \in Nat
          /\ \A i \in 1..Len(hist) : hist[i].addr # NULL
          /\ \A i, j \in 1..Len(hist) : hist[i].addr = hist[j].addr => i = j
      BY <2>2, HistoryFacts, NullAssumption
    <3>2. (IF m = 0 THEN NULL ELSE hist[m].addr)
            = (IF HP!Done = 0 THEN NULL ELSE hist[HP!Done].addr)
      BY <2>1, <2>2, <2>4, CursorIs DEF MarkAt
    <3>3. QED
      BY <3>1, <3>2
  <2>6. content = saved
    BY <2>4, <2>5 DEF MarkAt, SavedAt
  <2>7. SavedOnDisk
    BY <2>2, <2>4, <2>5, HistoryFacts DEF MarkAt, DiskInv, WrittenDone
  <2>8. QED
    BY <2>6, <2>7 DEF SavedOnDisk
<1>2. DiskInv /\ [Next]_vars => DiskInv'
  BY NextDisk
<1>3. QED
  BY <1>1, <1>2, InitDisk, PTL DEF Spec

=============================================================================
