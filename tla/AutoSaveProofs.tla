--------------------------- MODULE AutoSaveProofs ---------------------------
(***************************************************************************)
(* Proofs about autosave and recovery, for any documents, any texts and    *)
(* any length of the undo history.                                         *)
(***************************************************************************)
EXTENDS AutoSave, SequenceTheorems, TLAPS

Contents == Text \cup {Absent, Torn}

-----------------------------------------------------------------------------
\* The states of the disk that a function goes through.

LEMMA TouchedFacts ==
  ASSUME NEW d \in Disk, NEW p \in Path, NEW t \in Contents
  PROVE  LET x == Touched(d, p, t) IN
         /\ x \in Disk
         /\ x.copy = d.copy /\ x.notSaved = d.notSaved
         /\ x.file[p] = t
         /\ \A q \in Path \ {p} : x.file[q] = d.file[q] /\ x.entry[q] = d.entry[q]
         /\ x.entry[p] = NoEntry <=> d.entry[p] = NoEntry
         /\ x.entry[p] # NoEntry => x.entry[p].outdated
<1> DEFINE e == d.entry[p]
           f == IF e = NoEntry THEN e ELSE [e EXCEPT !.outdated = TRUE]
           x == Touched(d, p, t)
<1>1. /\ d.file \in [Path -> Contents] /\ d.copy \in [Path -> Contents]
      /\ d.entry \in [Path -> Entry] /\ d.notSaved \in SUBSET Path
      /\ e \in Entry
  BY DEF Disk, Contents
<1>2. /\ x.file = [d.file EXCEPT ![p] = t] /\ x.entry = [d.entry EXCEPT ![p] = f]
      /\ x.copy = d.copy /\ x.notSaved = d.notSaved
  BY DEF Touched, Disk
<1>3. /\ f \in Entry
      /\ f = NoEntry <=> e = NoEntry
      /\ f # NoEntry => f.outdated
  BY <1>1, NoEntryAssumption DEF Entry
<1>4. x \in [file : [Path -> Contents], copy : [Path -> Contents],
             entry : [Path -> Entry], notSaved : SUBSET Path]
  BY <1>1, <1>3 DEF Touched, Disk, Contents
<1>5. QED
  BY <1>1, <1>2, <1>3, <1>4 DEF Disk, Contents

LEMMA WithCopy ==
  ASSUME NEW d \in Disk, NEW p \in Path, NEW t \in Contents
  PROVE  LET x == [d EXCEPT !.copy[p] = t] IN
         /\ x \in Disk
         /\ x.copy = [d.copy EXCEPT ![p] = t]
         /\ x.file = d.file /\ x.entry = d.entry /\ x.notSaved = d.notSaved
BY DEF Disk, Contents

LEMMA WithEntry ==
  ASSUME NEW d \in Disk, NEW p \in Path, NEW e \in Entry
  PROVE  LET x == [d EXCEPT !.entry[p] = e] IN
         /\ x \in Disk
         /\ x.entry = [d.entry EXCEPT ![p] = e]
         /\ x.file = d.file /\ x.copy = d.copy /\ x.notSaved = d.notSaved
BY DEF Disk

LEMMA WritingFacts ==
  ASSUME NEW d, NEW p, NEW t
  PROVE  LET s == Writing(d, p, t) IN
         /\ Len(s) = 2 /\ LastOf(s) = s[2]
         /\ s[1] = Touched(d, p, Torn) /\ s[2] = Touched(d, p, t)
BY DEF Writing, LastOf

LEMMA CopyingFacts ==
  ASSUME NEW d, NEW p
  PROVE  LET s == Copying(d, p) IN
         /\ Len(s) \in {1, 2} /\ s \in Seq({s[1], LastOf(s)})
         /\ \A i \in 1..Len(s) : i = 1 \/ s[i] = LastOf(s)
         /\ s[1] = Touched(d, p, Torn)
         /\ LastOf(s) = Touched(d, p, IF d.copy[p] = Absent THEN Torn ELSE d.copy[p])
<1> DEFINE a == Touched(d, p, Torn)
           b == Touched(d, p, d.copy[p])
<1>1. CASE d.copy[p] = Absent
  <2>1. Copying(d, p) = <<a>>
    BY <1>1 DEF Copying
  <2>2. QED
    BY <2>1, <1>1 DEF LastOf
<1>2. CASE d.copy[p] # Absent
  <2>1. <<a>> \o <<b>> = <<a, b>>
    <3> HIDE DEF a, b
    <3>1. <<a>> \in Seq({a, b}) /\ <<b>> \in Seq({a, b}) /\ <<a, b>> \in Seq({a, b})
      OBVIOUS
    <3>2. Len(<<a>>) = 1 /\ Len(<<b>>) = 1 /\ Len(<<a, b>>) = 2
      OBVIOUS
    <3>3. /\ <<a>> \o <<b>> \in Seq({a, b})
          /\ Len(<<a>> \o <<b>>) = 2
          /\ \A i \in 1..2 :
               (<<a>> \o <<b>>)[i] = IF i <= 1 THEN <<a>>[i] ELSE <<b>>[i - 1]
      BY <3>1, <3>2, ConcatProperties
    <3>4. \A i \in 1..2 : (<<a>> \o <<b>>)[i] = <<a, b>>[i]
      BY <3>3
    <3>5. QED
      BY <3>1, <3>2, <3>3, <3>4, SeqEqual
  <2>2. Copying(d, p) = <<a, b>>
    BY <1>2, <2>1 DEF Copying
  <2>3. QED
    BY <2>2, <1>2 DEF LastOf
<1>3. QED
  BY <1>1, <1>2

LEMMA LastOfConcat ==
  ASSUME NEW S, NEW s \in Seq(S), NEW t \in Seq(S), Len(t) > 0
  PROVE  LastOf(s \o t) = LastOf(t)
<1>1. Len(s) \in Nat /\ Len(t) \in Nat
  BY LenProperties
<1>2. Len(s \o t) = Len(s) + Len(t) /\ (s \o t)[Len(s) + Len(t)] = t[Len(t)]
  BY <1>1, ConcatProperties
<1>3. QED
  BY <1>2 DEF LastOf

\* Every state of a cleaning leaves the files and the autosaves of others alone, and
\* has the path off the list; the last one has neither copy nor entry.
LEMMA CleaningFacts ==
  ASSUME NEW d \in Disk, NEW p \in Path
  PROVE  LET s == Cleaning(d, p) IN
         /\ Len(s) = 3 /\ LastOf(s) = s[3]
         /\ \A i \in 1..3 :
              /\ s[i] \in Disk
              /\ s[i].file = d.file
              /\ s[i].notSaved = d.notSaved \ {p}
              /\ \A q \in Path \ {p} :
                   s[i].copy[q] = d.copy[q] /\ s[i].entry[q] = d.entry[q]
         /\ s[1].copy = d.copy /\ s[1].entry = d.entry
         /\ s[3].entry[p] = NoEntry
<1> DEFINE d1 == [d EXCEPT !.notSaved = @ \ {p}]
           d2 == [d1 EXCEPT !.copy[p] = Absent]
           d3 == [d2 EXCEPT !.entry[p] = NoEntry]
           s == Cleaning(d, p)
<1>1. /\ d.file \in [Path -> Contents] /\ d.copy \in [Path -> Contents]
      /\ d.entry \in [Path -> Entry] /\ d.notSaved \in SUBSET Path
  BY DEF Disk, Contents
<1>2. Absent \in Contents /\ NoEntry \in Entry
  BY DEF Contents, Entry
<1>3. Len(s) = 3 /\ LastOf(s) = s[3] /\ s[1] = d1 /\ s[2] = d2 /\ s[3] = d3
  BY DEF Cleaning, LastOf
<1>4. /\ d1 \in Disk /\ d1.file = d.file /\ d1.copy = d.copy
      /\ d1.entry = d.entry /\ d1.notSaved = d.notSaved \ {p}
  BY <1>1 DEF Disk, Contents
<1> HIDE DEF s, d1
<1>5. /\ d2 \in Disk /\ d2.file = d.file
      /\ d2.copy = [d.copy EXCEPT ![p] = Absent]
      /\ d2.entry = d.entry /\ d2.notSaved = d.notSaved \ {p}
  <2>1. PICK x \in Disk : x = d1
    BY <1>4
  <2>2. QED
    BY <1>2, <1>4, <2>1, WithCopy
<1> HIDE DEF d2
<1>6. /\ d3 \in Disk /\ d3.file = d.file
      /\ d3.copy = [d.copy EXCEPT ![p] = Absent]
      /\ d3.entry = [d.entry EXCEPT ![p] = NoEntry]
      /\ d3.notSaved = d.notSaved \ {p}
  <2>1. PICK x \in Disk : x = d2
    BY <1>5
  <2>2. QED
    BY <1>2, <1>5, <2>1, WithEntry
<1> HIDE DEF d3
<1>7. \A i \in 1..3 :
        /\ s[i] \in Disk
        /\ s[i].file = d.file
        /\ s[i].notSaved = d.notSaved \ {p}
        /\ \A q \in Path \ {p} :
             s[i].copy[q] = d.copy[q] /\ s[i].entry[q] = d.entry[q]
  <2>1. \A i \in 1..3 : i = 1 \/ i = 2 \/ i = 3
    OBVIOUS
  <2>2. QED
    BY <1>1, <1>3, <1>4, <1>5, <1>6, <2>1
<1>8. s[3].entry[p] = NoEntry
  BY <1>1, <1>3, <1>6
<1>9. QED
  BY <1>3, <1>4, <1>7, <1>8 DEF s

\* The modified flag of an autosave, and the list of new documents.
LEMMA AutosavingNew ==
  ASSUME NEW d \in Disk, NEW p \in Path, isNew
  PROVE  p \in LastOf(Autosaving(d, p)).notSaved
BY DEF Autosaving, LastOf, Disk

LEMMA AutosavingFlag ==
  ASSUME NEW d \in Disk, NEW p \in Path, History!Done > 0
  PROVE  LastOf(Autosaving(d, p)).entry[p].modified
<1> DEFINE new == [modified |-> History!Done > 0, outdated |-> FALSE]
           copied == [[d EXCEPT !.entry[p] = NoEntry] EXCEPT !.copy[p] = doc]
           listed == [copied EXCEPT !.entry[p] = new]
<1>1. d.entry \in [Path -> Entry] /\ p \in DOMAIN d.entry
  BY DEF Disk
<1>2. listed.entry[p] = new
  <2> HIDE DEF new
  <2>1. QED
    BY <1>1 DEF Disk
<1>3. LastOf(Autosaving(d, p)).entry = listed.entry
  BY DEF Autosaving, LastOf, Disk
<1> HIDE DEF listed
<1>4. new.modified
  OBVIOUS
<1> HIDE DEF new
<1>5. QED
  BY <1>2, <1>3, <1>4

LEMMA CopyingThenCleaning ==
  ASSUME NEW d \in Disk, NEW p \in Path
  PROVE  LET copying == Copying(d, p)
             cleaning == Cleaning(LastOf(copying), p)
         IN  LastOf(copying \o cleaning) = LastOf(cleaning)
<1> DEFINE copying == Copying(d, p)
           cleaning == Cleaning(LastOf(copying), p)
           S == {copying[1], LastOf(copying), cleaning[1], cleaning[2], cleaning[3]}
<1>1. copying \in Seq({copying[1], LastOf(copying)})
  BY CopyingFacts
<1>2. cleaning \in Seq({cleaning[1], cleaning[2], cleaning[3]}) /\ Len(cleaning) > 0
  BY DEF Cleaning
<1> HIDE DEF copying, cleaning
<1>3. copying \in Seq(S) /\ cleaning \in Seq(S)
  BY <1>1, <1>2
<1>4. QED
  BY <1>2, <1>3, LastOfConcat DEF copying, cleaning

\* An autosave leaves the files and the autosaves of others alone; its path gets on the
\* list only in the last state, which has the copy and the entry.
LEMMA AutosavingFacts ==
  ASSUME NEW d \in Disk, NEW p \in Path, doc \in Text
  PROVE  LET s == Autosaving(d, p) IN
         /\ Len(s) = 5 /\ LastOf(s) = s[5]
         /\ \A i \in 1..5 :
              /\ s[i] \in Disk
              /\ s[i].file = d.file
              /\ d.notSaved \subseteq s[i].notSaved
              /\ s[i].entry[p] # NoEntry => s[i].copy[p] = doc
              /\ \A q \in Path \ {p} :
                   s[i].copy[q] = d.copy[q] /\ s[i].entry[q] = d.entry[q]
         /\ s[5].entry[p] # NoEntry
<1> DEFINE c0 == [d.copy EXCEPT ![p] = Torn]
           c == [d.copy EXCEPT ![p] = doc]
           new == [modified |-> History!Done > 0, outdated |-> FALSE]
           e0 == [d.entry EXCEPT ![p] = NoEntry]
           e == [d.entry EXCEPT ![p] = new]
           n == IF isNew THEN d.notSaved \cup {p} ELSE d.notSaved
           s == Autosaving(d, p)
<1>1. /\ d.file \in [Path -> Contents] /\ d.copy \in [Path -> Contents]
      /\ d.entry \in [Path -> Entry] /\ d.notSaved \in SUBSET Path
  BY DEF Disk, Contents
<1>2. new \in Entry /\ new # NoEntry
  <2>1. \A b \in BOOLEAN :
          [modified |-> b, outdated |-> FALSE] \in [modified : BOOLEAN, outdated : BOOLEAN]
    BY Zenon
  <2>2. (History!Done > 0) \in BOOLEAN
    OBVIOUS
  <2>3. new \in [modified : BOOLEAN, outdated : BOOLEAN]
    BY <2>1, <2>2, Zenon
  <2>4. QED
    BY <2>3, NoEntryAssumption DEF Entry
<1>3. /\ c0 \in [Path -> Contents] /\ c \in [Path -> Contents]
      /\ e0 \in [Path -> Entry] /\ e \in [Path -> Entry] /\ n \in SUBSET Path
  <2>1. NoEntry \in Entry
    BY DEF Entry
  <2>2. QED
    BY <1>1, <1>2, <2>1 DEF Contents
<1>4. d = [file |-> d.file, copy |-> d.copy, entry |-> d.entry, notSaved |-> d.notSaved]
  BY DEF Disk
<1>5. /\ Len(s) = 5 /\ LastOf(s) = s[5]
      /\ s[1] = [file |-> d.file, copy |-> d.copy, entry |-> e0,
                 notSaved |-> d.notSaved]
      /\ s[2] = [file |-> d.file, copy |-> c0, entry |-> e0, notSaved |-> d.notSaved]
      /\ s[3] = [file |-> d.file, copy |-> c, entry |-> e0, notSaved |-> d.notSaved]
      /\ s[4] = [file |-> d.file, copy |-> c, entry |-> e, notSaved |-> d.notSaved]
      /\ s[5] = [file |-> d.file, copy |-> c, entry |-> e, notSaved |-> n]
  BY <1>1, <1>4 DEF Autosaving, LastOf
<1> HIDE DEF s
<1>6. \A i \in 1..5 : s[i] \in Disk
  <2>1. /\ s[1] \in Disk /\ s[2] \in Disk /\ s[3] \in Disk /\ s[4] \in Disk
        /\ s[5] \in Disk
    BY <1>1, <1>3, <1>5 DEF Disk, Contents
  <2>2. \A i \in 1..5 : i = 1 \/ i = 2 \/ i = 3 \/ i = 4 \/ i = 5
    OBVIOUS
  <2>3. QED
    BY <2>1, <2>2
<1>7. \A i \in 1..5 :
        /\ s[i].file = d.file /\ d.notSaved \subseteq s[i].notSaved
        /\ s[i].entry[p] # NoEntry => s[i].copy[p] = doc
        /\ \A q \in Path \ {p} :
             s[i].copy[q] = d.copy[q] /\ s[i].entry[q] = d.entry[q]
  BY <1>1, <1>5
<1>8. s[5].entry[p] = new
  BY <1>1, <1>5
<1> HIDE DEF new
<1>9. QED
  BY <1>2, <1>5, <1>6, <1>7, <1>8 DEF s

-----------------------------------------------------------------------------
\* The undo history: its cursor is null or at a command of the list.

HistoryOK ==
  /\ History!TypeOK
  /\ lastDone = NULL \/ \E i \in 1..Len(hist) : hist[i].addr = lastDone
  /\ childCount = Len(hist)
  /\ ~wasCleared

LEMMA CursorFacts ==
  ASSUME HistoryOK
  PROVE  /\ hist \in Seq(History!CommandObject) /\ Len(hist) \in Nat
         /\ \A i \in 1..Len(hist) :
              /\ hist[i] \in History!CommandObject
              /\ hist[i].addr \in Command
              /\ hist[i].before \in Text /\ hist[i].after \in Text
         /\ History!Done \in 0..Len(hist)
         /\ History!IsUndoPossible => History!Done \in 1..Len(hist)
         /\ History!IsRedoPossible => History!Done + 1 \in 1..Len(hist)
<1>1. /\ hist \in Seq(History!CommandObject) /\ Len(hist) \in Nat
      /\ \A i \in 1..Len(hist) : hist[i] \in History!CommandObject
  BY LenProperties DEF HistoryOK, History!TypeOK
<1>2. lastDone = NULL => History!Done = 0
  BY DEF History!Done, History!Position
<1>3. lastDone # NULL => History!Done \in 1..Len(hist) /\ hist[History!Done].addr = lastDone
  BY DEF HistoryOK, History!Done, History!Position
<1>4. History!IsRedoPossible => History!Done # Len(hist)
  BY <1>1, <1>2, <1>3, EmptySeq DEF History!IsRedoPossible, History!LastChild
<1>5. QED
  BY <1>1, <1>2, <1>3, <1>4 DEF History!IsUndoPossible, History!CommandObject

\* A cursor that is not null is at a command that is found.
LEMMA CursorNext ==
  ASSUME NEW i \in 1..Len(hist'), hist'[i].addr = lastDone', lastDone' # NULL
  PROVE  History!Done' \in 1..Len(hist')
BY DEF History!Done, History!Position

LEMMA HistoryCleared ==
  ASSUME NEW t \in Text, ClearHistory(t)
  PROVE  HistoryOK' /\ doc' = t /\ ~History!IsModified'
<1>1. hist' \in Seq(History!CommandObject) /\ Len(hist') = 0
  BY EmptySeq DEF ClearHistory
<1>2. QED
  BY <1>1 DEF ClearHistory, HistoryOK, History!TypeOK, History!Pointer,
              History!IsModified

LEMMA HistoryKept ==
  ASSUME HistoryOK, UNCHANGED historyVars
  PROVE  /\ HistoryOK'
         /\ History!Done' = History!Done
         /\ History!IsModified' = History!IsModified
BY DEF historyVars, HistoryOK, History!TypeOK, History!CommandObject, History!Pointer,
       History!Done, History!IsModified

LEMMA HistorySaved ==
  ASSUME HistoryOK, History!SetNotModified
  PROVE  HistoryOK' /\ doc' = doc
BY DEF History!SetNotModified, HistoryOK, History!TypeOK

LEMMA HistoryExecute ==
  ASSUME HistoryOK, NEW c \in Command, NEW t \in Text, History!ExecuteAndAdd(c, t)
  PROVE  /\ HistoryOK' /\ History!Done' > 0
         /\ ~AddressReuse => History!IsModified'
<1> DEFINE command == [addr |-> c, before |-> doc, after |-> t, executed |-> TRUE]
           h == History!WithoutRedo
<1>1. ~History!TooDeep
  BY UnlimitedAssumption DEF History!TooDeep
<1>2. /\ hist' = Append(h, command) /\ lastDone' = c /\ doc' = t
      /\ childCount' = childCount - (Len(hist) - Len(h)) + 1
      /\ wasCleared' = wasCleared /\ saved' = saved /\ notModifiedAt' = notModifiedAt
      /\ c \in History!Fresh
  BY <1>1 DEF History!ExecuteAndAdd, HistoryOK, History!TypeOK
<1>3. h \in Seq(History!CommandObject) /\ Len(h) \in Nat
  <2>1. CASE History!IsRedoPossible
    <3>1. h = SubSeq(hist, 1, History!Done)
      BY <2>1 DEF History!WithoutRedo
    <3>2. QED
      BY <3>1, CursorFacts, SubSeqProperties, LenProperties
  <2>2. CASE ~History!IsRedoPossible
    BY <2>2, CursorFacts DEF History!WithoutRedo
  <2>3. QED
    BY <2>1, <2>2
<1>4. command \in History!CommandObject
  BY DEF HistoryOK, History!TypeOK, History!CommandObject
<1>5. /\ hist' \in Seq(History!CommandObject)
      /\ Len(hist') = Len(h) + 1 /\ hist'[Len(h) + 1].addr = c
  BY <1>2, <1>3, <1>4, AppendProperties
<1>6. childCount' = Len(hist') /\ childCount' \in Nat
  BY <1>2, <1>3, <1>5, CursorFacts DEF HistoryOK
<1>7. Len(h) + 1 \in 1..Len(hist') /\ lastDone' # NULL
  BY <1>2, <1>3, <1>5, NullAssumption
<1>8. HistoryOK'
  BY <1>2, <1>5, <1>6, <1>7 DEF HistoryOK, History!TypeOK, History!Pointer
<1>9. History!Done' > 0
  BY <1>2, <1>5, <1>7, CursorNext
<1>10. ~AddressReuse => History!IsModified'
  BY <1>2, NullAssumption DEF History!Fresh, History!IsModified
<1>11. QED
  BY <1>8, <1>9, <1>10

\* Undo and Redo set the executed flag of one command and move the cursor.
LEMMA HistoryMoves ==
  ASSUME HistoryOK, NEW m \in 1..Len(hist), NEW b \in BOOLEAN,
         hist' = [hist EXCEPT ![m].executed = b],
         doc' \in Text,
         lastDone' = NULL \/ \E i \in 1..Len(hist) : lastDone' = hist[i].addr,
         UNCHANGED <<notModifiedAt, childCount, wasCleared, saved>>
  PROVE  /\ HistoryOK' /\ Len(hist') = Len(hist)
         /\ \A i \in 1..Len(hist) : hist'[i].addr = hist[i].addr
<1>1. /\ hist \in Seq(History!CommandObject) /\ Len(hist) \in Nat
      /\ \A i \in 1..Len(hist) :
           hist[i] \in History!CommandObject /\ hist[i].addr \in Command
  BY CursorFacts
<1> DEFINE e == [hist[m] EXCEPT !.executed = b]
<1>2. e \in History!CommandObject /\ e.addr = hist[m].addr
  BY <1>1 DEF History!CommandObject
<1>3. hist' = [hist EXCEPT ![m] = e]
  OBVIOUS
<1> HIDE DEF e
<1>4. /\ hist' \in Seq(History!CommandObject) /\ Len(hist') = Len(hist)
      /\ \A i \in 1..Len(hist) : hist'[i] = IF i = m THEN e ELSE hist[i]
  BY <1>1, <1>2, <1>3, ExceptSeq, SMTT(30)
<1>5. \A i \in 1..Len(hist) : hist'[i].addr = hist[i].addr
  BY <1>2, <1>4
<1>6. lastDone' = NULL \/ \E i \in 1..Len(hist') : hist'[i].addr = lastDone'
  BY <1>4, <1>5
<1>7. lastDone' \in Command \cup {NULL}
  BY <1>1
<1>8. HistoryOK'
  BY <1>4, <1>6, <1>7 DEF HistoryOK, History!TypeOK, History!Pointer
<1>9. QED
  BY <1>4, <1>5, <1>8

LEMMA HistoryUndo ==
  ASSUME HistoryOK, History!Undo
  PROVE  HistoryOK' /\ History!Done' \in Nat
<1> DEFINE k == History!Done
<1>1. /\ hist' = [hist EXCEPT ![k].executed = FALSE]
      /\ doc' = hist[k].before
      /\ lastDone' = IF k = 1 THEN NULL ELSE hist[k - 1].addr
      /\ UNCHANGED <<notModifiedAt, childCount, wasCleared, saved>>
      /\ k \in 1..Len(hist)
  BY CursorFacts DEF History!Undo
<1>2. doc' \in Text
  BY <1>1, CursorFacts
<1>3. lastDone' = NULL \/ \E i \in 1..Len(hist) : lastDone' = hist[i].addr
  <2>1. k # 1 => k - 1 \in 1..Len(hist)
    BY <1>1, CursorFacts
  <2>2. QED
    BY <1>1, <2>1
<1>4. HistoryOK'
  BY <1>1, <1>2, <1>3, HistoryMoves
<1>5. QED
  <2>1. PICK h, p : h = hist' /\ p = lastDone'
    OBVIOUS
  <2>2. p = NULL => History!Position(h, p) = 0
    BY DEF History!Position
  <2>3. p # NULL => History!Position(h, p) \in 1..Len(h)
    BY <1>4, <2>1 DEF HistoryOK, History!Position
  <2>4. QED
    BY <1>4, <2>1, <2>2, <2>3 DEF History!Done

LEMMA HistoryRedo ==
  ASSUME HistoryOK, History!Redo
  PROVE  HistoryOK' /\ History!Done' > 0
<1> DEFINE k == History!Done + 1
<1>1. /\ hist' = [hist EXCEPT ![k].executed = TRUE]
      /\ doc' = hist[k].after
      /\ lastDone' = hist[k].addr
      /\ UNCHANGED <<notModifiedAt, childCount, wasCleared, saved>>
      /\ k \in 1..Len(hist)
  BY CursorFacts DEF History!Redo
<1> HIDE DEF k
<1>2. doc' \in Text /\ \E i \in 1..Len(hist) : lastDone' = hist[i].addr
  BY <1>1, CursorFacts
<1>3. /\ HistoryOK' /\ Len(hist') = Len(hist)
      /\ hist'[k].addr = hist[k].addr
  BY <1>1, <1>2, HistoryMoves
<1>4. k \in 1..Len(hist') /\ hist'[k].addr = lastDone' /\ lastDone' # NULL
  BY <1>1, <1>3, CursorFacts, NullAssumption
<1>5. History!Done' \in 1..Len(hist')
  BY <1>4, CursorNext
<1>6. Len(hist') \in Nat
  BY <1>3, CursorFacts
<1>7. QED
  BY <1>3, <1>5, <1>6

-----------------------------------------------------------------------------
\* The types, and what the code relies on without a test: the session has a path
\* for the saver while it has one for the document, and nothing waits when none is
\* open.

Closed ==
  ~isNew /\ ~forceModified /\ ~waitingForDelay /\ ~waitingForIdle

SessionInv ==
  /\ TypeOK
  /\ HistoryOK
  /\ docPath = Nothing <=> topSysid = Nothing
  /\ pc # "open" => Closed

Autosave == [path : Path, text : Text]

LEMMA WithoutFacts ==
  ASSUME kept \in Autosave \cup {Nothing}, NEW p
  PROVE  Without(p) \in Autosave \cup {Nothing} /\ (Without(p) = kept \/ Without(p) = Nothing)
BY DEF Without

LEMMA NoDocumentStep ==
  ASSUME SessionInv, NoDocument, pc' \in {"down", "starting", "ready"},
         disk' \in Disk, enabled' \in BOOLEAN, kept' \in Autosave \cup {Nothing}
  PROVE  SessionInv'
<1>1. (CHOOSE t \in Text : TRUE) \in Text
  BY DEF SessionInv, HistoryOK, History!TypeOK
<1>2. HistoryOK'
  BY <1>1, HistoryCleared DEF NoDocument
<1>3. QED
  BY <1>2 DEF NoDocument, SessionInv, TypeOK, HistoryOK, Closed, Autosave

LEMMA DownStep ==
  ASSUME SessionInv, NEW when, NEW steps, Down(when, steps),
         \A i \in 1..Len(steps) : steps[i] \in Disk,
         kept' \in Autosave \cup {Nothing}
  PROVE  SessionInv'
<1>1. disk' \in Disk /\ pc' = "down" /\ NoDocument /\ enabled' \in BOOLEAN
  BY DEF Down, SessionInv, TypeOK
<1>2. QED
  BY <1>1, NoDocumentStep

LEMMA DownInStep ==
  ASSUME SessionInv, NEW d \in Disk, NEW p \in Path, DownIn(Cleaning(d, p)),
         kept' \in Autosave \cup {Nothing}
  PROVE  SessionInv'
<1> DEFINE s == Cleaning(d, p)
<1>1. s[1] \in Disk /\ s[2] \in Disk /\ s[3] \in Disk
  BY CleaningFacts
<1> HIDE DEF s
<1>2. CASE Down("unclean", <<s[1], s[3]>>)
  <2>1. \A i \in 1..Len(<<s[1], s[3]>>) : <<s[1], s[3]>>[i] \in Disk
    BY <1>1
  <2>2. QED
    BY <2>1, <1>2, DownStep
<1>3. CASE Down("clean", <<s[2]>>)
  <2>1. \A i \in 1..Len(<<s[2]>>) : <<s[2]>>[i] \in Disk
    BY <1>1
  <2>2. QED
    BY <2>1, <1>3, DownStep
<1>4. QED
  BY <1>2, <1>3 DEF DownIn, s

\* An event of a session that stays as it is with its history.
LEMMA SessionStep ==
  ASSUME SessionInv, HistoryOK',
         UNCHANGED <<pc, docPath>>,
         isNew' \in BOOLEAN, forceModified' \in BOOLEAN, enabled' \in BOOLEAN,
         waitingForDelay' \in BOOLEAN, waitingForIdle' \in BOOLEAN,
         topSysid' = topSysid \/ topSysid' = docPath,
         disk' \in Disk, kept' \in Autosave \cup {Nothing},
         pc # "open" => Closed'
  PROVE  SessionInv'
BY DEF SessionInv, TypeOK, HistoryOK, Autosave

LEMMA CopiedDisk ==
  ASSUME NEW d \in Disk, NEW p \in Path
  PROVE  /\ \A i \in 1..Len(Copying(d, p)) : Copying(d, p)[i] \in Disk
         /\ LastOf(Copying(d, p)) \in Disk
<1> DEFINE s == Copying(d, p)
           t == IF d.copy[p] = Absent THEN Torn ELSE d.copy[p]
<1>1. t \in Contents /\ Torn \in Contents
  BY DEF Disk, Contents
<1>2. s[1] = Touched(d, p, Torn) /\ LastOf(s) = Touched(d, p, t)
  BY CopyingFacts
<1>3. \A i \in 1..Len(s) : s[i] = s[1] \/ s[i] = LastOf(s)
  BY CopyingFacts
<1> HIDE DEF s, t
<1>4. s[1] \in Disk /\ LastOf(s) \in Disk
  BY <1>1, <1>2, TouchedFacts
<1>5. QED
  BY <1>3, <1>4 DEF s

LEMMA InitSession == Init => SessionInv
<1> SUFFICES ASSUME Init PROVE SessionInv
  OBVIOUS
<1>1. HistoryOK
  <2>1. hist \in Seq(History!CommandObject) /\ Len(hist) = 0
    BY EmptySeq DEF Init, History!Init
  <2>2. QED
    BY <2>1 DEF Init, History!Init, HistoryOK, History!TypeOK, History!Pointer
<1>2. disk \in Disk
  <2>1. PICK f \in [Path -> Text \cup {Absent}] :
          disk = [file |-> f, copy |-> [p \in Path |-> Absent],
                  entry |-> [p \in Path |-> NoEntry], notSaved |-> {}]
    BY DEF Init
  <2>2. f \in [Path -> Contents] /\ [p \in Path |-> Absent] \in [Path -> Contents]
    BY DEF Contents
  <2>3. [p \in Path |-> NoEntry] \in [Path -> Entry]
    BY DEF Entry
  <2>4. QED
    BY <2>1, <2>2, <2>3 DEF Disk, Contents
<1>3. QED
  BY <1>1, <1>2 DEF Init, SessionInv, TypeOK, HistoryOK, Closed

\* Starting and opening.
LEMMA StartSession ==
  ASSUME SessionInv,
         Start \/ Crash \/ Started \/ \E p \in Path : SkipNotSaved(p) \/ OpenDocument(p)
  PROVE  SessionInv'
<1>1. CASE Start \/ Started
  <2>1. HistoryOK'
    BY <1>1, HistoryKept DEF SessionInv, Start, Started
  <2>2. QED
    BY <1>1, <2>1 DEF Start, Started, timerVars, SessionInv, TypeOK, HistoryOK, Closed
<1>2. CASE Crash
  BY <1>2, NoDocumentStep DEF Crash, SessionInv, TypeOK, Autosave
<1>3. CASE \E p \in Path : SkipNotSaved(p)
  <2>1. HistoryOK'
    BY <1>3, HistoryKept DEF SessionInv, SkipNotSaved, vars
  <2>2. QED
    BY <1>3, <2>1 DEF SkipNotSaved, vars, timerVars, sessionVars, SessionInv, TypeOK, HistoryOK, Closed
<1>4. CASE \E p \in Path : OpenDocument(p)
  <2>1. PICK p \in Path : pc = "ready" /\ BeginOpen(p) /\ UNCHANGED <<disk, kept>>
    BY <1>4 DEF OpenDocument
  <2>2. HistoryOK'
    BY <2>1, HistoryKept DEF SessionInv, BeginOpen
  <2>3. QED
    BY <2>1, <2>2, NothingAssumption
    DEF BeginOpen, timerVars, SessionInv, TypeOK, HistoryOK, Closed
<1>5. QED
  BY <1>1, <1>2, <1>3, <1>4

LEMMA RestoreNotSavedSession ==
  ASSUME SessionInv, NEW p \in Path, RestoreNotSaved(p)
  PROVE  SessionInv'
<1> DEFINE copying == Copying(disk, p)
<1>1. /\ disk \in Disk /\ kept \in Autosave \cup {Nothing} /\ pc = "starting"
      /\ \A i \in 1..Len(copying) : copying[i] \in Disk
      /\ LastOf(copying) \in Disk
  BY CopiedDisk DEF SessionInv, TypeOK, Autosave, RestoreNotSaved
<1> HIDE DEF copying
<1>2. CASE Down("restore", copying) /\ UNCHANGED kept
  BY <1>1, <1>2, DownStep
<1>3. CASE Done(copying) /\ BeginOpen(p) /\ UNCHANGED kept
  <2>1. HistoryOK'
    BY <1>3, HistoryKept DEF SessionInv, BeginOpen
  <2>2. disk' \in Disk
    BY <1>1, <1>3 DEF Done
  <2>3. QED
    BY <1>1, <1>3, <2>1, <2>2, NothingAssumption
    DEF BeginOpen, timerVars, SessionInv, TypeOK, HistoryOK, Closed
<1>4. ASSUME NEW d \in Disk, disk' = LastOf(Cleaning(d, p)),
             UNCHANGED <<historyVars, sessionVars, timerVars, enabled, kept>>
      PROVE  SessionInv'
  <2>1. disk' \in Disk
    BY <1>4, CleaningFacts
  <2>2. HistoryOK'
    BY <1>4, HistoryKept DEF SessionInv
  <2>3. QED
    BY <1>1, <1>4, <2>1, <2>2
    DEF sessionVars, timerVars, SessionInv, TypeOK, HistoryOK, Closed
<1>5. LastOf(copying \o Cleaning(LastOf(copying), p)) = LastOf(Cleaning(LastOf(copying), p))
  BY <1>1, CopyingThenCleaning DEF copying
<1>6. QED
  BY <1>1, <1>2, <1>3, <1>4, <1>5 DEF RestoreNotSaved, Done, copying

LEMMA RestoreSession ==
  ASSUME SessionInv, NEW yes \in BOOLEAN, NEW yesAgain \in BOOLEAN, Restore(yes, yesAgain)
  PROVE  SessionInv'
<1> DEFINE p == docPath
           e == disk.entry[p]
           copies == e # NoEntry /\ yes /\ IF e.outdated THEN yesAgain ELSE e.modified
           copying == IF copies THEN Copying(disk, p) ELSE <<disk>>
           cleaning == Cleaning(LastOf(copying), p)
<1>1. /\ pc = "asking" /\ p \in Path /\ disk \in Disk
      /\ kept \in Autosave \cup {Nothing} /\ enabled \in BOOLEAN
  BY DEF SessionInv, TypeOK, Autosave, Restore
<1>2. /\ \A i \in 1..Len(copying) : copying[i] \in Disk
      /\ LastOf(copying) \in Disk
  <2>1. CASE copies
    BY <2>1, <1>1, CopiedDisk
  <2>2. CASE ~copies
    <3>1. copying = <<disk>>
      BY <2>2
    <3>2. QED
      BY <3>1, <1>1 DEF LastOf
  <2>3. QED
    BY <2>1, <2>2
<1>3. LastOf(cleaning) \in Disk
  BY <1>1, <1>2, CleaningFacts
<1>4. \/ Down("restore", copying) /\ UNCHANGED kept
      \/ DownIn(cleaning) /\ kept' = Without(p)
      \/ /\ disk' = LastOf(cleaning) /\ kept' = Without(p) /\ UNCHANGED enabled
         /\ \/ /\ LastOf(cleaning).file[p] \in Text
               /\ pc' = "open"
               /\ ClearHistory(LastOf(cleaning).file[p])
               /\ UNCHANGED <<docPath, topSysid, isNew, forceModified, timerVars>>
            \/ pc' = "ready" /\ NoDocument
  BY DEF Restore, Done
<1> HIDE DEF copies, copying
<1>5. CASE Down("restore", copying) /\ UNCHANGED kept
  BY <1>1, <1>2, <1>5, DownStep
<1>6. CASE DownIn(cleaning) /\ kept' = Without(p)
  BY <1>1, <1>2, <1>6, DownInStep, WithoutFacts
<1> HIDE DEF cleaning
<1>7. CASE /\ disk' = LastOf(cleaning) /\ kept' = Without(p) /\ UNCHANGED enabled
           /\ pc' = "ready" /\ NoDocument
  BY <1>1, <1>3, <1>7, NoDocumentStep, WithoutFacts
<1>8. CASE /\ disk' = LastOf(cleaning) /\ kept' = Without(p) /\ UNCHANGED enabled
           /\ LastOf(cleaning).file[p] \in Text
           /\ pc' = "open"
           /\ ClearHistory(LastOf(cleaning).file[p])
           /\ UNCHANGED <<docPath, topSysid, isNew, forceModified, timerVars>>
  <2>1. HistoryOK'
    BY <1>8, HistoryCleared
  <2>2. kept' \in Autosave \cup {Nothing} /\ disk' \in Disk
    BY <1>1, <1>3, <1>8, WithoutFacts
  <2>3. QED
    BY <1>1, <1>8, <2>1, <2>2
    DEF timerVars, SessionInv, TypeOK, HistoryOK, Closed, Autosave
<1>9. QED
  BY <1>4, <1>5, <1>6, <1>7, <1>8

LEMMA NewDocumentSession ==
  ASSUME SessionInv, NEW p \in Path, NEW t \in Text, NewDocument(p, t)
  PROVE  SessionInv'
<1> DEFINE copying == IF disk.entry[p] = NoEntry THEN <<disk>> ELSE Copying(disk, p)
<1>1. disk \in Disk /\ kept \in Autosave \cup {Nothing} /\ pc = "ready"
  BY DEF SessionInv, TypeOK, Autosave, NewDocument
<1>2. LastOf(copying) \in Disk
  <2>1. CASE disk.entry[p] # NoEntry
    BY <2>1, <1>1, CopiedDisk
  <2>2. CASE disk.entry[p] = NoEntry
    <3>1. copying = <<disk>>
      BY <2>2
    <3>2. QED
      BY <3>1, <1>1 DEF LastOf
  <2>3. QED
    BY <2>1, <2>2
<1>3. disk' = LastOf(Cleaning(LastOf(copying), p))
  BY DEF NewDocument, Done
<1> HIDE DEF copying
<1>4. disk' \in Disk
  BY <1>2, <1>3, CleaningFacts
<1>5. HistoryOK'
  BY HistoryCleared DEF NewDocument
<1>6. kept' \in Autosave \cup {Nothing}
  BY <1>1, WithoutFacts DEF NewDocument
<1>7. QED
  BY <1>1, <1>4, <1>5, <1>6, NothingAssumption
  DEF NewDocument, timerVars, SessionInv, TypeOK, HistoryOK, Closed, Autosave

\* Editing.
LEMMA EditSession ==
  ASSUME SessionInv, NEW t \in Text, Edit(t)
  PROVE  SessionInv'
<1>1. HistoryOK'
  BY HistoryExecute DEF SessionInv, Edit
<1>2. QED
  BY <1>1, SessionStep
  DEF Edit, Updated, sessionVars, SessionInv, TypeOK, Autosave

LEMMA UndoRedoSession ==
  ASSUME SessionInv, Undo \/ Redo
  PROVE  SessionInv'
<1>1. /\ pc = "open" /\ docPath \in Path /\ disk \in Disk
      /\ enabled \in BOOLEAN /\ waitingForIdle \in BOOLEAN
      /\ kept \in Autosave \cup {Nothing} /\ topSysid \in Path
      /\ isNew \in BOOLEAN /\ forceModified \in BOOLEAN
  BY DEF Undo, Redo, SessionInv, TypeOK, Autosave
<1>2. HistoryOK'
  BY HistoryUndo, HistoryRedo DEF SessionInv, Undo, Redo
<1>3. PICK modified : NotifyUpdated(modified)
  BY DEF Undo, Redo
<1>4. CASE modified
  BY <1>1, <1>2, <1>3, <1>4, SessionStep DEF NotifyUpdated, Updated, sessionVars
<1>5. CASE ~modified
  <2>1. disk' \in Disk
    BY <1>1, <1>3, <1>5, CleaningFacts DEF NotifyUpdated, Done
  <2>2. QED
    BY <1>1, <1>2, <1>3, <1>5, <2>1, SessionStep DEF NotifyUpdated, NotModified
<1>6. QED
  BY <1>4, <1>5

\* Saving and closing.
LEMMA WrittenDisk ==
  ASSUME NEW d \in Disk, NEW p \in Path, NEW t \in Text
  PROVE  /\ \A i \in 1..Len(Writing(d, p, t)) : Writing(d, p, t)[i] \in Disk
         /\ LastOf(Writing(d, p, t)) \in Disk
<1> DEFINE s == Writing(d, p, t)
<1>1. t \in Contents /\ Torn \in Contents
  BY DEF Contents
<1>2. s[1] \in Disk /\ s[2] \in Disk
  BY <1>1, TouchedFacts, WritingFacts
<1>3. Len(s) = 2 /\ LastOf(s) = s[2]
  BY WritingFacts
<1> HIDE DEF s
<1>4. QED
  BY <1>2, <1>3 DEF s

LEMMA SaveSession ==
  ASSUME SessionInv, Save \/ \E p \in Path : SaveAs(p)
  PROVE  SessionInv'
<1>1. /\ pc = "open" /\ disk \in Disk /\ doc \in Text /\ topSysid \in Path
      /\ docPath \in Path /\ enabled \in BOOLEAN /\ kept \in Autosave \cup {Nothing}
  BY DEF Save, SaveAs, SaveAt, SessionInv, TypeOK, HistoryOK, History!TypeOK, Autosave
<1>2. PICK p \in Path : SaveAt(p)
  BY <1>1 DEF Save, SaveAs
<1> DEFINE writing == Writing(disk, p, doc)
           cleaning == Cleaning(LastOf(writing), topSysid)
<1>3. (\A i \in 1..Len(writing) : writing[i] \in Disk) /\ LastOf(writing) \in Disk
  BY <1>1, WrittenDisk
<1>4. CASE Down("save", writing) /\ UNCHANGED kept
  BY <1>1, <1>3, <1>4, DownStep
<1> HIDE DEF writing
<1>5. CASE DownIn(cleaning) /\ kept' = Nothing
  BY <1>1, <1>3, <1>5, DownInStep
<1>6. CASE /\ disk' = LastOf(cleaning) /\ History!SetNotModified /\ NotModified
           /\ topSysid' = docPath /\ docPath' = p
           /\ isNew' = FALSE /\ forceModified' = FALSE
           /\ UNCHANGED <<pc, enabled>>
  <2>1. disk' \in Disk
    BY <1>1, <1>3, <1>6, CleaningFacts
  <2>2. HistoryOK'
    BY <1>6, HistorySaved DEF SessionInv
  <2>3. QED
    BY <1>1, <1>6, <2>1, <2>2, NothingAssumption
    DEF NotModified, SessionInv, TypeOK, HistoryOK, Closed
<1>7. QED
  BY <1>2, <1>4, <1>5, <1>6 DEF SaveAt, SaveInterrupted, Done, writing

LEMMA CloseSession ==
  ASSUME SessionInv, Close
  PROVE  SessionInv'
<1> DEFINE cleaning == Cleaning(disk, docPath)
<1>1. /\ pc = "open" /\ disk \in Disk /\ docPath \in Path /\ enabled \in BOOLEAN
      /\ kept' \in Autosave \cup {Nothing}
  BY DEF Close, SessionInv, TypeOK
<1>2. CASE DownIn(cleaning)
  BY <1>1, <1>2, DownInStep
<1>3. CASE disk' = LastOf(cleaning) /\ pc' = "ready" /\ NoDocument /\ UNCHANGED enabled
  <2>1. disk' \in Disk
    BY <1>1, <1>3, CleaningFacts
  <2>2. QED
    BY <1>1, <1>3, <2>1, NoDocumentStep
<1>4. QED
  BY <1>2, <1>3 DEF Close, Done

\* Timers.
LEMMA AutosavedDisk ==
  ASSUME NEW d \in Disk, NEW p \in Path, doc \in Text
  PROVE  /\ \A i \in 1..Len(Autosaving(d, p)) : Autosaving(d, p)[i] \in Disk
         /\ LastOf(Autosaving(d, p)) \in Disk
         /\ LastOf(Autosaving(d, p)).file = d.file
<1> DEFINE s == Autosaving(d, p)
<1>1. /\ Len(s) = 5 /\ LastOf(s) = s[5]
      /\ \A i \in 1..5 : s[i] \in Disk /\ s[i].file = d.file
  BY AutosavingFacts
<1> HIDE DEF s
<1>2. /\ \A i \in 1..Len(s) : s[i] \in Disk
      /\ LastOf(s) \in Disk /\ LastOf(s).file = d.file
  BY <1>1
<1>3. QED
  BY <1>2 DEF s

LEMMA TimerSession ==
  ASSUME SessionInv,
         DelayTimerExpired \/ IdleTimerExpired \/ \E on \in BOOLEAN : SetEnabled(on)
  PROVE  SessionInv'
<1>1. CASE DelayTimerExpired
  <2>1. HistoryOK'
    BY <1>1, HistoryKept DEF SessionInv, DelayTimerExpired
  <2>2. QED
    BY <1>1, <2>1, SessionStep
    DEF DelayTimerExpired, sessionVars, SessionInv, TypeOK, Closed, Autosave
<1>2. CASE IdleTimerExpired
  <2> DEFINE autosaving == Autosaving(disk, docPath)
             this == [path |-> docPath, text |-> doc]
  <2>1. /\ pc = "open" /\ disk \in Disk /\ docPath \in Path /\ doc \in Text
        /\ kept \in Autosave \cup {Nothing}
    BY <1>2 DEF IdleTimerExpired, SessionInv, TypeOK, HistoryOK, History!TypeOK, Closed,
                Autosave
  <2>2. /\ \A i \in 1..Len(autosaving) : autosaving[i] \in Disk
        /\ LastOf(autosaving) \in Disk
    BY <2>1, AutosavedDisk
  <2>3. this \in Autosave
    BY <2>1 DEF Autosave
  <2>4. \/ /\ \E when \in {"overwrite", "autosave"} : Down(when, autosaving)
           /\ kept' = this \/ kept' = kept
        \/ /\ disk' = LastOf(autosaving) /\ waitingForIdle' = FALSE /\ kept' = this
           /\ UNCHANGED <<historyVars, sessionVars, waitingForDelay, enabled>>
    BY <1>2 DEF IdleTimerExpired, Done
  <2> HIDE DEF autosaving, this
  <2>5. CASE /\ \E when \in {"overwrite", "autosave"} : Down(when, autosaving)
             /\ kept' = this \/ kept' = kept
    BY <2>5, <2>1, <2>2, <2>3, DownStep
  <2>6. CASE /\ disk' = LastOf(autosaving) /\ waitingForIdle' = FALSE /\ kept' = this
             /\ UNCHANGED <<historyVars, sessionVars, waitingForDelay, enabled>>
    <3>1. HistoryOK'
      BY <2>6, HistoryKept DEF SessionInv
    <3>2. QED
      BY <2>1, <2>2, <2>3, <2>6, <3>1, SessionStep DEF sessionVars, SessionInv, TypeOK
  <2>7. QED
    BY <2>4, <2>5, <2>6
<1>3. CASE \E on \in BOOLEAN : SetEnabled(on)
  <2>1. HistoryOK'
    BY <1>3, HistoryKept DEF SessionInv, SetEnabled
  <2>2. QED
    BY <1>3, <2>1, SessionStep
    DEF SetEnabled, SetTimeout, sessionVars, SessionInv, TypeOK, Closed, Autosave
<1>4. QED
  BY <1>1, <1>2, <1>3

LEMMA NextSession == SessionInv /\ [Next]_vars => SessionInv'
<1> SUFFICES ASSUME SessionInv, [Next]_vars PROVE SessionInv'
  OBVIOUS
<1>1. CASE Start \/ Crash \/ Started \/ \E p \in Path : SkipNotSaved(p) \/ OpenDocument(p)
  BY <1>1, StartSession
<1>2. CASE \E p \in Path : RestoreNotSaved(p)
  BY <1>2, RestoreNotSavedSession
<1>3. CASE \E yes, yesAgain \in BOOLEAN : Restore(yes, yesAgain)
  BY <1>3, RestoreSession
<1>4. CASE \E p \in Path, t \in Text : NewDocument(p, t)
  BY <1>4, NewDocumentSession
<1>5. CASE \E t \in Text : Edit(t)
  BY <1>5, EditSession
<1>6. CASE Undo \/ Redo
  BY <1>6, UndoRedoSession
<1>7. CASE Save \/ \E p \in Path : SaveAs(p)
  BY <1>7, SaveSession
<1>8. CASE Close
  BY <1>8, CloseSession
<1>9. CASE DelayTimerExpired \/ IdleTimerExpired \/ \E on \in BOOLEAN : SetEnabled(on)
  BY <1>9, TimerSession
<1>10. CASE UNCHANGED vars
  <2>1. HistoryOK'
    BY <1>10, HistoryKept DEF SessionInv, vars
  <2>2. QED
    BY <1>10, <2>1
    DEF vars, sessionVars, timerVars, SessionInv, TypeOK, HistoryOK, Closed
<1>11. QED
  BY <1>1, <1>2, <1>3, <1>4, <1>5, <1>6, <1>7, <1>8, <1>9, <1>10 DEF Next

LEMMA SessionInvHolds == Spec => []SessionInv
<1>1. Init => SessionInv
  BY InitSession
<1>2. SessionInv /\ [Next]_vars => SessionInv'
  BY NextSession
<1>3. QED
  BY <1>1, <1>2, PTL DEF Spec

\* The variables of the saver, the disk and the document keep their types, whenever
\* the program crashes.
THEOREM AutoSaveTypeCorrect == Spec => []TypeOK
<1>1. SessionInv => TypeOK
  BY DEF SessionInv
<1>2. QED
  BY <1>1, SessionInvHolds, PTL

-----------------------------------------------------------------------------
\* What a step does to the disk, and to what is relied on.

Cleaned(d, p, x) ==
  \E i \in 1..3 : x = Cleaning(d, p)[i] /\ (i = 2 => "clean" \in CrashIn)

Restoring(p) ==
  \/ /\ disk.entry[p] # NoEntry
     /\ \E i \in 1..Len(Copying(disk, p)) : disk' = Copying(disk, p)[i]
     /\ kept' = kept
  \/ \E d :
       /\ d = disk \/ (disk.entry[p] # NoEntry /\ d = LastOf(Copying(disk, p)))
       /\ Cleaned(d, p, disk')
       /\ \/ kept' = Without(p)
          \/ kept' = kept /\ (disk.entry[p] = NoEntry \/ disk.copy[p] = Absent)

Saving(p) ==
  /\ pc = "open"
  /\ \/ kept' = kept /\ disk' \in {Touched(disk, p, Torn), Touched(disk, p, doc)}
     \/ kept' = Nothing /\ Cleaned(Touched(disk, p, doc), topSysid, disk')

Discarding(p) ==
  pc = "open" /\ kept' = Nothing /\ Cleaned(disk, p, disk')

AutosavingDone ==
  LET s == Autosaving(disk, docPath) IN
  /\ pc = "open" /\ waitingForIdle
  /\ \/ disk' = s[5] /\ kept' = [path |-> docPath, text |-> doc]
     \/ /\ \E i \in 1..5 : disk' = s[i]
        /\ kept' = kept
        /\ disk.entry[docPath] # NoEntry => "overwrite" \in CrashIn

DiskStep ==
  \/ disk' = disk /\ kept' = kept
  \/ \E p \in Path : Restoring(p) \/ Saving(p) \/ Discarding(p)
  \/ AutosavingDone

LEMMA CleanedFacts ==
  ASSUME NEW d \in Disk, NEW p \in Path, NEW x, Cleaned(d, p, x)
  PROVE  /\ x \in Disk /\ x.file = d.file /\ x.notSaved = d.notSaved \ {p}
         /\ \A q \in Path \ {p} : x.copy[q] = d.copy[q] /\ x.entry[q] = d.entry[q]
<1> DEFINE s == Cleaning(d, p)
<1>1. \A i \in 1..3 :
        /\ s[i] \in Disk
        /\ s[i].file = d.file
        /\ s[i].notSaved = d.notSaved \ {p}
        /\ \A q \in Path \ {p} :
             s[i].copy[q] = d.copy[q] /\ s[i].entry[q] = d.entry[q]
  BY CleaningFacts
<1>2. \E i \in 1..3 : x = s[i]
  BY DEF Cleaned
<1> HIDE DEF s
<1>3. QED
  BY <1>1, <1>2

LEMMA DownInCleaned ==
  ASSUME NEW d, NEW p, DownIn(Cleaning(d, p))
  PROVE  Cleaned(d, p, disk') /\ NoDocument /\ pc' = "down"
<1> DEFINE s == Cleaning(d, p)
<1>1. \/ disk' = s[1]
      \/ disk' = s[3]
      \/ disk' = s[2] /\ "clean" \in CrashIn
  <2> HIDE DEF s
  <2>1. CASE Down("unclean", <<s[1], s[3]>>)
    BY <2>1 DEF Down
  <2>2. CASE Down("clean", <<s[2]>>)
    BY <2>2 DEF Down
  <2>3. QED
    BY <2>1, <2>2 DEF DownIn, s
<1>2. NoDocument /\ pc' = "down"
  BY DEF DownIn, Down
<1> HIDE DEF s
<1>3. \E i \in 1..3 : disk' = s[i] /\ (i = 2 => "clean" \in CrashIn)
  BY <1>1
<1>4. QED
  BY <1>2, <1>3 DEF Cleaned, s

LEMMA LastCleaned ==
  ASSUME NEW d \in Disk, NEW p \in Path
  PROVE  /\ Cleaned(d, p, LastOf(Cleaning(d, p)))
         /\ LastOf(Cleaning(d, p)).file = d.file
         /\ LastOf(Cleaning(d, p)).entry[p] = NoEntry
         /\ p \notin LastOf(Cleaning(d, p)).notSaved
<1>1. Cleaned(d, p, LastOf(Cleaning(d, p)))
  BY CleaningFacts DEF Cleaned
<1>2. LastOf(Cleaning(d, p)).entry[p] = NoEntry
  BY CleaningFacts
<1>3. QED
  BY <1>1, <1>2, CleanedFacts

LEMMA LastCopied ==
  ASSUME NEW d, NEW p
  PROVE  \E i \in 1..Len(Copying(d, p)) : LastOf(Copying(d, p)) = Copying(d, p)[i]
<1> DEFINE s == Copying(d, p)
<1>1. Len(s) \in {1, 2}
  BY CopyingFacts
<1> HIDE DEF s
<1>2. Len(s) \in 1..Len(s)
  BY <1>1
<1>3. QED
  BY <1>2 DEF LastOf, s

LEMMA RestoreNotSavedDisk ==
  ASSUME SessionInv, NEW p \in Path, RestoreNotSaved(p)
  PROVE  DiskStep
<1>1. disk \in Disk
  BY DEF SessionInv, TypeOK
<1>2. CASE disk.entry[p] = NoEntry
  BY <1>1, <1>2, LastCleaned DEF RestoreNotSaved, Done, DiskStep, Restoring
<1>3. CASE disk.entry[p] # NoEntry
  <2> DEFINE copying == Copying(disk, p)
  <2>1. CASE Down("restore", copying) /\ UNCHANGED kept
    BY <1>3, <2>1 DEF Down, DiskStep, Restoring
  <2>2. CASE Done(copying) /\ UNCHANGED kept
    BY <1>3, <2>2, LastCopied DEF Done, DiskStep, Restoring
  <2>3. CASE /\ disk.copy[p] = Absent
             /\ Done(copying \o Cleaning(LastOf(copying), p)) /\ UNCHANGED kept
    <3>1. LastOf(copying) \in Disk
      BY <1>1, CopiedDisk
    <3>2. disk' = LastOf(Cleaning(LastOf(copying), p))
      BY <1>1, <2>3, CopyingThenCleaning DEF Done
    <3>3. Cleaned(LastOf(copying), p, disk')
      BY <3>1, <3>2, LastCleaned
    <3>4. QED
      BY <1>3, <2>3, <3>3 DEF DiskStep, Restoring
  <2>4. QED
    BY <1>3, <2>1, <2>2, <2>3 DEF RestoreNotSaved
<1>4. QED
  BY <1>2, <1>3

LEMMA RestoreDisk ==
  ASSUME SessionInv, NEW yes \in BOOLEAN, NEW yesAgain \in BOOLEAN, Restore(yes, yesAgain)
  PROVE  DiskStep
<1> DEFINE p == docPath
           e == disk.entry[p]
           copies == e # NoEntry /\ yes /\ IF e.outdated THEN yesAgain ELSE e.modified
           copying == IF copies THEN Copying(disk, p) ELSE <<disk>>
           d == LastOf(copying)
           cleaning == Cleaning(d, p)
<1>1. p \in Path /\ disk \in Disk
  BY DEF SessionInv, TypeOK, Restore
<1>2. /\ d \in Disk
      /\ d = disk \/ (disk.entry[p] # NoEntry /\ d = LastOf(Copying(disk, p)))
      /\ Down("restore", copying) =>
           \/ disk' = disk
           \/ /\ disk.entry[p] # NoEntry
              /\ \E i \in 1..Len(Copying(disk, p)) : disk' = Copying(disk, p)[i]
  <2>1. CASE copies
    <3>1. copying = Copying(disk, p) /\ disk.entry[p] # NoEntry
      BY <2>1
    <3> HIDE DEF copies, copying
    <3>2. QED
      BY <1>1, <3>1, CopiedDisk DEF Down
  <2>2. CASE ~copies
    <3>1. copying = <<disk>>
      BY <2>2
    <3> HIDE DEF copies, copying
    <3>2. QED
      BY <1>1, <3>1 DEF Down, LastOf
  <2>3. QED
    BY <2>1, <2>2
<1>3. \/ Down("restore", copying) /\ UNCHANGED kept
      \/ DownIn(cleaning) /\ kept' = Without(p)
      \/ disk' = LastOf(cleaning) /\ kept' = Without(p)
  BY DEF Restore, Done
<1> HIDE DEF copies, copying
<1>4. CASE Down("restore", copying) /\ UNCHANGED kept
  BY <1>1, <1>2, <1>4 DEF DiskStep, Restoring
<1> HIDE DEF d
<1>5. CASE DownIn(cleaning) /\ kept' = Without(p)
  BY <1>1, <1>2, <1>5, DownInCleaned DEF DiskStep, Restoring
<1>6. CASE disk' = LastOf(cleaning) /\ kept' = Without(p)
  BY <1>1, <1>2, <1>6, LastCleaned DEF DiskStep, Restoring
<1>7. QED
  BY <1>3, <1>4, <1>5, <1>6 DEF d

LEMMA NewDocumentDisk ==
  ASSUME SessionInv, NEW p \in Path, NEW t \in Text, NewDocument(p, t)
  PROVE  DiskStep
<1> DEFINE copying == IF disk.entry[p] = NoEntry THEN <<disk>> ELSE Copying(disk, p)
           d == LastOf(copying)
<1>1. disk \in Disk
  BY DEF SessionInv, TypeOK
<1>2. /\ d \in Disk
      /\ d = disk \/ (disk.entry[p] # NoEntry /\ d = LastOf(Copying(disk, p)))
  <2>1. CASE disk.entry[p] # NoEntry
    BY <2>1, <1>1, CopiedDisk
  <2>2. CASE disk.entry[p] = NoEntry
    <3>1. copying = <<disk>>
      BY <2>2
    <3>2. QED
      BY <3>1, <1>1 DEF LastOf
  <2>3. QED
    BY <2>1, <2>2
<1>3. disk' = LastOf(Cleaning(d, p)) /\ kept' = Without(p)
  BY DEF NewDocument, Done
<1> HIDE DEF d
<1>4. QED
  BY <1>2, <1>3, LastCleaned DEF DiskStep, Restoring

LEMMA SaveDisk ==
  ASSUME SessionInv, NEW p \in Path, SaveAt(p)
  PROVE  Saving(p)
<1>1. pc = "open" /\ disk \in Disk /\ doc \in Text /\ topSysid \in Path
  BY DEF SaveAt, SessionInv, TypeOK, HistoryOK, History!TypeOK
<1> DEFINE writing == Writing(disk, p, doc)
           d == Touched(disk, p, doc)
<1>2. /\ LastOf(writing) = d
      /\ Down("save", writing) => disk' \in {Touched(disk, p, Torn), d}
  BY WritingFacts DEF Down
<1>3. d \in Disk
  BY <1>1, TouchedFacts DEF Contents
<1> HIDE DEF writing, d
<1>4. CASE Down("save", writing) /\ UNCHANGED kept
  BY <1>1, <1>2, <1>4 DEF Saving, d
<1>5. CASE DownIn(Cleaning(d, topSysid)) /\ kept' = Nothing
  BY <1>1, <1>5, DownInCleaned DEF Saving, d
<1>6. CASE disk' = LastOf(Cleaning(d, topSysid)) /\ kept' = Nothing
  BY <1>1, <1>3, <1>6, LastCleaned DEF Saving, d
<1>7. QED
  BY <1>2, <1>4, <1>5, <1>6 DEF SaveAt, SaveInterrupted, Done, NotModified, writing

LEMMA DiscardDisk ==
  ASSUME SessionInv, Close \/ Undo \/ Redo
  PROVE  DiskStep
<1>1. pc = "open" /\ disk \in Disk /\ docPath \in Path /\ topSysid \in Path
  BY DEF Close, Undo, Redo, SessionInv, TypeOK
<1>2. CASE Close
  BY <1>1, <1>2, DownInCleaned, LastCleaned DEF Close, Done, DiskStep, Discarding
<1>3. CASE Undo \/ Redo
  BY <1>1, <1>3, LastCleaned
  DEF Undo, Redo, NotifyUpdated, NotModified, Done, DiskStep, Discarding
<1>4. QED
  BY <1>2, <1>3

LEMMA AutosaveDisk ==
  ASSUME SessionInv, IdleTimerExpired
  PROVE  AutosavingDone
<1> DEFINE s == Autosaving(disk, docPath)
           this == [path |-> docPath, text |-> doc]
           when == IF disk.entry[docPath] # NoEntry THEN "overwrite" ELSE "autosave"
<1>1. pc = "open" /\ waitingForIdle /\ disk \in Disk /\ docPath \in Path /\ doc \in Text
  BY DEF IdleTimerExpired, SessionInv, TypeOK, HistoryOK, History!TypeOK, Closed
<1>2. Len(s) = 5 /\ LastOf(s) = s[5]
  BY <1>1, AutosavingFacts
<1>3. \/ Down(when, s) /\ kept' = IF disk' = LastOf(s) THEN this ELSE kept
      \/ disk' = LastOf(s) /\ kept' = this
  BY DEF IdleTimerExpired, Done
<1> HIDE DEF s, this
<1>4. CASE Down(when, s) /\ kept' = IF disk' = LastOf(s) THEN this ELSE kept
  <2>1. when \in CrashIn /\ \E i \in 1..5 : disk' = s[i]
    BY <1>2, <1>4 DEF Down
  <2>2. QED
    BY <1>1, <1>2, <1>4, <2>1 DEF AutosavingDone, s, this
<1>5. CASE disk' = LastOf(s) /\ kept' = this
  BY <1>1, <1>2, <1>5 DEF AutosavingDone, s, this
<1>6. QED
  BY <1>3, <1>4, <1>5

LEMMA NextDisk ==
  ASSUME SessionInv, [Next]_vars
  PROVE  DiskStep
<1>1. CASE \/ Start \/ Crash \/ Started
           \/ \E p \in Path : SkipNotSaved(p) \/ OpenDocument(p)
           \/ \E t \in Text : Edit(t)
           \/ DelayTimerExpired \/ \E on \in BOOLEAN : SetEnabled(on)
           \/ UNCHANGED vars
  BY <1>1 DEF Start, Crash, Started, SkipNotSaved, OpenDocument, BeginOpen, Edit,
              DelayTimerExpired, SetEnabled, vars, DiskStep
<1>2. CASE \E p \in Path : RestoreNotSaved(p)
  BY <1>2, RestoreNotSavedDisk
<1>3. CASE \E yes, yesAgain \in BOOLEAN : Restore(yes, yesAgain)
  BY <1>3, RestoreDisk
<1>4. CASE \E p \in Path, t \in Text : NewDocument(p, t)
  BY <1>4, NewDocumentDisk
<1>5. CASE Save \/ \E p \in Path : SaveAs(p)
  <2>1. PICK p \in Path : SaveAt(p)
    BY <1>5 DEF Save, SaveAs, SaveAt, SessionInv, TypeOK
  <2>2. QED
    BY <2>1, SaveDisk DEF DiskStep
<1>6. CASE Close \/ Undo \/ Redo
  BY <1>6, DiscardDisk
<1>7. CASE IdleTimerExpired
  BY <1>7, AutosaveDisk DEF DiskStep
<1>8. QED
  BY <1>1, <1>2, <1>3, <1>4, <1>5, <1>6, <1>7 DEF Next

-----------------------------------------------------------------------------
\* Copies. As long as cleaning is not cut off between the copy and the map, an entry
\* of a map has a copy that is complete.

EntryHasCopy(d) == \A p \in Path : d.entry[p] # NoEntry => d.copy[p] \in Text

LEMMA TouchedHasCopy ==
  ASSUME NEW d \in Disk, EntryHasCopy(d), NEW p \in Path, NEW t \in Contents
  PROVE  EntryHasCopy(Touched(d, p, t))
<1> DEFINE x == Touched(d, p, t)
<1>1. /\ x.copy = d.copy
      /\ \A q \in Path : x.entry[q] = NoEntry <=> d.entry[q] = NoEntry
  BY TouchedFacts
<1> HIDE DEF x
<1>2. EntryHasCopy(x)
  BY <1>1 DEF EntryHasCopy
<1>3. QED
  BY <1>2 DEF x

LEMMA CleanedHasCopy ==
  ASSUME NEW d \in Disk, EntryHasCopy(d), NEW p \in Path, NEW x, Cleaned(d, p, x),
         "clean" \notin CrashIn
  PROVE  EntryHasCopy(x)
<1> DEFINE s == Cleaning(d, p)
<1>1. /\ s[1].copy = d.copy /\ s[1].entry = d.entry
      /\ s[3].entry[p] = NoEntry
      /\ \A q \in Path \ {p} : s[3].copy[q] = d.copy[q] /\ s[3].entry[q] = d.entry[q]
  BY CleaningFacts
<1>2. x = s[1] \/ x = s[3]
  BY DEF Cleaned
<1> HIDE DEF s
<1>3. QED
  BY <1>1, <1>2 DEF EntryHasCopy

LEMMA CopiedHasCopy ==
  ASSUME NEW d \in Disk, EntryHasCopy(d), NEW p \in Path
  PROVE  /\ EntryHasCopy(LastOf(Copying(d, p)))
         /\ \A i \in 1..Len(Copying(d, p)) : EntryHasCopy(Copying(d, p)[i])
<1> DEFINE s == Copying(d, p)
           t == IF d.copy[p] = Absent THEN Torn ELSE d.copy[p]
<1>1. t \in Contents /\ Torn \in Contents
  BY DEF Disk, Contents
<1>2. /\ s[1] = Touched(d, p, Torn) /\ LastOf(s) = Touched(d, p, t)
      /\ \A i \in 1..Len(s) : s[i] = s[1] \/ s[i] = LastOf(s)
  BY CopyingFacts
<1> HIDE DEF s, t
<1>3. EntryHasCopy(s[1]) /\ EntryHasCopy(LastOf(s))
  BY <1>1, <1>2, TouchedHasCopy
<1>4. \A i \in 1..Len(s) : EntryHasCopy(s[i])
  BY <1>2, <1>3
<1>5. QED
  BY <1>3, <1>4 DEF s

LEMMA StepHasCopy ==
  ASSUME SessionInv, DiskStep, EntryHasCopy(disk), "clean" \notin CrashIn
  PROVE  EntryHasCopy(disk')
<1>1. /\ disk \in Disk
      /\ pc = "open" => docPath \in Path /\ topSysid \in Path /\ doc \in Text
  BY DEF SessionInv, TypeOK, HistoryOK, History!TypeOK
<1>2. CASE disk' = disk
  BY <1>2
<1>3. ASSUME NEW p \in Path, Restoring(p) PROVE EntryHasCopy(disk')
  <2>1. CASE \E i \in 1..Len(Copying(disk, p)) : disk' = Copying(disk, p)[i]
    BY <1>1, <2>1, CopiedHasCopy
  <2>2. CASE \E d : d \in {disk, LastOf(Copying(disk, p))} /\ Cleaned(d, p, disk')
    BY <1>1, <2>2, CopiedHasCopy, CopiedDisk, CleanedHasCopy
  <2>3. QED
    BY <1>3, <2>1, <2>2 DEF Restoring
<1>4. ASSUME NEW p \in Path, Saving(p) PROVE EntryHasCopy(disk')
  <2> DEFINE x == Touched(disk, p, Torn)
             y == Touched(disk, p, doc)
  <2>1. pc = "open" /\ doc \in Contents /\ Torn \in Contents /\ topSysid \in Path
    BY <1>1, <1>4 DEF Saving, Contents
  <2>2. EntryHasCopy(x) /\ EntryHasCopy(y) /\ y \in Disk
    BY <1>1, <2>1, TouchedHasCopy, TouchedFacts
  <2>3. disk' = x \/ disk' = y \/ Cleaned(y, topSysid, disk')
    BY <1>4 DEF Saving
  <2> HIDE DEF x, y
  <2>4. QED
    BY <2>1, <2>2, <2>3, CleanedHasCopy
<1>5. ASSUME NEW p \in Path, Discarding(p) PROVE EntryHasCopy(disk')
  BY <1>1, <1>5, CleanedHasCopy DEF Discarding
<1>6. CASE AutosavingDone
  <2> DEFINE s == Autosaving(disk, docPath)
  <2>1. docPath \in Path /\ doc \in Text
    BY <1>1, <1>6 DEF AutosavingDone
  <2>2. \A i \in 1..5 :
          /\ s[i].entry[docPath] # NoEntry => s[i].copy[docPath] \in Text
          /\ \A q \in Path \ {docPath} :
               s[i].copy[q] = disk.copy[q] /\ s[i].entry[q] = disk.entry[q]
    BY <1>1, <2>1, AutosavingFacts, ZenonT(30)
  <2>3. \E i \in 1..5 : disk' = s[i]
    BY <1>6 DEF AutosavingDone
  <2> HIDE DEF s
  <2>4. QED
    BY <2>2, <2>3 DEF EntryHasCopy
<1>7. QED
  BY <1>2, <1>3, <1>4, <1>5, <1>6 DEF DiskStep

\* A restore that empties a document does it from an entry that stays.
LEMMA TornStep ==
  ASSUME SessionInv, DiskStep, EntryHasCopy(disk), "clean" \notin CrashIn,
         NEW p \in Path, pc # "open", disk.file[p] \in Text, disk'.file[p] = Torn
  PROVE  disk'.entry[p] # NoEntry /\ disk'.copy[p] \in Text
<1>1. disk \in Disk /\ disk.file[p] # Torn
  BY TextAssumption DEF SessionInv, TypeOK
<1>2. PICK q \in Path : Restoring(q)
  BY <1>1 DEF DiskStep, Saving, Discarding, AutosavingDone
<1> DEFINE s == Copying(disk, q)
           t == IF disk.copy[q] = Absent THEN Torn ELSE disk.copy[q]
<1>3. /\ s[1] = Touched(disk, q, Torn) /\ LastOf(s) = Touched(disk, q, t)
      /\ \A i \in 1..Len(s) : s[i] = s[1] \/ s[i] = LastOf(s)
  BY CopyingFacts, ZenonT(30)
<1>4. t \in Contents /\ Torn \in Contents
  BY <1>1 DEF Disk, Contents
<1>5. disk.entry[q] # NoEntry => t \in Text /\ t # Torn
  BY TextAssumption DEF EntryHasCopy
<1> HIDE DEF s, t
<1>6. ASSUME NEW x \in {s[1], LastOf(s)}
      PROVE  /\ x \in Disk /\ x.copy = disk.copy
             /\ x.entry[q] = NoEntry <=> disk.entry[q] = NoEntry
             /\ \A r \in Path \ {q} : x.file[r] = disk.file[r]
  BY <1>1, <1>3, <1>4, TouchedFacts, SMTT(30)
<1>7. CASE disk.entry[q] # NoEntry /\ \E i \in 1..Len(s) : disk' = s[i]
  <2>1. disk' \in {s[1], LastOf(s)}
    BY <1>3, <1>7
  <2>2. p = q
    BY <1>1, <1>6, <2>1
  <2>3. QED
    BY <1>6, <1>7, <2>1, <2>2 DEF EntryHasCopy
<1>8. ASSUME NEW d, d = disk \/ (disk.entry[q] # NoEntry /\ d = LastOf(s)),
             Cleaned(d, q, disk')
      PROVE  FALSE
  <2>1. d \in Disk
    BY <1>1, <1>6, <1>8
  <2>2. disk'.file = d.file
    BY <1>8, <2>1, CleanedFacts
  <2>3. d.file[p] # Torn
    <3>1. CASE d = disk
      BY <3>1, <1>1
    <3>2. CASE disk.entry[q] # NoEntry /\ d = LastOf(s)
      <4>1. d.file[q] = t
        BY <1>1, <1>3, <1>4, <3>2, TouchedFacts
      <4>2. p # q => d.file[p] = disk.file[p]
        BY <1>6, <3>2
      <4>3. QED
        BY <1>1, <1>5, <3>2, <4>1, <4>2
    <3>3. QED
      BY <3>1, <3>2, <1>8
  <2>4. QED
    BY <2>2, <2>3
<1>9. QED
  BY <1>2, <1>7, <1>8 DEF Restoring, s

\* A recovery that empties a document on the disk can be tried again, unless the
\* removal of an autosave may stop between the copy and the entity map.
THEOREM TornCanBeRecovered == "clean" \notin CrashIn => (Spec => TornIsRecoverable)
<1> SUFFICES ASSUME "clean" \notin CrashIn PROVE Spec => TornIsRecoverable
  OBVIOUS
<1> DEFINE CopyInv == SessionInv /\ EntryHasCopy(disk)
           Step == \A p \in Path :
                     pc # "open" /\ disk.file[p] \in Text /\ disk'.file[p] = Torn =>
                       disk'.entry[p] # NoEntry /\ disk'.copy[p] \in Text
<1>1. Init => CopyInv
  <2>1. Init => EntryHasCopy(disk)
    BY DEF Init, EntryHasCopy
  <2>2. QED
    BY <2>1, InitSession
<1>2. CopyInv /\ [Next]_vars => CopyInv'
  BY NextSession, NextDisk, StepHasCopy
<1>3. CopyInv /\ [Next]_vars => Step
  BY NextDisk, TornStep
<1>4. (Spec => [][Step]_vars) => (Spec => TornIsRecoverable)
  BY DEF TornIsRecoverable
<1> HIDE DEF CopyInv, Step
<1>5. Spec => [][Step]_vars
  BY <1>1, <1>2, <1>3, PTL DEF Spec
<1>6. QED
  BY <1>4, <1>5

-----------------------------------------------------------------------------
\* What is relied on.

Recoverable(d, k) ==
  k # Nothing =>
    /\ d.entry[k.path] # NoEntry
    /\ d.copy[k.path] = k.text
    /\ IF d.file[k.path] = Absent
       THEN k.path \in d.notSaved
       ELSE d.entry[k.path].modified \/ d.entry[k.path].outdated

LEMMA TouchedRecoverable ==
  ASSUME NEW d \in Disk, NEW k \in Autosave \cup {Nothing}, Recoverable(d, k),
         NEW p \in Path, NEW t \in Contents, t # Absent
  PROVE  Recoverable(Touched(d, p, t), k)
<1> DEFINE x == Touched(d, p, t)
<1>1. /\ x.copy = d.copy /\ x.notSaved = d.notSaved
      /\ x.file[p] = t
      /\ \A q \in Path \ {p} : x.file[q] = d.file[q] /\ x.entry[q] = d.entry[q]
      /\ x.entry[p] = NoEntry <=> d.entry[p] = NoEntry
      /\ x.entry[p] # NoEntry => x.entry[p].outdated
  BY TouchedFacts
<1>2. k # Nothing => k.path \in Path
  BY DEF Autosave
<1> HIDE DEF x
<1>3. Recoverable(x, k)
  BY <1>1, <1>2 DEF Recoverable
<1>4. QED
  BY <1>3 DEF x

LEMMA CleanedRecoverable ==
  ASSUME NEW d \in Disk, NEW k \in Autosave \cup {Nothing}, Recoverable(d, k),
         NEW p \in Path, NEW x, Cleaned(d, p, x), k = Nothing \/ k.path # p
  PROVE  Recoverable(x, k)
<1>1. k # Nothing => k.path \in Path \ {p}
  BY DEF Autosave
<1>2. QED
  BY <1>1, CleanedFacts DEF Recoverable

LEMMA CopiedRecoverable ==
  ASSUME NEW d \in Disk, NEW k \in Autosave \cup {Nothing}, Recoverable(d, k),
         NEW p \in Path
  PROVE  /\ Recoverable(LastOf(Copying(d, p)), k)
         /\ \A i \in 1..Len(Copying(d, p)) : Recoverable(Copying(d, p)[i], k)
<1> DEFINE s == Copying(d, p)
           t == IF d.copy[p] = Absent THEN Torn ELSE d.copy[p]
<1>1. t \in Contents /\ Torn \in Contents /\ t # Absent /\ Torn # Absent
  BY TextAssumption DEF Disk, Contents
<1>2. /\ s[1] = Touched(d, p, Torn) /\ LastOf(s) = Touched(d, p, t)
      /\ \A i \in 1..Len(s) : s[i] = s[1] \/ s[i] = LastOf(s)
  BY CopyingFacts
<1> HIDE DEF s, t
<1>3. Recoverable(s[1], k) /\ Recoverable(LastOf(s), k)
  BY <1>1, <1>2, TouchedRecoverable
<1>4. \A i \in 1..Len(s) : Recoverable(s[i], k)
  BY <1>2, <1>3
<1>5. QED
  BY <1>3, <1>4 DEF s

\* A document waits for its autosave only with something that the autosave can say
\* is modified, or with no file to be recovered over; one that has no file is new.
WaitingCounts ==
  waitingForDelay \/ waitingForIdle =>
    History!Done > 0 \/ disk.file[docPath] = Absent

FilelessIsNew == pc = "open" /\ disk.file[docPath] = Absent => isNew

KeptInv ==
  /\ SessionInv
  /\ Recoverable(disk, kept)
  /\ WaitingCounts
  /\ FilelessIsNew

LEMMA StepRecoverable ==
  ASSUME KeptInv, DiskStep, "overwrite" \notin CrashIn
  PROVE  Recoverable(disk', kept')
<1>1. /\ disk \in Disk /\ kept \in Autosave \cup {Nothing} /\ Recoverable(disk, kept)
      /\ pc = "open" => docPath \in Path /\ topSysid \in Path /\ doc \in Text
  BY DEF KeptInv, SessionInv, TypeOK, HistoryOK, History!TypeOK, Autosave
<1>2. CASE disk' = disk /\ kept' = kept
  BY <1>1, <1>2
<1>3. CASE kept' = Nothing
  BY <1>3 DEF Recoverable
<1>4. ASSUME NEW p \in Path, Restoring(p), kept' # Nothing
      PROVE  Recoverable(disk', kept')
  <2>1. CASE kept' = kept /\ \E i \in 1..Len(Copying(disk, p)) : disk' = Copying(disk, p)[i]
    BY <1>1, <2>1, CopiedRecoverable
  <2>2. ASSUME NEW d,
               d = disk \/ (disk.entry[p] # NoEntry /\ d = LastOf(Copying(disk, p))),
               Cleaned(d, p, disk'),
               \/ kept' = Without(p)
               \/ kept' = kept /\ (disk.entry[p] = NoEntry \/ disk.copy[p] = Absent)
        PROVE  Recoverable(disk', kept')
    <3>1. d \in Disk /\ Recoverable(d, kept)
      BY <1>1, <2>2, CopiedRecoverable, CopiedDisk
    <3>2. kept' = kept /\ kept.path # p
      <4>1. CASE kept' = Without(p)
        BY <1>4, <4>1 DEF Without
      <4>2. CASE kept' = kept /\ (disk.entry[p] = NoEntry \/ disk.copy[p] = Absent)
        BY <1>1, <1>4, <4>2, TextAssumption DEF Recoverable, Autosave
      <4>3. QED
        BY <2>2, <4>1, <4>2
    <3>3. QED
      BY <1>1, <2>2, <3>1, <3>2, CleanedRecoverable
  <2>3. QED
    BY <1>4, <2>1, <2>2 DEF Restoring
<1>5. ASSUME NEW p \in Path, Saving(p), kept' # Nothing
      PROVE  Recoverable(disk', kept')
  <2>1. /\ kept' = kept /\ doc \in Contents /\ Torn \in Contents
        /\ doc # Absent /\ Torn # Absent
    BY <1>1, <1>5, TextAssumption DEF Saving, Contents
  <2>2. Recoverable(Touched(disk, p, Torn), kept) /\ Recoverable(Touched(disk, p, doc), kept)
    BY <1>1, <2>1, TouchedRecoverable
  <2>3. disk' = Touched(disk, p, Torn) \/ disk' = Touched(disk, p, doc)
    BY <1>5 DEF Saving
  <2>4. QED
    BY <2>1, <2>2, <2>3
<1>6. CASE AutosavingDone
  <2> DEFINE s == Autosaving(disk, docPath)
             this == [path |-> docPath, text |-> doc]
  <2>1. pc = "open" /\ waitingForIdle /\ docPath \in Path /\ doc \in Text
    BY <1>1, <1>6 DEF AutosavingDone
  <2>2. /\ \A i \in 1..5 :
             /\ s[i].file = disk.file
             /\ disk.notSaved \subseteq s[i].notSaved
             /\ s[i].entry[docPath] # NoEntry => s[i].copy[docPath] = doc
             /\ \A q \in Path \ {docPath} :
                  s[i].copy[q] = disk.copy[q] /\ s[i].entry[q] = disk.entry[q]
        /\ LastOf(s) = s[5] /\ s[5].entry[docPath] # NoEntry
    <3>1. disk \in Disk /\ docPath \in Path /\ doc \in Text
      BY <1>1, <2>1
    <3>2. LastOf(s) = s[5] /\ s[5].entry[docPath] # NoEntry
      BY <3>1, AutosavingFacts
    <3>3. \A i \in 1..5 :
            /\ s[i].file = disk.file
            /\ disk.notSaved \subseteq s[i].notSaved
            /\ s[i].entry[docPath] # NoEntry => s[i].copy[docPath] = doc
            /\ \A q \in Path \ {docPath} :
                 s[i].copy[q] = disk.copy[q] /\ s[i].entry[q] = disk.entry[q]
      BY <3>1, AutosavingFacts, ZenonT(30)
    <3>4. QED
      BY <3>2, <3>3
  <2>3. /\ disk.file[docPath] # Absent => s[5].entry[docPath].modified
        /\ disk.file[docPath] = Absent => docPath \in s[5].notSaved
    <3>1. disk.file[docPath] = Absent => isNew
      BY <2>1 DEF KeptInv, FilelessIsNew
    <3>2. disk.file[docPath] # Absent => History!Done > 0
      BY <2>1 DEF KeptInv, WaitingCounts
    <3>3. disk.file[docPath] # Absent => LastOf(s).entry[docPath].modified
      BY <1>1, <2>1, <3>2, AutosavingFlag
    <3>4. disk.file[docPath] = Absent => docPath \in LastOf(s).notSaved
      BY <1>1, <2>1, <3>1, AutosavingNew
    <3> HIDE DEF s
    <3>5. QED
      BY <2>2, <3>3, <3>4
  <2> HIDE DEF s
  <2>4. CASE disk' = s[5] /\ kept' = this
    <3>1. disk'.file = disk.file /\ s[5].copy[docPath] = doc
      BY <2>2, <2>4
    <3>2. this.path = docPath /\ this.text = doc
      OBVIOUS
    <3> HIDE DEF this
    <3>3. QED
      BY <2>2, <2>3, <2>4, <3>1, <3>2 DEF Recoverable
  <2>5. ASSUME NEW i \in 1..5, disk' = s[i], kept' = kept,
               disk.entry[docPath] = NoEntry
        PROVE  Recoverable(disk', kept')
    <3>1. kept # Nothing => kept.path \in Path \ {docPath}
      BY <1>1, <2>5 DEF Recoverable, Autosave
    <3>2. QED
      BY <1>1, <2>2, <2>5, <3>1 DEF Recoverable
  <2>6. QED
    BY <1>6, <2>4, <2>5 DEF AutosavingDone, s
<1>7. QED
  BY <1>2, <1>3, <1>4, <1>5, <1>6 DEF DiskStep, Discarding

LEMMA SaveFile ==
  ASSUME SessionInv, NEW p \in Path, pc = "open",
         disk' = LastOf(Cleaning(LastOf(Writing(disk, p, doc)), topSysid))
  PROVE  disk'.file[p] = doc
<1> DEFINE d == Touched(disk, p, doc)
<1>1. disk \in Disk /\ doc \in Contents /\ topSysid \in Path
  BY DEF SessionInv, TypeOK, HistoryOK, History!TypeOK, Contents
<1>2. d \in Disk /\ d.file[p] = doc
  BY <1>1, TouchedFacts
<1>3. disk' = LastOf(Cleaning(d, topSysid))
  BY WritingFacts
<1> HIDE DEF d
<1>4. disk'.file = d.file
  BY <1>1, <1>2, <1>3, LastCleaned
<1>5. QED
  BY <1>2, <1>4

LEMMA NextWaiting ==
  ASSUME KeptInv, SessionInv', [Next]_vars, ~UndoMisleads
  PROVE  WaitingCounts' /\ FilelessIsNew'
<1>1. /\ disk \in Disk /\ HistoryOK /\ WaitingCounts /\ FilelessIsNew
      /\ pc = "open" => docPath \in Path /\ topSysid \in Path /\ doc \in Text
      /\ pc # "open" => Closed
      /\ HistoryOK'
  BY DEF KeptInv, SessionInv, TypeOK, HistoryOK, History!TypeOK
<1>2. pc' # "open" => WaitingCounts' /\ FilelessIsNew'
  BY DEF SessionInv, Closed, WaitingCounts, FilelessIsNew
<1>3. CASE \/ Start \/ Crash \/ Started
           \/ \E p \in Path : OpenDocument(p) \/ RestoreNotSaved(p)
           \/ Close
  BY <1>2, <1>3
  DEF Start, Crash, Started, OpenDocument, RestoreNotSaved, BeginOpen, sessionVars,
      Close, Down, DownIn
<1>4. CASE \/ \E p \in Path : SkipNotSaved(p)
           \/ DelayTimerExpired \/ (\E on \in BOOLEAN : SetEnabled(on))
           \/ UNCHANGED vars
  <2>1. UNCHANGED <<historyVars, sessionVars, disk>>
    BY <1>4 DEF SkipNotSaved, DelayTimerExpired, SetEnabled, vars
  <2>2. waitingForDelay' \/ waitingForIdle' => waitingForDelay \/ waitingForIdle
    BY <1>4 DEF SkipNotSaved, DelayTimerExpired, SetEnabled, SetTimeout, vars, timerVars
  <2>3. History!Done' = History!Done
    BY <2>1, <1>1, HistoryKept
  <2>4. QED
    BY <1>1, <2>1, <2>2, <2>3 DEF sessionVars, WaitingCounts, FilelessIsNew
<1>5. ASSUME NEW yes \in BOOLEAN, NEW yesAgain \in BOOLEAN, Restore(yes, yesAgain),
             pc' = "open"
      PROVE  WaitingCounts' /\ FilelessIsNew'
  <2>1. PICK d : /\ disk' = d /\ d.file[docPath] \in Text
                 /\ UNCHANGED <<docPath, timerVars>>
    BY <1>5 DEF Restore, Done, Down, DownIn
  <2>2. pc = "asking"
    BY <1>5 DEF Restore
  <2>3. QED
    BY <1>1, <2>1, <2>2, TextAssumption DEF timerVars, Closed, WaitingCounts, FilelessIsNew
<1>6. ASSUME NEW p \in Path, NEW t \in Text, NewDocument(p, t)
      PROVE  WaitingCounts' /\ FilelessIsNew'
  BY <1>1, <1>6 DEF NewDocument, timerVars, Closed, WaitingCounts, FilelessIsNew
<1>7. ASSUME NEW t \in Text, Edit(t) PROVE WaitingCounts' /\ FilelessIsNew'
  <2>1. History!Done' > 0
    BY <1>1, <1>7, HistoryExecute DEF Edit
  <2>2. QED
    BY <1>1, <1>7, <2>1 DEF Edit, sessionVars, WaitingCounts, FilelessIsNew
<1>8. CASE Undo \/ Redo
  <2>1. /\ pc = "open" /\ docPath' = docPath /\ pc' = pc /\ isNew' = isNew
        /\ forceModified' = forceModified /\ disk'.file = disk.file
    BY <1>1, <1>8, LastCleaned
    DEF Undo, Redo, NotifyUpdated, NotModified, Done, sessionVars
  <2>2. CASE forceModified \/ History!IsModified'
    <3>1. CASE Undo
      <4>1. ~FlagMisleads'
        BY <3>1 DEF Undo
      <4>2. History!Done' = 0 => disk'.file[docPath'] = Absent
        BY <2>1, <2>2, <4>1 DEF FlagMisleads, IsModified
      <4>3. History!Done' \in Nat
        BY <1>1, <3>1, HistoryUndo DEF Undo
      <4>4. QED
        BY <1>1, <2>1, <4>2, <4>3 DEF WaitingCounts, FilelessIsNew
    <3>2. CASE Redo
      <4>1. History!Done' > 0
        BY <1>1, <3>2, HistoryRedo DEF Redo
      <4>2. QED
        BY <1>1, <2>1, <4>1 DEF WaitingCounts, FilelessIsNew
    <3>3. QED
      BY <1>8, <3>1, <3>2
  <2>3. CASE ~(forceModified \/ History!IsModified')
    <3>1. ~waitingForDelay' /\ ~waitingForIdle'
      BY <1>8, <2>3 DEF Undo, Redo, NotifyUpdated, NotModified
    <3>2. QED
      BY <1>1, <2>1, <3>1 DEF WaitingCounts, FilelessIsNew
  <2>4. QED
    BY <2>2, <2>3
<1>9. ASSUME NEW p \in Path, SaveAt(p), pc' = "open"
      PROVE  WaitingCounts' /\ FilelessIsNew'
  <2>1. /\ pc = "open" /\ docPath' = p /\ ~waitingForDelay' /\ ~waitingForIdle'
        /\ disk' = LastOf(Cleaning(LastOf(Writing(disk, p, doc)), topSysid))
    BY <1>9 DEF SaveAt, SaveInterrupted, Down, DownIn, NotModified, Done
  <2>2. disk'.file[p] = doc
    BY <2>1, SaveFile DEF KeptInv
  <2>3. QED
    BY <1>1, <2>1, <2>2, TextAssumption DEF WaitingCounts, FilelessIsNew
<1>10. ASSUME IdleTimerExpired, pc' = "open" PROVE WaitingCounts' /\ FilelessIsNew'
  <2>1. /\ disk' = LastOf(Autosaving(disk, docPath)) /\ waitingForIdle
        /\ UNCHANGED <<historyVars, sessionVars>>
    BY <1>10 DEF IdleTimerExpired, Done, Down
  <2>2. pc = "open"
    BY <1>1, <2>1 DEF Closed
  <2>3. disk'.file = disk.file
    BY <1>1, <2>1, <2>2, AutosavedDisk
  <2>4. History!Done' = History!Done
    BY <1>1, <2>1, HistoryKept
  <2>5. QED
    BY <1>1, <2>1, <2>3, <2>4 DEF sessionVars, WaitingCounts, FilelessIsNew
<1>11. CASE Save \/ \E p \in Path : SaveAs(p)
  BY <1>1, <1>2, <1>9, <1>11 DEF Save, SaveAs, SaveAt
<1>12. QED
  BY <1>2, <1>3, <1>4, <1>5, <1>6, <1>7, <1>8, <1>10, <1>11 DEF Next

\* What was autosaved and is still needed can be recovered, as long as no undo leads
\* to a document that is modified with nothing to undo over a file that is there, and
\* the program does not go down while it writes an autosave over another.
THEOREM AutosavesAreRecoverable ==
  (~UndoMisleads /\ "overwrite" \notin CrashIn) => (Spec => []KeptIsRecoverable)
<1> SUFFICES ASSUME ~UndoMisleads, "overwrite" \notin CrashIn
             PROVE  Spec => []KeptIsRecoverable
  OBVIOUS
<1>1. Init => KeptInv
  <2>1. Init => Recoverable(disk, kept) /\ WaitingCounts /\ FilelessIsNew
    BY DEF Init, Recoverable, WaitingCounts, FilelessIsNew
  <2>2. QED
    BY <2>1, InitSession DEF KeptInv
<1>2. KeptInv /\ [Next]_vars => KeptInv'
  <2> SUFFICES ASSUME KeptInv, [Next]_vars PROVE KeptInv'
    OBVIOUS
  <2>1. SessionInv' /\ DiskStep
    BY NextSession, NextDisk DEF KeptInv
  <2>2. WaitingCounts' /\ FilelessIsNew'
    BY <2>1, NextWaiting
  <2>3. Recoverable(disk', kept')
    BY <2>1, StepRecoverable
  <2>4. QED
    BY <2>1, <2>2, <2>3 DEF KeptInv
<1>3. KeptInv => KeptIsRecoverable
  BY DEF KeptInv, Recoverable, KeptIsRecoverable
<1>4. QED
  BY <1>1, <1>2, <1>3, PTL DEF Spec

-----------------------------------------------------------------------------
\* A document that is not modified. Without Save As the saver has the path of the
\* document, and the timers run only while it is modified.

CleanInv ==
  /\ SessionInv
  /\ topSysid = docPath
  /\ waitingForDelay \/ waitingForIdle => IsModified
  /\ UnmodifiedIsClean

LEMMA NextClean ==
  ASSUME CleanInv, [Next]_vars, ~MaySaveAs, ~AddressReuse
  PROVE  CleanInv'
<1>1. /\ disk \in Disk /\ HistoryOK /\ topSysid = docPath
      /\ pc = "open" => docPath \in Path
      /\ pc # "open" => Closed
      /\ waitingForDelay \/ waitingForIdle => IsModified
  BY DEF CleanInv, SessionInv, TypeOK
<1>2. SessionInv'
  BY NextSession DEF CleanInv
<1>3. ASSUME topSysid' = docPath', pc' # "open" PROVE CleanInv'
  BY <1>2, <1>3 DEF CleanInv, SessionInv, Closed, UnmodifiedIsClean
<1>4. ASSUME topSysid' = docPath', IsModified' PROVE CleanInv'
  BY <1>2, <1>4 DEF CleanInv, UnmodifiedIsClean
<1>5. ASSUME NEW d \in Disk, NEW p \in Path, disk' = LastOf(Cleaning(d, p)),
             docPath' = p, topSysid' = p, ~waitingForDelay', ~waitingForIdle'
      PROVE  CleanInv'
  <2>1. disk'.entry[p] = NoEntry /\ p \notin disk'.notSaved
    BY <1>5, LastCleaned
  <2>2. QED
    BY <1>2, <1>5, <2>1 DEF CleanInv, UnmodifiedIsClean
<1>6. CASE Start \/ Started \/ \E p \in Path : OpenDocument(p)
  BY <1>1, <1>3, <1>6 DEF Start, Started, OpenDocument, BeginOpen
<1>7. ASSUME NoDocument, pc' # "open" PROVE CleanInv'
  BY <1>3, <1>7 DEF NoDocument
<1>8. CASE Crash
  BY <1>7, <1>8 DEF Crash
<1>9. CASE \E p \in Path : RestoreNotSaved(p)
  BY <1>1, <1>3, <1>7, <1>9 DEF RestoreNotSaved, Down, BeginOpen, sessionVars
<1>10. CASE \/ \E p \in Path : SkipNotSaved(p)
            \/ DelayTimerExpired \/ (\E on \in BOOLEAN : SetEnabled(on))
            \/ UNCHANGED vars
  <2>1. UNCHANGED <<historyVars, sessionVars, disk>>
    BY <1>10 DEF SkipNotSaved, DelayTimerExpired, SetEnabled, vars
  <2>2. waitingForDelay' \/ waitingForIdle' => waitingForDelay \/ waitingForIdle
    BY <1>10 DEF SkipNotSaved, DelayTimerExpired, SetEnabled, SetTimeout, vars, timerVars
  <2>3. IsModified' <=> IsModified
    BY <1>1, <2>1, HistoryKept DEF IsModified, sessionVars
  <2>4. UnmodifiedIsClean
    BY DEF CleanInv
  <2>5. QED
    BY <1>1, <1>2, <2>1, <2>2, <2>3, <2>4 DEF sessionVars, CleanInv, UnmodifiedIsClean
<1>11. ASSUME NEW yes \in BOOLEAN, NEW yesAgain \in BOOLEAN, Restore(yes, yesAgain)
       PROVE  CleanInv'
  <2> DEFINE p == docPath
             e == disk.entry[p]
             copies == e # NoEntry /\ yes /\ IF e.outdated THEN yesAgain ELSE e.modified
             copying == IF copies THEN Copying(disk, p) ELSE <<disk>>
  <2>1. p \in Path /\ pc = "asking"
    BY <1>11 DEF Restore, CleanInv, SessionInv, TypeOK
  <2>2. LastOf(copying) \in Disk
    <3>1. CASE copies
      BY <3>1, <1>1, <2>1, CopiedDisk
    <3>2. CASE ~copies
      <4>1. copying = <<disk>>
        BY <3>2
      <4>2. QED
        BY <4>1, <1>1 DEF LastOf
    <3>3. QED
      BY <3>1, <3>2
  <2>3. \/ NoDocument /\ pc' # "open"
        \/ /\ disk' = LastOf(Cleaning(LastOf(copying), p))
           /\ UNCHANGED <<docPath, topSysid, timerVars>>
    BY <1>11 DEF Restore, Down, DownIn, Done
  <2> HIDE DEF copies, copying
  <2>4. CASE /\ disk' = LastOf(Cleaning(LastOf(copying), p))
             /\ UNCHANGED <<docPath, topSysid, timerVars>>
    BY <1>1, <1>5, <2>1, <2>2, <2>4 DEF timerVars, Closed
  <2>5. QED
    BY <1>7, <2>3, <2>4
<1>12. ASSUME NEW p \in Path, NEW t \in Text, NewDocument(p, t) PROVE CleanInv'
  BY <1>4, <1>12 DEF NewDocument, IsModified
<1>13. ASSUME NEW t \in Text, Edit(t) PROVE CleanInv'
  <2>1. History!IsModified'
    BY <1>1, <1>13, HistoryExecute DEF Edit
  <2>2. QED
    BY <1>1, <1>4, <1>13, <2>1 DEF Edit, sessionVars, IsModified
<1>14. CASE Undo \/ Redo
  <2>1. pc = "open" /\ NotifyUpdated(forceModified \/ History!IsModified')
    BY <1>14 DEF Undo, Redo
  <2>2. CASE forceModified \/ History!IsModified'
    BY <1>1, <1>4, <2>1, <2>2 DEF NotifyUpdated, sessionVars, IsModified
  <2>3. CASE ~(forceModified \/ History!IsModified')
    BY <1>1, <1>5, <2>1, <2>3 DEF NotifyUpdated, NotModified, Done
  <2>4. QED
    BY <2>2, <2>3
<1>15. CASE Save \/ \E p \in Path : SaveAs(p)
  <2>1. SaveAt(docPath)
    BY <1>15 DEF Save, SaveAs
  <2>2. \/ NoDocument /\ pc' # "open"
        \/ /\ disk' = LastOf(Cleaning(LastOf(Writing(disk, docPath, doc)), docPath))
           /\ docPath' = docPath /\ topSysid' = docPath
           /\ ~waitingForDelay' /\ ~waitingForIdle'
    BY <1>1, <2>1 DEF SaveAt, SaveInterrupted, Down, DownIn, Done, NotModified
  <2>3. docPath \in Path /\ LastOf(Writing(disk, docPath, doc)) \in Disk
    BY <1>1, <2>1, WrittenDisk DEF SaveAt, HistoryOK, History!TypeOK
  <2>4. QED
    BY <1>5, <1>7, <2>2, <2>3
<1>16. CASE Close
  <2>1. NoDocument /\ pc' # "open"
    BY <1>16 DEF Close, DownIn, Down
  <2>2. QED
    BY <1>7, <2>1
<1>17. CASE IdleTimerExpired
  <2>1. \/ NoDocument /\ pc' # "open"
        \/ UNCHANGED <<historyVars, sessionVars>> /\ waitingForIdle
    BY <1>17 DEF IdleTimerExpired, Down
  <2>2. CASE UNCHANGED <<historyVars, sessionVars>> /\ waitingForIdle
    <3>1. IsModified' <=> IsModified
      BY <1>1, <2>2, HistoryKept DEF IsModified, sessionVars
    <3>2. QED
      BY <1>1, <1>4, <2>2, <3>1 DEF sessionVars
  <2>3. QED
    BY <1>7, <2>1, <2>2
<1>18. QED
  BY <1>6, <1>8, <1>9, <1>10, <1>11, <1>12, <1>13, <1>14, <1>15, <1>16, <1>17 DEF Next

\* A document that is open and not modified has no autosave, as long as Save As is
\* not used and no new command gets the address the mark remembers: whatever was
\* autosaved before, undone, saved or recovered.
THEOREM UnmodifiedHasNoAutosave ==
  (~MaySaveAs /\ ~AddressReuse) => (Spec => []UnmodifiedIsClean)
<1> SUFFICES ASSUME ~MaySaveAs, ~AddressReuse PROVE Spec => []UnmodifiedIsClean
  OBVIOUS
<1>1. Init => CleanInv
  <2>1. Init => /\ topSysid = docPath /\ UnmodifiedIsClean
                /\ ~waitingForDelay /\ ~waitingForIdle
    BY DEF Init, UnmodifiedIsClean
  <2>2. QED
    BY <2>1, InitSession DEF CleanInv
<1>2. CleanInv /\ [Next]_vars => CleanInv'
  BY NextClean
<1>3. CleanInv => UnmodifiedIsClean
  BY DEF CleanInv
<1>4. QED
  BY <1>1, <1>2, <1>3, PTL DEF Spec

=============================================================================
