----------------------- MODULE CommandExecutorProofs -----------------------
(***************************************************************************)
(* Proofs about the undo history, for every set of commands and documents, *)
(* every depth limit and every length of the list.                         *)
(***************************************************************************)
EXTENDS CommandExecutor, SequenceTheorems, TLAPS

\* The inductive invariant: what every step needs to know of the list.
HistoryInv ==
  /\ TypeOK
  /\ DistinctCommands
  /\ ExecutedPrefix
  /\ CommandsInContext
  /\ DepthBound

-----------------------------------------------------------------------------

\* In a list without duplicates an address is found where it is.
LEMMA PositionOf ==
  ASSUME NEW h \in Seq(CommandObject),
         NoDuplicates(h),
         NEW n \in 1..Len(h)
  PROVE  Position(h, h[n].addr) = n
<1>1. h[n] \in CommandObject
  OBVIOUS
<1>2. h[n].addr # NULL
  BY <1>1, NullAssumption DEF CommandObject
<1>3. QED
  BY <1>2 DEF Position, NoDuplicates

LEMMA InitHistoryInv == Init => HistoryInv
<1> SUFFICES ASSUME Init PROVE HistoryInv
  OBVIOUS
<1>1. hist = <<>> /\ Len(hist) = 0 /\ Done = 0
  BY DEF Init, Done, Position
<1>2. TypeOK
  <2>1. hist \in Seq(CommandObject)
    BY <1>1
  <2>2. /\ lastDone \in Pointer /\ notModifiedAt \in Pointer
        /\ childCount \in Nat /\ doc \in Doc /\ saved \in Doc
    BY DEF Init, Pointer
  <2>3. wasCleared \in BOOLEAN
    BY DEF Init
  <2>4. QED
    BY <2>1, <2>2, <2>3 DEF TypeOK
<1>3. DistinctCommands /\ ExecutedPrefix /\ CommandsInContext
  BY <1>1 DEF DistinctCommands, NoDuplicates, ExecutedPrefix,
                 CommandsInContext, Init
<1>4. DepthBound
  BY <1>1, LimitAssumption DEF DepthBound, Init
<1>5. QED
  BY <1>2, <1>3, <1>4 DEF HistoryInv

\* Where the cursor is, read from the two tests the code makes of it.
LEMMA CursorFacts ==
  ASSUME HistoryInv
  PROVE  /\ Done \in 0..Len(hist)
         /\ IsUndoPossible <=> Done > 0
         /\ IsRedoPossible <=> Done < Len(hist)
         /\ \A i \in 1..Len(hist) : hist[i] \in CommandObject
<1>1. /\ hist \in Seq(CommandObject)
      /\ lastDone \in Pointer
      /\ lastDone = NULL \/ (Done \in 1..Len(hist) /\ hist[Done].addr = lastDone)
      /\ \A i \in 1..Len(hist) : hist[i] \in CommandObject
  BY DEF HistoryInv, TypeOK, ExecutedPrefix
<1>2. \A i, j \in 1..Len(hist) : hist[i].addr = hist[j].addr => i = j
  BY DEF HistoryInv, DistinctCommands, NoDuplicates
<1>3. lastDone = NULL => Done = 0
  BY DEF Done, Position
<1>4. Done \in 0..Len(hist) /\ (IsUndoPossible <=> Done > 0)
  BY <1>1, <1>3 DEF IsUndoPossible
<1>5. IsRedoPossible <=> Done < Len(hist)
  <2>1. CASE hist = <<>>
    BY <2>1, <1>1, <1>3 DEF IsRedoPossible
  <2>2. CASE hist # <<>>
    <3>1. Len(hist) \in 1..Len(hist) /\ hist[Len(hist)].addr # NULL
      BY <2>2, <1>1, NullAssumption DEF CommandObject
    <3>2. QED
      BY <3>1, <2>2, <1>1, <1>2, <1>3 DEF IsRedoPossible, LastChild
  <2>3. QED
    BY <2>1, <2>2
<1>6. QED
  BY <1>1, <1>4, <1>5

\* A pointer to the k-th child, or null when k = 0, is a cursor at k.
LEMMA CursorAt ==
  ASSUME NEW h \in Seq(CommandObject),
         NoDuplicates(h),
         NEW k \in 0..Len(h),
         NEW p, k = 0 => p = NULL, k # 0 => p = h[k].addr
  PROVE  /\ Position(h, p) = k
         /\ p \in Pointer
         /\ p = NULL \/ (Position(h, p) \in 1..Len(h) /\ h[Position(h, p)].addr = p)
<1>1. CASE k = 0
  BY <1>1 DEF Position, Pointer
<1>2. CASE k # 0
  <2>1. k \in 1..Len(h) /\ h[k] \in CommandObject
    BY <1>2
  <2>2. Position(h, h[k].addr) = k
    BY <2>1, PositionOf
  <2>3. QED
    BY <1>2, <2>1, <2>2 DEF CommandObject, Pointer
<1>3. QED
  BY <1>1, <1>2

\* The same of the list and the cursor a step leaves behind.
LEMMA CursorNext ==
  ASSUME hist' \in Seq(CommandObject), DistinctCommands',
         NEW k \in 0..Len(hist'),
         k = 0 => lastDone' = NULL, k # 0 => lastDone' = hist'[k].addr
  PROVE  /\ Done' = k
         /\ lastDone' \in Pointer
         /\ \/ lastDone' = NULL
            \/ Done' \in 1..Len(hist') /\ hist'[Done'].addr = lastDone'
<1>1. PICK h, p : h = hist' /\ p = lastDone'
  OBVIOUS
<1>2. h \in Seq(CommandObject) /\ NoDuplicates(h) /\ k \in 0..Len(h)
  BY <1>1 DEF DistinctCommands
<1>3. (k = 0 => p = NULL) /\ (k # 0 => p = h[k].addr)
  BY <1>1
<1>4. /\ Position(h, p) = k
      /\ p \in Pointer
      /\ p = NULL \/ (Position(h, p) \in 1..Len(h) /\ h[Position(h, p)].addr = p)
  BY <1>2, <1>3, CursorAt
<1>5. QED
  BY <1>1, <1>4 DEF Done

-----------------------------------------------------------------------------

(***************************************************************************)
(* Moving the cursor.  Undo and Redo set the executed flag of the one      *)
(* command m they pass and leave the cursor at k, before or after it.      *)
(***************************************************************************)
SameCommands ==
  /\ hist' \in Seq(CommandObject) /\ Len(hist') = Len(hist)
  /\ \A i \in 1..Len(hist) : /\ hist'[i].addr = hist[i].addr
                              /\ hist'[i].before = hist[i].before
                              /\ hist'[i].after = hist[i].after

LEMMA CursorMoves ==
  ASSUME HistoryInv,
         NEW m \in 1..Len(hist), NEW b \in BOOLEAN, NEW k \in 0..Len(hist),
         \/ m = Done /\ b = FALSE /\ k = Done - 1
         \/ m = Done + 1 /\ b = TRUE /\ k = Done + 1,
         hist' = [hist EXCEPT ![m].executed = b],
         lastDone' = IF k = 0 THEN NULL ELSE hist[k].addr,
         doc' = IF b THEN hist[m].after ELSE hist[m].before,
         UNCHANGED <<notModifiedAt, childCount, wasCleared, saved>>
  PROVE  HistoryInv' /\ SameCommands /\ Done' = k
<1> DEFINE n == Len(hist)
<1>1. /\ Done \in 0..n /\ n \in Nat /\ hist \in Seq(CommandObject)
      /\ \A i \in 1..n : hist[i] \in CommandObject
  BY CursorFacts DEF HistoryInv, TypeOK
<1>2. [hist[m] EXCEPT !.executed = b] \in CommandObject
  BY <1>1 DEF CommandObject
<1>3. hist' = [hist EXCEPT ![m] = [hist[m] EXCEPT !.executed = b]]
  OBVIOUS
<1>4. hist' \in Seq(CommandObject) /\ Len(hist') = n
  BY <1>1, <1>2, <1>3, ExceptSeq
<1>5. \A i \in 1..n :
        /\ hist'[i].addr = hist[i].addr
        /\ hist'[i].before = hist[i].before
        /\ hist'[i].after = hist[i].after
        /\ i # m => hist'[i] = hist[i]
        /\ i = m => hist'[i].executed = b
  <2>1. \A i \in 1..n :
          hist'[i] = IF i = m THEN [hist[m] EXCEPT !.executed = b] ELSE hist[i]
    BY <1>1, <1>2, <1>3, ExceptSeq
  <2>2. QED
    BY <2>1, <1>1 DEF CommandObject
<1>6. DistinctCommands'
  BY <1>4, <1>5 DEF HistoryInv, DistinctCommands, NoDuplicates
<1>7. (k = 0 => lastDone' = NULL) /\ (k # 0 => lastDone' = hist'[k].addr)
  BY <1>1, <1>5
<1>8. /\ Done' = k
      /\ lastDone' \in Pointer
      /\ \/ lastDone' = NULL
         \/ Done' \in 1..Len(hist') /\ hist'[Done'].addr = lastDone'
  <2>1. k \in 0..Len(hist')
    BY <1>4
  <2>2. QED
    BY <2>1, <1>4, <1>6, <1>7, CursorNext
<1>9. TypeOK'
  <2>1. doc' \in Doc
    BY <1>1 DEF CommandObject
  <2>2. QED
    BY <2>1, <1>4, <1>8 DEF HistoryInv, TypeOK, Pointer
<1>10. ExecutedPrefix'
  <2>1. \A i \in 1..n : hist[i].executed <=> i <= Done
    BY DEF HistoryInv, ExecutedPrefix
  <2>2. \A i \in 1..n : hist'[i].executed <=> i <= k
    BY <1>1, <1>5, <2>1
  <2>3. QED
    BY <1>4, <1>8, <2>2 DEF ExecutedPrefix
<1>11. CommandsInContext'
  <2>1. \A i \in 1..(n - 1) : hist[i].after = hist[i + 1].before
    BY DEF HistoryInv, CommandsInContext
  <2>2. \A i \in 1..(n - 1) : hist'[i].after = hist'[i + 1].before
    BY <1>1, <1>5, <2>1
  <2>3. \A i \in 1..n : k = i => doc' = hist'[i].after
    BY <1>1, <1>5, <2>1
  <2>4. \A i \in 1..n : k = i - 1 => doc' = hist'[i].before
    BY <1>1, <1>5, <2>1
  <2>5. QED
    BY <1>4, <1>8, <2>2, <2>3, <2>4 DEF CommandsInContext
<1>12. DepthBound'
  BY <1>4 DEF HistoryInv, DepthBound
<1>13. SameCommands
  BY <1>4, <1>5 DEF SameCommands
<1>14. QED
  BY <1>6, <1>8, <1>9, <1>10, <1>11, <1>12, <1>13 DEF HistoryInv

\* Undo takes back the command at the cursor.
LEMMA UndoMoves ==
  ASSUME HistoryInv, Undo
  PROVE  /\ HistoryInv' /\ SameCommands
         /\ Done \in 1..Len(hist) /\ Done' = Done - 1
         /\ hist[Done].addr = lastDone
         /\ doc = hist[Done].after /\ doc' = hist[Done].before
<1>1. /\ Done \in 1..Len(hist) /\ Done - 1 \in 0..Len(hist)
      /\ hist[Done].addr = lastDone /\ doc = hist[Done].after
  <2>1. Done \in 1..Len(hist) /\ Done - 1 \in 0..Len(hist)
    BY CursorFacts DEF Undo, HistoryInv, TypeOK
  <2>2. lastDone # NULL
    BY DEF Undo, IsUndoPossible
  <2>3. QED
    BY <2>1, <2>2 DEF HistoryInv, ExecutedPrefix, CommandsInContext
<1>2. /\ lastDone' = IF Done - 1 = 0 THEN NULL ELSE hist[Done - 1].addr
      /\ doc' = hist[Done].before
  BY <1>1 DEF Undo
<1>3. HistoryInv' /\ SameCommands /\ Done' = Done - 1
  BY <1>1, <1>2, CursorMoves DEF Undo
<1>4. QED
  BY <1>1, <1>2, <1>3

LEMMA UndoKeeps == HistoryInv /\ Undo => HistoryInv'
BY UndoMoves

\* Redo does the command after the cursor again.
LEMMA RedoMoves ==
  ASSUME HistoryInv, Redo
  PROVE  /\ HistoryInv' /\ SameCommands
         /\ Done + 1 \in 1..Len(hist) /\ Done' = Done + 1
         /\ hist[Done + 1].addr = lastDone'
         /\ doc = hist[Done + 1].before /\ doc' = hist[Done + 1].after
<1>1. /\ Done + 1 \in 1..Len(hist) /\ Done + 1 \in 0..Len(hist)
      /\ Done = (Done + 1) - 1
  BY CursorFacts DEF Redo, HistoryInv, TypeOK
<1>2. /\ lastDone' = IF Done + 1 = 0 THEN NULL ELSE hist[Done + 1].addr
      /\ lastDone' = hist[Done + 1].addr
      /\ doc' = hist[Done + 1].after
  BY <1>1 DEF Redo
<1>3. HistoryInv' /\ SameCommands /\ Done' = Done + 1
  BY <1>1, <1>2, CursorMoves DEF Redo
<1>4. doc = hist[Done + 1].before
  BY <1>1 DEF HistoryInv, CommandsInContext
<1>5. QED
  BY <1>1, <1>2, <1>3, <1>4

LEMMA RedoKeeps == HistoryInv /\ Redo => HistoryInv'
BY RedoMoves

-----------------------------------------------------------------------------

(***************************************************************************)
(* Appending a command.  The list it is appended to, kept, is a piece of   *)
(* hist that ends at the cursor: the redo tail is gone and, if the list    *)
(* was too deep, so is the first child.                                    *)
(***************************************************************************)
LEMMA WithoutRedoEnds ==
  ASSUME HistoryInv
  PROVE  /\ WithoutRedo \in Seq(CommandObject)
         /\ Len(WithoutRedo) = Done
         /\ \A i \in 1..Done : WithoutRedo[i] = hist[i]
<1>1. /\ Done \in 0..Len(hist) /\ hist \in Seq(CommandObject)
      /\ \A i \in 1..Len(hist) : hist[i] \in CommandObject
      /\ IsRedoPossible <=> Done < Len(hist)
  BY CursorFacts DEF HistoryInv, TypeOK
<1>2. CASE IsRedoPossible
  <2>1. \A i \in 1..Done : hist[i] \in CommandObject
    BY <1>1
  <2>2. /\ SubSeq(hist, 1, Done) \in Seq(CommandObject)
        /\ Len(SubSeq(hist, 1, Done)) = IF 1 <= Done THEN Done - 1 + 1 ELSE 0
        /\ \A i \in 1..(Done - 1 + 1) : SubSeq(hist, 1, Done)[i] = hist[1 + i - 1]
    BY <1>1, <2>1, SubSeqProperties
  <2>3. QED
    BY <1>1, <1>2, <2>2 DEF WithoutRedo
<1>3. CASE ~IsRedoPossible
  BY <1>1, <1>3 DEF WithoutRedo
<1>4. QED
  BY <1>2, <1>3

NewCommand(c, d) == [addr |-> c, before |-> doc, after |-> d, executed |-> TRUE]

\* What the list is made of: o is the number of children dropped at its head.
Appended(o, c, d) ==
  /\ o \in {0, 1} /\ (o = 1 <=> TooDeep) /\ Done - o \in Nat
  /\ hist' \in Seq(CommandObject)
  /\ Len(hist') = Done - o + 1 /\ childCount' = Done - o + 1
  /\ \A i \in 1..(Done - o) : hist'[i] = hist[i + o]
  /\ hist'[Done - o + 1] = NewCommand(c, d)

LEMMA ExecuteMakes ==
  ASSUME HistoryInv, NEW c \in Command, NEW d \in Doc, ExecuteAndAdd(c, d)
  PROVE  \E o \in {0, 1} : Appended(o, c, d)
<1> DEFINE kept == IF TooDeep THEN Tail(WithoutRedo) ELSE WithoutRedo
           command == NewCommand(c, d)
           o == IF TooDeep THEN 1 ELSE 0
           n == Len(kept)
<1>1. /\ Done \in 0..Len(hist) /\ hist \in Seq(CommandObject)
      /\ Len(hist) \in Nat /\ childCount = Len(hist) /\ childCount \in Nat
      /\ \A i \in 1..Len(hist) : hist[i] \in CommandObject
  BY CursorFacts DEF HistoryInv, TypeOK, DepthBound
<1>2. /\ kept \in Seq(CommandObject)
      /\ o \in {0, 1} /\ n = Done - o /\ n \in Nat
      /\ \A i \in 1..n : kept[i] = hist[i + o]
  <2>1. CASE TooDeep
    <3>1. /\ Tail(WithoutRedo) \in Seq(CommandObject)
          /\ Len(Tail(WithoutRedo)) = Len(WithoutRedo) - 1
          /\ \A i \in 1..Len(Tail(WithoutRedo)) :
               Tail(WithoutRedo)[i] = WithoutRedo[i + 1]
      BY <2>1, WithoutRedoEnds, HeadTailProperties DEF TooDeep
    <3>2. /\ Len(WithoutRedo) = Done /\ WithoutRedo # <<>>
          /\ \A i \in 1..Done : WithoutRedo[i] = hist[i]
      BY <2>1, WithoutRedoEnds DEF TooDeep
    <3>3. kept = Tail(WithoutRedo) /\ o = 1 /\ n = Done - 1
      BY <2>1, <3>1, <3>2
    <3>4. n \in Nat
      <4>1. kept \in Seq(CommandObject)
        BY <3>1, <3>3
      <4>2. QED
        BY <4>1, LenProperties
    <3>5. \A i \in 1..n : i \in 1..Len(Tail(WithoutRedo)) /\ i + 1 \in 1..Done
      BY <3>1, <3>2, <3>3, <1>1
    <3>6. \A i \in 1..n : kept[i] = hist[i + 1]
      BY <3>1, <3>2, <3>3, <3>5
    <3>7. QED
      BY <3>1, <3>3, <3>4, <3>6
  <2>2. CASE ~TooDeep
    BY <2>2, <1>1, WithoutRedoEnds
  <2>3. QED
    BY <2>1, <2>2
<1>3. command \in CommandObject
  BY DEF HistoryInv, TypeOK, CommandObject, NewCommand
<1>4. hist' = Append(kept, command) /\ childCount' = childCount - (Len(hist) - n) + 1
  BY DEF ExecuteAndAdd, NewCommand
<1>5. /\ hist' \in Seq(CommandObject) /\ Len(hist') = n + 1
      /\ \A i \in 1..n : hist'[i] = hist[i + o]
      /\ hist'[n + 1] = command
  <2>1. /\ Append(kept, command) \in Seq(CommandObject)
        /\ Len(Append(kept, command)) = n + 1
        /\ \A i \in 1..n : Append(kept, command)[i] = kept[i]
        /\ Append(kept, command)[n + 1] = command
    BY <1>2, <1>3, AppendProperties
  <2>2. QED
    BY <2>1, <1>2, <1>4
<1>6. o = 1 <=> TooDeep
  OBVIOUS
<1>7. childCount' = n + 1
  BY <1>1, <1>2, <1>4
<1>8. Appended(o, c, d)
  BY <1>2, <1>5, <1>6, <1>7 DEF Appended
<1>9. QED
  BY <1>2, <1>8

\* The new command is done, and nothing is left to redo.
LEMMA ExecuteMoves ==
  ASSUME HistoryInv, NEW c \in Command, NEW d \in Doc, ExecuteAndAdd(c, d)
  PROVE  HistoryInv' /\ Done' = Len(hist')
<1>1. /\ Done \in 0..Len(hist) /\ hist \in Seq(CommandObject)
      /\ Len(hist) \in Nat /\ childCount = Len(hist) /\ childCount \in Nat
      /\ \A i \in 1..Len(hist) : hist[i] \in CommandObject
  BY CursorFacts DEF HistoryInv, TypeOK, DepthBound
<1>0. PICK o \in {0, 1} : Appended(o, c, d)
  BY ExecuteMakes
<1>2. PICK n \in Nat : n = Done - o /\ (o = 1 <=> TooDeep)
  BY <1>0 DEF Appended
<1>4. /\ lastDone' = c /\ doc' = d
      /\ childCount' = n + 1
      /\ c \notin {hist[i].addr : i \in 1..Len(hist)}
  BY <1>0, <1>2 DEF ExecuteAndAdd, Fresh, Appended
<1>5. /\ hist' \in Seq(CommandObject) /\ Len(hist') = n + 1
      /\ \A i \in 1..n : hist'[i] = hist[i + o]
      /\ hist'[n + 1].addr = c /\ hist'[n + 1].executed
      /\ hist'[n + 1].before = doc /\ hist'[n + 1].after = d
  BY <1>0, <1>2 DEF Appended, NewCommand
<1>6. DistinctCommands'
  <2>1. \A i \in 1..n : i + o \in 1..Len(hist) /\ hist'[i].addr = hist[i + o].addr
    BY <1>1, <1>2, <1>5
  <2>2. \A i, j \in 1..Len(hist) : hist[i].addr = hist[j].addr => i = j
    BY DEF HistoryInv, DistinctCommands, NoDuplicates
  <2>3. \A i, j \in 1..n : hist'[i].addr = hist'[j].addr => i = j
    BY <2>1, <2>2
  <2>4. \A i \in 1..n : hist'[i].addr # c
    BY <1>4, <2>1
  <2>5. \A i, j \in 1..(n + 1) : hist'[i].addr = hist'[j].addr => i = j
    BY <1>2, <1>5, <2>3, <2>4
  <2>6. QED
    BY <1>2, <1>5, <2>5 DEF DistinctCommands, NoDuplicates
<1>7. /\ Done' = n + 1
      /\ lastDone' \in Pointer
      /\ \/ lastDone' = NULL
         \/ Done' \in 1..Len(hist') /\ hist'[Done'].addr = lastDone'
  BY <1>2, <1>4, <1>5, <1>6, CursorNext
<1>8. TypeOK'
  <2>1. wasCleared' \in BOOLEAN
    BY DEF ExecuteAndAdd, HistoryInv, TypeOK
  <2>2. QED
    BY <2>1, <1>1, <1>2, <1>4, <1>5, <1>7
       DEF HistoryInv, TypeOK, Pointer, ExecuteAndAdd
<1>9. ExecutedPrefix'
  <2>1. \A i \in 1..Len(hist) : hist[i].executed <=> i <= Done
    BY DEF HistoryInv, ExecutedPrefix
  <2>2. \A i \in 1..(n + 1) : hist'[i].executed
    BY <1>1, <1>2, <1>5, <2>1
  <2>3. QED
    BY <1>2, <1>5, <1>7, <2>2 DEF ExecutedPrefix
<1>10. CommandsInContext'
  <2>1. /\ \A i \in 1..(Len(hist) - 1) : hist[i].after = hist[i + 1].before
        /\ Done > 0 => doc = hist[Done].after
    BY <1>1 DEF HistoryInv, CommandsInContext
  <2>2. ASSUME NEW i \in 1..n PROVE hist'[i].after = hist'[i + 1].before
    <3>1. i + o \in 1..Done /\ hist'[i] = hist[i + o] /\ i \in Nat
      BY <1>1, <1>2, <1>5, SMTT(30)
    <3>2. CASE i < n
      <4>1. /\ i + 1 \in 1..n /\ i + o \in 1..(Len(hist) - 1)
            /\ (i + 1) + o = (i + o) + 1
        BY <3>2, <1>1, <1>2
      <4>2. QED
        BY <4>1, <3>1, <1>5, <2>1, SMTT(30)
    <3>3. CASE i = n
      <4>1. i + o = Done /\ hist'[i + 1].before = doc
        BY <3>3, <1>1, <1>2, <1>5
      <4>2. Done > 0
        BY <3>1, <1>1
      <4>3. QED
        BY <4>1, <4>2, <3>1, <2>1
    <3>4. QED
      BY <3>2, <3>3, <1>2
  <2>3. doc' = hist'[n + 1].after
    BY <1>4, <1>5
  <2>4. Len(hist') = n + 1 /\ (n + 1) - 1 = n /\ n \in Nat
    BY <1>2, <1>5
  <2>5. \A i \in 1..(Len(hist') - 1) : hist'[i].after = hist'[i + 1].before
    BY <2>2, <2>4
  <2>6. \A i \in 1..Len(hist') : Done' = i => doc' = hist'[i].after
    BY <1>7, <2>3
  <2>7. \A i \in 1..Len(hist') : Done' = i - 1 => doc' = hist'[i].before
    BY <1>7, <2>4
  <2>8. QED
    BY <2>5, <2>6, <2>7 DEF CommandsInContext
<1>11. DepthBound'
  <2>1. ASSUME DepthLimit > 0 PROVE n <= DepthLimit
    BY <2>1, <1>1, <1>2, WithoutRedoEnds, LimitAssumption
       DEF TooDeep, HistoryInv, DepthBound
  <2>2. QED
    BY <2>1, <1>1, <1>2, <1>4, <1>5, LimitAssumption DEF DepthBound
<1>12. QED
  BY <1>5, <1>6, <1>7, <1>8, <1>9, <1>10, <1>11 DEF HistoryInv

LEMMA ExecuteKeeps ==
  ASSUME HistoryInv, NEW c \in Command, NEW d \in Doc, ExecuteAndAdd(c, d)
  PROVE  HistoryInv'
BY ExecuteMoves

-----------------------------------------------------------------------------

(***************************************************************************)
(* Dropping the last command.  h is what is left of hist: the children but *)
(* the last, the new last one possibly standing for the dropped one too.   *)
(***************************************************************************)
Shortened(h) ==
  /\ h \in Seq(CommandObject)
  /\ Len(hist) >= 1
  /\ Len(h) = Len(hist) - 1
  /\ \A i \in 1..Len(h) : /\ h[i].addr = hist[i].addr
                          /\ h[i].before = hist[i].before
                          /\ h[i].executed = hist[i].executed
                          /\ i < Len(h) => h[i].after = hist[i].after
  /\ Len(h) > 0 =>
       h[Len(h)].after = IF IsRedoPossible THEN hist[Len(h)].after
                                           ELSE hist[Len(hist)].after

LEMMA DropKeeps ==
  ASSUME HistoryInv, NEW h, Shortened(h),
         DropLast(h), UNCHANGED <<wasCleared, doc, saved>>
  PROVE  HistoryInv' /\ Done' = IF IsRedoPossible THEN Done ELSE Len(h)
<1> DEFINE m == Len(h)
           k == IF IsRedoPossible THEN Done ELSE m
<1>0. /\ h \in Seq(CommandObject)
      /\ Len(hist) >= 1
      /\ Len(h) = Len(hist) - 1
      /\ \A i \in 1..Len(h) : /\ h[i].addr = hist[i].addr
                              /\ h[i].before = hist[i].before
                              /\ h[i].executed = hist[i].executed
                              /\ i < Len(h) => h[i].after = hist[i].after
      /\ Len(h) > 0 =>
           h[Len(h)].after = IF IsRedoPossible THEN hist[Len(h)].after
                                               ELSE hist[Len(hist)].after
  BY DEF Shortened
<1> USE <1>0
<1>1. /\ Done \in 0..(m + 1) /\ m \in Nat /\ Len(hist) = m + 1
      /\ hist \in Seq(CommandObject)
      /\ \A i \in 1..(m + 1) : hist[i] \in CommandObject
      /\ IsRedoPossible <=> Done < m + 1
      /\ lastDone = NULL <=> Done = 0
      /\ Done > 0 => hist[Done].addr = lastDone
      /\ LastChild = hist[m + 1].addr
  <2>1. hist # <<>> /\ Len(h) \in Nat
    BY LenProperties
  <2>2. LastChild = hist[m + 1].addr
    BY <2>1 DEF LastChild
  <2>3. QED
    BY <2>1, <2>2, CursorFacts
       DEF HistoryInv, TypeOK, ExecutedPrefix, IsUndoPossible
<1>2. k \in 0..m /\ (IsRedoPossible => k = Done) /\ (~IsRedoPossible => k = m /\ Done = m + 1)
  BY <1>1
<1>3. hist' = h /\ Len(hist') = m /\ hist' \in Seq(CommandObject)
  BY DEF DropLast
<1>4. DistinctCommands'
  <2>1. \A i, j \in 1..(m + 1) : hist[i].addr = hist[j].addr => i = j
    BY <1>1 DEF HistoryInv, DistinctCommands, NoDuplicates
  <2>2. \A i \in 1..m : i \in 1..(m + 1) /\ hist'[i].addr = hist[i].addr
    BY <1>1, <1>3
  <2>3. \A i, j \in 1..m : hist'[i].addr = hist'[j].addr => i = j
    BY <2>1, <2>2
  <2>4. QED
    BY <2>3, <1>3 DEF DistinctCommands, NoDuplicates
<1>5. lastDone = LastChild <=> ~IsRedoPossible
  BY <1>1 DEF IsRedoPossible
<1>6. (k = 0 => lastDone' = NULL) /\ (k # 0 => lastDone' = hist'[k].addr)
  <2>1. CASE IsRedoPossible
    BY <2>1, <1>1, <1>2, <1>3, <1>5 DEF DropLast
  <2>2. CASE ~IsRedoPossible
    <3>1. m = 0 <=> h = <<>>
      BY EmptySeq
    <3>2. QED
      BY <2>2, <3>1, <1>1, <1>2, <1>3, <1>5 DEF DropLast
  <2>3. QED
    BY <2>1, <2>2
<1>7. /\ Done' = k
      /\ lastDone' \in Pointer
      /\ \/ lastDone' = NULL
         \/ Done' \in 1..Len(hist') /\ hist'[Done'].addr = lastDone'
  <2>1. k \in 0..Len(hist')
    BY <1>2, <1>3
  <2>2. QED
    BY <2>1, <1>3, <1>4, <1>6, CursorNext
<1>8. TypeOK'
  <2>1. notModifiedAt' \in Pointer
    BY DEF DropLast, HistoryInv, TypeOK, Pointer
  <2>2. childCount' \in Nat
    BY <1>1 DEF DropLast, HistoryInv, TypeOK, DepthBound
  <2>3. QED
    BY <2>1, <2>2, <1>3, <1>7 DEF HistoryInv, TypeOK
<1>9. ExecutedPrefix'
  <2>1. \A i \in 1..(m + 1) : hist[i].executed <=> i <= Done
    BY <1>1 DEF HistoryInv, ExecutedPrefix
  <2>2. \A i \in 1..m : hist'[i].executed <=> i <= k
    BY <1>1, <1>2, <1>3, <2>1
  <2>3. QED
    BY <1>3, <1>7, <2>2 DEF ExecutedPrefix
<1>10. CommandsInContext'
  <2>1. /\ \A i \in 1..m : hist[i].after = hist[i + 1].before
        /\ \A i \in 1..(m + 1) : Done = i => doc = hist[i].after
        /\ \A i \in 1..(m + 1) : Done = i - 1 => doc = hist[i].before
    BY <1>1 DEF HistoryInv, CommandsInContext
  <2>2. \A i \in 1..(m - 1) : hist'[i].after = hist'[i + 1].before
    BY <1>1, <1>3, <2>1
  <2>3. \A i \in 1..m : k = i => doc = hist'[i].after
    BY <1>1, <1>2, <1>3, <2>1
  <2>4. \A i \in 1..m : k = i - 1 => doc = hist'[i].before
    BY <1>1, <1>2, <1>3, <2>1
  <2>5. QED
    BY <1>3, <1>7, <2>2, <2>3, <2>4 DEF CommandsInContext
<1>11. DepthBound'
  BY <1>1, <1>3, LimitAssumption DEF HistoryInv, DepthBound, DropLast
<1>12. QED
  BY <1>4, <1>7, <1>8, <1>9, <1>10, <1>11 DEF HistoryInv

\* The children but the last.
LEMMA AllButLast ==
  ASSUME HistoryInv, Len(hist) >= 1
  PROVE  /\ SubSeq(hist, 1, Len(hist) - 1) \in Seq(CommandObject)
         /\ Len(SubSeq(hist, 1, Len(hist) - 1)) = Len(hist) - 1
         /\ \A i \in 1..(Len(hist) - 1) :
              SubSeq(hist, 1, Len(hist) - 1)[i] = hist[i]
<1> DEFINE n == Len(hist)
<1>1. n \in Nat /\ \A i \in 1..(n - 1) : hist[i] \in CommandObject
  BY CursorFacts, LenProperties DEF HistoryInv, TypeOK
<1>2. PICK s, m : s = SubSeq(hist, 1, n - 1) /\ m = n - 1
  OBVIOUS
<1>3. m \in Nat
  BY <1>1, <1>2
<1>4. /\ s \in Seq(CommandObject)
      /\ Len(s) = IF 1 <= m THEN m - 1 + 1 ELSE 0
      /\ \A i \in 1..(m - 1 + 1) : s[i] = hist[1 + i - 1]
  BY <1>1, <1>2, SubSeqProperties
<1>5. Len(s) = m
  <2> HIDE DEF n
  <2>1. CASE m = 0
    BY <2>1, <1>4
  <2>2. CASE m > 0
    BY <2>2, <1>3, <1>4
  <2>3. QED
    BY <2>1, <2>2, <1>3
<1>6. \A i \in 1..m : s[i] = hist[i]
  BY <1>3, <1>4
<1>7. QED
  BY <1>2, <1>4, <1>5, <1>6

LEMMA RemoveShortens ==
  ASSUME HistoryInv, RemoveLastCommand
  PROVE  \E h : Shortened(h) /\ DropLast(h)
<1> DEFINE h == SubSeq(hist, 1, Len(hist) - 1)
<1>1. Len(hist) >= 1 /\ Len(hist) \in Nat
  BY CursorFacts, LenProperties DEF RemoveLastCommand, HistoryInv, TypeOK
<1>2. /\ h \in Seq(CommandObject) /\ Len(h) = Len(hist) - 1
      /\ \A i \in 1..Len(h) : h[i] = hist[i]
  BY <1>1, AllButLast
<1>3. Len(h) > 0 => h[Len(h)] = hist[Len(h)]
  BY <1>1, <1>2
<1>4. IsRedoPossible /\ DropLast(h) /\ UNCHANGED <<wasCleared, doc, saved>>
  BY DEF RemoveLastCommand
<1>5. Shortened(h)
  BY <1>1, <1>2, <1>3, <1>4 DEF Shortened
<1>6. QED
  BY <1>4, <1>5

LEMMA RemoveKeeps == HistoryInv /\ RemoveLastCommand => HistoryInv'
<1> SUFFICES ASSUME HistoryInv, RemoveLastCommand PROVE HistoryInv'
  OBVIOUS
<1>1. PICK h : Shortened(h) /\ DropLast(h)
  BY RemoveShortens
<1>2. QED
  BY <1>1, DropKeeps DEF RemoveLastCommand

LEMMA MergeShortens ==
  ASSUME HistoryInv, MergeLastCommand
  PROVE  \E h : Shortened(h) /\ DropLast(h)
<1>1. PICK n, r, x, h :
        /\ n = Len(hist)
        /\ r = SubSeq(hist, 1, n - 1)
        /\ x = [r[n - 1] EXCEPT !.after = hist[n].after]
        /\ h = [r EXCEPT ![n - 1] = x]
  OBVIOUS
<1>2. n >= 2 /\ n \in Nat /\ \A i \in 1..n : hist[i] \in CommandObject
  BY <1>1, CursorFacts, LenProperties DEF MergeLastCommand, HistoryInv, TypeOK
<1>3. /\ r \in Seq(CommandObject) /\ Len(r) = n - 1
      /\ \A i \in 1..(n - 1) : r[i] = hist[i]
  BY <1>1, <1>2, AllButLast
<1>4. n - 1 \in 1..Len(r) /\ n - 1 \in 1..n
  BY <1>2, <1>3
<1>5. /\ x \in CommandObject
      /\ x.addr = hist[n - 1].addr
      /\ x.before = hist[n - 1].before
      /\ x.executed = hist[n - 1].executed
      /\ x.after = hist[n].after
  <2>1. r[n - 1] = hist[n - 1] /\ hist[n - 1] \in CommandObject /\ hist[n] \in CommandObject
    BY <1>2, <1>3, <1>4
  <2>2. QED
    BY <2>1, <1>1 DEF CommandObject
<1>6. h \in Seq(CommandObject) /\ Len(h) = n - 1
  <2>1. h \in Seq(CommandObject) /\ Len(h) = Len(r)
    BY <1>1, <1>3, <1>4, <1>5, ExceptSeq
  <2>2. QED
    BY <2>1, <1>3
<1>7. \A i \in 1..(n - 1) : h[i] = IF i = n - 1 THEN x ELSE r[i]
  <2>1. PICK k \in 1..Len(r) : k = n - 1
    BY <1>4
  <2>2. \A i \in 1..Len(r) : [r EXCEPT ![k] = x][i] = IF i = k THEN x ELSE r[i]
    BY <1>3, <1>5, ExceptSeq
  <2>3. QED
    BY <2>1, <2>2, <1>1, <1>3
<1>8. \A i \in 1..Len(h) : /\ h[i].addr = hist[i].addr
                           /\ h[i].before = hist[i].before
                           /\ h[i].executed = hist[i].executed
                           /\ i < Len(h) => h[i].after = hist[i].after
  BY <1>2, <1>3, <1>5, <1>6, <1>7
<1>9. ~IsRedoPossible /\ DropLast(h) /\ UNCHANGED <<wasCleared, doc, saved>>
  BY <1>1 DEF MergeLastCommand
<1>10. h[Len(h)].after = hist[Len(hist)].after
  <2>1. h[n - 1] = x
    BY <1>3, <1>4, <1>7
  <2>2. QED
    BY <2>1, <1>1, <1>5, <1>6
<1>11. Shortened(h)
  BY <1>1, <1>2, <1>6, <1>8, <1>9, <1>10 DEF Shortened
<1>12. QED
  BY <1>9, <1>11

LEMMA MergeKeeps == HistoryInv /\ MergeLastCommand => HistoryInv'
<1> SUFFICES ASSUME HistoryInv, MergeLastCommand PROVE HistoryInv'
  OBVIOUS
<1>1. PICK h : Shortened(h) /\ DropLast(h)
  BY MergeShortens
<1>2. QED
  BY <1>1, DropKeeps DEF MergeLastCommand

-----------------------------------------------------------------------------

LEMMA SaveKeeps == HistoryInv /\ SetNotModified => HistoryInv'
<1> SUFFICES ASSUME HistoryInv, SetNotModified PROVE HistoryInv'
  OBVIOUS
<1>1. UNCHANGED <<hist, lastDone, childCount, doc, Done>>
  BY DEF SetNotModified, Done
<1>2. TypeOK'
  <2>1. notModifiedAt' \in Pointer /\ wasCleared' \in BOOLEAN /\ saved' \in Doc
    BY DEF HistoryInv, TypeOK, SetNotModified
  <2>2. QED
    BY <1>1, <2>1 DEF HistoryInv, TypeOK
<1>3. DistinctCommands' /\ ExecutedPrefix' /\ CommandsInContext' /\ DepthBound'
  BY <1>1 DEF HistoryInv, DistinctCommands, ExecutedPrefix,
              CommandsInContext, DepthBound
<1>4. QED
  BY <1>2, <1>3 DEF HistoryInv

LEMMA ReopenKeeps == HistoryInv /\ Reopen => HistoryInv'
<1> SUFFICES ASSUME HistoryInv, Reopen PROVE HistoryInv'
  OBVIOUS
<1>1. hist' = <<>> /\ Len(hist') = 0 /\ Done' = 0
  BY DEF Reopen, Done, Position
<1>2. TypeOK'
  <2>1. hist' \in Seq(CommandObject)
    BY <1>1
  <2>2. /\ lastDone' \in Pointer /\ notModifiedAt' \in Pointer
        /\ childCount' \in Nat /\ doc' \in Doc /\ saved' \in Doc
    BY DEF HistoryInv, TypeOK, Reopen, Pointer
  <2>3. wasCleared' \in BOOLEAN
    BY DEF Reopen
  <2>4. QED
    BY <2>1, <2>2, <2>3 DEF TypeOK
<1>3. DistinctCommands' /\ ExecutedPrefix' /\ CommandsInContext'
  BY <1>1 DEF DistinctCommands, NoDuplicates, ExecutedPrefix,
              CommandsInContext, Reopen
<1>4. DepthBound'
  BY <1>1, LimitAssumption DEF DepthBound, Reopen
<1>5. QED
  BY <1>2, <1>3, <1>4 DEF HistoryInv

\* Every step keeps the invariant.
LEMMA NextKeeps == HistoryInv /\ [Next]_vars => HistoryInv'
<1> SUFFICES ASSUME HistoryInv, [Next]_vars PROVE HistoryInv'
  OBVIOUS
<1>1. CASE \E c \in Command, d \in Doc : ExecuteAndAdd(c, d)
  BY <1>1, ExecuteKeeps
<1>2. CASE Undo
  BY <1>2, UndoKeeps
<1>3. CASE Redo
  BY <1>3, RedoKeeps
<1>4. CASE RemoveLastCommand
  BY <1>4, RemoveKeeps
<1>5. CASE MergeLastCommand
  BY <1>5, MergeKeeps
<1>6. CASE SetNotModified
  BY <1>6, SaveKeeps
<1>7. CASE Reopen
  BY <1>7, ReopenKeeps
<1>8. CASE UNCHANGED vars
  <2>1. UNCHANGED Done
    BY <1>8 DEF vars, Done
  <2>2. QED
    BY <1>8, <2>1 DEF vars, HistoryInv, TypeOK, DistinctCommands,
                      ExecutedPrefix, CommandsInContext, DepthBound
<1>9. QED
  BY <1>1, <1>2, <1>3, <1>4, <1>5, <1>6, <1>7, <1>8 DEF Next

LEMMA HistoryInvariant == Spec => []HistoryInv
<1>1. QED
  BY InitHistoryInv, NextKeeps, PTL DEF Spec

-----------------------------------------------------------------------------

(***************************************************************************)
(* The mark of the saved document.  It is a raw pointer: it means what it   *)
(* should only if the allocator does not hand its address out again.  That *)
(* "not modified" means saved needs, besides, that the editor does not     *)
(* rewrite the command just done; TLC refutes it without either.           *)
(***************************************************************************)

\* The document the oldest command was made for, or the current one if there
\* is no command: where undoing everything ends.
Floor == IF hist = <<>> THEN doc ELSE hist[1].before

\* No mark and nothing trimmed since the save: the history starts at the
\* saved document.
FloorIsSaved == (~wasCleared /\ notModifiedAt = NULL) => Floor = saved

\* Undo and Redo rename nothing, and the mark stays.
LEMMA MarkUndoRedo ==
  ASSUME HistoryInv, MarkIsSaved, Undo \/ Redo
  PROVE  MarkIsSaved' /\ (FloorIsSaved => FloorIsSaved')
<1>1. PICK m \in 1..Len(hist), b \in BOOLEAN :
        /\ hist' = [hist EXCEPT ![m].executed = b]
        /\ UNCHANGED <<notModifiedAt, wasCleared, saved>>
  <2>1. CASE Undo
    <3>1. Done \in 1..Len(hist) /\ FALSE \in BOOLEAN
      BY <2>1, CursorFacts DEF Undo, HistoryInv, TypeOK
    <3>2. QED
      BY <2>1, <3>1 DEF Undo
  <2>2. CASE Redo
    <3>1. Done + 1 \in 1..Len(hist) /\ TRUE \in BOOLEAN
      BY <2>2, CursorFacts DEF Redo, HistoryInv, TypeOK
    <3>2. QED
      BY <2>2, <3>1 DEF Redo
  <2>3. QED
    BY <2>1, <2>2
<1>2. /\ hist \in Seq(CommandObject) /\ Len(hist) \in Nat
      /\ \A i \in 1..Len(hist) : hist[i] \in CommandObject
  BY CursorFacts, LenProperties DEF HistoryInv, TypeOK
<1>3. PICK x : x = [hist[m] EXCEPT !.executed = b]
  OBVIOUS
<1>4. /\ x \in CommandObject
      /\ x.addr = hist[m].addr /\ x.after = hist[m].after /\ x.before = hist[m].before
  BY <1>2, <1>3 DEF CommandObject
<1>5. hist' = [hist EXCEPT ![m] = x]
  BY <1>1, <1>3
<1>6. /\ Len(hist') = Len(hist) /\ hist' \in Seq(CommandObject)
      /\ \A i \in 1..Len(hist) : hist'[i] = IF i = m THEN x ELSE hist[i]
  BY <1>2, <1>4, <1>5, ExceptSeq
<1>7. \A i \in 1..Len(hist) : /\ hist'[i].addr = hist[i].addr
                               /\ hist'[i].after = hist[i].after
                               /\ hist'[i].before = hist[i].before
  BY <1>4, <1>6
<1>8. MarkIsSaved'
  BY <1>1, <1>6, <1>7 DEF MarkIsSaved
<1>9. Floor' = Floor
  <2>1. hist # <<>> /\ hist' # <<>> /\ 1 \in 1..Len(hist)
    BY <1>2, <1>6, EmptySeq
  <2>2. QED
    BY <2>1, <1>7 DEF Floor
<1>10. QED
  BY <1>1, <1>8, <1>9 DEF FloorIsSaved

LEMMA MarkExecute ==
  ASSUME HistoryInv, MarkIsSaved, ~AddressReuse,
         NEW c \in Command, NEW d \in Doc, ExecuteAndAdd(c, d)
  PROVE  MarkIsSaved' /\ (FloorIsSaved => FloorIsSaved')
<1>1. Done \in 0..Len(hist) /\ Len(hist) \in Nat /\ hist \in Seq(CommandObject)
  BY CursorFacts, LenProperties DEF HistoryInv, TypeOK
<1>2. PICK o \in {0, 1} : Appended(o, c, d)
  BY ExecuteMakes
<1>3. PICK n \in Nat : n = Done - o /\ (o = 1 <=> TooDeep)
  BY <1>2 DEF Appended
<1>4. /\ hist' \in Seq(CommandObject) /\ Len(hist') = n + 1
      /\ \A i \in 1..n : hist'[i] = hist[i + o] /\ i + o \in 1..Len(hist)
      /\ hist'[n + 1].addr = c /\ hist'[n + 1].before = doc
  BY <1>1, <1>2, <1>3 DEF Appended, NewCommand
<1>5. /\ c # notModifiedAt
      /\ notModifiedAt' = notModifiedAt /\ saved' = saved
      /\ wasCleared' = (wasCleared \/ TooDeep)
  BY DEF ExecuteAndAdd, Fresh
<1>6. MarkIsSaved'
  <2>1. ASSUME NEW i \in 1..(n + 1), hist'[i].addr = notModifiedAt
        PROVE  hist'[i].after = saved
    <3>1. i # n + 1
      BY <2>1, <1>4, <1>5
    <3>2. i \in 1..n
      BY <3>1, <1>3
    <3>3. QED
      BY <3>2, <2>1, <1>4 DEF MarkIsSaved
  <2>2. QED
    BY <2>1, <1>3, <1>4, <1>5 DEF MarkIsSaved
<1>7. ASSUME FloorIsSaved, ~wasCleared', notModifiedAt' = NULL PROVE Floor' = saved'
  <2>1. Floor = saved /\ o = 0 /\ n = Done
    <3>1. ~wasCleared /\ ~TooDeep /\ notModifiedAt = NULL
      BY <1>5, <1>7, Zenon
    <3>2. Floor = saved
      BY <3>1, <1>7 DEF FloorIsSaved
    <3>3. o = 0
      BY <3>1, <1>3
    <3>4. QED
      BY <3>2, <3>3, <1>1, <1>3
  <2>2. hist' # <<>> /\ Floor' = hist'[1].before
    <3>1. hist' # <<>>
      BY <1>3, <1>4, EmptySeq
    <3>2. QED
      BY <3>1 DEF Floor
  <2>3. CASE n = 0
    <3>1. Floor' = doc
      BY <2>2, <2>3, <1>4
    <3>2. Floor = doc
      <4>1. CASE hist = <<>>
        BY <4>1 DEF Floor
      <4>2. CASE hist # <<>>
        <5>1. 1 \in 1..Len(hist) /\ Done = 1 - 1
          BY <4>2, <2>1, <2>3, <1>1, EmptySeq
        <5>2. QED
          BY <4>2, <5>1 DEF Floor, HistoryInv, CommandsInContext
      <4>3. QED
        BY <4>1, <4>2
    <3>3. QED
      BY <3>1, <3>2, <2>1, <1>5
  <2>4. CASE n > 0
    <3>1. hist'[1] = hist[1] /\ hist # <<>>
      BY <2>1, <2>4, <1>1, <1>3, <1>4, EmptySeq
    <3>2. QED
      BY <3>1, <2>1, <2>2, <1>5 DEF Floor
  <2>5. QED
    BY <2>3, <2>4, <1>3
<1>8. QED
  BY <1>6, <1>7 DEF FloorIsSaved

\* Dropping the last command: the mark is not its, and the new last command,
\* which may have been rewritten, is not the marked one either.
LEMMA MarkDrop ==
  ASSUME HistoryInv, MarkIsSaved, NEW h, Shortened(h), DropLast(h), UNCHANGED saved
  PROVE  MarkIsSaved'
<1>1. PICK m \in Nat : m = Len(h) /\ m + 1 = Len(hist)
  BY LenProperties DEF Shortened, HistoryInv, TypeOK
<1>2. /\ hist' = h /\ h \in Seq(CommandObject)
      /\ \A i \in 1..m : h[i] \in CommandObject
      /\ \A i \in 1..m : i \in 1..Len(hist) /\ h[i].addr = hist[i].addr
      /\ \A i \in 1..m : i < m => h[i].after = hist[i].after
  BY <1>1 DEF DropLast, Shortened
<1>3. m > 0 => notModifiedAt' = IF notModifiedAt = h[m].addr THEN NULL ELSE notModifiedAt
  BY <1>1, <1>2, EmptySeq DEF DropLast
<1>4. ASSUME NEW i \in 1..m, h[i].addr = notModifiedAt' PROVE h[i].after = saved
  <2>1. h[i].addr # NULL
    BY <1>2, NullAssumption DEF CommandObject
  <2>2. notModifiedAt' = notModifiedAt /\ notModifiedAt # h[m].addr
    BY <2>1, <1>3, <1>4, <1>1
  <2>3. i < m /\ hist[i].addr = notModifiedAt
    BY <2>2, <1>1, <1>2, <1>4
  <2>4. QED
    BY <2>3, <1>2 DEF MarkIsSaved
<1>5. QED
  BY <1>1, <1>2, <1>4 DEF MarkIsSaved

LEMMA MarkRemove ==
  ASSUME HistoryInv, MarkIsSaved, RemoveLastCommand
  PROVE  MarkIsSaved'
<1>1. PICK h : Shortened(h) /\ DropLast(h)
  BY RemoveShortens
<1>2. QED
  BY <1>1, MarkDrop DEF RemoveLastCommand

LEMMA MarkMerge ==
  ASSUME HistoryInv, MarkIsSaved, MergeLastCommand
  PROVE  MarkIsSaved'
<1>1. PICK h : Shortened(h) /\ DropLast(h)
  BY MergeShortens
<1>2. QED
  BY <1>1, MarkDrop DEF MergeLastCommand

LEMMA MarkSave ==
  ASSUME HistoryInv, SetNotModified
  PROVE  MarkIsSaved' /\ FloorIsSaved'
<1>1. /\ Done \in 0..Len(hist) /\ Len(hist) \in Nat /\ hist \in Seq(CommandObject)
      /\ \A i \in 1..Len(hist) : hist[i] \in CommandObject
      /\ IsUndoPossible <=> Done > 0
  BY CursorFacts, LenProperties DEF HistoryInv, TypeOK
<1>2. /\ hist' = hist /\ doc' = doc /\ saved' = doc /\ notModifiedAt' = lastDone
  BY DEF SetNotModified
<1>3. \A i \in 1..Len(hist) : hist[i].addr = lastDone => hist[i].after = doc
  <2> TAKE i \in 1..Len(hist)
  <2> HAVE hist[i].addr = lastDone
  <2>1. Position(hist, hist[i].addr) = i
    BY <1>1, PositionOf DEF HistoryInv, DistinctCommands
  <2>2. Done = i
    BY <2>1 DEF Done
  <2>3. QED
    BY <2>2 DEF HistoryInv, CommandsInContext
<1>4. lastDone = NULL => Floor' = doc
  <2> HAVE lastDone = NULL
  <2>1. Done = 0
    BY <1>1 DEF IsUndoPossible
  <2>2. CASE hist = <<>>
    BY <2>2, <1>2 DEF Floor
  <2>3. CASE hist # <<>>
    <3>1. 1 \in 1..Len(hist) /\ Done = 1 - 1
      BY <2>1, <2>3, <1>1, EmptySeq
    <3>2. QED
      BY <3>1, <2>3, <1>2 DEF Floor, HistoryInv, CommandsInContext
  <2>4. QED
    BY <2>2, <2>3
<1>5. QED
  BY <1>2, <1>3, <1>4 DEF MarkIsSaved, FloorIsSaved

\* The cursor at the mark, and nothing trimmed: the document is the saved one.
LEMMA MarkMeansSaved ==
  ASSUME HistoryInv, MarkIsSaved, FloorIsSaved
  PROVE  UnmodifiedIsSaved
<1> SUFFICES ASSUME ~IsModified PROVE doc = saved
  BY DEF UnmodifiedIsSaved
<1>1. /\ Done \in 0..Len(hist) /\ hist \in Seq(CommandObject) /\ Len(hist) \in Nat
      /\ IsUndoPossible <=> Done > 0
  BY CursorFacts, LenProperties DEF HistoryInv, TypeOK
<1>2. CASE notModifiedAt = NULL
  <2>1. Done = 0 /\ Floor = saved
    BY <1>2, <1>1 DEF IsModified, IsUndoPossible, FloorIsSaved
  <2>2. CASE hist = <<>>
    BY <2>1, <2>2 DEF Floor
  <2>3. CASE hist # <<>>
    <3>1. 1 \in 1..Len(hist) /\ Done = 1 - 1
      BY <2>1, <2>3, <1>1, EmptySeq
    <3>2. QED
      BY <3>1, <2>1, <2>3 DEF Floor, HistoryInv, CommandsInContext
  <2>4. QED
    BY <2>2, <2>3
<1>3. CASE notModifiedAt # NULL
  <2>1. lastDone = notModifiedAt
    BY <1>3 DEF IsModified
  <2>2. Done \in 1..Len(hist) /\ hist[Done].addr = notModifiedAt
    BY <1>3, <2>1 DEF HistoryInv, ExecutedPrefix
  <2>3. doc = hist[Done].after /\ hist[Done].after = saved
    BY <2>2 DEF HistoryInv, CommandsInContext, MarkIsSaved
  <2>4. QED
    BY <2>3
<1>4. QED
  BY <1>2, <1>3

LEMMA MarkReopen == Reopen => MarkIsSaved' /\ FloorIsSaved'
<1> SUFFICES ASSUME Reopen PROVE MarkIsSaved' /\ FloorIsSaved'
  OBVIOUS
<1>1. hist' = <<>> /\ Len(hist') = 0 /\ doc' = saved /\ saved' = saved
  BY DEF Reopen
<1>2. QED
  BY <1>1 DEF MarkIsSaved, FloorIsSaved, Floor

\* The list and its counters always have their types.
THEOREM TypeCorrect == Spec => []TypeOK
<1>1. HistoryInv => TypeOK
  BY DEF HistoryInv
<1>2. QED
  BY <1>1, HistoryInvariant, PTL

\* Whatever addresses the allocator hands out again, no command is in the list
\* twice: an address names one command, which is deleted once.
THEOREM NamesAreDistinct == Spec => []DistinctCommands
<1>1. HistoryInv => DistinctCommands
  BY DEF HistoryInv
<1>2. QED
  BY <1>1, HistoryInvariant, PTL

\* undo() and redo() never meet a command in the wrong state: Command::execute
\* and Command::unexecute do not throw for that reason.
THEOREM CursorSplitsHistory == Spec => [](DistinctCommands /\ ExecutedPrefix)
<1>1. HistoryInv => DistinctCommands /\ ExecutedPrefix
  BY DEF HistoryInv
<1>2. QED
  BY <1>1, HistoryInvariant, PTL

\* Whatever was trimmed, cancelled or merged, a command is undone and redone
\* only in the document it was made for.
THEOREM HistoryIsAChain == Spec => []CommandsInContext
<1>1. HistoryInv => CommandsInContext
  BY DEF HistoryInv
<1>2. QED
  BY <1>1, HistoryInvariant, PTL

\* A limited history keeps at most one command more than its limit.
THEOREM HistoryIsBounded == Spec => []DepthBound
<1>1. HistoryInv => DepthBound
  BY DEF HistoryInv
<1>2. QED
  BY <1>1, HistoryInvariant, PTL

\* As long as the allocator does not give the marked address to another command,
\* the marked command, if it is still in the list, made the saved document.
THEOREM MarkPointsAtSaved == ~AddressReuse => (Spec => []MarkIsSaved)
<1> SUFFICES ASSUME ~AddressReuse PROVE Spec => []MarkIsSaved
  OBVIOUS
<1>1. Init => MarkIsSaved
  BY DEF Init, MarkIsSaved
<1>2. ASSUME HistoryInv, MarkIsSaved, [Next]_vars PROVE MarkIsSaved'
  <2>1. CASE \E c \in Command, d \in Doc : ExecuteAndAdd(c, d)
    BY <2>1, <1>2, MarkExecute
  <2>2. CASE Undo \/ Redo
    BY <2>2, <1>2, MarkUndoRedo
  <2>3. CASE RemoveLastCommand
    BY <2>3, <1>2, MarkRemove
  <2>4. CASE MergeLastCommand
    BY <2>4, <1>2, MarkMerge
  <2>5. CASE SetNotModified
    BY <2>5, <1>2, MarkSave
  <2>6. CASE Reopen
    BY <2>6, MarkReopen
  <2>7. CASE UNCHANGED vars
    BY <2>7, <1>2 DEF vars, MarkIsSaved
  <2>8. QED
    BY <2>1, <2>2, <2>3, <2>4, <2>5, <2>6, <2>7, <1>2 DEF Next
<1>3. QED
  BY <1>1, <1>2, HistoryInvariant, PTL DEF Spec

\* What the editor promises its user, as long as commands are neither merged
\* nor cancelled: a document that is not modified is the saved one.
THEOREM UnmodifiedMeansSaved ==
  (~AddressReuse /\ ~RewriteLast) => (Spec => []UnmodifiedIsSaved)
<1> SUFFICES ASSUME ~AddressReuse, ~RewriteLast PROVE Spec => []UnmodifiedIsSaved
  OBVIOUS
<1>1. Init => FloorIsSaved
  BY DEF Init, FloorIsSaved, Floor
<1>2. ASSUME HistoryInv, MarkIsSaved, FloorIsSaved, [Next]_vars PROVE FloorIsSaved'
  <2>1. CASE \E c \in Command, d \in Doc : ExecuteAndAdd(c, d)
    BY <2>1, <1>2, MarkExecute
  <2>2. CASE Undo \/ Redo
    BY <2>2, <1>2, MarkUndoRedo
  <2>3. CASE RemoveLastCommand \/ MergeLastCommand
    BY <2>3 DEF RemoveLastCommand, MergeLastCommand
  <2>4. CASE SetNotModified
    BY <2>4, <1>2, MarkSave
  <2>5. CASE Reopen
    BY <2>5, MarkReopen
  <2>6. CASE UNCHANGED vars
    BY <2>6, <1>2 DEF vars, FloorIsSaved, Floor
  <2>7. QED
    BY <2>1, <2>2, <2>3, <2>4, <2>5, <2>6, <1>2 DEF Next
<1>3. HistoryInv /\ MarkIsSaved /\ FloorIsSaved => UnmodifiedIsSaved
  BY MarkMeansSaved
<1>4. QED
  BY <1>1, <1>2, <1>3, HistoryInvariant, MarkPointsAtSaved, PTL DEF Spec
=============================================================================
