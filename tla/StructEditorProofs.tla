------------------------ MODULE StructEditorProofs ------------------------
(***************************************************************************)
(* Proofs about editing a text with the keyboard, for any characters, any   *)
(* length of text and of undo history. What is proved of the history on its *)
(* own is taken from CommandExecutorProofs, instantiated as StructEditor    *)
(* instantiates CommandExecutor.                                            *)
(***************************************************************************)
EXTENDS StructEditor, SequenceTheorems, TLAPS

HP == INSTANCE CommandExecutorRefinement WITH Doc <- Text, RewriteLast <- TRUE

\* The assumptions of the instance.
LEMMA Switches == AddressReuse \in BOOLEAN /\ TRUE \in BOOLEAN
BY SwitchAssumption

-----------------------------------------------------------------------------
\* Texts: inserting and removing characters.

LEMMA TextFacts ==
  /\ \A t \in Text : t # NoText => t \in Seq(Char) /\ Len(t) \in 0..MaxText
  /\ \A t \in Seq(Char) : Len(t) <= MaxText => t \in Text /\ t # NoText
<1> DEFINE S == UNION {[1..n -> Char] : n \in 0..MaxText}
<1>1. Text = S \cup {NoText} /\ NoText \notin S /\ MaxText \in Nat
  <2>1. Text = S \cup {NoText}
    BY Zenon DEF Text
  <2>2. NoText \notin S
    BY NoTextAssumption, Zenon
  <2>3. QED
    BY <2>1, <2>2, MaxTextAssumption
<1>2. ASSUME NEW t \in S PROVE t \in Seq(Char) /\ Len(t) \in 0..MaxText
  <2>1. PICK n \in 0..MaxText : t \in [1..n -> Char]
    OBVIOUS
  <2>2. t \in Seq(Char)
    BY <1>1, <2>1, SeqDef
  <2>3. Len(t) \in Nat /\ DOMAIN t = 1..Len(t) /\ DOMAIN t = 1..n
    BY <2>1, <2>2, LenProperties
  <2>4. Len(t) = n
    <3>1. n \in Nat
      BY MaxTextAssumption
    <3>2. PICK m \in Nat : m = Len(t) /\ 1..m = 1..n
      BY <2>3
    <3>3. (n > 0 => n \in 1..m) /\ (m > 0 => m \in 1..n)
      BY <3>1, <3>2
    <3>4. QED
      BY <3>1, <3>2, <3>3
  <2>5. QED
    BY <2>2, <2>4
<1>3. ASSUME NEW t \in Seq(Char), Len(t) <= MaxText PROVE t \in S
  <2>1. t \in [1..Len(t) -> Char] /\ Len(t) \in 0..MaxText
    BY <1>1, <1>3, LenProperties
  <2>2. QED
    BY <2>1
<1> HIDE DEF S
<1>4. QED
  BY <1>1, <1>2, <1>3

\* What is in a text after an insertion in it.
LEMMA InsertFacts ==
  ASSUME NEW t \in Seq(Char), NEW i \in 0..Len(t), NEW s \in Seq(Char)
  PROVE  /\ Insert(t, i, s) \in Seq(Char)
         /\ Len(Insert(t, i, s)) = Len(t) + Len(s)
         /\ \A j \in 1..(Len(t) + Len(s)) :
              Insert(t, i, s)[j] = IF j <= i THEN t[j]
                                   ELSE IF j <= i + Len(s) THEN s[j - i]
                                   ELSE t[j - Len(s)]
<1> DEFINE a == SubSeq(t, 1, i)
           z == SubSeq(t, i + 1, Len(t))
           as == a \o s
<1>1. Len(t) \in Nat /\ Len(s) \in Nat /\ i \in Nat
  BY LenProperties
<1>2. a \in Seq(Char) /\ Len(a) = i /\ \A j \in 1..i : a[j] = t[j]
  <2>1. \A j \in 1..i : t[j] \in Char
    BY <1>1, ElementOfSeq
  <2>2. /\ a \in Seq(Char) /\ Len(a) = IF 1 <= i THEN i - 1 + 1 ELSE 0
        /\ \A j \in 1..(i - 1 + 1) : a[j] = t[1 + j - 1]
    BY <1>1, <2>1, SubSeqProperties
  <2>3. QED
    BY <1>1, <2>2
<1>3. /\ z \in Seq(Char) /\ Len(z) = Len(t) - i
      /\ \A j \in 1..(Len(t) - i) : z[j] = t[j + i]
  <2>1. \A j \in (i + 1)..Len(t) : t[j] \in Char
    BY <1>1, ElementOfSeq
  <2>2. /\ z \in Seq(Char)
        /\ Len(z) = IF i + 1 <= Len(t) THEN Len(t) - (i + 1) + 1 ELSE 0
        /\ \A j \in 1..(Len(t) - (i + 1) + 1) : z[j] = t[(i + 1) + j - 1]
    BY <1>1, <2>1, SubSeqProperties
  <2>3. QED
    BY <1>1, <2>2
<1>4. Insert(t, i, s) = as \o z
  <2>1. Smaller(i, Len(t)) = i
    BY <1>1 DEF Smaller
  <2>2. QED
    BY <2>1, Zenon DEF Insert
<1> HIDE DEF a, z
<1>5. /\ as \in Seq(Char) /\ Len(as) = i + Len(s)
      /\ \A j \in 1..(i + Len(s)) : as[j] = IF j <= i THEN a[j] ELSE s[j - i]
  BY <1>2, ConcatProperties
<1> HIDE DEF as
<1>6. /\ as \o z \in Seq(Char) /\ Len(as \o z) = Len(as) + Len(z)
      /\ \A j \in 1..(Len(as) + Len(z)) :
           (as \o z)[j] = IF j <= Len(as) THEN as[j] ELSE z[j - Len(as)]
  BY <1>3, <1>5, ConcatProperties
<1>7. Len(as) + Len(z) = Len(t) + Len(s) /\ Len(as) = i + Len(s)
  BY <1>1, <1>3, <1>5
<1>8. ASSUME NEW j \in 1..(Len(t) + Len(s))
      PROVE  (as \o z)[j] = IF j <= i THEN t[j]
                            ELSE IF j <= i + Len(s) THEN s[j - i]
                            ELSE t[j - Len(s)]
  <2>1. CASE j <= i + Len(s)
    <3>1. (as \o z)[j] = as[j]
      BY <2>1, <1>6, <1>7
    <3>2. j \in 1..(i + Len(s)) /\ (j <= i => j \in 1..i)
      BY <2>1, <1>1
    <3>3. QED
      BY <2>1, <3>1, <3>2, <1>2, <1>5
  <2>2. CASE ~(j <= i + Len(s))
    <3>1. PICK k : k = j - (i + Len(s))
      OBVIOUS
    <3>2. k \in 1..(Len(t) - i) /\ k + i = j - Len(s) /\ ~(j <= i)
      BY <2>2, <3>1, <1>1
    <3>3. (as \o z)[j] = z[k]
      BY <2>2, <3>1, <1>6, <1>7
    <3>4. QED
      BY <2>2, <3>2, <3>3, <1>3
  <2>3. QED
    BY <2>1, <2>2
<1>9. QED
  BY <1>4, <1>6, <1>7, <1>8

\* What is in a text after a removal from it.
LEMMA RemoveFacts ==
  ASSUME NEW t \in Seq(Char), NEW i \in Nat, NEW n \in Nat, i + n <= Len(t)
  PROVE  /\ Remove(t, i, n) \in Seq(Char)
         /\ Len(Remove(t, i, n)) = Len(t) - n
         /\ \A j \in 1..(Len(t) - n) :
              Remove(t, i, n)[j] = IF j <= i THEN t[j] ELSE t[j + n]
<1> DEFINE a == SubSeq(t, 1, i)
           z == SubSeq(t, i + n + 1, Len(t))
<1>1. Len(t) \in Nat
  BY LenProperties
<1>2. a \in Seq(Char) /\ Len(a) = i /\ \A j \in 1..i : a[j] = t[j]
  <2>1. \A j \in 1..i : t[j] \in Char
    BY <1>1, ElementOfSeq
  <2>2. /\ a \in Seq(Char) /\ Len(a) = IF 1 <= i THEN i - 1 + 1 ELSE 0
        /\ \A j \in 1..(i - 1 + 1) : a[j] = t[1 + j - 1]
    BY <1>1, <2>1, SubSeqProperties
  <2>3. QED
    BY <1>1, <2>2
<1>3. /\ z \in Seq(Char) /\ Len(z) = Len(t) - (i + n)
      /\ \A j \in 1..(Len(t) - (i + n)) : z[j] = t[j + i + n]
  <2>1. \A j \in (i + n + 1)..Len(t) : t[j] \in Char
    BY <1>1, ElementOfSeq
  <2>2. /\ z \in Seq(Char)
        /\ Len(z) = IF i + n + 1 <= Len(t) THEN Len(t) - (i + n + 1) + 1 ELSE 0
        /\ \A j \in 1..(Len(t) - (i + n + 1) + 1) : z[j] = t[(i + n + 1) + j - 1]
    BY <1>1, <2>1, SubSeqProperties
  <2>3. QED
    BY <1>1, <2>2
<1>4. Remove(t, i, n) = a \o z
  <2>1. Smaller(i, Len(t)) = i
    BY <1>1 DEF Smaller
  <2>2. QED
    BY <2>1, Zenon DEF Remove
<1> HIDE DEF a, z
<1>5. /\ a \o z \in Seq(Char) /\ Len(a \o z) = i + (Len(t) - (i + n))
      /\ \A j \in 1..(i + (Len(t) - (i + n))) :
           (a \o z)[j] = IF j <= i THEN a[j] ELSE z[j - i]
  BY <1>2, <1>3, ConcatProperties
<1>6. i + (Len(t) - (i + n)) = Len(t) - n
  BY <1>1
<1>7. ASSUME NEW j \in 1..(Len(t) - n)
      PROVE  (a \o z)[j] = IF j <= i THEN t[j] ELSE t[j + n]
  <2>1. CASE j <= i
    BY <2>1, <1>1, <1>2, <1>5, <1>6
  <2>2. CASE ~(j <= i)
    <3>1. PICK k : k = j - i
      OBVIOUS
    <3>2. k \in 1..(Len(t) - (i + n)) /\ k + i + n = j + n
      BY <2>2, <3>1, <1>1
    <3>3. QED
      BY <2>2, <3>1, <3>2, <1>3, <1>5, <1>6
  <2>3. QED
    BY <2>1, <2>2
<1>8. QED
  BY <1>4, <1>5, <1>6, <1>7

\* Removing takes back what inserting put in.
LEMMA RemoveInserted ==
  ASSUME NEW t \in Seq(Char), NEW i \in 0..Len(t), NEW s \in Seq(Char)
  PROVE  Remove(Insert(t, i, s), i, Len(s)) = t
<1>1. Len(t) \in Nat /\ Len(s) \in Nat /\ i \in Nat
  BY LenProperties
<1>2. PICK x : x = Insert(t, i, s)
  OBVIOUS
<1>3. /\ x \in Seq(Char) /\ Len(x) = Len(t) + Len(s)
      /\ \A j \in 1..(Len(t) + Len(s)) :
           x[j] = IF j <= i THEN t[j]
                  ELSE IF j <= i + Len(s) THEN s[j - i] ELSE t[j - Len(s)]
  BY <1>2, InsertFacts
<1>4. PICK y : y = Remove(x, i, Len(s))
  OBVIOUS
<1>5. /\ y \in Seq(Char) /\ Len(y) = Len(x) - Len(s)
      /\ \A j \in 1..(Len(x) - Len(s)) :
           y[j] = IF j <= i THEN x[j] ELSE x[j + Len(s)]
  <2>1. PICK n \in Nat : n = Len(s) /\ i + n <= Len(x)
    BY <1>1, <1>3
  <2>2. y = Remove(x, i, n) /\ x \in Seq(Char) /\ i \in Nat /\ i + n <= Len(x)
    BY <2>1, <1>1, <1>3, <1>4
  <2>3. /\ Remove(x, i, n) \in Seq(Char) /\ Len(Remove(x, i, n)) = Len(x) - n
        /\ \A j \in 1..(Len(x) - n) :
             Remove(x, i, n)[j] = IF j <= i THEN x[j] ELSE x[j + n]
    <3> HIDE <1>3, <1>4
    <3>1. QED
      BY <2>2, RemoveFacts
  <2>4. QED
    BY <2>1, <2>2, <2>3
<1>6. Len(y) = Len(t)
  BY <1>1, <1>3, <1>5
<1>7. ASSUME NEW j \in 1..Len(t) PROVE y[j] = t[j]
  <2>1. CASE j <= i
    <3>1. j \in 1..(Len(t) + Len(s)) /\ j \in 1..(Len(x) - Len(s))
      BY <1>1, <1>3
    <3>2. y[j] = x[j] /\ x[j] = t[j]
      BY <3>1, <2>1, <1>3, <1>5
    <3>3. QED
      BY <3>2
  <2>2. CASE ~(j <= i)
    <3>1. PICK k : k = j + Len(s)
      OBVIOUS
    <3>2. k \in 1..(Len(t) + Len(s)) /\ ~(k <= i + Len(s)) /\ k - Len(s) = j /\ ~(k <= i)
      BY <2>2, <3>1, <1>1
    <3>3. y[j] = x[k]
      BY <2>2, <3>1, <1>1, <1>3, <1>5
    <3>4. QED
      BY <3>2, <3>3, <1>3
  <2>3. QED
    BY <2>1, <2>2
<1>8. y = t
  BY <1>5, <1>6, <1>7, SeqEqual
<1>9. QED
  BY <1>2, <1>4, <1>8

\* Inserting puts back what was removed.
LEMMA InsertRemoved ==
  ASSUME NEW t \in Seq(Char), NEW i \in Nat, i < Len(t)
  PROVE  Insert(Remove(t, i, 1), i, <<t[i + 1]>>) = t
<1>1. Len(t) \in Nat /\ i + 1 \in 1..Len(t)
  BY LenProperties
<1>2. PICK s : s = <<t[i + 1]>>
  OBVIOUS
<1>3. s \in Seq(Char) /\ Len(s) = 1 /\ s[1] = t[i + 1]
  BY <1>1, <1>2, ElementOfSeq
<1>4. PICK x : x = Remove(t, i, 1)
  OBVIOUS
<1>5. /\ x \in Seq(Char) /\ Len(x) = Len(t) - 1
      /\ \A j \in 1..(Len(t) - 1) : x[j] = IF j <= i THEN t[j] ELSE t[j + 1]
  <2>1. PICK n \in Nat : n = 1 /\ i + n <= Len(t)
    BY <1>1
  <2>2. /\ Remove(t, i, n) \in Seq(Char) /\ Len(Remove(t, i, n)) = Len(t) - n
        /\ \A j \in 1..(Len(t) - n) :
             Remove(t, i, n)[j] = IF j <= i THEN t[j] ELSE t[j + n]
    BY <2>1, RemoveFacts
  <2>3. QED
    BY <2>1, <2>2, <1>4
<1>6. PICK y : y = Insert(x, i, s)
  OBVIOUS
<1>7. /\ y \in Seq(Char) /\ Len(y) = Len(t)
      /\ \A j \in 1..Len(t) :
           y[j] = IF j <= i THEN x[j] ELSE IF j <= i + 1 THEN s[j - i] ELSE x[j - 1]
  <2>1. i \in 0..Len(x) /\ Len(x) + Len(s) = Len(t)
    BY <1>1, <1>3, <1>5
  <2>2. /\ y \in Seq(Char) /\ Len(y) = Len(x) + Len(s)
        /\ \A j \in 1..(Len(x) + Len(s)) :
             y[j] = IF j <= i THEN x[j]
                    ELSE IF j <= i + Len(s) THEN s[j - i] ELSE x[j - Len(s)]
    BY <2>1, <1>3, <1>5, <1>6, InsertFacts
  <2>3. QED
    BY <2>1, <2>2, <1>3
<1>8. ASSUME NEW j \in 1..Len(t) PROVE y[j] = t[j]
  <2>1. CASE j <= i
    <3>1. j \in 1..(Len(t) - 1)
      BY <2>1, <1>1
    <3>2. y[j] = x[j] /\ x[j] = t[j]
      BY <2>1, <3>1, <1>5, <1>7
    <3>3. QED
      BY <3>2
  <2>2. CASE j = i + 1
    <3>1. ~(j <= i) /\ j <= i + 1 /\ j - i = 1
      BY <2>2, <1>1
    <3>2. y[j] = s[1]
      BY <3>1, <1>7
    <3>3. QED
      BY <2>2, <3>2, <1>3
  <2>3. CASE j > i + 1
    <3>1. PICK k : k = j - 1
      OBVIOUS
    <3>2. k \in 1..(Len(t) - 1) /\ ~(k <= i) /\ k + 1 = j /\ ~(j <= i) /\ ~(j <= i + 1)
      BY <2>3, <3>1, <1>1
    <3>3. y[j] = x[k]
      BY <3>1, <3>2, <1>7
    <3>4. x[k] = t[k + 1]
      BY <3>2, <1>5
    <3>5. QED
      BY <3>2, <3>3, <3>4
  <2>4. QED
    BY <2>1, <2>2, <2>3, <1>1
<1>9. y = t
  BY <1>7, <1>8, SeqEqual
<1>10. QED
  BY <1>2, <1>4, <1>6, <1>9

\* What is typed on where the last insertion ended is one insertion with it.
LEMMA InsertsJoin ==
  ASSUME NEW t \in Seq(Char), NEW i \in 0..Len(t),
         NEW s \in Seq(Char), NEW u \in Seq(Char)
  PROVE  Insert(Insert(t, i, s), i + Len(s), u) = Insert(t, i, s \o u)
<1>1. Len(t) \in Nat /\ Len(s) \in Nat /\ Len(u) \in Nat /\ i \in Nat
  BY LenProperties
<1>2. PICK a, b, c, su : /\ a = Insert(t, i, s) /\ b = Insert(a, i + Len(s), u)
                         /\ su = s \o u /\ c = Insert(t, i, su)
  OBVIOUS
<1>3. /\ su \in Seq(Char) /\ Len(su) = Len(s) + Len(u)
      /\ \A j \in 1..(Len(s) + Len(u)) :
           su[j] = IF j <= Len(s) THEN s[j] ELSE u[j - Len(s)]
  BY <1>2, ConcatProperties
<1>4. /\ a \in Seq(Char) /\ Len(a) = Len(t) + Len(s)
      /\ \A j \in 1..(Len(t) + Len(s)) :
           a[j] = IF j <= i THEN t[j]
                  ELSE IF j <= i + Len(s) THEN s[j - i] ELSE t[j - Len(s)]
  BY <1>2, InsertFacts
<1>5. PICK k : k = i + Len(s)
  OBVIOUS
<1>6. /\ b \in Seq(Char) /\ Len(b) = Len(a) + Len(u)
      /\ \A j \in 1..(Len(a) + Len(u)) :
           b[j] = IF j <= k THEN a[j]
                  ELSE IF j <= k + Len(u) THEN u[j - k] ELSE a[j - Len(u)]
  <2>1. k \in 0..Len(a) /\ b = Insert(a, k, u)
    BY <1>1, <1>2, <1>4, <1>5
  <2>2. QED
    BY <2>1, <1>4, InsertFacts
<1>7. /\ c \in Seq(Char) /\ Len(c) = Len(t) + Len(su)
      /\ \A j \in 1..(Len(t) + Len(su)) :
           c[j] = IF j <= i THEN t[j]
                  ELSE IF j <= i + Len(su) THEN su[j - i] ELSE t[j - Len(su)]
  <2>1. c = Insert(t, i, su) /\ su \in Seq(Char)
    BY <1>2, <1>3
  <2>2. QED
    BY <2>1, InsertFacts
<1>8. PICK n \in Nat : n = Len(t) + Len(s) + Len(u) /\ Len(b) = n /\ Len(c) = n
  <2>1. /\ Len(b) = Len(t) + Len(s) + Len(u)
        /\ Len(c) = Len(t) + (Len(s) + Len(u))
    BY <1>3, <1>4, <1>6, <1>7
  <2>2. QED
    BY <2>1, <1>1
<1>9. ASSUME NEW j \in 1..n PROVE b[j] = c[j]
  <2>1. j \in 1..(Len(a) + Len(u)) /\ j \in 1..(Len(t) + Len(su))
    BY <1>1, <1>3, <1>4, <1>8
  <2>2. CASE j <= i
    <3>1. b[j] = a[j] /\ a[j] = t[j]
      BY <2>1, <2>2, <1>1, <1>4, <1>5, <1>6
    <3>2. QED
      BY <2>1, <2>2, <3>1, <1>7
  <2>3. CASE i < j /\ j <= k
    <3>1. b[j] = a[j] /\ a[j] = s[j - i]
      BY <2>1, <2>3, <1>1, <1>4, <1>5, <1>6
    <3>2. PICK m : m = j - i
      OBVIOUS
    <3>3. m \in 1..(Len(s) + Len(u)) /\ m <= Len(s) /\ j <= i + Len(su) /\ ~(j <= i)
      BY <2>3, <3>2, <1>1, <1>3, <1>5
    <3>4. c[j] = su[m] /\ su[m] = s[m]
      BY <2>1, <3>2, <3>3, <1>3, <1>7
    <3>5. QED
      BY <3>1, <3>2, <3>4
  <2>4. CASE k < j /\ j <= k + Len(u)
    <3>1. b[j] = u[j - k]
      <4>1. ~(j <= k)
        BY <2>4, <1>1, <1>5
      <4>2. QED
        BY <2>1, <2>4, <4>1, <1>6
    <3>2. PICK m : m = j - i
      OBVIOUS
    <3>3. /\ m \in 1..(Len(s) + Len(u)) /\ ~(m <= Len(s)) /\ m - Len(s) = j - k
          /\ j <= i + Len(su) /\ ~(j <= i)
      BY <2>4, <3>2, <1>1, <1>3, <1>5
    <3>4. c[j] = su[m] /\ su[m] = u[m - Len(s)]
      BY <2>1, <3>2, <3>3, <1>3, <1>7
    <3>5. QED
      BY <3>1, <3>3, <3>4
  <2>5. CASE k + Len(u) < j
    <3>1. PICK m : m = j - Len(u)
      OBVIOUS
    <3>2. /\ m \in 1..(Len(t) + Len(s)) /\ ~(m <= i) /\ ~(m <= i + Len(s))
          /\ m - Len(s) = j - Len(su) /\ ~(j <= i) /\ ~(j <= i + Len(su))
          /\ ~(j <= k) /\ ~(j <= k + Len(u))
      BY <2>5, <3>1, <1>1, <1>3, <1>5, <1>8
    <3>3. b[j] = a[m] /\ a[m] = t[m - Len(s)]
      BY <2>1, <3>1, <3>2, <1>4, <1>6
    <3>4. c[j] = t[j - Len(su)]
      BY <2>1, <3>2, <1>7
    <3>5. QED
      BY <3>2, <3>3, <3>4
  <2>6. QED
    BY <2>2, <2>3, <2>4, <2>5, <1>1, <1>5
<1>10. b = c
  BY <1>6, <1>7, <1>8, <1>9, SeqEqual
<1>11. QED
  BY <1>2, <1>10

\* An index beyond the end stands for the end.
LEMMA InsertLength ==
  ASSUME NEW t \in Seq(Char), NEW i \in Nat, NEW s \in Seq(Char)
  PROVE  Insert(t, i, s) \in Seq(Char) /\ Len(Insert(t, i, s)) = Len(t) + Len(s)
<1>1. Len(t) \in Nat /\ Len(s) \in Nat
  BY LenProperties
<1>2. CASE i <= Len(t)
  <2>1. i \in 0..Len(t)
    BY <1>1, <1>2
  <2>2. QED
    BY <2>1, InsertFacts
<1>3. CASE ~(i <= Len(t))
  <2> DEFINE a == SubSeq(t, 1, Len(t))
             z == SubSeq(t, i + 1, Len(t))
  <2>1. Insert(t, i, s) = a \o s \o z
    <3>1. Smaller(i, Len(t)) = Len(t)
      BY <1>1, <1>3 DEF Smaller
    <3>2. QED
      BY <3>1, Zenon DEF Insert
  <2>2. a \in Seq(Char) /\ Len(a) = Len(t)
    <3>1. \A j \in 1..Len(t) : t[j] \in Char
      BY <1>1, ElementOfSeq
    <3>2. a \in Seq(Char) /\ Len(a) = IF 1 <= Len(t) THEN Len(t) - 1 + 1 ELSE 0
      BY <1>1, <3>1, SubSeqProperties
    <3>3. QED
      BY <1>1, <3>2
  <2>3. z \in Seq(Char) /\ Len(z) = 0
    <3>1. \A j \in (i + 1)..Len(t) : t[j] \in Char
      BY <1>1, <1>3
    <3>2. /\ z \in Seq(Char)
          /\ Len(z) = IF i + 1 <= Len(t) THEN Len(t) - (i + 1) + 1 ELSE 0
      BY <1>1, <3>1, SubSeqProperties
    <3>3. QED
      BY <1>1, <1>3, <3>2
  <2> HIDE DEF a, z
  <2>4. a \o s \in Seq(Char) /\ Len(a \o s) = Len(a) + Len(s)
    BY <2>2, ConcatProperties
  <2>5. /\ (a \o s) \o z \in Seq(Char)
        /\ Len((a \o s) \o z) = Len(a \o s) + Len(z)
    BY <2>3, <2>4, ConcatProperties
  <2>6. QED
    BY <1>1, <2>1, <2>2, <2>3, <2>4, <2>5
<1>4. QED
  BY <1>2, <1>3

-----------------------------------------------------------------------------
\* The two instances of the history are one.

LEMMA SameStates ==
  /\ History!TypeOK <=> HP!TypeOK
  /\ History!Done = HP!Done /\ History!Done' = HP!Done'
  /\ History!IsModified <=> HP!IsModified
  /\ History!IsRedoPossible <=> HP!IsRedoPossible
  /\ History!Init <=> HP!Init
<1>1. History!TypeOK <=> HP!TypeOK
  BY DEF History!TypeOK, HP!TypeOK, History!CommandObject, HP!CommandObject,
         History!Pointer, HP!Pointer
<1>2. History!Done = HP!Done /\ History!Done' = HP!Done'
  BY DEF History!Done, HP!Done, History!Position, HP!Position
<1>3. History!IsModified <=> HP!IsModified
  BY DEF History!IsModified, HP!IsModified
<1>4. History!IsRedoPossible <=> HP!IsRedoPossible
  BY DEF History!IsRedoPossible, HP!IsRedoPossible, History!LastChild, HP!LastChild
<1>5. History!Init <=> HP!Init
  BY DEF History!Init, HP!Init
<1>6. QED
  BY <1>1, <1>2, <1>3, <1>4, <1>5

LEMMA SameExecute ==
  ASSUME NEW c, NEW d
  PROVE  History!ExecuteAndAdd(c, d) <=> HP!ExecuteAndAdd(c, d)
<1>1. History!WithoutRedo = HP!WithoutRedo
  BY SameStates DEF History!WithoutRedo, HP!WithoutRedo
<1>2. (History!TooDeep <=> HP!TooDeep) /\ History!Fresh = HP!Fresh
  BY <1>1 DEF History!TooDeep, HP!TooDeep, History!Fresh, HP!Fresh
<1>3. QED
  BY <1>1, <1>2 DEF History!ExecuteAndAdd, HP!ExecuteAndAdd

LEMMA SameSteps ==
  /\ History!Undo <=> HP!Undo
  /\ History!Redo <=> HP!Redo
  /\ History!RemoveLastCommand <=> HP!RemoveLastCommand
  /\ History!MergeLastCommand <=> HP!MergeLastCommand
  /\ History!SetNotModified <=> HP!SetNotModified
<1>1. History!Undo <=> HP!Undo
  BY SameStates DEF History!Undo, HP!Undo, History!IsUndoPossible, HP!IsUndoPossible
<1>2. History!Redo <=> HP!Redo
  BY SameStates DEF History!Redo, HP!Redo
<1>3. \A h : History!DropLast(h) <=> HP!DropLast(h)
  BY DEF History!DropLast, HP!DropLast, History!LastChild, HP!LastChild
<1>4. History!RemoveLastCommand <=> HP!RemoveLastCommand
  BY <1>3, SameStates DEF History!RemoveLastCommand, HP!RemoveLastCommand
<1>5. History!MergeLastCommand <=> HP!MergeLastCommand
  BY <1>3, SameStates DEF History!MergeLastCommand, HP!MergeLastCommand
<1>6. History!SetNotModified <=> HP!SetNotModified
  BY DEF History!SetNotModified, HP!SetNotModified
<1>7. QED
  BY <1>1, <1>2, <1>4, <1>5, <1>6

-----------------------------------------------------------------------------
(***************************************************************************)
(* Where the event handler is, and what it finds there.  This holds of any  *)
(* editor, whatever comes between two keys: the cursor may be anywhere.     *)
(***************************************************************************)

\* An object of any length, at any place.
WideObject ==
  [kind : {"InsertText", "InsertTextNode", "RemoveText"},
   pos : Nat, text : Seq(Char), messages : {"none", "prev", "my"}]

\* Every command of the list has its object, and leaves a text.
ObjectsOK ==
  /\ DOMAIN object \subseteq Command
  /\ \A c \in DOMAIN object : object[c] \in WideObject
  /\ \A i \in 1..Len(hist) : hist[i].addr \in DOMAIN object /\ hist[i].after # NoText

LocalsOK ==
  /\ cursor \in Nat /\ oldCursor \in Nat
  /\ continueText \in BOOLEAN /\ merging \in BOOLEAN /\ forceModified \in BOOLEAN
  /\ validation \in 0..2
  /\ pc \in {"idle", "view", "redone", "remove", "merge"}

\* What the handler has just done is the last thing done.
PlaceOK ==
  /\ pc \in {"view", "redone"} => HP!Done > 0
  /\ pc \in {"view", "merge"} => HP!Done = Len(hist)
  /\ pc = "remove" => HP!Done = Len(hist) - 1
  /\ pc = "redone" => ~merging
  /\ pc = "merge" => merging

EditInv == HP!HistoryInv /\ ObjectsOK /\ LocalsOK /\ PlaceOK

LEMMA HistoryFacts ==
  ASSUME EditInv
  PROVE  /\ HP!Done \in 0..Len(hist) /\ Len(hist) \in Nat
         /\ HP!IsRedoPossible <=> HP!Done < Len(hist)
         /\ lastDone # NULL <=> HP!Done > 0
         /\ HP!Done > 0 => hist[HP!Done].addr = lastDone /\ hist[HP!Done].after = doc
         /\ \A i \in 1..Len(hist) :
              /\ hist[i].addr \in Command
              /\ hist[i].before \in Text /\ hist[i].after \in Text
         /\ \A i, j \in 1..Len(hist) : hist[i].addr = hist[j].addr => i = j
         /\ doc \in Text
<1>1. HP!HistoryInv
  BY DEF EditInv
<1>2. /\ HP!Done \in 0..Len(hist)
      /\ HP!IsUndoPossible <=> HP!Done > 0
      /\ HP!IsRedoPossible <=> HP!Done < Len(hist)
      /\ \A i \in 1..Len(hist) : hist[i] \in HP!CommandObject
  BY <1>1, HP!CursorFacts, NullAssumption, LimitAssumption, Switches
<1>3. Len(hist) \in Nat /\ doc \in Text
  BY <1>1, LenProperties DEF HP!HistoryInv, HP!TypeOK
<1>4. \A i, j \in 1..Len(hist) : hist[i].addr = hist[j].addr => i = j
  BY <1>1 DEF HP!HistoryInv, HP!DistinctCommands, HP!NoDuplicates
<1>5. HP!Done > 0 => hist[HP!Done].addr = lastDone /\ hist[HP!Done].after = doc
  BY <1>1, <1>2 DEF HP!HistoryInv, HP!ExecutedPrefix, HP!CommandsInContext,
                    HP!IsUndoPossible
<1>6. \A i \in 1..Len(hist) : /\ hist[i].addr \in Command
                              /\ hist[i].before \in Text /\ hist[i].after \in Text
  BY <1>2 DEF HP!CommandObject
<1>7. lastDone # NULL <=> HP!Done > 0
  BY <1>2 DEF HP!IsUndoPossible
<1>8. QED
  BY <1>2, <1>3, <1>4, <1>5, <1>6, <1>7

\* The object of the command just done.
LEMMA LastFacts ==
  ASSUME EditInv, HP!Done > 0
  PROVE  lastDone \in DOMAIN object /\ LastObject \in WideObject /\ doc # NoText
<1>1. HP!Done \in 1..Len(hist) /\ hist[HP!Done].addr = lastDone /\ hist[HP!Done].after = doc
  BY HistoryFacts
<1>2. QED
  BY <1>1 DEF EditInv, ObjectsOK, LastObject

LEMMA PosIsNat ==
  ASSUME NEW o \in WideObject
  PROVE  PosAfter(o) \in Nat /\ PosBefore(o) \in Nat
<1>1. o.pos \in Nat /\ Len(o.text) \in Nat
  BY LenProperties DEF WideObject
<1>2. QED
  BY <1>1 DEF PosAfter, PosBefore

\* Undo and redo change no command.
LEMMA UndoFacts ==
  ASSUME EditInv, History!Undo
  PROVE  /\ HP!HistoryInv' /\ HP!SameCommands
         /\ HP!Done \in 1..Len(hist) /\ HP!Done' = HP!Done - 1
         /\ hist[HP!Done].addr = lastDone
         /\ doc = hist[HP!Done].after /\ doc' = hist[HP!Done].before
<1>1. HP!HistoryInv /\ HP!Undo
  BY SameSteps DEF EditInv
<1>2. QED
  BY <1>1, HP!UndoMoves, NullAssumption, LimitAssumption, Switches

LEMMA RedoFacts ==
  ASSUME EditInv, History!Redo
  PROVE  /\ HP!HistoryInv' /\ HP!SameCommands
         /\ HP!Done + 1 \in 1..Len(hist) /\ HP!Done' = HP!Done + 1
         /\ hist[HP!Done + 1].addr = lastDone'
         /\ doc = hist[HP!Done + 1].before /\ doc' = hist[HP!Done + 1].after
<1>1. HP!HistoryInv /\ HP!Redo
  BY SameSteps DEF EditInv
<1>2. QED
  BY <1>1, HP!RedoMoves, NullAssumption, LimitAssumption, Switches

LEMMA SameObjects ==
  ASSUME ObjectsOK, HP!SameCommands, UNCHANGED object
  PROVE  ObjectsOK'
<1>1. /\ Len(hist') = Len(hist)
      /\ \A i \in 1..Len(hist) : hist'[i].addr = hist[i].addr
                                 /\ hist'[i].after = hist[i].after
  BY DEF HP!SameCommands
<1>2. QED
  BY <1>1 DEF ObjectsOK

\* The command d is dropped from the end of the list, or the last two are one.
LEMMA DropFacts ==
  ASSUME EditInv, NEW h, HP!Shortened(h), HP!DropLast(h),
         UNCHANGED <<wasCleared, doc, saved>>
  PROVE  /\ HP!HistoryInv' /\ hist' = h
         /\ Len(hist) >= 1 /\ Len(h) = Len(hist) - 1
         /\ HP!Done' = IF HP!Done < Len(hist) THEN HP!Done ELSE Len(h)
         /\ \A i \in 1..Len(h) : /\ h[i].addr = hist[i].addr
                                 /\ h[i].before = hist[i].before
                                 /\ i < Len(h) => h[i].after = hist[i].after
         /\ Len(h) > 0 => h[Len(h)].after = IF HP!Done < Len(hist)
                                            THEN hist[Len(h)].after
                                            ELSE hist[Len(hist)].after
<1>1. HP!HistoryInv' /\ HP!Done' = IF HP!IsRedoPossible THEN HP!Done ELSE Len(h)
  <2>1. HP!HistoryInv
    BY DEF EditInv
  <2>2. QED
    BY <2>1, HP!DropKeeps, NullAssumption, LimitAssumption, Switches
<1>2. HP!IsRedoPossible <=> HP!Done < Len(hist)
  BY HistoryFacts
<1>3. hist' = h
  BY DEF HP!DropLast
<1>4. QED
  BY <1>1, <1>2, <1>3 DEF HP!Shortened

LEMMA CancelFacts ==
  ASSUME EditInv, History!RemoveLastCommand
  PROVE  \E h : HP!Shortened(h) /\ HP!DropLast(h) /\ UNCHANGED <<wasCleared, doc, saved>>
<1>1. HP!HistoryInv /\ HP!RemoveLastCommand
  BY SameSteps DEF EditInv
<1>2. \E h : HP!Shortened(h) /\ HP!DropLast(h)
  BY <1>1, HP!RemoveShortens, NullAssumption, LimitAssumption, Switches
<1>3. QED
  BY <1>1, <1>2 DEF HP!RemoveLastCommand

LEMMA MergeFacts ==
  ASSUME EditInv, History!MergeLastCommand
  PROVE  \E h : HP!Shortened(h) /\ HP!DropLast(h) /\ UNCHANGED <<wasCleared, doc, saved>>
<1>1. HP!HistoryInv /\ HP!MergeLastCommand
  BY SameSteps DEF EditInv
<1>2. \E h : HP!Shortened(h) /\ HP!DropLast(h)
  BY <1>1, HP!MergeShortens, NullAssumption, LimitAssumption, Switches
<1>3. QED
  BY <1>1, <1>2 DEF HP!MergeLastCommand

\* A list one shorter has its objects if the last one left leaves a text.
LEMMA FewerObjects ==
  ASSUME EditInv, NEW h, HP!Shortened(h), HP!DropLast(h),
         UNCHANGED <<wasCleared, doc, saved>>,
         DOMAIN object' = DOMAIN object,
         \A c \in DOMAIN object : object'[c] \in WideObject
  PROVE  ObjectsOK'
<1>1. /\ hist' = h
      /\ Len(hist) >= 1 /\ Len(h) = Len(hist) - 1 /\ Len(hist) \in Nat
      /\ \A i \in 1..Len(h) : /\ h[i].addr = hist[i].addr
                              /\ i < Len(h) => h[i].after = hist[i].after
      /\ Len(h) > 0 => h[Len(h)].after \in {hist[Len(h)].after, hist[Len(hist)].after}
  BY DropFacts, HistoryFacts
<1>2. ASSUME NEW i \in 1..Len(h)
      PROVE  h[i].addr \in DOMAIN object /\ h[i].after # NoText
  <2>1. i \in 1..Len(hist) /\ Len(hist) \in 1..Len(hist)
    BY <1>1
  <2>2. hist[i].addr \in DOMAIN object /\ hist[i].after # NoText /\ hist[Len(hist)].after # NoText
    BY <2>1 DEF EditInv, ObjectsOK
  <2>3. CASE i < Len(h)
    BY <2>2, <2>3, <1>1
  <2>4. CASE i = Len(h)
    BY <2>2, <2>4, <1>1
  <2>5. QED
    BY <2>3, <2>4, <1>1
<1>3. QED
  BY <1>1, <1>2 DEF EditInv, ObjectsOK

-----------------------------------------------------------------------------
\* A key: the command it makes, and the list with that command at its end.

\* The done commands, the first k of them dropped, and the command c that makes d.
NewList(c, d, k) ==
  /\ k \in {0, 1} /\ HP!Done - k \in Nat
  /\ Len(hist') = HP!Done - k + 1 /\ HP!Done' = HP!Done - k + 1
  /\ \A i \in 1..(HP!Done - k) : hist'[i] = hist[i + k] /\ i + k \in 1..HP!Done
  /\ hist'[HP!Done - k + 1].addr = c /\ lastDone' = c
  /\ \A i \in 1..Len(hist) : hist[i].addr # c
  /\ hist'[HP!Done - k + 1].before = doc
  /\ hist'[HP!Done - k + 1].after = d
  /\ doc' = d

LEMMA NewListFacts ==
  ASSUME EditInv, NEW c \in Command, NEW d \in Text, History!ExecuteAndAdd(c, d)
  PROVE  /\ HP!HistoryInv' /\ HP!ExecuteAndAdd(c, d)
         /\ \E k \in {0, 1} : NewList(c, d, k)
<1>1. HP!HistoryInv /\ HP!ExecuteAndAdd(c, d)
  BY SameExecute DEF EditInv
<1>2. HP!HistoryInv' /\ HP!Done' = Len(hist')
  BY <1>1, HP!ExecuteMoves, NullAssumption, LimitAssumption, Switches
<1>3. \E k \in {0, 1} : HP!Appended(k, c, d)
  BY <1>1, HP!ExecuteMakes, NullAssumption, LimitAssumption, Switches
<1>4. PICK k \in {0, 1} : HP!Appended(k, c, d)
  BY <1>3
<1>5. /\ HP!Done \in 0..Len(hist) /\ Len(hist) \in Nat
      /\ doc' = d /\ lastDone' = c
      /\ \A i \in 1..Len(hist) : hist[i].addr # c
  BY <1>1, HistoryFacts DEF HP!ExecuteAndAdd, HP!Fresh
<1>6. NewList(c, d, k)
  BY <1>2, <1>4, <1>5 DEF HP!Appended, HP!NewCommand, NewList
<1>7. QED
  BY <1>1, <1>2, <1>6

\* The object that a key makes.
Keyed(o) ==
  /\ o \in WideObject /\ o.pos = cursor
  /\ \/ /\ o.kind = "InsertTextNode" /\ doc = NoText
        /\ Len(o.text) = 1
     \/ /\ o.kind = "InsertText" /\ doc # NoText /\ Len(doc) < MaxText
        /\ Len(o.text) = 1
     \/ /\ o.kind = "RemoveText" /\ doc # NoText /\ cursor < Len(doc)
        /\ o.text = <<doc[cursor + 1]>>
  /\ IF o.kind = "RemoveText"
       THEN merging' = FALSE /\ continueText' = FALSE
       ELSE merging' = continueText /\ continueText' = TRUE

LEMMA KeyedBy ==
  ASSUME EditInv, (\E x \in Char : Type(x)) \/ Delete
  PROVE  \E o : Keyed(o) /\ Start(o)
<1>1. cursor \in Nat /\ doc \in Text /\ Messages \subseteq {"none", "prev", "my"}
  BY HistoryFacts DEF EditInv, LocalsOK, Messages
<1>2. CASE \E x \in Char : Type(x)
  <2>1. PICK x \in Char : Type(x)
    BY <1>2
  <2>2. PICK m \in Messages :
          Start([kind |-> IF doc = NoText THEN "InsertTextNode" ELSE "InsertText",
                 pos |-> cursor, text |-> <<x>>, messages |-> m])
    BY <2>1 DEF Type
  <2>3. PICK o : o = [kind |-> IF doc = NoText THEN "InsertTextNode" ELSE "InsertText",
                      pos |-> cursor, text |-> <<x>>, messages |-> m]
    OBVIOUS
  <2>4. /\ o.kind = (IF doc = NoText THEN "InsertTextNode" ELSE "InsertText")
        /\ o.pos = cursor /\ o.text = <<x>>
    BY <2>3
  <2>5. o \in WideObject
    BY <1>1, <2>3 DEF WideObject
  <2>6. Len(o.text) = 1
    BY <2>4
  <2>7. Keyed(o)
    <3>1. doc # NoText => Len(doc) < MaxText
      BY <2>1 DEF Type
    <3>2. merging' = continueText /\ continueText' = TRUE
      BY <2>1 DEF Type
    <3>3. QED
      BY <2>4, <2>5, <2>6, <3>1, <3>2 DEF Keyed
  <2>8. QED
    BY <2>2, <2>3, <2>7
<1>3. CASE Delete
  <2>1. PICK m \in Messages :
          Start([kind |-> "RemoveText", pos |-> cursor,
                 text |-> <<doc[cursor + 1]>>, messages |-> m])
    BY <1>3 DEF Delete
  <2>2. PICK o : o = [kind |-> "RemoveText", pos |-> cursor,
                      text |-> <<doc[cursor + 1]>>, messages |-> m]
    OBVIOUS
  <2>3. o.kind = "RemoveText" /\ o.pos = cursor /\ o.text = <<doc[cursor + 1]>>
    BY <2>2
  <2>4. doc # NoText /\ cursor < Len(doc)
    BY <1>3 DEF Delete
  <2>5. doc[cursor + 1] \in Char
    <3>1. doc \in Seq(Char)
      BY <1>1, <2>4, TextFacts
    <3>2. cursor + 1 \in 1..Len(doc)
      BY <1>1, <2>4, <3>1, LenProperties
    <3>3. QED
      BY <3>1, <3>2, ElementOfSeq
  <2>6. o \in WideObject
    BY <1>1, <2>2, <2>5 DEF WideObject
  <2>7. merging' = FALSE /\ continueText' = FALSE
    BY <1>3 DEF Delete
  <2>8. Keyed(o)
    BY <2>3, <2>4, <2>6, <2>7 DEF Keyed
  <2>9. QED
    BY <2>1, <2>2, <2>8
<1>4. QED
  BY <1>2, <1>3

\* It makes a text of what the text is.
LEMMA KeyedText ==
  ASSUME EditInv, NEW o, Keyed(o)
  PROVE  Execute(o, doc) \in Text /\ Execute(o, doc) # NoText
<1>1. cursor \in Nat /\ doc \in Text /\ MaxText \in Nat /\ MaxText >= 1 /\ o \in WideObject
      /\ o.pos = cursor /\ o.text \in Seq(Char)
  BY HistoryFacts, MaxTextAssumption DEF EditInv, LocalsOK, Keyed, WideObject
<1>2. CASE o.kind = "InsertTextNode" /\ Len(o.text) = 1
  <2>1. Execute(o, doc) = o.text
    BY <1>2 DEF Execute
  <2>2. QED
    BY <1>1, <1>2, <2>1, TextFacts
<1>3. CASE o.kind = "InsertText" /\ doc # NoText /\ Len(doc) < MaxText /\ Len(o.text) = 1
  <2>1. Execute(o, doc) = Insert(doc, cursor, o.text)
    BY <1>1, <1>3 DEF Execute
  <2>2. doc \in Seq(Char) /\ Len(doc) \in Nat
    BY <1>1, <1>3, TextFacts, LenProperties
  <2>3. /\ Insert(doc, cursor, o.text) \in Seq(Char)
        /\ Len(Insert(doc, cursor, o.text)) = Len(doc) + 1
    <3>1. PICK s \in Seq(Char) : s = o.text
      BY <1>1
    <3>2. /\ Insert(doc, cursor, s) \in Seq(Char)
          /\ Len(Insert(doc, cursor, s)) = Len(doc) + Len(s)
      BY <1>1, <2>2, InsertLength
    <3>3. QED
      BY <1>3, <3>1, <3>2
  <2>4. Len(doc) + 1 <= MaxText
    BY <1>1, <1>3, <2>2
  <2>5. QED
    BY <2>1, <2>3, <2>4, TextFacts
<1>4. CASE /\ o.kind = "RemoveText" /\ doc # NoText /\ cursor < Len(doc)
           /\ o.text = <<doc[cursor + 1]>>
  <2>1. Execute(o, doc) = Remove(doc, cursor, 1)
    <3>1. Len(o.text) = 1
      BY <1>4
    <3>2. QED
      BY <1>1, <1>4, <3>1 DEF Execute
  <2>2. doc \in Seq(Char) /\ Len(doc) \in Nat /\ Len(doc) <= MaxText
    BY <1>1, <1>4, TextFacts, LenProperties
  <2>3. PICK n \in Nat : n = 1 /\ cursor + n <= Len(doc)
    BY <1>1, <1>4, <2>2
  <2>4. /\ Remove(doc, cursor, n) \in Seq(Char)
        /\ Len(Remove(doc, cursor, n)) = Len(doc) - n
    BY <1>1, <2>2, <2>3, RemoveFacts
  <2>5. Len(doc) - n <= MaxText
    BY <1>1, <2>2, <2>3
  <2>6. QED
    BY <2>1, <2>3, <2>4, <2>5, TextFacts
<1>5. QED
  BY <1>2, <1>3, <1>4 DEF Keyed

\* The step it starts.
LEMMA StartFacts ==
  ASSUME EditInv, NEW o, Keyed(o), Start(o)
  PROVE  /\ HP!HistoryInv' /\ HP!Done' = Len(hist') /\ HP!Done' > 0
         /\ \E c \in Command, k \in {0, 1} :
              /\ Execute(o, doc) \in Text
              /\ HP!ExecuteAndAdd(c, Execute(o, doc))
              /\ NewList(c, Execute(o, doc), k)
              /\ c \in DOMAIN object' /\ object'[c] = o
              /\ \A i \in 1..(HP!Done - k) :
                   /\ hist'[i].addr # c /\ hist'[i].addr \in DOMAIN object'
                   /\ object'[hist'[i].addr] = object[hist[i + k].addr]
         /\ ObjectsOK'
<1> DEFINE d == Execute(o, doc)
<1>1. PICK c \in Command :
        /\ History!ExecuteAndAdd(c, d)
        /\ object' = [b \in {hist'[i].addr : i \in 1..Len(hist')} |->
                        IF b = c THEN o ELSE object[b]]
  BY DEF Start
<1>2. d \in Text /\ d # NoText
  BY KeyedText
<1> HIDE DEF d
<1>3. /\ HP!HistoryInv' /\ HP!ExecuteAndAdd(c, d)
      /\ \E k \in {0, 1} : NewList(c, d, k)
  BY <1>1, <1>2, NewListFacts
<1>4. PICK k \in {0, 1} : NewList(c, d, k)
  BY <1>3
<1>5. HP!Done \in 0..Len(hist) /\ Len(hist) \in Nat
  BY HistoryFacts
<1>6. HP!Done' = Len(hist') /\ HP!Done' > 0 /\ Len(hist') = HP!Done - k + 1 /\ HP!Done - k \in Nat
  BY <1>4, <1>5 DEF NewList
<1>7. ASSUME NEW i \in 1..Len(hist') PROVE hist'[i].addr \in DOMAIN object'
  BY <1>1
<1>8. c \in DOMAIN object' /\ object'[c] = o /\ hist'[Len(hist')].addr = c
      /\ hist'[Len(hist')].after # NoText
  <2>1. Len(hist') \in 1..Len(hist')
    BY <1>6
  <2>2. hist'[Len(hist')].addr = c /\ hist'[Len(hist')].after = d
    BY <1>4, <1>6 DEF NewList
  <2>3. c \in DOMAIN object'
    BY <2>1, <2>2, <1>7
  <2>4. object'[c] = o
    BY <2>3, <1>1
  <2>5. QED
    BY <2>2, <2>3, <2>4, <1>2
<1>9. ASSUME NEW i \in 1..(HP!Done - k)
      PROVE  /\ hist'[i].addr # c /\ hist'[i].addr \in DOMAIN object'
             /\ object'[hist'[i].addr] = object[hist[i + k].addr]
             /\ object'[hist'[i].addr] \in WideObject
             /\ hist'[i].after # NoText
  <2>1. i \in 1..Len(hist') /\ hist'[i] = hist[i + k] /\ i + k \in 1..Len(hist)
    BY <1>4, <1>5, <1>6 DEF NewList
  <2>2. hist'[i].addr \in DOMAIN object'
    BY <2>1, <1>7
  <2>3. hist[i + k].addr # c
    BY <2>1, <1>4 DEF NewList
  <2>4. object'[hist'[i].addr] = object[hist[i + k].addr]
    BY <2>1, <2>2, <2>3, <1>1
  <2>5. object[hist[i + k].addr] \in WideObject /\ hist[i + k].after # NoText
    BY <2>1 DEF EditInv, ObjectsOK
  <2>6. QED
    BY <2>1, <2>2, <2>3, <2>4, <2>5
<1>10. ObjectsOK'
  <2>1. \A i \in 1..Len(hist') : i = Len(hist') \/ i \in 1..(HP!Done - k)
    BY <1>6
  <2>2. o \in WideObject
    BY DEF Keyed
  <2>3. \A i \in 1..Len(hist') : /\ hist'[i].addr \in DOMAIN object'
                                 /\ object'[hist'[i].addr] \in WideObject
                                 /\ hist'[i].after # NoText
    BY <2>1, <2>2, <1>8, <1>9
  <2>4. DOMAIN object' = {hist'[i].addr : i \in 1..Len(hist')}
    BY <1>1
  <2>5. \A i \in 1..Len(hist') : hist'[i].addr \in Command
    <3>1. HP!TypeOK'
      BY <1>3 DEF HP!HistoryInv
    <3>2. hist' \in Seq(HP!CommandObject)
      BY <3>1 DEF HP!TypeOK
    <3>3. \A i \in 1..Len(hist') : hist'[i] \in HP!CommandObject
      BY <3>2, ElementOfSeq
    <3>4. QED
      BY <3>3 DEF HP!CommandObject
  <2>6. QED
    BY <2>3, <2>4, <2>5 DEF ObjectsOK
<1>11. QED
  <2>1. /\ c \in DOMAIN object' /\ object'[c] = o
        /\ \A i \in 1..(HP!Done - k) :
             /\ hist'[i].addr # c /\ hist'[i].addr \in DOMAIN object'
             /\ object'[hist'[i].addr] = object[hist[i + k].addr]
    BY <1>8, <1>9
  <2>2. \E a \in Command, m \in {0, 1} :
          /\ d \in Text
          /\ HP!ExecuteAndAdd(a, d)
          /\ NewList(a, d, m)
          /\ a \in DOMAIN object' /\ object'[a] = o
          /\ \A i \in 1..(HP!Done - m) :
               /\ hist'[i].addr # a /\ hist'[i].addr \in DOMAIN object'
               /\ object'[hist'[i].addr] = object[hist[i + m].addr]
    <3>1. WITNESS c \in Command, k \in {0, 1}
    <3>2. QED
      BY <1>2, <1>3, <1>4, <2>1
  <2>3. QED
    BY <2>2, <1>3, <1>6, <1>10 DEF d

-----------------------------------------------------------------------------
\* The handler's place, step by step.

LEMMA InitEdit == Init => EditInv
<1> SUFFICES ASSUME Init PROVE EditInv
  OBVIOUS
<1>1. HP!HistoryInv
  <2>1. HP!Init
    BY SameStates DEF Init
  <2>2. QED
    BY <2>1, HP!InitHistoryInv, NullAssumption, LimitAssumption, Switches
<1>2. hist = << >> /\ Len(hist) = 0 /\ object = << >> /\ doc \in Text
  BY <1>1 DEF Init, History!Init, HP!HistoryInv, HP!TypeOK
<1>3. ObjectsOK
  <2>1. DOMAIN object = {}
    BY <1>2
  <2>2. QED
    BY <1>2, <2>1 DEF ObjectsOK
<1>4. LocalsOK
  <2>1. cursor \in Nat
    <3>1. CASE doc = NoText
      BY <3>1 DEF Init
    <3>2. CASE doc # NoText
      <4>1. doc \in Seq(Char)
        BY <1>2, <3>2, TextFacts
      <4>2. QED
        BY <3>2, <4>1, LenProperties DEF Init
    <3>3. QED
      BY <3>1, <3>2
  <2>2. forceModified \in BOOLEAN /\ continueText \in BOOLEAN /\ merging \in BOOLEAN
    BY DEF Init
  <2>3. QED
    BY <2>1, <2>2 DEF Init, LocalsOK
<1>5. PlaceOK
  BY DEF Init, PlaceOK
<1>6. QED
  BY <1>1, <1>3, <1>4, <1>5 DEF EditInv

LEMMA KeyEdit ==
  ASSUME EditInv, NEW o, Keyed(o), Start(o)
  PROVE  EditInv'
<1>1. HP!HistoryInv' /\ ObjectsOK' /\ HP!Done' = Len(hist') /\ HP!Done' > 0
  BY StartFacts
<1>2. LocalsOK'
  <2>1. PosAfter(o) \in Nat /\ cursor \in Nat
    BY PosIsNat DEF Keyed, EditInv, LocalsOK
  <2>2. continueText' \in BOOLEAN /\ merging' \in BOOLEAN /\ forceModified' \in BOOLEAN
    <3>1. continueText \in BOOLEAN /\ forceModified \in BOOLEAN
      BY DEF EditInv, LocalsOK
    <3>2. CASE o.kind = "RemoveText"
      BY <3>1, <3>2 DEF Keyed, Start
    <3>3. CASE o.kind # "RemoveText"
      BY <3>1, <3>3 DEF Keyed, Start
    <3>4. QED
      BY <3>2, <3>3
  <2>3. QED
    BY <2>1, <2>2 DEF Start, EditInv, LocalsOK
<1>3. PlaceOK'
  BY <1>1 DEF PlaceOK, Start
<1>4. QED
  BY <1>1, <1>2, <1>3 DEF EditInv

LEMMA RefuseEdit == EditInv /\ Refuse => EditInv'
<1> SUFFICES ASSUME EditInv, Refuse PROVE EditInv'
  OBVIOUS
<1>1. HP!HistoryInv' /\ HP!SameCommands
  BY UndoFacts DEF Refuse
<1>2. ObjectsOK'
  BY <1>1, SameObjects DEF EditInv, Refuse
<1>3. LocalsOK' /\ PlaceOK'
  BY DEF EditInv, LocalsOK, PlaceOK, Refuse, Return
<1>4. QED
  BY <1>1, <1>2, <1>3 DEF EditInv

\* Steps that leave the history alone.
LEMMA SameHistory ==
  ASSUME EditInv, UNCHANGED <<historyVars, object>>
  PROVE  HP!HistoryInv' /\ ObjectsOK' /\ HP!Done' = HP!Done
<1>1. UNCHANGED HP!vars
  BY DEF historyVars, HP!vars
<1>2. HP!HistoryInv'
  <2>1. HP!HistoryInv /\ [HP!Next]_(HP!vars)
    BY <1>1 DEF EditInv
  <2>2. QED
    BY <2>1, HP!NextKeeps, NullAssumption, LimitAssumption, Switches
<1>3. HP!Done' = HP!Done
  BY DEF historyVars, HP!Done, HP!Position
<1>4. ObjectsOK'
  BY DEF EditInv, ObjectsOK, historyVars
<1>5. QED
  BY <1>2, <1>3, <1>4

LEMMA PutBackIsNat ==
  ASSUME NEW p \in Nat, NEW t \in Text
  PROVE  PutBack(p, t) \subseteq Nat
<1>1. t # NoText => Len(t) \in Nat
  BY TextFacts, LenProperties
<1>2. QED
  BY <1>1 DEF PutBack, Smaller

LEMMA ShowEdit == EditInv /\ Show => EditInv'
<1> SUFFICES ASSUME EditInv, Show PROVE EditInv'
  OBVIOUS
<1>1. HP!HistoryInv' /\ ObjectsOK' /\ HP!Done' = HP!Done /\ hist' = hist
  BY SameHistory DEF Show, historyVars
<1>2. LocalsOK' /\ PlaceOK'
  <2>1. cursor' \in Nat
    <3>1. PutBack(oldCursor, doc) \subseteq Nat
      BY PutBackIsNat, HistoryFacts DEF EditInv, LocalsOK
    <3>2. QED
      BY <3>1 DEF Show, EditInv, LocalsOK
  <2>2. CASE merging
    <3>1. pc = "view" /\ pc' = "merge" /\ UNCHANGED <<oldCursor, merging>>
      BY <2>2 DEF Show, Updated, EditInv, PlaceOK
    <3>2. QED
      BY <2>1, <2>2, <1>1, <3>1 DEF EditInv, LocalsOK, PlaceOK, Show
  <2>3. CASE ~merging
    <3>1. pc' = "idle" /\ oldCursor' = 0 /\ merging' = FALSE
      BY <2>3 DEF Show, Updated, Return
    <3>2. QED
      BY <2>1, <1>1, <3>1 DEF EditInv, LocalsOK, PlaceOK, Show
  <2>4. QED
    BY <2>2, <2>3
<1>3. QED
  BY <1>1, <1>2 DEF EditInv

LEMMA CancelEdit == EditInv /\ Cancel => EditInv'
<1> SUFFICES ASSUME EditInv, Cancel PROVE EditInv'
  OBVIOUS
<1>1. HP!HistoryInv' /\ HP!SameCommands /\ HP!Done' = HP!Done - 1
  BY UndoFacts DEF Cancel
<1>2. ObjectsOK'
  BY <1>1, SameObjects DEF EditInv, Cancel
<1>3. LocalsOK'
  BY DEF EditInv, LocalsOK, Cancel
<1>4. PlaceOK'
  BY <1>1 DEF EditInv, PlaceOK, Cancel, HP!SameCommands
<1>5. QED
  BY <1>1, <1>2, <1>3, <1>4 DEF EditInv

LEMMA RemoveEdit == EditInv /\ RemoveCancelled => EditInv'
<1> SUFFICES ASSUME EditInv, RemoveCancelled PROVE EditInv'
  OBVIOUS
<1>1. PICK h : HP!Shortened(h) /\ HP!DropLast(h) /\ UNCHANGED <<wasCleared, doc, saved>>
  BY CancelFacts DEF RemoveCancelled
<1>2. /\ HP!HistoryInv' /\ hist' = h /\ Len(hist) >= 1 /\ Len(h) = Len(hist) - 1
      /\ HP!Done' = IF HP!Done < Len(hist) THEN HP!Done ELSE Len(h)
  BY <1>1, DropFacts
<1>3. ObjectsOK'
  BY <1>1, FewerObjects DEF EditInv, ObjectsOK, RemoveCancelled
<1>4. HP!Done' = Len(hist')
  BY <1>2, HistoryFacts DEF EditInv, PlaceOK, RemoveCancelled
<1>5. LocalsOK' /\ PlaceOK'
  <2>1. CASE merging
    <3>1. pc' = "merge" /\ UNCHANGED <<oldCursor, merging>>
      BY <2>1 DEF RemoveCancelled, Updated
    <3>2. LocalsOK'
      BY <3>1 DEF EditInv, LocalsOK, RemoveCancelled
    <3>3. PlaceOK'
      BY <2>1, <3>1, <1>4 DEF PlaceOK
    <3>4. QED
      BY <3>2, <3>3
  <2>2. CASE ~merging
    <3>1. pc' = "idle" /\ oldCursor' = 0 /\ merging' = FALSE
      BY <2>2 DEF RemoveCancelled, Updated, Return
    <3>2. LocalsOK'
      BY <3>1 DEF EditInv, LocalsOK, RemoveCancelled
    <3>3. PlaceOK'
      BY <3>1 DEF PlaceOK
    <3>4. QED
      BY <3>2, <3>3
  <2>3. QED
    BY <2>1, <2>2
<1>6. QED
  BY <1>2, <1>3, <1>5 DEF EditInv

\* The command that stands for both: it is the first of them, with more text.
LEMMA MergedIsWide ==
  ASSUME EditInv, NEW o \in WideObject, NEW p \in WideObject, doc # NoText
  PROVE  /\ Merged(o, p) \in WideObject
         /\ Merged(o, p).kind = o.kind /\ Merged(o, p).pos = o.pos
         /\ Merged(o, p).messages = o.messages
         /\ Merged(o, p).text = IF o.kind = "InsertText" THEN o.text \o p.text ELSE doc
<1>1. doc \in Seq(Char)
  BY HistoryFacts, TextFacts
<1>2. PICK t \in Seq(Char) : t = IF o.kind = "InsertText" THEN o.text \o p.text ELSE doc
  <2>1. o.text \in Seq(Char) /\ p.text \in Seq(Char)
    BY DEF WideObject
  <2>2. o.text \o p.text \in Seq(Char)
    BY <2>1, ConcatProperties
  <2>3. QED
    BY <1>1, <2>2
<1>3. Merged(o, p) = [o EXCEPT !.text = t]
  BY <1>2 DEF Merged
<1>4. QED
  BY <1>2, <1>3 DEF WideObject

LEMMA MergeEdit == EditInv /\ MergeTyped => EditInv'
<1> SUFFICES ASSUME EditInv, MergeTyped PROVE EditInv'
  OBVIOUS
<1> DEFINE n == Len(hist)
           o == object[hist[n - 1].addr]
           p == object[hist[n].addr]
<1>1. HP!HistoryInv' /\ ObjectsOK'
  <2>1. CASE n >= 2 /\ Mergeable(o, p)
    <3>1. /\ History!MergeLastCommand
          /\ object' = [object EXCEPT ![hist[n - 1].addr] = Merged(o, p)]
      BY <2>1 DEF MergeTyped
    <3>2. PICK h : HP!Shortened(h) /\ HP!DropLast(h) /\ UNCHANGED <<wasCleared, doc, saved>>
      BY <3>1, MergeFacts
    <3>3. HP!HistoryInv'
      BY <3>2, DropFacts
    <3>4. n \in 1..n /\ n - 1 \in 1..n /\ HP!Done = n
      BY <2>1, HistoryFacts DEF EditInv, PlaceOK, MergeTyped
    <3>5. o \in WideObject /\ p \in WideObject /\ doc # NoText
      BY <3>4, HistoryFacts DEF EditInv, ObjectsOK
    <3>6. Merged(o, p) \in WideObject
      BY <3>5, MergedIsWide
    <3>7. DOMAIN object' = DOMAIN object
      BY <3>1
    <3>8. \A c \in DOMAIN object : object'[c] \in WideObject
      BY <3>1, <3>6 DEF EditInv, ObjectsOK
    <3>9. QED
      BY <3>2, <3>3, <3>7, <3>8, FewerObjects
  <2>2. CASE ~(n >= 2 /\ Mergeable(o, p))
    <3>1. UNCHANGED <<historyVars, object>>
      BY <2>2 DEF MergeTyped
    <3>2. QED
      BY <3>1, SameHistory
  <2>3. QED
    BY <2>1, <2>2
<1>2. LocalsOK' /\ PlaceOK'
  BY DEF EditInv, LocalsOK, PlaceOK, MergeTyped, Return
<1>3. QED
  BY <1>1, <1>2 DEF EditInv

\* The next key may find the typing go on, or not.
LEMMA KeepsTypingType ==
  ASSUME continueText \in BOOLEAN, KeepsTyping
  PROVE  continueText' \in BOOLEAN
BY DEF KeepsTyping

LEMMA UndoEdit == EditInv /\ Undo => EditInv'
<1> SUFFICES ASSUME EditInv, Undo PROVE EditInv'
  OBVIOUS
<1>1. HP!HistoryInv' /\ HP!SameCommands /\ HP!Done \in 1..Len(hist)
  BY UndoFacts DEF Undo
<1>2. ObjectsOK'
  BY <1>1, SameObjects DEF EditInv, Undo
<1>3. cursor' \in Nat
  <2>1. LastObject \in WideObject
    BY <1>1, LastFacts
  <2>2. PICK t \in Text : t = doc'
    BY <1>1 DEF HP!HistoryInv, HP!TypeOK
  <2>3. PutBack(cursor, t) \subseteq Nat
    BY PutBackIsNat DEF EditInv, LocalsOK
  <2>4. cursor' \in {PosBefore(LastObject)} \cup PutBack(cursor, t)
    BY <2>2 DEF Undo
  <2>5. QED
    BY <2>1, <2>3, <2>4, PosIsNat
<1>4. LocalsOK' /\ PlaceOK'
  <2>1. continueText' \in BOOLEAN
    BY KeepsTypingType DEF EditInv, LocalsOK, Undo
  <2>2. QED
    BY <1>3, <2>1 DEF EditInv, LocalsOK, PlaceOK, Undo, locals
<1>5. QED
  BY <1>1, <1>2, <1>4 DEF EditInv

LEMMA RedoEdit == EditInv /\ Redo => EditInv'
<1> SUFFICES ASSUME EditInv, Redo PROVE EditInv'
  OBVIOUS
<1>1. /\ HP!HistoryInv' /\ HP!SameCommands
      /\ HP!Done + 1 \in 1..Len(hist) /\ HP!Done' = HP!Done + 1
      /\ hist[HP!Done + 1].addr = lastDone'
  BY RedoFacts DEF Redo
<1>2. ObjectsOK'
  BY <1>1, SameObjects DEF EditInv, Redo
<1>3. cursor' \in Nat
  <2>1. object[lastDone'] \in WideObject
    BY <1>1 DEF EditInv, ObjectsOK
  <2>2. QED
    BY <2>1, PosIsNat DEF Redo
<1>4. LocalsOK' /\ PlaceOK'
  <2>1. continueText' \in BOOLEAN
    BY KeepsTypingType DEF EditInv, LocalsOK, Redo
  <2>2. HP!Done' > 0
    BY <1>1, HistoryFacts
  <2>3. QED
    BY <1>3, <2>1, <2>2 DEF EditInv, LocalsOK, PlaceOK, Redo
<1>5. QED
  BY <1>1, <1>2, <1>4 DEF EditInv

LEMMA SaveFacts ==
  ASSUME EditInv, Save
  PROVE  HP!HistoryInv' /\ HP!SetNotModified /\ HP!Done' = HP!Done /\ ObjectsOK'
<1>1. HP!SetNotModified /\ UNCHANGED object
  BY SameSteps DEF Save
<1>2. HP!HistoryInv'
  BY <1>1, HP!SaveKeeps, NullAssumption, LimitAssumption, Switches DEF EditInv
<1>3. UNCHANGED <<hist, lastDone>>
  BY <1>1 DEF HP!SetNotModified
<1>4. QED
  BY <1>1, <1>2, <1>3 DEF EditInv, ObjectsOK, HP!Done, HP!Position

LEMMA SaveEdit == EditInv /\ Save => EditInv'
<1> SUFFICES ASSUME EditInv, Save PROVE EditInv'
  OBVIOUS
<1>1. HP!HistoryInv' /\ ObjectsOK'
  BY SaveFacts
<1>2. LocalsOK' /\ PlaceOK'
  <2>1. continueText' \in BOOLEAN
    BY KeepsTypingType DEF EditInv, LocalsOK, Save
  <2>2. QED
    BY <2>1 DEF EditInv, LocalsOK, PlaceOK, Save, locals
<1>3. QED
  BY <1>1, <1>2 DEF EditInv

LEMMA CursorIsNat ==
  ASSUME EditInv, NEW i \in IF doc = NoText THEN {0} ELSE 0..Len(doc)
  PROVE  i \in Nat
<1>1. doc # NoText => Len(doc) \in Nat
  BY HistoryFacts, TextFacts, LenProperties
<1>2. QED
  BY <1>1

LEMMA IdleEdit == EditInv /\ (Move \/ SetValidation) => EditInv'
<1> SUFFICES ASSUME EditInv, Move \/ SetValidation PROVE EditInv'
  OBVIOUS
<1>1. HP!HistoryInv' /\ ObjectsOK'
  BY SameHistory DEF Move, SetValidation
<1>2. cursor' \in Nat
  BY CursorIsNat DEF Move, SetValidation, EditInv, LocalsOK
<1>3. UNCHANGED locals /\ pc = "idle" /\ continueText' = FALSE
      /\ UNCHANGED forceModified /\ validation' \in 0..2
  BY DEF EditInv, LocalsOK, Move, SetValidation
<1>4. LocalsOK' /\ PlaceOK'
  BY <1>2, <1>3 DEF EditInv, LocalsOK, PlaceOK, locals
<1>5. QED
  BY <1>1, <1>4 DEF EditInv

LEMMA StutterEdit == EditInv /\ UNCHANGED vars => EditInv'
<1> SUFFICES ASSUME EditInv, UNCHANGED vars PROVE EditInv'
  OBVIOUS
<1>1. HP!HistoryInv' /\ ObjectsOK' /\ HP!Done' = HP!Done
  BY SameHistory DEF vars
<1>2. LocalsOK' /\ PlaceOK'
  BY <1>1 DEF EditInv, LocalsOK, PlaceOK, vars, locals, historyVars
<1>3. QED
  BY <1>1, <1>2 DEF EditInv

LEMMA NextEdit == EditInv /\ [Next]_vars => EditInv'
<1> SUFFICES ASSUME EditInv, [Next]_vars PROVE EditInv'
  OBVIOUS
<1>1. CASE (\E x \in Char : Type(x)) \/ Delete
  BY <1>1, KeyedBy, KeyEdit
<1>2. CASE Refuse
  BY <1>2, RefuseEdit
<1>3. CASE Show
  BY <1>3, ShowEdit
<1>4. CASE Cancel
  BY <1>4, CancelEdit
<1>5. CASE RemoveCancelled
  BY <1>5, RemoveEdit
<1>6. CASE MergeTyped
  BY <1>6, MergeEdit
<1>7. CASE Move \/ SetValidation
  BY <1>7, IdleEdit
<1>8. CASE Undo
  BY <1>8, UndoEdit
<1>9. CASE Redo
  BY <1>9, RedoEdit
<1>10. CASE Save
  BY <1>10, SaveEdit
<1>11. CASE UNCHANGED vars
  BY <1>11, StutterEdit
<1>12. QED
  BY <1>1, <1>2, <1>3, <1>4, <1>5, <1>6, <1>7, <1>8, <1>9, <1>10, <1>11 DEF Next

\* The two commands that mergeLastCommand() merges are both done: whatever comes
\* between two keys, undo, redo, a refused or a cancelled command, the handler
\* never gets there with a command that can be redone.
THEOREM MergesWhatIsDone == Spec => []MergeSeesDone
<1>1. EditInv => MergeSeesDone
  <2> SUFFICES ASSUME EditInv, pc = "merge" PROVE ~History!IsRedoPossible
    BY DEF MergeSeesDone
  <2>1. HP!Done = Len(hist)
    BY DEF EditInv, PlaceOK
  <2>2. QED
    BY <2>1, HistoryFacts, SameStates
<1>2. QED
  BY <1>1, InitEdit, NextEdit, PTL DEF Spec

-----------------------------------------------------------------------------
(***************************************************************************)
(* What the commands do to the text.  Their lengths fit in any editor; what *)
(* they say they did is what they did only if nothing but a click comes     *)
(* between two keys: InsertText::mergeWith appends to the earlier command   *)
(* what was typed, wherever that was put.                                   *)
(***************************************************************************)

Size(t) == IF t = NoText THEN 0 ELSE Len(t)

\* The object o takes a text as long as b to one as long as a.
Sized(o, b, a) ==
  \/ /\ o.kind = "InsertTextNode"
     /\ b = NoText /\ o.pos = 0 /\ Len(a) = Len(o.text)
  \/ /\ o.kind = "InsertText"
     /\ b # NoText /\ o.pos <= Len(b) /\ Len(a) = Len(b) + Len(o.text)
  \/ /\ o.kind = "RemoveText"
     /\ b # NoText /\ o.pos <= Len(a) /\ Len(b) = Len(a) + Len(o.text)

\* It takes b to a.
Makes(o, b, a) ==
  \/ o.kind = "InsertTextNode" /\ a = o.text
  \/ o.kind = "InsertText" /\ a = Insert(b, o.pos, o.text)
  \/ o.kind = "RemoveText" /\ b = Insert(a, o.pos, o.text)

Uninterrupted == Interrupts = {}

Fits(o, b, a) == Sized(o, b, a) /\ (Uninterrupted => Makes(o, b, a))

CommandsFit ==
  \A i \in 1..Len(hist) : Fits(object[hist[i].addr], hist[i].before, hist[i].after)

\* The cursor is in the text, and so is the one that updateView() may go back to.
CursorOK ==
  /\ cursor <= Size(doc) /\ oldCursor <= MaxText
  /\ pc \in {"view", "redone"} => oldCursor <= Size(hist[HP!Done].before)

\* Between the keys of one piece of typing.
Typing == pc \in {"view", "merge"} \/ (pc = "idle" /\ continueText)

\* A key that goes on, and the key before it.
GoesOn == pc \in {"view", "merge"} /\ merging /\ Len(hist) >= 2

\* The typing goes on where the last command left the cursor.
TypingOK ==
  Uninterrupted =>
    /\ validation # 2 /\ pc # "remove"
    /\ pc = "redone" => ~continueText
    /\ Typing => HP!Done > 0 /\ cursor = PosAfter(LastObject)
    /\ GoesOn => LastObject.pos = PosAfter(object[hist[Len(hist) - 1].addr])

TextInv ==
  /\ EditInv
  /\ \A c \in DOMAIN object : object[c] \in Object
  /\ CommandsFit
  /\ CursorOK
  /\ TypingOK

LEMMA SizeFacts ==
  \A t \in Text : Size(t) \in 0..MaxText /\ (t # NoText => t \in Seq(Char) /\ Size(t) = Len(t))
<1>1. NoText \in Text => Size(NoText) = 0
  BY DEF Size
<1>2. QED
  BY <1>1, TextFacts, MaxTextAssumption DEF Size

\* An object that fits is one of the model's, and leaves the cursor in the text.
LEMMA FitsFacts ==
  ASSUME NEW o \in WideObject, NEW b \in Text, NEW a \in Text, a # NoText, Sized(o, b, a)
  PROVE  o \in Object /\ PosAfter(o) <= Size(a) /\ PosBefore(o) <= Size(b)
<1>1. /\ o.pos \in Nat /\ o.text \in Seq(Char) /\ Len(o.text) \in Nat
      /\ o.kind \in {"InsertText", "InsertTextNode", "RemoveText"}
      /\ o.messages \in {"none", "prev", "my"} /\ MaxText \in Nat
  BY LenProperties, MaxTextAssumption DEF WideObject
<1>2. Size(a) = Len(a) /\ Len(a) \in 0..MaxText
  BY SizeFacts
<1>3. b # NoText => Size(b) = Len(b) /\ Len(b) \in 0..MaxText
  BY SizeFacts
<1>4. Size(b) \in Nat
  BY SizeFacts
<1>5. Len(o.text) <= MaxText /\ o.pos <= MaxText
  BY <1>1, <1>2, <1>3 DEF Sized
<1>6. o.text \in Text \ {NoText}
  BY <1>1, <1>5, TextFacts
<1>7. o \in Object
  BY <1>1, <1>5, <1>6 DEF WideObject, Object
<1>8. PosAfter(o) <= Size(a)
  BY <1>1, <1>2, <1>3 DEF Sized, PosAfter
<1>9. PosBefore(o) <= Size(b)
  BY <1>1, <1>2, <1>3, <1>4 DEF Sized, PosBefore
<1>10. QED
  BY <1>7, <1>8, <1>9

\* A key makes a command that fits.
LEMMA KeyedFits ==
  ASSUME EditInv, cursor <= Size(doc), NEW o, Keyed(o)
  PROVE  Sized(o, doc, Execute(o, doc)) /\ Makes(o, doc, Execute(o, doc))
<1>1. /\ cursor \in Nat /\ doc \in Text /\ o \in WideObject
      /\ o.pos = cursor /\ o.text \in Seq(Char)
  BY HistoryFacts DEF EditInv, LocalsOK, Keyed, WideObject
<1>2. CASE o.kind = "InsertTextNode" /\ doc = NoText
  <2>1. Execute(o, doc) = o.text
    BY <1>2 DEF Execute
  <2>2. cursor = 0
    BY <1>1, <1>2 DEF Size
  <2>3. QED
    BY <1>1, <1>2, <2>1, <2>2 DEF Sized, Makes
<1>3. CASE o.kind = "InsertText" /\ doc # NoText
  <2>1. Execute(o, doc) = Insert(doc, cursor, o.text)
    BY <1>1, <1>3 DEF Execute
  <2>2. doc \in Seq(Char) /\ Len(doc) \in Nat /\ cursor <= Len(doc)
    BY <1>1, <1>3, TextFacts DEF Size
  <2>3. PICK s \in Seq(Char) : s = o.text
    BY <1>1
  <2>4. Len(Insert(doc, cursor, s)) = Len(doc) + Len(s)
    BY <1>1, <2>2, InsertLength
  <2>5. Sized(o, doc, Execute(o, doc))
    BY <1>1, <1>3, <2>1, <2>2, <2>3, <2>4 DEF Sized
  <2>6. Makes(o, doc, Execute(o, doc))
    BY <1>1, <1>3, <2>1 DEF Makes
  <2>7. QED
    BY <2>5, <2>6
<1>4. CASE /\ o.kind = "RemoveText" /\ doc # NoText /\ cursor < Len(doc)
           /\ o.text = <<doc[cursor + 1]>>
  <2>1. Len(o.text) = 1
    BY <1>4
  <2>2. Execute(o, doc) = Remove(doc, cursor, 1)
    BY <1>1, <1>4, <2>1 DEF Execute
  <2>3. doc \in Seq(Char) /\ Len(doc) \in Nat
    BY <1>1, <1>4, TextFacts, LenProperties
  <2>4. PICK n \in Nat : n = 1 /\ cursor + n <= Len(doc)
    BY <1>1, <1>4, <2>3
  <2>5. Len(Remove(doc, cursor, n)) = Len(doc) - n
    BY <1>1, <2>3, <2>4, RemoveFacts
  <2>6. Sized(o, doc, Execute(o, doc))
    <3>1. PICK a : a = Execute(o, doc)
      OBVIOUS
    <3>2. Len(a) = Len(doc) - 1
      BY <2>2, <2>4, <2>5, <3>1
    <3>3. Sized(o, doc, a)
      BY <1>1, <1>4, <2>1, <2>3, <3>2 DEF Sized
    <3>4. QED
      BY <3>1, <3>3
  <2>7. Insert(Remove(doc, cursor, 1), cursor, <<doc[cursor + 1]>>) = doc
    BY <1>1, <1>4, <2>3, InsertRemoved
  <2>8. Makes(o, doc, Execute(o, doc))
    BY <1>1, <1>4, <2>2, <2>7 DEF Makes
  <2>9. QED
    BY <2>6, <2>8
<1>5. QED
  BY <1>2, <1>3, <1>4 DEF Keyed

\* The list and its objects, before a step or after it.
ListFacts ==
  /\ \A i \in 1..Len(hist) :
       /\ object[hist[i].addr] \in WideObject
       /\ hist[i].before \in Text /\ hist[i].after \in Text /\ hist[i].after # NoText
  /\ HP!Done \in 0..Len(hist)
  /\ HP!Done > 0 => hist[HP!Done].addr = lastDone

LEMMA ListNow == EditInv => ListFacts
BY HistoryFacts DEF EditInv, ObjectsOK, ListFacts

LEMMA ListNext == EditInv' => ListFacts'
BY ListNow, PTL

ObjectsFit == \A i \in 1..Len(hist) : object[hist[i].addr] \in Object

LEMMA FittingObjects == ListFacts /\ CommandsFit => ObjectsFit
<1> SUFFICES ASSUME ListFacts, CommandsFit, NEW i \in 1..Len(hist)
             PROVE  object[hist[i].addr] \in Object
  BY DEF ObjectsFit
<1>1. PICK o, b, a : o = object[hist[i].addr] /\ b = hist[i].before /\ a = hist[i].after
  OBVIOUS
<1>2. o \in WideObject /\ b \in Text /\ a \in Text /\ a # NoText /\ Sized(o, b, a)
  BY <1>1 DEF ListFacts, CommandsFit, Fits
<1>3. o \in Object
  BY <1>2, FitsFacts
<1>4. QED
  BY <1>1, <1>3

LEMMA FittingNext == ListFacts' /\ CommandsFit' => ObjectsFit'
BY FittingObjects, PTL

LEMMA KeyText ==
  ASSUME TextInv, NEW o, Keyed(o), Start(o)
  PROVE  TextInv'
<1>1. EditInv /\ EditInv' /\ ListFacts' /\ cursor <= Size(doc)
  BY KeyEdit, ListNext DEF TextInv, CursorOK
<1>2. PICK d : d = Execute(o, doc)
  OBVIOUS
<1>3. /\ o \in WideObject /\ o.pos = cursor /\ d \in Text /\ d # NoText
      /\ Sized(o, doc, d) /\ Makes(o, doc, d) /\ doc \in Text
  BY <1>1, <1>2, KeyedText, KeyedFits, HistoryFacts DEF Keyed
<1>4. PICK c \in Command, k \in {0, 1} :
        /\ NewList(c, d, k)
        /\ c \in DOMAIN object' /\ object'[c] = o
        /\ \A i \in 1..(HP!Done - k) :
             /\ hist'[i].addr # c /\ hist'[i].addr \in DOMAIN object'
             /\ object'[hist'[i].addr] = object[hist[i + k].addr]
  BY <1>1, <1>2, StartFacts
<1>5. HP!Done \in 0..Len(hist) /\ Len(hist) \in Nat /\ HP!Done - k \in Nat
  BY <1>1, <1>4, HistoryFacts DEF NewList
<1>6. PICK n : n = HP!Done - k + 1
  OBVIOUS
<1>7. /\ Len(hist') = n /\ HP!Done' = n /\ n \in 1..n /\ n > 0
      /\ hist'[n].addr = c /\ hist'[n].before = doc /\ hist'[n].after = d
      /\ lastDone' = c /\ doc' = d
  BY <1>4, <1>5, <1>6 DEF NewList
<1>8. CommandsFit'
  <2>1. ASSUME NEW i \in 1..n
        PROVE  Fits(object'[hist'[i].addr], hist'[i].before, hist'[i].after)
    <3>1. CASE i = n
      BY <3>1, <1>3, <1>4, <1>7 DEF Fits
    <3>2. CASE i # n
      <4>1. i \in 1..(HP!Done - k)
        BY <3>2, <1>5, <1>6
      <4>2. hist'[i] = hist[i + k] /\ i + k \in 1..Len(hist)
        BY <4>1, <1>4, <1>5 DEF NewList
      <4>3. Fits(object[hist[i + k].addr], hist[i + k].before, hist[i + k].after)
        BY <4>2 DEF TextInv, CommandsFit
      <4>4. QED
        BY <4>1, <4>2, <4>3, <1>4
    <3>3. QED
      BY <3>1, <3>2
  <2>2. QED
    BY <2>1, <1>7 DEF CommandsFit
<1>9. \A b \in DOMAIN object' : object'[b] \in Object
  <2>1. DOMAIN object' = {hist'[i].addr : i \in 1..Len(hist')}
    BY DEF Start
  <2>2. QED
    BY <2>1, <1>1, <1>8, FittingNext DEF ObjectsFit
<1>10. CursorOK'
  <2>1. cursor' = PosAfter(o) /\ oldCursor' = cursor /\ pc' = "view"
    BY DEF Start
  <2>2. PosAfter(o) <= Size(d)
    BY <1>3, FitsFacts
  <2>3. cursor <= MaxText
    <3>1. cursor \in Nat /\ MaxText \in Nat /\ Size(doc) \in 0..MaxText
      BY <1>1, <1>3, SizeFacts, MaxTextAssumption DEF EditInv, LocalsOK
    <3>2. QED
      BY <3>1, <1>1
  <2>4. hist'[HP!Done'].before = doc
    BY <1>7
  <2>5. QED
    BY <2>1, <2>2, <2>3, <2>4, <1>1, <1>7 DEF CursorOK
<1>11. TypingOK'
  <2> SUFFICES ASSUME Uninterrupted PROVE TypingOK'
    BY DEF TypingOK, Uninterrupted
  <2>1. validation' # 2 /\ pc' = "view" /\ pc = "idle" /\ cursor' = PosAfter(o)
    BY DEF TextInv, TypingOK, Start
  <2>2. LastObject' = o
    BY <1>4, <1>7 DEF LastObject
  <2>3. GoesOn' => LastObject'.pos = PosAfter(object'[hist'[Len(hist') - 1].addr])
    <3> SUFFICES ASSUME merging', n >= 2 PROVE o.pos = PosAfter(object'[hist'[n - 1].addr])
      BY <1>7, <2>2 DEF GoesOn
    <3>1. continueText
      BY DEF Keyed
    <3>2. cursor = PosAfter(LastObject) /\ HP!Done > 0
      BY <2>1, <3>1 DEF TextInv, TypingOK, Typing
    <3>3. n - 1 \in 1..(HP!Done - k) /\ n - 1 + k = HP!Done
      BY <1>5, <1>6
    <3>4. object'[hist'[n - 1].addr] = object[hist[n - 1 + k].addr]
      BY <3>3, <1>4
    <3>5. hist[HP!Done].addr = lastDone
      BY <1>1, <3>2, HistoryFacts
    <3>6. object'[hist'[n - 1].addr] = LastObject
      BY <3>3, <3>4, <3>5 DEF LastObject
    <3>7. QED
      BY <3>2, <3>6, <1>3
  <2>4. QED
    BY <2>1, <2>2, <2>3, <1>7 DEF TypingOK
<1>12. QED
  BY <1>1, <1>8, <1>9, <1>10, <1>11 DEF TextInv

\* Undo and redo leave the objects as they are.
LEMMA SameFits ==
  ASSUME CommandsFit, HP!SameCommands, UNCHANGED object
  PROVE  CommandsFit'
<1>1. /\ Len(hist') = Len(hist)
      /\ \A i \in 1..Len(hist) : /\ hist'[i].addr = hist[i].addr
                                 /\ hist'[i].before = hist[i].before
                                 /\ hist'[i].after = hist[i].after
  BY DEF HP!SameCommands
<1>2. QED
  BY <1>1 DEF CommandsFit

LEMMA InitText == Init => TextInv
<1> SUFFICES ASSUME Init PROVE TextInv
  OBVIOUS
<1>1. EditInv /\ ListFacts
  BY InitEdit, ListNow
<1>2. hist = << >> /\ Len(hist) = 0 /\ object = << >> /\ DOMAIN object = {}
  BY DEF Init, History!Init
<1>3. CommandsFit
  BY <1>2 DEF CommandsFit
<1>4. CursorOK
  <2>1. cursor = Size(doc) /\ cursor \in Nat
    BY <1>1 DEF Init, Size, EditInv, LocalsOK
  <2>2. oldCursor = 0 /\ pc = "idle" /\ MaxText \in Nat
    BY MaxTextAssumption DEF Init
  <2>3. QED
    BY <2>1, <2>2 DEF CursorOK
<1>5. TypingOK
  BY DEF Init, TypingOK, Typing, GoesOn
<1>6. QED
  BY <1>1, <1>2, <1>3, <1>4, <1>5 DEF TextInv

LEMMA RefuseText == TextInv /\ Refuse => TextInv'
<1> SUFFICES ASSUME TextInv, Refuse PROVE TextInv'
  OBVIOUS
<1>1. EditInv /\ EditInv'
  BY RefuseEdit DEF TextInv
<1>2. HP!SameCommands /\ doc' = hist[HP!Done].before
  BY <1>1, UndoFacts DEF Refuse
<1>3. CommandsFit' /\ UNCHANGED object
  BY <1>2, SameFits DEF TextInv, Refuse
<1>4. CursorOK'
  <2>1. oldCursor <= Size(hist[HP!Done].before) /\ cursor' = oldCursor /\ pc' = "idle"
        /\ oldCursor' = 0 /\ MaxText \in Nat
    BY MaxTextAssumption DEF TextInv, CursorOK, Refuse, Return
  <2>2. QED
    BY <2>1, <1>2 DEF CursorOK
<1>5. ~Uninterrupted
  BY DEF TextInv, TypingOK, Refuse, Refused
<1>6. TypingOK'
  BY <1>5 DEF TypingOK, Uninterrupted
<1>7. QED
  BY <1>1, <1>3, <1>4, <1>6 DEF TextInv

LEMMA CancelText == TextInv /\ Cancel => TextInv'
<1> SUFFICES ASSUME TextInv, Cancel PROVE TextInv'
  OBVIOUS
<1>1. EditInv /\ EditInv'
  BY CancelEdit DEF TextInv
<1>2. HP!SameCommands /\ doc' = hist[HP!Done].before
  BY <1>1, UndoFacts DEF Cancel
<1>3. CommandsFit' /\ UNCHANGED object
  BY <1>2, SameFits DEF TextInv, Cancel
<1>4. CursorOK'
  <2>1. oldCursor <= Size(hist[HP!Done].before) /\ cursor' = oldCursor /\ pc' = "remove"
        /\ oldCursor' = oldCursor /\ oldCursor <= MaxText
    BY DEF TextInv, CursorOK, Cancel
  <2>2. QED
    BY <2>1, <1>2 DEF CursorOK
<1>5. ~Uninterrupted
  BY DEF Cancel, Uninterrupted
<1>6. TypingOK'
  BY <1>5 DEF TypingOK, Uninterrupted
<1>7. QED
  BY <1>1, <1>3, <1>4, <1>6 DEF TextInv

LEMMA RemoveText == TextInv /\ RemoveCancelled => TextInv'
<1> SUFFICES ASSUME TextInv, RemoveCancelled PROVE TextInv'
  OBVIOUS
<1>1. EditInv /\ EditInv'
  BY RemoveEdit DEF TextInv
<1>2. PICK h : HP!Shortened(h) /\ HP!DropLast(h) /\ UNCHANGED <<wasCleared, doc, saved>>
  BY <1>1, CancelFacts DEF RemoveCancelled
<1>3. /\ hist' = h /\ Len(h) = Len(hist) - 1 /\ Len(hist) \in Nat
      /\ \A i \in 1..Len(h) : /\ h[i].addr = hist[i].addr
                              /\ h[i].before = hist[i].before
                              /\ i < Len(h) => h[i].after = hist[i].after
      /\ Len(h) > 0 => h[Len(h)].after = IF HP!Done < Len(hist)
                                         THEN hist[Len(h)].after
                                         ELSE hist[Len(hist)].after
  BY <1>1, <1>2, DropFacts, HistoryFacts
<1>4. HP!Done < Len(hist)
  BY <1>1, <1>3 DEF EditInv, PlaceOK, RemoveCancelled
<1>5. \A i \in 1..Len(h) : h[i].after = hist[i].after /\ i \in 1..Len(hist)
  BY <1>3, <1>4
<1>6. CommandsFit' /\ UNCHANGED object
  BY <1>3, <1>5 DEF TextInv, CommandsFit, RemoveCancelled
<1>7. CursorOK'
  <2>1. cursor <= Size(doc) /\ cursor' = cursor /\ doc' = doc /\ pc' \in {"idle", "merge"}
    BY <1>2 DEF TextInv, CursorOK, RemoveCancelled, Updated, Return
  <2>2. oldCursor' <= MaxText
    <3>1. oldCursor <= MaxText /\ oldCursor' \in {oldCursor, 0} /\ MaxText \in Nat
      BY MaxTextAssumption DEF TextInv, CursorOK, RemoveCancelled, Updated, Return
    <3>2. QED
      BY <3>1
  <2>3. QED
    BY <2>1, <2>2 DEF CursorOK
<1>8. ~Uninterrupted
  BY DEF TextInv, TypingOK, RemoveCancelled
<1>9. TypingOK'
  BY <1>8 DEF TypingOK, Uninterrupted
<1>10. QED
  BY <1>1, <1>6, <1>7, <1>9 DEF TextInv

\* A cursor that is put back is in the text.
LEMMA PutBackFacts ==
  ASSUME NEW p \in Nat, NEW t \in Text, NEW q \in PutBack(p, t)
  PROVE  q <= Size(t)
<1>1. Size(t) \in Nat /\ (t # NoText => Size(t) = Len(t))
  BY SizeFacts, MaxTextAssumption
<1>2. q = IF t = NoText THEN 0 ELSE Smaller(p, Len(t))
  BY DEF PutBack
<1>3. QED
  BY <1>1, <1>2 DEF Smaller

LEMMA ShowText == TextInv /\ Show => TextInv'
<1> SUFFICES ASSUME TextInv, Show PROVE TextInv'
  OBVIOUS
<1>1. EditInv' /\ UNCHANGED <<historyVars, object, continueText, validation>>
  BY ShowEdit DEF TextInv, Show
<1>2. HP!Done' = HP!Done
  BY <1>1 DEF historyVars, HP!Done, HP!Position
<1>3. CommandsFit' /\ \A c \in DOMAIN object' : object'[c] \in Object
  BY <1>1 DEF TextInv, CommandsFit, historyVars
<1>4. \/ pc = "view" /\ pc' = "merge" /\ UNCHANGED <<oldCursor, merging>>
      \/ pc' = "idle" /\ oldCursor' = 0 /\ merging' = FALSE
  <2>1. merging => pc = "view"
    BY DEF Show, TextInv, EditInv, PlaceOK
  <2>2. QED
    BY <2>1 DEF Show, Updated, Return
<1>5. CursorOK'
  <2>1. cursor <= Size(doc) /\ oldCursor <= MaxText /\ MaxText \in Nat
    BY MaxTextAssumption DEF TextInv, CursorOK
  <2>2. oldCursor \in Nat /\ doc \in Text
    BY HistoryFacts DEF TextInv, EditInv, LocalsOK
  <2>3. cursor' <= Size(doc)
    BY <2>1, <2>2, PutBackFacts DEF Show
  <2>4. doc' = doc
    BY <1>1 DEF historyVars
  <2>5. QED
    BY <2>1, <2>3, <2>4, <1>4 DEF CursorOK, Size
<1>6. TypingOK'
  <2> SUFFICES ASSUME Uninterrupted PROVE TypingOK'
    BY DEF TypingOK, Uninterrupted
  <2>1. /\ validation # 2 /\ pc \in {"view", "redone"}
        /\ pc = "redone" => ~continueText
        /\ Typing => HP!Done > 0 /\ cursor = PosAfter(LastObject)
        /\ GoesOn => LastObject.pos = PosAfter(object[hist[Len(hist) - 1].addr])
    BY DEF TextInv, TypingOK, Show
  <2>2. (Typing' => Typing) /\ (GoesOn' => GoesOn)
    BY <1>1, <1>4, <2>1 DEF Typing, GoesOn, historyVars
  <2>3. LastObject' = LastObject /\ UNCHANGED <<hist, object, cursor, validation>>
    BY <1>1 DEF LastObject, historyVars, Show, PutBack, Uninterrupted
  <2>4. pc' \in {"merge", "idle"}
    BY <1>4
  <2>5. QED
    BY <2>1, <2>2, <2>3, <2>4, <1>2 DEF TypingOK
<1>7. QED
  BY <1>1, <1>3, <1>5, <1>6 DEF TextInv

LEMMA IdleText ==
  ASSUME TextInv, Move \/ SetValidation \/ UNCHANGED vars
  PROVE  TextInv'
<1>1. EditInv' /\ UNCHANGED <<historyVars, object>>
  BY NextEdit DEF TextInv, Next, Move, SetValidation, vars
<1>2. HP!Done' = HP!Done /\ LastObject' = LastObject
  BY <1>1 DEF historyVars, HP!Done, HP!Position, LastObject
<1>3. CommandsFit' /\ \A c \in DOMAIN object' : object'[c] \in Object
  BY <1>1 DEF TextInv, CommandsFit, historyVars
<1>4. CASE Move \/ SetValidation
  <2>1. pc = "idle" /\ UNCHANGED locals /\ continueText' = FALSE
    BY <1>4 DEF Move, SetValidation
  <2>2. CursorOK'
    <3>1. cursor' <= Size(doc)
      <4>1. CASE Move
        <5>1. doc \in Text
          BY HistoryFacts DEF TextInv
        <5>2. CASE doc = NoText
          BY <4>1, <5>2 DEF Move, Size
        <5>3. CASE doc # NoText
          BY <4>1, <5>1, <5>3, SizeFacts DEF Move
        <5>4. QED
          BY <5>2, <5>3
      <4>2. CASE SetValidation
        BY <4>2 DEF SetValidation, TextInv, CursorOK
      <4>3. QED
        BY <1>4, <4>1, <4>2
    <3>2. oldCursor' <= MaxText /\ pc' = "idle" /\ doc' = doc
      BY <1>1, <2>1 DEF TextInv, CursorOK, locals, historyVars
    <3>3. QED
      BY <3>1, <3>2 DEF CursorOK, Size
  <2>3. TypingOK'
    <3> SUFFICES ASSUME Uninterrupted PROVE TypingOK'
      BY DEF TypingOK, Uninterrupted
    <3>1. validation' # 2
      BY <1>4 DEF Move, SetValidation, TextInv, TypingOK, Uninterrupted
    <3>2. QED
      BY <2>1, <3>1 DEF TypingOK, Typing, GoesOn, locals
  <2>4. QED
    BY <1>1, <1>3, <2>2, <2>3 DEF TextInv
<1>5. CASE UNCHANGED vars
  <2>1. CursorOK'
    BY <1>2, <1>5 DEF TextInv, CursorOK, vars, historyVars, locals, Size
  <2>2. TypingOK'
    <3>1. (Typing' <=> Typing) /\ (GoesOn' <=> GoesOn)
      BY <1>5 DEF vars, historyVars, locals, Typing, GoesOn
    <3>2. UNCHANGED <<hist, object, cursor, validation, pc, continueText>>
      BY <1>5 DEF vars, historyVars, locals
    <3>3. QED
      BY <1>2, <3>1, <3>2 DEF TextInv, TypingOK, Uninterrupted
  <2>3. QED
    BY <1>1, <1>3, <2>1, <2>2 DEF TextInv
<1>6. QED
  BY <1>4, <1>5

\* What ends the typing if nothing interrupts it.
LEMMA TypingEnds ==
  ASSUME Uninterrupted, KeepsTyping PROVE continueText' = FALSE
BY DEF Uninterrupted, KeepsTyping

LEMMA UndoText == TextInv /\ Undo => TextInv'
<1> SUFFICES ASSUME TextInv, Undo PROVE TextInv'
  OBVIOUS
<1>1. EditInv /\ EditInv' /\ ListFacts
  BY UndoEdit, ListNow DEF TextInv
<1>2. /\ HP!SameCommands /\ doc' = hist[HP!Done].before
      /\ HP!Done \in 1..Len(hist) /\ hist[HP!Done].addr = lastDone
  BY <1>1, UndoFacts DEF Undo
<1>3. CommandsFit' /\ UNCHANGED object
  BY <1>2, SameFits DEF TextInv, Undo
<1>4. CursorOK'
  <2>1. PICK o, b, a : o = LastObject /\ b = hist[HP!Done].before /\ a = hist[HP!Done].after
    OBVIOUS
  <2>2. o \in WideObject /\ b \in Text /\ a \in Text /\ a # NoText /\ Sized(o, b, a)
    BY <1>1, <1>2, <2>1 DEF ListFacts, TextInv, CommandsFit, Fits, LastObject
  <2>3. PosBefore(o) <= Size(b)
    BY <2>2, FitsFacts
  <2>4. /\ cursor' \in {PosBefore(o)} \cup PutBack(cursor, b)
        /\ doc' = b /\ pc' = "idle" /\ oldCursor' = oldCursor
    BY <1>2, <2>1 DEF Undo, locals
  <2>5. cursor' <= Size(b)
    BY <2>2, <2>3, <2>4, PutBackFacts DEF TextInv, EditInv, LocalsOK
  <2>6. QED
    BY <2>4, <2>5 DEF TextInv, CursorOK
<1>5. TypingOK'
  <2> SUFFICES ASSUME Uninterrupted PROVE TypingOK'
    BY DEF TypingOK, Uninterrupted
  <2>1. continueText' = FALSE /\ pc' = "idle" /\ validation' # 2
    BY TypingEnds DEF Undo, locals, TextInv, TypingOK
  <2>2. QED
    BY <2>1 DEF TypingOK, Typing, GoesOn
<1>6. QED
  BY <1>1, <1>3, <1>4, <1>5 DEF TextInv

LEMMA RedoText == TextInv /\ Redo => TextInv'
<1> SUFFICES ASSUME TextInv, Redo PROVE TextInv'
  OBVIOUS
<1>1. EditInv /\ EditInv' /\ ListFacts
  BY RedoEdit, ListNow DEF TextInv
<1>2. PICK m : m = HP!Done + 1
  OBVIOUS
<1>3. /\ HP!SameCommands /\ doc = hist[m].before /\ doc' = hist[m].after
      /\ m \in 1..Len(hist) /\ hist[m].addr = lastDone' /\ HP!Done' = m
  BY <1>1, <1>2, RedoFacts DEF Redo
<1>4. CommandsFit' /\ UNCHANGED object
  BY <1>3, SameFits DEF TextInv, Redo
<1>5. CursorOK'
  <2>1. PICK o, b, a : o = object[lastDone'] /\ b = hist[m].before /\ a = hist[m].after
    OBVIOUS
  <2>2. o \in WideObject /\ b \in Text /\ a \in Text /\ a # NoText /\ Sized(o, b, a)
    BY <1>1, <1>3, <2>1 DEF ListFacts, TextInv, CommandsFit, Fits
  <2>3. PosAfter(o) <= Size(a)
    BY <2>2, FitsFacts
  <2>4. cursor' = PosAfter(o) /\ doc' = a /\ pc' = "redone" /\ oldCursor' = cursor
    BY <1>3, <2>1 DEF Redo
  <2>5. cursor <= Size(b) /\ cursor <= MaxText
    <3>1. cursor \in Nat /\ cursor <= Size(doc) /\ doc = b
      BY <1>1, <1>3, <2>1 DEF TextInv, CursorOK, EditInv, LocalsOK
    <3>2. Size(b) \in 0..MaxText /\ MaxText \in Nat
      BY <2>2, SizeFacts, MaxTextAssumption
    <3>3. QED
      BY <3>1, <3>2
  <2>6. hist'[HP!Done'].before = b
    BY <1>3, <2>1 DEF HP!SameCommands
  <2>7. QED
    BY <2>3, <2>4, <2>5, <2>6 DEF CursorOK
<1>6. TypingOK'
  <2> SUFFICES ASSUME Uninterrupted PROVE TypingOK'
    BY DEF TypingOK, Uninterrupted
  <2>1. continueText' = FALSE /\ pc' = "redone" /\ validation' # 2
    BY TypingEnds DEF Redo, TextInv, TypingOK
  <2>2. QED
    BY <2>1 DEF TypingOK, Typing, GoesOn
<1>7. QED
  BY <1>1, <1>4, <1>5, <1>6 DEF TextInv

LEMMA SaveText == TextInv /\ Save => TextInv'
<1> SUFFICES ASSUME TextInv, Save PROVE TextInv'
  OBVIOUS
<1>1. EditInv' /\ HP!SetNotModified
  BY SaveEdit, SaveFacts DEF TextInv
<1>2. UNCHANGED <<hist, lastDone, doc, object, cursor, validation, locals>>
  BY <1>1 DEF HP!SetNotModified, Save
<1>3. CommandsFit' /\ \A c \in DOMAIN object' : object'[c] \in Object
  BY <1>2 DEF TextInv, CommandsFit
<1>4. CursorOK'
  BY <1>2 DEF TextInv, CursorOK, Save, locals, Size
<1>5. TypingOK'
  <2> SUFFICES ASSUME Uninterrupted PROVE TypingOK'
    BY DEF TypingOK, Uninterrupted
  <2>1. continueText' = FALSE /\ pc' = "idle" /\ validation' # 2
    BY <1>2, TypingEnds DEF Save, locals, TextInv, TypingOK
  <2>2. QED
    BY <2>1 DEF TypingOK, Typing, GoesOn
<1>6. QED
  BY <1>1, <1>3, <1>4, <1>5 DEF TextInv

\* Two insertions, the second where the first left the cursor, are one.
LEMMA MergedFits ==
  ASSUME NEW o \in WideObject, NEW p \in WideObject, Mergeable(o, p),
         NEW b \in Text, NEW a \in Text, a # NoText,
         EditInv, doc # NoText,
         Fits(o, b, a), Fits(p, a, doc),
         Uninterrupted => p.pos = PosAfter(o)
  PROVE  /\ Fits(Merged(o, p), b, doc)
         /\ p.pos = PosAfter(o) => PosAfter(Merged(o, p)) = PosAfter(p)
<1>1. PICK r : r = Merged(o, p)
  OBVIOUS
<1>2. /\ r \in WideObject /\ r.kind = o.kind /\ r.pos = o.pos
      /\ r.text = IF o.kind = "InsertText" THEN o.text \o p.text ELSE doc
  BY <1>1, MergedIsWide
<1>3. /\ doc \in Text /\ doc \in Seq(Char) /\ a \in Seq(Char)
      /\ Len(doc) \in Nat /\ Len(a) \in Nat
  BY HistoryFacts, TextFacts, LenProperties
<1>4. PICK s \in Seq(Char), u \in Seq(Char) : s = o.text /\ u = p.text
  BY DEF WideObject
<1>5. /\ Len(s) \in Nat /\ Len(u) \in Nat /\ o.pos \in Nat /\ p.pos \in Nat
      /\ s \o u \in Seq(Char) /\ Len(s \o u) = Len(s) + Len(u)
  BY LenProperties, ConcatProperties DEF WideObject
<1>6. p.kind = "InsertText" /\ o.kind \in {"InsertText", "InsertTextNode"}
  BY DEF Mergeable
<1>7. Len(doc) = Len(a) + Len(u) /\ (Uninterrupted => doc = Insert(a, p.pos, u))
  BY <1>4, <1>6 DEF Fits, Sized, Makes
<1>8. PosAfter(o) = o.pos + Len(s) /\ PosAfter(p) = p.pos + Len(u)
      /\ PosAfter(r) = o.pos + Len(r.text)
  BY <1>2, <1>4, <1>6 DEF PosAfter
<1>9. CASE o.kind = "InsertText"
  <2>1. /\ b # NoText /\ o.pos <= Len(b) /\ Len(a) = Len(b) + Len(s)
        /\ Uninterrupted => a = Insert(b, o.pos, s)
    BY <1>4, <1>9 DEF Fits, Sized, Makes
  <2>2. r.text = s \o u /\ r.kind = "InsertText" /\ r.pos = o.pos
    BY <1>2, <1>4, <1>9
  <2>3. b \in Seq(Char) /\ Len(b) \in Nat
    BY <2>1, TextFacts, LenProperties
  <2>4. Sized(r, b, doc)
    <3>1. Len(doc) = Len(b) + Len(r.text)
      BY <1>5, <1>7, <2>1, <2>2, <2>3
    <3>2. QED
      BY <2>1, <2>2, <3>1 DEF Sized
  <2>5. Uninterrupted => Makes(r, b, doc)
    <3> SUFFICES ASSUME Uninterrupted PROVE Makes(r, b, doc)
      OBVIOUS
    <3>1. doc = Insert(Insert(b, o.pos, s), o.pos + Len(s), u)
      BY <1>7, <1>8, <2>1
    <3>2. PICK i \in 0..Len(b) : i = o.pos
      BY <1>5, <2>1, <2>3
    <3>3. Insert(Insert(b, i, s), i + Len(s), u) = Insert(b, i, s \o u)
      BY <2>3, InsertsJoin
    <3>4. QED
      BY <2>2, <3>1, <3>2, <3>3 DEF Makes
  <2>6. p.pos = PosAfter(o) => PosAfter(r) = PosAfter(p)
    BY <1>5, <1>8, <2>2
  <2>7. QED
    BY <1>1, <2>4, <2>5, <2>6 DEF Fits
<1>10. CASE o.kind = "InsertTextNode"
  <2>1. b = NoText /\ o.pos = 0 /\ Len(a) = Len(s)
    BY <1>4, <1>10 DEF Fits, Sized
  <2>2. r.text = doc /\ r.kind = "InsertTextNode" /\ r.pos = 0
    BY <1>2, <1>10, <2>1
  <2>3. Sized(r, b, doc) /\ Makes(r, b, doc)
    BY <2>1, <2>2 DEF Sized, Makes
  <2>4. p.pos = PosAfter(o) => PosAfter(r) = PosAfter(p)
    BY <1>3, <1>5, <1>7, <1>8, <2>1, <2>2
  <2>5. QED
    BY <1>1, <2>3, <2>4 DEF Fits
<1>11. QED
  BY <1>6, <1>9, <1>10

\* The commands are a chain, and the text is the end of what is done.
LEMMA ChainFacts ==
  ASSUME EditInv, HP!Done = Len(hist), Len(hist) >= 2
  PROVE  hist[Len(hist) - 1].after = hist[Len(hist)].before /\ hist[Len(hist)].after = doc
<1>1. Len(hist) \in Nat /\ HP!CommandsInContext
  BY HistoryFacts DEF EditInv, HP!HistoryInv
<1>2. Len(hist) - 1 \in 1..(Len(hist) - 1) /\ Len(hist) \in 1..Len(hist)
  BY <1>1
<1>3. \A i \in 1..(Len(hist) - 1) : hist[i].after = hist[i + 1].before
  BY <1>1 DEF HP!CommandsInContext
<1>4. PICK k : k = Len(hist) - 1 /\ k + 1 = Len(hist)
  BY <1>1
<1>5. hist[k].after = hist[k + 1].before
  BY <1>2, <1>3, <1>4
<1>6. hist[Len(hist)].after = doc
  BY <1>2, HistoryFacts
<1>7. QED
  BY <1>4, <1>5, <1>6

LEMMA MergeText == TextInv /\ MergeTyped => TextInv'
<1> SUFFICES ASSUME TextInv, MergeTyped PROVE TextInv'
  OBVIOUS
<1> DEFINE n == Len(hist)
           o == object[hist[n - 1].addr]
           p == object[hist[n].addr]
<1>1. EditInv /\ EditInv' /\ ListFacts /\ ListFacts'
  BY MergeEdit, ListNow, ListNext DEF TextInv
<1>2. HP!Done = n /\ n \in Nat
  BY <1>1, HistoryFacts DEF EditInv, PlaceOK, MergeTyped
<1>3. pc' = "idle" /\ oldCursor' = 0 /\ merging' = FALSE
      /\ UNCHANGED <<cursor, continueText, validation>>
  BY DEF MergeTyped, Return
<1>4. CASE n >= 2 /\ Mergeable(o, p)
  <2>1. /\ History!MergeLastCommand
        /\ object' = [object EXCEPT ![hist[n - 1].addr] = Merged(o, p)]
    BY <1>4 DEF MergeTyped
  <2>2. PICK h : HP!Shortened(h) /\ HP!DropLast(h) /\ UNCHANGED <<wasCleared, doc, saved>>
    BY <1>1, <2>1, MergeFacts
  <2>3. PICK m \in Nat : m = n - 1
    BY <1>2, <1>4
  <2>4. /\ hist' = h /\ Len(h) = m /\ HP!Done' = m /\ doc' = doc
        /\ m \in 1..m /\ m \in 1..n /\ n \in 1..n
        /\ \A i \in 1..m : /\ h[i].addr = hist[i].addr
                           /\ h[i].before = hist[i].before
                           /\ i < m => h[i].after = hist[i].after
        /\ h[m].after = hist[n].after
    BY <1>1, <1>2, <1>4, <2>2, <2>3, DropFacts
  <2>5. /\ hist[m].after = hist[n].before /\ hist[n].after = doc
    BY <1>1, <1>2, <1>4, <2>3, ChainFacts
  <2>6. PICK c, b, a, oo, pp : /\ c = hist[m].addr /\ b = hist[m].before /\ a = hist[m].after
                               /\ oo = o /\ pp = p
    OBVIOUS
  <2>7. /\ oo \in WideObject /\ pp \in WideObject /\ b \in Text /\ a \in Text
        /\ a # NoText /\ doc # NoText /\ Mergeable(oo, pp)
        /\ Fits(oo, b, a) /\ Fits(pp, a, doc)
    BY <1>1, <1>4, <2>3, <2>4, <2>5, <2>6 DEF ListFacts, TextInv, CommandsFit
  <2>8. p = LastObject
    <3>1. hist[n].addr = lastDone
      BY <1>1, <1>2, <2>4, HistoryFacts
    <3>2. QED
      BY <3>1 DEF LastObject
  <2>9. Uninterrupted => pp.pos = PosAfter(oo) /\ cursor = PosAfter(pp)
    <3>1. merging /\ pc = "merge"
      BY DEF TextInv, EditInv, PlaceOK, MergeTyped
    <3>2. GoesOn /\ Typing
      BY <1>4, <3>1 DEF GoesOn, Typing
    <3>3. QED
      BY <3>2, <2>6, <2>8 DEF TextInv, TypingOK
  <2>10. PICK r : r = Merged(oo, pp)
    OBVIOUS
  <2>11. /\ Fits(r, b, doc) /\ r \in WideObject
         /\ pp.pos = PosAfter(oo) => PosAfter(r) = PosAfter(pp)
    BY <1>1, <2>7, <2>9, <2>10, MergedFits, MergedIsWide
  <2>12. /\ DOMAIN object' = DOMAIN object /\ c \in DOMAIN object
         /\ object'[c] = r
         /\ \A x \in DOMAIN object : x # c => object'[x] = object[x]
    <3>1. object' = [object EXCEPT ![c] = r]
      BY <2>1, <2>3, <2>6, <2>10
    <3>2. c \in DOMAIN object
      BY <2>4, <2>6 DEF TextInv, EditInv, ObjectsOK
    <3>3. QED
      BY <3>1, <3>2
  <2>13. CommandsFit'
    <3>1. ASSUME NEW i \in 1..m
          PROVE  Fits(object'[h[i].addr], h[i].before, h[i].after)
      <4>1. CASE i = m
        <5>1. h[i].addr = c /\ h[i].before = b /\ h[i].after = doc
          BY <4>1, <2>4, <2>5, <2>6
        <5>2. QED
          BY <5>1, <2>11, <2>12
      <4>2. CASE i # m
        <5>1. i \in 1..n /\ i < m
          BY <4>2, <1>2, <2>3
        <5>2. h[i].addr = hist[i].addr /\ h[i].before = hist[i].before /\ h[i].after = hist[i].after
          BY <5>1, <2>4
        <5>3. hist[i].addr # c /\ hist[i].addr \in DOMAIN object
          BY <1>1, <2>4, <2>6, <4>2, <5>1, HistoryFacts DEF EditInv, ObjectsOK
        <5>4. Fits(object[hist[i].addr], hist[i].before, hist[i].after)
          BY <5>1 DEF TextInv, CommandsFit
        <5>5. QED
          BY <5>2, <5>3, <5>4, <2>12
      <4>3. QED
        BY <4>1, <4>2
    <3>2. QED
      BY <3>1, <2>4 DEF CommandsFit
  <2>14. \A x \in DOMAIN object' : object'[x] \in Object
    <3>1. r \in Object
      <4>1. doc \in Text
        BY <1>1, HistoryFacts
      <4>2. QED
        BY <4>1, <2>7, <2>11, FitsFacts DEF Fits
    <3>2. QED
      BY <3>1, <2>12 DEF TextInv
  <2>15. CursorOK'
    BY <1>3, <2>4, MaxTextAssumption DEF TextInv, CursorOK, Size
  <2>16. TypingOK'
    <3> SUFFICES ASSUME Uninterrupted PROVE TypingOK'
      BY DEF TypingOK, Uninterrupted
    <3>1. lastDone' = c
      <4>1. h[m].addr = c /\ m > 0
        BY <2>4, <2>6
      <4>2. QED
        BY <4>1, <1>1, <2>4 DEF ListFacts
    <3>2. LastObject' = r
      BY <3>1, <2>12 DEF LastObject
    <3>3. cursor' = PosAfter(r)
      BY <1>3, <2>9, <2>11
    <3>4. validation' # 2 /\ HP!Done' > 0
      BY <1>3, <2>4 DEF TextInv, TypingOK
    <3>5. QED
      BY <1>3, <3>2, <3>3, <3>4 DEF TypingOK, GoesOn
  <2>17. QED
    BY <1>1, <2>13, <2>14, <2>15, <2>16 DEF TextInv
<1>5. CASE ~(n >= 2 /\ Mergeable(o, p))
  <2>1. UNCHANGED <<historyVars, object>>
    BY <1>5 DEF MergeTyped
  <2>2. HP!Done' = HP!Done /\ LastObject' = LastObject
    BY <2>1 DEF historyVars, HP!Done, HP!Position, LastObject
  <2>3. CommandsFit' /\ \A x \in DOMAIN object' : object'[x] \in Object
    BY <2>1 DEF TextInv, CommandsFit, historyVars
  <2>4. CursorOK'
    BY <1>3, <2>1, MaxTextAssumption DEF TextInv, CursorOK, Size, historyVars
  <2>5. TypingOK'
    <3> SUFFICES ASSUME Uninterrupted PROVE TypingOK'
      BY DEF TypingOK, Uninterrupted
    <3>1. HP!Done > 0 /\ cursor = PosAfter(LastObject) /\ validation # 2
      BY DEF TextInv, TypingOK, Typing, MergeTyped
    <3>2. QED
      BY <1>3, <2>2, <3>1 DEF TypingOK, GoesOn
  <2>6. QED
    BY <1>1, <2>3, <2>4, <2>5 DEF TextInv
<1>6. QED
  BY <1>4, <1>5

LEMMA NextText == TextInv /\ [Next]_vars => TextInv'
<1> SUFFICES ASSUME TextInv, [Next]_vars PROVE TextInv'
  OBVIOUS
<1>1. CASE (\E x \in Char : Type(x)) \/ Delete
  BY <1>1, KeyedBy, KeyText DEF TextInv
<1>2. CASE Refuse
  BY <1>2, RefuseText
<1>3. CASE Show
  BY <1>3, ShowText
<1>4. CASE Cancel
  BY <1>4, CancelText
<1>5. CASE RemoveCancelled
  BY <1>5, RemoveText
<1>6. CASE MergeTyped
  BY <1>6, MergeText
<1>7. CASE Move \/ SetValidation \/ UNCHANGED vars
  BY <1>7, IdleText
<1>8. CASE Undo
  BY <1>8, UndoText
<1>9. CASE Redo
  BY <1>9, RedoText
<1>10. CASE Save
  BY <1>10, SaveText
<1>11. QED
  BY <1>1, <1>2, <1>3, <1>4, <1>5, <1>6, <1>7, <1>8, <1>9, <1>10 DEF Next

\* The variables keep their types, in any editor: the cursor stays in the text,
\* and no command is longer than the text it made.
THEOREM EditorTypeCorrect == Spec => []TypeOK
<1>1. TextInv => TypeOK
  <2> SUFFICES ASSUME TextInv PROVE TypeOK
    OBVIOUS
  <2>1. History!TypeOK /\ DOMAIN object \subseteq Command
    BY SameStates DEF TextInv, EditInv, HP!HistoryInv, ObjectsOK
  <2>2. cursor \in 0..MaxText /\ oldCursor \in 0..MaxText
    <3>1. cursor \in Nat /\ oldCursor \in Nat /\ cursor <= Size(doc) /\ oldCursor <= MaxText
      BY DEF TextInv, EditInv, LocalsOK, CursorOK
    <3>2. Size(doc) \in 0..MaxText /\ MaxText \in Nat
      BY HistoryFacts, SizeFacts, MaxTextAssumption DEF TextInv
    <3>3. QED
      BY <3>1, <3>2
  <2>3. QED
    BY <2>1, <2>2 DEF TypeOK, TextInv, EditInv, LocalsOK
<1>2. QED
  BY <1>1, InitText, NextText, PTL DEF Spec

\* An object that made a text of another makes it again, and takes it back.
LEMMA MakesInverts ==
  ASSUME NEW o \in WideObject, NEW b \in Text, NEW a \in Text, a # NoText,
         Sized(o, b, a), Makes(o, b, a)
  PROVE  Execute(o, b) = a /\ Unexecute(o, a) = b
<1>1. /\ o.text \in Seq(Char) /\ o.pos \in Nat /\ Len(o.text) \in Nat
      /\ a \in Seq(Char) /\ Len(a) \in Nat
  BY TextFacts, LenProperties DEF WideObject
<1>2. CASE o.kind = "InsertTextNode"
  BY <1>2 DEF Sized, Makes, Execute, Unexecute
<1>3. CASE o.kind = "InsertText"
  <2>1. b \in Seq(Char) /\ Len(b) \in Nat /\ o.pos <= Len(b) /\ a = Insert(b, o.pos, o.text)
    BY <1>3, TextFacts, LenProperties DEF Sized, Makes
  <2>2. Remove(a, o.pos, Len(o.text)) = b
    BY <1>1, <2>1, RemoveInserted
  <2>3. QED
    BY <1>3, <2>1, <2>2 DEF Execute, Unexecute
<1>4. CASE o.kind = "RemoveText"
  <2>1. o.pos <= Len(a) /\ b = Insert(a, o.pos, o.text)
    BY <1>4 DEF Sized, Makes
  <2>2. Remove(b, o.pos, Len(o.text)) = a
    BY <1>1, <2>1, RemoveInserted
  <2>3. QED
    BY <1>4, <2>1, <2>2 DEF Execute, Unexecute
<1>5. QED
  BY <1>2, <1>3, <1>4 DEF WideObject

\* If nothing but a click comes between two keys, every command, merged or not,
\* makes the text it is said to make and takes it back: InsertText::mergeWith
\* and InsertTextNode::mergeWith may append without looking at the places.
THEOREM CommandsTakeBack == Uninterrupted => (Spec => []CommandsInvert)
<1> SUFFICES ASSUME Uninterrupted PROVE Spec => []CommandsInvert
  OBVIOUS
<1>1. TextInv => CommandsInvert
  <2> SUFFICES ASSUME TextInv, NEW i \in 1..Len(hist)
               PROVE  /\ Execute(object[hist[i].addr], hist[i].before) = hist[i].after
                      /\ Unexecute(object[hist[i].addr], hist[i].after) = hist[i].before
    BY DEF CommandsInvert
  <2>1. PICK o, b, a : o = object[hist[i].addr] /\ b = hist[i].before /\ a = hist[i].after
    OBVIOUS
  <2>2. /\ o \in WideObject /\ b \in Text /\ a \in Text /\ a # NoText
        /\ Sized(o, b, a) /\ Makes(o, b, a)
    BY <2>1, ListNow DEF ListFacts, TextInv, CommandsFit, Fits
  <2>3. Execute(o, b) = a /\ Unexecute(o, a) = b
    BY <2>2, MakesInverts
  <2>4. QED
    BY <2>1, <2>3
<1>2. QED
  BY <1>1, InitText, NextText, PTL DEF Spec

-----------------------------------------------------------------------------
(***************************************************************************)
(* The mark of the saved text. mergeLastCommand() forgets the mark when it  *)
(* drops the command after the marked one, and the document is then taken   *)
(* for the one that was opened: no typing may go on over the mark.          *)
(***************************************************************************)

MarkInv ==
  /\ TextInv
  /\ HP!MarkIsSaved /\ HP!FloorIsSaved
  /\ Typing => notModifiedAt # lastDone
  /\ GoesOn => notModifiedAt # hist[Len(hist) - 1].addr

LEMMA InitMark == Init => MarkInv
<1> SUFFICES ASSUME Init PROVE MarkInv
  OBVIOUS
<1>1. TextInv
  BY InitText
<1>2. hist = << >> /\ lastDone = NULL /\ notModifiedAt = NULL /\ saved = doc
      /\ Len(hist) = 0
  BY DEF Init, History!Init
<1>3. HP!MarkIsSaved /\ HP!FloorIsSaved
  BY <1>2 DEF HP!MarkIsSaved, HP!FloorIsSaved, HP!Floor
<1>4. ~Typing /\ ~GoesOn
  BY DEF Init, Typing, GoesOn
<1>5. QED
  BY <1>1, <1>3, <1>4 DEF MarkInv

LEMMA KeyMark ==
  ASSUME MarkInv, ~AddressReuse, NEW o, Keyed(o), Start(o)
  PROVE  MarkInv'
<1>1. EditInv /\ TextInv'
  BY KeyText DEF MarkInv, TextInv
<1>2. PICK d : d = Execute(o, doc)
  OBVIOUS
<1>3. PICK c \in Command, k \in {0, 1} :
        d \in Text /\ HP!ExecuteAndAdd(c, d) /\ NewList(c, d, k)
  BY <1>1, <1>2, StartFacts
<1>4. HP!MarkIsSaved' /\ HP!FloorIsSaved'
  <2>1. HP!HistoryInv /\ HP!MarkIsSaved /\ HP!FloorIsSaved /\ HP!ExecuteAndAdd(c, d)
        /\ d \in Text
    BY <1>3 DEF MarkInv, TextInv, EditInv
  <2>2. QED
    BY <2>1, HP!MarkExecute, NullAssumption, LimitAssumption, Switches
<1>5. notModifiedAt' = notModifiedAt /\ notModifiedAt # c /\ lastDone' = c
  BY <1>3 DEF HP!ExecuteAndAdd, HP!Fresh
<1>6. GoesOn' => notModifiedAt' # hist'[Len(hist') - 1].addr
  <2> SUFFICES ASSUME merging', Len(hist') >= 2
               PROVE  notModifiedAt # hist'[Len(hist') - 1].addr
    BY <1>5 DEF GoesOn
  <2>1. continueText /\ pc = "idle"
    BY DEF Keyed, Start
  <2>2. notModifiedAt # lastDone
    BY <2>1 DEF MarkInv, Typing
  <2>3. HP!Done \in 0..Len(hist) /\ Len(hist) \in Nat /\ HP!Done - k \in Nat
        /\ Len(hist') = HP!Done - k + 1
    BY <1>1, <1>3, HistoryFacts DEF NewList
  <2>4. PICK m \in 1..(HP!Done - k) : m = Len(hist') - 1 /\ m + k = HP!Done
    BY <2>3
  <2>5. hist'[m] = hist[HP!Done] /\ HP!Done > 0
    BY <1>3, <2>3, <2>4 DEF NewList
  <2>6. hist[HP!Done].addr = lastDone
    BY <1>1, <2>5, HistoryFacts
  <2>7. QED
    BY <2>2, <2>4, <2>5, <2>6
<1>7. QED
  BY <1>1, <1>4, <1>5, <1>6 DEF MarkInv

\* Steps that leave the history alone, and go on typing only if it went on.
LEMMA SameMark ==
  ASSUME MarkInv, TextInv', UNCHANGED historyVars, Typing' => Typing, GoesOn' => GoesOn
  PROVE  MarkInv'
<1>1. HP!MarkIsSaved' /\ HP!FloorIsSaved'
  BY DEF MarkInv, historyVars, HP!MarkIsSaved, HP!FloorIsSaved, HP!Floor
<1>2. QED
  BY <1>1 DEF MarkInv, historyVars

LEMMA ShowMark == MarkInv /\ Uninterrupted /\ Show => MarkInv'
<1> SUFFICES ASSUME MarkInv, Uninterrupted, Show PROVE MarkInv'
  OBVIOUS
<1>1. TextInv' /\ UNCHANGED <<historyVars, continueText>>
  BY ShowText DEF MarkInv, Show
<1>2. /\ pc \in {"view", "redone"}
      /\ pc = "redone" => ~continueText
      /\ \/ pc = "view" /\ pc' = "merge" /\ merging' = merging
         \/ pc' = "idle"
  <2>1. merging => pc = "view"
    BY DEF Show, MarkInv, TextInv, EditInv, PlaceOK
  <2>2. QED
    BY <2>1 DEF Show, Updated, Return, MarkInv, TextInv, TypingOK
<1>3. (Typing' => Typing) /\ (GoesOn' => GoesOn)
  BY <1>1, <1>2 DEF Typing, GoesOn, historyVars
<1>4. QED
  BY <1>1, <1>3, SameMark

LEMMA IdleMark ==
  ASSUME MarkInv, Move \/ SetValidation \/ UNCHANGED vars
  PROVE  MarkInv'
<1>1. TextInv' /\ UNCHANGED historyVars
  BY IdleText DEF MarkInv, Move, SetValidation, vars
<1>2. (Typing' => Typing) /\ (GoesOn' => GoesOn)
  <2>1. CASE Move \/ SetValidation
    <3>1. pc' = "idle" /\ continueText' = FALSE
      BY <2>1 DEF Move, SetValidation, locals
    <3>2. QED
      BY <3>1 DEF Typing, GoesOn
  <2>2. CASE UNCHANGED vars
    BY <2>2 DEF vars, historyVars, locals, Typing, GoesOn
  <2>3. QED
    BY <2>1, <2>2
<1>3. QED
  BY <1>1, <1>2, SameMark

LEMMA MoveMark == MarkInv /\ Uninterrupted /\ (Undo \/ Redo) => MarkInv'
<1> SUFFICES ASSUME MarkInv, Uninterrupted, Undo \/ Redo PROVE MarkInv'
  OBVIOUS
<1>1. TextInv'
  BY UndoText, RedoText DEF MarkInv
<1>2. HP!MarkIsSaved' /\ HP!FloorIsSaved'
  <2>1. HP!HistoryInv /\ HP!MarkIsSaved /\ HP!FloorIsSaved /\ (HP!Undo \/ HP!Redo)
    BY SameSteps DEF MarkInv, TextInv, EditInv, Undo, Redo
  <2>2. QED
    BY <2>1, HP!MarkUndoRedo, NullAssumption, LimitAssumption, Switches
<1>3. continueText' = FALSE /\ pc' \in {"idle", "redone"}
  BY TypingEnds DEF Undo, Redo, locals
<1>4. QED
  BY <1>1, <1>2, <1>3 DEF MarkInv, Typing, GoesOn

LEMMA SaveMark == MarkInv /\ Uninterrupted /\ Save => MarkInv'
<1> SUFFICES ASSUME MarkInv, Uninterrupted, Save PROVE MarkInv'
  OBVIOUS
<1>1. TextInv'
  BY SaveText DEF MarkInv
<1>2. HP!MarkIsSaved' /\ HP!FloorIsSaved'
  <2>1. HP!HistoryInv /\ HP!SetNotModified
    BY SameSteps DEF MarkInv, TextInv, EditInv, Save
  <2>2. QED
    BY <2>1, HP!MarkSave, NullAssumption, LimitAssumption, Switches
<1>3. continueText' = FALSE /\ pc' = "idle"
  BY TypingEnds DEF Save, locals
<1>4. QED
  BY <1>1, <1>2, <1>3 DEF MarkInv, Typing, GoesOn

LEMMA MergeMark == MarkInv /\ MergeTyped => MarkInv'
<1> SUFFICES ASSUME MarkInv, MergeTyped PROVE MarkInv'
  OBVIOUS
<1> DEFINE n == Len(hist)
           o == object[hist[n - 1].addr]
           p == object[hist[n].addr]
<1>1. EditInv /\ TextInv' /\ ListFacts' /\ pc = "merge" /\ merging
  BY MergeText, ListNext DEF MarkInv, TextInv, EditInv, PlaceOK, MergeTyped
<1>2. pc' = "idle" /\ Typing
  BY DEF MergeTyped, Return, Typing
<1>3. CASE n >= 2 /\ Mergeable(o, p)
  <2>1. History!MergeLastCommand /\ GoesOn
    BY <1>1, <1>3 DEF MergeTyped, GoesOn
  <2>2. PICK h : HP!Shortened(h) /\ HP!DropLast(h) /\ UNCHANGED <<wasCleared, doc, saved>>
    BY <1>1, <2>1, MergeFacts
  <2>3. PICK m \in Nat : m = n - 1
    BY <1>1, <1>3, HistoryFacts
  <2>4. /\ hist' = h /\ Len(h) = m /\ HP!Done' = m /\ m >= 1
        /\ h[m].addr = hist[m].addr /\ h[1].before = hist[1].before
    <3>1. HP!Done = n /\ n \in Nat
      BY <1>1, HistoryFacts DEF EditInv, PlaceOK
    <3>2. /\ hist' = h /\ Len(h) = n - 1
          /\ HP!Done' = IF HP!Done < n THEN HP!Done ELSE Len(h)
          /\ \A i \in 1..Len(h) : h[i].addr = hist[i].addr /\ h[i].before = hist[i].before
      BY <1>1, <2>2, DropFacts
    <3>3. QED
      BY <1>3, <2>3, <3>1, <3>2
  <2>5. HP!MarkIsSaved'
    <3>1. HP!HistoryInv /\ HP!MarkIsSaved /\ UNCHANGED saved
      BY <1>1, <2>2 DEF EditInv, MarkInv
    <3>2. QED
      BY <2>2, <3>1, HP!MarkDrop, NullAssumption, LimitAssumption, Switches
  <2>6. notModifiedAt # hist[m].addr
    BY <2>1, <2>3 DEF MarkInv
  <2>7. notModifiedAt' = notModifiedAt
    <3>1. h # << >>
      BY <2>4
    <3>2. QED
      BY <2>2, <2>4, <2>6, <3>1 DEF HP!DropLast
  <2>8. HP!FloorIsSaved'
    <3>1. hist # << >> /\ h # << >>
      BY <1>3, <2>4
    <3>2. HP!Floor' = HP!Floor
      BY <2>4, <3>1 DEF HP!Floor
    <3>3. QED
      BY <2>2, <2>7, <3>2 DEF MarkInv, HP!FloorIsSaved
  <2>9. lastDone' = hist[m].addr
    BY <1>1, <2>4 DEF ListFacts
  <2>10. QED
    BY <1>1, <1>2, <2>5, <2>6, <2>7, <2>8, <2>9 DEF MarkInv, GoesOn
<1>4. CASE ~(n >= 2 /\ Mergeable(o, p))
  <2>1. UNCHANGED historyVars /\ ~GoesOn'
    BY <1>2, <1>4 DEF MergeTyped, GoesOn
  <2>2. QED
    BY <1>1, <1>2, <2>1, SameMark
<1>5. QED
  BY <1>3, <1>4

LEMMA NextMark == MarkInv /\ Uninterrupted /\ ~AddressReuse /\ [Next]_vars => MarkInv'
<1> SUFFICES ASSUME MarkInv, Uninterrupted, ~AddressReuse, [Next]_vars PROVE MarkInv'
  OBVIOUS
<1>1. CASE (\E x \in Char : Type(x)) \/ Delete
  BY <1>1, KeyedBy, KeyMark DEF MarkInv, TextInv
<1>2. CASE Refuse
  BY <1>2 DEF MarkInv, TextInv, TypingOK, Refuse, Refused
<1>3. CASE Show
  BY <1>3, ShowMark
<1>4. CASE Cancel
  BY <1>4 DEF Cancel, Uninterrupted
<1>5. CASE RemoveCancelled
  BY <1>5 DEF MarkInv, TextInv, TypingOK, RemoveCancelled
<1>6. CASE MergeTyped
  BY <1>6, MergeMark
<1>7. CASE Move \/ SetValidation \/ UNCHANGED vars
  BY <1>7, IdleMark
<1>8. CASE Undo \/ Redo
  BY <1>8, MoveMark
<1>9. CASE Save
  BY <1>9, SaveMark
<1>10. QED
  BY <1>1, <1>2, <1>3, <1>4, <1>5, <1>6, <1>7, <1>8, <1>9 DEF Next

\* If nothing but a click comes between two keys, and the allocator does not
\* hand out again the address that notModifiedAt_ keeps, a text reported as not
\* modified is the one on the disk, though typing merges commands all the time.
THEOREM TypedTextIsKept ==
  Uninterrupted /\ ~AddressReuse => (Spec => []UnmodifiedIsSaved)
<1> SUFFICES ASSUME Uninterrupted, ~AddressReuse PROVE Spec => []UnmodifiedIsSaved
  OBVIOUS
<1>1. MarkInv => UnmodifiedIsSaved
  <2> SUFFICES ASSUME MarkInv, ~IsModified PROVE doc = saved
    BY DEF UnmodifiedIsSaved
  <2>1. HP!HistoryInv /\ HP!MarkIsSaved /\ HP!FloorIsSaved
    BY DEF MarkInv, TextInv, EditInv
  <2>2. HP!UnmodifiedIsSaved
    BY <2>1, HP!MarkMeansSaved, NullAssumption, LimitAssumption, Switches
  <2>3. ~HP!IsModified
    BY SameStates, Zenon DEF IsModified
  <2>4. QED
    BY <2>2, <2>3 DEF HP!UnmodifiedIsSaved
<1>2. MarkInv /\ [Next]_vars => MarkInv'
  BY NextMark
<1>3. QED
  BY <1>1, <1>2, InitMark, PTL DEF Spec

-----------------------------------------------------------------------------
\* Typing is a use of the history.

\* A key makes a command of the history, whose document is a text.
LEMMA KeyIsExecuted ==
  ASSUME EditInv, (\E x \in Char : Type(x)) \/ Delete
  PROVE  HP!Next
<1>1. PICK o : Start(o)
  BY DEF Type, Delete
<1>2. PICK c \in Command : History!ExecuteAndAdd(c, Execute(o, doc))
  BY <1>1 DEF Start
<1>3. PICK d : d = Execute(o, doc)
  OBVIOUS
<1>4. HP!ExecuteAndAdd(c, d)
  BY <1>2, <1>3, SameExecute
<1>5. EditInv'
  BY NextEdit DEF Next
<1>6. doc' = d /\ doc' \in Text
  BY <1>4, <1>5 DEF HP!ExecuteAndAdd, EditInv, HP!HistoryInv, HP!TypeOK
<1>7. QED
  BY <1>2, <1>4, <1>6 DEF HP!Next

\* Every step of an event is a step of the history, or leaves it alone.
LEMMA StepOfHistory == EditInv /\ [Next]_vars => [HP!Next]_(HP!vars)
<1> SUFFICES ASSUME EditInv, [Next]_vars PROVE [HP!Next]_(HP!vars)
  OBVIOUS
<1>1. CASE (\E x \in Char : Type(x)) \/ Delete
  BY <1>1, KeyIsExecuted
<1>2. CASE Refuse \/ Cancel \/ Undo
  BY <1>2, SameSteps DEF Refuse, Cancel, Undo, HP!Next
<1>3. CASE Redo
  BY <1>3, SameSteps DEF Redo, HP!Next
<1>4. CASE RemoveCancelled
  BY <1>4, SameSteps DEF RemoveCancelled, HP!Next
<1>5. CASE MergeTyped
  BY <1>5, SameSteps DEF MergeTyped, HP!Next, historyVars, HP!vars
<1>6. CASE Save
  BY <1>6, SameSteps DEF Save, HP!Next
<1>7. CASE Show \/ Move \/ SetValidation \/ UNCHANGED vars
  BY <1>7 DEF Show, Move, SetValidation, vars, historyVars, HP!vars
<1>8. QED
  BY <1>1, <1>2, <1>3, <1>4, <1>5, <1>6, <1>7 DEF Next

\* With typing, merging, cancelling, refusing and saving, and whatever comes between two
\* keys, undo and redo walk along a list of versions of the text: the event handlers
\* call the history only where it does what an undo history promises.
THEOREM TypingKeepsPromise == Spec => HP!KeepsPromise
<1>1. Init => HP!Init
  BY SameStates DEF Init
<1>2. Spec => HP!Spec
  BY <1>1, InitEdit, NextEdit, StepOfHistory, PTL DEF Spec, HP!Spec
<1>3. HP!Spec => HP!KeepsPromise
  BY HP!HistoryKeepsPromise, NullAssumption, LimitAssumption, Switches
<1>4. QED
  BY <1>2, <1>3, PTL

=============================================================================
