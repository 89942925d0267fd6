------------------------- MODULE AutoSaveQueueProofs -------------------------
(***************************************************************************)
(* Proofs about the list of the autosave manager, for every number of      *)
(* documents and in every order of events.                                 *)
(***************************************************************************)
EXTENDS AutoSaveQueue, SequenceTheorems, TLAPS

\* The inductive invariant: the flags, the list and the saver that is served.
QueueInv ==
  /\ TypeOK
  /\ WaitingIsQueued
  /\ ServedIsFront
  /\ WaitingIsModified

-----------------------------------------------------------------------------
\* The list as a set of savers.

LEMMA RangeByIndex ==
  ASSUME NEW q \in Seq(Saver)
  PROVE  /\ Range(q) = {q[i] : i \in 1..Len(q)}
         /\ Range(q) \subseteq Saver
         /\ q = <<>> <=> Range(q) = {}
<1>1. /\ q \in [1..Len(q) -> Saver] /\ DOMAIN q = 1..Len(q)
      /\ q # <<>> => 1 \in 1..Len(q)
  OBVIOUS
<1>2. Range(q) = {q[i] : i \in 1..Len(q)}
  BY <1>1 DEF Range
<1>3. q = <<>> => 1..Len(q) = {}
  OBVIOUS
<1>4. QED
  BY <1>1, <1>2, <1>3

\* A saver that was not in the list is there once, behind the others.
LEMMA AppendKeeps ==
  ASSUME NEW q \in Seq(Saver), IsInjective(q),
         NEW s \in Saver, s \notin Range(q)
  PROVE  /\ Append(q, s) \in Seq(Saver)
         /\ IsInjective(Append(q, s))
         /\ Range(Append(q, s)) = Range(q) \cup {s}
         /\ q # <<>> => Append(q, s) # <<>> /\ Head(Append(q, s)) = Head(q)
<1> DEFINE r == Append(q, s)
<1>1. /\ r \in Seq(Saver) /\ Len(r) = Len(q) + 1 /\ r[Len(q) + 1] = s
      /\ \A i \in 1..Len(q) : r[i] = q[i]
  OBVIOUS
<1>2. \A i \in 1..Len(q) : q[i] # s
  BY RangeByIndex
<1>3. IsInjective(r)
  BY <1>1, <1>2 DEF IsInjective
<1>4. Range(r) = Range(q) \cup {s}
  <2>1. Range(r) = {r[i] : i \in 1..Len(q) + 1}
    BY <1>1, RangeByIndex
  <2>2. QED
    BY <2>1, <1>1, RangeByIndex
<1>5. q # <<>> => r # <<>> /\ Head(r) = Head(q)
  BY <1>1
<1>6. QED
  BY <1>1, <1>3, <1>4, <1>5

\* The list without one of its savers.
LEMMA UnsubscribedKeeps ==
  ASSUME NEW q \in Seq(Saver), IsInjective(q), NEW s
  PROVE  /\ Unsubscribed(q, s) \in Seq(Saver)
         /\ IsInjective(Unsubscribed(q, s))
         /\ Range(Unsubscribed(q, s)) = Range(q) \ {s}
<1>1. CASE s \notin Range(q)
  BY <1>1 DEF Unsubscribed
<1>2. CASE s \in Range(q)
  <2> DEFINE at == CHOOSE i \in DOMAIN q : q[i] = s
             front == SubSeq(q, 1, at - 1)
             back == SubSeq(q, at + 1, Len(q))
             r == front \o back
  <2>1. at \in 1..Len(q) /\ q[at] = s
    BY <1>2 DEF Range
  <2> HIDE DEF at
  <2>2. /\ front \in Seq(Saver) /\ Len(front) = at - 1
        /\ \A i \in 1..at - 1 : front[i] = q[i]
    BY <2>1
  <2>3. /\ back \in Seq(Saver) /\ Len(back) = Len(q) - at
        /\ \A i \in 1..Len(q) - at : back[i] = q[at + i]
    BY <2>1
  <2> HIDE DEF front, back
  <2>4. /\ r \in Seq(Saver) /\ Len(r) = Len(q) - 1
        /\ \A i \in 1..Len(q) - 1 : r[i] = IF i < at THEN q[i] ELSE q[i + 1]
    <3>1. /\ r \in Seq(Saver) /\ Len(r) = Len(front) + Len(back)
          /\ \A i \in 1..Len(front) + Len(back) :
               r[i] = IF i <= Len(front) THEN front[i] ELSE back[i - Len(front)]
      BY <2>2, <2>3, ConcatProperties
    <3> HIDE DEF r
    <3>2. Len(r) = Len(q) - 1
      BY <3>1, <2>1, <2>2, <2>3
    <3>3. ASSUME NEW i \in 1..Len(q) - 1
          PROVE  r[i] = IF i < at THEN q[i] ELSE q[i + 1]
      <4>1. r[i] = IF i <= at - 1 THEN front[i] ELSE back[i - (at - 1)]
        BY <3>1, <3>2, <2>2
      <4>2. CASE i < at
        BY <4>1, <4>2, <2>1, <2>2
      <4>3. CASE ~(i < at)
        <5>1. /\ i - (at - 1) \in 1..Len(q) - at
              /\ at + (i - (at - 1)) = i + 1 /\ ~(i <= at - 1)
          BY <4>3, <2>1
        <5>2. QED
          BY <5>1, <4>1, <4>3, <2>3
      <4>4. QED
        BY <4>2, <4>3
    <3>4. QED
      BY <3>1, <3>2, <3>3
  <2>5. Unsubscribed(q, s) = r
    BY <1>2 DEF Unsubscribed, at, front, back
  <2> HIDE DEF r
  <2>6. \A i, j \in 1..Len(q) : q[i] = q[j] => i = j
    BY DEF IsInjective
  <2>7. IsInjective(r)
    <3> SUFFICES ASSUME NEW i \in 1..Len(q) - 1, NEW j \in 1..Len(q) - 1, r[i] = r[j]
                 PROVE  i = j
      BY <2>4 DEF IsInjective
    <3>1. /\ i \in 1..Len(q) /\ i + 1 \in 1..Len(q)
          /\ j \in 1..Len(q) /\ j + 1 \in 1..Len(q)
      BY <2>1
    <3>2. QED
      BY <3>1, <2>1, <2>4, <2>6
  <2>8. Range(r) = Range(q) \ {s}
    <3>1. Range(r) = {r[i] : i \in 1..Len(q) - 1}
      BY <2>4, RangeByIndex
    <3>2. ASSUME NEW i \in 1..Len(q) - 1
          PROVE  r[i] \in {q[k] : k \in 1..Len(q)} /\ r[i] # s
      BY <2>1, <2>4, <2>6
    <3>3. ASSUME NEW k \in 1..Len(q), q[k] # s
          PROVE  \E i \in 1..Len(q) - 1 : q[k] = r[i]
      <4>1. CASE k < at
        BY <4>1, <2>1, <2>4
      <4>2. CASE k > at
        <5>1. k - 1 \in 1..Len(q) - 1 /\ ~(k - 1 < at)
          BY <4>2, <2>1
        <5>2. QED
          BY <5>1, <2>4
      <4>3. QED
        BY <4>1, <4>2, <2>1, <3>3
    <3>4. Range(q) = {q[k] : k \in 1..Len(q)}
      BY RangeByIndex
    <3>5. QED
      BY <3>1, <3>2, <3>3, <3>4
  <2>9. QED
    BY <2>4, <2>5, <2>7, <2>8
<1>3. QED
  BY <1>1, <1>2

\* The list without its front.
LEMMA TailKeeps ==
  ASSUME NEW q \in Seq(Saver), IsInjective(q), q # <<>>
  PROVE  /\ Tail(q) \in Seq(Saver)
         /\ IsInjective(Tail(q))
         /\ Range(Tail(q)) = Range(q) \ {Head(q)}
<1> DEFINE r == Tail(q)
<1>1. /\ r \in Seq(Saver) /\ Len(r) = Len(q) - 1 /\ Head(q) = q[1]
      /\ \A i \in 1..Len(q) - 1 : r[i] = q[i + 1]
  OBVIOUS
<1> HIDE DEF r
<1>2. \A i, j \in 1..Len(q) : q[i] = q[j] => i = j
  BY DEF IsInjective
<1>3. IsInjective(r)
  BY <1>1, <1>2 DEF IsInjective
<1>4. Range(r) = Range(q) \ {Head(q)}
  <2>1. Range(r) = {r[i] : i \in 1..Len(q) - 1}
    BY <1>1, RangeByIndex
  <2>2. \A i \in 1..Len(q) - 1 : r[i] \in {q[k] : k \in 1..Len(q)} /\ r[i] # Head(q)
    BY <1>1, <1>2
  <2>3. ASSUME NEW k \in 1..Len(q), q[k] # Head(q)
        PROVE  \E i \in 1..Len(q) - 1 : q[k] = r[i]
    <3>1. k - 1 \in 1..Len(q) - 1 /\ (k - 1) + 1 = k
      BY <2>3, <1>1
    <3>2. r[k - 1] = q[k]
      BY <3>1, <1>1
    <3>3. QED
      BY <3>1, <3>2
  <2>4. QED
    BY <2>1, <2>2, <2>3, RangeByIndex
<1>5. QED
  BY <1>1, <1>3, <1>4 DEF r
-----------------------------------------------------------------------------
\* The steps. In each, the saver that is served stays at the front of the list
\* unless it is popped.

LEMMA InitQueueInv == Init => QueueInv
<1> SUFFICES ASSUME Init PROVE QueueInv
  OBVIOUS
<1>1. TypeOK
  <2>1. timerOn \in BOOLEAN
    BY DEF Init
  <2>2. subscriberList \in Seq(Saver)
    BY DEF Init
  <2>3. QED
    BY <2>1, <2>2 DEF Init, TypeOK
<1>2. WaitingIsQueued
  BY DEF Init, WaitingIsQueued, IsInjective, Range
<1>3. ServedIsFront /\ WaitingIsModified
  BY DEF Init, ServedIsFront, WaitingIsModified
<1>4. QED
  BY <1>1, <1>2, <1>3 DEF QueueInv

\* What the flags, the list and the types amount to, when only the documents change.
LEMMA DocumentsKeep ==
  ASSUME QueueInv,
         open' \subseteq Saver, modified' \subseteq open', changed' \subseteq modified',
         modified \subseteq modified',
         UNCHANGED <<isWaitingForIdle, subscriberList, timerOn, served>>,
         isWaitingForDelay' \subseteq modified'
  PROVE  QueueInv'
<1>1. TypeOK'
  BY DEF QueueInv, TypeOK
<1>2. WaitingIsQueued'
  BY DEF QueueInv, WaitingIsQueued
<1>3. ServedIsFront' /\ WaitingIsModified'
  BY DEF QueueInv, ServedIsFront, WaitingIsModified
<1>4. QED
  BY <1>1, <1>2, <1>3 DEF QueueInv

LEMMA OpenStep ==
  ASSUME QueueInv, NEW s \in Saver, Open(s)
  PROVE  QueueInv'
<1>1. /\ open' = open \cup {s} /\ modified' = modified /\ changed' = changed
      /\ UNCHANGED <<isWaitingForDelay, isWaitingForIdle, subscriberList, timerOn, served>>
  BY DEF Open
<1>2. QED
  BY <1>1, DocumentsKeep DEF QueueInv, TypeOK, WaitingIsModified

LEMMA EditStep ==
  ASSUME QueueInv, NEW s \in Saver, Edit(s)
  PROVE  QueueInv'
BY DocumentsKeep DEF Edit, QueueInv, TypeOK, WaitingIsModified

\* A document that is no longer modified takes its saver out of the list: nothing is
\* served then, because the user's events are filtered out.
LEMMA NoLongerKeeps ==
  ASSUME QueueInv, NEW s \in Saver, served = Nobody, NoLonger(s),
         open' \subseteq Saver, modified' \subseteq open', changed' \subseteq modified',
         modified' = modified \ {s}, UNCHANGED <<timerOn, served>>
  PROVE  QueueInv'
<1>1. /\ isWaitingForDelay' = isWaitingForDelay \ {s}
      /\ isWaitingForIdle' = isWaitingForIdle \ {s}
      /\ subscriberList' = IF s \in isWaitingForIdle THEN Unsubscribed(subscriberList, s)
                           ELSE subscriberList
  BY DEF NoLonger
<1>2. /\ subscriberList \in Seq(Saver) /\ IsInjective(subscriberList)
      /\ Range(subscriberList) = isWaitingForIdle
  BY DEF QueueInv, TypeOK, WaitingIsQueued
<1>3. /\ subscriberList' \in Seq(Saver)
      /\ IsInjective(subscriberList')
      /\ Range(subscriberList') = isWaitingForIdle'
  <2>1. CASE s \in isWaitingForIdle
    BY <2>1, <1>1, <1>2, UnsubscribedKeeps
  <2>2. CASE s \notin isWaitingForIdle
    BY <2>2, <1>1, <1>2
  <2>3. QED
    BY <2>1, <2>2
<1>4. TypeOK'
  BY <1>1, <1>3 DEF QueueInv, TypeOK
<1>5. ServedIsFront' /\ WaitingIsModified'
  BY <1>1 DEF QueueInv, ServedIsFront, WaitingIsModified
<1>6. QED
  BY <1>3, <1>4, <1>5 DEF QueueInv, WaitingIsQueued

LEMMA NotModifiedStep ==
  ASSUME QueueInv, NEW s \in Saver, NotModified(s)
  PROVE  QueueInv'
<1>1. /\ served = Nobody /\ NoLonger(s)
      /\ modified' = modified \ {s} /\ changed' = changed \ {s}
      /\ UNCHANGED <<open, timerOn, served>>
  BY DEF NotModified, UserEvents
<1>2. /\ open \subseteq Saver /\ modified \subseteq open /\ changed \subseteq modified
  BY DEF QueueInv, TypeOK
<1>3. QED
  BY <1>1, <1>2, NoLongerKeeps

LEMMA CloseStep ==
  ASSUME QueueInv, NEW s \in Saver, Close(s)
  PROVE  QueueInv'
<1>1. /\ served = Nobody /\ NoLonger(s) /\ open' = open \ {s}
      /\ modified' = modified \ {s} /\ changed' = changed \ {s}
      /\ UNCHANGED <<timerOn, served>>
  BY DEF Close, UserEvents
<1>2. /\ open \subseteq Saver /\ modified \subseteq open /\ changed \subseteq modified
  BY DEF QueueInv, TypeOK
<1>3. QED
  BY <1>1, <1>2, NoLongerKeeps

LEMMA DelayTimerExpiredStep ==
  ASSUME QueueInv, NEW s \in Saver, DelayTimerExpired(s)
  PROVE  QueueInv'
<1>1. /\ s \in isWaitingForDelay
      /\ isWaitingForDelay' = isWaitingForDelay \ {s}
      /\ isWaitingForIdle' = isWaitingForIdle \cup {s}
      /\ UNCHANGED <<open, modified, changed, timerOn, served>>
  BY DEF DelayTimerExpired, documentVars
<1>2. /\ subscriberList \in Seq(Saver) /\ IsInjective(subscriberList)
      /\ Range(subscriberList) = isWaitingForIdle
      /\ served # Nobody => subscriberList # <<>> /\ Head(subscriberList) = served
  BY DEF QueueInv, TypeOK, WaitingIsQueued, ServedIsFront
<1>3. /\ subscriberList' \in Seq(Saver)
      /\ IsInjective(subscriberList')
      /\ Range(subscriberList') = isWaitingForIdle'
      /\ served # Nobody => subscriberList' # <<>> /\ Head(subscriberList') = served
  <2>1. CASE s \in isWaitingForIdle
    <3>1. subscriberList' = subscriberList
      BY <2>1 DEF DelayTimerExpired
    <3>2. QED
      BY <3>1, <2>1, <1>1, <1>2
  <2>2. CASE s \notin isWaitingForIdle
    <3>1. subscriberList' = Append(subscriberList, s)
      BY <2>2, <1>2 DEF DelayTimerExpired, Subscribed
    <3>2. QED
      BY <3>1, <2>2, <1>1, <1>2, AppendKeeps
  <2>3. QED
    BY <2>1, <2>2
<1>4. TypeOK'
  BY <1>1, <1>3 DEF QueueInv, TypeOK
<1>5. WaitingIsModified'
  BY <1>1 DEF QueueInv, WaitingIsModified
<1>6. ServedIsFront'
  BY <1>1, <1>3 DEF ServedIsFront
<1>7. QED
  BY <1>3, <1>4, <1>5, <1>6 DEF QueueInv, WaitingIsQueued

\* Whoever is served next is at the front of the list, and waits in it.
LEMMA NextIsFront ==
  ASSUME NEW q \in Seq(Saver), timerOn \in BOOLEAN, ServeOrStop(q)
  PROVE  /\ timerOn' \in BOOLEAN
         /\ served' = Nobody \/ (q # <<>> /\ served' = Head(q) /\ Head(q) \in Range(q))
         /\ served' \in Saver \cup {Nobody}
<1>1. q # <<>> => Head(q) \in Saver /\ Head(q) \in Range(q)
  <2>1. q # <<>> => 1 \in 1..Len(q) /\ Head(q) = q[1] /\ q[1] \in Saver
    OBVIOUS
  <2>2. QED
    BY <2>1, RangeByIndex
<1>2. CASE Serve(q)
  BY <1>1, <1>2 DEF Serve
<1>3. CASE Stop
  BY <1>3 DEF Stop
<1>4. QED
  BY <1>2, <1>3 DEF ServeOrStop

LEMMA TimerEventStep ==
  ASSUME QueueInv, TimerEvent
  PROVE  QueueInv'
<1>1. /\ ServeOrStop(subscriberList)
      /\ UNCHANGED <<open, modified, changed, isWaitingForDelay, isWaitingForIdle,
                     subscriberList>>
  BY DEF TimerEvent, documentVars
<1>2. subscriberList \in Seq(Saver) /\ timerOn \in BOOLEAN
  BY DEF QueueInv, TypeOK
<1>3. /\ timerOn' \in BOOLEAN
      /\ \/ served' = Nobody
         \/ /\ subscriberList # <<>> /\ served' = Head(subscriberList)
            /\ Head(subscriberList) \in Range(subscriberList)
      /\ served' \in Saver \cup {Nobody}
  BY <1>1, <1>2, NextIsFront
<1>4. TypeOK'
  BY <1>1, <1>3 DEF QueueInv, TypeOK
<1>5. WaitingIsQueued'
  BY <1>1 DEF QueueInv, WaitingIsQueued
<1>6. ServedIsFront'
  BY <1>1, <1>3 DEF ServedIsFront
<1>7. WaitingIsModified'
  BY <1>1, <1>3 DEF QueueInv, WaitingIsModified, WaitingIsQueued
<1>8. QED
  BY <1>4, <1>5, <1>6, <1>7 DEF QueueInv

\* The saver that is popped is the one that was served: its flag goes with its entry.
LEMMA ServedStep ==
  ASSUME QueueInv, Served
  PROVE  QueueInv'
<1>1. /\ served # Nobody
      /\ changed' = changed \ {served}
      /\ isWaitingForIdle' = isWaitingForIdle \ {served}
      /\ subscriberList' = Tail(subscriberList)
      /\ ServeOrStop(Tail(subscriberList))
      /\ UNCHANGED <<open, modified, isWaitingForDelay>>
  BY DEF Served
<1>2. /\ subscriberList \in Seq(Saver) /\ IsInjective(subscriberList)
      /\ Range(subscriberList) = isWaitingForIdle
      /\ subscriberList # <<>> /\ Head(subscriberList) = served
      /\ timerOn \in BOOLEAN
  BY <1>1 DEF QueueInv, TypeOK, WaitingIsQueued, ServedIsFront
<1>3. /\ subscriberList' \in Seq(Saver)
      /\ IsInjective(subscriberList')
      /\ Range(subscriberList') = isWaitingForIdle'
  BY <1>1, <1>2, TailKeeps
<1>4. /\ timerOn' \in BOOLEAN
      /\ \/ served' = Nobody
         \/ /\ subscriberList' # <<>> /\ served' = Head(subscriberList')
            /\ Head(subscriberList') \in Range(subscriberList')
      /\ served' \in Saver \cup {Nobody}
  <2>1. Tail(subscriberList) \in Seq(Saver)
    BY <1>1, <1>3
  <2>2. QED
    BY <2>1, <1>1, <1>2, NextIsFront
<1>5. TypeOK'
  BY <1>1, <1>3, <1>4 DEF QueueInv, TypeOK
<1>6. ServedIsFront'
  BY <1>4 DEF ServedIsFront
<1>7. WaitingIsModified'
  BY <1>1, <1>3, <1>4 DEF QueueInv, WaitingIsModified
<1>8. QED
  BY <1>3, <1>5, <1>6, <1>7 DEF QueueInv, WaitingIsQueued

LEMMA NextQueueInv == QueueInv /\ [Next]_vars => QueueInv'
<1> SUFFICES ASSUME QueueInv, [Next]_vars PROVE QueueInv'
  OBVIOUS
<1>1. CASE \E s \in Saver : Open(s) \/ Edit(s) \/ NotModified(s) \/ Close(s)
  BY <1>1, OpenStep, EditStep, NotModifiedStep, CloseStep
<1>2. CASE \E s \in Saver : DelayTimerExpired(s)
  BY <1>2, DelayTimerExpiredStep
<1>3. CASE ProcessQuanta
  <2>1. timerOn' = TRUE /\ UNCHANGED <<open, modified, changed, isWaitingForDelay,
                                      isWaitingForIdle, subscriberList, served>>
    BY <1>3 DEF ProcessQuanta, documentVars
  <2>2. QED
    BY <2>1 DEF QueueInv, TypeOK, WaitingIsQueued, ServedIsFront, WaitingIsModified
<1>4. CASE TimerEvent
  BY <1>4, TimerEventStep
<1>5. CASE Served
  BY <1>5, ServedStep
<1>6. CASE UNCHANGED vars
  BY <1>6 DEF vars, documentVars, QueueInv, TypeOK, WaitingIsQueued, ServedIsFront,
              WaitingIsModified
<1>7. QED
  BY <1>1, <1>2, <1>3, <1>4, <1>5, <1>6 DEF Next

-----------------------------------------------------------------------------

LEMMA QueueInvHolds == Spec => []QueueInv
<1>1. Init => QueueInv
  BY InitQueueInv
<1>2. QueueInv /\ [Next]_vars => QueueInv'
  BY NextQueueInv
<1>3. QED
  BY <1>1, <1>2, PTL DEF Spec

\* The variables of the list keep their types.
THEOREM QueueTypeCorrect == Spec => []TypeOK
<1>1. QueueInv => TypeOK
  BY DEF QueueInv
<1>2. QED
  BY <1>1, QueueInvHolds, PTL

\* Every saver that says that it waits is in the list, once, and no other is: with
\* any number of documents the walk of unsubscribe() misses nothing.
THEOREM ListIsWaiting == Spec => []WaitingIsQueued
<1>1. QueueInv => WaitingIsQueued
  BY DEF QueueInv
<1>2. QED
  BY <1>1, QueueInvHolds, PTL

\* timerEvent() pops the saver that it has executed.
THEOREM FrontIsServed == Spec => []ServedIsFront
<1>1. QueueInv => ServedIsFront
  BY DEF QueueInv
<1>2. QED
  BY <1>1, QueueInvHolds, PTL

\* Nothing but an open document with changes waits for its autosave or is autosaved.
THEOREM OnlyModifiedWait == Spec => []WaitingIsModified
<1>1. QueueInv => WaitingIsModified
  BY DEF QueueInv
<1>2. QED
  BY <1>1, QueueInvHolds, PTL

\* A saver stops waiting only where its document is saved, closed or autosaved: the
\* saver that leaves the list after it was served is the one that was, and every
\* edit, also of a document that was modified before, starts the delay again.
LEMMA ChangedWaits == ChangedIsWaiting /\ [Next]_vars => ChangedIsWaiting'
<1> SUFFICES ASSUME ChangedIsWaiting, [Next]_vars PROVE ChangedIsWaiting'
  OBVIOUS
<1>1. CASE \E s \in Saver : Open(s) \/ Edit(s)
  BY <1>1 DEF Open, Edit, ChangedIsWaiting
<1>2. CASE \E s \in Saver : NotModified(s) \/ Close(s)
  BY <1>2 DEF NotModified, Close, NoLonger, ChangedIsWaiting
<1>3. CASE \E s \in Saver : DelayTimerExpired(s)
  BY <1>3 DEF DelayTimerExpired, documentVars, ChangedIsWaiting
<1>4. CASE ProcessQuanta \/ TimerEvent
  BY <1>4 DEF ProcessQuanta, TimerEvent, documentVars, ChangedIsWaiting
<1>5. CASE Served
  BY <1>5 DEF Served, ChangedIsWaiting
<1>6. CASE UNCHANGED vars
  BY <1>6 DEF vars, documentVars, ChangedIsWaiting
<1>7. QED
  BY <1>1, <1>2, <1>3, <1>4, <1>5, <1>6 DEF Next

\* A document with changes that no autosave has is always on its way to one: what
\* remains for fairness is that timers expire and that the list is served.
THEOREM NoChangeIsForgotten == Spec => []ChangedIsWaiting
<1>1. Init => ChangedIsWaiting
  BY DEF Init, ChangedIsWaiting
<1>2. QED
  BY <1>1, ChangedWaits, PTL DEF Spec

=============================================================================
