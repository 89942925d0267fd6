---------------------------- MODULE AutoSaveQueue ----------------------------
(***************************************************************************)
(* The list of AutoSaveMgr, in which the documents that are to be          *)
(* autosaved wait for a moment when the user does nothing: several         *)
(* StructAutoSavers with their delay timers, the idle handler that starts  *)
(* the timer of the list, and timerEvent(), which serves the list while it *)
(* is not interrupted. A saver that is served shows its progress, and so   *)
(* handles events: timers run, a document may be opened, but what the user *)
(* does is filtered out.                                                   *)
(*                                                                         *)
(* What an autosave writes is in the module AutoSave, which takes from     *)
(* here that a document that waits is autosaved. Autosave stays enabled.   *)
(***************************************************************************)
EXTENDS Integers, Sequences, SequencesExt, Functions

CONSTANTS
  Saver,      \* the autosavers of documents that are opened and closed
  Nobody      \* no saver is served

ASSUME NobodyAssumption == Nobody \notin Saver

VARIABLES
  open,             \* the savers whose document is open
  modified,         \* those whose document is modified, se_->isModified()
  changed,          \* those whose document was changed since it was autosaved
  isWaitingForDelay, isWaitingForIdle,   \* those that wait
  subscriberList,   \* subscriberList_
  timerOn,          \* timerId_ is that of a timer
  served            \* the saver that timerEvent() executes, or Nobody

documentVars == <<open, modified, changed>>
vars == <<documentVars, isWaitingForDelay, isWaitingForIdle, subscriberList,
          timerOn, served>>

\* The types of the variables.
TypeOK ==
  /\ open \subseteq Saver
  /\ modified \subseteq open
  /\ changed \subseteq modified
  /\ isWaitingForDelay \subseteq Saver
  /\ isWaitingForIdle \subseteq Saver
  /\ subscriberList \in Seq(Saver)
  /\ timerOn \in BOOLEAN
  /\ served \in Saver \cup {Nobody}

-----------------------------------------------------------------------------
\* The list.

\* subscribe().
Subscribed(q, s) == IF s \in Range(q) THEN q ELSE Append(q, s)

\* unsubscribe(): it passes over the entry that follows the one it erases, and from
\* the end of the list goes back to its begin, see WaitingIsQueued.
Unsubscribed(q, s) ==
  IF s \in Range(q)
  THEN LET at == CHOOSE i \in DOMAIN q : q[i] = s
       IN SubSeq(q, 1, at - 1) \o SubSeq(q, at + 1, Len(q))
  ELSE q

NoLonger_Listed(s) ==
  /\ isWaitingForDelay' = isWaitingForDelay \ {s}
  /\ isWaitingForIdle' = isWaitingForIdle \ {s}
  /\ UNCHANGED subscriberList

\* resetDelayTimer(0) and waitForIdle(false).
NoLonger(s) ==
  /\ isWaitingForDelay' = isWaitingForDelay \ {s}
  /\ isWaitingForIdle' = isWaitingForIdle \ {s}
  /\ subscriberList' =
       IF s \in isWaitingForIdle THEN Unsubscribed(subscriberList, s)
       ELSE subscriberList

-----------------------------------------------------------------------------

Init ==
  /\ open = {} /\ modified = {} /\ changed = {}
  /\ isWaitingForDelay = {} /\ isWaitingForIdle = {}
  /\ subscriberList = <<>>
  /\ timerOn = FALSE
  /\ served = Nobody

UserEvents_Unfiltered == TRUE

\* StageEventFilter drops the events of the user, and the main window those that
\* would close it, while a saver shows its progress.
UserEvents == served = Nobody

\* A document is opened, by the user or by a message from another process.
Open(s) ==
  /\ s \notin open
  /\ open' = open \cup {s}
  /\ UNCHANGED <<modified, changed, isWaitingForDelay, isWaitingForIdle,
                 subscriberList, timerOn, served>>

Edit_OnceModified(s) ==
  /\ UserEvents
  /\ s \in open
  /\ modified' = modified \cup {s}
  /\ changed' = changed \cup {s}
  /\ isWaitingForDelay' =
       IF s \in modified THEN isWaitingForDelay ELSE isWaitingForDelay \cup {s}
  /\ UNCHANGED <<open, isWaitingForIdle, subscriberList, timerOn, served>>

\* notifyUpdated() of a document that is modified: resetDelayTimer(timeout_).
Edit(s) ==
  /\ UserEvents
  /\ s \in open
  /\ modified' = modified \cup {s}
  /\ changed' = changed \cup {s}
  /\ isWaitingForDelay' = isWaitingForDelay \cup {s}
  /\ UNCHANGED <<open, isWaitingForIdle, subscriberList, timerOn, served>>

\* notifyUpdated() of a document that is not, having been saved, or all its changes
\* undone.
NotModified(s) ==
  /\ UserEvents
  /\ s \in modified
  /\ modified' = modified \ {s}
  /\ changed' = changed \ {s}
  /\ NoLonger(s)
  /\ UNCHANGED <<open, timerOn, served>>

Close_StillModified(s) ==
  /\ UserEvents
  /\ s \in open
  /\ open' = open \ {s}
  /\ NoLonger(s)
  /\ UNCHANGED <<modified, changed, timerOn, served>>

\* The document is closed: the destructor of StructAutoSaver.
Close(s) ==
  /\ UserEvents
  /\ s \in open
  /\ open' = open \ {s}
  /\ modified' = modified \ {s}
  /\ changed' = changed \ {s}
  /\ NoLonger(s)
  /\ UNCHANGED <<timerOn, served>>

\* delayTimerExpired(), from the timer of the saver: waitForIdle(true).
DelayTimerExpired(s) ==
  /\ s \in isWaitingForDelay
  /\ isWaitingForDelay' = isWaitingForDelay \ {s}
  /\ isWaitingForIdle' = isWaitingForIdle \cup {s}
  /\ subscriberList' =
       IF s \in isWaitingForIdle THEN subscriberList
       ELSE Subscribed(subscriberList, s)
  /\ UNCHANGED <<documentVars, timerOn, served>>

\* processQuanta(), called when no event is pending.
ProcessQuanta ==
  /\ subscriberList # <<>>
  /\ ~timerOn
  /\ timerOn' = TRUE
  /\ UNCHANGED <<documentVars, isWaitingForDelay, isWaitingForIdle, subscriberList,
                 served>>

Serve(q) ==
  /\ q # <<>>
  /\ served' = Head(q)
  /\ UNCHANGED timerOn

Stop ==
  /\ served' = Nobody
  /\ timerOn' = FALSE

\* The loop of timerEvent() goes on with the list q unless events are pending.
ServeOrStop(q) == Serve(q) \/ Stop

\* timerEvent(). A timer does not expire again while its event is handled.
TimerEvent ==
  /\ timerOn
  /\ served = Nobody
  /\ ServeOrStop(subscriberList)
  /\ UNCHANGED <<documentVars, isWaitingForDelay, isWaitingForIdle, subscriberList>>

\* The events are handled and the document is autosaved, idleTimerExpired();
\* timerEvent() pops the front of the list and goes on.
Served ==
  /\ served # Nobody
  /\ changed' = changed \ {served}
  /\ isWaitingForIdle' = isWaitingForIdle \ {served}
  /\ subscriberList' = Tail(subscriberList)
  /\ ServeOrStop(Tail(subscriberList))
  /\ UNCHANGED <<open, modified, isWaitingForDelay>>

Next ==
  \/ \E s \in Saver : Open(s)
  \/ \E s \in Saver : Edit(s)
  \/ \E s \in Saver : NotModified(s)
  \/ \E s \in Saver : Close(s)
  \/ \E s \in Saver : DelayTimerExpired(s)
  \/ ProcessQuanta
  \/ TimerEvent
  \/ Served

\* Timers expire, the idle handler is called and an autosave comes to its end; and
\* events are not always pending when timerEvent() looks.
Fairness ==
  /\ \A s \in Saver : WF_vars(DelayTimerExpired(s))
  /\ WF_vars(ProcessQuanta)
  /\ WF_vars(TimerEvent)
  /\ SF_vars(TimerEvent /\ Serve(subscriberList))
  /\ WF_vars(Served)

Spec == Init /\ [][Next]_vars /\ Fairness

-----------------------------------------------------------------------------

\* The flag of a saver says that it is in the list, and it is there once: the walk
\* of unsubscribe() misses nothing, and no saver is left out of the list for good
\* with a flag that keeps it from subscribing again.
WaitingIsQueued ==
  /\ IsInjective(subscriberList)
  /\ Range(subscriberList) = isWaitingForIdle

\* The saver that timerEvent() executes is the one that it then pops, whatever
\* events were handled meanwhile.
ServedIsFront == served # Nobody => subscriberList # <<>> /\ Head(subscriberList) = served

\* Only a document that is open and modified is ever autosaved: neither a destroyed
\* saver nor an autosave that would outlive the save of its document is waiting.
WaitingIsModified ==
  /\ isWaitingForDelay \subseteq modified
  /\ isWaitingForIdle \subseteq modified
  /\ served # Nobody => served \in modified

\* No change is forgotten: a document that was changed since it was autosaved has a
\* timer that runs or a place in the list, whatever is saved, closed, opened, served
\* or interrupted meanwhile.
ChangedIsWaiting == changed \subseteq isWaitingForDelay \cup isWaitingForIdle

\* A document that is changed is autosaved, whatever the other documents do, unless
\* it is saved or closed before.
ChangedIsAutosaved == \A s \in Saver : s \in changed ~> s \notin changed

=============================================================================
