------------------------- MODULE EventDispatchProofs -------------------------
(***************************************************************************)
(* Proofs about the dispatch of events, for any number of contexts and     *)
(* factories, of subscriptions and of dispatches nested in one another.    *)
(***************************************************************************)
EXTENDS EventDispatch, SequenceTheorems, TLAPS

\* What a call of dispatchEvent() keeps, with the entries ss of the factories and
\* tickets for subscriptions from n on: its iterator is at an entry, what was there
\* when it began is of its factory and older than any entry to come, and what it has
\* told is what is behind the iterator.
Walk(call, ss, n) ==
  /\ call.at \in ss
  /\ \A s \in call.standing : s.factory = call.at.factory /\ s.ticket < n
  /\ \A s \in call.told :
       s.factory = call.at.factory /\ (s = call.at \/ Before(s, call.at))
  /\ \A s \in call.standing \cap ss : s = call.at \/ Before(s, call.at) => s \in call.told

Walks == \A i \in 1..Len(calls) : Walk(calls[i], subscriberSet, tickets)

\* The inductive invariant.
DispatchInv == TypeOK /\ Registered /\ Walks

-----------------------------------------------------------------------------
\* The order of the multimap.

LEMMA Types ==
  ASSUME TypeOK
  PROVE  /\ \A s \in subscriberSet : s \in Subscription
         /\ \A i \in 1..Len(calls) : calls[i] \in Call
         /\ Len(calls) \in Nat /\ DOMAIN calls = 1..Len(calls)
BY DEF TypeOK

LEMMA BeforeIsOrder ==
  ASSUME NEW s \in Subscription, NEW t \in Subscription, NEW u \in Subscription
  PROVE  /\ ~(Before(s, t) /\ Before(t, s))
         /\ Before(s, t) /\ Before(t, u) => Before(s, u)
         /\ s.factory = t.factory => s = t \/ Before(s, t) \/ Before(t, s)
<1>1. /\ s.context \in Nat /\ t.context \in Nat /\ u.context \in Nat
      /\ s.ticket \in Nat /\ t.ticket \in Nat /\ u.ticket \in Nat
  BY ContextAssumption DEF Subscription
<1>2. s.factory = t.factory /\ s.context = t.context /\ s.ticket = t.ticket => s = t
  BY DEF Subscription
<1>3. QED
  BY <1>1, <1>2 DEF Before

-----------------------------------------------------------------------------
\* A walk goes on when entries go that it is not at, and when entries come.

LEMMA WalkWithout ==
  ASSUME NEW call, NEW ss, NEW tt, NEW n, Walk(call, ss, n),
         tt \subseteq ss, call.at \in tt
  PROVE  Walk(call, tt, n)
BY DEF Walk

LEMMA WalkWith ==
  ASSUME NEW call \in Call, NEW ss, NEW n \in Nat, NEW new, Walk(call, ss, n),
         new.ticket = n
  PROVE  Walk(call, ss \cup {new}, n + 1)
<1>1. \A s \in call.standing : s.ticket \in Nat /\ s.ticket < n /\ s # new
  BY DEF Walk, Call, Subscription
<1>2. QED
  BY <1>1 DEF Walk

\* A walk begins at the first entry.
LEMMA WalkBegins ==
  ASSUME TypeOK, NEW f, NEW s \in Of(f), IsFirst(s, Of(f))
  PROVE  LET call == [at |-> s, standing |-> Of(f), told |-> {s}]
         IN  call \in Call /\ Walk(call, subscriberSet, tickets)
<1> DEFINE call == [at |-> s, standing |-> Of(f), told |-> {s}]
<1>1. /\ Of(f) \subseteq subscriberSet /\ Of(f) \subseteq Subscription
      /\ \A t \in Of(f) : t.factory = f /\ t.ticket < tickets
  BY DEF TypeOK, Of
<1>2. call \in Call
  BY <1>1 DEF Call
<1>3. \A t \in Of(f) : t = s \/ Before(t, s) => t \in {s}
  <2> SUFFICES ASSUME NEW t \in Of(f), t # s, Before(t, s) PROVE FALSE
    OBVIOUS
  <2>1. Before(s, t)
    BY DEF IsFirst
  <2>2. QED
    BY <2>1, <1>1, BeforeIsOrder
<1>4. QED
  BY <1>1, <1>2, <1>3 DEF Walk

\* A walk goes to the first of the entries that are before its iterator.
LEMMA WalkSteps ==
  ASSUME TypeOK, NEW call \in Call, Walk(call, subscriberSet, tickets),
         NEW t \in Rest(call), IsFirst(t, Rest(call)),
         NEW next, next = [call EXCEPT !.at = t, !.told = @ \cup {t}]
  PROVE  next \in Call /\ Walk(next, subscriberSet, tickets)
<1>1. /\ t \in subscriberSet /\ t \in Subscription /\ call.at \in Subscription
      /\ t.factory = call.at.factory /\ Before(call.at, t)
      /\ call.standing \subseteq Subscription /\ call.told \subseteq Subscription
  BY DEF TypeOK, Rest, Of, Call
<1>2. /\ next.at = t /\ next.standing = call.standing /\ next.told = call.told \cup {t}
      /\ next \in Call
  BY <1>1 DEF Call
<1>3. ASSUME NEW s \in call.told
      PROVE  s.factory = t.factory /\ Before(s, t)
  <2>1. s.factory = call.at.factory /\ (s = call.at \/ Before(s, call.at))
    BY DEF Walk
  <2>2. QED
    BY <2>1, <1>1, BeforeIsOrder
<1>4. ASSUME NEW s \in call.standing \cap subscriberSet, Before(s, t)
      PROVE  s \in call.told
  <2>1. s.factory = call.at.factory /\ s \in Subscription
    BY <1>1 DEF Walk
  <2>2. CASE Before(call.at, s)
    <3>1. s \in Rest(call)
      BY <2>1, <2>2 DEF Rest, Of
    <3>2. s = t \/ Before(t, s)
      BY <3>1 DEF IsFirst
    <3>3. QED
      BY <3>2, <1>1, <1>4, <2>1, BeforeIsOrder
  <2>3. CASE ~Before(call.at, s)
    <3>1. s = call.at \/ Before(s, call.at)
      BY <2>1, <2>3, <1>1, BeforeIsOrder
    <3>2. QED
      BY <3>1 DEF Walk
  <2>4. QED
    BY <2>2, <2>3
<1>5. \A s \in call.standing : s.factory = t.factory /\ s.ticket < tickets
  BY <1>1 DEF Walk
<1>6. QED
  BY <1>1, <1>2, <1>3, <1>4, <1>5 DEF Walk

-----------------------------------------------------------------------------
\* The steps.

LEMMA InitDispatchInv == Init => DispatchInv
<1> SUFFICES ASSUME Init PROVE DispatchInv
  OBVIOUS
<1>1. calls \in Seq(Call) /\ Len(calls) = 0 /\ subscriberSet = {}
  BY DEF Init
<1>2. factorySet \in [Context -> SUBSET Factory]
  BY DEF Init
<1>3. TypeOK
  BY <1>1, <1>2 DEF Init, TypeOK
<1>4. Registered
  BY DEF Init, Registered
<1>5. Walks
  BY <1>1 DEF Walks
<1>6. QED
  BY <1>3, <1>4, <1>5 DEF DispatchInv

\* Contexts and factories that are created have no entries yet.
LEMMA CreateStep ==
  ASSUME DispatchInv,
         (\E c \in Context : CreateContext(c)) \/ (\E f \in Factory : CreateFactory(f))
  PROVE  DispatchInv'
<1>1. /\ contexts \subseteq contexts' /\ contexts' \subseteq Context
      /\ factories \subseteq factories' /\ factories' \subseteq Factory
      /\ UNCHANGED <<subscriberSet, factorySet, tickets, calls>>
  BY DEF DispatchInv, TypeOK, CreateContext, CreateFactory
<1>2. TypeOK'
  BY <1>1 DEF DispatchInv, TypeOK
<1>3. Registered'
  BY <1>1 DEF DispatchInv, Registered
<1>4. Walks'
  BY <1>1 DEF DispatchInv, Walks
<1>5. QED
  BY <1>2, <1>3, <1>4 DEF DispatchInv

LEMMA SubscribeStep ==
  ASSUME DispatchInv, NEW f \in Factory, NEW c \in Context, Subscribe(f, c)
  PROVE  DispatchInv'
<1> DEFINE new == [factory |-> f, context |-> c, ticket |-> tickets]
<1>1. /\ f \in factories /\ c \in contexts
      /\ subscriberSet' = subscriberSet \cup {new}
      /\ factorySet' = [factorySet EXCEPT ![c] = @ \cup {f}]
      /\ tickets' = tickets + 1
      /\ UNCHANGED <<contexts, factories, calls>>
  BY DEF Subscribe
<1>2. TypeOK
  BY DEF DispatchInv
<1>3. TypeOK'
  <2>1. new \in Subscription /\ tickets' \in Nat
    BY <1>1, <1>2 DEF TypeOK, Subscription
  <2>2. \A s \in subscriberSet' : s.ticket < tickets'
    <3>1. \A s \in subscriberSet : s.ticket \in Nat /\ s.ticket < tickets
      BY <1>2 DEF TypeOK, Subscription
    <3>2. QED
      BY <3>1, <1>1, <1>2 DEF TypeOK
  <2>3. factorySet' \in [Context -> SUBSET Factory]
    BY <1>1, <1>2 DEF TypeOK
  <2>4. QED
    BY <2>1, <2>2, <2>3, <1>1, <1>2 DEF TypeOK
<1>4. Registered'
  <2>1. ASSUME NEW d \in Context, NEW g \in Factory
        PROVE  g \in factorySet'[d]
                 <=> \E s \in subscriberSet' : s.factory = g /\ s.context = d
    <3>1. factorySet'[d] = IF d = c THEN factorySet[d] \cup {f} ELSE factorySet[d]
      BY <1>1, <1>2 DEF TypeOK
    <3>2. g \in factorySet[d]
            <=> \E s \in subscriberSet : s.factory = g /\ s.context = d
      BY DEF DispatchInv, Registered
    <3>3. new.factory = f /\ new.context = c
      OBVIOUS
    <3> HIDE DEF new
    <3>4. CASE d = c /\ g = f
      BY <3>1, <3>3, <3>4, <1>1
    <3>5. CASE ~(d = c /\ g = f)
      <4>1. g \in factorySet'[d] <=> g \in factorySet[d]
        BY <3>1, <3>5
      <4>2. (\E s \in subscriberSet' : s.factory = g /\ s.context = d)
              <=> \E s \in subscriberSet : s.factory = g /\ s.context = d
        BY <3>3, <3>5, <1>1
      <4>3. QED
        BY <4>1, <4>2, <3>2
    <3>6. QED
      BY <3>4, <3>5
  <2>2. \A s \in subscriberSet' : s.context \in contexts' /\ s.factory \in factories'
    BY <1>1 DEF DispatchInv, Registered
  <2>3. QED
    BY <2>1, <2>2 DEF Registered
<1>5. Walks'
  <2> SUFFICES ASSUME NEW i \in 1..Len(calls)
               PROVE  Walk(calls[i], subscriberSet \cup {new}, tickets + 1)
    BY <1>1 DEF Walks
  <2>1. Walk(calls[i], subscriberSet, tickets) /\ calls[i] \in Call /\ tickets \in Nat
    BY <1>2, Types DEF DispatchInv, Walks, TypeOK
  <2>2. new.ticket = tickets
    OBVIOUS
  <2>3. QED
    BY <2>1, <2>2, WalkWith
<1>6. QED
  BY <1>3, <1>4, <1>5 DEF DispatchInv

\* Entries go, but for those that some call is at.
LEMMA WalksWithout ==
  ASSUME DispatchInv, subscriberSet' \subseteq subscriberSet,
         UNCHANGED <<tickets, calls>>,
         \A i \in 1..Len(calls) : calls[i].at \in subscriberSet'
  PROVE  Walks'
<1>1. ASSUME NEW i \in 1..Len(calls)
      PROVE  Walk(calls[i], subscriberSet', tickets)
  <2>1. Walk(calls[i], subscriberSet, tickets) /\ calls[i].at \in subscriberSet'
    BY DEF DispatchInv, Walks
  <2>2. QED
    BY <2>1, WalkWithout
<1>2. QED
  BY <1>1 DEF Walks

LEMMA UnsubscribeStep ==
  ASSUME DispatchInv, NEW f \in Factory, NEW c \in Context, Unsubscribe(f, c)
  PROVE  DispatchInv'
<1>1. /\ ~Runs(c)
      /\ subscriberSet' = subscriberSet \ {s \in subscriberSet : s.factory = f /\ s.context = c}
      /\ factorySet' = [factorySet EXCEPT ![c] = @ \ {f}]
      /\ UNCHANGED <<contexts, factories, tickets, calls>>
  BY DEF Unsubscribe, Of, OfContext
<1>2. TypeOK
  BY DEF DispatchInv
<1>3. TypeOK'
  BY <1>1, <1>2 DEF TypeOK
<1>4. Registered'
  <2>1. ASSUME NEW d \in Context, NEW g \in Factory
        PROVE  g \in factorySet'[d]
                 <=> \E s \in subscriberSet' : s.factory = g /\ s.context = d
    <3>1. factorySet'[d] = IF d = c THEN factorySet[d] \ {f} ELSE factorySet[d]
      BY <1>1, <1>2 DEF TypeOK
    <3>2. g \in factorySet[d]
            <=> \E s \in subscriberSet : s.factory = g /\ s.context = d
      BY DEF DispatchInv, Registered
    <3>3. QED
      BY <3>1, <3>2, <1>1
  <2>2. \A s \in subscriberSet' : s.context \in contexts' /\ s.factory \in factories'
    BY <1>1 DEF DispatchInv, Registered
  <2>3. QED
    BY <2>1, <2>2 DEF Registered
<1>5. \A i \in 1..Len(calls) : calls[i].at \in subscriberSet'
  BY <1>1, <1>2, Types DEF Runs, DispatchInv, Walks, Walk
<1>6. QED
  BY <1>1, <1>3, <1>4, <1>5, WalksWithout DEF DispatchInv

\* A context that goes has entries only with the factories it knows.
LEMMA DestroyContextStep ==
  ASSUME DispatchInv, NEW c \in Context, DestroyContext(c)
  PROVE  DispatchInv'
<1>1. /\ ~Runs(c)
      /\ contexts' = contexts \ {c}
      /\ subscriberSet' =
           {s \in subscriberSet : s.context # c \/ s.factory \notin factorySet[c]}
      /\ factorySet' = [factorySet EXCEPT ![c] = {}]
      /\ UNCHANGED <<factories, tickets, calls>>
  BY DEF DestroyContext
<1>2. TypeOK
  BY DEF DispatchInv
<1>3. \A s \in subscriberSet : s.context = c => s.factory \in factorySet[c]
  BY <1>2, Types DEF DispatchInv, Registered, Subscription
<1>4. subscriberSet' = {s \in subscriberSet : s.context # c}
  BY <1>1, <1>3
<1>5. TypeOK'
  BY <1>1, <1>2, <1>4 DEF TypeOK
<1>6. Registered'
  <2>1. ASSUME NEW d \in Context, NEW g \in Factory
        PROVE  g \in factorySet'[d]
                 <=> \E s \in subscriberSet' : s.factory = g /\ s.context = d
    <3>1. factorySet'[d] = IF d = c THEN {} ELSE factorySet[d]
      BY <1>1, <1>2 DEF TypeOK
    <3>2. g \in factorySet[d]
            <=> \E s \in subscriberSet : s.factory = g /\ s.context = d
      BY DEF DispatchInv, Registered
    <3>3. QED
      BY <3>1, <3>2, <1>4
  <2>2. \A s \in subscriberSet' : s.context \in contexts' /\ s.factory \in factories'
    BY <1>1, <1>4 DEF DispatchInv, Registered
  <2>3. QED
    BY <2>1, <2>2 DEF Registered
<1>7. \A i \in 1..Len(calls) : calls[i].at \in subscriberSet'
  BY <1>1, <1>2, <1>4, Types DEF Runs, DispatchInv, Walks, Walk
<1>8. QED
  BY <1>1, <1>4, <1>5, <1>6, <1>7, WalksWithout DEF DispatchInv

\* A factory that goes is forgotten by all that have entries with it.
LEMMA DestroyFactoryStep ==
  ASSUME DispatchInv, NEW f \in Factory, DestroyFactory(f)
  PROVE  DispatchInv'
<1>1. /\ ~Dispatches(f)
      /\ factories' = factories \ {f}
      /\ factorySet' = [c \in Context |->
                          IF \E s \in Of(f) : s.context = c THEN factorySet[c] \ {f}
                          ELSE factorySet[c]]
      /\ subscriberSet' = {s \in subscriberSet : s.factory # f}
      /\ UNCHANGED <<contexts, tickets, calls>>
  BY DEF DestroyFactory, Of
<1>2. TypeOK
  BY DEF DispatchInv
<1>3. TypeOK'
  <2>1. factorySet' \in [Context -> SUBSET Factory]
    BY <1>1, <1>2 DEF TypeOK
  <2>2. QED
    BY <2>1, <1>1, <1>2 DEF TypeOK
<1>4. Registered'
  <2>1. ASSUME NEW d \in Context, NEW g \in Factory
        PROVE  g \in factorySet'[d]
                 <=> \E s \in subscriberSet' : s.factory = g /\ s.context = d
    <3>1. \A h \in Factory : h \in factorySet[d]
            <=> \E s \in subscriberSet : s.factory = h /\ s.context = d
      BY DEF DispatchInv, Registered
    <3>2. (\E s \in Of(f) : s.context = d) <=> f \in factorySet[d]
      BY <3>1 DEF Of
    <3>3. factorySet'[d] = factorySet[d] \ {f}
      BY <3>2, <1>1
    <3>4. QED
      BY <3>1, <3>3, <1>1
  <2>2. \A s \in subscriberSet' : s.context \in contexts' /\ s.factory \in factories'
    BY <1>1 DEF DispatchInv, Registered
  <2>3. QED
    BY <2>1, <2>2 DEF Registered
<1>5. \A i \in 1..Len(calls) : calls[i].at \in subscriberSet'
  BY <1>1, <1>2, Types DEF Dispatches, DispatchInv, Walks, Walk
<1>6. QED
  BY <1>1, <1>3, <1>4, <1>5, WalksWithout DEF DispatchInv

\* Only the calls change.
LEMMA CallsKeep ==
  ASSUME DispatchInv, UNCHANGED <<contexts, factories, subscriberSet, factorySet, tickets>>,
         calls' \in Seq(Call),
         \A i \in 1..Len(calls') : Walk(calls'[i], subscriberSet, tickets)
  PROVE  DispatchInv'
<1>1. TypeOK'
  BY DEF DispatchInv, TypeOK
<1>2. Registered'
  BY DEF DispatchInv, Registered
<1>3. Walks'
  BY DEF Walks
<1>4. QED
  BY <1>1, <1>2, <1>3 DEF DispatchInv

LEMMA DispatchEventStep ==
  ASSUME DispatchInv, NEW f \in Factory, DispatchEvent(f)
  PROVE  DispatchInv'
<1>1. PICK s \in Of(f) :
        /\ IsFirst(s, Of(f))
        /\ calls' = Append(calls, [at |-> s, standing |-> Of(f), told |-> {s}])
  BY DEF DispatchEvent
<1>2. TypeOK /\ calls \in Seq(Call)
  BY DEF DispatchInv, TypeOK
<1> DEFINE call == [at |-> s, standing |-> Of(f), told |-> {s}]
<1>3. call \in Call /\ Walk(call, subscriberSet, tickets)
  BY <1>1, <1>2, WalkBegins
<1> HIDE DEF call
<1>4. /\ calls' \in Seq(Call) /\ Len(calls') = Len(calls) + 1
      /\ calls'[Len(calls) + 1] = call
      /\ \A i \in 1..Len(calls) : calls'[i] = calls[i]
  BY <1>1, <1>2, <1>3 DEF call
<1>5. \A i \in 1..Len(calls') : Walk(calls'[i], subscriberSet, tickets)
  BY <1>2, <1>3, <1>4 DEF DispatchInv, Walks
<1>6. UNCHANGED <<contexts, factories, subscriberSet, factorySet, tickets>>
  BY DEF DispatchEvent
<1>7. QED
  BY <1>4, <1>5, <1>6, CallsKeep

LEMMA HandlerReturnsStep ==
  ASSUME DispatchInv, HandlerReturns
  PROVE  DispatchInv'
<1> DEFINE n == Len(calls)
           call == calls[n]
<1>1. /\ TypeOK /\ calls \in Seq(Call) /\ n \in 1..Len(calls) /\ n \in Nat /\ call \in Call
      /\ \A i \in 1..n : Walk(calls[i], subscriberSet, tickets)
  BY DEF DispatchInv, TypeOK, Walks, HandlerReturns
<1>2. UNCHANGED <<contexts, factories, subscriberSet, factorySet, tickets>>
  BY DEF HandlerReturns
<1>3. CASE \E t \in Rest(call) :
              /\ IsFirst(t, Rest(call))
              /\ calls' = [calls EXCEPT ![n].at = t, ![n].told = @ \cup {t}]
  <2>1. PICK t \in Rest(call) :
          /\ IsFirst(t, Rest(call))
          /\ calls' = [calls EXCEPT ![n].at = t, ![n].told = @ \cup {t}]
    BY <1>3
  <2> DEFINE next == [call EXCEPT !.at = t, !.told = @ \cup {t}]
  <2>2. next \in Call /\ Walk(next, subscriberSet, tickets)
    BY <1>1, <2>1, WalkSteps
  <2>3. calls' = [calls EXCEPT ![n] = next]
    BY <1>1, <2>1 DEF Call
  <2> HIDE DEF next
  <2>4. /\ calls' \in Seq(Call) /\ Len(calls') = n /\ calls'[n] = next
        /\ \A i \in 1..n : i # n => calls'[i] = calls[i]
    BY <1>1, <2>2, <2>3
  <2>5. \A i \in 1..Len(calls') : Walk(calls'[i], subscriberSet, tickets)
    BY <1>1, <2>2, <2>4
  <2>6. QED
    BY <1>2, <2>4, <2>5, CallsKeep
<1>4. CASE calls' = SubSeq(calls, 1, n - 1)
  <2>1. /\ calls' \in Seq(Call) /\ Len(calls') = n - 1
        /\ \A i \in 1..n - 1 : calls'[i] = calls[i]
    <3>1. \A i \in 1..n - 1 : calls[i] \in Call
      BY <1>1
    <3>2. /\ SubSeq(calls, 1, n - 1) \in Seq(Call)
          /\ Len(SubSeq(calls, 1, n - 1)) = IF 1 <= n - 1 THEN n - 1 - 1 + 1 ELSE 0
          /\ \A i \in 1..n - 1 - 1 + 1 : SubSeq(calls, 1, n - 1)[i] = calls[1 + i - 1]
      BY <1>1, <3>1, SubSeqProperties
    <3>3. n \in Nat /\ n # 0
      BY <1>1
    <3> HIDE DEF n, call
    <3>4. n - 1 - 1 + 1 = n - 1 /\ (IF 1 <= n - 1 THEN n - 1 - 1 + 1 ELSE 0) = n - 1
      BY <3>3
    <3>5. \A i \in 1..n - 1 : 1 + i - 1 = i
      BY <3>3
    <3>6. QED
      BY <1>4, <3>2, <3>4, <3>5
  <2>2. \A i \in 1..Len(calls') : Walk(calls'[i], subscriberSet, tickets)
    BY <1>1, <2>1
  <2>3. QED
    BY <1>2, <2>1, <2>2, CallsKeep
<1>5. QED
  BY <1>3, <1>4 DEF HandlerReturns

LEMMA NextDispatchInv == DispatchInv /\ [Next]_vars => DispatchInv'
<1> SUFFICES ASSUME DispatchInv, [Next]_vars PROVE DispatchInv'
  OBVIOUS
<1>1. CASE (\E c \in Context : CreateContext(c)) \/ (\E f \in Factory : CreateFactory(f))
  BY <1>1, CreateStep
<1>2. CASE \E f \in Factory, c \in Context : Subscribe(f, c)
  BY <1>2, SubscribeStep
<1>3. CASE \E f \in Factory, c \in Context : Unsubscribe(f, c)
  BY <1>3, UnsubscribeStep
<1>4. CASE \E c \in Context : DestroyContext(c)
  BY <1>4, DestroyContextStep
<1>5. CASE \E f \in Factory : DestroyFactory(f)
  BY <1>5, DestroyFactoryStep
<1>6. CASE \E f \in Factory : DispatchEvent(f)
  BY <1>6, DispatchEventStep
<1>7. CASE HandlerReturns
  BY <1>7, HandlerReturnsStep
<1>8. CASE UNCHANGED vars
  BY <1>8 DEF vars, DispatchInv, TypeOK, Registered, Walks
<1>9. QED
  BY <1>1, <1>2, <1>3, <1>4, <1>5, <1>6, <1>7, <1>8 DEF Next

-----------------------------------------------------------------------------

LEMMA DispatchInvHolds == Spec => []DispatchInv
<1>1. Init => DispatchInv
  BY InitDispatchInv
<1>2. DispatchInv /\ [Next]_vars => DispatchInv'
  BY NextDispatchInv
<1>3. QED
  BY <1>1, <1>2, PTL DEF Spec

\* The variables of contexts and factories keep their types.
THEOREM DispatchTypeCorrect == Spec => []TypeOK
<1>1. DispatchInv => TypeOK
  BY DEF DispatchInv
<1>2. QED
  BY <1>1, DispatchInvHolds, PTL

\* In whatever order contexts and factories are destroyed, neither side of a
\* subscription is left with the other.
THEOREM SubscriptionsAgree == Spec => []Registered
<1>1. DispatchInv => Registered
  BY DEF DispatchInv
<1>2. QED
  BY <1>1, DispatchInvHolds, PTL

\* No dispatch, however deep it is nested, is left with an iterator to nothing.
THEOREM IteratorsStayValid == Spec => []IteratorValid
<1>1. DispatchInv => IteratorValid
  BY Types DEF DispatchInv, Walks, Walk, IteratorValid
<1>2. QED
  BY <1>1, DispatchInvHolds, PTL

\* A subscriber that stays is told once by each dispatch, whatever handlers do.
THEOREM EveryoneIsToldOnce == Spec => []ToldOnce
<1>1. DispatchInv => ToldOnce
  BY Types DEF DispatchInv, Walks, Walk, ToldOnce
<1>2. QED
  BY <1>1, DispatchInvHolds, PTL

=============================================================================
