---------------------------- MODULE EventDispatch ----------------------------
(***************************************************************************)
(* DynamicEventFactory and the CommandEventContexts that subscribe to it:  *)
(* both are created and destroyed in any order, and dispatchEvent() walks  *)
(* the subscribers of a factory while the handler it has called may        *)
(* subscribe, unsubscribe or destroy others, and dispatch events itself.   *)
(*                                                                         *)
(* A context is its address: the subscribers of a factory are a multimap   *)
(* in the order of their addresses, and of their arrival under one         *)
(* address, which a ticket stands for. Forwarding of events to the next    *)
(* context is left out: it keeps no state.                                 *)
(***************************************************************************)
EXTENDS Integers, Sequences

CONSTANTS
  Context,      \* the addresses of contexts
  Factory,      \* the factories
  MaxTickets,   \* bound: how many subscriptions are made
  MaxCalls      \* bound: how deep dispatchEvent() is nested

ASSUME ContextAssumption == Context \subseteq Nat
ASSUME BoundAssumption == MaxTickets \in Nat /\ MaxCalls \in Nat

VARIABLES
  contexts,        \* the contexts there are
  factories,       \* the factories there are
  subscriberSet,   \* the entries of the subscriberSet_ of all factories
  factorySet,      \* factorySet_ of each context
  tickets,         \* the number of subscriptions that were made
  calls            \* the calls of dispatchEvent(), the innermost last

vars == <<contexts, factories, subscriberSet, factorySet, tickets, calls>>

Subscription == [factory : Factory, context : Context, ticket : Nat]

\* A call with the entry that it is at; and, only to state what it does, the entries
\* that were there when it began, and those it has told.
Call == [at : Subscription, standing : SUBSET Subscription,
         told : SUBSET Subscription]

\* The types of the variables.
TypeOK ==
  /\ contexts \subseteq Context
  /\ factories \subseteq Factory
  /\ subscriberSet \subseteq Subscription
  /\ factorySet \in [Context -> SUBSET Factory]
  /\ tickets \in Nat
  /\ calls \in Seq(Call)
  /\ \A s \in subscriberSet : s.ticket < tickets

\* The order of the multimap.
Before(s, t) ==
  \/ s.context < t.context
  \/ s.context = t.context /\ s.ticket < t.ticket

\* The entries of the factory f, and those of the context c.
Of(f) == {s \in subscriberSet : s.factory = f}
OfContext(c) == {s \in subscriberSet : s.context = c}

\* s is the first of the entries ss.
IsFirst(s, ss) == s \in ss /\ \A t \in ss \ {s} : Before(s, t)

\* A handler runs in the context c, or for an event of the factory f.
Runs(c) == \E i \in DOMAIN calls : calls[i].at.context = c
Dispatches(f) == \E i \in DOMAIN calls : calls[i].at.factory = f

-----------------------------------------------------------------------------

Init ==
  /\ contexts = {} /\ factories = {}
  /\ subscriberSet = {}
  /\ factorySet = [c \in Context |-> {}]
  /\ tickets = 0
  /\ calls = <<>>

CreateContext(c) ==
  /\ c \notin contexts
  /\ contexts' = contexts \cup {c}
  /\ UNCHANGED <<factories, subscriberSet, factorySet, tickets, calls>>

CreateFactory(f) ==
  /\ f \notin factories
  /\ factories' = factories \cup {f}
  /\ UNCHANGED <<contexts, subscriberSet, factorySet, tickets, calls>>

Subscribe_SameTicket(f, c) ==
  /\ f \in factories /\ c \in contexts
  /\ tickets < MaxTickets
  /\ subscriberSet' =
       subscriberSet \cup {[factory |-> f, context |-> c, ticket |-> tickets]}
  /\ factorySet' = [factorySet EXCEPT ![c] = @ \cup {f}]
  /\ UNCHANGED <<contexts, factories, tickets, calls>>

Subscribe(f, c) ==
  /\ f \in factories /\ c \in contexts
  /\ tickets < MaxTickets
  /\ subscriberSet' =
       subscriberSet \cup {[factory |-> f, context |-> c, ticket |-> tickets]}
  /\ factorySet' = [factorySet EXCEPT ![c] = @ \cup {f}]
  /\ tickets' = tickets + 1
  /\ UNCHANGED <<contexts, factories, calls>>

Unsubscribe_OneEntry(f, c) ==
  /\ f \in factories /\ c \in contexts
  /\ ~Runs(c)
  /\ \E s \in Of(f) \cap OfContext(c) : subscriberSet' = subscriberSet \ {s}
  /\ factorySet' = [factorySet EXCEPT ![c] = @ \ {f}]
  /\ UNCHANGED <<contexts, factories, tickets, calls>>

\* unsubscribe() of all the entries of c. No handler ends a subscription of the
\* context it runs in.
Unsubscribe(f, c) ==
  /\ f \in factories /\ c \in contexts
  /\ ~Runs(c)
  /\ subscriberSet' = subscriberSet \ (Of(f) \cap OfContext(c))
  /\ factorySet' = [factorySet EXCEPT ![c] = @ \ {f}]
  /\ UNCHANGED <<contexts, factories, tickets, calls>>

DestroyContext_Subscribed(c) ==
  /\ c \in contexts
  /\ ~Runs(c)
  /\ contexts' = contexts \ {c}
  /\ factorySet' = [factorySet EXCEPT ![c] = {}]
  /\ UNCHANGED <<factories, subscriberSet, tickets, calls>>

\* ~CommandEventContext(): unsubscribeFromAll() goes by factorySet_.
DestroyContext(c) ==
  /\ c \in contexts
  /\ ~Runs(c)
  /\ contexts' = contexts \ {c}
  /\ subscriberSet' =
       {s \in subscriberSet : s.context # c \/ s.factory \notin factorySet[c]}
  /\ factorySet' = [factorySet EXCEPT ![c] = {}]
  /\ UNCHANGED <<factories, tickets, calls>>

DestroyFactory_StaysKnown(f) ==
  /\ f \in factories
  /\ ~Dispatches(f)
  /\ factories' = factories \ {f}
  /\ subscriberSet' = subscriberSet \ Of(f)
  /\ UNCHANGED <<contexts, factorySet, tickets, calls>>

\* ~DynamicEventFactory(): the contexts of its entries forget it.
DestroyFactory(f) ==
  /\ f \in factories
  /\ ~Dispatches(f)
  /\ factories' = factories \ {f}
  /\ factorySet' = [c \in Context |->
                      IF \E s \in Of(f) : s.context = c THEN factorySet[c] \ {f}
                      ELSE factorySet[c]]
  /\ subscriberSet' = subscriberSet \ Of(f)
  /\ UNCHANGED <<contexts, tickets, calls>>

\* dispatchEvent() calls the handler of the first entry, if there is one.
DispatchEvent(f) ==
  /\ f \in factories
  /\ Len(calls) < MaxCalls
  /\ \E s \in Of(f) :
       /\ IsFirst(s, Of(f))
       /\ calls' = Append(calls, [at |-> s, standing |-> Of(f), told |-> {s}])
  /\ UNCHANGED <<contexts, factories, subscriberSet, factorySet, tickets>>

Rest_OfCopy(call) == {s \in call.standing : Before(call.at, s)}

Rest_OtherContexts(call) ==
  {s \in Of(call.at.factory) : s.context > call.at.context}

\* What the iterator of a call has before it.
Rest(call) == {s \in Of(call.at.factory) : Before(call.at, s)}

\* The handler returns: ++it, and the handler of the next entry, or the end.
HandlerReturns ==
  /\ calls # <<>>
  /\ LET n == Len(calls)
         call == calls[n]
     IN  \/ \E t \in Rest(call) :
              /\ IsFirst(t, Rest(call))
              /\ calls' = [calls EXCEPT ![n].at = t, ![n].told = @ \cup {t}]
         \/ /\ Rest(call) = {}
            /\ calls' = SubSeq(calls, 1, n - 1)
  /\ UNCHANGED <<contexts, factories, subscriberSet, factorySet, tickets>>

Next ==
  \/ \E c \in Context : CreateContext(c)
  \/ \E f \in Factory : CreateFactory(f)
  \/ \E f \in Factory, c \in Context : Subscribe(f, c)
  \/ \E f \in Factory, c \in Context : Unsubscribe(f, c)
  \/ \E c \in Context : DestroyContext(c)
  \/ \E f \in Factory : DestroyFactory(f)
  \/ \E f \in Factory : DispatchEvent(f)
  \/ HandlerReturns

Spec == Init /\ [][Next]_vars

-----------------------------------------------------------------------------

\* The two sides of a subscription agree, so that whichever is destroyed first
\* leaves nothing behind on the other: a context knows just the factories that have
\* an entry for it, and entries are of contexts and factories that there are.
Registered ==
  /\ \A c \in Context, f \in Factory :
       f \in factorySet[c] <=> \E s \in subscriberSet : s.factory = f /\ s.context = c
  /\ \A s \in subscriberSet : s.context \in contexts /\ s.factory \in factories

\* The iterator of a dispatch is at an entry of the multimap, of a context that
\* exists, whatever the handlers have done to the other entries.
IteratorValid == \A i \in DOMAIN calls : calls[i].at \in subscriberSet

\* A dispatch tells each subscriber that is there from its begin to its end, exactly
\* once: what is behind its iterator was told, what is before it was not.
ToldOnce ==
  \A i \in DOMAIN calls :
    LET call == calls[i] IN
    /\ \A s \in call.told :
         s.factory = call.at.factory /\ (s = call.at \/ Before(s, call.at))
    /\ \A s \in call.standing \cap subscriberSet :
         s = call.at \/ Before(s, call.at) => s \in call.told

=============================================================================
