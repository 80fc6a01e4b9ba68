------------------------------- MODULE Events -------------------------------
(***************************************************************************)
(* EventTarget and its dispatch (whatwg/events.js): the listeners of one   *)
(* type of one target.  dispatchEvent walks a copy of the list and calls   *)
(* each listener that is still in the list itself; a listener is user code *)
(* and may add and remove listeners, stop events, and dispatch other       *)
(* events, so dispatches nest.  There is no event path (line 263): the     *)
(* target's phase is the only one, and a listener's capture only tells it  *)
(* from others.                                                            *)
(*                                                                         *)
(* Left out: preventDefault(), whose flag is only handed back, and the     *)
(* option passive, which addEventListener drops (line 193).                *)
(***************************************************************************)
EXTENDS Naturals, Sequences, SequencesExt

CONSTANTS
    Callbacks,
    EventObjects,
    MaxRegistrations,   \* the listeners added (a bound)
    MaxDispatches       \* the dispatches begun (a bound)

ASSUME EventsAssumption == MaxRegistrations \in Nat /\ MaxDispatches \in Nat

VARIABLES
    registrations,  \* history: the listeners added, each known by its place
    listeners,      \* target[kEventListeners][type]: places in registrations
    event,          \* the flags of each event
    stack,          \* the dispatches that run, the innermost first
    dispatches,     \* history: how many were begun
    spent           \* history: the listeners to be called once that were

eventsVars == <<registrations, listeners, event, stack, dispatches, spent>>

Listeners == [callback : Callbacks, capture : BOOLEAN, once : BOOLEAN]
Places == 1..MaxRegistrations
Flags == [dispatch : BOOLEAN, stopPropagation : BOOLEAN, stopImmediate : BOOLEAN]
Dispatches == [
    event : EventObjects,
    handlers : Seq(Places),     \* the copy of the list
    next : Nat \ {0},           \* the place in handlers whose turn is next
    calling : BOOLEAN,          \* the listener at next runs
    called : SUBSET Places]     \* history

EventsTypeOK ==
    /\ registrations \in Seq(Listeners)
    /\ listeners \in Seq(Places)
    /\ event \in [EventObjects -> Flags]
    /\ stack \in Seq(Dispatches)
    /\ dispatches \in 0..MaxDispatches
    /\ spent \subseteq Places

NoFlags == [dispatch |-> FALSE, stopPropagation |-> FALSE, stopImmediate |-> FALSE]

EventsInit ==
    /\ registrations = <<>>
    /\ listeners = <<>>
    /\ event = [e \in EventObjects |-> NoFlags]
    /\ stack = <<>>
    /\ dispatches = 0
    /\ spent = {}

\* User code runs: outside every dispatch, or in a listener.
UserCode == stack # <<>> => stack[1].calling

-----------------------------------------------------------------------------
(* What user code may call.                                                   *)

Same(l, callback, capture) ==
    registrations[l].callback = callback /\ registrations[l].capture = capture

\* A listener with the same callback and capture is kept, whatever its once.
AddEventListener(listener) ==
    /\ UserCode
    /\ Len(registrations) < MaxRegistrations
    /\ ~\E l \in ToSet(listeners) : Same(l, listener.callback, listener.capture)
    /\ registrations' = Append(registrations, listener)
    /\ listeners' = Append(listeners, Len(registrations) + 1)
    /\ UNCHANGED <<event, stack, dispatches, spent>>

RemoveEventListener(callback, capture) ==
    /\ UserCode
    /\ \E i \in DOMAIN listeners :
          /\ Same(listeners[i], callback, capture)
          /\ listeners' = RemoveAt(listeners, i)
    /\ UNCHANGED <<registrations, event, stack, dispatches, spent>>

\* An event that was stopped before is not dispatched, and may be again.
DispatchEvent(e) ==
    /\ UserCode
    /\ ~event[e].dispatch
    /\ dispatches < MaxDispatches
    /\ dispatches' = dispatches + 1
    /\ \/ /\ event[e].stopPropagation
          /\ event' = [event EXCEPT ![e] = NoFlags]
          /\ UNCHANGED stack
       \/ /\ ~event[e].stopPropagation
          /\ event' = [event EXCEPT ![e].dispatch = TRUE]
          /\ stack' = <<[event |-> e, handlers |-> listeners, next |-> 1,
                         calling |-> FALSE, called |-> {}]>> \o stack
    /\ UNCHANGED <<registrations, listeners, spent>>

StopPropagation(e) ==
    /\ UserCode
    /\ event' = [event EXCEPT ![e].stopPropagation = TRUE]
    /\ UNCHANGED <<registrations, listeners, stack, dispatches, spent>>

StopImmediatePropagation(e) ==
    /\ UserCode
    /\ event' = [event EXCEPT ![e].stopPropagation = TRUE, ![e].stopImmediate = TRUE]
    /\ UNCHANGED <<registrations, listeners, stack, dispatches, spent>>

-----------------------------------------------------------------------------
(* invokeEventListeners, in the innermost dispatch.                           *)

Handlers(dispatch) == dispatch.handlers

InvokesNext ==
    /\ stack # <<>> /\ ~stack[1].calling
    /\ ~event[stack[1].event].stopImmediate
    /\ stack[1].next <= Len(Handlers(stack[1]))

SkipListener ==
    /\ InvokesNext
    /\ Handlers(stack[1])[stack[1].next] \notin ToSet(listeners)
    /\ stack' = [stack EXCEPT ![1].next = @ + 1]
    /\ UNCHANGED <<registrations, listeners, event, dispatches, spent>>

\* A mutant: what is in the copy is called without a look at the list (line 153);
\* a once listener that is not there takes the last one out, as splice(-1, 1) does.
CallUnlisted ==
    /\ InvokesNext
    /\ LET l == Handlers(stack[1])[stack[1].next]
       IN  /\ stack' = [stack EXCEPT ![1].calling = TRUE, ![1].called = @ \cup {l}]
           /\ IF registrations[l].once
              THEN /\ listeners' = IF l \in ToSet(listeners) THEN Remove(listeners, l)
                                   ELSE SubSeq(listeners, 1, Len(listeners) - 1)
                   /\ spent' = spent \cup {l}
              ELSE UNCHANGED <<listeners, spent>>
    /\ UNCHANGED <<registrations, event, dispatches>>

\* A once listener leaves the list before it is called.
CallListener ==
    /\ InvokesNext
    /\ \E i \in DOMAIN listeners :
          /\ listeners[i] = Handlers(stack[1])[stack[1].next]
          /\ stack' = [stack EXCEPT ![1].calling = TRUE,
                                   ![1].called = @ \cup {listeners[i]}]
          /\ IF registrations[listeners[i]].once
             THEN /\ listeners' = RemoveAt(listeners, i)
                  /\ spent' = spent \cup {listeners[i]}
             ELSE UNCHANGED <<listeners, spent>>
    /\ UNCHANGED <<registrations, event, dispatches>>

\* It returns, or throws and nothing happens.
ListenerReturns ==
    /\ stack # <<>> /\ stack[1].calling
    /\ stack' = [stack EXCEPT ![1].calling = FALSE, ![1].next = @ + 1]
    /\ UNCHANGED <<registrations, listeners, event, dispatches, spent>>

DispatchReturns ==
    /\ stack # <<>> /\ ~stack[1].calling
    /\ ~InvokesNext
    /\ event' = [event EXCEPT ![stack[1].event] = NoFlags]
    /\ stack' = Tail(stack)
    /\ UNCHANGED <<registrations, listeners, dispatches, spent>>

EventsNext ==
    \/ \E listener \in Listeners : AddEventListener(listener)
    \/ \E callback \in Callbacks, capture \in BOOLEAN : RemoveEventListener(callback, capture)
    \/ \E e \in EventObjects :
          DispatchEvent(e) \/ StopPropagation(e) \/ StopImmediatePropagation(e)
    \/ SkipListener
    \/ CallListener
    \/ ListenerReturns
    \/ DispatchReturns

EventsSpec == EventsInit /\ [][EventsNext]_eventsVars

-----------------------------------------------------------------------------
(* Correctness.                                                               *)

InTurn ==
    /\ \A i \in DOMAIN stack :
          /\ stack[i].called \subseteq ToSet(stack[i].handlers)
          /\ \A k \in DOMAIN stack[i].handlers \cap 1..(stack[i].next - 1) :
                stack[i].handlers[k] \in stack[i].called \cup (Places \ ToSet(listeners))
    /\ \A l \in spent : l \notin ToSet(listeners)

\* The step calls the listener l.
Calls(l) ==
    /\ stack # <<>> /\ Len(stack') = Len(stack)
    /\ ~stack[1].calling /\ stack'[1].calling
    /\ l = stack[1].handlers[stack[1].next]

\* Whatever the listeners add, remove and dispatch meanwhile: a dispatch calls, of
\* the listeners there were at its beginning and only of those, each one whose turn
\* has come, except those that are no longer in the list; it never calls one that
\* was removed; and it never calls again one that asked to be called once and was,
\* also when a dispatch inside its own call or before its turn finds it.
EachInTurn ==
    /\ []InTurn
    /\ [][\A l \in Places : Calls(l) => l \in ToSet(listeners) \ spent]_eventsVars
=============================================================================
