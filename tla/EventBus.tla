------------------------------- MODULE EventBus -------------------------------
(***************************************************************************)
(* The event bus over Redis Pub/Sub (src/src/core/event_bus.py): subscribers*)
(* that await the Redis subscription, one listener task that dispatches each*)
(* event to the handlers of its channel one after the other, and handlers  *)
(* that may raise or change the registrations while they run.              *)
(*                                                                         *)
(* The handlers of a channel are a list object: a dispatch goes on over the*)
(* one it began with, whatever unsubscribe() does to the dictionary. A list*)
(* is named by its generation.                                             *)
(***************************************************************************)
EXTENDS Integers, SequencesExt

CONSTANTS
    BusChannels, Handlers,
    MaxEvents,          \* bound: events published
    MaxLists            \* bound: handler lists created

ASSUME BusAssumption == {MaxEvents, MaxLists} \subseteq Nat

VARIABLES
    bus_running,    \* _running
    list_of,        \* _handlers: channel -> generation of its list, or 0
    lists,          \* generation -> the handlers in it
    subscribed,     \* the channels subscribed at Redis
    joining,        \* handler -> the channel whose Redis subscription it awaits
    inbox,          \* the messages of the connection, not read yet
    events_published,   \* events published
    dispatch,       \* the event being dispatched, its list and its position
    heard,          \* handler -> the events it was called with
    owed            \* handler -> the events read while it was registered for them

busVars == <<bus_running, list_of, lists, subscribed, joining, inbox, events_published,
             dispatch, heard, owed>>
registry == <<list_of, lists, subscribed, joining>>

NoChannel == "none"
NoDispatch == [event |-> 0, list |-> 0, i |-> 0]

BusInit ==
    /\ bus_running = FALSE
    /\ list_of = [ch \in BusChannels |-> 0] /\ lists = <<>>
    /\ subscribed = {} /\ joining = [h \in Handlers |-> NoChannel]
    /\ inbox = <<>> /\ events_published = 0 /\ dispatch = NoDispatch
    /\ heard = [h \in Handlers |-> <<>>] /\ owed = [h \in Handlers |-> <<>>]

-----------------------------------------------------------------------------
StartBus ==
    /\ ~bus_running /\ bus_running' = TRUE
    /\ UNCHANGED <<registry, inbox, events_published, dispatch, heard, owed>>

\* stop(): the listener is cancelled wherever it is, and everything forgotten. What
\* the handlers it interrupts were owed is not asked for any more.
StopBus ==
    /\ bus_running /\ bus_running' = FALSE
    /\ list_of' = [ch \in BusChannels |-> 0] /\ subscribed' = {}
    /\ inbox' = <<>> /\ dispatch' = NoDispatch
    /\ owed' = heard
    /\ UNCHANGED <<lists, joining, events_published, heard>>

\* publish(): Redis hands it to the connection if the channel is subscribed. The
\* payload may be one from_dict cannot read.
Publish(ch, readable) ==
    /\ bus_running /\ events_published < MaxEvents
    /\ events_published' = events_published + 1
    /\ inbox' = IF ch \in subscribed
                THEN Append(inbox, [ch |-> ch, event |-> events_published + 1, readable |-> readable])
                ELSE inbox
    /\ UNCHANGED <<bus_running, registry, dispatch, heard, owed>>

\* The connection breaks and is made again: what it had not delivered is lost.
BusConnectionLost ==
    /\ inbox # <<>> /\ inbox' = <<>>
    /\ UNCHANGED <<bus_running, registry, events_published, dispatch, heard, owed>>

-----------------------------------------------------------------------------
\* A handler joins a list; the event being dispatched over that list reaches it too.
Registered(h, ch) ==
    /\ lists' = [lists EXCEPT ![list_of[ch]] = Append(@, h)]
    /\ owed' = IF dispatch.list = list_of[ch] THEN [owed EXCEPT ![h] = Append(@, dispatch.event)]
               ELSE owed

\* A handler is registered once at a time.
Unregistered(h) ==
    \A g \in DOMAIN lists : h \in ToSet(lists[g]) =>
        g # dispatch.list /\ \A ch \in BusChannels : list_of[ch] # g

\* subscribe() of a channel that has a list
SubscribeKnown(h, ch) ==
    /\ bus_running /\ joining[h] = NoChannel /\ Unregistered(h) /\ list_of[ch] # 0
    /\ Registered(h, ch)
    /\ UNCHANGED <<bus_running, list_of, subscribed, joining, inbox, events_published, dispatch, heard>>

\* ... of one that has none: its list is made before the request to Redis.
SubscribeNew(h, ch) ==
    /\ bus_running /\ joining[h] = NoChannel /\ Unregistered(h) /\ list_of[ch] = 0
    /\ Len(lists) < MaxLists
    /\ lists' = Append(lists, <<>>) /\ list_of' = [list_of EXCEPT ![ch] = Len(lists) + 1]
    /\ subscribed' = subscribed \cup {ch}
    /\ joining' = [joining EXCEPT ![h] = ch]
    /\ UNCHANGED <<bus_running, inbox, events_published, dispatch, heard, owed>>

\* The request is answered; an unsubscribe() meanwhile makes the append a KeyError.
Join(h) ==
    LET ch == joining[h] IN
    /\ ch # NoChannel
    /\ joining' = [joining EXCEPT ![h] = NoChannel]
    /\ IF list_of[ch] = 0 THEN UNCHANGED <<lists, owed>> ELSE Registered(h, ch)
    /\ UNCHANGED <<bus_running, list_of, subscribed, inbox, events_published, dispatch, heard>>

\* It fails: the empty list stays, and the channel counts as subscribed from now on.
JoinFails(h) ==
    /\ joining[h] # NoChannel
    /\ subscribed' = subscribed \ {joining[h]}
    /\ joining' = [joining EXCEPT ![h] = NoChannel]
    /\ UNCHANGED <<bus_running, list_of, lists, inbox, events_published, dispatch, heard, owed>>

\* unsubscribe(): all the handlers of the channel go. The ones still to be called for
\* the event being dispatched are called all the same.
UnsubscribeChannel(ch) ==
    /\ bus_running /\ list_of[ch] # 0
    /\ list_of' = [list_of EXCEPT ![ch] = 0] /\ subscribed' = subscribed \ {ch}
    /\ UNCHANGED <<bus_running, lists, joining, inbox, events_published, dispatch, heard, owed>>

-----------------------------------------------------------------------------
\* _listen: the next message. A bad one is skipped.
ReadMessage ==
    /\ bus_running /\ dispatch = NoDispatch /\ inbox # <<>>
    /\ LET x == Head(inbox) IN
       IF x.readable /\ list_of[x.ch] # 0
       THEN /\ dispatch' = [event |-> x.event, list |-> list_of[x.ch], i |-> 1]
            /\ owed' = [h \in Handlers |-> IF h \in ToSet(lists[list_of[x.ch]])
                                           THEN Append(owed[h], x.event) ELSE owed[h]]
       ELSE UNCHANGED <<dispatch, owed>>
    /\ inbox' = Tail(inbox)
    /\ UNCHANGED <<bus_running, registry, events_published, heard>>

\* Mutant: a handler that raises ends the dispatch of the event.
HandledOrDropped(raises) ==
    /\ dispatch # NoDispatch /\ dispatch.i <= Len(lists[dispatch.list])
    /\ LET h == lists[dispatch.list][dispatch.i] IN
        heard' = [heard EXCEPT ![h] = Append(@, dispatch.event)]
    /\ dispatch' = IF raises THEN NoDispatch ELSE [dispatch EXCEPT !.i = @ + 1]
    /\ UNCHANGED <<bus_running, registry, inbox, events_published, owed>>

\* _dispatch: the next handler of the list, awaited, whether it raises or not
Handled(raises) ==
    /\ dispatch # NoDispatch /\ dispatch.i <= Len(lists[dispatch.list])
    /\ LET h == lists[dispatch.list][dispatch.i] IN
        heard' = [heard EXCEPT ![h] = Append(@, dispatch.event)]
    /\ dispatch' = [dispatch EXCEPT !.i = @ + 1]
    /\ UNCHANGED <<bus_running, registry, inbox, events_published, owed>>

DispatchEnds ==
    /\ dispatch # NoDispatch /\ dispatch.i > Len(lists[dispatch.list])
    /\ dispatch' = NoDispatch
    /\ UNCHANGED <<bus_running, registry, inbox, events_published, heard, owed>>

BusNext ==
    \/ StartBus \/ StopBus \/ BusConnectionLost \/ ReadMessage \/ DispatchEnds
    \/ \E ch \in BusChannels :
          \/ UnsubscribeChannel(ch)
          \/ \E readable \in BOOLEAN : Publish(ch, readable)
          \/ \E h \in Handlers : SubscribeKnown(h, ch) \/ SubscribeNew(h, ch)
    \/ \E h \in Handlers : Join(h) \/ JoinFails(h)
    \/ \E raises \in BOOLEAN : Handled(raises)

BusSpec == BusInit /\ [][BusNext]_busVars

-----------------------------------------------------------------------------
\* Between two events, each handler was called exactly with the events read while
\* it was registered, in their order: another handler that raises, joins or leaves
\* takes none of them away.
HandlersHearAll ==
    dispatch = NoDispatch => \A h \in Handlers : heard[h] = owed[h]

\* Documented, and not so: a handler that is registered hears what is published. A
\* subscription that failed once leaves a list nobody subscribes for.
RegisteredIsSubscribed ==
    \A ch \in BusChannels :
        /\ list_of[ch] # 0 /\ lists[list_of[ch]] # <<>>
        /\ \A h \in Handlers : joining[h] # ch
        => ch \in subscribed

\* Not so: a handler of a channel that was unsubscribed is not called any more.
UnsubscribedIsQuiet ==
    dispatch # NoDispatch /\ dispatch.i <= Len(lists[dispatch.list]) =>
        \E ch \in BusChannels : list_of[ch] = dispatch.list
=============================================================================
