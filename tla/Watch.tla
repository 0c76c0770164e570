-------------------------------- MODULE Watch --------------------------------
(***************************************************************************)
(* The event watchers of a daemon (lrm watch over the control socket).     *)
(* The daemon keeps a slice of channels; a subscription remembers where in *)
(* the slice it was put, though the slice moves when others leave.         *)
(***************************************************************************)
EXTENDS Integers, Sequences

CONSTANTS Watchers,    \* connections that ask to watch
          Room,        \* capacity of a watcher's channel
          MaxEvents    \* bound: events of the daemon

VARIABLES watchers,    \* the slice, by the names of those who subscribed
          place,       \* place[w]: where in the slice w was put
          chan,        \* chan[w]: the events that wait for w
          handler,     \* handler[w]: the goroutine that writes to w
          reader,      \* reader[w]: the goroutine that waits for w to leave
          client,      \* client[w]: lrm watch itself
          events

watchVars == <<watchers, place, chan, handler, reader, client, events>>

WatchInit(busy) ==
  /\ watchers = <<>> /\ place = [w \in Watchers |-> 0]
  /\ chan = [w \in Watchers |-> <<>>]
  /\ handler = [w \in Watchers |-> "none"] /\ reader = [w \in Watchers |-> "none"]
  /\ client = [w \in Watchers |-> "out"]
  /\ events = IF busy THEN 0 ELSE MaxEvents

\* Mutant: who leaves takes away what is at its place.
UnsubscribeAt(w) ==
  watchers' = IF place[w] \in 1 .. Len(watchers)
              THEN SubSeq(watchers, 1, place[w] - 1)
                   \o SubSeq(watchers, place[w] + 1, Len(watchers))
              ELSE watchers

\* What subscribeWatch returns: under the lock, and only when the place is
\* still the watcher's own.
Unsubscribe(w) ==
  watchers' = IF place[w] \in 1 .. Len(watchers) /\ watchers[place[w]] = w
              THEN SubSeq(watchers, 1, place[w] - 1)
                   \o SubSeq(watchers, place[w] + 1, Len(watchers))
              ELSE watchers

Subscribe(w) ==
  /\ client[w] = "out" /\ events < MaxEvents
  /\ watchers' = Append(watchers, w)
  /\ place' = [place EXCEPT ![w] = Len(watchers) + 1]
  /\ handler' = [handler EXCEPT ![w] = "range"]
  /\ reader' = [reader EXCEPT ![w] = "read"]
  /\ client' = [client EXCEPT ![w] = "in"]
  /\ UNCHANGED <<chan, events>>

\* Every channel with room gets it; a slow watcher misses it.
Event ==
  /\ events < MaxEvents /\ events' = events + 1
  /\ chan' = [w \in Watchers |->
                IF Len(chan[w]) < Room /\ \E i \in 1 .. Len(watchers) : watchers[i] = w
                THEN Append(chan[w], events') ELSE chan[w]]
  /\ UNCHANGED <<watchers, place, handler, reader, client>>

\* The handler writes an event, and leaves when it cannot.
HandleWatch(w) ==
  /\ handler[w] = "range" /\ chan[w] # <<>>
  /\ chan' = [chan EXCEPT ![w] = Tail(@)]
  /\ handler' = [handler EXCEPT ![w] = IF client[w] = "in" THEN "range" ELSE "leave"]
  /\ UNCHANGED <<watchers, place, reader, client, events>>

\* Its deferred calls.
LeaveWatch(w) ==
  /\ handler[w] = "leave"
  /\ handler' = [handler EXCEPT ![w] = "gone"] /\ Unsubscribe(w)
  /\ UNCHANGED <<place, chan, reader, client, events>>

CloseClient(w) ==
  /\ client[w] = "in" /\ client' = [client EXCEPT ![w] = "left"]
  /\ UNCHANGED <<watchers, place, chan, handler, reader, events>>

\* The reader finds the connection closed, and unsubscribes unless the handler
\* is gone.
SeeDisconnect(w) ==
  /\ reader[w] = "read" /\ client[w] = "left"
  /\ reader' = [reader EXCEPT ![w] = "gone"]
  /\ IF handler[w] = "gone" THEN UNCHANGED watchers ELSE Unsubscribe(w)
  /\ UNCHANGED <<place, chan, handler, client, events>>

WatchSteps(w) == HandleWatch(w) \/ LeaveWatch(w) \/ SeeDisconnect(w)

WatchNext ==
  \/ Event
  \/ \E w \in Watchers : Subscribe(w) \/ CloseClient(w) \/ WatchSteps(w)

-----------------------------------------------------------------------------

\* Whoever still watches is in the slice, once, in whatever order the others
\* come and go: nobody's leaving takes another out of it.
WatchersStay ==
  \A w \in Watchers : client[w] = "in" =>
    \E i \in 1 .. Len(watchers) :
      watchers[i] = w /\ \A j \in 1 .. Len(watchers) : watchers[j] = w => i = j

\* "Stream every daemon event to this connection until it goes away": who has
\* left, and whose two goroutines have noticed, is in the slice no more.
LeaversGo ==
  \A w \in Watchers : reader[w] = "gone" =>
    \A i \in 1 .. Len(watchers) : watchers[i] # w
=============================================================================
