------------------------------ MODULE EventLog ------------------------------
(***************************************************************************)
(* The event history of one run (internal/server/events.go) and everything *)
(* that reads it: the SSE handlers serveSSE runs, one goroutine per        *)
(* request, and the browsers behind them (static/js/sse.js), which         *)
(* reconnect with the Last-Event-ID they got to and hang up on run_done.   *)
(*                                                                         *)
(* The run's coordinator is reduced to the order in which it calls emit:   *)
(* hello, then bucket and other lifecycle events, then run_done, then      *)
(* close (module Run models where they come from).  An event is its        *)
(* sequence number and its name; the payload is left out.  The heartbeat   *)
(* comment changes nothing and is left out too.                            *)
(***************************************************************************)
EXTENDS Naturals, Sequences, FiniteSets, SequencesExt

CONSTANTS
  Viewers,      \* browser tabs showing the run
  Conns,        \* HTTP connections, reused once both ends are finished with one
  NoConn,
  MaxBuffered,  \* maxBufferedEvents
  ChanCap,      \* the capacity of a subscriber's channel (256)
  MaxLife,      \* bound: lifecycle events between hello and run_done
  MaxBuckets,   \* bound: buckets the run emits
  MaxBreaks     \* bound: connections that break

ASSUME EventLogAssumption ==
  /\ NoConn \notin Conns
  /\ MaxBuffered \in Nat /\ ChanCap \in Nat \ {0}
  /\ MaxLife \in Nat /\ MaxBuckets \in Nat /\ MaxBreaks \in Nat

VARIABLES
  events,     \* eventLog.events
  subs,       \* eventLog.subs: the connections whose channel is subscribed
  closed,     \* eventLog.closed
  truncated,  \* eventLog.truncated
  asked,      \* history: the names emit was called with
  pc,         \* where the handler of a connection is
  after,      \* the Last-Event-ID its request carried
  replay,     \* what it still has to write of its replay
  chan,       \* the events buffered in its channel
  closes,     \* how often its channel was closed; the second time panics
  wire,       \* written by the handler, not yet dispatched by the browser
  gone,       \* connections whose client is gone (r.Context() is done)
  view,       \* the events each viewer's handlers were called with
  conn,       \* the connection each viewer is reading
  breaks      \* bound

log    == <<events, subs, closed, truncated, asked>>
server == <<pc, after, replay, chan, closes>>
client == <<view, conn, breaks>>
vars   == <<log, server, wire, gone, client>>

PC == {"idle", "subscribe", "replay", "live", "return"}
Name == {"hello", "life", "bucket", "series_truncated", "run_done"}
Event == [seq : Nat \ {0}, name : Name]

TypeOK ==
  /\ events \in Seq(Event) /\ asked \in Seq(Name)
  /\ subs \subseteq Conns /\ gone \subseteq Conns
  /\ closed \in BOOLEAN /\ truncated \in BOOLEAN
  /\ pc \in [Conns -> PC] /\ after \in [Conns -> Nat] /\ closes \in [Conns -> Nat]
  /\ replay \in [Conns -> Seq(Event)]
  /\ chan \in [Conns -> Seq(Event)]
  /\ wire \in [Conns -> Seq(Event)]
  /\ view \in [Viewers -> Seq(Event)]
  /\ conn \in [Viewers -> Conns \cup {NoConn}]
  /\ breaks \in 0..MaxBreaks

Init ==
  /\ events = <<>> /\ asked = <<>> /\ subs = {} /\ gone = {}
  /\ closed = FALSE /\ truncated = FALSE
  /\ pc = [c \in Conns |-> "idle"]
  /\ after = [c \in Conns |-> 0] /\ closes = [c \in Conns |-> 0]
  /\ replay = [c \in Conns |-> <<>>]
  /\ chan = [c \in Conns |-> <<>>]
  /\ wire = [c \in Conns |-> <<>>]
  /\ view = [v \in Viewers |-> <<>>]
  /\ conn = [v \in Viewers |-> NoConn]
  /\ breaks = 0

-----------------------------------------------------------------------------
(* The log: emit, subscribe and close run under eventLog.mu, each one step. *)

\* A subscriber whose channel is full is dropped instead of being waited for.
Slow == {c \in subs : Len(chan[c]) >= ChanCap}

\* Deleting a subscriber and closing its channel go together.
DropSkips(cs) == UNCHANGED <<subs, closes>>  \* wrong: the subscriber stays, its event skipped
Drop(cs) == /\ closes' = [c \in Conns |-> closes[c] + IF c \in cs THEN 1 ELSE 0]
            /\ subs' = subs \ cs

\* The cap applies to buckets only.
AtCapAnything(name) == Len(events) >= MaxBuffered  \* wrong: every event is capped
AtCap(name) == Len(events) >= MaxBuffered /\ name = "bucket"

\* emit, up to its two early returns; FALSE when the event is discarded.
MarkedEachTime(name) == ~closed  \* wrong: every capped bucket is replaced by a marker
Lands(name) == ~closed /\ ~(AtCap(name) /\ truncated)

StoredFromZero(name) == [seq |-> Len(events),  \* wrong: numbered from zero
                         name |-> IF AtCap(name) THEN "series_truncated" ELSE name]
Stored(name) == [seq |-> Len(events) + 1,
                 name |-> IF AtCap(name) THEN "series_truncated" ELSE name]

Discard(name) ==
  /\ ~Lands(name)
  /\ UNCHANGED <<events, truncated, subs, chan, closes>>

Store(name) ==
  /\ Lands(name)
  /\ events' = Append(events, Stored(name))
  /\ truncated' = (truncated \/ AtCap(name))
  /\ chan' = [c \in Conns |-> IF c \in subs \ Slow THEN Append(chan[c], Stored(name)) ELSE chan[c]]
  /\ Drop(Slow)

\* What coordinate calls next: hello first, run_done last, the rest between.
Emittable(name) ==
  IF asked = <<>> THEN name = "hello"
  ELSE /\ Last(asked) # "run_done"
       /\ \/ name = "run_done"
          \/ name = "life" /\ Cardinality({i \in DOMAIN asked : asked[i] = "life"}) < MaxLife
          \/ name = "bucket" /\ Cardinality({i \in DOMAIN asked : asked[i] = "bucket"}) < MaxBuckets

Emit(name) ==
  /\ Emittable(name)
  /\ asked' = Append(asked, name)
  /\ Store(name) \/ Discard(name)
  /\ UNCHANGED <<closed, pc, after, replay, wire, gone, client>>

\* finish calls close right after it has emitted run_done.
CloseEarly == /\ asked # <<>> /\ ~closed  \* wrong: closed before run_done
CloseReady == /\ asked # <<>> /\ Last(asked) = "run_done" /\ ~closed
Close ==
  /\ CloseReady
  /\ closed' = TRUE
  /\ Drop(subs)
  /\ UNCHANGED <<events, truncated, asked, pc, after, replay, chan, wire, gone, client>>

-----------------------------------------------------------------------------
(* The SSE handler of one connection. *)

MissedFromStart(c) == events  \* wrong: Last-Event-ID is ignored
Missed(c) == SubSeq(events, after[c] + 1, Len(events))

\* subscribe: the replay and the registration happen under one lock.
Subscribe(c) ==
  /\ pc[c] = "subscribe"
  /\ pc' = [pc EXCEPT ![c] = "replay"]
  /\ replay' = [replay EXCEPT ![c] = Missed(c)]
  /\ subs' = IF closed THEN subs ELSE subs \cup {c}
  /\ closes' = [closes EXCEPT ![c] = IF closed THEN 1 ELSE 0]  \* nil channel: nothing to receive
  /\ UNCHANGED <<events, closed, truncated, asked, after, chan, wire, gone, client>>

\* writeSSE: a write to a connection whose client is gone vanishes.
Write(c, e) == wire' = IF c \in gone THEN wire ELSE [wire EXCEPT ![c] = Append(@, e)]

WriteReplay(c) ==
  /\ pc[c] = "replay" /\ replay[c] # <<>>
  /\ Write(c, Head(replay[c]))
  /\ replay' = [replay EXCEPT ![c] = Tail(@)]
  /\ UNCHANGED <<log, pc, after, chan, closes, gone, client>>

\* After the replay: a handler without a channel returns (closed log), the
\* others enter the loop, which notices a channel closed in the meantime.
ReplayDone(c) ==
  /\ pc[c] = "replay" /\ replay[c] = <<>>
  /\ pc' = [pc EXCEPT ![c] = "live"]
  /\ UNCHANGED <<log, after, replay, chan, closes, wire, gone, client>>

WriteLive(c) ==
  /\ pc[c] = "live" /\ chan[c] # <<>>
  /\ Write(c, Head(chan[c]))
  /\ chan' = [chan EXCEPT ![c] = Tail(@)]
  /\ UNCHANGED <<log, pc, after, replay, closes, gone, client>>

\* A receive from a closed channel fails only once its buffer is drained.
Ended(c) == closes[c] > 0 /\ chan[c] = <<>>

Return(c) ==
  /\ pc[c] = "live"
  /\ Ended(c) \/ c \in gone
  /\ pc' = [pc EXCEPT ![c] = "return"]
  /\ UNCHANGED <<log, after, replay, chan, closes, wire, gone, client>>

\* The deferred cancel, and with it the end of the response and the channel.
CancelUnchecked(c) == Drop({c})  \* wrong: a channel dropped already is closed again
Cancel(c) == Drop({c} \cap subs)

Finish(c) ==
  /\ pc[c] = "return"
  /\ Cancel(c)
  /\ pc' = [pc EXCEPT ![c] = "idle"]
  /\ chan' = [chan EXCEPT ![c] = <<>>]
  /\ after' = [after EXCEPT ![c] = 0]
  /\ gone' = gone \ {c}
  /\ UNCHANGED <<events, closed, truncated, asked, replay, wire, client>>

-----------------------------------------------------------------------------
(* The browser. *)

Stopped(v) == view[v] # <<>> /\ Last(view[v]).name = "run_done"
LastEventId(v) == IF view[v] = <<>> THEN 0 ELSE Last(view[v]).seq
Free(c) == pc[c] = "idle" /\ wire[c] = <<>> /\ \A v \in Viewers : conn[v] # c

\* EventSource opens, and reopens after an error, until the viewer closes it.
Open(v, c) ==
  /\ ~Stopped(v) /\ conn[v] = NoConn /\ Free(c)
  /\ conn' = [conn EXCEPT ![v] = c]
  /\ after' = [after EXCEPT ![c] = LastEventId(v)]
  /\ pc' = [pc EXCEPT ![c] = "subscribe"]
  /\ UNCHANGED <<log, replay, chan, closes, wire, gone, view, breaks>>

\* The client's end is closed: a handler still running learns it from its context.
Leave(v) == /\ conn' = [conn EXCEPT ![v] = NoConn]
            /\ gone' = IF pc[conn[v]] = "idle" THEN gone ELSE gone \cup {conn[v]}

\* The browser dispatches one frame.  On run_done the viewer closes the stream
\* and whatever else is on the wire is dropped with it.
Dispatch(v) ==
  /\ conn[v] # NoConn /\ wire[conn[v]] # <<>>
  /\ LET e == Head(wire[conn[v]]) IN
     /\ view' = [view EXCEPT ![v] = Append(@, e)]
     /\ IF e.name = "run_done"
          THEN Leave(v) /\ wire' = [wire EXCEPT ![conn[v]] = <<>>]
          ELSE wire' = [wire EXCEPT ![conn[v]] = Tail(@)] /\ UNCHANGED <<conn, gone>>
  /\ UNCHANGED <<log, server, breaks>>

\* The response ended and has been read to its end: EventSource reconnects.
EndOfStream(v) ==
  /\ conn[v] # NoConn /\ pc[conn[v]] = "idle" /\ wire[conn[v]] = <<>>
  /\ Leave(v)
  /\ UNCHANGED <<log, server, wire, view, breaks>>

\* The connection breaks; what was in flight on it is lost.
Break(v) ==
  /\ conn[v] # NoConn /\ breaks < MaxBreaks
  /\ breaks' = breaks + 1
  /\ Leave(v)
  /\ wire' = [wire EXCEPT ![conn[v]] = <<>>]
  /\ UNCHANGED <<log, server, view>>

-----------------------------------------------------------------------------
Coordinator == (\E name \in Name : Emit(name)) \/ Close

Handler(c) == Subscribe(c) \/ WriteReplay(c) \/ ReplayDone(c) \/ WriteLive(c) \/ Return(c) \/ Finish(c)

Browser(v) == (\E c \in Conns : Open(v, c)) \/ Dispatch(v) \/ EndOfStream(v)

\* Everything has been said and heard; the process would keep serving.
Quiet == /\ closed
         /\ \A v \in Viewers : Stopped(v) /\ conn[v] = NoConn
         /\ \A c \in Conns : pc[c] = "idle"
         /\ UNCHANGED vars

Next == \/ Coordinator
        \/ \E c \in Conns : Handler(c)
        \/ \E v \in Viewers : Browser(v) \/ Break(v)
        \/ Quiet

\* The coordinator ends (module Run), goroutines are scheduled, and a browser
\* reads its socket and reconnects.  Nothing makes a connection break.
Fairness == /\ WF_vars(Emit("hello")) /\ WF_vars(Emit("run_done")) /\ WF_vars(Close)
            /\ \A c \in Conns : WF_vars(Handler(c))
            /\ \A v \in Viewers : WF_vars(Browser(v))

Spec == Init /\ [][Next]_vars /\ Fairness

-----------------------------------------------------------------------------
(* Properties. *)

Pending(c) == wire[c] \o replay[c] \o chan[c]

\* What a connection still delivers continues what its viewer has seen, in the
\* order of the log; and while its channel is subscribed it will deliver every
\* event there is.  So dropping a slow subscriber loses nothing: what it has
\* not got starts right after the Last-Event-ID it comes back with.
StreamIntact ==
  \A v \in Viewers :
    /\ IsPrefix(view[v], events)
    /\ LET c == conn[v] IN
       c # NoConn /\ pc[c] # "subscribe" =>
         /\ IsPrefix(view[v] \o Pending(c), events)
         /\ c \in subs => view[v] \o Pending(c) = events

\* No channel is closed twice and no closed channel is still subscribed: emit
\* and close would panic on it.  A handler that has ended has no channel left
\* in the log.
SubscriptionsOpen ==
  \A c \in Conns : /\ closes[c] <= 1
                   /\ c \in subs => closes[c] = 0 /\ pc[c] \in {"replay", "live", "return"}

Bulk == {"bucket", "series_truncated"}
Names == [i \in DOMAIN events |-> events[i].name]

Positions(names, s) == {i \in DOMAIN s : s[i] \in names}

Others(names, s) == {i \in DOMAIN s : s[i] \notin names}

\* The place of s[i] among those not in names, and whether s and t are the same
\* sequence when the names are left out of both.
Rank(names, s, i) == Cardinality({j \in Others(names, s) : j <= i})
SameWithout(names, s, t) ==
  /\ Cardinality(Others(names, s)) = Cardinality(Others(names, t))
  /\ \A i \in Others(names, s), j \in Others(names, t) :
       Rank(names, s, i) = Rank(names, t, j) => s[i] = t[j]

\* The cap costs buckets only: every other event lands, in order.  It is never
\* silent: the first lost bucket leaves one marker, after which no bucket comes.
CapCostsOnlyBuckets ==
  LET markers == Positions({"series_truncated"}, Names)
      buckets == Positions({"bucket"}, Names) IN
  /\ SameWithout(Bulk, Names, asked)
  /\ Cardinality(markers) <= 1
  /\ markers # {} <=> Cardinality(buckets) < Cardinality(Positions({"bucket"}, asked))
  /\ \A b \in buckets : b <= MaxBuffered /\ \A m \in markers : b < m

\* A closed log ends in run_done, the only one: a subscriber that gets no
\* channel has the terminal event in its replay (or had it before).
EndsInRunDone ==
  closed => /\ Last(events).name = "run_done"
            /\ Cardinality(Positions({"run_done"}, Names)) = 1

\* So the log is whole but for buckets, and known to be whole by its last event,
\* at the cap too.
LogIsWhole == CapCostsOnlyBuckets /\ EndsInRunDone

\* The viewers see the abstract feed, and are served until they have it all.
AbstractFeed == INSTANCE Feed WITH log <- events, sealed <- closed, seen <- view
FeedSpec == AbstractFeed!Spec

\* Every viewer gets to run_done, having seen the whole log, and hangs up; no
\* browser reconnects for ever and no handler outlives the run.
EveryoneHangsUp ==
  <>[](/\ \A v \in Viewers : Stopped(v) /\ conn[v] = NoConn /\ view[v] = events
       /\ \A c \in Conns : pc[c] = "idle" /\ c \notin subs)
=============================================================================
