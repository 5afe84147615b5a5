---------------------------- MODULE EventLog_proofs ----------------------------
(***************************************************************************)
(* The stream is gapless and in order for any number of viewers and        *)
(* connections, any capacities and any number of events, however           *)
(* connections break, channels are dropped and browsers come back; every   *)
(* step of it is a step of the abstract feed; and the cap costs the log    *)
(* nothing but buckets.                                                    *)
(***************************************************************************)
EXTENDS EventLog, SequenceTheorems, FiniteSetTheorems, TLAPS

(* The inductive invariant *)

\* s is what e holds after its first n elements, or a part of that from its start.
Follows(s, n, e) == /\ n + Len(s) <= Len(e)
                    /\ \A i \in 1..Len(s) : s[i] = e[n + i]

Contents ==
  /\ events \in Seq(Event) /\ asked \in Seq(Name)
  /\ replay \in [Conns -> Seq(Event)] /\ chan \in [Conns -> Seq(Event)]
  /\ wire \in [Conns -> Seq(Event)] /\ view \in [Viewers -> Seq(Event)]

Controls ==
  /\ subs \subseteq Conns /\ gone \subseteq Conns
  /\ pc \in [Conns -> PC] /\ after \in [Conns -> Nat] /\ closes \in [Conns -> Nat]
  /\ conn \in [Viewers -> Conns \cup {NoConn}]
  /\ breaks \in 0..MaxBreaks

Flags == closed \in BOOLEAN /\ truncated \in BOOLEAN

\* Events are numbered from one.
Numbered == \A i \in DOMAIN events : events[i].seq = i

\* What a handler has when it is where it is.
Handlers ==
  \A c \in Conns :
    /\ closes[c] <= 1 /\ (c \in subs => closes[c] = 0 /\ pc[c] \in {"replay", "live", "return"})
    /\ pc[c] # "replay" => replay[c] = <<>>
    /\ pc[c] \in {"idle", "subscribe"} => chan[c] = <<>>
    /\ pc[c] = "subscribe" => wire[c] = <<>>
    /\ pc[c] = "return" /\ c \notin gone => c \notin subs /\ chan[c] = <<>>
    /\ c \in gone => pc[c] # "idle"

\* Whose connection is whose, and from where it was asked for.
Browsers ==
  \A v \in Viewers : conn[v] # NoConn =>
    /\ conn[v] \notin gone
    /\ \A w \in Viewers : conn[w] = conn[v] => w = v
    /\ pc[conn[v]] = "subscribe" => after[conn[v]] = Len(view[v])

\* The events on their way to a viewer that has seen s, piece by piece, and how far
\* they take it.
Stream(s, w, r, c, e) ==
  /\ Follows(w, Len(s), e)
  /\ Follows(r, Len(s) + Len(w), e)
  /\ Follows(c, Len(s) + Len(w) + Len(r), e)

Reach(s, w, r, c) == Len(s) + Len(w) + Len(r) + Len(c)

StreamOf(v, c) ==
  /\ Stream(view[v], wire[c], replay[c], chan[c], events)
  /\ c \in subs => Reach(view[v], wire[c], replay[c], chan[c]) = Len(events)

Streams ==
  \A v \in Viewers :
    /\ Follows(view[v], 0, events)
    /\ conn[v] # NoConn /\ pc[conn[v]] # "subscribe" => StreamOf(v, conn[v])

IInv == Contents /\ Controls /\ Flags /\ Numbered /\ Handlers /\ Browsers /\ Streams

-----------------------------------------------------------------------------
(* Lemmas about sequences *)

\* The log grows: what follows goes on to follow.
LEMMA FollowsLonger ==
  ASSUME NEW S, NEW e \in Seq(S), NEW x \in S, NEW n \in Nat, NEW s \in Seq(S), Follows(s, n, e)
  PROVE  Follows(s, n, Append(e, x))
BY DEF Follows

\* Both grow by the same.
LEMMA FollowsBoth ==
  ASSUME NEW S, NEW e \in Seq(S), NEW x \in S, NEW n \in Nat, NEW s \in Seq(S), Follows(s, n, e),
         n + Len(s) = Len(e)
  PROVE  Follows(Append(s, x), n, Append(e, x)) /\ Len(Append(s, x)) = Len(s) + 1
BY DEF Follows

\* s grows by what comes next.
LEMMA FollowsNext ==
  ASSUME NEW S, NEW e \in Seq(S), NEW n \in Nat, NEW s \in Seq(S), Follows(s, n, e),
         n + Len(s) + 1 <= Len(e)
  PROVE  Follows(Append(s, e[n + Len(s) + 1]), n, e) /\ Len(Append(s, e[n + Len(s) + 1])) = Len(s) + 1
BY DEF Follows

\* The first is taken from s.
LEMMA FollowsTail ==
  ASSUME NEW S, NEW e \in Seq(S), NEW n \in Nat, NEW s \in Seq(S), Follows(s, n, e), s # <<>>
  PROVE  /\ n + 1 <= Len(e) /\ Head(s) = e[n + 1] /\ Head(s) \in S
         /\ Follows(Tail(s), n + 1, e) /\ Tail(s) \in Seq(S) /\ Len(Tail(s)) = Len(s) - 1
BY DEF Follows

\* The rest of e follows its first n.
LEMMA FollowsRest ==
  ASSUME NEW S, NEW e \in Seq(S), NEW n \in Nat, n <= Len(e)
  PROVE  /\ Follows(SubSeq(e, n + 1, Len(e)), n, e)
         /\ SubSeq(e, n + 1, Len(e)) \in Seq(S) /\ Len(SubSeq(e, n + 1, Len(e))) = Len(e) - n
BY DEF Follows

\* Two pieces, one after the other, are one.
LEMMA FollowsConcat ==
  ASSUME NEW S, NEW e \in Seq(S), NEW n \in Nat, NEW s \in Seq(S), NEW t \in Seq(S),
         Follows(s, n, e), Follows(t, n + Len(s), e)
  PROVE  s \o t \in Seq(S) /\ Len(s \o t) = Len(s) + Len(t) /\ Follows(s \o t, n, e)
BY DEF Follows

\* What follows from the start on is a prefix.
LEMMA FollowsPrefix ==
  ASSUME NEW S, NEW e \in Seq(S), NEW s \in Seq(S), Follows(s, 0, e)
  PROVE  IsPrefix(s, e) /\ (Len(s) = Len(e) => s = e)
<1>1. SubSeq(s, 1, Len(s)) = SubSeq(e, 1, Len(s))
  BY DEF Follows
<1>2. Len(s) = Len(e) => s = e
  BY DEF Follows
<1> QED
  BY <1>1, <1>2 DEF IsPrefix, Follows

-----------------------------------------------------------------------------
(* Lemmas about streams *)

\* An event is added to the log, and to the channel if the stream reaches that far.
LEMMA StreamLonger ==
  ASSUME NEW S, NEW e \in Seq(S), NEW x \in S, NEW s \in Seq(S), NEW w \in Seq(S), NEW r \in Seq(S),
         NEW c \in Seq(S), Stream(s, w, r, c, e)
  PROVE  Stream(s, w, r, c, Append(e, x))
BY FollowsLonger DEF Stream

\* ... and if it is subscribed and its channel has room, it gets the event too.
LEMMA StreamBoth ==
  ASSUME NEW S, NEW e \in Seq(S), NEW x \in S, NEW s \in Seq(S), NEW w \in Seq(S), NEW r \in Seq(S),
         NEW c \in Seq(S), Stream(s, w, r, c, e), Reach(s, w, r, c) = Len(e)
  PROVE  /\ Stream(s, w, r, Append(c, x), Append(e, x))
         /\ Reach(s, w, r, Append(c, x)) = Len(Append(e, x))
<1>1. Follows(Append(c, x), Len(s) + Len(w) + Len(r), Append(e, x)) /\ Len(Append(c, x)) = Len(c) + 1
  BY FollowsBoth DEF Stream, Reach
<1>2. Follows(w, Len(s), Append(e, x)) /\ Follows(r, Len(s) + Len(w), Append(e, x))
  BY FollowsLonger DEF Stream
<1>3. Stream(s, w, r, Append(c, x), Append(e, x))
  BY <1>1, <1>2 DEF Stream
<1>4. Len(Append(e, x)) = Len(e) + 1 /\ Len(c) \in Nat
  OBVIOUS
<1>5. Len(s) \in Nat /\ Len(w) \in Nat /\ Len(r) \in Nat
  OBVIOUS
<1>6. Reach(s, w, r, Append(c, x)) = Len(Append(e, x))
  <2>1. Len(s) + Len(w) + Len(r) + (Len(c) + 1) = Len(e) + 1
    BY <1>4, <1>5 DEF Reach
  <2> QED
    BY <1>1, <1>4, <2>1 DEF Reach
<1> QED
  BY <1>3, <1>6

\* The head of a piece is appended to the one before it.
LEMMA FollowsHanded ==
  ASSUME NEW S, NEW e \in Seq(S), NEW n \in Nat, NEW s \in Seq(S), NEW t \in Seq(S),
         Follows(s, n, e), Follows(t, n + Len(s), e), t # <<>>
  PROVE  /\ Follows(Append(s, Head(t)), n, e) /\ Follows(Tail(t), n + Len(s) + 1, e)
         /\ Len(Append(s, Head(t))) = Len(s) + 1 /\ Len(Tail(t)) = Len(t) - 1
         /\ Append(s, Head(t)) \in Seq(S) /\ Tail(t) \in Seq(S)
<1>1. n + Len(s) \in Nat
  OBVIOUS
<1>2. /\ n + Len(s) + 1 <= Len(e) /\ Head(t) = e[n + Len(s) + 1] /\ Head(t) \in S
      /\ Follows(Tail(t), n + Len(s) + 1, e) /\ Tail(t) \in Seq(S) /\ Len(Tail(t)) = Len(t) - 1
  BY <1>1, FollowsTail
<1> QED
  BY <1>2, FollowsNext

\* The handler writes the next event of its replay.
LEMMA StreamReplayed ==
  ASSUME NEW S, NEW e \in Seq(S), NEW s \in Seq(S), NEW w \in Seq(S), NEW r \in Seq(S),
         NEW c \in Seq(S), Stream(s, w, r, c, e), r # <<>>
  PROVE  /\ Stream(s, Append(w, Head(r)), Tail(r), c, e)
         /\ Reach(s, Append(w, Head(r)), Tail(r), c) = Reach(s, w, r, c)
<1>1. /\ Follows(Append(w, Head(r)), Len(s), e) /\ Follows(Tail(r), Len(s) + Len(w) + 1, e)
      /\ Len(Append(w, Head(r))) = Len(w) + 1 /\ Len(Tail(r)) = Len(r) - 1
  BY FollowsHanded DEF Stream
<1>2. /\ Len(s) + (Len(w) + 1) = Len(s) + Len(w) + 1
      /\ Len(s) + (Len(w) + 1) + (Len(r) - 1) = Len(s) + Len(w) + Len(r)
  OBVIOUS
<1> QED
  BY <1>1, <1>2 DEF Stream, Reach

\* The handler, its replay written, writes the next event of its channel.
LEMMA StreamReceived ==
  ASSUME NEW S, NEW e \in Seq(S), NEW s \in Seq(S), NEW w \in Seq(S),
         NEW c \in Seq(S), Stream(s, w, <<>>, c, e), c # <<>>
  PROVE  /\ Stream(s, Append(w, Head(c)), <<>>, Tail(c), e)
         /\ Reach(s, Append(w, Head(c)), <<>>, Tail(c)) = Reach(s, w, <<>>, c)
<1>0. Len(<<>>) = 0 /\ Len(s) + Len(w) + 0 = Len(s) + Len(w) /\ Len(s) + (Len(w) + 1) + 0 = Len(s) + Len(w) + 1
  OBVIOUS
<1>1. /\ Follows(Append(w, Head(c)), Len(s), e) /\ Follows(Tail(c), Len(s) + Len(w) + 1, e)
      /\ Len(Append(w, Head(c))) = Len(w) + 1 /\ Len(Tail(c)) = Len(c) - 1
  BY <1>0, FollowsHanded DEF Stream
<1>2. Follows(<<>>, Len(s) + Len(w) + 1, e)
  BY <1>1 DEF Follows
<1> QED
  BY <1>0, <1>1, <1>2 DEF Stream, Reach

\* The browser dispatches the next event on the wire.
LEMMA StreamDispatched ==
  ASSUME NEW S, NEW e \in Seq(S), NEW s \in Seq(S), NEW w \in Seq(S), NEW r \in Seq(S),
         NEW c \in Seq(S), Follows(s, 0, e), Stream(s, w, r, c, e), w # <<>>
  PROVE  /\ Follows(Append(s, Head(w)), 0, e)
         /\ Head(w) = e[Len(s) + 1] /\ Len(s) + 1 <= Len(e)
         /\ Stream(Append(s, Head(w)), Tail(w), r, c, e)
         /\ Reach(Append(s, Head(w)), Tail(w), r, c) = Reach(s, w, r, c)
<1>1. /\ Follows(Append(s, Head(w)), 0, e) /\ Follows(Tail(w), 0 + Len(s) + 1, e)
      /\ Len(Append(s, Head(w))) = Len(s) + 1 /\ Len(Tail(w)) = Len(w) - 1
  BY FollowsHanded DEF Stream
<1>2. Head(w) = e[Len(s) + 1] /\ Len(s) + 1 <= Len(e)
  BY FollowsTail DEF Stream
<1>3. /\ 0 + Len(s) + 1 = Len(s) + 1 /\ (Len(s) + 1) + (Len(w) - 1) = Len(s) + Len(w)
      /\ (Len(s) + 1) + (Len(w) - 1) + Len(r) = Len(s) + Len(w) + Len(r)
  OBVIOUS
<1>4. Stream(Append(s, Head(w)), Tail(w), r, c, e)
  <2>1. Follows(Tail(w), Len(Append(s, Head(w))), e)
    BY <1>1, <1>3
  <2>2. Follows(r, Len(Append(s, Head(w))) + Len(Tail(w)), e)
    BY <1>1, <1>3 DEF Stream
  <2>3. Follows(c, Len(Append(s, Head(w))) + Len(Tail(w)) + Len(r), e)
    BY <1>1, <1>3 DEF Stream
  <2> QED
    BY <2>1, <2>2, <2>3 DEF Stream
<1>5. Reach(Append(s, Head(w)), Tail(w), r, c) = Reach(s, w, r, c)
  BY <1>1, <1>3 DEF Reach
<1> QED
  BY <1>1, <1>2, <1>4, <1>5

\* What subscribe replays to one who has seen s.
LEMMA StreamBegun ==
  ASSUME NEW S, NEW e \in Seq(S), NEW s \in Seq(S), Follows(s, 0, e)
  PROVE  /\ Stream(s, <<>>, SubSeq(e, Len(s) + 1, Len(e)), <<>>, e)
         /\ Reach(s, <<>>, SubSeq(e, Len(s) + 1, Len(e)), <<>>) = Len(e)
<1> DEFINE m == SubSeq(e, Len(s) + 1, Len(e))
<1>1. Len(s) \in Nat /\ Len(e) \in Nat /\ Len(s) <= Len(e) /\ Len(<<>>) = 0
  BY DEF Follows
<1>2. Follows(m, Len(s), e) /\ Len(m) = Len(e) - Len(s)
  BY <1>1, FollowsRest
<1> HIDE DEF m
<1>3. Follows(<<>>, Len(s), e) /\ Follows(<<>>, Len(s) + 0 + Len(m), e)
  BY <1>1, <1>2 DEF Follows
<1>4. Stream(s, <<>>, m, <<>>, e) /\ Reach(s, <<>>, m, <<>>) = Len(e)
  BY <1>1, <1>2, <1>3 DEF Stream, Reach
<1> QED
  BY <1>4 DEF m

-----------------------------------------------------------------------------
(* Types *)

\* The type invariant in the parts the proofs use.
LEMMA Parts == TypeOK <=> Contents /\ Controls /\ Flags
BY DEF TypeOK, Contents, Controls, Flags

\* The invariant holds of an empty log nobody reads.
LEMMA Initially == Init => IInv
<1> SUFFICES ASSUME Init PROVE IInv
  OBVIOUS
<1> USE EventLogAssumption DEF Init
<1>1. Contents /\ Controls
  BY DEF Contents, Controls, PC
<1>2. Flags
  BY DEF Flags
<1>3. Numbered /\ Handlers /\ Browsers
  BY DEF Numbered, Handlers, Browsers
<1>4. Streams
  <2>1. Follows(<<>>, 0, <<>>)
    BY DEF Follows
  <2>2. \A v \in Viewers : view[v] = <<>> /\ conn[v] = NoConn
    OBVIOUS
  <2> QED
    BY <2>1, <2>2 DEF Streams
<1> QED
  BY <1>1, <1>2, <1>3, <1>4 DEF IInv

\* What emit stores is an event with the next number.
LEMMA Storing ==
  ASSUME IInv, NEW name \in Name, Store(name)
  PROVE  /\ Stored(name) \in Event /\ Stored(name).seq = Len(events) + 1
         /\ events' = Append(events, Stored(name)) /\ events' \in Seq(Event)
         /\ \A c \in Conns : chan'[c] = IF c \in subs \ Slow THEN Append(chan[c], Stored(name)) ELSE chan[c]
         /\ subs' = subs \ Slow
         /\ \A c \in Conns : closes'[c] = closes[c] + IF c \in Slow THEN 1 ELSE 0
         /\ chan' \in [Conns -> Seq(Event)]
<1>1. Len(events) \in Nat /\ events \in Seq(Event) /\ chan \in [Conns -> Seq(Event)]
  BY DEF IInv, Contents
<1>2. Stored(name) \in Event /\ Stored(name).seq = Len(events) + 1
  BY <1>1 DEF Stored, Event, Name
<1>3. events' = Append(events, Stored(name)) /\ events' \in Seq(Event)
  BY <1>1, <1>2 DEF Store
<1>4. chan' = [c \in Conns |-> IF c \in subs \ Slow THEN Append(chan[c], Stored(name)) ELSE chan[c]]
  BY DEF Store
<1>5. chan' \in [Conns -> Seq(Event)]
  BY <1>1, <1>2, <1>4
<1>6. subs' = subs \ Slow /\ \A c \in Conns : closes'[c] = closes[c] + IF c \in Slow THEN 1 ELSE 0
  BY DEF Store, Drop
<1> QED
  BY <1>2, <1>3, <1>4, <1>5, <1>6

\* Preserved: the sequences stay sequences of events.
LEMMA ContentsKept == ASSUME IInv, [Next]_vars PROVE Contents'
<1> USE DEF log, server, client
<1>0. Contents /\ Controls
  BY DEF IInv
<1>1. CASE UNCHANGED <<events, asked, replay, chan, wire, view>>
  BY <1>0, <1>1 DEF Contents
<1>2. ASSUME NEW name \in Name, Emit(name) PROVE Contents'
  <2>1. events' \in Seq(Event) /\ chan' \in [Conns -> Seq(Event)]
    BY <1>0, <1>2, Storing DEF Emit, Discard, Contents
  <2>2. asked' \in Seq(Name)
    BY <1>0, <1>2 DEF Emit, Contents
  <2> QED
    BY <1>0, <1>2, <2>1, <2>2 DEF Emit, Contents
<1>3. CASE Close \/ Quiet \/ UNCHANGED vars
  BY <1>1, <1>3 DEF Close, Quiet, vars
<1>4. ASSUME NEW c \in Conns, Subscribe(c) PROVE Contents'
  <2>1. Missed(c) \in Seq(Event)
    BY <1>0 DEF Contents, Controls, Missed
  <2> QED
    BY <1>0, <1>4, <2>1 DEF Subscribe, Contents
<1>5. ASSUME NEW c \in Conns, NEW e \in Event, Write(c, e) PROVE wire' \in [Conns -> Seq(Event)]
  BY <1>0, <1>5 DEF Write, Contents
<1>6. ASSUME NEW c \in Conns, WriteReplay(c) PROVE Contents'
  <2>1. Head(replay[c]) \in Event /\ Tail(replay[c]) \in Seq(Event)
    BY <1>0, <1>6 DEF WriteReplay, Contents
  <2> QED
    BY <1>0, <1>5, <1>6, <2>1 DEF WriteReplay, Contents
<1>7. ASSUME NEW c \in Conns, WriteLive(c) PROVE Contents'
  <2>1. Head(chan[c]) \in Event /\ Tail(chan[c]) \in Seq(Event)
    BY <1>0, <1>7 DEF WriteLive, Contents
  <2> QED
    BY <1>0, <1>5, <1>7, <2>1 DEF WriteLive, Contents
<1>8. ASSUME NEW c \in Conns, ReplayDone(c) \/ Return(c) PROVE Contents'
  BY <1>1, <1>8 DEF ReplayDone, Return
<1>9. ASSUME NEW c \in Conns, Finish(c) PROVE Contents'
  BY <1>0, <1>9 DEF Finish, Contents
<1>10. ASSUME NEW v \in Viewers, NEW c \in Conns, Open(v, c) PROVE Contents'
  BY <1>1, <1>10 DEF Open
<1>11. ASSUME NEW v \in Viewers, Dispatch(v) PROVE Contents'
  <2>1. conn[v] \in Conns
    BY <1>0, <1>11 DEF Dispatch, Controls
  <2>2. Head(wire[conn[v]]) \in Event /\ Tail(wire[conn[v]]) \in Seq(Event)
    BY <1>0, <1>11, <2>1 DEF Dispatch, Contents
  <2>3. view' \in [Viewers -> Seq(Event)]
    BY <1>0, <1>11, <2>2 DEF Dispatch, Contents
  <2>4. wire' \in [Conns -> Seq(Event)]
    <3>1. <<>> \in Seq(Event) /\ wire \in [Conns -> Seq(Event)]
      BY <1>0 DEF Contents
    <3>2. wire' = [wire EXCEPT ![conn[v]] = <<>>] \/ wire' = [wire EXCEPT ![conn[v]] = Tail(@)]
      BY <1>11 DEF Dispatch
    <3> QED
      BY <2>1, <2>2, <3>1, <3>2
  <2> QED
    BY <1>0, <1>11, <2>3, <2>4 DEF Dispatch, Contents
<1>12. ASSUME NEW v \in Viewers, EndOfStream(v) \/ Break(v) PROVE Contents'
  <2>1. <<>> \in Seq(Event) /\ wire \in [Conns -> Seq(Event)]
    BY <1>0 DEF Contents
  <2>2. wire' = wire \/ wire' = [wire EXCEPT ![conn[v]] = <<>>]
    BY <1>12 DEF EndOfStream, Break
  <2>3. wire' \in [Conns -> Seq(Event)]
    BY <2>1, <2>2
  <2> QED
    BY <1>0, <1>12, <2>3 DEF EndOfStream, Break, Contents
<1> QED
  BY <1>2, <1>3, <1>4, <1>6, <1>7, <1>8, <1>9, <1>10, <1>11, <1>12 DEF Next, Coordinator, Handler, Browser

\* Dropping subscribers.
LEMMA Dropping ==
  ASSUME Controls, NEW cs \in SUBSET Conns, Drop(cs)
  PROVE  subs' \subseteq Conns /\ closes' \in [Conns -> Nat]
BY DEF Controls, Drop

\* Preserved: handlers and browsers keep their types.
LEMMA ControlsKept == ASSUME IInv, [Next]_vars PROVE Controls'
<1> USE EventLogAssumption DEF log, server, client
<1>0. Controls /\ Contents /\ Numbered
  BY DEF IInv
<1>1. CASE UNCHANGED <<subs, gone, pc, after, closes, conn, breaks>>
  BY <1>0, <1>1 DEF Controls
<1>2. ASSUME NEW name \in Name, Emit(name) PROVE Controls'
  <2>1. subs' \subseteq Conns /\ closes' \in [Conns -> Nat]
    BY <1>0, <1>2, Dropping DEF Emit, Store, Discard, Controls, Slow
  <2> QED
    BY <1>0, <1>2, <2>1 DEF Emit, Controls
<1>3. CASE Close
  BY <1>0, <1>3, Dropping DEF Close, Controls
<1>4. CASE Quiet \/ UNCHANGED vars
  BY <1>1, <1>4 DEF Quiet, vars
<1>5. ASSUME NEW c \in Conns, Handler(c) PROVE Controls'
  <2>1. CASE WriteReplay(c) \/ ReplayDone(c) \/ WriteLive(c) \/ Return(c)
    BY <1>0, <2>1 DEF WriteReplay, ReplayDone, WriteLive, Return, Controls, PC
  <2>2. CASE Finish(c)
    <3>1. subs' \subseteq Conns /\ closes' \in [Conns -> Nat]
      BY <1>0, <2>2, Dropping DEF Finish, Cancel
    <3>2. pc' \in [Conns -> PC] /\ after' \in [Conns -> Nat] /\ gone' \subseteq Conns
      BY <1>0, <2>2 DEF Finish, Controls, PC
    <3> QED
      BY <1>0, <2>2, <3>1, <3>2 DEF Finish, Controls
  <2>3. CASE Subscribe(c)
    <3>1. closes' = [closes EXCEPT ![c] = 1] \/ closes' = [closes EXCEPT ![c] = 0]
      BY <2>3 DEF Subscribe
    <3>2. closes' \in [Conns -> Nat]
      BY <1>0, <3>1 DEF Controls
    <3>3. subs' \subseteq Conns /\ pc' \in [Conns -> PC]
      BY <1>0, <2>3 DEF Subscribe, Controls, PC
    <3> QED
      BY <1>0, <2>3, <3>2, <3>3 DEF Subscribe, Controls
  <2> QED
    BY <1>5, <2>1, <2>2, <2>3 DEF Handler
<1>6. ASSUME NEW v \in Viewers, NEW c \in Conns, Open(v, c) PROVE Controls'
  <2>1. LastEventId(v) \in Nat
    <3>1. view[v] \in Seq(Event)
      BY <1>0 DEF Contents
    <3>2. view[v] # <<>> => Last(view[v]) \in Event
      BY <3>1 DEF Last
    <3> QED
      BY <3>2 DEF LastEventId, Event
  <2> QED
    BY <1>0, <1>6, <2>1 DEF Open, Controls, PC
<1>7. ASSUME NEW v \in Viewers, Dispatch(v) \/ EndOfStream(v) \/ Break(v) PROVE Controls'
  <2>1. conn[v] \in Conns
    BY <1>0, <1>7 DEF Dispatch, EndOfStream, Break, Controls
  <2>2. conn' \in [Viewers -> Conns \cup {NoConn}] /\ gone' \subseteq Conns
    BY <1>0, <1>7, <2>1 DEF Dispatch, EndOfStream, Break, Leave, Controls
  <2>3. breaks' \in 0..MaxBreaks
    BY <1>0, <1>7 DEF Dispatch, EndOfStream, Break, Controls
  <2> QED
    BY <1>0, <1>7, <2>2, <2>3 DEF Dispatch, EndOfStream, Break, Controls
<1> QED
  BY <1>2, <1>3, <1>4, <1>5, <1>6, <1>7 DEF Next, Coordinator, Browser

\* Preserved: the flags keep theirs.
LEMMA FlagsKept == ASSUME IInv, [Next]_vars PROVE Flags'
<1> USE DEF log
<1>0. Flags
  BY DEF IInv
<1>1. ASSUME NEW name \in Name, Emit(name) PROVE Flags'
  BY <1>0, <1>1, Zenon DEF Emit, Store, Discard, Flags
<1>2. CASE Close
  BY <1>0, <1>2, Zenon DEF Close, Flags
<1>3. ASSUME UNCHANGED <<closed, truncated>> PROVE Flags'
  BY <1>0, <1>3 DEF Flags
<1>4. ASSUME NEW c \in Conns, Handler(c) PROVE UNCHANGED <<closed, truncated>>
  BY <1>4 DEF Handler, Subscribe, WriteReplay, ReplayDone, WriteLive, Return, Finish
<1>5. ASSUME NEW v \in Viewers, Browser(v) \/ Break(v) PROVE UNCHANGED <<closed, truncated>>
  BY <1>5 DEF Browser, Open, Dispatch, EndOfStream, Break
<1>6. CASE Quiet \/ UNCHANGED vars
  BY <1>3, <1>6 DEF Quiet, vars
<1> QED
  BY <1>1, <1>2, <1>3, <1>4, <1>5, <1>6 DEF Next, Coordinator

-----------------------------------------------------------------------------
(* The parts of the invariant *)

\* The log changes by what emit stores, only.
LEMMA LogElse ==
  ASSUME [Next]_vars
  PROVE  events' = events \/ \E name \in Name : Emit(name) /\ Store(name)
<1> USE DEF log, server, client
<1>1. ASSUME NEW name \in Name, Emit(name) PROVE events' = events \/ Store(name)
  BY <1>1 DEF Emit, Discard
<1>2. ASSUME NEW c \in Conns, Handler(c) PROVE events' = events
  BY <1>2 DEF Handler, Subscribe, WriteReplay, ReplayDone, WriteLive, Return, Finish
<1>3. ASSUME NEW v \in Viewers, Browser(v) \/ Break(v) PROVE events' = events
  BY <1>3 DEF Browser, Open, Dispatch, EndOfStream, Break
<1>4. Close \/ Quiet \/ UNCHANGED vars => events' = events
  BY DEF Close, Quiet, vars
<1> QED
  BY <1>1, <1>2, <1>3, <1>4 DEF Next, Coordinator

\* Preserved: numbers are given out by emit, one after the other.
LEMMA NumberedKept == ASSUME IInv, [Next]_vars PROVE Numbered'
<1>1. Numbered /\ events \in Seq(Event)
  BY DEF IInv, Contents
<1>2. CASE events' = events
  BY <1>1, <1>2 DEF Numbered
<1>3. ASSUME NEW name \in Name, Store(name) PROVE Numbered'
  <2>1. events' = Append(events, Stored(name)) /\ Stored(name).seq = Len(events) + 1
    BY <1>3, Storing
  <2>2. ASSUME NEW i \in DOMAIN events' PROVE (i \in DOMAIN events /\ events'[i] = events[i])
                                              \/ (i = Len(events) + 1 /\ events'[i] = Stored(name))
    BY <1>1, <2>1
  <2> QED
    BY <1>1, <2>1, <2>2 DEF Numbered
<1> QED
  BY <1>2, <1>3, LogElse

\* Preserved: a channel is closed when it leaves subs, and only then.
LEMMA HandlersKept == ASSUME IInv, [Next]_vars PROVE Handlers'
<1> USE DEF log, server, client
<1>0. Handlers /\ Controls /\ Contents
  BY DEF IInv
<1>1. CASE UNCHANGED <<subs, gone, pc, closes, replay, chan, wire>>
  BY <1>0, <1>1 DEF Handlers
<1>2. ASSUME NEW name \in Name, Emit(name) PROVE Handlers'
  <2>1. CASE Discard(name)
    BY <1>1, <1>2, <2>1 DEF Emit, Discard
  <2>2. CASE Store(name)
    <3>1. /\ \A c \in Conns : c \in subs' => c \in subs /\ c \notin Slow
          /\ \A c \in Conns : c \notin subs => chan'[c] = chan[c]
          /\ \A c \in Conns : closes'[c] = closes[c] + IF c \in Slow THEN 1 ELSE 0
          /\ Slow \subseteq subs
      BY <2>2, Storing DEF Slow
    <3>2. UNCHANGED <<gone, pc, replay, wire>>
      BY <1>2 DEF Emit
    <3> QED
      BY <1>0, <3>1, <3>2 DEF Handlers, Controls
  <2> QED
    BY <1>2, <2>1, <2>2 DEF Emit
<1>3. CASE Close
  <2>1. subs' = {} /\ \A c \in Conns : closes'[c] = closes[c] + IF c \in subs THEN 1 ELSE 0
    BY <1>3 DEF Close, Drop
  <2>2. UNCHANGED <<gone, pc, replay, chan, wire>>
    BY <1>3 DEF Close
  <2>3. \A c \in Conns : closes'[c] <= 1
    BY <1>0, <2>1 DEF Handlers, Controls
  <2> QED
    BY <1>0, <2>1, <2>2, <2>3 DEF Handlers
<1>4. CASE Quiet \/ UNCHANGED vars
  BY <1>1, <1>4 DEF Quiet, vars
<1>5. ASSUME NEW c \in Conns, Subscribe(c) PROVE Handlers'
  BY <1>0, <1>5 DEF Subscribe, Handlers, Controls, Contents
<1>6. ASSUME NEW c \in Conns, WriteReplay(c) \/ WriteLive(c) PROVE Handlers'
  <2>1. \A d \in Conns : d # c => wire'[d] = wire[d]
    BY <1>0, <1>6 DEF WriteReplay, WriteLive, Write, Contents
  <2>2. /\ UNCHANGED <<subs, gone, pc, closes>> /\ pc[c] \in {"replay", "live"}
        /\ \A d \in Conns : replay[d] = <<>> => replay'[d] = <<>>
        /\ \A d \in Conns : chan[d] = <<>> => chan'[d] = <<>>
    BY <1>0, <1>6 DEF WriteReplay, WriteLive, Contents
  <2> QED
    BY <1>0, <2>1, <2>2 DEF Handlers
<1>7. ASSUME NEW c \in Conns, ReplayDone(c) \/ Return(c) PROVE Handlers'
  BY <1>0, <1>7 DEF ReplayDone, Return, Ended, Handlers, Controls
<1>8. ASSUME NEW c \in Conns, Finish(c) PROVE Handlers'
  <2>1. subs' = subs \ {c} /\ \A d \in Conns : closes'[d] = closes[d] + IF d \in {c} \cap subs THEN 1 ELSE 0
    BY <1>8 DEF Finish, Cancel, Drop
  <2>2. /\ UNCHANGED <<replay, wire>> /\ pc[c] = "return" /\ gone' = gone \ {c}
        /\ pc'[c] = "idle" /\ chan'[c] = <<>>
        /\ \A d \in Conns : d # c => pc'[d] = pc[d] /\ chan'[d] = chan[d]
    BY <1>0, <1>8 DEF Finish, Controls, Contents
  <2>3. closes'[c] <= 1 /\ c \notin subs' /\ replay'[c] = <<>>
    BY <1>0, <2>1, <2>2 DEF Handlers, Controls
  <2>4. \A d \in Conns : d # c => closes'[d] = closes[d] /\ (d \in subs' <=> d \in subs) /\ (d \in gone' <=> d \in gone)
    BY <1>0, <2>1, <2>2 DEF Controls
  <2> QED
    BY <1>0, <2>2, <2>3, <2>4 DEF Handlers
<1>9. ASSUME NEW v \in Viewers, NEW c \in Conns, Open(v, c) PROVE Handlers'
  BY <1>0, <1>9 DEF Open, Free, Handlers, Controls
<1>10. ASSUME NEW v \in Viewers, Dispatch(v) \/ EndOfStream(v) \/ Break(v) PROVE Handlers'
  <2>1. conn[v] \in Conns /\ (gone' = gone \/ (pc[conn[v]] # "idle" /\ gone' = gone \cup {conn[v]}))
    BY <1>0, <1>10 DEF Dispatch, EndOfStream, Break, Leave, Controls
  <2>2. \A d \in Conns : wire[d] = <<>> => wire'[d] = <<>>
    BY <1>0, <1>10, <2>1 DEF Dispatch, EndOfStream, Break, Contents
  <2> QED
    BY <1>0, <1>10, <2>1, <2>2 DEF Dispatch, EndOfStream, Break, Handlers
<1> QED
  BY <1>2, <1>3, <1>4, <1>5, <1>6, <1>7, <1>8, <1>9, <1>10 DEF Next, Coordinator, Handler, Browser

\* Preserved: a connection has one browser, which asked for what it had not seen.
LEMMA BrowsersKept == ASSUME IInv, [Next]_vars PROVE Browsers'
<1> USE EventLogAssumption DEF log, server, client
<1>0. Browsers /\ Handlers /\ Controls /\ Contents
  BY DEF IInv
<1>1. CASE UNCHANGED <<gone, pc, after, view, conn>>
  BY <1>0, <1>1 DEF Browsers
<1>2. ASSUME NEW name \in Name, Emit(name) PROVE Browsers'
  BY <1>1, <1>2 DEF Emit
<1>3. CASE Close \/ Quiet \/ UNCHANGED vars
  BY <1>1, <1>3 DEF Close, Quiet, vars
<1>4. ASSUME NEW c \in Conns, WriteReplay(c) \/ WriteLive(c) PROVE Browsers'
  BY <1>1, <1>4 DEF WriteReplay, WriteLive
<1>5. ASSUME NEW c \in Conns, Subscribe(c) \/ ReplayDone(c) \/ Return(c) \/ Finish(c) PROVE Browsers'
  <2>1. /\ UNCHANGED <<view, conn>> /\ gone' \subseteq gone
        /\ \A d \in Conns : pc'[d] = "subscribe" => pc[d] = "subscribe" /\ after'[d] = after[d]
    BY <1>0, <1>5 DEF Subscribe, ReplayDone, Return, Finish, Controls
  <2> QED
    BY <1>0, <2>1 DEF Browsers, Controls
<1>6. ASSUME NEW v \in Viewers, NEW c \in Conns, Open(v, c) PROVE Browsers'
  <2>1. LastEventId(v) = Len(view[v])
    <3>1. view[v] \in Seq(Event) /\ events \in Seq(Event) /\ Follows(view[v], 0, events) /\ Numbered
      BY <1>0 DEF IInv, Streams, Contents
    <3>2. CASE view[v] = <<>>
      BY <3>2 DEF LastEventId
    <3>3. CASE view[v] # <<>>
      <4>1. Len(view[v]) \in 1..Len(events) /\ view[v][Len(view[v])] = events[0 + Len(view[v])]
        BY <3>1, <3>3 DEF Follows
      <4>2. events[Len(view[v])].seq = Len(view[v])
        BY <3>1, <4>1 DEF Numbered
      <4> QED
        BY <3>3, <4>1, <4>2 DEF LastEventId, Last
    <3> QED
      BY <3>2, <3>3
  <2>2. /\ c \notin gone /\ \A w \in Viewers : conn[w] # c
        /\ UNCHANGED <<gone, view>> /\ conn'[v] = c /\ after'[c] = Len(view[v])
        /\ \A w \in Viewers : w # v => conn'[w] = conn[w]
        /\ \A d \in Conns : d # c => after'[d] = after[d] /\ pc'[d] = pc[d]
    BY <1>0, <1>6, <2>1 DEF Open, Free, Handlers, Controls
  <2>3. ASSUME NEW u \in Viewers, conn'[u] # NoConn
        PROVE  /\ conn'[u] \notin gone' /\ \A w \in Viewers : conn'[w] = conn'[u] => w = u
               /\ pc'[conn'[u]] = "subscribe" => after'[conn'[u]] = Len(view'[u])
    <3>1. CASE u = v
      BY <2>2, <3>1
    <3>2. CASE u # v
      <4>1. conn'[u] = conn[u] /\ conn[u] # c /\ conn[u] \in Conns
        BY <1>0, <2>2, <2>3, <3>2 DEF Controls
      <4> QED
        BY <1>0, <2>2, <2>3, <4>1 DEF Browsers
    <3> QED
      BY <3>1, <3>2
  <2> QED
    BY <2>3 DEF Browsers
<1>7. ASSUME NEW v \in Viewers, Dispatch(v) PROVE Browsers'
  <2>1. conn[v] \in Conns /\ pc[conn[v]] # "subscribe"
    BY <1>0, <1>7 DEF Dispatch, Controls, Handlers
  <2>2. /\ UNCHANGED <<pc, after>>
        /\ \A w \in Viewers : w # v => view'[w] = view[w] /\ conn'[w] = conn[w]
        /\ \/ conn' = conn /\ gone' = gone
           \/ conn'[v] = NoConn /\ gone' \subseteq gone \cup {conn[v]}
    BY <1>0, <1>7, <2>1 DEF Dispatch, Leave, Controls, Contents
  <2>3. ASSUME NEW u \in Viewers, conn'[u] # NoConn
        PROVE  /\ conn'[u] \notin gone' /\ \A w \in Viewers : conn'[w] = conn'[u] => w = u
               /\ pc'[conn'[u]] = "subscribe" => after'[conn'[u]] = Len(view'[u])
    <3>1. conn'[u] = conn[u] /\ (u = v => conn' = conn /\ gone' = gone) /\ (u # v => view'[u] = view[u])
      BY <2>2, <2>3
    <3>2. u # v => conn[u] # conn[v]
      BY <1>0, <2>3, <3>1 DEF Browsers
    <3>3. \A w \in Viewers : conn'[w] = conn[w] \/ conn'[w] = NoConn
      BY <2>2
    <3> QED
      BY <1>0, <2>1, <2>2, <2>3, <3>1, <3>2, <3>3 DEF Browsers
  <2> QED
    BY <2>3 DEF Browsers
<1>8. ASSUME NEW v \in Viewers, EndOfStream(v) \/ Break(v) PROVE Browsers'
  <2>1. /\ UNCHANGED <<pc, after, view>> /\ conn'[v] = NoConn /\ gone' \subseteq gone \cup {conn[v]}
        /\ \A w \in Viewers : w # v => conn'[w] = conn[w]
    BY <1>0, <1>8 DEF EndOfStream, Break, Leave, Controls
  <2>2. ASSUME NEW u \in Viewers, conn'[u] # NoConn
        PROVE  /\ conn'[u] \notin gone' /\ \A w \in Viewers : conn'[w] = conn'[u] => w = u
               /\ pc'[conn'[u]] = "subscribe" => after'[conn'[u]] = Len(view'[u])
    <3>1. u # v /\ conn'[u] = conn[u]
      BY <2>1, <2>2
    <3>2. conn[u] # conn[v]
      BY <1>0, <2>2, <3>1 DEF Browsers
    <3>3. \A w \in Viewers : conn'[w] = conn[w] \/ conn'[w] = NoConn
      BY <2>1
    <3> QED
      BY <1>0, <2>1, <2>2, <3>1, <3>2, <3>3 DEF Browsers
  <2> QED
    BY <2>2 DEF Browsers
<1> QED
  BY <1>2, <1>3, <1>4, <1>5, <1>6, <1>7, <1>8 DEF Next, Coordinator, Handler, Browser

\* Preserved: events move from piece to piece of a stream, none is skipped.
LEMMA StreamsKept == ASSUME IInv, [Next]_vars PROVE Streams'
<1> USE EventLogAssumption DEF log, server, client
<1>0. Streams /\ Browsers /\ Handlers /\ Controls /\ Contents
  BY DEF IInv
<1>1. CASE UNCHANGED <<events, subs, pc, replay, chan, wire, view, conn>>
  BY <1>0, <1>1 DEF Streams, StreamOf
<1>2. ASSUME NEW v \in Viewers, conn[v] # NoConn
      PROVE  /\ conn[v] \in Conns /\ conn[v] \notin gone /\ wire[conn[v]] \in Seq(Event)
             /\ replay[conn[v]] \in Seq(Event) /\ chan[conn[v]] \in Seq(Event)
             /\ \A w \in Viewers : conn[w] = conn[v] => w = v
  BY <1>0, <1>2 DEF Browsers, Controls, Contents
<1>3. \A v \in Viewers : view[v] \in Seq(Event)
  BY <1>0 DEF Contents
<1>4. ASSUME NEW name \in Name, Emit(name), Store(name) PROVE Streams'
  <2> DEFINE x == Stored(name)
  <2>1. /\ x \in Event /\ events' = Append(events, x) /\ events \in Seq(Event)
        /\ \A c \in Conns : chan'[c] = IF c \in subs \ Slow THEN Append(chan[c], x) ELSE chan[c]
        /\ subs' = subs \ Slow
        /\ UNCHANGED <<pc, replay, wire, view, conn>>
    BY <1>0, <1>4, Storing DEF Emit, Contents
  <2> HIDE DEF x
  <2>2. ASSUME NEW v \in Viewers PROVE Follows(view[v], 0, events')
    BY <1>0, <1>3, <2>1, FollowsLonger DEF Streams
  <2>3. ASSUME NEW v \in Viewers, conn[v] # NoConn, pc[conn[v]] # "subscribe" PROVE StreamOf(v, conn[v])'
    <3>1. StreamOf(v, conn[v])
      BY <1>0, <2>3 DEF Streams
    <3>2. CASE conn[v] \in subs \ Slow
      <4>1. chan'[conn[v]] = Append(chan[conn[v]], x)
        BY <1>2, <2>1, <2>3, <3>2
      <4>2. /\ Stream(view[v], wire[conn[v]], replay[conn[v]], Append(chan[conn[v]], x), events')
            /\ Reach(view[v], wire[conn[v]], replay[conn[v]], Append(chan[conn[v]], x)) = Len(events')
        BY <1>2, <1>3, <2>1, <2>3, <3>1, <3>2, StreamBoth DEF StreamOf
      <4> QED
        BY <2>1, <4>1, <4>2 DEF StreamOf
    <3>3. CASE conn[v] \notin subs \ Slow
      <4>1. chan'[conn[v]] = chan[conn[v]] /\ conn[v] \notin subs'
        BY <1>2, <2>1, <2>3, <3>3
      <4>2. Stream(view[v], wire[conn[v]], replay[conn[v]], chan[conn[v]], events')
        BY <1>2, <1>3, <2>1, <2>3, <3>1, StreamLonger DEF StreamOf
      <4> QED
        BY <2>1, <4>1, <4>2 DEF StreamOf
    <3> QED
      BY <3>2, <3>3
  <2> QED
    BY <2>1, <2>2, <2>3 DEF Streams
<1>5. ASSUME NEW name \in Name, Emit(name), Discard(name) PROVE Streams'
  BY <1>1, <1>5 DEF Emit, Discard
<1>6. CASE Close
  <2>1. subs' = {} /\ UNCHANGED <<events, pc, replay, chan, wire, view, conn>>
    BY <1>6 DEF Close, Drop
  <2> QED
    BY <1>0, <2>1 DEF Streams, StreamOf
<1>7. CASE Quiet \/ UNCHANGED vars
  BY <1>1, <1>7 DEF Quiet, vars
<1>8. ASSUME NEW c \in Conns, Subscribe(c) PROVE Streams'
  <2>1. /\ UNCHANGED <<events, chan, wire, view, conn>> /\ subs' \subseteq subs \cup {c}
        /\ pc[c] = "subscribe" /\ replay'[c] = Missed(c)
        /\ \A d \in Conns : d # c => replay'[d] = replay[d] /\ pc'[d] = pc[d]
    BY <1>0, <1>8 DEF Subscribe, Contents, Controls
  <2>2. wire[c] = <<>> /\ chan[c] = <<>>
    BY <1>0, <2>1 DEF Handlers
  <2>3. ASSUME NEW v \in Viewers, conn[v] = c PROVE StreamOf(v, c)'
    <3>1. Missed(c) = SubSeq(events, Len(view[v]) + 1, Len(events))
      BY <1>0, <2>1, <2>3 DEF Browsers, Missed
    <3>2. /\ Stream(view[v], <<>>, Missed(c), <<>>, events)
          /\ Reach(view[v], <<>>, Missed(c), <<>>) = Len(events)
      BY <1>0, <1>3, <3>1, StreamBegun DEF Streams, Contents
    <3> QED
      BY <2>1, <2>2, <3>2 DEF StreamOf
  <2>4. ASSUME NEW v \in Viewers, conn[v] # c, conn[v] # NoConn, pc'[conn[v]] # "subscribe" PROVE StreamOf(v, conn[v])'
    <3>1. /\ conn[v] \in Conns /\ pc[conn[v]] # "subscribe" /\ replay'[conn[v]] = replay[conn[v]]
          /\ (conn[v] \in subs' => conn[v] \in subs)
      BY <1>2, <2>1, <2>4
    <3>2. StreamOf(v, conn[v])
      BY <1>0, <2>4, <3>1 DEF Streams
    <3> QED
      BY <2>1, <3>1, <3>2 DEF StreamOf
  <2> QED
    BY <1>0, <2>1, <2>3, <2>4 DEF Streams
<1>9. ASSUME NEW c \in Conns, ReplayDone(c) \/ Return(c) PROVE Streams'
  <2>1. /\ UNCHANGED <<events, subs, replay, chan, wire, view, conn>>
        /\ \A d \in Conns : pc'[d] # "subscribe" => pc[d] # "subscribe"
    BY <1>0, <1>9 DEF ReplayDone, Return, Controls
  <2> QED
    BY <1>0, <1>2, <2>1 DEF Streams, StreamOf
<1>10. ASSUME NEW c \in Conns, WriteReplay(c) \/ WriteLive(c) PROVE Streams'
  <2>1. /\ UNCHANGED <<events, subs, pc, view, conn>> /\ pc[c] \in {"replay", "live"}
        /\ \A d \in Conns : d # c => wire'[d] = wire[d] /\ replay'[d] = replay[d] /\ chan'[d] = chan[d]
    BY <1>0, <1>10 DEF WriteReplay, WriteLive, Write, Contents
  <2>2. ASSUME NEW v \in Viewers, conn[v] = c PROVE StreamOf(v, c)'
    <3>1. StreamOf(v, c) /\ c \notin gone
      BY <1>0, <1>2, <2>1, <2>2, EventLogAssumption DEF Streams
    <3>2. /\ view[v] \in Seq(Event) /\ wire[c] \in Seq(Event) /\ replay[c] \in Seq(Event)
          /\ chan[c] \in Seq(Event) /\ events \in Seq(Event)
      BY <1>0 DEF Contents
    <3>3. Stream(view[v], wire[c], replay[c], chan[c], events)
      BY <3>1 DEF StreamOf
    <3>4. CASE WriteReplay(c)
      <4>1. /\ replay[c] # <<>> /\ wire'[c] = Append(wire[c], Head(replay[c]))
            /\ replay'[c] = Tail(replay[c]) /\ chan'[c] = chan[c]
        BY <1>0, <3>1, <3>4 DEF WriteReplay, Write, Contents
      <4>2. /\ Stream(view[v], Append(wire[c], Head(replay[c])), Tail(replay[c]), chan[c], events)
            /\ Reach(view[v], Append(wire[c], Head(replay[c])), Tail(replay[c]), chan[c])
                 = Reach(view[v], wire[c], replay[c], chan[c])
        BY <3>2, <3>3, <4>1, StreamReplayed
      <4> QED
        BY <2>1, <3>1, <4>1, <4>2 DEF StreamOf
    <3>5. CASE WriteLive(c)
      <4>1. /\ chan[c] # <<>> /\ wire'[c] = Append(wire[c], Head(chan[c]))
            /\ chan'[c] = Tail(chan[c]) /\ replay'[c] = <<>> /\ replay[c] = <<>>
        BY <1>0, <3>1, <3>5 DEF WriteLive, Write, Contents, Handlers
      <4>2. /\ Stream(view[v], Append(wire[c], Head(chan[c])), <<>>, Tail(chan[c]), events)
            /\ Reach(view[v], Append(wire[c], Head(chan[c])), <<>>, Tail(chan[c]))
                 = Reach(view[v], wire[c], replay[c], chan[c])
        BY <3>2, <3>3, <4>1, StreamReceived
      <4> QED
        BY <2>1, <3>1, <4>1, <4>2 DEF StreamOf
    <3> QED
      BY <1>10, <3>4, <3>5
  <2>3. ASSUME NEW v \in Viewers, conn[v] # c, conn[v] # NoConn, pc[conn[v]] # "subscribe" PROVE StreamOf(v, conn[v])'
    <3>1. StreamOf(v, conn[v]) /\ conn[v] \in Conns
      BY <1>0, <1>2, <2>3 DEF Streams
    <3> QED
      BY <2>1, <2>3, <3>1 DEF StreamOf
  <2> QED
    BY <1>0, <2>1, <2>2, <2>3 DEF Streams
<1>11. ASSUME NEW c \in Conns, Finish(c) PROVE Streams'
  <2>1. /\ UNCHANGED <<events, replay, wire, view, conn>> /\ subs' \subseteq subs /\ pc[c] = "return"
        /\ chan'[c] = <<>> /\ \A d \in Conns : d # c => chan'[d] = chan[d] /\ pc'[d] = pc[d]
    BY <1>0, <1>11 DEF Finish, Cancel, Drop, Contents, Controls
  <2>2. ASSUME NEW v \in Viewers, conn[v] # NoConn, pc'[conn[v]] # "subscribe" PROVE StreamOf(v, conn[v])'
    <3>1. pc[conn[v]] # "subscribe" /\ chan'[conn[v]] = chan[conn[v]]
      BY <1>0, <1>2, <2>1, <2>2 DEF Handlers
    <3>2. StreamOf(v, conn[v])
      BY <1>0, <2>2, <3>1 DEF Streams
    <3> QED
      BY <2>1, <3>1, <3>2 DEF StreamOf
  <2> QED
    BY <1>0, <2>1, <2>2 DEF Streams
<1>12. ASSUME NEW v \in Viewers, NEW c \in Conns, Open(v, c) PROVE Streams'
  <2>1. /\ UNCHANGED <<events, subs, replay, chan, wire, view>> /\ conn[v] = NoConn /\ conn'[v] = c
        /\ pc'[c] = "subscribe" /\ \A d \in Conns : d # c => pc'[d] = pc[d]
        /\ \A w \in Viewers : w # v => conn'[w] = conn[w]
    BY <1>0, <1>12 DEF Open, Controls
  <2>2. ASSUME NEW w \in Viewers, conn'[w] # NoConn, pc'[conn'[w]] # "subscribe" PROVE StreamOf(w, conn[w])'
    <3>1. w # v /\ conn'[w] = conn[w] /\ conn[w] \in Conns /\ pc[conn[w]] # "subscribe"
      BY <1>2, <2>1, <2>2
    <3>2. StreamOf(w, conn[w])
      BY <1>0, <2>2, <3>1 DEF Streams
    <3> QED
      BY <2>1, <3>1, <3>2 DEF StreamOf
  <2> QED
    BY <1>0, <2>1, <2>2 DEF Streams
<1>13. ASSUME NEW v \in Viewers, Dispatch(v) PROVE Streams'
  <2> DEFINE c == conn[v]
  <2>1. /\ c # NoConn /\ wire[c] # <<>> /\ UNCHANGED <<events, subs, pc, replay, chan>>
        /\ view' = [view EXCEPT ![v] = Append(@, Head(wire[c]))]
        /\ \/ conn' = [conn EXCEPT ![v] = NoConn] /\ wire' = [wire EXCEPT ![c] = <<>>]
           \/ conn' = conn /\ wire' = [wire EXCEPT ![c] = Tail(@)]
    BY <1>13 DEF Dispatch, Leave
  <2>2. c \in Conns /\ pc[c] # "subscribe"
    BY <1>0, <1>2, <2>1 DEF Handlers
  <2>3. StreamOf(v, c) /\ Follows(view[v], 0, events)
    BY <1>0, <2>1, <2>2 DEF Streams
  <2>4. /\ Follows(Append(view[v], Head(wire[c])), 0, events)
        /\ Stream(Append(view[v], Head(wire[c])), Tail(wire[c]), replay[c], chan[c], events)
        /\ Reach(Append(view[v], Head(wire[c])), Tail(wire[c]), replay[c], chan[c])
             = Reach(view[v], wire[c], replay[c], chan[c])
    <3>1. /\ view[v] \in Seq(Event) /\ wire[c] \in Seq(Event) /\ replay[c] \in Seq(Event)
          /\ chan[c] \in Seq(Event) /\ events \in Seq(Event)
      BY <1>0, <2>2 DEF Contents
    <3>2. Stream(view[v], wire[c], replay[c], chan[c], events) /\ Follows(view[v], 0, events)
      BY <2>3 DEF StreamOf
    <3> HIDE DEF c
    <3> QED
      BY <2>1, <3>1, <3>2, StreamDispatched
  <2>5. view'[v] = Append(view[v], Head(wire[c])) /\ \A w \in Viewers : w # v => view'[w] = view[w]
    BY <1>0, <2>1 DEF Contents
  <2>6. ASSUME NEW w \in Viewers PROVE Follows(view'[w], 0, events')
    BY <1>0, <2>1, <2>4, <2>5 DEF Streams
  <2>8. ASSUME NEW w \in Viewers, w # v, conn'[w] # NoConn, pc'[conn'[w]] # "subscribe" PROVE StreamOf(w, conn[w])'
    <3>1. conn'[w] = conn[w]
      BY <1>0, <2>1, <2>8 DEF Controls
    <3>2. conn[w] # c /\ conn[w] \in Conns
      BY <1>2, <2>1, <2>8, <3>1
    <3>3. wire'[conn[w]] = wire[conn[w]]
      BY <1>0, <2>1, <2>2, <3>2 DEF Contents
    <3>4. StreamOf(w, conn[w])
      BY <1>0, <2>1, <2>8, <3>1 DEF Streams
    <3> QED
      BY <2>1, <2>5, <2>8, <3>1, <3>3, <3>4 DEF StreamOf
  <2>9. conn'[v] # NoConn => StreamOf(v, conn[v])'
    <3>1. ASSUME conn'[v] # NoConn PROVE StreamOf(v, conn[v])'
      <4>1. wire'[c] = Tail(wire[c]) /\ conn'[v] = c
        BY <1>0, <2>1, <2>2, <3>1 DEF Contents, Controls
      <4> QED
        BY <2>1, <2>3, <2>4, <2>5, <4>1 DEF StreamOf
    <3> QED
      BY <3>1
  <2> QED
    BY <2>6, <2>8, <2>9 DEF Streams
<1>14. ASSUME NEW v \in Viewers, EndOfStream(v) \/ Break(v) PROVE Streams'
  <2>1. /\ UNCHANGED <<events, subs, pc, replay, chan, view>> /\ conn'[v] = NoConn
        /\ conn[v] \in Conns
        /\ \A w \in Viewers : w # v => conn'[w] = conn[w]
        /\ \A d \in Conns : d # conn[v] => wire'[d] = wire[d]
    BY <1>0, <1>14 DEF EndOfStream, Break, Leave, Controls, Contents
  <2>2. ASSUME NEW w \in Viewers, conn'[w] # NoConn, pc'[conn'[w]] # "subscribe" PROVE StreamOf(w, conn[w])'
    <3>1. w # v /\ conn'[w] = conn[w] /\ conn[w] \in Conns /\ conn[w] # conn[v]
      BY <1>2, <2>1, <2>2
    <3>2. StreamOf(w, conn[w])
      BY <1>0, <2>1, <2>2, <3>1 DEF Streams
    <3> QED
      BY <2>1, <3>1, <3>2 DEF StreamOf
  <2> QED
    BY <1>0, <2>1, <2>2 DEF Streams
<1> QED
  BY <1>4, <1>5, <1>6, <1>7, <1>8, <1>9, <1>10, <1>11, <1>12, <1>13, <1>14
  DEF Next, Coordinator, Handler, Browser, Emit

-----------------------------------------------------------------------------
(* The theorems *)

\* The invariant is inductive.
LEMMA Inductive == ASSUME IInv, [Next]_vars PROVE IInv'
<1>1. Contents' /\ Controls' /\ Flags'
  BY ContentsKept, ControlsKept, FlagsKept
<1> QED
  BY <1>1, NumberedKept, HandlersKept, BrowsersKept, StreamsKept DEF IInv

\* It holds throughout.
LEMMA Invariance == Spec => []IInv
<1>1. Init => IInv
  BY Initially
<1>2. IInv /\ [Next]_vars => IInv'
  BY Inductive
<1> QED
  BY <1>1, <1>2, PTL DEF Spec

\* Every variable of the log, its handlers and its browsers stays within its type.
THEOREM TypeCorrect == Spec => []TypeOK
<1>1. IInv => TypeOK
  BY Parts DEF IInv
<1> QED
  BY <1>1, Invariance, PTL

\* What a viewer has seen and what its connection still brings, in one piece.
LEMMA Whole ==
  ASSUME IInv, NEW v \in Viewers, conn[v] # NoConn, pc[conn[v]] # "subscribe"
  PROVE  /\ IsPrefix(view[v] \o Pending(conn[v]), events)
         /\ conn[v] \in subs => view[v] \o Pending(conn[v]) = events
<1> DEFINE c == conn[v]  s == view[v]  w == wire[c]  r == replay[c]  h == chan[c]
<1>1. c \in Conns
  BY DEF IInv, Controls
<1>2. /\ s \in Seq(Event) /\ w \in Seq(Event) /\ r \in Seq(Event) /\ h \in Seq(Event)
      /\ events \in Seq(Event)
  BY <1>1 DEF IInv, Contents
<1>3. /\ Follows(s, 0, events) /\ Follows(w, Len(s), events) /\ Follows(r, Len(s) + Len(w), events)
      /\ Follows(h, Len(s) + Len(w) + Len(r), events)
      /\ c \in subs => Len(s) + Len(w) + Len(r) + Len(h) = Len(events)
  BY DEF IInv, Streams, StreamOf, Stream, Reach
<1>4. Pending(c) = (w \o r) \o h
  BY DEF Pending
<1> HIDE DEF c, s, w, r, h
<1>5. Len(s) \in Nat /\ Len(s) + Len(w) \in Nat /\ 0 + Len(s) = Len(s)
  BY <1>2
<1>6. /\ w \o r \in Seq(Event) /\ Len(w \o r) = Len(w) + Len(r) /\ Follows(w \o r, Len(s), events)
  BY <1>2, <1>3, <1>5, FollowsConcat
<1>7. Len(s) + Len(w \o r) = Len(s) + Len(w) + Len(r)
  BY <1>2, <1>6
<1>8. /\ (w \o r) \o h \in Seq(Event) /\ Len((w \o r) \o h) = Len(w) + Len(r) + Len(h)
      /\ Follows((w \o r) \o h, Len(s), events)
  <2>1. Follows(h, Len(s) + Len(w \o r), events)
    BY <1>3, <1>7
  <2>2. /\ (w \o r) \o h \in Seq(Event) /\ Len((w \o r) \o h) = Len(w \o r) + Len(h)
        /\ Follows((w \o r) \o h, Len(s), events)
    BY <1>2, <1>5, <1>6, <2>1, FollowsConcat
  <2> QED
    BY <1>6, <2>2
<1> DEFINE t == (w \o r) \o h
<1> HIDE DEF t
<1>9. /\ s \o t \in Seq(Event) /\ Follows(s \o t, 0, events)
      /\ Len(s \o t) = Len(s) + (Len(w) + Len(r) + Len(h))
  <2>1. /\ t \in Seq(Event) /\ Len(t) = Len(w) + Len(r) + Len(h) /\ Follows(t, 0 + Len(s), events)
    BY <1>5, <1>8 DEF t
  <2>2. /\ s \o t \in Seq(Event) /\ Len(s \o t) = Len(s) + Len(t) /\ Follows(s \o t, 0, events)
    BY <1>2, <1>3, <2>1, FollowsConcat
  <2> QED
    BY <2>1, <2>2
<1>10. c \in subs => Len(s \o t) = Len(events)
  BY <1>2, <1>3, <1>9
<1>11. /\ IsPrefix(s \o t, events)
       /\ c \in subs => s \o t = events
  BY <1>2, <1>9, <1>10, FollowsPrefix
<1> QED
  BY <1>4, <1>11 DEF c, s, t

\* The promise of sse.js: what a connection still delivers continues what its viewer
\* has seen, and while it is subscribed nothing is missing.
THEOREM StreamSafe == Spec => []StreamIntact
<1>1. IInv => StreamIntact
  <2> SUFFICES ASSUME IInv, NEW v \in Viewers
               PROVE  /\ IsPrefix(view[v], events)
                      /\ conn[v] # NoConn /\ pc[conn[v]] # "subscribe" =>
                           /\ IsPrefix(view[v] \o Pending(conn[v]), events)
                           /\ conn[v] \in subs => view[v] \o Pending(conn[v]) = events
    BY DEF StreamIntact
  <2>1. IsPrefix(view[v], events)
    BY FollowsPrefix DEF IInv, Streams, Contents
  <2> QED
    BY <2>1, Whole
<1> QED
  BY <1>1, Invariance, PTL

\* emit, close and a handler's cancel never close a channel a second time, and no
\* handler that has ended is left subscribed.
THEOREM SubscriptionsSafe == Spec => []SubscriptionsOpen
<1>1. IInv => SubscriptionsOpen
  BY DEF IInv, Handlers, SubscriptionsOpen
<1> QED
  BY <1>1, Invariance, PTL

-----------------------------------------------------------------------------
(* The log and its viewers implement the abstract feed, but for its fairness. *)

\* hello comes first and lands, so the log has something once emit was called.
Begun == (asked = <<>> => ~closed) /\ (asked # <<>> => events # <<>>)

\* What a step does to the log and the viewers: emit adds one event at the end or
\* discards it, close seals, the browser dispatches; the rest leaves them alone.
LEMMA Steps ==
  ASSUME IInv, [Next]_vars
  PROVE  \/ /\ ~closed /\ UNCHANGED <<closed, view>> /\ asked' # <<>>
            /\ \E x \in Event : events' = Append(events, x)
         \/ \E name \in Name : Emittable(name) /\ ~Lands(name) /\ asked' # <<>> /\ UNCHANGED <<events, closed, view>>
         \/ CloseReady /\ closed' = TRUE /\ UNCHANGED <<events, asked, view>>
         \/ UNCHANGED <<events, closed, asked>> /\ \E v \in Viewers : Dispatch(v)
         \/ UNCHANGED <<events, closed, asked, view>>
<1> USE DEF log, server, client
<1>1. ASSUME NEW name \in Name, Emit(name), Store(name)
      PROVE  /\ ~closed /\ UNCHANGED <<closed, view>> /\ asked' # <<>>
             /\ \E x \in Event : events' = Append(events, x)
  <2>1. asked' = Append(asked, name) /\ asked \in Seq(Name)
    BY <1>1 DEF Emit, IInv, Contents
  <2>2. asked' # <<>>
    BY <2>1
  <2>3. \E x \in Event : events' = Append(events, x)
    BY <1>1, Storing
  <2> QED
    BY <1>1, <2>2, <2>3 DEF Emit, Store, Lands
<1>2. ASSUME NEW name \in Name, Emit(name), Discard(name)
      PROVE  Emittable(name) /\ ~Lands(name) /\ asked' # <<>> /\ UNCHANGED <<events, closed, view>>
  <2>1. asked' = Append(asked, name) /\ asked \in Seq(Name)
    BY <1>2 DEF Emit, IInv, Contents
  <2>2. asked' # <<>>
    BY <2>1
  <2> QED
    BY <1>2, <2>2 DEF Emit, Discard
<1>3. CASE Close
  BY <1>3 DEF Close
<1>4. ASSUME NEW c \in Conns, Handler(c) PROVE UNCHANGED <<events, closed, asked, view>>
  BY <1>4 DEF Handler, Subscribe, WriteReplay, ReplayDone, WriteLive, Return, Finish
<1>5. ASSUME NEW v \in Viewers, Dispatch(v) PROVE UNCHANGED <<events, closed, asked>>
  BY <1>5 DEF Dispatch
<1>6. ASSUME NEW v \in Viewers, (\E c \in Conns : Open(v, c)) \/ EndOfStream(v) \/ Break(v)
      PROVE  UNCHANGED <<events, closed, asked, view>>
  BY <1>6 DEF Open, EndOfStream, Break
<1>7. CASE Quiet \/ UNCHANGED vars
  BY <1>7 DEF Quiet, vars
<1> QED
  BY <1>1, <1>2, <1>3, <1>4, <1>5, <1>6, <1>7 DEF Next, Coordinator, Browser, Emit

\* Begun is inductive, with the invariant.
LEMMA BegunKept == ASSUME IInv, Begun, [Next]_vars PROVE Begun'
<1>1. CASE UNCHANGED closed /\ asked' # <<>> /\ \E x \in Event : events' = Append(events, x)
  BY <1>1 DEF Begun, IInv, Contents
<1>2. ASSUME NEW name \in Name, Emittable(name), ~Lands(name), asked' # <<>>, UNCHANGED <<events, closed>>
      PROVE  Begun'
  <2>1. asked # <<>>
    <3>1. asked = <<>> => ~closed /\ name = "hello"
      BY <1>2 DEF Begun, Emittable
    <3> QED
      BY <1>2, <3>1 DEF Lands, AtCap
  <2> QED
    BY <1>2, <2>1 DEF Begun
<1>3. CASE CloseReady /\ UNCHANGED <<events, asked>>
  BY <1>3 DEF Begun, CloseReady
<1>4. CASE UNCHANGED <<events, closed, asked>>
  BY <1>4 DEF Begun
<1> QED
  BY <1>1, <1>2, <1>3, <1>4, Steps

\* What the browser dispatches is the next event of the log.
LEMMA DispatchReads ==
  ASSUME IInv, NEW v \in Viewers, Dispatch(v)
  PROVE  AbstractFeed!Read(v)
<1> DEFINE w == wire[conn[v]]
<1>0. Contents /\ Streams
  BY DEF IInv
<1>1. conn[v] \in Conns /\ conn[v] # NoConn /\ w # <<>>
  BY DEF Dispatch, IInv, Controls
<1>2. pc[conn[v]] # "subscribe"
  BY <1>1 DEF IInv, Handlers
<1>3. /\ view[v] \in Seq(Event) /\ w \in Seq(Event) /\ events \in Seq(Event)
      /\ Follows(w, Len(view[v]), events)
  BY <1>0, <1>1, <1>2 DEF Contents, Streams, StreamOf, Stream
<1>4. Len(view[v]) + 1 <= Len(events) /\ Head(w) = events[Len(view[v]) + 1]
  <2>1. Len(view[v]) \in Nat
    BY <1>3
  <2> QED
    BY <1>1, <1>3, <2>1, FollowsTail
<1>5. /\ view' = [view EXCEPT ![v] = Append(view[v], Head(w))]
      /\ UNCHANGED <<events, closed>>
  BY DEF Dispatch, log
<1>6. Len(view[v]) < Len(events)
  BY <1>3, <1>4
<1> QED
  BY <1>4, <1>5, <1>6 DEF AbstractFeed!Read, AbstractFeed!Unread

\* Every step of the log, its handlers and its browsers is one step of the abstract
\* feed, or none: whatever connections do, the log only grows at its end until it is
\* sealed, and each viewer reads it one event after the other.
THEOREM FeedSafe == Spec => AbstractFeed!Init /\ [][AbstractFeed!Next]_(AbstractFeed!vars)
<1>1. Init => AbstractFeed!Init /\ Begun
  BY DEF Init, AbstractFeed!Init, Begun
<1>2. IInv /\ Begun /\ [Next]_vars => [AbstractFeed!Next]_(AbstractFeed!vars)
  <2> SUFFICES ASSUME IInv, Begun, [Next]_vars PROVE [AbstractFeed!Next]_(AbstractFeed!vars)
    OBVIOUS
  <2>1. CASE ~closed /\ UNCHANGED <<closed, view>> /\ \E x \in Event : events' = Append(events, x)
    <3>1. PICK x \in Event : events' = Append(events, x)
      BY <2>1
    <3>2. events \in Seq(Event)
      BY DEF IInv, Contents
    <3>3. Len(events') = Len(events) + 1 /\ SubSeq(events', 1, Len(events)) = events
      BY <3>1, <3>2
    <3>4. AbstractFeed!Publish
      BY <2>1, <3>3 DEF AbstractFeed!Publish
    <3> QED
      BY <3>4 DEF AbstractFeed!Next
  <2>2. CASE CloseReady /\ closed' = TRUE /\ UNCHANGED <<events, view>>
    BY <2>2 DEF CloseReady, Begun, AbstractFeed!Next, AbstractFeed!Seal
  <2>3. ASSUME NEW v \in Viewers, Dispatch(v) PROVE AbstractFeed!Next
    BY <2>3, DispatchReads DEF AbstractFeed!Next
  <2>4. CASE UNCHANGED <<events, closed, view>>
    BY <2>4 DEF AbstractFeed!vars
  <2> QED
    BY <2>1, <2>2, <2>3, <2>4, Steps
<1>3. IInv /\ Begun /\ [Next]_vars => Begun'
  BY BegunKept
<1> QED
  BY <1>1, <1>2, <1>3, Invariance, PTL DEF Spec
-----------------------------------------------------------------------------
(* Lemmas about a sequence without some of its elements *)

LEMMA PositionsTypes ==
  ASSUME NEW S, NEW s \in Seq(S), NEW V
  PROVE  /\ Positions(V, s) \subseteq 1..Len(s) /\ IsFiniteSet(Positions(V, s))
         /\ Cardinality(Positions(V, s)) \in Nat
<1>1. Positions(V, s) \subseteq 1..Len(s) /\ Len(s) \in Nat
  BY DEF Positions
<1>2. IsFiniteSet(1..Len(s))
  BY <1>1, FS_Interval
<1>3. IsFiniteSet(Positions(V, s))
  BY <1>1, <1>2, FS_Subset
<1> QED
  BY <1>1, <1>3, FS_CardinalityType

LEMMA PositionsAppended ==
  ASSUME NEW S, NEW s \in Seq(S), NEW x \in S, NEW V
  PROVE  /\ x \in V => /\ Positions(V, Append(s, x)) = Positions(V, s) \cup {Len(s) + 1}
                       /\ Cardinality(Positions(V, Append(s, x))) = Cardinality(Positions(V, s)) + 1
         /\ x \notin V => Positions(V, Append(s, x)) = Positions(V, s)
<1>1. /\ DOMAIN Append(s, x) = 1..(Len(s) + 1) /\ DOMAIN s = 1..Len(s) /\ Len(s) \in Nat
      /\ Append(s, x)[Len(s) + 1] = x
      /\ \A i \in DOMAIN s : Append(s, x)[i] = s[i]
  OBVIOUS
<1>2. CASE x \in V
  <2>1. Positions(V, Append(s, x)) = Positions(V, s) \cup {Len(s) + 1}
    BY <1>1, <1>2 DEF Positions
  <2>2. IsFiniteSet(Positions(V, s)) /\ Len(s) + 1 \notin Positions(V, s)
    BY <1>1, PositionsTypes DEF Positions
  <2>3. Cardinality(Positions(V, s) \cup {Len(s) + 1}) = Cardinality(Positions(V, s)) + 1
    BY <2>2, FS_AddElement
  <2> QED
    BY <1>2, <2>1, <2>3
<1>3. CASE x \notin V
  BY <1>1, <1>3 DEF Positions
<1> QED
  BY <1>2, <1>3

\* What is not in V is in the rest.
LEMMA OthersArePositions ==
  ASSUME NEW S, NEW s \in Seq(S), NEW V
  PROVE  Others(V, s) = Positions(S \ V, s)
BY DEF Others, Positions

LEMMA OthersTypes ==
  ASSUME NEW S, NEW s \in Seq(S), NEW V
  PROVE  /\ Others(V, s) \subseteq 1..Len(s) /\ IsFiniteSet(Others(V, s))
         /\ Cardinality(Others(V, s)) \in Nat
         /\ \A i \in Others(V, s) : Rank(V, s, i) \in Nat /\ Rank(V, s, i) <= Cardinality(Others(V, s))
<1>1. Others(V, s) \subseteq 1..Len(s) /\ IsFiniteSet(Others(V, s)) /\ Cardinality(Others(V, s)) \in Nat
  <2> DEFINE R == S \ V
  <2>1. Others(V, s) = Positions(R, s)
    BY OthersArePositions
  <2> HIDE DEF R
  <2> QED
    BY <2>1, PositionsTypes
<1>2. ASSUME NEW i \in Others(V, s)
      PROVE  Rank(V, s, i) \in Nat /\ Rank(V, s, i) <= Cardinality(Others(V, s))
  <2>1. {j \in Others(V, s) : j <= i} \subseteq Others(V, s)
    OBVIOUS
  <2>2. /\ IsFiniteSet({j \in Others(V, s) : j <= i})
        /\ Cardinality({j \in Others(V, s) : j <= i}) <= Cardinality(Others(V, s))
    BY <1>1, <2>1, FS_Subset
  <2> QED
    BY <2>2, FS_CardinalityType DEF Rank
<1> QED
  BY <1>1, <1>2

\* u is s with one more, which is not left out.
OneMore(V, s, u, x) ==
  /\ Others(V, u) = Others(V, s) \cup {Len(s) + 1}
  /\ u[Len(s) + 1] = x
  /\ Cardinality(Others(V, u)) = Cardinality(Others(V, s)) + 1
  /\ Rank(V, u, Len(s) + 1) = Cardinality(Others(V, s)) + 1
  /\ \A i \in Others(V, s) : u[i] = s[i] /\ Rank(V, u, i) = Rank(V, s, i)

LEMMA OthersLonger ==
  ASSUME NEW S, NEW s \in Seq(S), NEW x \in S, NEW V, x \notin V
  PROVE  OneMore(V, s, Append(s, x), x)
<1> DEFINE R == S \ V
<1>0. Append(s, x) \in Seq(S) /\ Append(s, x)[Len(s) + 1] = x /\ Len(s) \in Nat /\ x \in R
  OBVIOUS
<1>1. Others(V, s) = Positions(R, s) /\ Others(V, Append(s, x)) = Positions(R, Append(s, x))
  BY <1>0, OthersArePositions
<1>2. /\ Others(V, Append(s, x)) = Others(V, s) \cup {Len(s) + 1}
      /\ Cardinality(Others(V, Append(s, x))) = Cardinality(Others(V, s)) + 1
  <2> HIDE DEF R
  <2> QED
    BY <1>0, <1>1, PositionsAppended
<1>3. Others(V, s) \subseteq 1..Len(s)
  BY OthersTypes
<1>4. {j \in Others(V, Append(s, x)) : j <= Len(s) + 1} = Others(V, Append(s, x))
  BY <1>0, <1>2, <1>3
<1>5. \A i \in Others(V, s) : {j \in Others(V, Append(s, x)) : j <= i} = {j \in Others(V, s) : j <= i}
  BY <1>0, <1>2, <1>3
<1>6. \A i \in Others(V, s) : Append(s, x)[i] = s[i]
  BY <1>3
<1>7. \A i \in Others(V, s) : Rank(V, Append(s, x), i) = Rank(V, s, i)
  BY <1>5 DEF Rank
<1>8. Rank(V, Append(s, x), Len(s) + 1) = Cardinality(Others(V, s)) + 1
  BY <1>2, <1>4 DEF Rank
<1> QED
  BY <1>0, <1>2, <1>6, <1>7, <1>8 DEF OneMore

\* u is s with one more, which is left out.
NoMore(V, s, u) ==
  /\ Others(V, u) = Others(V, s)
  /\ \A i \in Others(V, s) : u[i] = s[i] /\ Rank(V, u, i) = Rank(V, s, i)

LEMMA OthersKept ==
  ASSUME NEW S, NEW s \in Seq(S), NEW x \in S, NEW V, x \in V
  PROVE  NoMore(V, s, Append(s, x))
<1>1. DOMAIN Append(s, x) = 1..(Len(s) + 1) /\ Append(s, x)[Len(s) + 1] = x /\ Len(s) \in Nat
  OBVIOUS
<1>2. \A i \in DOMAIN s : i \in DOMAIN Append(s, x) /\ Append(s, x)[i] = s[i]
  OBVIOUS
<1>3. \A i \in DOMAIN Append(s, x) : i \in DOMAIN s \/ i = Len(s) + 1
  OBVIOUS
<1>4. Others(V, Append(s, x)) = Others(V, s)
  BY <1>1, <1>2, <1>3 DEF Others
<1>5. \A i \in Others(V, s) : Append(s, x)[i] = s[i]
  BY <1>2 DEF Others
<1> QED
  BY <1>4, <1>5 DEF NoMore, Rank

\* Both get the same: they stay the same without V.
LEMMA SameBoth ==
  ASSUME NEW S, NEW s \in Seq(S), NEW t \in Seq(S), NEW x \in S, NEW V, x \notin V, SameWithout(V, s, t)
  PROVE  SameWithout(V, Append(s, x), Append(t, x))
<1> DEFINE s1 == Append(s, x)  t1 == Append(t, x)
<1>1. OneMore(V, s, s1, x)
  BY OthersLonger
<1>2. OneMore(V, t, t1, x)
  BY OthersLonger
<1>3. /\ Cardinality(Others(V, s)) = Cardinality(Others(V, t)) /\ Cardinality(Others(V, s)) \in Nat
      /\ \A i \in Others(V, s) : Rank(V, s, i) \in Nat /\ Rank(V, s, i) <= Cardinality(Others(V, s))
      /\ \A j \in Others(V, t) : Rank(V, t, j) \in Nat /\ Rank(V, t, j) <= Cardinality(Others(V, s))
      /\ \A i \in Others(V, s), j \in Others(V, t) : Rank(V, s, i) = Rank(V, t, j) => s[i] = t[j]
  BY OthersTypes DEF SameWithout
<1> HIDE DEF s1, t1
<1>4. ASSUME NEW i \in Others(V, s1), NEW j \in Others(V, t1), Rank(V, s1, i) = Rank(V, t1, j)
      PROVE  s1[i] = t1[j]
  <2>1. CASE i = Len(s) + 1 /\ j = Len(t) + 1
    BY <1>1, <1>2, <2>1 DEF OneMore
  <2>2. CASE i \in Others(V, s) /\ j = Len(t) + 1
    <3>1. Rank(V, s, i) = Cardinality(Others(V, s)) + 1
      BY <1>1, <1>2, <1>3, <1>4, <2>2 DEF OneMore
    <3> QED
      BY <1>3, <2>2, <3>1
  <2>3. CASE i = Len(s) + 1 /\ j \in Others(V, t)
    <3>1. Rank(V, t, j) = Cardinality(Others(V, s)) + 1
      BY <1>1, <1>2, <1>3, <1>4, <2>3 DEF OneMore
    <3> QED
      BY <1>3, <2>3, <3>1
  <2>4. CASE i \in Others(V, s) /\ j \in Others(V, t)
    BY <1>1, <1>2, <1>3, <1>4, <2>4 DEF OneMore
  <2> QED
    BY <1>1, <1>2, <1>4, <2>1, <2>2, <2>3, <2>4 DEF OneMore
<1>5. Cardinality(Others(V, s1)) = Cardinality(Others(V, t1))
  BY <1>1, <1>2, <1>3 DEF OneMore
<1> QED
  BY <1>4, <1>5 DEF SameWithout, s1, t1

\* One of them gets something that is left out: they stay the same.
LEMMA SameOne ==
  ASSUME NEW S, NEW s \in Seq(S), NEW t \in Seq(S), NEW x \in S, NEW V, x \in V, SameWithout(V, s, t)
  PROVE  SameWithout(V, s, Append(t, x)) /\ SameWithout(V, Append(s, x), t)
<1> DEFINE s1 == Append(s, x)  t1 == Append(t, x)
<1>1. NoMore(V, s, s1)
  BY OthersKept
<1>2. NoMore(V, t, t1)
  BY OthersKept
<1> HIDE DEF s1, t1
<1>3. SameWithout(V, s, t1) /\ SameWithout(V, s1, t)
  BY <1>1, <1>2 DEF NoMore, SameWithout
<1> QED
  BY <1>3 DEF s1, t1

-----------------------------------------------------------------------------
(* What lands in the log of what emit is called with *)

Said(a) == a # <<>> /\ Last(a) = "run_done"
Marked == {"series_truncated"}

\* Nobody asks for a marker, and nobody asks for anything after run_done.
Called ==
  /\ asked = <<>> => ~closed
  /\ \A i \in DOMAIN asked : asked[i] # "series_truncated"
  /\ closed => Said(asked)

\* The names n in the log, once emit has been called with the names a: whether the
\* log is cut, how many buckets that cost, and where its buckets and its marker are.
Landed(n, a, cut) ==
  /\ SameWithout(Bulk, n, a)
  /\ \A b \in Positions({"bucket"}, n) : b <= MaxBuffered
  /\ \A m \in Positions(Marked, n) : MaxBuffered < m
  /\ cut => /\ Cardinality(Positions(Marked, n)) = 1
            /\ Cardinality(Positions({"bucket"}, n)) < Cardinality(Positions({"bucket"}, a))
  /\ ~cut => /\ Positions(Marked, n) = {}
             /\ Cardinality(Positions({"bucket"}, n)) = Cardinality(Positions({"bucket"}, a))

Closing(n, a) ==
  /\ Said(a) => Said(n) /\ Cardinality(Positions({"run_done"}, n)) = 1
  /\ ~Said(a) => Positions({"run_done"}, n) = {}

LogInv == Called /\ Landed(Names, asked, truncated) /\ Closing(Names, asked)

\* Whatever is no bucket lands.
LEMMA LifeLands ==
  ASSUME NEW n \in Seq(Name), NEW a \in Seq(Name), NEW x \in Name \ Bulk, NEW cut \in BOOLEAN, Landed(n, a, cut)
  PROVE  Landed(Append(n, x), Append(a, x), cut)
<1>1. x \notin {"bucket"} /\ x \notin Marked /\ x \notin Bulk
  BY DEF Bulk, Marked
<1>2. SameWithout(Bulk, Append(n, x), Append(a, x))
  BY <1>1, SameBoth DEF Landed
<1>3. /\ Positions({"bucket"}, Append(n, x)) = Positions({"bucket"}, n)
      /\ Positions(Marked, Append(n, x)) = Positions(Marked, n)
      /\ Positions({"bucket"}, Append(a, x)) = Positions({"bucket"}, a)
  BY <1>1, PositionsAppended
<1> QED
  BY <1>2, <1>3 DEF Landed

\* Below the cap a bucket lands; the log is not cut yet.
LEMMA BucketLands ==
  ASSUME NEW n \in Seq(Name), NEW a \in Seq(Name), NEW cut \in BOOLEAN, Landed(n, a, cut), Len(n) < MaxBuffered
  PROVE  ~cut /\ Landed(Append(n, "bucket"), Append(a, "bucket"), cut)
<1> DEFINE x == "bucket"  V == {"bucket"}
<1>0. /\ MaxBuffered \in Nat /\ Len(n) \in Nat
      /\ x \in V /\ x \notin Marked /\ x \in Bulk /\ x \in Name
  BY EventLogAssumption DEF Marked, Bulk, Name
<1> HIDE DEF x, V
<1>1. ~cut
  <2>1. Positions(Marked, n) \subseteq 1..Len(n)
    BY PositionsTypes
  <2>2. Positions(Marked, n) = {}
    BY <1>0, <2>1 DEF Landed
  <2> QED
    BY <2>2, FS_EmptySet DEF Landed
<1>2. SameWithout(Bulk, Append(n, x), Append(a, x))
  <2>1. Append(n, x) \in Seq(Name) /\ SameWithout(Bulk, Append(n, x), a)
    BY <1>0, SameOne DEF Landed
  <2> QED
    BY <1>0, <2>1, SameOne
<1>3. /\ Positions(V, Append(n, x)) = Positions(V, n) \cup {Len(n) + 1}
      /\ Cardinality(Positions(V, Append(n, x))) = Cardinality(Positions(V, n)) + 1
      /\ Cardinality(Positions(V, Append(a, x))) = Cardinality(Positions(V, a)) + 1
      /\ Positions(Marked, Append(n, x)) = Positions(Marked, n)
  BY <1>0, PositionsAppended
<1>4. \A b \in Positions(V, Append(n, x)) : b <= MaxBuffered
  BY <1>0, <1>3 DEF Landed, V
<1>5. /\ Positions(Marked, Append(n, x)) = {}
      /\ Cardinality(Positions(V, Append(n, x))) = Cardinality(Positions(V, Append(a, x)))
  BY <1>1, <1>3 DEF Landed, V
<1> QED
  BY <1>1, <1>2, <1>4, <1>5 DEF Landed, x, V

\* The first bucket at the cap leaves a marker in its place.
LEMMA MarkerLands ==
  ASSUME NEW n \in Seq(Name), NEW a \in Seq(Name), Landed(n, a, FALSE), Len(n) >= MaxBuffered
  PROVE  Landed(Append(n, "series_truncated"), Append(a, "bucket"), TRUE)
<1> DEFINE x == "bucket"  y == "series_truncated"  V == {"bucket"}
<1>0. /\ MaxBuffered \in Nat /\ Len(n) \in Nat
      /\ x \in V /\ y \notin V /\ y \in Marked /\ x \in Bulk /\ y \in Bulk /\ x \in Name /\ y \in Name
  BY EventLogAssumption DEF Marked, Bulk, Name
<1> HIDE DEF x, y, V
<1>2. SameWithout(Bulk, Append(n, y), Append(a, x))
  <2>1. Append(n, y) \in Seq(Name) /\ SameWithout(Bulk, Append(n, y), a)
    BY <1>0, SameOne DEF Landed
  <2> QED
    BY <1>0, <2>1, SameOne
<1>3. /\ Positions(V, Append(n, y)) = Positions(V, n)
      /\ Cardinality(Positions(V, Append(a, x))) = Cardinality(Positions(V, a)) + 1
      /\ Positions(Marked, Append(n, y)) = Positions(Marked, n) \cup {Len(n) + 1}
      /\ Cardinality(Positions(Marked, Append(n, y))) = Cardinality(Positions(Marked, n)) + 1
      /\ Cardinality(Positions(V, n)) \in Nat
  BY <1>0, PositionsAppended, PositionsTypes
<1>4. Positions(Marked, n) = {} /\ Cardinality(Positions(V, n)) = Cardinality(Positions(V, a))
  BY DEF Landed, V
<1>5. \A b \in Positions(V, Append(n, y)) : b <= MaxBuffered
  BY <1>3 DEF Landed, V
<1>6. \A m \in Positions(Marked, Append(n, y)) : MaxBuffered < m
  BY <1>0, <1>3, <1>4
<1>7. Cardinality(Positions(Marked, Append(n, y))) = 1
  <2>1. Cardinality(Positions(Marked, n)) = 0
    BY <1>4, FS_EmptySet
  <2> QED
    BY <1>3, <2>1
<1>8. Cardinality(Positions(V, Append(n, y))) < Cardinality(Positions(V, Append(a, x)))
  BY <1>3, <1>4
<1> QED
  BY <1>2, <1>5, <1>6, <1>7, <1>8 DEF Landed, x, y, V

\* Every bucket after that is lost.
LEMMA BucketLost ==
  ASSUME NEW n \in Seq(Name), NEW a \in Seq(Name), Landed(n, a, TRUE)
  PROVE  Landed(n, Append(a, "bucket"), TRUE)
<1> DEFINE x == "bucket"  V == {"bucket"}
<1>0. x \in V /\ x \in Bulk /\ x \in Name
  BY DEF Bulk, Name
<1> HIDE DEF x, V
<1>1. SameWithout(Bulk, n, Append(a, x))
  BY <1>0, SameOne DEF Landed
<1>2. /\ Cardinality(Positions(V, Append(a, x))) = Cardinality(Positions(V, a)) + 1
      /\ Cardinality(Positions(V, n)) \in Nat /\ Cardinality(Positions(V, a)) \in Nat
  BY <1>0, PositionsAppended, PositionsTypes
<1>3. Cardinality(Positions(V, n)) < Cardinality(Positions(V, a))
  BY DEF Landed, V
<1>4. Cardinality(Positions(V, n)) < Cardinality(Positions(V, Append(a, x)))
  BY <1>2, <1>3
<1> QED
  BY <1>1, <1>4 DEF Landed, x, V

\* run_done lands as the first of its name and the last of all.
LEMMA RunDoneLands ==
  ASSUME NEW n \in Seq(Name), NEW a \in Seq(Name), Closing(n, a), ~Said(a)
  PROVE  Closing(Append(n, "run_done"), Append(a, "run_done"))
<1> DEFINE x == "run_done"  V == {"run_done"}
<1>0. x \in V /\ x \in Name
  BY DEF Name
<1>1. /\ Append(n, x) # <<>> /\ Append(n, x)[Len(Append(n, x))] = x
      /\ Append(a, x) # <<>> /\ Append(a, x)[Len(Append(a, x))] = x
  BY <1>0
<1>2. Said(Append(n, x)) /\ Said(Append(a, x))
  BY <1>1 DEF Said, Last
<1> HIDE DEF x, V
<1>3. Cardinality(Positions(V, Append(n, x))) = Cardinality(Positions(V, n)) + 1
  BY <1>0, PositionsAppended
<1>4. Cardinality(Positions(V, n)) = 0
  BY FS_EmptySet DEF Closing, V
<1>5. Cardinality(Positions(V, Append(n, x))) = 1
  BY <1>3, <1>4
<1> QED
  BY <1>2, <1>5 DEF Closing, x, V

\* Before run_done there is none, whatever else is asked for and lands.
LEMMA NotDoneYet ==
  ASSUME NEW n \in Seq(Name), NEW a \in Seq(Name), Closing(n, a), ~Said(a),
         NEW x \in Name \ {"run_done"}, NEW y \in Name \ {"run_done"}
  PROVE  Closing(n, Append(a, x)) /\ Closing(Append(n, y), Append(a, x))
<1>1. Append(a, x) # <<>> /\ Append(a, x)[Len(Append(a, x))] = x
  OBVIOUS
<1>2. ~Said(Append(a, x))
  BY <1>1 DEF Said, Last
<1>3. Positions({"run_done"}, Append(n, y)) = Positions({"run_done"}, n)
  BY PositionsAppended
<1> QED
  BY <1>2, <1>3 DEF Closing

LEMMA NamesTypes ==
  ASSUME Contents
  PROVE  Names \in Seq(Name) /\ Len(Names) = Len(events) /\ DOMAIN Names = DOMAIN events
<1>1. /\ events \in Seq(Event) /\ Len(events) \in Nat /\ DOMAIN events = 1..Len(events)
      /\ \A i \in 1..Len(events) : events[i].name \in Name
  <2>1. events \in Seq(Event)
    BY DEF Contents
  <2>2. \A i \in 1..Len(events) : events[i] \in Event
    BY <2>1
  <2> QED
    BY <2>1, <2>2 DEF Event
<1>2. Names \in [1..Len(events) -> Name]
  BY <1>1 DEF Names
<1> QED
  BY <1>1, <1>2, SeqDef

LEMMA NamesStored ==
  ASSUME IInv, NEW name \in Name, Store(name)
  PROVE  Names' = Append(Names, Stored(name).name) /\ Stored(name).name \in Name
<1> DEFINE x == Stored(name)
<1>1. x \in Event /\ events' = Append(events, x) /\ events \in Seq(Event)
  BY Storing DEF IInv, Contents
<1>2. Names \in Seq(Name) /\ Len(Names) = Len(events)
  BY NamesTypes DEF IInv
<1> HIDE DEF x
<1>3. x.name \in Name
  BY <1>1 DEF Event
<1>4. /\ DOMAIN events' = 1..(Len(events) + 1) /\ events'[Len(events) + 1] = x
      /\ \A i \in 1..Len(events) : events'[i] = events[i]
  BY <1>1
<1>5. /\ DOMAIN Append(Names, x.name) = 1..(Len(events) + 1) /\ Append(Names, x.name)[Len(events) + 1] = x.name
      /\ \A i \in 1..Len(events) : Append(Names, x.name)[i] = Names[i]
  BY <1>2, <1>3
<1>6. \A i \in 1..Len(events) : Names[i] = events[i].name
  BY <1>1 DEF Names
<1>7. Names' = [i \in 1..(Len(events) + 1) |-> events'[i].name]
  BY <1>4 DEF Names
<1>8. \A i \in 1..(Len(events) + 1) : events'[i].name = Append(Names, x.name)[i]
  BY <1>1, <1>4, <1>5, <1>6
<1>9. Append(Names, x.name) \in Seq(Name)
  BY <1>2, <1>3
<1>10. Append(Names, x.name) = [i \in 1..(Len(events) + 1) |-> Append(Names, x.name)[i]]
  BY <1>5, <1>9
<1> QED
  BY <1>3, <1>7, <1>8, <1>10 DEF x

LEMMA LogInitially == Init => LogInv
<1> SUFFICES ASSUME Init PROVE LogInv
  OBVIOUS
<1>1. Names = <<>> /\ asked = <<>> /\ ~closed /\ truncated = FALSE
  BY DEF Init, Names
<1>2. \A V : Positions(V, <<>>) = {} /\ Others(V, <<>>) = {}
  BY DEF Positions, Others
<1>3. Landed(<<>>, <<>>, FALSE)
  BY <1>2 DEF Landed, SameWithout
<1>4. Closing(<<>>, <<>>)
  BY <1>2 DEF Closing, Said
<1> QED
  <2>1. Called
    BY <1>1 DEF Called
  <2>2. Landed(Names, asked, truncated) /\ Closing(Names, asked)
    BY <1>1, <1>3, <1>4
  <2> QED
    BY <2>1, <2>2 DEF LogInv

LEMMA EmitKept ==
  ASSUME IInv, LogInv, NEW name \in Name, Emit(name)
  PROVE  LogInv'
<1>0. /\ Called /\ Landed(Names, asked, truncated) /\ Closing(Names, asked)
      /\ Names \in Seq(Name) /\ Len(Names) = Len(events) /\ asked \in Seq(Name) /\ truncated \in BOOLEAN
      /\ MaxBuffered \in Nat
  BY NamesTypes, EventLogAssumption DEF IInv, LogInv, Contents, Flags
<1>1. /\ asked' = Append(asked, name) /\ closed' = closed
      /\ ~Said(asked) /\ name # "series_truncated"
  BY DEF Emit, Emittable, Said
<1>2. ~closed
  BY <1>0, <1>1 DEF Called
<1>3. Called'
  <2>1. asked' # <<>> /\ \A i \in DOMAIN asked' : asked'[i] = name \/ (i \in DOMAIN asked /\ asked'[i] = asked[i])
    BY <1>0, <1>1
  <2> QED
    BY <1>0, <1>1, <1>2, <2>1 DEF Called
<1>4. CASE name = "bucket" /\ Len(events) >= MaxBuffered /\ truncated
  <2>1. UNCHANGED <<events, truncated>>
    BY <1>4 DEF Emit, Store, Discard, Lands, AtCap
  <2>2. Names' = Names
    BY <2>1 DEF Names
  <2>3. Landed(Names, Append(asked, "bucket"), TRUE)
    BY <1>0, <1>4, BucketLost
  <2>4. Closing(Names, Append(asked, "bucket"))
    BY <1>0, <1>1, NotDoneYet DEF Name
  <2> QED
    BY <1>1, <1>3, <1>4, <2>1, <2>2, <2>3, <2>4 DEF LogInv
<1>5. CASE ~(name = "bucket" /\ Len(events) >= MaxBuffered /\ truncated)
  <2>1. Store(name) /\ truncated' = (truncated \/ AtCap(name))
    BY <1>2, <1>5 DEF Emit, Store, Discard, Lands, AtCap
  <2>2. Names' = Append(Names, Stored(name).name)
    BY <2>1, NamesStored
  <2>3. CASE name # "bucket"
    <3>1. Stored(name).name = name /\ truncated' = truncated
      BY <1>0, <2>1, <2>3 DEF Stored, AtCap
    <3>2. name \in Name \ Bulk
      BY <1>1, <2>3 DEF Bulk
    <3>3. Landed(Append(Names, name), Append(asked, name), truncated)
      BY <1>0, <3>2, LifeLands
    <3>4. Closing(Append(Names, name), Append(asked, name))
      BY <1>0, <1>1, RunDoneLands, NotDoneYet
    <3> QED
      BY <1>1, <1>3, <2>2, <3>1, <3>3, <3>4 DEF LogInv
  <2>4. CASE name = "bucket" /\ Len(events) < MaxBuffered
    <3>1. Stored(name).name = "bucket" /\ truncated' = truncated
      BY <1>0, <2>1, <2>4 DEF Stored, AtCap
    <3>2. Landed(Append(Names, "bucket"), Append(asked, "bucket"), truncated)
      BY <1>0, <2>4, BucketLands
    <3>3. Closing(Append(Names, "bucket"), Append(asked, "bucket"))
      BY <1>0, <1>1, NotDoneYet DEF Name
    <3> QED
      BY <1>1, <1>3, <2>2, <2>4, <3>1, <3>2, <3>3 DEF LogInv
  <2>5. CASE name = "bucket" /\ Len(events) >= MaxBuffered /\ ~truncated
    <3>1. Stored(name).name = "series_truncated" /\ truncated' = TRUE
      BY <2>1, <2>5 DEF Stored, AtCap
    <3>2. Landed(Append(Names, "series_truncated"), Append(asked, "bucket"), TRUE)
      BY <1>0, <2>5, MarkerLands
    <3>3. Closing(Append(Names, "series_truncated"), Append(asked, "bucket"))
      BY <1>0, <1>1, NotDoneYet DEF Name
    <3> QED
      BY <1>1, <1>3, <2>2, <2>5, <3>1, <3>2, <3>3 DEF LogInv
  <2>6. Len(events) \in Nat
    BY DEF IInv, Contents
  <2> QED
    BY <1>0, <1>5, <2>3, <2>4, <2>5, <2>6
<1> QED
  BY <1>4, <1>5

LEMMA LogKept == ASSUME IInv, LogInv, [Next]_vars PROVE LogInv'
<1> USE DEF log, server, client
<1>1. CASE UNCHANGED <<events, asked, closed, truncated>>
  BY <1>1 DEF LogInv, Called, Said, Landed, Closing, Names
<1>2. ASSUME NEW name \in Name, Emit(name) PROVE LogInv'
  BY <1>2, EmitKept
<1>3. CASE Close
  <2>1. UNCHANGED <<events, asked, truncated>> /\ Said(asked)
    BY <1>3 DEF Close, CloseReady, Said
  <2> QED
    BY <2>1 DEF LogInv, Called, Said, Landed, Closing, Names
<1>4. ASSUME NEW c \in Conns, Handler(c) PROVE UNCHANGED <<events, asked, closed, truncated>>
  BY <1>4 DEF Handler, Subscribe, WriteReplay, ReplayDone, WriteLive, Return, Finish
<1>5. ASSUME NEW v \in Viewers, Browser(v) \/ Break(v) PROVE UNCHANGED <<events, asked, closed, truncated>>
  BY <1>5 DEF Browser, Open, Dispatch, EndOfStream, Break
<1>6. CASE Quiet \/ UNCHANGED vars
  BY <1>1, <1>6 DEF Quiet, vars
<1> QED
  BY <1>1, <1>2, <1>3, <1>4, <1>5, <1>6 DEF Next, Coordinator

\* The cap loses nothing but buckets and says so once, and a closed log ends in the only
\* run_done (emit, close), for any cap and whatever the run emits.
THEOREM LogSafe == Spec => []LogIsWhole
<1>1. IInv /\ LogInv => LogIsWhole
  <2> SUFFICES ASSUME IInv, LogInv PROVE LogIsWhole
    OBVIOUS
  <2> DEFINE m == Positions(Marked, Names)
             b == Positions({"bucket"}, Names)
             a == Positions({"bucket"}, asked)
  <2>1. Landed(Names, asked, truncated) /\ Names \in Seq(Name) /\ asked \in Seq(Name) /\ truncated \in BOOLEAN
    BY NamesTypes DEF IInv, LogInv, Contents, Flags
  <2>2. Cardinality(a) \in Nat /\ Cardinality(b) \in Nat /\ b \subseteq Nat /\ m \subseteq Nat
    BY <2>1, PositionsTypes
  <2>3. Cardinality({}) = 0
    BY FS_EmptySet
  <2>4. /\ SameWithout(Bulk, Names, asked)
        /\ \A i \in b : i <= MaxBuffered
        /\ \A j \in m : MaxBuffered < j
        /\ truncated => Cardinality(m) = 1 /\ Cardinality(b) < Cardinality(a)
        /\ ~truncated => m = {} /\ Cardinality(b) = Cardinality(a)
    BY <2>1 DEF Landed
  <2> HIDE DEF m, b, a
  <2>5. Cardinality(m) <= 1
    <3>1. CASE truncated
      BY <2>4, <3>1
    <3>2. CASE ~truncated
      BY <2>3, <2>4, <3>2
    <3> QED
      BY <3>1, <3>2
  <2>6. m # {} <=> Cardinality(b) < Cardinality(a)
    <3>1. CASE truncated
      BY <2>2, <2>3, <2>4, <3>1
    <3>2. CASE ~truncated
      <4>1. m = {} /\ Cardinality(b) = Cardinality(a)
        BY <2>4, <3>2
      <4>2. ~(Cardinality(b) < Cardinality(a))
        BY <2>2, <4>1
      <4> QED
        BY <4>1, <4>2
    <3> QED
      BY <3>1, <3>2
  <2>7. \A i \in b : i <= MaxBuffered /\ \A j \in m : i < j
    BY <2>2, <2>4, EventLogAssumption
  <2>8. CapCostsOnlyBuckets
    BY <2>4, <2>5, <2>6, <2>7 DEF CapCostsOnlyBuckets, Marked, m, b, a
  <2>9. EndsInRunDone
    <3>1. ASSUME closed PROVE Last(events).name = "run_done" /\ Cardinality(Positions({"run_done"}, Names)) = 1
      <4>1. Said(Names) /\ Cardinality(Positions({"run_done"}, Names)) = 1
        BY <3>1 DEF LogInv, Called, Closing
      <4>2. events \in Seq(Event) /\ Len(Names) = Len(events) /\ DOMAIN Names = DOMAIN events
        BY NamesTypes DEF IInv, Contents
      <4>3. Len(events) \in DOMAIN events
        BY <2>1, <4>1, <4>2 DEF Said
      <4>4. Last(events).name = "run_done"
        BY <4>1, <4>2, <4>3 DEF Said, Last, Names
      <4> QED
        BY <4>1, <4>4
    <3> QED
      BY <3>1 DEF EndsInRunDone
  <2> QED
    BY <2>8, <2>9 DEF LogIsWhole
<1>2. Init => LogInv
  BY LogInitially
<1>3. IInv /\ LogInv /\ [Next]_vars => LogInv'
  BY LogKept
<1> QED
  BY <1>1, <1>2, <1>3, Invariance, PTL DEF Spec
==============================================================================
