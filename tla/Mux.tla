-------------------------------- MODULE Mux --------------------------------
(***************************************************************************)
(* The stream multiplexer (internal/mux): two ends of one connection, many *)
(* streams over it.  Each end runs a read loop that takes frames off the   *)
(* connection, one at a time and in order, and hands them to the streams;  *)
(* the application opens, accepts, reads, writes and closes streams.       *)
(*                                                                         *)
(* A handle <<e, s, g>> is the g-th Stream object end e made for stream s. *)
(* An end forgets a stream when it closes it, and makes a new object when  *)
(* a frame names a stream it does not know.                                *)
(***************************************************************************)
EXTENDS Naturals, Sequences

CONSTANTS
  Ends,        \* the two ends of the connection
  StreamsOf,   \* the stream ids each end may open: odd for one, even for the other
  OneWay,      \* the streams only their opener writes on, among polite ends
  Rude,        \* bound: the streams impolite ends open
  ReadCap,     \* capacity of a stream's readCh (16)
  AcceptCap,   \* capacity of acceptCh (64)
  WireCap,     \* frames the connection buffers before a write blocks
  MaxWrites,   \* bound: frames an end writes on a stream it opened
  MaxAnswers,  \* bound: frames an end writes on a stream it accepted
  MaxObjects   \* bound: objects an end makes for a stream

ASSUME MuxAssumption ==
  /\ \E e, f \in Ends : e # f /\ Ends = {e, f}
  /\ \A e, f \in Ends : e # f => StreamsOf[e] \intersect StreamsOf[f] = {}
  /\ OneWay \union Rude \subseteq UNION {StreamsOf[e] : e \in Ends}
  /\ MaxAnswers <= MaxWrites
  /\ {ReadCap, AcceptCap, WireCap, MaxWrites, MaxAnswers, MaxObjects} \subseteq Nat \ {0}

Streams == UNION {StreamsOf[e] : e \in Ends}
Handles == Ends \X Streams \X (1..MaxObjects)
Peer(e) == CHOOSE f \in Ends : f # e
Opener(s) == CHOOSE e \in Ends : s \in StreamsOf[e]

VARIABLES
  polite,   \* do applications close a stream only once they are owed nothing?
  wire,     \* frames in flight to each end
  cur,      \* the frame each read loop is dispatching and the object it is for
  reg,      \* Session.streams: the generation each stream id is known under, or 0
  made,     \* how many objects each end made for a stream
  handle,   \* what became of each object: none, queued (in acceptCh), lost, open, closed
  ch,       \* its readCh: frame numbers, 0 being the FIN marker
  shut,     \* has its readCh been closed (by an RST)?
  eof,      \* has its reader seen the end of the stream?
  got,      \* frames its reader read
  sent,     \* frames written by each end on each stream
  accept,   \* acceptCh
  up,       \* Session.closed, negated
  panic     \* ends whose process died of a channel misuse, and on which

vars == <<polite, wire, cur, reg, made, handle, ch, shut, eof, got, sent, accept, up, panic>>

chans == <<ch, shut, eof, got>>

Frames == [id : Streams, kind : {"DATA", "FIN", "RST"}, n : 0..MaxWrites]

TypeOK ==
  /\ polite \in BOOLEAN
  /\ wire \in [Ends -> Seq(Frames)] /\ \A e \in Ends : Len(wire[e]) <= WireCap
  /\ cur \in [Ends -> {<<>>} \union {<<c>> : c \in [frame : Frames, to : Handles, fresh : BOOLEAN]}]
  /\ made \in [Ends \X Streams -> 0..MaxObjects]
  /\ reg \in [Ends \X Streams -> 0..MaxObjects]
  /\ handle \in [Handles -> {"none", "queued", "lost", "open", "closed"}]
  /\ ch \in [Handles -> Seq(0..MaxWrites)] /\ \A h \in Handles : Len(ch[h]) <= ReadCap
  /\ shut \in [Handles -> BOOLEAN] /\ eof \in [Handles -> BOOLEAN]
  /\ got \in [Handles -> Seq(1..MaxWrites)]
  /\ sent \in [Ends \X Streams -> 0..MaxWrites]
  /\ accept \in [Ends -> Seq(Handles)] /\ \A e \in Ends : Len(accept[e]) <= AcceptCap
  /\ up \in [Ends -> BOOLEAN]
  /\ panic \subseteq {"acceptCh", "readCh"}

Init ==
  /\ polite \in BOOLEAN
  /\ wire = [e \in Ends |-> <<>>] /\ cur = [e \in Ends |-> <<>>]
  /\ reg = [es \in Ends \X Streams |-> 0] /\ made = [es \in Ends \X Streams |-> 0]
  /\ handle = [h \in Handles |-> "none"]
  /\ ch = [h \in Handles |-> <<>>] /\ shut = [h \in Handles |-> FALSE]
  /\ eof = [h \in Handles |-> FALSE] /\ got = [h \in Handles |-> <<>>]
  /\ sent = [es \in Ends \X Streams |-> 0]
  /\ accept = [e \in Ends |-> <<>>]
  /\ up = [e \in Ends |-> TRUE]
  /\ panic = {}

-----------------------------------------------------------------------------
(* The application                                                         *)

Frame(s, kind, n) == [id |-> s, kind |-> kind, n |-> n]

\* writeFrame: blocks while the connection is full.  What is written to a
\* session the peer has closed is lost.
Send(e, frame) ==
  LET p == Peer(e)
  IN  /\ up[p] => Len(wire[p]) < WireCap
      /\ wire' = IF up[p] THEN [wire EXCEPT ![p] = Append(@, frame)] ELSE wire

Forget(e, s) == reg' = [reg EXCEPT ![<<e, s>>] = 0]

\* OpenStream
Open(e, s) ==
  /\ up[e] /\ s \in StreamsOf[e] /\ made[<<e, s>>] = 0
  /\ polite \/ s \in Rude
  /\ made' = [made EXCEPT ![<<e, s>>] = 1]
  /\ reg' = [reg EXCEPT ![<<e, s>>] = 1]
  /\ handle' = [handle EXCEPT ![<<e, s, 1>>] = "open"]
  /\ UNCHANGED <<polite, wire, cur, chans, sent, accept, up, panic>>

\* AcceptStream; a closed session still gives out what was queued.
Accept(e) ==
  /\ accept[e] # <<>>
  /\ handle' = [handle EXCEPT ![Head(accept[e])] = "open"]
  /\ accept' = [accept EXCEPT ![e] = Tail(@)]
  /\ UNCHANGED <<polite, wire, cur, reg, made, chans, sent, up, panic>>

\* A polite end that accepted a stream writes answers only, one for each
\* frame it read, and nothing on a one-way stream.  (Bound: the second objects
\* impolite ends come to have are not written on.)
MayWrite(h) ==
  IF polite
  THEN h[1] = Opener(h[2]) \/ (h[2] \notin OneWay /\ sent[<<h[1], h[2]>>] < Len(got[h]))
  ELSE h[3] = 1

\* Stream.Write, one frame of at most maxPayload bytes.
Write(h) ==
  LET e == h[1]
      s == h[2]
  IN  /\ handle[h] = "open" /\ up[e] /\ MayWrite(h)
      /\ sent[<<e, s>>] < (IF e = Opener(s) THEN MaxWrites ELSE MaxAnswers)
      /\ sent' = [sent EXCEPT ![<<e, s>>] = @ + 1]
      /\ Send(e, Frame(s, "DATA", sent[<<e, s>>] + 1))
      /\ UNCHANGED <<polite, cur, reg, made, handle, chans, accept, up, panic>>

\* Mutant: an end closes in the middle of what it is owed.
MayCloseEarly(h) == TRUE

\* A polite end closes once it is owed nothing: at the end of the stream, or
\* when all that could come came.
MayClose(h) ==
  polite => \/ eof[h]
            \/ IF h[2] \in OneWay THEN h[1] = Opener(h[2]) \/ Len(got[h]) = MaxWrites
               ELSE h[1] = Opener(h[2]) /\ Len(got[h]) = sent[<<h[1], h[2]>>]

\* Stream.Close: FIN, and forget the stream id whoever it now stands for.
Close(h) ==
  /\ handle[h] = "open" /\ MayClose(h)
  /\ handle' = [handle EXCEPT ![h] = "closed"]
  /\ IF up[h[1]] THEN Send(h[1], Frame(h[2], "FIN", 0)) ELSE UNCHANGED wire
  /\ Forget(h[1], h[2])
  /\ UNCHANGED <<polite, cur, made, chans, sent, accept, up, panic>>

\* Stream.Reset
Reset(h) ==
  /\ handle[h] = "open" /\ ~polite
  /\ handle' = [handle EXCEPT ![h] = "closed"]
  /\ IF up[h[1]] THEN Send(h[1], Frame(h[2], "RST", 0)) ELSE UNCHANGED wire
  /\ Forget(h[1], h[2])
  /\ UNCHANGED <<polite, cur, made, chans, sent, accept, up, panic>>

\* Stream.Read: the next frame, or the end of the stream at its FIN marker.
Read(h) ==
  /\ handle[h] = "open" /\ ~eof[h] /\ ch[h] # <<>>
  /\ ch' = [ch EXCEPT ![h] = Tail(@)]
  /\ IF Head(ch[h]) = 0
     THEN eof' = [eof EXCEPT ![h] = TRUE] /\ UNCHANGED got
     ELSE got' = [got EXCEPT ![h] = Append(@, Head(ch[h]))] /\ UNCHANGED eof
  /\ UNCHANGED <<polite, wire, cur, reg, made, handle, shut, sent, accept, up, panic>>

\* Read when the stream was reset or the session is down: the select may end
\* the stream though frames are still queued.
ReadEnd(h) ==
  /\ handle[h] = "open" /\ ~eof[h]
  /\ shut[h] \/ ~up[h[1]]
  /\ eof' = [eof EXCEPT ![h] = TRUE]
  /\ UNCHANGED <<polite, wire, cur, reg, made, handle, ch, shut, got, sent, accept, up, panic>>

-----------------------------------------------------------------------------
(* The session                                                             *)

\* Mutant: a FIN or RST for an unknown stream makes one too.
ReadFrameMakesAny(e) ==
  LET f == Head(wire[e])
      known == reg[<<e, f.id>>] # 0
      g == IF known THEN reg[<<e, f.id>>] ELSE made[<<e, f.id>>] + 1
  IN  /\ up[e] /\ cur[e] = <<>> /\ wire[e] # <<>>
      /\ g <= MaxObjects
      /\ wire' = [wire EXCEPT ![e] = Tail(@)]
      /\ cur' = [cur EXCEPT ![e] = <<[frame |-> f, to |-> <<e, f.id, g>>, fresh |-> ~known]>>]
      /\ reg' = [reg EXCEPT ![<<e, f.id>>] = g]
      /\ made' = [made EXCEPT ![<<e, f.id>>] = IF known THEN made[<<e, f.id>>] ELSE g]
      /\ UNCHANGED <<polite, handle, chans, sent, accept, up, panic>>

\* readLoop takes the next frame and dispatch looks its stream up.  A frame for
\* a stream this end does not know makes one if it is DATA, and is dropped if
\* not.  From here on the frame belongs to that object, closed or not.
ReadFrame(e) ==
  LET f == Head(wire[e])
      known == reg[<<e, f.id>>] # 0
      g == IF known THEN reg[<<e, f.id>>] ELSE made[<<e, f.id>>] + 1
  IN  /\ up[e] /\ cur[e] = <<>> /\ wire[e] # <<>>
      /\ f.kind = "DATA" => g <= MaxObjects
      /\ wire' = [wire EXCEPT ![e] = Tail(@)]
      /\ IF ~known /\ f.kind # "DATA" THEN UNCHANGED <<cur, reg, made>>
         ELSE /\ cur' = [cur EXCEPT ![e] = <<[frame |-> f, to |-> <<e, f.id, g>>, fresh |-> ~known]>>]
              /\ reg' = [reg EXCEPT ![<<e, f.id>>] = g]
              /\ made' = [made EXCEPT ![<<e, f.id>>] = IF known THEN made[<<e, f.id>>] ELSE g]
      /\ UNCHANGED <<polite, handle, chans, sent, accept, up, panic>>

Holds(e, kind) == cur[e] # <<>> /\ cur[e][1].frame.kind = kind

\* A new stream goes to acceptCh, which is closed with the session: sending on
\* it then panics.  When it is full the stream is lost, though registered.
OfferStream(e) ==
  LET h == cur[e][1].to
      room == Len(accept[e]) < AcceptCap
  IN  /\ cur[e] # <<>> /\ cur[e][1].fresh
      /\ IF ~up[e]
         THEN /\ panic' = panic \union {"acceptCh"}
              /\ cur' = [cur EXCEPT ![e] = <<>>]
              /\ UNCHANGED <<handle, accept>>
         ELSE /\ handle' = [handle EXCEPT ![h] = IF room THEN "queued" ELSE "lost"]
              /\ accept' = IF room THEN [accept EXCEPT ![e] = Append(@, h)] ELSE accept
              /\ cur' = [cur EXCEPT ![e] = <<[frame |-> cur[e][1].frame, to |-> h, fresh |-> FALSE]>>]
              /\ UNCHANGED panic
      /\ UNCHANGED <<polite, wire, reg, made, chans, sent, up>>

\* The three kinds of frame, none of which is ever put on a closed readCh.
Deliver(e) == cur[e] # <<>> /\ ~cur[e][1].fresh /\ cur' = [cur EXCEPT ![e] = <<>>]

Misused(h) == shut[h] /\ panic' = panic \union {"readCh"}

\* Mutants: readCh has no capacity; DATA is dropped, not kept waiting, when it
\* is full.
DispatchDataUnbounded(e) ==
  LET h == cur[e][1].to
  IN  /\ Deliver(e) /\ Holds(e, "DATA")
      /\ \/ Misused(h) /\ UNCHANGED ch
         \/ /\ ~shut[h]
            /\ ch' = [ch EXCEPT ![h] = Append(@, cur[e][1].frame.n)]
            /\ UNCHANGED panic
      /\ UNCHANGED <<polite, wire, reg, made, handle, shut, eof, got, sent, accept, up>>

DispatchDataDrops(e) ==
  LET h == cur[e][1].to
  IN  /\ Deliver(e) /\ Holds(e, "DATA")
      /\ \/ Misused(h) /\ UNCHANGED ch
         \/ /\ ~shut[h]
            /\ ch' = IF Len(ch[h]) < ReadCap THEN [ch EXCEPT ![h] = Append(@, cur[e][1].frame.n)]
                     ELSE ch
            /\ UNCHANGED panic
      /\ UNCHANGED <<polite, wire, reg, made, handle, shut, eof, got, sent, accept, up>>

\* DATA waits for room, and with it the read loop and every other stream.
DispatchData(e) ==
  LET h == cur[e][1].to
  IN  /\ Deliver(e) /\ Holds(e, "DATA")
      /\ \/ Misused(h) /\ UNCHANGED ch
         \/ /\ ~shut[h] /\ Len(ch[h]) < ReadCap
            /\ ch' = [ch EXCEPT ![h] = Append(@, cur[e][1].frame.n)]
            /\ UNCHANGED panic
      /\ UNCHANGED <<polite, wire, reg, made, handle, shut, eof, got, sent, accept, up>>

\* Mutant: FIN marks the stream ended instead of queueing behind its data.
DispatchFinAtOnce(e) ==
  /\ Deliver(e) /\ Holds(e, "FIN")
  /\ eof' = [eof EXCEPT ![cur[e][1].to] = TRUE]
  /\ UNCHANGED <<polite, wire, reg, made, handle, ch, shut, got, sent, accept, up, panic>>

\* FIN does not wait: when readCh is full its marker is dropped.
DispatchFin(e) ==
  LET h == cur[e][1].to
  IN  /\ Deliver(e) /\ Holds(e, "FIN")
      /\ \/ Misused(h) /\ UNCHANGED ch
         \/ /\ ~shut[h]
            /\ ch' = IF Len(ch[h]) < ReadCap THEN [ch EXCEPT ![h] = Append(@, 0)] ELSE ch
            /\ UNCHANGED panic
      /\ UNCHANGED <<polite, wire, reg, made, handle, shut, eof, got, sent, accept, up>>

\* Mutant: the stream stays registered.
DispatchRstKeeps(e) ==
  LET h == cur[e][1].to
  IN  /\ Deliver(e) /\ Holds(e, "RST")
      /\ \/ Misused(h) /\ UNCHANGED shut
         \/ /\ ~shut[h]
            /\ shut' = [shut EXCEPT ![h] = TRUE]
            /\ UNCHANGED panic
      /\ UNCHANGED <<polite, wire, reg, made, handle, ch, eof, got, sent, accept, up>>

\* RST closes readCh, and the stream is forgotten.
DispatchRst(e) ==
  LET h == cur[e][1].to
  IN  /\ Deliver(e) /\ Holds(e, "RST")
      /\ \/ Misused(h) /\ UNCHANGED shut
         \/ /\ ~shut[h]
            /\ shut' = [shut EXCEPT ![h] = TRUE]
            /\ UNCHANGED panic
      /\ Forget(e, h[2])
      /\ UNCHANGED <<polite, wire, made, handle, ch, eof, got, sent, accept, up>>

\* Session.Close by any goroutine, or by the read loop when the connection
\* fails: it does not wait for a dispatch in progress.
CloseSession(e) ==
  /\ up[e]
  /\ up' = [up EXCEPT ![e] = FALSE]
  /\ wire' = [wire EXCEPT ![e] = <<>>]
  /\ UNCHANGED <<polite, cur, reg, made, handle, chans, sent, accept, panic>>

-----------------------------------------------------------------------------

ReadLoop(e) ==
  ReadFrame(e) \/ OfferStream(e) \/ DispatchData(e) \/ DispatchFin(e) \/ DispatchRst(e)

Next ==
  \/ \E e \in Ends : ReadLoop(e) \/ Accept(e) \/ CloseSession(e)
  \/ \E e \in Ends, s \in Streams : Open(e, s)
  \/ \E h \in Handles : Read(h) \/ ReadEnd(h) \/ Write(h) \/ Close(h) \/ Reset(h)

\* Read loops run, and the applications accept and read whatever comes.
Fairness ==
  /\ \A e \in Ends : WF_vars(ReadLoop(e)) /\ WF_vars(Accept(e))
  /\ \A h \in Handles : WF_vars(Read(h))

Spec == Init /\ [][Next]_vars /\ Fairness

-----------------------------------------------------------------------------
(* Properties                                                              *)

First(e, s) == <<e, s, 1>>

BothUp == \A e \in Ends : up[e]

\* What an application reads on a stream is a prefix of what the other end
\* wrote on it: nothing is lost, doubled or moved, whatever the other streams
\* do, and whoever closes or resets (mux.go:207-281).  The objects an end
\* makes for a stream it had already forgotten are not covered.
NoGaps ==
  \A e \in Ends, s \in Streams :
    /\ got[First(e, s)] = [i \in 1..Len(got[First(e, s)]) |-> i]
    /\ Len(got[First(e, s)]) <= sent[<<Peer(e), s>>]

\* Among polite ends the end of a stream means that everything written to it
\* was read, unless the session died (mux.go:62-65, 259-263).
EofMeansAll ==
  polite /\ BothUp =>
    \A e \in Ends, s \in Streams :
      eof[First(e, s)] => Len(got[First(e, s)]) = sent[<<Peer(e), s>>]

\* However the ends behave, the read loop never sends on a readCh it closed
\* and never closes one twice: a stream that was reset is forgotten before
\* the next frame for it comes (mux.go:255-281).
ReadChIntact == "readCh" \notin panic

\* Among polite ends no end makes a second object for a stream, though a
\* closed stream's late FIN still arrives (mux.go:236-243).
NoPhantoms == polite => \A e \in Ends, s \in Streams : made[<<e, s>>] <= 1

\* As long as applications read, the read loop is never stuck on one stream
\* (mux.go:276-279).
ReadLoopRuns == \A e \in Ends : polite /\ cur[e] # <<>> ~> cur[e] = <<>> \/ ~up[e]

\* "FIN (graceful close)" (mux.go:5): a reader whose peer closed the stream
\* comes to its end, which is how a dialer unblocks the responder's serve loop
\* (sync.go:187-189).
FinUnblocks ==
  \A e \in Ends, s \in Streams :
    polite /\ handle[First(Peer(e), s)] = "closed" /\ handle[First(e, s)] = "open"
      ~> eof[First(e, s)] \/ handle[First(e, s)] = "closed" \/ ~BothUp
=============================================================================
