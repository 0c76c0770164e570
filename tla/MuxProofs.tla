----------------------------- MODULE MuxProofs -----------------------------
(***************************************************************************)
(* Proofs about the multiplexer, for any streams, capacities and bounds.   *)
(*                                                                         *)
(* The read loop never misuses a readCh (ReadChSafe): a readCh that was    *)
(* closed belongs to an object its end has forgotten, and an object made   *)
(* later is a new one.                                                     *)
(*                                                                         *)
(* What is read of a stream is a prefix of what was written (ReadsAPrefix): *)
(* between writer and reader the frames lie in order, those in the readCh  *)
(* below the one in the read loop's hand, and that below those on the wire. *)
(*                                                                         *)
(* Among polite ends no stream gets a second object (OneObject), and its   *)
(* end means that all of it was read (EndMeansAll): behind a FIN comes     *)
(* nothing, and an end closes only when the other will write no more.      *)
(***************************************************************************)
EXTENDS Mux, SequenceTheorems, TLAPS

\* The part of TypeOK the argument needs.
Types ==
  /\ wire \in [Ends -> Seq(Frames)]
  /\ reg \in [Ends \X Streams -> 0..MaxObjects]
  /\ made \in [Ends \X Streams -> 0..MaxObjects]
  /\ shut \in [Handles -> BOOLEAN]
  /\ sent \in [Ends \X Streams -> 0..MaxWrites]
  /\ DOMAIN cur = Ends

\* Streams are known under an object that was made.
Known == \A e \in Ends, s \in Streams : reg[<<e, s>>] <= made[<<e, s>>]

\* An object whose readCh is closed was made, and its stream is not known
\* under it.
ShutForgotten ==
  \A e \in Ends, s \in Streams, g \in 1..MaxObjects :
    shut[<<e, s, g>>] => g <= made[<<e, s>>] /\ reg[<<e, s>>] # g

\* The frame a read loop is dispatching is for an object of that end whose
\* readCh is open.
InHand ==
  \A e \in Ends : cur[e] # <<>> =>
    \E s \in Streams, g \in 1..MaxObjects :
      cur[e][1].to = <<e, s, g>> /\ g <= made[<<e, s>>] /\ ~shut[<<e, s, g>>]

IInv == Types /\ Known /\ ShutForgotten /\ InHand /\ ReadChIntact

-----------------------------------------------------------------------------

\* What an update of a function does.
LEMMA Updated ==
  ASSUME NEW D, NEW R, NEW f \in [D -> R], NEW x, NEW y \in R
  PROVE  /\ [f EXCEPT ![x] = y] \in [D -> R]
         /\ x \in D => [f EXCEPT ![x] = y][x] = y
         /\ \A z \in D : z # x => [f EXCEPT ![x] = y][z] = f[z]
  OBVIOUS

LEMMA HandleParts ==
  ASSUME NEW h \in Handles
  PROVE  h[1] \in Ends /\ h[2] \in Streams
  BY DEF Handles

LEMMA Bounds ==
  ASSUME MuxAssumption
  PROVE  /\ MaxWrites \in Nat /\ MaxAnswers \in Nat /\ MaxObjects \in Nat
         /\ MaxAnswers <= MaxWrites /\ MaxObjects >= 1
  BY DEF MuxAssumption

LEMMA SendTypes ==
  ASSUME Types, NEW e, NEW frame \in Frames, Send(e, frame)
  PROVE  wire' \in [Ends -> Seq(Frames)]
<1>1. \A q \in Ends : Append(wire[q], frame) \in Seq(Frames)
  BY DEF Types
<1>2. wire' = wire \/ wire' = [wire EXCEPT ![Peer(e)] = Append(wire[Peer(e)], frame)]
  BY DEF Send
<1>3. wire \in [Ends -> Seq(Frames)]
  BY DEF Types
<1>4. CASE Peer(e) \in Ends
  BY <1>1, <1>2, <1>3, <1>4, Updated
<1>5. CASE Peer(e) \notin Ends
  <2>1. [wire EXCEPT ![Peer(e)] = Append(wire[Peer(e)], frame)] = wire
    BY <1>3, <1>5
  <2> QED BY <2>1, <1>2, <1>3
<1> QED BY <1>4, <1>5

\* Applications send frames and close streams, which makes their end forget
\* them; a forgotten stream is known under no object at all.
Aside ==
  /\ wire' \in [Ends -> Seq(Frames)] /\ sent' \in [Ends \X Streams -> 0..MaxWrites]
  /\ UNCHANGED <<cur, made, shut, panic>>
  /\ \/ UNCHANGED reg
     \/ \E e \in Ends, s \in Streams : Forget(e, s)

LEMMA AsideKeeps ==
  ASSUME IInv, MuxAssumption, Aside
  PROVE  IInv'
<1> USE DEF IInv, Aside
<1>1. 0 \in 0..MaxObjects /\ reg \in [Ends \X Streams -> 0..MaxObjects]
  BY Bounds DEF Types
<1>2. /\ reg' \in [Ends \X Streams -> 0..MaxObjects]
      /\ \A es \in Ends \X Streams : reg'[es] \in {0, reg[es]}
  <2>1. CASE UNCHANGED reg
    BY <1>1, <2>1
  <2>2. ASSUME NEW x, reg' = [reg EXCEPT ![x] = 0]
        PROVE  <1>2!1 /\ <1>2!2
    BY <1>1, <2>2, Updated
  <2> QED BY <2>1, <2>2 DEF Forget
<1>3. Types'
  BY <1>2 DEF Types
<1>4. Known'
  <2> SUFFICES ASSUME NEW e \in Ends, NEW s \in Streams
      PROVE  reg'[<<e, s>>] <= made[<<e, s>>]
    BY DEF Known
  <2>1. made[<<e, s>>] \in Nat /\ reg[<<e, s>>] <= made[<<e, s>>]
    BY Bounds DEF Types, Known
  <2> QED BY <2>1, <1>2
<1>5. ShutForgotten'
  <2> SUFFICES ASSUME NEW e \in Ends, NEW s \in Streams, NEW g \in 1..MaxObjects, shut[<<e, s, g>>]
      PROVE  g <= made[<<e, s>>] /\ reg'[<<e, s>>] # g
    BY DEF ShutForgotten
  <2>1. g <= made[<<e, s>>] /\ reg[<<e, s>>] # g
    BY DEF ShutForgotten
  <2>2. reg'[<<e, s>>] \in {0, reg[<<e, s>>]} /\ g # 0
    BY <1>2, Bounds
  <2> QED BY <2>1, <2>2
<1>6. InHand'
  BY DEF InHand
<1> QED BY <1>3, <1>4, <1>5, <1>6 DEF ReadChIntact

LEMMA ApplicationsKeep ==
  ASSUME IInv, MuxAssumption, NEW h \in Handles,
         Write(h) \/ Close(h) \/ Reset(h) \/ Read(h) \/ ReadEnd(h)
  PROVE  IInv'
<1>1. h[1] \in Ends /\ h[2] \in Streams
  BY HandleParts
<1>2. CASE Write(h)
  <2>1. sent[<<h[1], h[2]>>] + 1 \in 0..MaxWrites
    <3>1. sent[<<h[1], h[2]>>] \in 0..MaxWrites
      BY <1>1 DEF IInv, Types
    <3>2. sent[<<h[1], h[2]>>] < MaxWrites \/ sent[<<h[1], h[2]>>] < MaxAnswers
      BY <1>2 DEF Write
    <3> QED BY <3>1, <3>2, Bounds
  <2>2. Frame(h[2], "DATA", sent[<<h[1], h[2]>>] + 1) \in Frames
    BY <1>1, <2>1 DEF Frame, Frames
  <2>3. wire' \in [Ends -> Seq(Frames)]
    BY <1>2, <2>2, SendTypes DEF Write, IInv
  <2>4. sent' \in [Ends \X Streams -> 0..MaxWrites]
    <3>1. sent' = [sent EXCEPT ![<<h[1], h[2]>>] = sent[<<h[1], h[2]>>] + 1]
      BY <1>2 DEF Write
    <3> QED BY <2>1, <3>1, Updated DEF IInv, Types
  <2> QED BY <1>2, <2>3, <2>4, AsideKeeps DEF Write, Aside, chans
<1>3. CASE Close(h) \/ Reset(h)
  <2>1. Frame(h[2], "FIN", 0) \in Frames /\ Frame(h[2], "RST", 0) \in Frames
    BY <1>1, Bounds DEF Frame, Frames
  <2>2. wire' \in [Ends -> Seq(Frames)]
    BY <1>3, <2>1, SendTypes DEF Close, Reset, IInv, Types
  <2> QED BY <1>1, <1>3, <2>2, AsideKeeps DEF Close, Reset, Aside, chans, IInv, Types
<1>4. CASE Read(h) \/ ReadEnd(h)
  BY <1>4, AsideKeeps DEF Read, ReadEnd, Aside, IInv, Types
<1> QED BY <1>2, <1>3, <1>4

LEMMA SessionsKeep ==
  ASSUME IInv, MuxAssumption, NEW e \in Ends, Accept(e) \/ CloseSession(e)
  PROVE  IInv'
<1>1. wire' \in [Ends -> Seq(Frames)]
  <2>1. wire \in [Ends -> Seq(Frames)] /\ <<>> \in Seq(Frames)
    BY DEF IInv, Types
  <2>2. CASE Accept(e)
    BY <2>1, <2>2 DEF Accept
  <2>3. CASE CloseSession(e)
    <3>1. wire' = [wire EXCEPT ![e] = <<>>]
      BY <2>3 DEF CloseSession
    <3> QED BY <2>1, <3>1, Updated
  <2> QED BY <2>2, <2>3
<1> QED BY <1>1, AsideKeeps DEF Accept, CloseSession, Aside, IInv, Types, chans

LEMMA OpenKeeps ==
  ASSUME IInv, MuxAssumption, NEW e \in Ends, NEW s \in Streams, Open(e, s)
  PROVE  IInv'
<1> DEFINE es == <<e, s>>
<1>1. es \in Ends \X Streams /\ 1 \in 0..MaxObjects
  BY Bounds
<1>2. made \in [Ends \X Streams -> 0..MaxObjects] /\ reg \in [Ends \X Streams -> 0..MaxObjects]
  BY DEF IInv, Types
<1>3. made' = [made EXCEPT ![es] = 1] /\ reg' = [reg EXCEPT ![es] = 1] /\ made[es] = 0
  BY DEF Open
<1>4. UNCHANGED <<wire, shut, sent, cur, panic>>
  BY DEF Open, chans
<1> HIDE DEF es
<1>5. Types'
  <2>1. made' \in [Ends \X Streams -> 0..MaxObjects] /\ reg' \in [Ends \X Streams -> 0..MaxObjects]
    BY <1>1, <1>2, <1>3, Updated
  <2> QED BY <2>1, <1>4 DEF IInv, Types
<1>6. made'[es] = 1 /\ reg'[es] = 1
  BY <1>1, <1>2, <1>3, Updated
<1>7. \A z \in Ends \X Streams : z # es => made'[z] = made[z] /\ reg'[z] = reg[z]
  BY <1>1, <1>2, <1>3, Updated
<1>8. Known'
  <2> SUFFICES ASSUME NEW f \in Ends, NEW t \in Streams
      PROVE  reg'[<<f, t>>] <= made'[<<f, t>>]
    BY DEF Known
  <2>1. CASE <<f, t>> = es
    BY <2>1, <1>6
  <2>2. CASE <<f, t>> # es
    <3>1. <<f, t>> \in Ends \X Streams
      OBVIOUS
    <3>2. reg[<<f, t>>] <= made[<<f, t>>]
      BY DEF IInv, Known
    <3> QED BY <2>2, <3>1, <3>2, <1>7
  <2> QED BY <2>1, <2>2
<1>9. ShutForgotten'
  <2> SUFFICES ASSUME NEW f \in Ends, NEW t \in Streams, NEW g \in 1..MaxObjects, shut[<<f, t, g>>]
      PROVE  g <= made'[<<f, t>>] /\ reg'[<<f, t>>] # g
    BY <1>4 DEF ShutForgotten
  <2>1. g <= made[<<f, t>>] /\ reg[<<f, t>>] # g /\ <<f, t>> \in Ends \X Streams
    BY DEF IInv, ShutForgotten
  <2>2. <<f, t>> # es
    BY <2>1, <1>3, Bounds
  <2> QED BY <2>1, <2>2, <1>7
<1>10. InHand'
  <2> SUFFICES ASSUME NEW f \in Ends, cur[f] # <<>>
      PROVE  \E t \in Streams, g \in 1..MaxObjects :
               cur[f][1].to = <<f, t, g>> /\ g <= made'[<<f, t>>] /\ ~shut[<<f, t, g>>]
    BY <1>4 DEF InHand
  <2>1. PICK t \in Streams, g \in 1..MaxObjects :
          cur[f][1].to = <<f, t, g>> /\ g <= made[<<f, t>>] /\ ~shut[<<f, t, g>>]
    BY DEF IInv, InHand
  <2>2. <<f, t>> # es /\ <<f, t>> \in Ends \X Streams
    BY <2>1, <1>3, Bounds
  <2> QED BY <2>1, <2>2, <1>7
<1> QED BY <1>4, <1>5, <1>8, <1>9, <1>10 DEF IInv, ReadChIntact

\* A read loop that takes a frame gives it to the object the stream is known
\* under, or to one newer than any the end has made.
LEMMA ReadFrameKeeps ==
  ASSUME IInv, MuxAssumption, NEW e \in Ends, ReadFrame(e)
  PROVE  IInv'
<1> DEFINE f == Head(wire[e])
           es == <<e, f.id>>
           known == reg[es] # 0
           g == IF known THEN reg[es] ELSE made[es] + 1
           frame == [frame |-> f, to |-> <<e, f.id, g>>, fresh |-> ~known]
<1>1. /\ made \in [Ends \X Streams -> 0..MaxObjects] /\ reg \in [Ends \X Streams -> 0..MaxObjects]
      /\ wire \in [Ends -> Seq(Frames)] /\ DOMAIN cur = Ends
  BY DEF IInv, Types
<1>2. f \in Frames /\ Tail(wire[e]) \in Seq(Frames)
  <2>1. wire[e] \in Seq(Frames)
    BY <1>1
  <2>2. wire[e] # <<>>
    BY DEF ReadFrame
  <2> QED BY <2>1, <2>2
<1>3. f.id \in Streams /\ es \in Ends \X Streams
  BY <1>2 DEF Frames
<1>4. /\ wire' = [wire EXCEPT ![e] = Tail(wire[e])]
      /\ UNCHANGED <<sent, shut, panic>> /\ cur[e] = <<>>
  BY DEF ReadFrame, chans
<1>5. wire' \in [Ends -> Seq(Frames)]
  BY <1>1, <1>2, <1>4, Updated
<1>6. CASE UNCHANGED <<cur, reg, made>>
  BY <1>4, <1>5, <1>6, AsideKeeps DEF Aside, IInv, Types
<1>7. CASE ~UNCHANGED <<cur, reg, made>>
  <2>1. /\ cur' = [cur EXCEPT ![e] = <<frame>>]
        /\ reg' = [reg EXCEPT ![es] = g]
        /\ made' = [made EXCEPT ![es] = IF known THEN made[es] ELSE g]
        /\ known \/ g <= MaxObjects
    BY <1>7 DEF ReadFrame
  <2>2. reg[es] \in 0..MaxObjects /\ made[es] \in 0..MaxObjects /\ reg[es] <= made[es]
    BY <1>1, <1>3 DEF IInv, Known
  <2>3. /\ g \in 1..MaxObjects /\ g <= (IF known THEN made[es] ELSE g)
        /\ (IF known THEN made[es] ELSE g) \in 0..MaxObjects
        /\ made[es] <= (IF known THEN made[es] ELSE g)
    BY <2>1, <2>2, Bounds
  <2>4. ~shut[<<e, f.id, g>>]
    BY <1>3, <2>2, <2>3 DEF IInv, ShutForgotten
  <2>5. \A h \in 1..MaxObjects : shut[<<e, f.id, h>>] => g # h /\ h <= made[es]
    BY <1>3, <2>4 DEF IInv, ShutForgotten
  <2>6. cur'[e] = <<frame>> /\ \A d \in Ends : d # e => cur'[d] = cur[d]
    BY <1>1, <2>1
  <2>7. frame.to = <<e, f.id, g>>
    OBVIOUS
  <2> HIDE DEF frame, g, known, es, f
  <2>8. /\ reg' \in [Ends \X Streams -> 0..MaxObjects] /\ reg'[es] = g
        /\ \A z \in Ends \X Streams : z # es => reg'[z] = reg[z]
    BY <1>1, <1>3, <2>1, <2>3, Updated
  <2>9. /\ made' \in [Ends \X Streams -> 0..MaxObjects]
        /\ made'[es] = IF known THEN made[es] ELSE g
        /\ \A z \in Ends \X Streams : z # es => made'[z] = made[z]
    BY <1>1, <1>3, <2>1, <2>3, Updated
  <2>10. Types'
    BY <1>1, <1>4, <1>5, <2>1, <2>8, <2>9 DEF IInv, Types
  <2>11. Known'
    <3> SUFFICES ASSUME NEW d \in Ends, NEW t \in Streams
        PROVE  reg'[<<d, t>>] <= made'[<<d, t>>]
      BY DEF Known
    <3>1. CASE <<d, t>> = es
      BY <3>1, <2>3, <2>8, <2>9
    <3>2. CASE <<d, t>> # es
      BY <3>2, <2>8, <2>9 DEF IInv, Known
    <3> QED BY <3>1, <3>2
  <2>12. ShutForgotten'
    <3> SUFFICES ASSUME NEW d \in Ends, NEW t \in Streams, NEW h \in 1..MaxObjects, shut[<<d, t, h>>]
        PROVE  h <= made'[<<d, t>>] /\ reg'[<<d, t>>] # h
      BY <1>4 DEF ShutForgotten
    <3>1. CASE <<d, t>> = es
      <4>1. d = e /\ t = f.id
        BY <3>1 DEF es
      <4>2. g # h /\ h <= made[es]
        BY <4>1, <2>5
      <4> QED BY <3>1, <4>2, <2>2, <2>3, <2>8, <2>9
    <3>2. CASE <<d, t>> # es
      BY <3>2, <2>8, <2>9 DEF IInv, ShutForgotten
    <3> QED BY <3>1, <3>2
  <2>13. InHand'
    <3> SUFFICES ASSUME NEW d \in Ends, cur'[d] # <<>>
        PROVE  \E t \in Streams, h \in 1..MaxObjects :
                 cur'[d][1].to = <<d, t, h>> /\ h <= made'[<<d, t>>] /\ ~shut[<<d, t, h>>]
      BY <1>4 DEF InHand
    <3>1. CASE d = e
      <4>1. cur'[d][1].to = <<d, f.id, g>>
        BY <3>1, <2>6, <2>7
      <4>2. g <= made'[<<d, f.id>>]
        BY <3>1, <2>3, <2>9 DEF es
      <4> QED BY <3>1, <4>1, <4>2, <1>3, <2>3, <2>4
    <3>2. CASE d # e
      <4>1. PICK t \in Streams, h \in 1..MaxObjects :
              cur[d][1].to = <<d, t, h>> /\ h <= made[<<d, t>>] /\ ~shut[<<d, t, h>>]
        BY <3>2, <2>6 DEF IInv, InHand
      <4>2. <<d, t>> # es
        BY <3>2 DEF es
      <4>3. h <= made'[<<d, t>>]
        BY <4>1, <4>2, <2>9
      <4> QED BY <3>2, <4>1, <4>3, <2>6
    <3> QED BY <3>1, <3>2
  <2> QED BY <1>4, <2>10, <2>11, <2>12, <2>13 DEF IInv, ReadChIntact
<1> QED BY <1>6, <1>7

\* Dispatching empties the hand, or leaves the same frame in it, no longer new.
LEMMA HandAfter ==
  ASSUME DOMAIN cur = Ends, NEW e \in Ends,
         OfferStream(e) \/ DispatchData(e) \/ DispatchFin(e) \/ DispatchRst(e)
  PROVE  /\ DOMAIN cur' = Ends /\ \A d \in Ends : d # e => cur'[d] = cur[d]
         /\ \/ cur'[e] = <<>>
            \/ /\ OfferStream(e) /\ UNCHANGED <<ch, shut>>
               /\ cur'[e][1].frame = cur[e][1].frame /\ cur'[e][1].to = cur[e][1].to
               /\ ~cur'[e][1].fresh
<1>1. CASE OfferStream(e)
  <2> DEFINE kept == [frame |-> cur[e][1].frame, to |-> cur[e][1].to, fresh |-> FALSE]
  <2>1. cur' = [cur EXCEPT ![e] = <<>>] \/ cur' = [cur EXCEPT ![e] = <<kept>>]
    BY <1>1 DEF OfferStream
  <2>2. kept.frame = cur[e][1].frame /\ kept.to = cur[e][1].to /\ ~kept.fresh OBVIOUS
  <2>3. UNCHANGED <<ch, shut>> BY <1>1 DEF OfferStream, chans
  <2> HIDE DEF kept
  <2>4. cur'[e] = <<>> \/ cur'[e][1] = kept BY <2>1
  <2> QED BY <1>1, <2>1, <2>2, <2>3, <2>4
<1>2. CASE DispatchData(e) \/ DispatchFin(e) \/ DispatchRst(e)
  <2>1. cur' = [cur EXCEPT ![e] = <<>>]
    BY <1>2 DEF DispatchData, DispatchFin, DispatchRst, Deliver
  <2> QED BY <2>1
<1> QED BY <1>1, <1>2

\* Dispatching empties the hand, or leaves the same object in it; only an RST
\* closes a readCh, that of the object in hand, and its end forgets it.
LEMMA DispatchKeeps ==
  ASSUME IInv, MuxAssumption, NEW e \in Ends,
         OfferStream(e) \/ DispatchData(e) \/ DispatchFin(e) \/ DispatchRst(e)
  PROVE  IInv'
<1>1. PICK s \in Streams, g \in 1..MaxObjects :
        cur[e][1].to = <<e, s, g>> /\ g <= made[<<e, s>>] /\ ~shut[<<e, s, g>>]
  BY DEF IInv, InHand, OfferStream, DispatchData, DispatchFin, DispatchRst, Deliver
<1>2. /\ UNCHANGED <<wire, made, sent>> /\ DOMAIN cur' = Ends
      /\ \A d \in Ends : d # e => cur'[d] = cur[d]
      /\ cur'[e] = <<>> \/ (cur'[e][1].to = <<e, s, g>> /\ UNCHANGED shut)
  <2>1. UNCHANGED <<wire, made, sent>>
    BY DEF OfferStream, DispatchData, DispatchFin, DispatchRst
  <2>2. DOMAIN cur = Ends BY DEF IInv, Types
  <2> QED BY <1>1, <2>1, <2>2, HandAfter
<1>3. "readCh" \notin panic'
  BY <1>1 DEF IInv, ReadChIntact, OfferStream, DispatchData, DispatchFin, DispatchRst, Misused
<1>4. CASE UNCHANGED <<reg, shut>>
  <2>1. Types' /\ Known' /\ ShutForgotten'
    BY <1>2, <1>4 DEF IInv, Types, Known, ShutForgotten
  <2>2. InHand'
    <3> SUFFICES ASSUME NEW d \in Ends, cur'[d] # <<>>
        PROVE  \E t \in Streams, h \in 1..MaxObjects :
                 cur'[d][1].to = <<d, t, h>> /\ h <= made[<<d, t>>] /\ ~shut[<<d, t, h>>]
      BY <1>2, <1>4 DEF InHand
    <3>1. CASE d = e
      BY <3>1, <1>1, <1>2
    <3>2. CASE d # e
      BY <3>2, <1>2 DEF IInv, InHand
    <3> QED BY <3>1, <3>2
  <2> QED BY <1>3, <2>1, <2>2 DEF IInv, ReadChIntact
<1>5. CASE DispatchRst(e)
  <2> DEFINE es == <<e, s>>
             h == <<e, s, g>>
  <2>1. reg' = [reg EXCEPT ![es] = 0] /\ shut' = [shut EXCEPT ![h] = TRUE] /\ cur'[e] = <<>>
    BY <1>1, <1>5 DEF DispatchRst, Forget, Misused, Deliver, IInv, Types
  <2>2. es \in Ends \X Streams /\ h \in Handles /\ 0 \in 0..MaxObjects
    BY Bounds DEF Handles
  <2>3. reg \in [Ends \X Streams -> 0..MaxObjects] /\ shut \in [Handles -> BOOLEAN]
    BY DEF IInv, Types
  <2> HIDE DEF es, h
  <2>4. /\ reg' \in [Ends \X Streams -> 0..MaxObjects] /\ reg'[es] = 0
        /\ \A z \in Ends \X Streams : z # es => reg'[z] = reg[z]
    BY <2>1, <2>2, <2>3, Updated
  <2>5. /\ shut' \in [Handles -> BOOLEAN]
        /\ \A z \in Handles : z # h => shut'[z] = shut[z]
    BY <2>1, <2>2, <2>3, Updated
  <2>6. Types'
    BY <1>2, <2>4, <2>5 DEF IInv, Types
  <2>7. Known'
    <3> SUFFICES ASSUME NEW d \in Ends, NEW t \in Streams
        PROVE  reg'[<<d, t>>] <= made[<<d, t>>]
      BY <1>2 DEF Known
    <3>1. CASE <<d, t>> = es
      <4>1. made[<<d, t>>] \in 0..MaxObjects
        BY DEF IInv, Types
      <4> QED BY <3>1, <4>1, <2>4, Bounds
    <3>2. CASE <<d, t>> # es
      BY <3>2, <2>4 DEF IInv, Known
    <3> QED BY <3>1, <3>2
  <2>8. ShutForgotten'
    <3> SUFFICES ASSUME NEW d \in Ends, NEW t \in Streams, NEW k \in 1..MaxObjects, shut'[<<d, t, k>>]
        PROVE  k <= made[<<d, t>>] /\ reg'[<<d, t>>] # k
      BY <1>2 DEF ShutForgotten
    <3>1. CASE <<d, t, k>> = h
      <4>1. d = e /\ t = s /\ k = g
        BY <3>1 DEF h
      <4> QED BY <4>1, <1>1, <2>4, Bounds DEF es
    <3>2. CASE <<d, t, k>> # h
      <4>1. shut[<<d, t, k>>] /\ <<d, t>> \in Ends \X Streams
        BY <3>2, <2>5 DEF Handles
      <4>2. k <= made[<<d, t>>] /\ reg[<<d, t>>] # k
        BY <4>1 DEF IInv, ShutForgotten
      <4> QED BY <4>1, <4>2, <2>4, Bounds
    <3> QED BY <3>1, <3>2
  <2>9. InHand'
    <3> SUFFICES ASSUME NEW d \in Ends, cur'[d] # <<>>
        PROVE  \E t \in Streams, k \in 1..MaxObjects :
                 cur'[d][1].to = <<d, t, k>> /\ k <= made[<<d, t>>] /\ ~shut'[<<d, t, k>>]
      BY <1>2 DEF InHand
    <3>1. d # e /\ cur'[d] = cur[d]
      BY <1>2, <2>1
    <3>2. PICK t \in Streams, k \in 1..MaxObjects :
            cur[d][1].to = <<d, t, k>> /\ k <= made[<<d, t>>] /\ ~shut[<<d, t, k>>]
      BY <3>1 DEF IInv, InHand
    <3>3. <<d, t, k>> # h /\ <<d, t, k>> \in Handles
      BY <3>1 DEF h, Handles
    <3> QED BY <3>1, <3>2, <3>3, <2>5
  <2> QED BY <1>3, <2>6, <2>7, <2>8, <2>9 DEF IInv, ReadChIntact
<1> QED BY <1>4, <1>5 DEF OfferStream, DispatchData, DispatchFin, chans

LEMMA InitHolds ==
  ASSUME MuxAssumption, Init
  PROVE  IInv
<1>1. Types
  BY Bounds DEF Init, Types
<1>2. Known /\ ShutForgotten /\ InHand
  BY DEF Init, Known, ShutForgotten, InHand, Handles
<1> QED BY <1>1, <1>2 DEF Init, IInv, ReadChIntact

LEMMA InvStep == ASSUME MuxAssumption, IInv, [Next]_vars PROVE IInv'
<1>1. CASE UNCHANGED vars
  <2>1. UNCHANGED <<wire, reg, made, shut, sent, cur, panic>>
    BY <1>1 DEF vars, chans
  <2>2. Types' /\ Known'
    BY <2>1 DEF IInv, Types, Known
  <2>3. ShutForgotten' /\ InHand' /\ ReadChIntact'
    BY <2>1 DEF IInv, ShutForgotten, InHand, ReadChIntact
  <2> QED BY <2>2, <2>3 DEF IInv
<1>2. ASSUME NEW e \in Ends, ReadLoop(e) \/ Accept(e) \/ CloseSession(e)
      PROVE  IInv'
  BY <1>2, ReadFrameKeeps, DispatchKeeps, SessionsKeep DEF ReadLoop
<1>3. ASSUME NEW e \in Ends, NEW s \in Streams, Open(e, s)
      PROVE  IInv'
  BY <1>3, OpenKeeps
<1>4. ASSUME NEW h \in Handles, Read(h) \/ ReadEnd(h) \/ Write(h) \/ Close(h) \/ Reset(h)
      PROVE  IInv'
  BY <1>4, ApplicationsKeep
<1> QED BY <1>1, <1>2, <1>3, <1>4 DEF Next

\* However applications open, write, close and reset, and whatever the
\* capacities, no read loop ever sends on a readCh it closed or closes it
\* twice.
THEOREM ReadChSafe == Spec => []ReadChIntact
<1>1. Init => IInv
  BY InitHolds, MuxAssumption
<1>2. IInv /\ [Next]_vars => IInv'
  BY InvStep, MuxAssumption
<1>3. IInv => ReadChIntact
  BY DEF IInv
<1> QED BY <1>1, <1>2, <1>3, PTL DEF Spec

-----------------------------------------------------------------------------
(* The order of frames *)

\* The numbers of a stream's DATA frames on a wire, the other frames being 0.
NumberOf(f, s) == IF f.id = s /\ f.kind = "DATA" THEN f.n ELSE 0
Numbers(q, s) == [i \in 1..Len(q) |-> NumberOf(q[i], s)]

\* A queue of numbers holds those above lo up to hi, each in its place.
InOrder(q, lo, hi) ==
  /\ \A i \in 1..Len(q) : q[i] # 0 => q[i] > lo /\ q[i] <= hi
  /\ \A m \in Nat : lo < m /\ m <= hi => \E i \in 1..Len(q) : q[i] = m
  /\ \A i, j \in 1..Len(q) : i < j /\ q[i] # 0 /\ q[j] # 0 => q[i] < q[j]

LEMMA OrderTail ==
  ASSUME NEW q \in Seq(Nat), q # <<>>, NEW lo \in Nat, NEW hi \in Nat, InOrder(q, lo, hi)
  PROVE  IF Head(q) = 0 THEN InOrder(Tail(q), lo, hi)
         ELSE Head(q) = lo + 1 /\ lo + 1 <= hi /\ InOrder(Tail(q), lo + 1, hi)
<1>1. /\ Len(q) \in Nat /\ Len(q) >= 1 /\ Len(Tail(q)) = Len(q) - 1
      /\ Head(q) = q[1] /\ \A i \in 1..Len(q) : q[i] \in Nat
      /\ \A i \in 1..Len(q) - 1 : Tail(q)[i] = q[i + 1]
  BY HeadTailProperties, LenProperties, EmptySeq, ElementOfSeq
<1> DEFINE r == Tail(q)
           n == Len(q)
<1>2. Len(r) = n - 1 /\ n \in Nat \ {0} /\ \A i \in 1..n - 1 : r[i] = q[i + 1] BY <1>1
<1> HIDE DEF r, n
<1>3. \A i \in 1..n : i = 1 \/ (i - 1 \in 1..n - 1 /\ q[i] = r[i - 1]) BY <1>2
<1>4. CASE Head(q) = 0
  <2>1. \A i \in 1..Len(r) : r[i] # 0 => r[i] > lo /\ r[i] <= hi
    <3> SUFFICES ASSUME NEW i \in 1..Len(r), r[i] # 0 PROVE r[i] > lo /\ r[i] <= hi OBVIOUS
    <3>1. i + 1 \in 1..n /\ r[i] = q[i + 1] BY <1>2
    <3> QED BY <3>1 DEF InOrder, n
  <2>2. \A m \in Nat : lo < m /\ m <= hi => \E i \in 1..Len(r) : r[i] = m
    <3> SUFFICES ASSUME NEW m \in Nat, lo < m, m <= hi PROVE \E i \in 1..Len(r) : r[i] = m OBVIOUS
    <3>1. PICK i \in 1..n : q[i] = m BY DEF InOrder, n
    <3>2. i # 1 BY <3>1, <1>1, <1>4
    <3> QED BY <1>2, <1>3, <3>1, <3>2
  <2>3. \A i, j \in 1..Len(r) : i < j /\ r[i] # 0 /\ r[j] # 0 => r[i] < r[j]
    <3> SUFFICES ASSUME NEW i \in 1..Len(r), NEW j \in 1..Len(r), i < j, r[i] # 0, r[j] # 0
                 PROVE  r[i] < r[j]
      OBVIOUS
    <3>1. i + 1 \in 1..n /\ j + 1 \in 1..n /\ i + 1 < j + 1 BY <1>2
    <3> QED BY <1>2, <3>1 DEF InOrder, n
  <2> QED BY <1>4, <2>1, <2>2, <2>3 DEF InOrder, r
<1>5. CASE Head(q) # 0
  <2>1. q[1] # 0 /\ q[1] > lo /\ q[1] <= hi /\ q[1] \in Nat BY <1>1, <1>5 DEF InOrder
  <2>2. q[1] = lo + 1
    <3>1. PICK i \in 1..n : q[i] = lo + 1 BY <2>1 DEF InOrder, n
    <3>2. i # 1 => q[1] < q[i]
      <4>1. i # 1 => 1 < i /\ 1 \in 1..n /\ q[i] # 0 BY <1>2, <2>1, <3>1
      <4> QED BY <2>1, <3>1, <4>1 DEF InOrder, n
    <3> QED BY <2>1, <3>1, <3>2
  <2>3. \A i \in 1..Len(r) : r[i] # 0 => r[i] > lo + 1 /\ r[i] <= hi
    <3> SUFFICES ASSUME NEW i \in 1..Len(r), r[i] # 0 PROVE r[i] > lo + 1 /\ r[i] <= hi OBVIOUS
    <3>1. i + 1 \in 1..n /\ 1 < i + 1 /\ r[i] = q[i + 1] /\ 1 \in 1..n BY <1>2
    <3> QED BY <2>1, <2>2, <3>1 DEF InOrder, n
  <2>4. \A m \in Nat : lo + 1 < m /\ m <= hi => \E i \in 1..Len(r) : r[i] = m
    <3> SUFFICES ASSUME NEW m \in Nat, lo + 1 < m, m <= hi PROVE \E i \in 1..Len(r) : r[i] = m OBVIOUS
    <3>1. PICK i \in 1..n : q[i] = m BY DEF InOrder, n
    <3>2. i # 1 BY <3>1, <2>2
    <3> QED BY <1>2, <1>3, <3>1, <3>2
  <2>5. \A i, j \in 1..Len(r) : i < j /\ r[i] # 0 /\ r[j] # 0 => r[i] < r[j]
    <3> SUFFICES ASSUME NEW i \in 1..Len(r), NEW j \in 1..Len(r), i < j, r[i] # 0, r[j] # 0
                 PROVE  r[i] < r[j]
      OBVIOUS
    <3>1. i + 1 \in 1..n /\ j + 1 \in 1..n /\ i + 1 < j + 1 BY <1>2
    <3> QED BY <1>2, <3>1 DEF InOrder, n
  <2> QED BY <1>1, <1>5, <2>1, <2>2, <2>3, <2>4, <2>5 DEF InOrder, r
<1> QED BY <1>4, <1>5

LEMMA OrderAppend ==
  ASSUME NEW q \in Seq(Nat), NEW lo \in Nat, NEW hi \in Nat, lo <= hi, InOrder(q, lo, hi)
  PROVE  InOrder(Append(q, 0), lo, hi) /\ InOrder(Append(q, hi + 1), lo, hi + 1)
<1> DEFINE n == Len(q)
<1>1. n \in Nat /\ \A i \in 1..n : q[i] \in Nat BY LenProperties, ElementOfSeq
<1>2. ASSUME NEW x \in Nat
      PROVE  Len(Append(q, x)) = n + 1 /\ Append(q, x)[n + 1] = x
             /\ \A i \in 1..n : Append(q, x)[i] = q[i]
  BY AppendProperties
<1>3. /\ \A i \in 1..n : q[i] # 0 => q[i] > lo /\ q[i] <= hi
      /\ \A m \in Nat : lo < m /\ m <= hi => \E i \in 1..n : q[i] = m
      /\ \A i, j \in 1..n : i < j /\ q[i] # 0 /\ q[j] # 0 => q[i] < q[j]
  BY DEF InOrder
<1>4. \A i \in 1..n + 1 : i = n + 1 \/ i \in 1..n BY <1>1
<1> HIDE DEF n
<1>5. ASSUME NEW x \in {0, hi + 1} PROVE InOrder(Append(q, x), lo, IF x = 0 THEN hi ELSE x)
  <2> DEFINE r == Append(q, x)
             top == IF x = 0 THEN hi ELSE x
  <2>0. x \in Nat BY <1>5
  <2>1. Len(r) = n + 1 /\ r[n + 1] = x /\ \A i \in 1..n : r[i] = q[i] BY <2>0, <1>2
  <2> HIDE DEF r
  <2>2. \A i \in 1..Len(r) : r[i] # 0 => r[i] > lo /\ r[i] <= top BY <1>1, <1>3, <1>4, <2>1
  <2>3. \A m \in Nat : lo < m /\ m <= top => \E i \in 1..Len(r) : r[i] = m
    <3> SUFFICES ASSUME NEW m \in Nat, lo < m, m <= top PROVE \E i \in 1..Len(r) : r[i] = m OBVIOUS
    <3>1. CASE m <= hi
      <4>1. PICK i \in 1..n : q[i] = m BY <1>3, <3>1
      <4> QED BY <1>1, <2>1, <4>1
    <3>2. CASE m > hi
      <4>1. m = x BY <1>5, <3>2
      <4> QED BY <1>1, <2>1, <4>1
    <3> QED BY <3>1, <3>2
  <2>4. \A i, j \in 1..Len(r) : i < j /\ r[i] # 0 /\ r[j] # 0 => r[i] < r[j]
    <3> SUFFICES ASSUME NEW i \in 1..Len(r), NEW j \in 1..Len(r), i < j, r[i] # 0, r[j] # 0
                 PROVE  r[i] < r[j]
      OBVIOUS
    <3>1. i \in 1..n BY <1>1, <2>1
    <3>2. CASE j \in 1..n BY <3>1, <3>2, <1>3, <2>1
    <3>3. CASE j = n + 1
      <4>1. r[j] = hi + 1 /\ r[i] <= hi /\ r[i] \in Nat BY <1>1, <1>3, <1>5, <2>1, <3>1, <3>3
      <4> QED BY <4>1
    <3> QED BY <1>4, <2>1, <3>2, <3>3
  <2> QED BY <2>2, <2>3, <2>4 DEF InOrder, r
<1>6. InOrder(Append(q, 0), lo, hi)
  <2>1. InOrder(Append(q, 0), lo, IF 0 = 0 THEN hi ELSE 0) BY <1>5
  <2> QED BY <2>1
<1>7. InOrder(Append(q, hi + 1), lo, hi + 1)
  <2>1. InOrder(Append(q, hi + 1), lo, IF hi + 1 = 0 THEN hi ELSE hi + 1) BY <1>5
  <2> QED BY <2>1
<1> QED BY <1>6, <1>7

LEMMA NumbersOf ==
  ASSUME NEW q \in Seq(Frames), NEW s, MuxAssumption
  PROVE  /\ Numbers(q, s) \in Seq(Nat)
         /\ q # <<>> => /\ Numbers(q, s) # <<>>
                        /\ Head(Numbers(q, s)) = NumberOf(Head(q), s)
                        /\ Numbers(Tail(q), s) = Tail(Numbers(q, s))
         /\ \A f \in Frames : Numbers(Append(q, f), s) = Append(Numbers(q, s), NumberOf(f, s))
<1>1. \A f \in Frames : NumberOf(f, s) \in Nat BY Bounds DEF NumberOf, Frames
<1>2. Len(q) \in Nat /\ \A i \in 1..Len(q) : q[i] \in Frames BY LenProperties, ElementOfSeq
<1> DEFINE n == Len(q)
           r == Numbers(q, s)
<1>3. r \in Seq(Nat) /\ Len(r) = n /\ \A i \in 1..n : r[i] = NumberOf(q[i], s)
  BY <1>1, <1>2 DEF Numbers
<1>4. ASSUME q # <<>> PROVE r # <<>> /\ Head(r) = NumberOf(Head(q), s) /\ Numbers(Tail(q), s) = Tail(r)
  <2>1. /\ n >= 1 /\ Head(q) = q[1] /\ Tail(q) \in Seq(Frames) /\ Len(Tail(q)) = n - 1
        /\ \A i \in 1..n - 1 : Tail(q)[i] = q[i + 1]
    BY <1>2, <1>4, HeadTailProperties, LenProperties, EmptySeq
  <2>2. r # <<>> /\ Head(r) = r[1] /\ Tail(r) \in Seq(Nat) /\ Len(Tail(r)) = n - 1
        /\ \A i \in 1..n - 1 : Tail(r)[i] = r[i + 1]
    <3> HIDE DEF r
    <3>1. r # <<>> BY <1>2, <1>3, <2>1
    <3> QED BY <1>3, <3>1, HeadTailProperties
  <2> HIDE DEF r
  <2>3. Numbers(Tail(q), s) = [i \in 1..n - 1 |-> NumberOf(Tail(q)[i], s)] BY <2>1 DEF Numbers
  <2>4. Tail(r) = [i \in 1..n - 1 |-> Tail(r)[i]] BY <2>2, LenProperties, <1>2
  <2>5. \A i \in 1..n - 1 : Tail(r)[i] = NumberOf(Tail(q)[i], s) BY <1>2, <1>3, <2>1, <2>2
  <2>6. Numbers(Tail(q), s) = Tail(r) BY <2>3, <2>4, <2>5
  <2>7. 1 \in 1..n BY <1>2, <2>1
  <2> QED BY <1>3, <2>1, <2>2, <2>6, <2>7
<1>5. ASSUME NEW f \in Frames PROVE Numbers(Append(q, f), s) = Append(r, NumberOf(f, s))
  <2> DEFINE x == NumberOf(f, s)
  <2>1. /\ Len(Append(q, f)) = n + 1 /\ Append(q, f)[n + 1] = f
        /\ \A i \in 1..n : Append(q, f)[i] = q[i]
    BY AppendProperties
  <2>2. x \in Nat BY <1>1
  <2> HIDE DEF r, x
  <2>3. /\ Append(r, x) \in Seq(Nat) /\ Len(Append(r, x)) = n + 1 /\ Append(r, x)[n + 1] = x
        /\ \A i \in 1..n : Append(r, x)[i] = r[i]
    BY <1>3, <2>2, AppendProperties
  <2>4. Numbers(Append(q, f), s) = [i \in 1..n + 1 |-> NumberOf(Append(q, f)[i], s)]
    BY <2>1 DEF Numbers
  <2>5. Append(r, x) = [i \in 1..n + 1 |-> Append(r, x)[i]] BY <2>3, LenProperties
  <2>6. \A i \in 1..n + 1 : Append(r, x)[i] = NumberOf(Append(q, f)[i], s)
    <3>1. \A i \in 1..n + 1 : i = n + 1 \/ i \in 1..n BY <1>2
    <3> QED BY <3>1, <1>3, <2>1, <2>3 DEF x
  <2> QED BY <2>4, <2>5, <2>6 DEF x
<1> QED BY <1>3, <1>4, <1>5

-----------------------------------------------------------------------------

LEMMA Peers ==
  ASSUME MuxAssumption, NEW e \in Ends
  PROVE  Peer(e) \in Ends /\ Peer(e) # e /\ Peer(Peer(e)) = e /\ \A f \in Ends : f = e \/ f = Peer(e)
<1>1. PICK a, b \in Ends : a # b /\ Ends = {a, b}
  BY DEF MuxAssumption
<1>2. Peer(a) = b /\ Peer(b) = a
  BY <1>1 DEF Peer
<1> QED BY <1>1, <1>2

Hands == [frame : Frames, to : Handles, fresh : BOOLEAN]

QueueTypes ==
  /\ ch \in [Handles -> Seq(Nat)] /\ got \in [Handles -> Seq(Nat)]
  /\ up \in [Ends -> BOOLEAN]
  /\ \A e \in Ends : cur[e] # <<>> => cur[e] = <<cur[e][1]>> /\ cur[e][1] \in Hands
  /\ \A e \in Ends : \A i \in 1..Len(wire[e]) : wire[e][i].kind = "DATA" => wire[e][i].n # 0

HandData(e, s) ==
  cur[e] # <<>> /\ cur[e][1].to = First(e, s) /\ cur[e][1].frame.kind = "DATA"

\* Between the writer of a stream and the reader at end e, if that reads on the
\* first object made for it: the application read the frames up to some number,
\* those up to b are in the readCh, perhaps one more is in the read loop's hand,
\* and those above t are on the wire. As long as the object is known, the hand
\* and the queue have all that left the wire.
Pipe(e, s, b, t) ==
  LET h == First(e, s)
  IN  /\ Len(got[h]) <= b /\ t <= sent[<<Peer(e), s>>]
      /\ got[h] = [i \in 1..Len(got[h]) |-> i]
      /\ InOrder(ch[h], Len(got[h]), b)
      /\ up[e] => InOrder(Numbers(wire[e], s), t, sent[<<Peer(e), s>>])
      /\ HandData(e, s) => cur[e][1].frame.n = b + 1
      /\ (IF HandData(e, s) THEN b + 1 ELSE b) <= t
      /\ up[e] /\ (reg[<<e, s>>] = 1 \/ made[<<e, s>>] = 0) =>
           t = IF HandData(e, s) THEN b + 1 ELSE b

PipeInv == \A e \in Ends, s \in Streams : \E b, t \in Nat : Pipe(e, s, b, t)

OrderInv == IInv /\ QueueTypes /\ PipeInv

LEMMA FirstHandle ==
  ASSUME MuxAssumption, NEW e \in Ends, NEW s \in Streams
  PROVE  First(e, s) \in Handles /\ <<e, s>> \in Ends \X Streams /\ <<Peer(e), s>> \in Ends \X Streams
  BY Bounds, Peers DEF First, Handles

\* A step that none of a pipe's parts notice.
LEMMA PipeStays ==
  ASSUME NEW e, NEW s, NEW b, NEW t, Pipe(e, s, b, t),
         got'[First(e, s)] = got[First(e, s)], ch'[First(e, s)] = ch[First(e, s)],
         sent'[<<Peer(e), s>>] = sent[<<Peer(e), s>>],
         up'[e] => up[e] /\ Numbers(wire'[e], s) = Numbers(wire[e], s),
         HandData(e, s)' <=> HandData(e, s), HandData(e, s) => cur'[e] = cur[e],
         reg'[<<e, s>>] = 1 \/ made'[<<e, s>>] = 0 => reg[<<e, s>>] = 1 \/ made[<<e, s>>] = 0
  PROVE  Pipe(e, s, b, t)'
  BY DEF Pipe, First

\* What an end sends comes last on its peer's wire.
LEMMA SendNumbers ==
  ASSUME Types, MuxAssumption, NEW q \in Ends, NEW frame \in Frames, Send(q, frame),
         NEW e \in Ends, NEW s \in Streams
  PROVE  Numbers(wire'[e], s) = IF up[e] /\ e = Peer(q)
                                THEN Append(Numbers(wire[e], s), NumberOf(frame, s))
                                ELSE Numbers(wire[e], s)
<1>1. wire \in [Ends -> Seq(Frames)] BY DEF Types
<1>2. Peer(q) \in Ends BY Peers
<1>3. CASE up[e] /\ e = Peer(q)
  <2>1. wire' = [wire EXCEPT ![e] = Append(wire[e], frame)] BY <1>3 DEF Send
  <2>2. wire'[e] = Append(wire[e], frame) BY <1>1, <2>1
  <2>3. wire[e] \in Seq(Frames) BY <1>1
  <2>4. Numbers(Append(wire[e], frame), s) = Append(Numbers(wire[e], s), NumberOf(frame, s))
    BY <2>3, NumbersOf
  <2> QED BY <1>3, <2>2, <2>4
<1>4. CASE ~(up[e] /\ e = Peer(q))
  <2>1. wire'[e] = wire[e] BY <1>1, <1>2, <1>4 DEF Send
  <2> QED BY <1>4, <2>1
<1> QED BY <1>3, <1>4

LEMMA SendQueues ==
  ASSUME Types, QueueTypes, MuxAssumption, NEW q \in Ends, NEW frame \in Frames, Send(q, frame),
         frame.kind = "DATA" => frame.n # 0, UNCHANGED <<chans, up, cur>>
  PROVE  QueueTypes'
<1>1. wire \in [Ends -> Seq(Frames)] /\ Peer(q) \in Ends BY Peers DEF Types
<1>2. ASSUME NEW e \in Ends, NEW i \in 1..Len(wire'[e]), wire'[e][i].kind = "DATA"
      PROVE  wire'[e][i].n # 0
  <2>1. CASE wire'[e] = wire[e] BY <2>1, <1>2 DEF QueueTypes
  <2>2. CASE wire'[e] # wire[e]
    <3>1. wire'[e] = Append(wire[e], frame) BY <1>1, <2>2 DEF Send
    <3>2. wire[e] \in Seq(Frames) BY <1>1
    <3>3. /\ Len(wire'[e]) = Len(wire[e]) + 1 /\ wire'[e][Len(wire[e]) + 1] = frame
          /\ \A j \in 1..Len(wire[e]) : wire'[e][j] = wire[e][j] /\ Len(wire[e]) \in Nat
      BY <3>1, <3>2, AppendProperties, LenProperties
    <3>4. Len(wire[e]) \in Nat BY <3>2, LenProperties
    <3>5. i = Len(wire[e]) + 1 \/ i \in 1..Len(wire[e]) BY <3>3, <3>4
    <3> QED BY <1>2, <3>3, <3>5 DEF QueueTypes
  <2> QED BY <2>1, <2>2
<1> QED BY <1>2 DEF QueueTypes, chans

LEMMA WriteOrder ==
  ASSUME OrderInv, MuxAssumption, NEW h \in Handles, Write(h)
  PROVE  QueueTypes' /\ PipeInv'
<1> DEFINE q == h[1]
           k == h[2]
           frame == Frame(k, "DATA", sent[<<q, k>>] + 1)
<1>1. Types /\ QueueTypes /\ q \in Ends /\ k \in Streams BY HandleParts DEF OrderInv, IInv
<1>2. sent[<<q, k>>] \in 0..MaxWrites /\ sent[<<q, k>>] + 1 \in 0..MaxWrites
  <2>1. sent[<<q, k>>] \in 0..MaxWrites BY <1>1 DEF Types
  <2>2. sent[<<q, k>>] < MaxWrites \/ sent[<<q, k>>] < MaxAnswers BY DEF Write
  <2> QED BY <2>1, <2>2, Bounds
<1>3. frame \in Frames /\ frame.kind = "DATA" /\ frame.n = sent[<<q, k>>] + 1 /\ frame.id = k
  BY <1>1, <1>2 DEF Frame, Frames
<1>4. Send(q, frame) /\ UNCHANGED <<chans, up, cur, reg, made>>
  BY DEF Write
<1>5. /\ sent'[<<q, k>>] = sent[<<q, k>>] + 1
      /\ \A z \in Ends \X Streams : z # <<q, k>> => sent'[z] = sent[z]
  BY <1>1, <1>2 DEF Write, Types
<1> HIDE DEF frame, q, k
<1>6. QueueTypes' BY <1>1, <1>2, <1>3, <1>4, SendQueues, Bounds
<1>7. ASSUME NEW e \in Ends, NEW s \in Streams, NEW b \in Nat, NEW t \in Nat, Pipe(e, s, b, t)
      PROVE  Pipe(e, s, b, t)'
  <2> DEFINE top == sent[<<Peer(e), s>>]
             num == Numbers(wire[e], s)
  <2>1. Numbers(wire'[e], s) = IF up[e] /\ e = Peer(q) THEN Append(num, NumberOf(frame, s)) ELSE num
    BY <1>1, <1>3, <1>4, SendNumbers
  <2>2. HandData(e, s)' <=> HandData(e, s) BY <1>4 DEF HandData, First
  <2>3. wire[e] \in Seq(Frames) /\ num \in Seq(Nat) BY <1>1, NumbersOf DEF Types
  <2>4. top \in Nat
    <3>1. <<Peer(e), s>> \in Ends \X Streams BY FirstHandle
    <3>2. sent[<<Peer(e), s>>] \in 0..MaxWrites BY <1>1, <3>1 DEF Types
    <3> QED BY <3>2, Bounds
  <2>5. CASE Peer(e) = q /\ s = k
    <3>1. e = Peer(q) BY <2>5, Peers
    <3>2. NumberOf(frame, s) = top + 1 BY <1>2, <1>3, <2>5 DEF NumberOf
    <3>3. sent'[<<Peer(e), s>>] = top + 1 BY <1>5, <2>5
    <3>4. t <= top /\ (up[e] => InOrder(num, t, top)) BY <1>7 DEF Pipe
    <3>5. up[e] => InOrder(Append(num, top + 1), t, top + 1)
      BY <2>3, <2>4, <3>4, OrderAppend
    <3>6. up'[e] => InOrder(Numbers(wire'[e], s), t, top + 1)
      BY <1>4, <2>1, <3>1, <3>2, <3>5
    <3>7. t <= top + 1 BY <2>4, <3>4
    <3> HIDE DEF num, top
    <3> QED BY <1>4, <1>7, <2>2, <3>3, <3>6, <3>7 DEF Pipe, chans, First
  <2>6. CASE ~(Peer(e) = q /\ s = k)
    <3>1. sent'[<<Peer(e), s>>] = top BY <1>5, <2>6, FirstHandle
    <3>2. e = Peer(q) => Peer(e) = q BY <1>1, Peers
    <3>3. up[e] /\ e = Peer(q) => NumberOf(frame, s) = 0 BY <1>3, <2>6, <3>2 DEF NumberOf
    <3>4. t <= top /\ (up[e] => InOrder(num, t, top)) BY <1>7 DEF Pipe
    <3>5. up[e] => InOrder(Append(num, 0), t, top)
      BY <2>3, <2>4, <3>4, OrderAppend
    <3>6. up'[e] => InOrder(Numbers(wire'[e], s), t, top)
      BY <1>4, <2>1, <3>3, <3>4, <3>5
    <3> HIDE DEF num, top
    <3> QED BY <1>4, <1>7, <2>2, <3>1, <3>6, <3>4 DEF Pipe, chans, First
  <2> QED BY <2>5, <2>6
<1> QED BY <1>6, <1>7 DEF OrderInv, PipeInv

LEMMA CloseOrder ==
  ASSUME OrderInv, MuxAssumption, NEW h \in Handles, Close(h) \/ Reset(h)
  PROVE  QueueTypes' /\ PipeInv'
<1> DEFINE q == h[1]
           k == h[2]
<1>1. Types /\ QueueTypes /\ q \in Ends /\ k \in Streams BY HandleParts DEF OrderInv, IInv
<1>2. PICK frame \in Frames : /\ frame.kind # "DATA"
                              /\ Send(q, frame) \/ UNCHANGED wire
  <2>1. /\ Frame(k, "FIN", 0) \in Frames /\ Frame(k, "FIN", 0).kind # "DATA"
        /\ Frame(k, "RST", 0) \in Frames /\ Frame(k, "RST", 0).kind # "DATA"
    BY <1>1, Bounds DEF Frame, Frames
  <2> QED BY <2>1 DEF Close, Reset
<1>3. UNCHANGED <<chans, up, cur, made, sent>> /\ Forget(q, k)
  BY DEF Close, Reset
<1> HIDE DEF q, k
<1>4. QueueTypes'
  <2>1. CASE Send(q, frame) BY <1>1, <1>2, <1>3, <2>1, SendQueues
  <2>2. CASE UNCHANGED wire BY <1>1, <1>3, <2>2 DEF QueueTypes, chans
  <2> QED BY <1>2, <2>1, <2>2
<1>5. \A z \in Ends \X Streams : reg'[z] \in {0, reg[z]} BY <1>1, <1>3 DEF Forget, Types
<1>6. ASSUME NEW e \in Ends, NEW s \in Streams, NEW b \in Nat, NEW t \in Nat, Pipe(e, s, b, t)
      PROVE  Pipe(e, s, b, t)'
  <2> DEFINE top == sent[<<Peer(e), s>>]
             num == Numbers(wire[e], s)
  <2>1. Numbers(wire'[e], s) \in {num, Append(num, 0)}
    <3>1. CASE Send(q, frame)
      <4>1. NumberOf(frame, s) = 0 BY <1>2 DEF NumberOf
      <4>2. Numbers(wire'[e], s) = IF up[e] /\ e = Peer(q) THEN Append(num, NumberOf(frame, s))
                                   ELSE num
        BY <1>1, <3>1, SendNumbers
      <4> QED BY <4>1, <4>2
    <3> QED BY <1>2, <3>1
  <2>2. HandData(e, s)' <=> HandData(e, s) BY <1>3 DEF HandData, First
  <2>3. num \in Seq(Nat)
    <3>1. wire[e] \in Seq(Frames) BY <1>1 DEF Types
    <3> QED BY <3>1, NumbersOf
  <2>4. top \in Nat
    <3>1. <<Peer(e), s>> \in Ends \X Streams BY FirstHandle
    <3>2. sent[<<Peer(e), s>>] \in 0..MaxWrites BY <1>1, <3>1 DEF Types
    <3> QED BY <3>2, Bounds
  <2>5. t <= top /\ (up[e] => InOrder(num, t, top)) BY <1>6 DEF Pipe
  <2>6. up[e] => InOrder(Append(num, 0), t, top) BY <2>3, <2>4, <2>5, OrderAppend
  <2>7. up'[e] => InOrder(Numbers(wire'[e], s), t, top)
    <3> HIDE DEF num, top
    <3> QED BY <1>3, <2>1, <2>5, <2>6
  <2>8. reg'[<<e, s>>] \in {0, reg[<<e, s>>]} BY <1>5, FirstHandle
  <2>9. sent'[<<Peer(e), s>>] = top BY <1>3
  <2> HIDE DEF num, top
  <2> QED BY <1>3, <1>6, <2>2, <2>7, <2>8, <2>9, <2>5 DEF Pipe, chans, First
<1> QED BY <1>4, <1>6 DEF OrderInv, PipeInv

\* Application reads: the head of the queue is the next frame, or a FIN marker.
LEMMA ReadOrder ==
  ASSUME OrderInv, MuxAssumption, NEW h \in Handles, Read(h) \/ ReadEnd(h)
  PROVE  QueueTypes' /\ PipeInv'
<1>1. Types /\ QueueTypes /\ PipeInv BY DEF OrderInv, IInv
<1>2. UNCHANGED <<wire, cur, reg, made, sent, up>> BY DEF Read, ReadEnd
<1>3. CASE ReadEnd(h)
  <2>1. ch' = ch /\ got' = got BY <1>3 DEF ReadEnd
  <2>2. QueueTypes' BY <1>1, <1>2, <2>1 DEF QueueTypes
  <2>3. ASSUME NEW e \in Ends, NEW s \in Streams, NEW b \in Nat, NEW t \in Nat, Pipe(e, s, b, t)
        PROVE  Pipe(e, s, b, t)'
    <3>1. HandData(e, s)' <=> HandData(e, s) BY <1>2 DEF HandData, First
    <3> QED BY <1>2, <2>1, <2>3, <3>1, PipeStays
  <2> QED BY <1>1, <2>2, <2>3 DEF PipeInv
<1>4. CASE Read(h)
  <2>1. ch[h] \in Seq(Nat) /\ ch[h] # <<>> /\ got[h] \in Seq(Nat) BY <1>1, <1>4 DEF QueueTypes, Read
  <2>2. Head(ch[h]) \in Nat /\ Tail(ch[h]) \in Seq(Nat) BY <2>1, HeadTailProperties
  <2>3. ch' = [ch EXCEPT ![h] = Tail(ch[h])] BY <1>4 DEF Read
  <2>4. IF Head(ch[h]) = 0 THEN got' = got ELSE got' = [got EXCEPT ![h] = Append(got[h], Head(ch[h]))]
    BY <1>4 DEF Read
  <2>5. /\ ch' \in [Handles -> Seq(Nat)] /\ ch'[h] = Tail(ch[h])
        /\ \A k \in Handles : k # h => ch'[k] = ch[k]
    BY <1>1, <2>2, <2>3, Updated DEF QueueTypes
  <2>6. Append(got[h], Head(ch[h])) \in Seq(Nat) BY <2>1, <2>2
  <2>7. /\ got' \in [Handles -> Seq(Nat)]
        /\ got'[h] = IF Head(ch[h]) = 0 THEN got[h] ELSE Append(got[h], Head(ch[h]))
        /\ \A k \in Handles : k # h => got'[k] = got[k]
    <3>1. got \in [Handles -> Seq(Nat)] BY <1>1 DEF QueueTypes
    <3>2. CASE Head(ch[h]) = 0 BY <2>4, <3>1, <3>2
    <3>3. CASE Head(ch[h]) # 0
      <4>1. got' = [got EXCEPT ![h] = Append(got[h], Head(ch[h]))] BY <2>4, <3>3
      <4> QED BY <2>6, <3>1, <3>3, <4>1, Updated
    <3> QED BY <3>2, <3>3
  <2>8. QueueTypes' BY <1>1, <1>2, <2>5, <2>7 DEF QueueTypes
  <2>9. ASSUME NEW e \in Ends, NEW s \in Streams, NEW b \in Nat, NEW t \in Nat, Pipe(e, s, b, t)
        PROVE  Pipe(e, s, b, t)'
    <3>1. HandData(e, s)' <=> HandData(e, s) BY <1>2 DEF HandData, First
    <3>2. CASE First(e, s) # h
      <4>1. ch'[First(e, s)] = ch[First(e, s)] /\ got'[First(e, s)] = got[First(e, s)]
        BY <2>5, <2>7, <3>2, FirstHandle
      <4> QED BY <1>2, <2>9, <3>1, <4>1, PipeStays
    <3>3. CASE First(e, s) = h
      <4> DEFINE a == Len(got[h])
                 x == Head(ch[h])
      <4>1. a \in Nat /\ a <= b /\ InOrder(ch[h], a, b) /\ got[h] = [i \in 1..a |-> i]
        BY <2>1, <2>9, <3>3, LenProperties DEF Pipe
      <4>2. IF x = 0 THEN InOrder(Tail(ch[h]), a, b)
            ELSE x = a + 1 /\ a + 1 <= b /\ InOrder(Tail(ch[h]), a + 1, b)
        BY <2>1, <4>1, OrderTail
      <4>3. CASE x = 0
        <5>1. got'[h] = got[h] /\ InOrder(ch'[h], a, b) BY <4>2, <4>3, <2>5, <2>7
        <5> QED BY <1>2, <2>9, <3>1, <3>3, <5>1 DEF Pipe, First
      <4>4. CASE x # 0
        <5>1. got'[h] = Append(got[h], a + 1) /\ InOrder(ch'[h], a + 1, b) /\ a + 1 <= b
          BY <4>2, <4>4, <2>5, <2>7
        <5>2. Append(got[h], a + 1) = [i \in 1..a + 1 |-> i]
          <6>1. /\ Append(got[h], a + 1) \in Seq(Nat) /\ Len(Append(got[h], a + 1)) = a + 1
                /\ Append(got[h], a + 1)[a + 1] = a + 1
                /\ \A i \in 1..a : Append(got[h], a + 1)[i] = got[h][i]
            BY <2>1, <4>1, AppendProperties
          <6>2. \A i \in 1..a + 1 : i = a + 1 \/ i \in 1..a BY <4>1
          <6>3. \A i \in 1..a + 1 : Append(got[h], a + 1)[i] = i BY <4>1, <6>1, <6>2
          <6>4. Append(got[h], a + 1) = [i \in 1..a + 1 |-> Append(got[h], a + 1)[i]]
            BY <6>1, LenProperties
          <6> QED BY <6>3, <6>4
        <5>3. Len(got'[h]) = a + 1 BY <2>1, <4>1, <5>1, AppendProperties
        <5>4. got'[h] = [i \in 1..Len(got'[h]) |-> i] BY <5>1, <5>2, <5>3
        <5> HIDE DEF a, x
        <5> QED BY <1>2, <2>9, <3>1, <3>3, <5>1, <5>3, <5>4 DEF Pipe, First
      <4> QED BY <4>3, <4>4
    <3> QED BY <3>2, <3>3
  <2> QED BY <1>1, <2>8, <2>9 DEF PipeInv
<1> QED BY <1>3, <1>4

LEMMA SessionOrder ==
  ASSUME OrderInv, MuxAssumption, NEW d \in Ends, Accept(d) \/ CloseSession(d)
  PROVE  QueueTypes' /\ PipeInv'
<1>1. Types /\ QueueTypes /\ PipeInv BY DEF OrderInv, IInv
<1>2. UNCHANGED <<ch, got, cur, reg, made, sent>> BY DEF Accept, CloseSession, chans
<1>3. CASE Accept(d)
  <2>1. UNCHANGED <<wire, up>> BY <1>3 DEF Accept
  <2>2. QueueTypes' BY <1>1, <1>2, <2>1 DEF QueueTypes
  <2>3. ASSUME NEW e \in Ends, NEW s \in Streams, NEW b \in Nat, NEW t \in Nat, Pipe(e, s, b, t)
        PROVE  Pipe(e, s, b, t)'
    <3>1. HandData(e, s)' <=> HandData(e, s) BY <1>2 DEF HandData, First
    <3> QED BY <1>2, <2>1, <2>3, <3>1, PipeStays
  <2> QED BY <1>1, <2>2, <2>3 DEF PipeInv
<1>4. CASE CloseSession(d)
  <2>1. /\ up' \in [Ends -> BOOLEAN] /\ ~up'[d] /\ wire'[d] = <<>>
        /\ \A e \in Ends : e # d => up'[e] = up[e] /\ wire'[e] = wire[e]
    BY <1>1, <1>4 DEF CloseSession, QueueTypes, Types
  <2>2. QueueTypes'
    <3>1. \A e \in Ends : \A i \in 1..Len(wire'[e]) : wire'[e][i].kind = "DATA" => wire'[e][i].n # 0
      <4> SUFFICES ASSUME NEW e \in Ends, NEW i \in 1..Len(wire'[e])
                   PROVE  wire'[e][i].kind = "DATA" => wire'[e][i].n # 0
        OBVIOUS
      <4>1. e # d BY <2>1
      <4> QED BY <1>1, <2>1, <4>1 DEF QueueTypes
    <3> QED BY <1>1, <1>2, <2>1, <3>1 DEF QueueTypes
  <2>3. ASSUME NEW e \in Ends, NEW s \in Streams, NEW b \in Nat, NEW t \in Nat, Pipe(e, s, b, t)
        PROVE  Pipe(e, s, b, t)'
    <3>1. HandData(e, s)' <=> HandData(e, s) BY <1>2 DEF HandData, First
    <3> QED BY <1>2, <2>1, <2>3, <3>1, PipeStays
  <2> QED BY <1>1, <2>2, <2>3 DEF PipeInv
<1> QED BY <1>3, <1>4

LEMMA OpenOrder ==
  ASSUME OrderInv, MuxAssumption, NEW d \in Ends, NEW k \in Streams, Open(d, k)
  PROVE  QueueTypes' /\ PipeInv'
<1>1. Types /\ QueueTypes /\ PipeInv BY DEF OrderInv, IInv
<1>2. UNCHANGED <<ch, got, cur, wire, up, sent>> BY DEF Open, chans
<1>3. QueueTypes' BY <1>1, <1>2 DEF QueueTypes
<1>4. /\ made[<<d, k>>] = 0
      /\ \A z \in Ends \X Streams : z # <<d, k>> => made'[z] = made[z] /\ reg'[z] = reg[z]
  BY <1>1 DEF Open, Types
<1>5. ASSUME NEW e \in Ends, NEW s \in Streams, NEW b \in Nat, NEW t \in Nat, Pipe(e, s, b, t)
      PROVE  Pipe(e, s, b, t)'
  <2>1. HandData(e, s)' <=> HandData(e, s) BY <1>2 DEF HandData, First
  <2>2. reg'[<<e, s>>] = 1 \/ made'[<<e, s>>] = 0 => reg[<<e, s>>] = 1 \/ made[<<e, s>>] = 0
    BY <1>4, FirstHandle
  <2> QED BY <1>2, <1>5, <2>1, <2>2, PipeStays
<1> QED BY <1>1, <1>3, <1>5 DEF PipeInv

LEMMA ReadFrameOrder ==
  ASSUME OrderInv, MuxAssumption, NEW d \in Ends, ReadFrame(d)
  PROVE  QueueTypes' /\ PipeInv'
<1> DEFINE f == Head(wire[d])
           k == f.id
           known == reg[<<d, k>>] # 0
           g == IF known THEN reg[<<d, k>>] ELSE made[<<d, k>>] + 1
           taken == [frame |-> f, to |-> <<d, k, g>>, fresh |-> ~known]
<1>1. Types /\ Known /\ QueueTypes /\ PipeInv BY DEF OrderInv, IInv
<1>2. UNCHANGED <<ch, got, up, sent>> /\ up[d] /\ cur[d] = <<>> /\ wire[d] # <<>>
  BY DEF ReadFrame, chans
<1>3. wire[d] \in Seq(Frames) BY <1>1 DEF Types
<1>4. f \in Frames /\ k \in Streams /\ f = wire[d][1] /\ Len(wire[d]) \in Nat \ {0}
      /\ Tail(wire[d]) \in Seq(Frames) /\ Len(Tail(wire[d])) = Len(wire[d]) - 1
      /\ \A i \in 1..Len(wire[d]) - 1 : Tail(wire[d])[i] = wire[d][i + 1]
  <2>1. f \in Frames BY <1>2, <1>3, HeadTailProperties
  <2> QED BY <1>2, <1>3, <2>1, HeadTailProperties, LenProperties, EmptySeq DEF Frames
<1>5. wire'[d] = Tail(wire[d]) /\ \A e \in Ends : e # d => wire'[e] = wire[e]
  BY <1>1 DEF ReadFrame, Types
<1>6. f.kind = "DATA" => f.n # 0
  <2>1. 1 \in 1..Len(wire[d]) BY <1>4
  <2>2. wire[d][1].kind = "DATA" => wire[d][1].n # 0 BY <1>1, <2>1 DEF QueueTypes
  <2> QED BY <1>4, <2>2
<1>7. <<d, k>> \in Ends \X Streams /\ reg[<<d, k>>] \in 0..MaxObjects
      /\ made[<<d, k>>] \in 0..MaxObjects /\ reg[<<d, k>>] <= made[<<d, k>>]
  BY <1>1, <1>4 DEF Types, Known
<1>9. \/ f.kind # "DATA" /\ UNCHANGED <<cur, reg, made>>
      \/ /\ known \/ f.kind = "DATA"
         /\ g \in 1..MaxObjects
         /\ cur'[d] = <<taken>> /\ (\A e \in Ends : e # d => cur'[e] = cur[e])
         /\ reg'[<<d, k>>] = g /\ made'[<<d, k>>] = IF known THEN made[<<d, k>>] ELSE g
         /\ \A z \in Ends \X Streams : z # <<d, k>> => reg'[z] = reg[z] /\ made'[z] = made[z]
  <2>1. CASE ~known /\ f.kind # "DATA" BY <2>1 DEF ReadFrame
  <2>2. CASE known \/ f.kind = "DATA"
    <3>1. /\ cur' = [cur EXCEPT ![d] = <<taken>>] /\ reg' = [reg EXCEPT ![<<d, k>>] = g]
          /\ made' = [made EXCEPT ![<<d, k>>] = IF known THEN made[<<d, k>>] ELSE g]
          /\ f.kind = "DATA" => g <= MaxObjects
      BY <2>2 DEF ReadFrame
    <3>2. g \in 1..MaxObjects BY <1>7, <2>2, <3>1, Bounds
    <3> HIDE DEF taken, g, known
    <3> QED BY <1>1, <1>7, <2>2, <3>1, <3>2 DEF Types
  <2> QED BY <2>1, <2>2
<1>10. g \in 1..MaxObjects => taken \in Hands /\ <<taken>>[1] = taken /\ <<taken>> # <<>>
  BY <1>4, <1>7 DEF Hands, Handles
<1>11. taken.frame = f /\ taken.to = <<d, k, g>> OBVIOUS
<1> HIDE DEF taken
<1>12. QueueTypes'
  <2>1. \A e \in Ends : cur'[e] # <<>> => cur'[e] = <<cur'[e][1]>> /\ cur'[e][1] \in Hands
    BY <1>1, <1>9, <1>10 DEF QueueTypes
  <2>2. ASSUME NEW e \in Ends, NEW i \in 1..Len(wire'[e])
        PROVE  wire'[e][i].kind = "DATA" => wire'[e][i].n # 0
    <3>1. CASE e = d
      <4> HIDE DEF f, k, g, known
      <4>0. wire'[e] = Tail(wire[d]) /\ Len(wire[d]) \in Nat BY <1>4, <1>5, <3>1
      <4>1. i \in 1..Len(wire[d]) - 1 BY <1>4, <4>0
      <4>2. wire'[e][i] = wire[d][i + 1] BY <1>4, <4>0, <4>1
      <4>3. i + 1 \in 1..Len(wire[d]) BY <4>0, <4>1
      <4> QED BY <1>1, <4>2, <4>3 DEF QueueTypes
    <3>2. CASE e # d BY <1>1, <1>5, <3>2 DEF QueueTypes
    <3> QED BY <3>1, <3>2
  <2> QED BY <1>1, <1>2, <2>1, <2>2 DEF QueueTypes
<1>13. ASSUME NEW e \in Ends, NEW s \in Streams, NEW b \in Nat, NEW t \in Nat, Pipe(e, s, b, t), e # d
       PROVE  Pipe(e, s, b, t)'
  <2>1. <<e, s>> # <<d, k>> /\ <<e, s>> \in Ends \X Streams BY <1>13
  <2>2. cur'[e] = cur[e] /\ wire'[e] = wire[e] BY <1>5, <1>9, <1>13
  <2>3. reg'[<<e, s>>] = reg[<<e, s>>] /\ made'[<<e, s>>] = made[<<e, s>>] BY <1>9, <2>1
  <2>4. HandData(e, s)' <=> HandData(e, s) BY <2>2 DEF HandData, First
  <2> QED BY <1>2, <1>13, <2>2, <2>3, <2>4, PipeStays
<1>14. ASSUME NEW s \in Streams, NEW b \in Nat, NEW t \in Nat, Pipe(d, s, b, t)
       PROVE  \E u \in Nat : Pipe(d, s, b, u)'
  <2> DEFINE top == sent[<<Peer(d), s>>]
             num == Numbers(wire[d], s)
             x == NumberOf(f, s)
  <2>1. ~HandData(d, s) BY <1>2 DEF HandData
  <2>2. b <= t /\ t <= top /\ InOrder(num, t, top)
        /\ (reg[<<d, s>>] = 1 \/ made[<<d, s>>] = 0 => t = b)
    BY <1>2, <1>14, <2>1 DEF Pipe
  <2>3. top \in Nat
    <3>1. <<Peer(d), s>> \in Ends \X Streams BY FirstHandle
    <3>2. sent[<<Peer(d), s>>] \in 0..MaxWrites BY <1>1, <3>1 DEF Types
    <3> QED BY <3>2, Bounds
  <2>4. num \in Seq(Nat) /\ num # <<>> /\ Head(num) = x /\ Numbers(wire'[d], s) = Tail(num)
    BY <1>2, <1>3, <1>5, NumbersOf
  <2>5. IF x = 0 THEN InOrder(Tail(num), t, top)
        ELSE x = t + 1 /\ t + 1 <= top /\ InOrder(Tail(num), t + 1, top)
    <3> HIDE DEF num, x, top
    <3> QED BY <2>2, <2>3, <2>4, OrderTail
  <2>6. x = 0 <=> f.id # s \/ f.kind # "DATA" BY <1>6 DEF NumberOf
  <2>7. CASE x = 0
    <3>1. ~HandData(d, s)'
      <4> SUFFICES ASSUME cur'[d] # <<>>, cur'[d][1].to = First(d, s), cur'[d][1].frame.kind = "DATA"
                   PROVE  FALSE
        BY DEF HandData, First
      <4>1. cur'[d] = <<taken>> BY <1>2, <1>9
      <4>2. f.kind = "DATA" /\ <<d, k, g>> = <<d, s, 1>> BY <4>1, <1>11 DEF First
      <4> QED BY <4>2, <2>6, <2>7
    <3>2. reg'[<<d, s>>] = 1 \/ made'[<<d, s>>] = 0 => reg[<<d, s>>] = 1 \/ made[<<d, s>>] = 0
      <4>1. CASE s = k
        <5>1. f.kind # "DATA" BY <2>6, <2>7, <4>1
        <5> QED BY <1>9, <4>1, <5>1
      <4>2. CASE s # k
        <5>1. <<d, s>> # <<d, k>> /\ <<d, s>> \in Ends \X Streams BY <4>2
        <5> QED BY <1>9, <5>1
      <4> QED BY <4>1, <4>2
    <3>3. InOrder(Numbers(wire'[d], s), t, top) BY <2>4, <2>5, <2>7
    <3>4. sent'[<<Peer(d), s>>] = top BY <1>2
    <3> HIDE DEF num, x, top
    <3> QED BY <1>2, <1>14, <2>1, <2>2, <3>1, <3>2, <3>3, <3>4 DEF Pipe, First
  <2>8. CASE x # 0
    <3>1. f.id = s /\ f.kind = "DATA" /\ f.n = t + 1 /\ t + 1 <= top
          /\ InOrder(Numbers(wire'[d], s), t + 1, top)
      BY <2>4, <2>5, <2>6, <2>8 DEF NumberOf
    <3>2. /\ cur'[d] = <<taken>> /\ reg'[<<d, s>>] = g
          /\ made'[<<d, s>>] = IF known THEN made[<<d, s>>] ELSE g
      BY <1>9, <3>1
    <3>3. HandData(d, s)' <=> g = 1
      BY <1>11, <3>1, <3>2 DEF HandData, First
    <3>4. cur'[d][1].frame.n = t + 1 BY <1>11, <3>1, <3>2
    <3>5. g = 1 => t = b BY <1>7, <2>2, <3>1
    <3>6. g # 1 => reg'[<<d, s>>] # 1 /\ made'[<<d, s>>] # 0
      BY <1>7, <3>1, <3>2, Bounds
    <3>7. sent'[<<Peer(d), s>>] = top BY <1>2
    <3>8. t + 1 \in Nat OBVIOUS
    <3> HIDE DEF num, x, top, g, f, k
    <3>9. Pipe(d, s, b, t + 1)'
      BY <1>2, <1>14, <2>1, <2>2, <3>1, <3>3, <3>4, <3>5, <3>6, <3>7 DEF Pipe, First
    <3> QED BY <3>8, <3>9
  <2> QED BY <2>7, <2>8, <1>14
<1> HIDE DEF f, k, known, g
<1>15. PipeInv'
  <2> SUFFICES ASSUME NEW e \in Ends, NEW s \in Streams PROVE (\E b, t \in Nat : Pipe(e, s, b, t))'
    BY DEF PipeInv
  <2>1. PICK b, t \in Nat : Pipe(e, s, b, t) BY <1>1 DEF PipeInv
  <2>2. CASE e = d BY <2>1, <2>2, <1>14
  <2>3. CASE e # d BY <2>1, <2>3, <1>13
  <2> QED BY <2>2, <2>3
<1> QED BY <1>12, <1>15

\* Dispatching: what was in the read loop's hand joins the queue it is for.
LEMMA DispatchOrder ==
  ASSUME OrderInv, MuxAssumption, NEW d \in Ends,
         OfferStream(d) \/ DispatchData(d) \/ DispatchFin(d) \/ DispatchRst(d)
  PROVE  QueueTypes' /\ PipeInv'
<1> DEFINE c == cur[d][1]
           h == c.to
<1>1. Types /\ InHand /\ QueueTypes /\ PipeInv BY DEF OrderInv, IInv
<1>2. UNCHANGED <<wire, got, up, sent, made>> /\ cur[d] # <<>>
  BY DEF OfferStream, DispatchData, DispatchFin, DispatchRst, Deliver, chans
<1>3. c \in Hands /\ h \in Handles /\ c.frame \in Frames /\ ~shut[h] /\ h[1] = d
  <2>1. c \in Hands BY <1>1, <1>2 DEF QueueTypes
  <2>2. PICK s \in Streams, g \in 1..MaxObjects : h = <<d, s, g>> /\ ~shut[<<d, s, g>>]
    BY <1>1, <1>2 DEF InHand
  <2> QED BY <2>1, <2>2 DEF Hands
<1>4. \A e \in Ends : e # d => cur'[e] = cur[e]
  <2>1. \E x : cur' = [cur EXCEPT ![d] = x]
    <3>1. CASE OfferStream(d) BY <3>1 DEF OfferStream
    <3>2. CASE Deliver(d) BY <3>2 DEF Deliver
    <3> QED BY <3>1, <3>2 DEF DispatchData, DispatchFin, DispatchRst
  <2> QED BY <1>1, <2>1 DEF Types
<1>5. \/ cur'[d] = <<>>
      \/ OfferStream(d) /\ up[d] /\ cur'[d] = <<[frame |-> c.frame, to |-> h, fresh |-> FALSE]>>
  <2>1. CASE Deliver(d)
    BY <1>1, <2>1 DEF Deliver, Types
  <2>2. CASE OfferStream(d) /\ ~up[d]
    BY <1>1, <2>2 DEF OfferStream, Types
  <2>3. CASE OfferStream(d) /\ up[d]
    <3>1. cur' = [cur EXCEPT ![d] = <<[frame |-> c.frame, to |-> h, fresh |-> FALSE]>>]
      BY <2>3 DEF OfferStream
    <3> QED BY <1>1, <2>3, <3>1 DEF Types
  <2> QED BY <2>1, <2>2, <2>3 DEF DispatchData, DispatchFin, DispatchRst
<1>6. \A z \in Ends \X Streams : reg'[z] \in {0, reg[z]}
  BY <1>1 DEF OfferStream, DispatchData, DispatchFin, DispatchRst, Forget, Types
<1>7. \/ ~DispatchData(d) /\ UNCHANGED ch
      \/ ~DispatchData(d) /\ c.frame.kind # "DATA" /\ ch' = [ch EXCEPT ![h] = Append(ch[h], 0)]
      \/ DispatchData(d) /\ c.frame.kind = "DATA" /\ ch' = [ch EXCEPT ![h] = Append(ch[h], c.frame.n)]
  BY <1>3 DEF OfferStream, DispatchData, DispatchFin, DispatchRst, Misused, Holds, chans
<1>8. DispatchFin(d) \/ DispatchRst(d) => c.frame.kind # "DATA"
  BY DEF DispatchFin, DispatchRst, Holds
<1>9. OfferStream(d) /\ cur'[d] = <<>> => ~up[d]
  <2> SUFFICES ASSUME OfferStream(d), up[d] PROVE cur'[d] # <<>> OBVIOUS
  <2>1. cur' = [cur EXCEPT ![d] = <<[frame |-> c.frame, to |-> h, fresh |-> FALSE]>>]
    BY DEF OfferStream
  <2>2. cur'[d] = <<[frame |-> c.frame, to |-> h, fresh |-> FALSE]>> BY <1>1, <2>1 DEF Types
  <2> QED BY <2>2
<1>10. ch[h] \in Seq(Nat) /\ c.frame.n \in Nat
  <2>1. c.frame.n \in 0..MaxWrites BY <1>3 DEF Frames
  <2> QED BY <1>1, <1>3, <2>1, Bounds DEF QueueTypes
<1> HIDE DEF c, h
<1>11. /\ ch' \in [Handles -> Seq(Nat)] /\ \A k \in Handles : k # h => ch'[k] = ch[k]
       /\ ch'[h] = ch[h] \/ ch'[h] = Append(ch[h], 0) \/ ch'[h] = Append(ch[h], c.frame.n)
       /\ DispatchData(d) => ch'[h] = Append(ch[h], c.frame.n) /\ c.frame.kind = "DATA"
       /\ ~DispatchData(d) => ch'[h] \in {ch[h], Append(ch[h], 0)}
  <2>1. ch \in [Handles -> Seq(Nat)] BY <1>1 DEF QueueTypes
  <2>2. Append(ch[h], 0) \in Seq(Nat) /\ Append(ch[h], c.frame.n) \in Seq(Nat) BY <1>10
  <2>3. CASE UNCHANGED ch /\ ~DispatchData(d) BY <2>1, <2>3
  <2>4. CASE ch' = [ch EXCEPT ![h] = Append(ch[h], 0)] /\ ~DispatchData(d)
    BY <1>3, <2>1, <2>2, <2>4, Updated
  <2>5. CASE ch' = [ch EXCEPT ![h] = Append(ch[h], c.frame.n)] /\ DispatchData(d) /\ c.frame.kind = "DATA"
    BY <1>3, <2>1, <2>2, <2>5, Updated
  <2> QED BY <1>7, <2>3, <2>4, <2>5
<1>12. QueueTypes'
  <2>1. [frame |-> c.frame, to |-> h, fresh |-> FALSE] \in Hands BY <1>3 DEF Hands
  <2>2. \A e \in Ends : cur'[e] # <<>> => cur'[e] = <<cur'[e][1]>> /\ cur'[e][1] \in Hands
    BY <1>1, <1>4, <1>5, <2>1 DEF QueueTypes
  <2> QED BY <1>1, <1>2, <1>11, <2>2 DEF QueueTypes
<1>13. ASSUME NEW e \in Ends, NEW s \in Streams, NEW b \in Nat, NEW t \in Nat, Pipe(e, s, b, t), e # d
       PROVE  Pipe(e, s, b, t)'
  <2>0. First(e, s)[1] = e BY DEF First
  <2>1. First(e, s) # h /\ First(e, s) \in Handles /\ <<e, s>> \in Ends \X Streams
    BY <1>3, <1>13, <2>0, FirstHandle
  <2>2. HandData(e, s)' <=> HandData(e, s) BY <1>4, <1>13 DEF HandData, First
  <2>3. reg'[<<e, s>>] \in {0, reg[<<e, s>>]} BY <1>6, <2>1
  <2>4. ch'[First(e, s)] = ch[First(e, s)] BY <1>11, <2>1
  <2>5. cur'[e] = cur[e] BY <1>4, <1>13
  <2>6. reg'[<<e, s>>] = 1 \/ made'[<<e, s>>] = 0 => reg[<<e, s>>] = 1 \/ made[<<e, s>>] = 0
    BY <1>2, <2>3
  <2> QED BY <1>2, <1>13, <2>2, <2>4, <2>5, <2>6, PipeStays
<1>14. ASSUME NEW s \in Streams, NEW b \in Nat, NEW t \in Nat, Pipe(d, s, b, t)
       PROVE  \E m \in Nat : Pipe(d, s, m, t)'
  <2>1. First(d, s) \in Handles /\ <<d, s>> \in Ends \X Streams BY FirstHandle
  <2>2. reg'[<<d, s>>] \in {0, reg[<<d, s>>]} BY <1>6, <2>1
  <2>3. HandData(d, s) <=> First(d, s) = h /\ c.frame.kind = "DATA"
    BY <1>2 DEF HandData, c, h
  <2>4. CASE cur'[d] # <<>>
    <3>1. cur'[d][1].frame = c.frame /\ cur'[d][1].to = h /\ OfferStream(d) /\ ~DispatchData(d)
      <4>1. OfferStream(d) /\ cur'[d] = <<[frame |-> c.frame, to |-> h, fresh |-> FALSE]>>
        BY <1>5, <2>4
      <4>2. cur[d][1].fresh BY <4>1 DEF OfferStream
      <4>3. ~DispatchData(d) BY <4>2 DEF DispatchData, Deliver
      <4>4. cur'[d][1] = [frame |-> c.frame, to |-> h, fresh |-> FALSE] BY <4>1
      <4> QED BY <4>1, <4>3, <4>4
    <3>2. HandData(d, s)' <=> HandData(d, s) BY <2>3, <2>4, <3>1 DEF HandData, First
    <3>3. ch' = ch BY <3>1 DEF OfferStream, chans
    <3>4. cur'[d][1].frame.n = cur[d][1].frame.n BY <3>1 DEF c
    <3>5. Pipe(d, s, b, t)' BY <1>2, <1>14, <2>2, <3>2, <3>3, <3>4 DEF Pipe, First
    <3> QED BY <3>5
  <2>5. CASE cur'[d] = <<>>
    <3>1. ~HandData(d, s)' BY <2>5 DEF HandData
    <3> DEFINE a == Len(got[First(d, s)])
    <3>2. a \in Nat /\ a <= b /\ InOrder(ch[First(d, s)], a, b) /\ ch[First(d, s)] \in Seq(Nat)
      BY <1>1, <1>14, <2>1, LenProperties DEF Pipe, QueueTypes
    <3> HIDE DEF a
    <3>3. CASE HandData(d, s) /\ DispatchData(d)
      <4>1. c.frame.n = b + 1 BY <1>14, <3>3 DEF Pipe, c
      <4>2. ch'[First(d, s)] = Append(ch[First(d, s)], b + 1) BY <1>11, <2>3, <3>3, <4>1
      <4>3. InOrder(ch'[First(d, s)], a, b + 1) /\ a <= b + 1 BY <3>2, <4>2, OrderAppend
      <4>4. b + 1 \in Nat OBVIOUS
      <4>5. Pipe(d, s, b + 1, t)'
        BY <1>2, <1>14, <2>2, <3>1, <3>3, <4>3 DEF Pipe, First, a
      <4> QED BY <4>4, <4>5
    <3>4. CASE ~(HandData(d, s) /\ DispatchData(d))
      <4>1. ch'[First(d, s)] \in {ch[First(d, s)], Append(ch[First(d, s)], 0)}
        BY <1>11, <2>1, <2>3, <3>4
      <4>2. InOrder(ch'[First(d, s)], a, b)
        <5>1. InOrder(Append(ch[First(d, s)], 0), a, b) BY <3>2, OrderAppend
        <5> QED BY <3>2, <4>1, <5>1
      <4>3. HandData(d, s) => ~up[d]
        BY <1>8, <1>9, <2>3, <2>5, <3>4
      <4>4. Pipe(d, s, b, t)'
        BY <1>2, <1>14, <2>2, <3>1, <4>2, <4>3 DEF Pipe, First, a
      <4> QED BY <4>4
    <3> QED BY <3>3, <3>4
  <2> QED BY <2>4, <2>5
<1>15. PipeInv'
  <2> SUFFICES ASSUME NEW e \in Ends, NEW s \in Streams PROVE (\E b, t \in Nat : Pipe(e, s, b, t))'
    BY DEF PipeInv
  <2>1. PICK b, t \in Nat : Pipe(e, s, b, t) BY <1>1 DEF PipeInv
  <2>2. CASE e = d BY <2>1, <2>2, <1>14
  <2>3. CASE e # d BY <2>1, <2>3, <1>13
  <2> QED BY <2>2, <2>3
<1> QED BY <1>12, <1>15

LEMMA OrderStart == ASSUME MuxAssumption, Init PROVE OrderInv
<1>1. IInv BY InitHolds
<1>2. QueueTypes BY DEF Init, QueueTypes
<1>3. ASSUME NEW e \in Ends, NEW s \in Streams PROVE Pipe(e, s, 0, 0)
  <2>1. First(e, s) \in Handles /\ <<Peer(e), s>> \in Ends \X Streams BY FirstHandle
  <2>2. got[First(e, s)] = <<>> /\ ch[First(e, s)] = <<>> /\ sent[<<Peer(e), s>>] = 0
        /\ wire[e] = <<>> /\ cur[e] = <<>>
    BY <2>1 DEF Init
  <2>3. Numbers(wire[e], s) = <<>> BY <2>2 DEF Numbers
  <2>4. InOrder(<<>>, 0, 0) BY DEF InOrder
  <2>5. ~HandData(e, s) BY <2>2 DEF HandData
  <2> QED BY <2>2, <2>3, <2>4, <2>5 DEF Pipe
<1> QED BY <1>1, <1>2, <1>3 DEF OrderInv, PipeInv

LEMMA OrderStep == ASSUME MuxAssumption, OrderInv, [Next]_vars PROVE OrderInv'
<1>1. IInv' BY InvStep DEF OrderInv
<1>2. CASE UNCHANGED vars
  <2>1. UNCHANGED <<ch, got, cur, wire, up, sent, reg, made>> BY <1>2 DEF vars, chans
  <2>2. QueueTypes' BY <2>1 DEF OrderInv, QueueTypes
  <2>3. ASSUME NEW e \in Ends, NEW s \in Streams, NEW b \in Nat, NEW t \in Nat, Pipe(e, s, b, t)
        PROVE  Pipe(e, s, b, t)'
    <3>1. HandData(e, s)' <=> HandData(e, s) BY <2>1 DEF HandData, First
    <3> QED BY <2>1, <2>3, <3>1, PipeStays
  <2> QED BY <1>1, <2>2, <2>3 DEF OrderInv, PipeInv
<1>3. ASSUME NEW e \in Ends, ReadLoop(e) \/ Accept(e) \/ CloseSession(e)
      PROVE  QueueTypes' /\ PipeInv'
  BY <1>3, ReadFrameOrder, DispatchOrder, SessionOrder DEF ReadLoop
<1>4. ASSUME NEW e \in Ends, NEW s \in Streams, Open(e, s)
      PROVE  QueueTypes' /\ PipeInv'
  BY <1>4, OpenOrder
<1>5. ASSUME NEW h \in Handles, Read(h) \/ ReadEnd(h) \/ Write(h) \/ Close(h) \/ Reset(h)
      PROVE  QueueTypes' /\ PipeInv'
  BY <1>5, ReadOrder, WriteOrder, CloseOrder
<1> QED BY <1>1, <1>2, <1>3, <1>4, <1>5 DEF Next, OrderInv

\* What was read is a prefix of what was written.
LEMMA OrderGaps == ASSUME MuxAssumption, OrderInv PROVE NoGaps
<1> SUFFICES ASSUME NEW e \in Ends, NEW s \in Streams
             PROVE  /\ got[First(e, s)] = [i \in 1..Len(got[First(e, s)]) |-> i]
                    /\ Len(got[First(e, s)]) <= sent[<<Peer(e), s>>]
  BY DEF NoGaps
<1>1. PICK b, t \in Nat : Pipe(e, s, b, t) BY DEF OrderInv, PipeInv
<1>2. got[First(e, s)] \in Seq(Nat) BY FirstHandle DEF OrderInv, QueueTypes
<1>3. <<Peer(e), s>> \in Ends \X Streams BY FirstHandle
<1>4. sent[<<Peer(e), s>>] \in Nat BY <1>3, Bounds DEF OrderInv, IInv, Types
<1>5. b <= t BY <1>1 DEF Pipe
<1>6. Len(got[First(e, s)]) \in Nat BY <1>2, LenProperties
<1> QED BY <1>1, <1>4, <1>5, <1>6 DEF Pipe

\* What an application reads on a stream is a prefix of what the other end
\* wrote on it, whatever the other streams do and whoever closes, resets or
\* dies (mux.go: writeFrame, readLoop, dispatch and Stream.Read).
THEOREM ReadsAPrefix == Spec => []NoGaps
<1>1. Init => OrderInv BY OrderStart, MuxAssumption
<1>2. OrderInv /\ [Next]_vars => OrderInv' BY OrderStep, MuxAssumption
<1>3. OrderInv => NoGaps BY OrderGaps, MuxAssumption
<1> QED BY <1>1, <1>2, <1>3, PTL DEF Spec

-----------------------------------------------------------------------------

\* What became of each object: one that was made; while it is in the read
\* loop's hand nobody has it, in acceptCh it is once.
HandleTypes ==
  /\ handle \in [Handles -> {"none", "queued", "lost", "open", "closed"}]
  /\ eof \in [Handles -> BOOLEAN] /\ accept \in [Ends -> Seq(Handles)] /\ polite \in BOOLEAN

Queued ==
  \A e \in Ends : \A i \in 1..Len(accept[e]) :
    /\ accept[e][i][1] = e /\ handle[accept[e][i]] = "queued"
    /\ \A j \in 1..Len(accept[e]) : accept[e][i] = accept[e][j] => i = j

MadeFirst ==
  \A h \in Handles : handle[h] # "none" => h[3] <= made[<<h[1], h[2]>>]

FreshIsNone ==
  \A e \in Ends : cur[e] # <<>> /\ cur[e][1].fresh => handle[cur[e][1].to] = "none"

ObjectInv == HandleTypes /\ Queued /\ MadeFirst /\ FreshIsNone

NoResets ==
  /\ \A h \in Handles : ~shut[h]
  /\ \A e \in Ends : cur[e] # <<>> => cur[e][1].frame.kind # "RST"
  /\ \A e \in Ends : \A i \in 1..Len(wire[e]) : wire[e][i].kind # "RST"

Closed(e, s) == handle[First(e, s)] = "closed"

\* No frame of the stream is under way to the end.
Dry(e, s) == up[e] => \A i \in 1..Len(wire[e]) : NumberOf(wire[e][i], s) = 0

\* Behind a FIN, on the wire, in the read loop's hand or in the queue, comes
\* nothing more, for who sent it has closed the stream.
EndsLast(e, s) ==
  /\ up[e] => \A i \in 1..Len(wire[e]) :
       wire[e][i].id = s /\ wire[e][i].kind = "FIN" =>
         Closed(Peer(e), s) /\ \A j \in 1..Len(wire[e]) : i < j => NumberOf(wire[e][j], s) = 0
  /\ cur[e] # <<>> /\ cur[e][1].frame.kind = "FIN" /\ cur[e][1].to = First(e, s) =>
       Closed(Peer(e), s) /\ Dry(e, s)
  /\ \A i \in 1..Len(ch[First(e, s)]) : ch[First(e, s)][i] = 0 =>
       /\ Closed(Peer(e), s) /\ Dry(e, s) /\ ~HandData(e, s)
       /\ \A j \in 1..Len(ch[First(e, s)]) : i < j => ch[First(e, s)][j] = 0

\* The end writes no more on the stream.
Mute(e, s) ==
  \/ Closed(e, s) \/ sent[<<e, s>>] = MaxWrites
  \/ e # Opener(s) /\ (s \in OneWay \/ sent[<<e, s>>] >= sent[<<Peer(e), s>>])

\* A polite end answers what it read, closes when the other is mute and it has
\* read everything, and comes to the end of the stream when the other closed.
Courteous(e, s) ==
  /\ made[<<e, s>>] = 1 /\ reg[<<e, s>>] = 0 => Closed(e, s)
  /\ e # Opener(s) => sent[<<e, s>>] <= IF s \in OneWay THEN 0 ELSE Len(got[First(e, s)])
  /\ up[e] /\ Closed(e, s) =>
       Len(got[First(e, s)]) = sent[<<Peer(e), s>>] /\ Mute(Peer(e), s)
  /\ up[e] /\ eof[First(e, s)] =>
       Len(got[First(e, s)]) = sent[<<Peer(e), s>>] /\ Closed(Peer(e), s)

PoliteInv ==
  polite => /\ NoPhantoms /\ NoResets
            /\ \A e \in Ends, s \in Streams : Courteous(e, s) /\ EndsLast(e, s)

LEMMA Triples ==
  ASSUME NEW h \in Handles
  PROVE  /\ h = <<h[1], h[2], h[3]>> /\ h[1] \in Ends /\ h[2] \in Streams /\ h[3] \in 1..MaxObjects
         /\ <<h[1], h[2]>> \in Ends \X Streams
  BY DEF Handles

LEMMA HeldObject ==
  ASSUME IInv, QueueTypes, NEW e \in Ends, cur[e] # <<>>
  PROVE  /\ cur[e][1] \in Hands /\ cur[e][1].to \in Handles /\ cur[e][1].to[1] = e
         /\ cur[e][1].to[3] <= made[<<e, cur[e][1].to[2]>>]
         /\ cur[e][1].frame \in Frames /\ ~shut[cur[e][1].to]
<1>1. cur[e][1] \in Hands BY DEF QueueTypes
<1>2. PICK s \in Streams, g \in 1..MaxObjects :
        cur[e][1].to = <<e, s, g>> /\ g <= made[<<e, s>>] /\ ~shut[<<e, s, g>>]
  BY DEF IInv, InHand
<1> QED BY <1>1, <1>2 DEF Hands

LEMMA ObjectStart == ASSUME MuxAssumption, Init PROVE ObjectInv
  BY DEF Init, ObjectInv, HandleTypes, Queued, MadeFirst, FreshIsNone

\* One handle of which nobody waits is opened or closed.
LEMMA ObjectMoves ==
  ASSUME ObjectInv, NEW h \in Handles, NEW to \in {"lost", "open", "closed"},
         handle' = [handle EXCEPT ![h] = to], handle[h] # "queued", UNCHANGED <<accept, eof, polite>>,
         h[3] <= made'[<<h[1], h[2]>>],
         \A k \in Handles : handle[k] # "none" => made'[<<k[1], k[2]>>] = made[<<k[1], k[2]>>],
         \A e \in Ends : cur'[e] # <<>> /\ cur'[e][1].fresh =>
           cur[e] # <<>> /\ cur[e][1].fresh /\ cur'[e][1].to = cur[e][1].to /\ cur[e][1].to # h
                         /\ cur[e][1].to \in Handles
  PROVE  ObjectInv'
<1>1. /\ handle' \in [Handles -> {"none", "queued", "lost", "open", "closed"}] /\ handle'[h] = to
      /\ \A k \in Handles : k # h => handle'[k] = handle[k]
  BY DEF ObjectInv, HandleTypes
<1>2. HandleTypes' BY <1>1 DEF ObjectInv, HandleTypes
<1>3. \A e \in Ends : \A i \in 1..Len(accept[e]) : accept[e][i] \in Handles
  BY ElementOfSeq DEF ObjectInv, HandleTypes
<1>4. Queued' BY <1>1, <1>3 DEF ObjectInv, Queued
<1>5. MadeFirst' BY <1>1 DEF ObjectInv, MadeFirst
<1>6. FreshIsNone' BY <1>1 DEF ObjectInv, FreshIsNone
<1> QED BY <1>2, <1>4, <1>5, <1>6 DEF ObjectInv

\* Nothing is opened or closed.
LEMMA ObjectStays ==
  ASSUME ObjectInv, eof' \in [Handles -> BOOLEAN], UNCHANGED <<accept, handle, polite>>,
         \A h \in Handles : handle[h] # "none" => made[<<h[1], h[2]>>] <= made'[<<h[1], h[2]>>]
                                                  /\ made'[<<h[1], h[2]>>] \in Nat
                                                  /\ made[<<h[1], h[2]>>] \in Nat,
         FreshIsNone', MuxAssumption
  PROVE  ObjectInv'
<1>1. \A h \in Handles : h[3] \in Nat BY Bounds DEF Handles
<1>2. MadeFirst' BY <1>1 DEF ObjectInv, MadeFirst
<1> QED BY <1>2 DEF ObjectInv, HandleTypes, Queued

LEMMA ObjectApplications ==
  ASSUME OrderInv, ObjectInv, MuxAssumption, NEW h \in Handles,
         Read(h) \/ ReadEnd(h) \/ Write(h) \/ Close(h) \/ Reset(h)
  PROVE  ObjectInv'
<1>1. UNCHANGED <<cur, accept, made, polite>> BY DEF Read, ReadEnd, Write, Close, Reset
<1>2. \A z \in Ends \X Streams : made[z] \in Nat BY Bounds DEF OrderInv, IInv, Types
<1>3. CASE Close(h) \/ Reset(h)
  <2>1. handle[h] = "open" /\ handle' = [handle EXCEPT ![h] = "closed"] /\ UNCHANGED eof
    BY <1>3 DEF Close, Reset, chans
  <2>2. h[3] <= made'[<<h[1], h[2]>>] BY <1>1, <2>1 DEF ObjectInv, MadeFirst
  <2>3. \A e \in Ends : cur[e] # <<>> /\ cur[e][1].fresh => cur[e][1].to # h
    BY <2>1 DEF ObjectInv, FreshIsNone
  <2>4. \A e \in Ends : cur[e] # <<>> => cur[e][1].to \in Handles
    BY HeldObject DEF OrderInv
  <2> QED BY <1>1, <2>1, <2>2, <2>3, <2>4, ObjectMoves
<1>4. CASE Read(h) \/ ReadEnd(h) \/ Write(h)
  <2>1. UNCHANGED handle /\ eof' \in [Handles -> BOOLEAN]
    BY <1>4 DEF Read, ReadEnd, Write, chans, ObjectInv, HandleTypes
  <2>2. FreshIsNone' BY <1>1, <2>1 DEF ObjectInv, FreshIsNone
  <2> QED BY <1>1, <1>2, <2>1, <2>2, Triples, ObjectStays
<1> QED BY <1>3, <1>4

LEMMA ObjectOpen ==
  ASSUME OrderInv, ObjectInv, MuxAssumption, NEW e \in Ends, NEW s \in Streams, Open(e, s)
  PROVE  ObjectInv'
<1> DEFINE h == <<e, s, 1>>
<1>1. h \in Handles /\ h = First(e, s) /\ <<e, s>> \in Ends \X Streams BY FirstHandle DEF First
<1>2. /\ made[<<e, s>>] = 0 /\ made' = [made EXCEPT ![<<e, s>>] = 1]
      /\ handle' = [handle EXCEPT ![h] = "open"] /\ UNCHANGED <<cur, accept, eof, polite>>
  BY DEF Open, chans
<1>3. h[1] = e /\ h[2] = s /\ h[3] = 1 OBVIOUS
<1> HIDE DEF h
<1>4. /\ made \in [Ends \X Streams -> 0..MaxObjects] /\ made'[<<e, s>>] = 1
      /\ \A z \in Ends \X Streams : z # <<e, s>> => made'[z] = made[z]
  BY <1>1, <1>2 DEF OrderInv, IInv, Types
<1>5. \A k \in Handles : handle[k] # "none" => <<k[1], k[2]>> # <<e, s>>
  <2> SUFFICES ASSUME NEW k \in Handles, handle[k] # "none", <<k[1], k[2]>> = <<e, s>> PROVE FALSE
    OBVIOUS
  <2>1. k[3] <= 0 BY <1>2 DEF ObjectInv, MadeFirst
  <2>2. k[3] \in 1..MaxObjects BY Triples
  <2> QED BY <2>1, <2>2
<1>6. \A k \in Handles : handle[k] # "none" => made'[<<k[1], k[2]>>] = made[<<k[1], k[2]>>]
  BY <1>4, <1>5, Triples
<1>7. handle[h] = "none" BY <1>1, <1>3, <1>5
<1>8. \A f \in Ends : cur[f] # <<>> => cur[f][1].to \in Handles /\ cur[f][1].to # h
  <2> SUFFICES ASSUME NEW f \in Ends, cur[f] # <<>>, cur[f][1].to = h PROVE FALSE
    BY HeldObject DEF OrderInv
  <2>1. h[1] = f /\ h[3] <= made[<<f, h[2]>>] BY HeldObject DEF OrderInv
  <2> QED BY <1>2, <1>3, <2>1
<1>9. h[3] <= made'[<<h[1], h[2]>>] BY <1>3, <1>4
<1>10. \A f \in Ends : cur'[f] # <<>> /\ cur'[f][1].fresh =>
         cur[f] # <<>> /\ cur[f][1].fresh /\ cur'[f][1].to = cur[f][1].to /\ cur[f][1].to # h
           /\ cur[f][1].to \in Handles
  BY <1>2, <1>8
<1>11. handle' = [handle EXCEPT ![h] = "open"] /\ handle[h] # "queued" /\ UNCHANGED <<accept, eof, polite>>
  BY <1>2, <1>7
<1> QED BY <1>1, <1>6, <1>9, <1>10, <1>11, ObjectMoves

LEMMA ObjectAccept ==
  ASSUME OrderInv, ObjectInv, MuxAssumption, NEW e \in Ends, Accept(e)
  PROVE  ObjectInv'
<1> DEFINE h == Head(accept[e])
           n == Len(accept[e])
<1>1. accept \in [Ends -> Seq(Handles)] /\ accept[e] # <<>> BY DEF Accept, ObjectInv, HandleTypes
<1>2. /\ n \in Nat /\ n >= 1 /\ h = accept[e][1] /\ h \in Handles
      /\ Tail(accept[e]) \in Seq(Handles) /\ Len(Tail(accept[e])) = n - 1
      /\ \A i \in 1..n - 1 : Tail(accept[e])[i] = accept[e][i + 1]
  BY <1>1, HeadTailProperties, LenProperties, EmptySeq
<1>3. UNCHANGED <<cur, made, eof, polite>> BY DEF Accept, chans
<1>4. handle' = [handle EXCEPT ![h] = "open"] /\ accept' = [accept EXCEPT ![e] = Tail(accept[e])]
  BY DEF Accept
<1>5. 1 \in 1..n BY <1>2
<1>6. handle[h] = "queued" /\ h[1] = e BY <1>2, <1>5 DEF ObjectInv, Queued
<1> HIDE DEF h, n
<1>7. /\ handle' \in [Handles -> {"none", "queued", "lost", "open", "closed"}] /\ handle'[h] = "open"
      /\ \A k \in Handles : k # h => handle'[k] = handle[k]
  BY <1>2, <1>4 DEF ObjectInv, HandleTypes
<1>8. /\ accept' \in [Ends -> Seq(Handles)] /\ accept'[e] = Tail(accept[e])
      /\ \A f \in Ends : f # e => accept'[f] = accept[f]
  BY <1>1, <1>2, <1>4, Updated
<1>9. HandleTypes' BY <1>3, <1>7, <1>8 DEF ObjectInv, HandleTypes
<1>10. \A f \in Ends : \A i \in 1..Len(accept[f]) : accept[f][i] \in Handles
  BY <1>1, ElementOfSeq
<1>11. Queued'
  <2> SUFFICES ASSUME NEW f \in Ends, NEW i \in 1..Len(accept'[f])
               PROVE  /\ accept'[f][i][1] = f /\ handle'[accept'[f][i]] = "queued"
                      /\ \A j \in 1..Len(accept'[f]) : accept'[f][i] = accept'[f][j] => i = j
    BY DEF Queued
  <2>1. CASE f = e
    <3>0. accept'[f] = Tail(accept[e]) /\ Len(accept'[f]) = n - 1 BY <1>2, <1>8, <2>1
    <3>1. i \in 1..n - 1 /\ i + 1 \in 1..n /\ i + 1 # 1 /\ accept'[f][i] = accept[e][i + 1]
      BY <1>2, <3>0
    <3>7. \A m \in 1..n : accept[e][m][1] = e /\ handle[accept[e][m]] = "queued"
            /\ \A j \in 1..n : accept[e][m] = accept[e][j] => m = j
      BY DEF ObjectInv, Queued, n
    <3>2. accept[e][i + 1] # h BY <1>2, <1>5, <3>1, <3>7
    <3>3. accept[e][i + 1] \in Handles BY <1>10, <3>1 DEF n
    <3>4. accept'[f][i][1] = f /\ handle'[accept'[f][i]] = "queued"
      <4>1. accept[e][i + 1][1] = e /\ handle[accept[e][i + 1]] = "queued" BY <3>1, <3>7
      <4>2. handle'[accept[e][i + 1]] = handle[accept[e][i + 1]] BY <1>7, <3>2, <3>3
      <4> QED BY <2>1, <3>1, <4>1, <4>2
    <3>5. ASSUME NEW j \in 1..Len(accept'[f]), accept'[f][i] = accept'[f][j] PROVE i = j
      <4>1. j \in 1..n - 1 /\ j + 1 \in 1..n /\ accept'[f][j] = accept[e][j + 1]
        <5>1. j \in 1..n - 1 /\ j + 1 \in 1..n BY <1>2, <3>0
        <5> QED BY <1>2, <3>0, <5>1
      <4>2. accept[e][i + 1] = accept[e][j + 1] BY <3>1, <3>5, <4>1
      <4>3. i + 1 = j + 1 BY <3>1, <3>7, <4>1, <4>2
      <4> QED BY <3>1, <4>1, <4>3
    <3> QED BY <3>4, <3>5
  <2>2. CASE f # e
    <3>1. accept'[f] = accept[f] BY <1>8, <2>2
    <3>2. accept[f][i][1] = f /\ accept[f][i] \in Handles BY <1>10, <3>1 DEF ObjectInv, Queued
    <3>3. accept[f][i] # h BY <1>6, <2>2, <3>2
    <3> QED BY <1>7, <3>1, <3>2, <3>3 DEF ObjectInv, Queued
  <2> QED BY <2>1, <2>2
<1>12. MadeFirst' BY <1>3, <1>6, <1>7 DEF ObjectInv, MadeFirst
<1>13. FreshIsNone'
  <2> SUFFICES ASSUME NEW f \in Ends, cur[f] # <<>>, cur[f][1].fresh
               PROVE  handle'[cur[f][1].to] = "none"
    BY <1>3 DEF FreshIsNone
  <2>1. handle[cur[f][1].to] = "none" /\ cur[f][1].to \in Handles
    BY HeldObject DEF OrderInv, ObjectInv, FreshIsNone
  <2> QED BY <1>6, <1>7, <2>1
<1> QED BY <1>9, <1>11, <1>12, <1>13 DEF ObjectInv

LEMMA ObjectReadFrame ==
  ASSUME OrderInv, ObjectInv, MuxAssumption, NEW d \in Ends, ReadFrame(d)
  PROVE  ObjectInv'
<1> DEFINE f == Head(wire[d])
           k == f.id
           known == reg[<<d, k>>] # 0
           g == IF known THEN reg[<<d, k>>] ELSE made[<<d, k>>] + 1
           taken == [frame |-> f, to |-> <<d, k, g>>, fresh |-> ~known]
<1>1. UNCHANGED <<handle, accept, eof, polite>> BY DEF ReadFrame, chans
<1>2. f \in Frames
  <2>1. wire[d] \in Seq(Frames) /\ wire[d] # <<>> BY DEF OrderInv, IInv, Types, ReadFrame
  <2> QED BY <2>1, HeadTailProperties
<1>3. k \in Streams /\ <<d, k>> \in Ends \X Streams BY <1>2 DEF Frames
<1>4. made \in [Ends \X Streams -> 0..MaxObjects] /\ DOMAIN cur = Ends BY DEF OrderInv, IInv, Types
<1>5. CASE UNCHANGED <<cur, made>>
  <2>1. FreshIsNone' BY <1>1, <1>5 DEF ObjectInv, FreshIsNone
  <2>2. \A z \in Ends \X Streams : made[z] \in Nat BY <1>4, Bounds
  <2> QED BY <1>1, <1>5, <2>1, <2>2, Triples, ObjectStays DEF ObjectInv, HandleTypes
<1>6. CASE ~UNCHANGED <<cur, made>>
  <2>1. /\ cur' = [cur EXCEPT ![d] = <<taken>>]
        /\ made' = [made EXCEPT ![<<d, k>>] = IF known THEN made[<<d, k>>] ELSE g]
        /\ f.kind = "DATA" => g <= MaxObjects
    BY <1>6 DEF ReadFrame
  <2>2. known \/ f.kind = "DATA" BY <1>6 DEF ReadFrame
  <2>3. made[<<d, k>>] \in 0..MaxObjects BY <1>3, <1>4
  <2>4. ~known => g = made[<<d, k>>] + 1 /\ g \in 1..MaxObjects BY <2>1, <2>2, <2>3, Bounds
  <2>5. taken.to = <<d, k, g>> /\ taken.fresh = ~known OBVIOUS
  <2> HIDE DEF taken, g, known, f, k
  <2>6. cur'[d] = <<taken>> /\ \A e \in Ends : e # d => cur'[e] = cur[e] BY <1>4, <2>1
  <2>7. /\ made'[<<d, k>>] = IF known THEN made[<<d, k>>] ELSE g
        /\ \A z \in Ends \X Streams : z # <<d, k>> => made'[z] = made[z]
    BY <1>3, <1>4, <2>1
  <2>8. \A z \in Ends \X Streams : made[z] \in Nat /\ made'[z] \in Nat /\ made[z] <= made'[z]
    <3>1. \A z \in Ends \X Streams : made[z] \in Nat BY <1>4, Bounds
    <3> QED BY <2>3, <2>4, <2>7, <3>1, Bounds
  <2>9. ~known => handle[<<d, k, g>>] = "none"
    <3> SUFFICES ASSUME ~known, handle[<<d, k, g>>] # "none" PROVE FALSE OBVIOUS
    <3>1. <<d, k, g>> \in Handles BY <1>3, <2>4 DEF Handles
    <3>2. <<d, k, g>>[3] <= made[<<<<d, k, g>>[1], <<d, k, g>>[2]>>] BY <3>1 DEF ObjectInv, MadeFirst
    <3>3. g <= made[<<d, k>>] BY <3>2
    <3> QED BY <2>3, <2>4, <3>3, Bounds
  <2>10. FreshIsNone'
    <3> SUFFICES ASSUME NEW e \in Ends, cur'[e] # <<>>, cur'[e][1].fresh
                 PROVE  handle[cur'[e][1].to] = "none"
      BY <1>1 DEF FreshIsNone
    <3>1. CASE e = d
      <4>1. cur'[e][1] = taken BY <2>6, <3>1
      <4>2. ~known BY <2>5, <4>1
      <4> QED BY <2>5, <2>9, <4>1, <4>2
    <3>2. CASE e # d BY <2>6, <3>2 DEF ObjectInv, FreshIsNone
    <3> QED BY <3>1, <3>2
  <2> QED BY <1>1, <2>8, <2>10, Triples, ObjectStays DEF ObjectInv, HandleTypes
<1> QED BY <1>5, <1>6

LEMMA ObjectDispatch ==
  ASSUME OrderInv, ObjectInv, MuxAssumption, NEW d \in Ends,
         OfferStream(d) \/ DispatchData(d) \/ DispatchFin(d) \/ DispatchRst(d)
  PROVE  ObjectInv'
<1> DEFINE h == cur[d][1].to
<1>1. cur[d] # <<>> /\ UNCHANGED <<eof, polite, made>>
  BY DEF OfferStream, DispatchData, DispatchFin, DispatchRst, Deliver, chans
<1>2. h \in Handles /\ h[1] = d /\ h[3] <= made[<<h[1], h[2]>>] BY <1>1, HeldObject DEF OrderInv
<1>3. DOMAIN cur = Ends /\ \A z \in Ends \X Streams : made[z] \in Nat
  BY Bounds DEF OrderInv, IInv, Types
<1>4. /\ \A e \in Ends : e # d => cur'[e] = cur[e]
      /\ cur'[d] = <<>> \/ ~cur'[d][1].fresh
  BY <1>3, HandAfter
<1>5. \A e \in Ends : cur[e] # <<>> => cur[e][1].to \in Handles /\ cur[e][1].to[1] = e
  BY HeldObject DEF OrderInv
<1>6. CASE UNCHANGED <<handle, accept>>
  <2>1. FreshIsNone' BY <1>4, <1>6 DEF ObjectInv, FreshIsNone
  <2> QED BY <1>1, <1>3, <1>6, <2>1, Triples, ObjectStays DEF ObjectInv, HandleTypes
<1>7. CASE ~UNCHANGED <<handle, accept>>
  <2>1. /\ OfferStream(d) /\ cur[d][1].fresh
        /\ handle' = [handle EXCEPT ![h] = IF Len(accept[d]) < AcceptCap THEN "queued" ELSE "lost"]
        /\ accept' = IF Len(accept[d]) < AcceptCap THEN [accept EXCEPT ![d] = Append(@, h)] ELSE accept
    BY <1>7 DEF OfferStream, DispatchData, DispatchFin, DispatchRst
  <2>2. handle[h] = "none" BY <1>1, <2>1 DEF ObjectInv, FreshIsNone
  <2> HIDE DEF h
  <2>3. CASE ~(Len(accept[d]) < AcceptCap)
    <3>1. handle' = [handle EXCEPT ![h] = "lost"] /\ UNCHANGED accept BY <2>1, <2>3
    <3>2. \A e \in Ends : cur'[e] # <<>> /\ cur'[e][1].fresh =>
            cur[e] # <<>> /\ cur[e][1].fresh /\ cur'[e][1].to = cur[e][1].to /\ cur[e][1].to # h
              /\ cur[e][1].to \in Handles
      BY <1>2, <1>4, <1>5
    <3> QED BY <1>1, <1>2, <2>2, <3>1, <3>2, ObjectMoves
  <2>4. CASE Len(accept[d]) < AcceptCap
    <3>1. /\ handle' \in [Handles -> {"none", "queued", "lost", "open", "closed"}]
          /\ handle'[h] = "queued" /\ \A k \in Handles : k # h => handle'[k] = handle[k]
      BY <1>2, <2>1, <2>4 DEF ObjectInv, HandleTypes
    <3>2. accept \in [Ends -> Seq(Handles)] /\ Append(accept[d], h) \in Seq(Handles)
      BY <1>2 DEF ObjectInv, HandleTypes
    <3>3. /\ accept' \in [Ends -> Seq(Handles)] /\ accept'[d] = Append(accept[d], h)
          /\ \A e \in Ends : e # d => accept'[e] = accept[e]
      BY <2>1, <2>4, <3>2, Updated
    <3>4. HandleTypes' BY <1>1, <3>1, <3>3 DEF ObjectInv, HandleTypes
    <3>5. \A e \in Ends : \A i \in 1..Len(accept[e]) :
            accept[e][i] \in Handles /\ accept[e][i] # h /\ handle'[accept[e][i]] = "queued"
      BY <2>2, <3>1, <3>2, ElementOfSeq DEF ObjectInv, Queued
    <3> DEFINE n == Len(accept[d])
    <3>6. /\ n \in Nat /\ Len(accept'[d]) = n + 1 /\ accept'[d][n + 1] = h
          /\ \A i \in 1..n : accept'[d][i] = accept[d][i]
      BY <1>2, <3>2, <3>3, AppendProperties, LenProperties
    <3>7. \A i \in 1..Len(accept'[d]) : i = n + 1 \/ i \in 1..n BY <3>6
    <3> HIDE DEF n
    <3>8. Queued'
      <4> SUFFICES ASSUME NEW e \in Ends, NEW i \in 1..Len(accept'[e])
                   PROVE  /\ accept'[e][i][1] = e /\ handle'[accept'[e][i]] = "queued"
                          /\ \A j \in 1..Len(accept'[e]) : accept'[e][i] = accept'[e][j] => i = j
        BY DEF Queued
      <4>1. CASE e = d /\ i = n + 1
        <5>1. \A j \in 1..n : accept'[d][j] # h BY <3>5, <3>6 DEF n
        <5> QED BY <1>2, <3>1, <3>6, <3>7, <4>1, <5>1
      <4>2. CASE e = d /\ i \in 1..n
        <5>1. accept'[d][i] = accept[d][i] /\ accept'[d][i] # h BY <3>5, <3>6, <4>2 DEF n
        <5>2. \A j \in 1..n : accept[d][i] = accept[d][j] => i = j
          BY <4>2 DEF ObjectInv, Queued, n
        <5>3. \A j \in 1..Len(accept'[d]) : accept'[d][i] = accept'[d][j] => i = j
          BY <3>6, <3>7, <5>1, <5>2
        <5>4. accept[d][i][1] = d /\ handle'[accept[d][i]] = "queued"
          BY <3>5, <4>2 DEF ObjectInv, Queued, n
        <5> QED BY <4>2, <5>1, <5>3, <5>4
      <4>3. CASE e # d BY <3>3, <3>5, <4>3 DEF ObjectInv, Queued
      <4> QED BY <3>7, <4>1, <4>2, <4>3
    <3>9. MadeFirst' BY <1>1, <1>2, <3>1 DEF ObjectInv, MadeFirst
    <3>10. FreshIsNone' BY <1>2, <1>4, <1>5, <3>1 DEF ObjectInv, FreshIsNone
    <3> QED BY <3>4, <3>8, <3>9, <3>10 DEF ObjectInv
  <2> QED BY <2>3, <2>4
<1> QED BY <1>6, <1>7

LEMMA ObjectStep == ASSUME OrderInv, ObjectInv, MuxAssumption, [Next]_vars PROVE ObjectInv'
<1>1. CASE UNCHANGED vars
  BY <1>1 DEF vars, chans, ObjectInv, HandleTypes, Queued, MadeFirst, FreshIsNone
<1>2. ASSUME NEW e \in Ends, CloseSession(e) PROVE ObjectInv'
  BY <1>2 DEF CloseSession, chans, ObjectInv, HandleTypes, Queued, MadeFirst, FreshIsNone
<1>3. ASSUME NEW e \in Ends, ReadLoop(e) \/ Accept(e) PROVE ObjectInv'
  BY <1>3, ObjectReadFrame, ObjectDispatch, ObjectAccept DEF ReadLoop
<1>4. ASSUME NEW e \in Ends, NEW s \in Streams, Open(e, s) PROVE ObjectInv'
  BY <1>4, ObjectOpen
<1>5. ASSUME NEW h \in Handles, Read(h) \/ ReadEnd(h) \/ Write(h) \/ Close(h) \/ Reset(h)
      PROVE  ObjectInv'
  BY <1>5, ObjectApplications
<1> QED BY <1>1, <1>2, <1>3, <1>4, <1>5 DEF Next

Polite == polite /\ OrderInv /\ ObjectInv /\ PoliteInv

Civil == \A e \in Ends, s \in Streams : Courteous(e, s) /\ EndsLast(e, s)

LEMMA PoliteFacts ==
  ASSUME Polite
  PROVE  /\ Civil /\ NoResets
         /\ \A e \in Ends, s \in Streams : made[<<e, s>>] <= 1
  BY DEF Polite, PoliteInv, NoPhantoms, Civil

LEMMA Counts ==
  ASSUME Polite, MuxAssumption, NEW e \in Ends, NEW s \in Streams
  PROVE  /\ Len(got[First(e, s)]) \in Nat /\ sent[<<e, s>>] \in 0..MaxWrites
         /\ sent[<<Peer(e), s>>] \in 0..MaxWrites
         /\ Len(got[First(e, s)]) <= sent[<<Peer(e), s>>]
         /\ MaxWrites \in Nat
         /\ reg[<<e, s>>] \in {0, 1} /\ made[<<e, s>>] \in {0, 1} /\ reg[<<e, s>>] <= made[<<e, s>>]
<1>1. First(e, s) \in Handles /\ <<e, s>> \in Ends \X Streams /\ <<Peer(e), s>> \in Ends \X Streams
  BY FirstHandle
<1>2. got[First(e, s)] \in Seq(Nat) BY <1>1 DEF Polite, OrderInv, QueueTypes
<1>3. Len(got[First(e, s)]) <= sent[<<Peer(e), s>>] BY OrderGaps DEF Polite, NoGaps
<1>4. sent[<<e, s>>] \in 0..MaxWrites /\ sent[<<Peer(e), s>>] \in 0..MaxWrites
      /\ made[<<e, s>>] \in 0..MaxObjects /\ reg[<<e, s>>] \in 0..MaxObjects
  BY <1>1 DEF Polite, OrderInv, IInv, Types
<1>5. made[<<e, s>>] <= 1 /\ reg[<<e, s>>] <= made[<<e, s>>]
  BY PoliteFacts DEF Polite, OrderInv, IInv, Known
<1> QED BY <1>2, <1>3, <1>4, <1>5, Bounds, LenProperties

\* Every handle an application has is of the first object.
LEMMA OnlyFirst ==
  ASSUME Polite, MuxAssumption, NEW h \in Handles, handle[h] # "none"
  PROVE  h = First(h[1], h[2]) /\ made[<<h[1], h[2]>>] = 1
<1>1. h = <<h[1], h[2], h[3]>> /\ h[1] \in Ends /\ h[2] \in Streams /\ h[3] \in 1..MaxObjects
  BY Triples
<1>2. h[3] <= made[<<h[1], h[2]>>] BY DEF Polite, ObjectInv, MadeFirst
<1>3. made[<<h[1], h[2]>>] \in {0, 1} BY <1>1, Counts
<1>4. h[3] = 1 BY <1>1, <1>2, <1>3
<1> QED BY <1>1, <1>2, <1>3, <1>4 DEF First

\* An open stream is known.
LEMMA OpenKnown ==
  ASSUME Polite, MuxAssumption, NEW e \in Ends, NEW s \in Streams, handle[First(e, s)] = "open"
  PROVE  reg[<<e, s>>] = 1
<1>1. First(e, s) \in Handles /\ First(e, s)[1] = e /\ First(e, s)[2] = s BY FirstHandle DEF First
<1>2. made[<<e, s>>] = 1 BY <1>1, OnlyFirst
<1>3. Courteous(e, s) BY PoliteFacts DEF Civil
<1>4. reg[<<e, s>>] # 0 BY <1>2, <1>3 DEF Courteous, Closed
<1> QED BY <1>4, Counts

LEMMA HandFirst ==
  ASSUME Polite, MuxAssumption, NEW e \in Ends, cur[e] # <<>>
  PROVE  /\ cur[e][1].to[2] \in Streams /\ cur[e][1].to = First(e, cur[e][1].to[2])
         /\ cur[e][1].to \in Handles /\ ~shut[cur[e][1].to] /\ cur[e][1].frame \in Frames
<1>1. /\ cur[e][1].to \in Handles /\ cur[e][1].to[1] = e
      /\ cur[e][1].to[3] <= made[<<e, cur[e][1].to[2]>>]
      /\ cur[e][1].frame \in Frames /\ ~shut[cur[e][1].to]
  BY HeldObject DEF Polite, OrderInv
<1> DEFINE h == cur[e][1].to
<1>2. h = <<h[1], h[2], h[3]>> /\ h[2] \in Streams /\ h[3] \in 1..MaxObjects BY <1>1, Triples
<1> HIDE DEF h
<1>3. made[<<e, h[2]>>] \in {0, 1} BY <1>2, Counts
<1>4. h[3] = 1 BY <1>1, <1>2, <1>3 DEF h
<1> QED BY <1>1, <1>2, <1>4 DEF First, h

\* A polite end that will write no more on a stream does not.
LEMMA MuteStops ==
  ASSUME Polite, MuxAssumption, NEW e \in Ends, NEW s \in Streams, Mute(e, s)
  PROVE  ~Write(First(e, s))
<1> SUFFICES ASSUME Write(First(e, s)) PROVE FALSE OBVIOUS
<1>1. First(e, s)[1] = e /\ First(e, s)[2] = s /\ First(e, s)[3] = 1 BY DEF First
<1>2. /\ handle[First(e, s)] = "open"
      /\ e = Opener(s) \/ (s \notin OneWay /\ sent[<<e, s>>] < Len(got[First(e, s)]))
      /\ sent[<<e, s>>] < (IF e = Opener(s) THEN MaxWrites ELSE MaxAnswers)
  BY <1>1 DEF Write, MayWrite, Polite
<1>3. sent[<<e, s>>] < MaxWrites
  <2>1. sent[<<e, s>>] \in 0..MaxWrites BY Counts
  <2>2. sent[<<e, s>>] < MaxWrites \/ sent[<<e, s>>] < MaxAnswers BY <1>2
  <2> QED BY <2>1, <2>2, Bounds
<1>4. e # Opener(s) => s \notin OneWay /\ sent[<<e, s>>] < sent[<<Peer(e), s>>]
  BY <1>2, Counts
<1>5. sent[<<e, s>>] \in Nat /\ sent[<<Peer(e), s>>] \in Nat BY Counts
<1> QED BY <1>2, <1>3, <1>4, <1>5, Bounds DEF Mute, Closed

\* A stream whose object is known and to which no frame is under way has all
\* that was sent.
LEMMA DryHasAll ==
  ASSUME Polite, MuxAssumption, NEW e \in Ends, NEW s \in Streams,
         NEW b \in Nat, NEW t \in Nat, Pipe(e, s, b, t), up[e], Dry(e, s)
  PROVE  t = sent[<<Peer(e), s>>]
<1> DEFINE n == sent[<<Peer(e), s>>]
<1>1. n \in Nat /\ t <= n /\ InOrder(Numbers(wire[e], s), t, n) BY Counts, Bounds DEF Pipe
<1>2. wire[e] \in Seq(Frames) BY DEF Polite, OrderInv, IInv, Types
<1>3. Len(Numbers(wire[e], s)) = Len(wire[e])
      /\ \A i \in 1..Len(wire[e]) : Numbers(wire[e], s)[i] = 0
  BY <1>2, LenProperties DEF Numbers, Dry
<1> HIDE DEF n
<1>4. t < n => \E i \in 1..Len(wire[e]) : Numbers(wire[e], s)[i] = t + 1
  BY <1>1, <1>3 DEF InOrder
<1> QED BY <1>1, <1>3, <1>4 DEF n

-----------------------------------------------------------------------------

\* What leaves the promises about a stream as they were.
LEMMA CourteousStays ==
  ASSUME MuxAssumption, NEW e \in Ends, NEW s \in Streams, Courteous(e, s),
         made'[<<e, s>>] = 1 /\ reg'[<<e, s>>] = 0 =>
           Closed(e, s)' \/ (made[<<e, s>>] = 1 /\ reg[<<e, s>>] = 0),
         Closed(e, s) <=> Closed(e, s)', Closed(Peer(e), s) => Closed(Peer(e), s)',
         up'[e] => up[e], eof'[First(e, s)] => ~up'[e] \/ eof[First(e, s)],
         sent'[<<e, s>>] = sent[<<e, s>>], sent'[<<Peer(e), s>>] = sent[<<Peer(e), s>>],
         got'[First(e, s)] = got[First(e, s)]
  PROVE  Courteous(e, s)'
<1>1. Peer(Peer(e)) = e BY Peers
<1>2. Mute(Peer(e), s) => Mute(Peer(e), s)' BY <1>1 DEF Mute
<1>3. Closed(Peer(e), s)' = (handle'[First(Peer(e), s)] = "closed") BY DEF Closed, First
<1> QED BY <1>2, <1>3 DEF Courteous, First

LEMMA EndsStay ==
  ASSUME NEW e \in Ends, NEW s \in Streams, EndsLast(e, s),
         Closed(Peer(e), s) => Closed(Peer(e), s)',
         up'[e] => up[e] /\ wire'[e] = wire[e],
         ch'[First(e, s)] = ch[First(e, s)],
         cur'[e] # <<>> => cur[e] # <<>> /\ cur'[e][1].frame = cur[e][1].frame
                                         /\ cur'[e][1].to = cur[e][1].to
  PROVE  EndsLast(e, s)'
<1>1. Dry(e, s) => Dry(e, s)' BY DEF Dry
<1>2. HandData(e, s)' => HandData(e, s) BY DEF HandData, First
<1> QED BY <1>1, <1>2 DEF EndsLast, First

\* A frame that is sent: no DATA of this stream, and no FIN of it unless its
\* sender closed it.
LEMMA EndsAppend ==
  ASSUME MuxAssumption, OrderInv, NEW e \in Ends, NEW s \in Streams, EndsLast(e, s), NEW frame \in Frames,
         Closed(Peer(e), s) => Closed(Peer(e), s)',
         up'[e] => up[e] /\ wire'[e] = Append(wire[e], frame),
         UNCHANGED <<ch, cur>>,
         NumberOf(frame, s) = 0,
         frame.id = s /\ frame.kind = "FIN" => Closed(Peer(e), s)'
  PROVE  EndsLast(e, s)'
<1> DEFINE n == Len(wire[e])
<1>1. wire[e] \in Seq(Frames) BY DEF OrderInv, IInv, Types
<1>2. n \in Nat /\ (up'[e] => /\ Len(wire'[e]) = n + 1 /\ wire'[e][n + 1] = frame
                              /\ \A i \in 1..n : wire'[e][i] = wire[e][i])
  BY <1>1, LenProperties, AppendProperties
<1>3. up'[e] => \A i \in 1..Len(wire'[e]) : i = n + 1 \/ i \in 1..n BY <1>2
<1>4. HandData(e, s)' <=> HandData(e, s) BY DEF HandData, First
<1>5. /\ up[e] => \A i \in 1..n :
           wire[e][i].id = s /\ wire[e][i].kind = "FIN" =>
             Closed(Peer(e), s) /\ \A j \in 1..n : i < j => NumberOf(wire[e][j], s) = 0
      /\ Dry(e, s) <=> (up[e] => \A i \in 1..n : NumberOf(wire[e][i], s) = 0)
  BY DEF EndsLast, Dry
<1> HIDE DEF n
<1>6. Dry(e, s) => Dry(e, s)' BY <1>2, <1>3, <1>5 DEF Dry
<1>7. up'[e] => \A i \in 1..Len(wire'[e]) :
        wire'[e][i].id = s /\ wire'[e][i].kind = "FIN" =>
          Closed(Peer(e), s)' /\ \A j \in 1..Len(wire'[e]) : i < j => NumberOf(wire'[e][j], s) = 0
  <2> SUFFICES ASSUME up'[e], NEW i \in 1..Len(wire'[e]), wire'[e][i].id = s, wire'[e][i].kind = "FIN"
               PROVE  /\ Closed(Peer(e), s)'
                      /\ \A j \in 1..Len(wire'[e]) : i < j => NumberOf(wire'[e][j], s) = 0
    OBVIOUS
  <2>1. CASE i = n + 1 BY <1>2, <1>3, <2>1
  <2>2. CASE i \in 1..n
    <3>1. up[e] /\ wire[e][i] = wire'[e][i] BY <1>2, <2>2
    <3>2. Closed(Peer(e), s) /\ \A j \in 1..n : i < j => NumberOf(wire[e][j], s) = 0
      BY <1>5, <2>2, <3>1
    <3>3. \A j \in 1..Len(wire'[e]) : i < j => NumberOf(wire'[e][j], s) = 0
      BY <1>2, <1>3, <3>2
    <3> QED BY <3>2, <3>3
  <2> QED BY <1>3, <2>1, <2>2
<1>8. /\ cur'[e] # <<>> /\ cur'[e][1].frame.kind = "FIN" /\ cur'[e][1].to = First(e, s) =>
           Closed(Peer(e), s)' /\ Dry(e, s)'
      /\ \A i \in 1..Len(ch'[First(e, s)]) : ch'[First(e, s)][i] = 0 =>
           /\ Closed(Peer(e), s)' /\ Dry(e, s)' /\ ~HandData(e, s)'
           /\ \A j \in 1..Len(ch'[First(e, s)]) : i < j => ch'[First(e, s)][j] = 0
  BY <1>4, <1>6 DEF EndsLast
<1> QED BY <1>7, <1>8 DEF EndsLast, First

\* What an end sends, on the wires.
LEMMA SendPlaces ==
  ASSUME Types, MuxAssumption, NEW q \in Ends, NEW frame, Send(q, frame) \/ UNCHANGED wire,
         NEW e \in Ends
  PROVE  wire'[e] = wire[e] \/ (e = Peer(q) /\ wire'[e] = Append(wire[e], frame))
<1>1. DOMAIN wire = Ends /\ Peer(q) \in Ends BY Peers DEF Types
<1> QED BY <1>1 DEF Send
LEMMA ResetsStay ==
  ASSUME Polite, NEW frame \in Frames, frame.kind # "RST", UNCHANGED shut,
         \A e \in Ends : wire'[e] = wire[e] \/ wire'[e] = Append(wire[e], frame),
         \A e \in Ends : cur'[e] = <<>> \/ cur'[e] = cur[e]
  PROVE  NoResets'
<1>1. ASSUME NEW e \in Ends, NEW i \in 1..Len(wire'[e]) PROVE wire'[e][i].kind # "RST"
  <2>1. CASE wire'[e] = wire[e] BY <1>1, <2>1, PoliteFacts DEF NoResets
  <2>2. CASE wire'[e] = Append(wire[e], frame)
    <3>1. wire[e] \in Seq(Frames) BY DEF Polite, OrderInv, IInv, Types
    <3>2. /\ Len(wire[e]) \in Nat /\ Len(wire'[e]) = Len(wire[e]) + 1
          /\ wire'[e][Len(wire[e]) + 1] = frame
          /\ \A j \in 1..Len(wire[e]) : wire'[e][j] = wire[e][j]
      BY <2>2, <3>1, LenProperties, AppendProperties
    <3>3. i = Len(wire[e]) + 1 \/ i \in 1..Len(wire[e]) BY <1>1, <3>2
    <3> QED BY <3>2, <3>3, PoliteFacts DEF NoResets
  <2> QED BY <2>1, <2>2
<1> QED BY <1>1, PoliteFacts DEF NoResets

-----------------------------------------------------------------------------

\* One step, for the whole state but NoPhantoms.
LEMMA PoliteSession ==
  ASSUME Polite, MuxAssumption, NEW d \in Ends, CloseSession(d)
  PROVE  Civil' /\ NoResets'
<1>1. UNCHANGED <<polite, cur, reg, made, handle, ch, shut, eof, got, sent, accept>>
  BY DEF CloseSession, chans
<1>2. \A e \in Ends : up'[e] => up[e] /\ wire'[e] = wire[e]
  BY DEF CloseSession, Polite, OrderInv, IInv, Types, QueueTypes
<1>3. wire'[d] = <<>> /\ \A e \in Ends : e # d => wire'[e] = wire[e]
  BY DEF CloseSession, Polite, OrderInv, IInv, Types
<1>4. ASSUME NEW e \in Ends, NEW s \in Streams PROVE Courteous(e, s)' /\ EndsLast(e, s)'
  <2>1. Courteous(e, s) /\ EndsLast(e, s) BY PoliteFacts DEF Civil
  <2>2. Closed(e, s)' = Closed(e, s) /\ Closed(Peer(e), s)' = Closed(Peer(e), s)
    BY <1>1 DEF Closed, First
  <2>3. Courteous(e, s)' BY <1>1, <1>2, <2>1, <2>2, CourteousStays
  <2>4. EndsLast(e, s)' BY <1>1, <1>2, <2>1, <2>2, EndsStay
  <2> QED BY <2>3, <2>4
<1>5. NoResets'
  <2>1. \A i \in 1..Len(wire'[d]) : FALSE BY <1>3, EmptySeq
  <2> QED BY <1>1, <1>3, <2>1, PoliteFacts DEF NoResets
<1> QED BY <1>4, <1>5 DEF Civil

LEMMA PoliteOpen ==
  ASSUME Polite, MuxAssumption, NEW d \in Ends, NEW k \in Streams, Open(d, k)
  PROVE  Civil' /\ NoResets' /\ (\A e \in Ends, s \in Streams : made'[<<e, s>>] <= 1)
<1>1. UNCHANGED <<polite, wire, cur, chans, sent, accept, up>> BY DEF Open
<1>2. First(d, k) \in Handles /\ <<d, k>> \in Ends \X Streams BY FirstHandle
<1>3. /\ made[<<d, k>>] = 0 /\ made'[<<d, k>>] = 1 /\ reg'[<<d, k>>] = 1
      /\ \A z \in Ends \X Streams : z # <<d, k>> => made'[z] = made[z] /\ reg'[z] = reg[z]
      /\ handle'[First(d, k)] = "open" /\ \A h \in Handles : h # First(d, k) => handle'[h] = handle[h]
  <2>1. /\ made' = [made EXCEPT ![<<d, k>>] = 1] /\ reg' = [reg EXCEPT ![<<d, k>>] = 1]
        /\ handle' = [handle EXCEPT ![First(d, k)] = "open"] /\ made[<<d, k>>] = 0
    BY DEF Open, First
  <2>2. DOMAIN made = Ends \X Streams /\ DOMAIN reg = Ends \X Streams
    BY DEF Polite, OrderInv, IInv, Types
  <2>3. DOMAIN handle = Handles
    BY DEF Polite, ObjectInv, HandleTypes
  <2> QED BY <1>2, <2>1, <2>2, <2>3
<1>4. handle[First(d, k)] = "none"
  <2>1. First(d, k)[1] = d /\ First(d, k)[2] = k BY DEF First
  <2> QED BY <1>2, <1>3, <2>1, OnlyFirst
<1>5. ASSUME NEW e \in Ends, NEW s \in Streams PROVE Closed(e, s)' = Closed(e, s)
  <2>1. First(e, s) \in Handles BY FirstHandle
  <2>2. Closed(e, s)' = (handle'[First(e, s)] = "closed") BY DEF Closed, First
  <2> QED BY <1>3, <1>4, <2>1, <2>2 DEF Closed
<1>6. ASSUME NEW e \in Ends, NEW s \in Streams PROVE Courteous(e, s)' /\ EndsLast(e, s)'
  <2>1. Courteous(e, s) /\ EndsLast(e, s) BY PoliteFacts DEF Civil
  <2>2. Closed(e, s)' = Closed(e, s) /\ Closed(Peer(e), s)' = Closed(Peer(e), s) BY <1>5, Peers
  <2>3. <<e, s>> \in Ends \X Streams BY FirstHandle
  <2>4. made'[<<e, s>>] = 1 /\ reg'[<<e, s>>] = 0 => made[<<e, s>>] = 1 /\ reg[<<e, s>>] = 0
    BY <1>3, <2>3
  <2>5. Courteous(e, s)' BY <1>1, <2>1, <2>2, <2>4, CourteousStays DEF chans
  <2>6. EndsLast(e, s)' BY <1>1, <2>1, <2>2, EndsStay DEF chans
  <2> QED BY <2>5, <2>6
<1>7. ASSUME NEW e \in Ends, NEW s \in Streams PROVE made'[<<e, s>>] <= 1
  <2>1. <<e, s>> \in Ends \X Streams /\ made[<<e, s>>] <= 1 BY FirstHandle, PoliteFacts
  <2> QED BY <1>3, <2>1
<1>8. NoResets' BY <1>1, PoliteFacts DEF NoResets, chans
<1> QED BY <1>6, <1>7, <1>8 DEF Civil

LEMMA PoliteAccept ==
  ASSUME Polite, MuxAssumption, NEW d \in Ends, Accept(d)
  PROVE  Civil' /\ NoResets'
<1>1. UNCHANGED <<polite, wire, cur, reg, made, chans, sent, up>> BY DEF Accept
<1> DEFINE h == Head(accept[d])
<1>2. h \in Handles /\ handle[h] = "queued"
  <2>1. accept[d] \in Seq(Handles) /\ accept[d] # <<>> BY DEF Accept, Polite, ObjectInv, HandleTypes
  <2>2. h = accept[d][1] /\ 1 \in 1..Len(accept[d]) /\ h \in Handles
    BY <2>1, HeadTailProperties, LenProperties, EmptySeq
  <2> QED BY <2>2 DEF Polite, ObjectInv, Queued
<1>3. handle' = [handle EXCEPT ![h] = "open"] BY DEF Accept
<1> HIDE DEF h
<1>4. handle'[h] = "open" /\ \A k \in Handles : k # h => handle'[k] = handle[k]
  BY <1>2, <1>3 DEF Polite, ObjectInv, HandleTypes
<1>5. ASSUME NEW e \in Ends, NEW s \in Streams PROVE Closed(e, s)' = Closed(e, s)
  <2>1. First(e, s) \in Handles BY FirstHandle
  <2>2. Closed(e, s)' = (handle'[First(e, s)] = "closed") BY DEF Closed, First
  <2> QED BY <1>2, <1>4, <2>1, <2>2 DEF Closed
<1>6. ASSUME NEW e \in Ends, NEW s \in Streams PROVE Courteous(e, s)' /\ EndsLast(e, s)'
  <2>1. Courteous(e, s) /\ EndsLast(e, s) BY PoliteFacts DEF Civil
  <2>2. Closed(e, s)' = Closed(e, s) /\ Closed(Peer(e), s)' = Closed(Peer(e), s) BY <1>5, Peers
  <2>3. Courteous(e, s)' BY <1>1, <2>1, <2>2, CourteousStays DEF chans
  <2>4. EndsLast(e, s)' BY <1>1, <2>1, <2>2, EndsStay DEF chans
  <2> QED BY <2>3, <2>4
<1>7. NoResets' BY <1>1, PoliteFacts DEF NoResets, chans
<1> QED BY <1>6, <1>7 DEF Civil

LEMMA PoliteWrite ==
  ASSUME Polite, MuxAssumption, NEW h \in Handles, Write(h)
  PROVE  Civil' /\ NoResets'
<1> DEFINE q == h[1]
           k == h[2]
           n == sent[<<q, k>>]
           frame == Frame(k, "DATA", n + 1)
<1>1. /\ handle[h] = "open" /\ Send(q, frame) /\ sent' = [sent EXCEPT ![<<q, k>>] = n + 1]
      /\ UNCHANGED <<polite, cur, reg, made, handle, chans, accept, up>>
      /\ n < (IF q = Opener(k) THEN MaxWrites ELSE MaxAnswers)
      /\ q = Opener(k) \/ (k \notin OneWay /\ n < Len(got[h]))
  BY DEF Write, MayWrite, Polite
<1>2. q \in Ends /\ k \in Streams /\ h = First(q, k) BY <1>1, Triples, OnlyFirst
<1>3. frame.id = k /\ frame.kind = "DATA" /\ frame.n = n + 1 BY DEF Frame
<1>4. n \in 0..MaxWrites /\ n + 1 \in 0..MaxWrites /\ n \in Nat /\ MaxWrites \in Nat
  <2>1. n \in 0..MaxWrites BY <1>2, Counts
  <2>2. n < MaxWrites \/ n < MaxAnswers BY <1>1
  <2> QED BY <2>1, <2>2, Bounds
<1>5. frame \in Frames BY <1>2, <1>4 DEF Frame, Frames
<1> HIDE DEF q, k, n, frame
<1>6. sent'[<<q, k>>] = n + 1 /\ \A z \in Ends \X Streams : z # <<q, k>> => sent'[z] = sent[z]
  <2>1. <<q, k>> \in Ends \X Streams BY <1>2, FirstHandle
  <2> QED BY <1>1, <2>1 DEF Polite, OrderInv, IInv, Types
<1>7. ~Closed(q, k) /\ ~Mute(q, k)
  <2>1. ~Closed(q, k) BY <1>1, <1>2 DEF Closed
  <2> QED BY <1>2, <2>1, MuteStops
<1>8. ASSUME NEW e \in Ends, NEW s \in Streams PROVE Closed(e, s)' = Closed(e, s)
  BY <1>1 DEF Closed, First
<1>9. Types BY DEF Polite, OrderInv, IInv
<1>10. ASSUME NEW e \in Ends PROVE wire'[e] = wire[e] \/ (e = Peer(q) /\ wire'[e] = Append(wire[e], frame))
  BY <1>1, <1>2, <1>9, SendPlaces
<1>11. ASSUME NEW e \in Ends, NEW s \in Streams PROVE Courteous(e, s)'
  <2>1. Courteous(e, s) BY PoliteFacts DEF Civil
  <2>2. Closed(e, s)' = Closed(e, s) /\ Closed(Peer(e), s)' = Closed(Peer(e), s) BY <1>8, Peers
  <2>3. <<e, s>> \in Ends \X Streams /\ <<Peer(e), s>> \in Ends \X Streams BY FirstHandle
  <2>4. CASE e # q /\ s = k
    <3>1. Peer(e) = q /\ sent'[<<e, s>>] = sent[<<e, s>>] BY <1>2, <1>6, <2>3, <2>4, Peers
    <3>2. ~(up[e] /\ Closed(e, s)) /\ ~(up[e] /\ eof[First(e, s)])
      BY <1>7, <2>1, <2>4, <3>1 DEF Courteous
    <3>3. ~(up'[e] /\ Closed(e, s)') /\ ~(up'[e] /\ eof'[First(e, s)])
      BY <1>1, <2>2, <3>2 DEF chans
    <3>4. made'[<<e, s>>] = 1 /\ reg'[<<e, s>>] = 0 => Closed(e, s)' BY <1>1, <2>1, <2>2 DEF Courteous
    <3>5. e # Opener(s) => sent'[<<e, s>>] <= IF s \in OneWay THEN 0 ELSE Len(got'[First(e, s)])
      BY <1>1, <2>1, <3>1 DEF Courteous, chans
    <3> QED BY <3>3, <3>4, <3>5 DEF Courteous, First
  <2>5. CASE e = q /\ s = k
    <3>1. Peer(e) # q /\ sent'[<<Peer(e), s>>] = sent[<<Peer(e), s>>] BY <1>2, <1>6, <2>3, <2>5, Peers
    <3>2. ~Closed(e, s)' /\ sent'[<<e, s>>] = n + 1 BY <1>6, <1>7, <2>2, <2>5
    <3>3. made'[<<e, s>>] = 1 /\ reg'[<<e, s>>] = 0 => Closed(e, s)' BY <1>1, <2>1, <2>2 DEF Courteous
    <3>4. Len(got[First(e, s)]) \in Nat BY Counts
    <3>5. e # Opener(s) => s \notin OneWay /\ n < Len(got[First(e, s)]) BY <1>1, <1>2, <2>5
    <3>6. e # Opener(s) => n + 1 <= IF s \in OneWay THEN 0 ELSE Len(got[First(e, s)])
      BY <1>4, <3>4, <3>5
    <3>7. UNCHANGED <<got, eof, up>> BY <1>1 DEF chans
    <3>8. up[e] /\ eof[First(e, s)] =>
            Len(got[First(e, s)]) = sent'[<<Peer(e), s>>] /\ Closed(Peer(e), s)'
      BY <2>1, <2>2, <3>1 DEF Courteous
    <3> QED BY <3>2, <3>3, <3>6, <3>7, <3>8 DEF Courteous, First
  <2>6. CASE s # k
    <3>1. sent'[<<e, s>>] = sent[<<e, s>>] /\ sent'[<<Peer(e), s>>] = sent[<<Peer(e), s>>]
      BY <1>6, <2>3, <2>6
    <3> QED BY <1>1, <2>1, <2>2, <3>1, CourteousStays DEF chans
  <2> QED BY <2>4, <2>5, <2>6
<1>12. ASSUME NEW e \in Ends, NEW s \in Streams PROVE EndsLast(e, s)'
  <2>1. EndsLast(e, s) BY PoliteFacts DEF Civil
  <2>2. Closed(Peer(e), s)' = Closed(Peer(e), s) BY <1>8, Peers
  <2>3. UNCHANGED <<ch, cur, up>> BY <1>1 DEF chans
  <2>4. CASE wire'[e] = wire[e] BY <2>1, <2>2, <2>3, <2>4, EndsStay
  <2>5. CASE wire'[e] # wire[e]
    <3>1. e = Peer(q) /\ Peer(e) = q /\ wire'[e] = Append(wire[e], frame) BY <1>2, <1>10, <2>5, Peers
    <3>2. CASE s = k
      <4>1. ~Closed(Peer(e), s) BY <1>7, <3>1, <3>2
      <4>2. wire[e] \in Seq(Frames) BY <1>9 DEF Types
      <4>3. /\ Len(wire[e]) \in Nat /\ Len(wire'[e]) = Len(wire[e]) + 1
            /\ wire'[e][Len(wire[e]) + 1] = frame
            /\ \A i \in 1..Len(wire[e]) : wire'[e][i] = wire[e][i]
        BY <1>5, <3>1, <4>2, LenProperties, AppendProperties
      <4>4. \A i \in 1..Len(wire'[e]) : i = Len(wire[e]) + 1 \/ i \in 1..Len(wire[e]) BY <4>3
      <4>5. up[e] => \A i \in 1..Len(wire'[e]) : ~(wire'[e][i].id = s /\ wire'[e][i].kind = "FIN")
        BY <1>3, <2>1, <4>1, <4>3, <4>4 DEF EndsLast
      <4>6. ~(cur[e] # <<>> /\ cur[e][1].frame.kind = "FIN" /\ cur[e][1].to = First(e, s))
            /\ \A i \in 1..Len(ch[First(e, s)]) : ch[First(e, s)][i] # 0
        BY <2>1, <4>1 DEF EndsLast
      <4> QED BY <2>3, <4>5, <4>6 DEF EndsLast, First
    <3>3. CASE s # k
      <4>1. NumberOf(frame, s) = 0 /\ frame.id # s BY <1>3, <3>3 DEF NumberOf
      <4> QED BY <1>5, <2>1, <2>2, <2>3, <3>1, <4>1, EndsAppend DEF Polite
    <3> QED BY <3>2, <3>3
  <2> QED BY <2>4, <2>5
<1>13. NoResets'
  <2>1. UNCHANGED <<shut, cur>> BY <1>1 DEF chans
  <2>2. frame.kind # "RST" BY <1>3
  <2> QED BY <1>5, <1>9, <1>10, <2>1, <2>2, ResetsStay
<1> QED BY <1>11, <1>12, <1>13 DEF Civil

LEMMA PoliteClose ==
  ASSUME Polite, MuxAssumption, NEW h \in Handles, Close(h)
  PROVE  Civil' /\ NoResets'
<1> DEFINE q == h[1]
           k == h[2]
           frame == Frame(k, "FIN", 0)
<1>1. /\ handle[h] = "open"
      /\ Send(q, frame) \/ UNCHANGED wire
      /\ handle' = [handle EXCEPT ![h] = "closed"] /\ reg' = [reg EXCEPT ![<<q, k>>] = 0]
      /\ UNCHANGED <<polite, cur, made, chans, sent, accept, up>>
      /\ \/ eof[h]
         \/ k \in OneWay /\ q = Opener(k)
         \/ k \in OneWay /\ Len(got[h]) = MaxWrites
         \/ k \notin OneWay /\ q = Opener(k) /\ Len(got[h]) = sent[<<q, k>>]
  BY DEF Close, MayClose, Polite, Forget
<1>2. q \in Ends /\ k \in Streams /\ h = First(q, k) BY <1>1, Triples, OnlyFirst
<1>3. frame.id = k /\ frame.kind = "FIN" BY DEF Frame
<1>4. frame \in Frames BY <1>2, Bounds DEF Frame, Frames
<1> HIDE DEF q, k, frame
<1>5. handle'[h] = "closed" /\ \A g \in Handles : g # h => handle'[g] = handle[g]
  BY <1>1 DEF Polite, ObjectInv, HandleTypes
<1>6. \A z \in Ends \X Streams : z # <<q, k>> => reg'[z] = reg[z]
  BY <1>1 DEF Polite, OrderInv, IInv, Types
<1>7. ASSUME NEW e \in Ends, NEW s \in Streams
      PROVE  /\ e = q /\ s = k => Closed(e, s)'
             /\ ~(e = q /\ s = k) => Closed(e, s)' = Closed(e, s)
  <2>1. First(e, s) \in Handles /\ (First(e, s) = h <=> e = q /\ s = k) BY <1>2, FirstHandle DEF First
  <2>2. Closed(e, s)' = (handle'[First(e, s)] = "closed") BY DEF Closed, First
  <2> QED BY <1>5, <2>1, <2>2 DEF Closed
<1>8. Types BY DEF Polite, OrderInv, IInv
<1>9. ASSUME NEW e \in Ends PROVE wire'[e] = wire[e] \/ (e = Peer(q) /\ wire'[e] = Append(wire[e], frame))
  BY <1>1, <1>2, <1>8, SendPlaces
<1>10. up[q] => Len(got[h]) = sent[<<Peer(q), k>>] /\ Mute(Peer(q), k)
  <2> DEFINE p == Peer(q)
  <2>1. p \in Ends /\ p # q /\ Peer(p) = q BY <1>2, Peers
  <2>2. Courteous(q, k) /\ Courteous(p, k) BY <1>2, <2>1, PoliteFacts DEF Civil
  <2>3. /\ Len(got[h]) \in Nat /\ sent[<<p, k>>] \in 0..MaxWrites /\ sent[<<q, k>>] \in 0..MaxWrites
        /\ Len(got[h]) <= sent[<<p, k>>] /\ MaxWrites \in Nat
    BY <1>2, Counts
  <2>4. Len(got[First(p, k)]) \in Nat /\ Len(got[First(p, k)]) <= sent[<<q, k>>]
    BY <1>2, <2>1, Counts
  <2> HIDE DEF p
  <2>5. CASE eof[h] BY <1>2, <2>2, <2>5 DEF Courteous, Mute, p
  <2>6. CASE k \in OneWay /\ q = Opener(k)
    <3>1. sent[<<p, k>>] <= 0 BY <2>1, <2>2, <2>6 DEF Courteous
    <3>2. Mute(p, k) BY <2>1, <2>6 DEF Mute
    <3> QED BY <2>3, <3>1, <3>2 DEF p
  <2>7. CASE k \in OneWay /\ Len(got[h]) = MaxWrites
    <3>1. sent[<<p, k>>] = MaxWrites BY <2>3, <2>7
    <3> QED BY <2>7, <3>1 DEF Mute, p
  <2>8. CASE k \notin OneWay /\ q = Opener(k) /\ Len(got[h]) = sent[<<q, k>>]
    <3>1. sent[<<p, k>>] <= Len(got[First(p, k)]) BY <2>1, <2>2, <2>8 DEF Courteous
    <3>2. sent[<<p, k>>] = sent[<<q, k>>] BY <2>3, <2>4, <2>8, <3>1
    <3>3. Mute(p, k) BY <2>1, <2>3, <2>8, <3>2 DEF Mute
    <3> QED BY <2>8, <3>2, <3>3 DEF p
  <2> QED BY <1>1, <2>5, <2>6, <2>7, <2>8
<1>11. UNCHANGED <<made, up, eof, sent, got, ch, cur, shut>> BY <1>1 DEF chans
<1>12. ASSUME NEW e \in Ends, NEW s \in Streams PROVE Courteous(e, s)'
  <2>1. Courteous(e, s) BY PoliteFacts DEF Civil
  <2>2. Peer(e) \in Ends /\ Peer(e) # e /\ <<e, s>> \in Ends \X Streams BY Peers, FirstHandle
  <2>3. Closed(Peer(e), s) => Closed(Peer(e), s)' BY <1>7, <2>2
  <2>4. CASE e = q /\ s = k
    <3>1. Closed(e, s)' BY <1>7, <2>4
    <3>2. Mute(Peer(e), s) => Mute(Peer(e), s)' BY <1>11, <2>3 DEF Mute
    <3>3. up[e] => Len(got[First(e, s)]) = sent[<<Peer(e), s>>] /\ Mute(Peer(e), s)'
      BY <1>2, <1>10, <2>4, <3>2
    <3> QED BY <1>11, <2>1, <2>3, <3>1, <3>3 DEF Courteous, First
  <2>5. CASE ~(e = q /\ s = k)
    <3>1. Closed(e, s)' = Closed(e, s) BY <1>7, <2>5
    <3>2. reg'[<<e, s>>] = reg[<<e, s>>] BY <1>6, <2>2, <2>5
    <3> QED BY <1>11, <2>1, <2>3, <3>1, <3>2, CourteousStays
  <2> QED BY <2>4, <2>5
<1>13. ASSUME NEW e \in Ends, NEW s \in Streams PROVE EndsLast(e, s)'
  <2>1. EndsLast(e, s) BY PoliteFacts DEF Civil
  <2>2. Closed(Peer(e), s) => Closed(Peer(e), s)' BY <1>7, Peers
  <2>3. CASE wire'[e] = wire[e] BY <1>11, <2>1, <2>2, <2>3, EndsStay
  <2>4. CASE wire'[e] # wire[e]
    <3>1. e = Peer(q) /\ Peer(e) = q /\ wire'[e] = Append(wire[e], frame) BY <1>2, <1>9, <2>4, Peers
    <3>2. NumberOf(frame, s) = 0 BY <1>3 DEF NumberOf
    <3>3. frame.id = s => Closed(Peer(e), s)' BY <1>2, <1>3, <1>7, <3>1
    <3> QED BY <1>4, <1>11, <2>1, <2>2, <3>1, <3>2, <3>3, EndsAppend DEF Polite
  <2> QED BY <2>3, <2>4
<1>14. NoResets'
  <2>1. frame.kind # "RST" BY <1>3
  <2> QED BY <1>4, <1>9, <1>11, <2>1, ResetsStay
<1> QED BY <1>12, <1>13, <1>14 DEF Civil

\* The end of a stream is read when there is nothing more to read.
LEMMA EndIsLast ==
  ASSUME Polite, MuxAssumption, NEW e \in Ends, NEW s \in Streams, up[e],
         handle[First(e, s)] = "open", ch[First(e, s)] # <<>>, Head(ch[First(e, s)]) = 0
  PROVE  Len(got[First(e, s)]) = sent[<<Peer(e), s>>] /\ Closed(Peer(e), s)
<1> DEFINE h == First(e, s)
           a == Len(got[h])
<1>1. h \in Handles /\ ch[h] \in Seq(Nat) BY FirstHandle DEF Polite, OrderInv, QueueTypes
<1>2. ch[h][1] = 0 /\ Len(ch[h]) \in Nat /\ Len(ch[h]) >= 1
  BY <1>1, HeadTailProperties, LenProperties, EmptySeq
<1>3. EndsLast(e, s) BY PoliteFacts DEF Civil
<1>4. 1 \in 1..Len(ch[h]) BY <1>2
<1>5. /\ Closed(Peer(e), s) /\ Dry(e, s) /\ ~HandData(e, s)
      /\ \A j \in 1..Len(ch[h]) : 1 < j => ch[h][j] = 0
  BY <1>2, <1>3, <1>4 DEF EndsLast
<1>6. \A j \in 1..Len(ch[h]) : ch[h][j] = 0
  <2>1. \A j \in 1..Len(ch[h]) : j = 1 \/ 1 < j BY <1>2
  <2> QED BY <1>2, <1>5, <2>1
<1>7. PICK b, t \in Nat : Pipe(e, s, b, t) BY DEF Polite, OrderInv, PipeInv
<1>8. t = sent[<<Peer(e), s>>] BY <1>5, <1>7, DryHasAll
<1>9. t = b BY <1>5, <1>7, OpenKnown DEF Pipe
<1>10. a \in Nat /\ a <= b /\ InOrder(ch[h], a, b) BY <1>7, Counts DEF Pipe
<1> HIDE DEF h, a
<1>11. b = a
  <2> SUFFICES ASSUME a < b PROVE FALSE BY <1>10
  <2>0. a + 1 \in Nat /\ a < a + 1 /\ a + 1 <= b BY <1>10
  <2>1. PICK i \in 1..Len(ch[h]) : ch[h][i] = a + 1 BY <1>10, <2>0 DEF InOrder
  <2> QED BY <1>6, <1>10, <2>1
<1> QED BY <1>5, <1>8, <1>9, <1>11 DEF h, a

LEMMA PoliteRead ==
  ASSUME Polite, MuxAssumption, NEW h \in Handles, Read(h) \/ ReadEnd(h)
  PROVE  Civil' /\ NoResets'
<1> DEFINE q == h[1]
           k == h[2]
<1>1. handle[h] = "open" /\ ~eof[h] BY DEF Read, ReadEnd
<1>2. q \in Ends /\ k \in Streams /\ h = First(q, k) BY <1>1, Triples, OnlyFirst
<1>3. UNCHANGED <<polite, wire, cur, reg, made, handle, shut, sent, accept, up>> BY DEF Read, ReadEnd
<1>4. eof \in [Handles -> BOOLEAN] /\ ch \in [Handles -> Seq(Nat)] /\ got \in [Handles -> Seq(Nat)]
  BY DEF Polite, OrderInv, QueueTypes, ObjectInv, HandleTypes
<1> HIDE DEF q, k
<1>5. \A g \in Handles : g # h => eof'[g] = eof[g] /\ ch'[g] = ch[g] /\ got'[g] = got[g]
  BY <1>4 DEF Read, ReadEnd
<1>6. ch'[h] = ch[h] \/ (ch[h] # <<>> /\ ch'[h] = Tail(ch[h])) BY <1>4 DEF Read, ReadEnd
<1>7. Len(got'[h]) >= Len(got[h])
  <2>1. got[h] \in Seq(Nat) /\ Len(got[h]) \in Nat BY <1>4, LenProperties
  <2>2. CASE got'[h] = got[h] BY <2>1, <2>2
  <2>3. CASE got'[h] # got[h]
    <3>1. ch[h] # <<>> /\ got'[h] = Append(got[h], Head(ch[h])) BY <1>4, <2>3 DEF Read, ReadEnd
    <3>2. Head(ch[h]) \in Nat BY <1>4, <3>1, HeadTailProperties
    <3> QED BY <2>1, <3>1, <3>2, AppendProperties
  <2> QED BY <2>2, <2>3
<1>8. eof'[h] => ~up[q] \/ (ch[h] # <<>> /\ Head(ch[h]) = 0 /\ got'[h] = got[h])
  <2>1. ReadEnd(h) => ~up[q] BY PoliteFacts DEF ReadEnd, NoResets, q
  <2>2. Read(h) /\ eof'[h] => ch[h] # <<>> /\ Head(ch[h]) = 0 /\ got'[h] = got[h]
    BY <1>1 DEF Read
  <2> QED BY <2>1, <2>2
<1>9. ASSUME NEW e \in Ends, NEW s \in Streams PROVE Closed(e, s)' = Closed(e, s)
  BY <1>3 DEF Closed, First
<1>10. ASSUME NEW e \in Ends, NEW s \in Streams PROVE Courteous(e, s)' /\ EndsLast(e, s)'
  <2>1. Courteous(e, s) /\ EndsLast(e, s) BY PoliteFacts DEF Civil
  <2>2. Closed(e, s)' = Closed(e, s) /\ Closed(Peer(e), s)' = Closed(Peer(e), s) BY <1>9, Peers
  <2>3. First(e, s) \in Handles /\ (First(e, s) = h <=> e = q /\ s = k) BY <1>2, FirstHandle DEF First
  <2>4. CASE e = q /\ s = k
    <3>1. ~Closed(e, s)' BY <1>1, <2>2, <2>3, <2>4 DEF Closed
    <3>2. e # Opener(s) => sent[<<e, s>>] <= IF s \in OneWay THEN 0 ELSE Len(got'[First(e, s)])
      <4>1. e # Opener(s) => sent[<<e, s>>] <= IF s \in OneWay THEN 0 ELSE Len(got[First(e, s)])
        BY <2>1 DEF Courteous
      <4>2. sent[<<e, s>>] \in 0..MaxWrites /\ Len(got[h]) \in Nat /\ Len(got'[h]) >= Len(got[h])
        BY <1>2, <1>7, <2>4, Counts
      <4>3. got'[h] \in Seq(Nat)
        <5>1. ch[h] # <<>> => Append(got[h], Head(ch[h])) \in Seq(Nat)
          BY <1>4, HeadTailProperties, AppendProperties
        <5> QED BY <1>4, <5>1 DEF Read, ReadEnd
      <4>4. Len(got'[h]) \in Nat BY <4>3, LenProperties
      <4> QED BY <2>3, <2>4, <4>1, <4>2, <4>4
    <3>3. up[e] /\ eof'[First(e, s)] =>
            Len(got'[First(e, s)]) = sent[<<Peer(e), s>>] /\ Closed(Peer(e), s)'
      BY <1>1, <1>8, <2>2, <2>3, <2>4, EndIsLast
    <3>4. Courteous(e, s)' BY <1>3, <2>1, <2>2, <3>1, <3>2, <3>3 DEF Courteous, First
    <3>5. EndsLast(e, s)'
      <4>1. CASE ch'[h] = ch[h] BY <1>3, <2>1, <2>2, <2>3, <2>4, <4>1, EndsStay
      <4>2. CASE ch[h] # <<>> /\ ch'[h] = Tail(ch[h])
        <5> DEFINE r == ch[First(e, s)]
                   n == Len(r)
        <5>0. r \in Seq(Nat) /\ r # <<>> /\ ch'[First(e, s)] = Tail(r) BY <1>4, <2>3, <2>4, <4>2
        <5>1. /\ n \in Nat /\ n >= 1 /\ Len(ch'[First(e, s)]) = n - 1
              /\ \A i \in 1..n - 1 : ch'[First(e, s)][i] = r[i + 1]
          <6> HIDE DEF r
          <6> QED BY <5>0, HeadTailProperties, LenProperties, EmptySeq
        <5>2. \A i \in 1..n : r[i] = 0 =>
                /\ Closed(Peer(e), s) /\ Dry(e, s) /\ ~HandData(e, s)
                /\ \A j \in 1..n : i < j => r[j] = 0
          BY <2>1 DEF EndsLast
        <5> HIDE DEF n, r
        <5>3. Dry(e, s)' = Dry(e, s) /\ HandData(e, s)' = HandData(e, s)
          BY <1>3 DEF Dry, HandData, First
        <5>4. ASSUME NEW i \in 1..Len(ch'[First(e, s)]), ch'[First(e, s)][i] = 0
              PROVE  /\ Closed(Peer(e), s)' /\ Dry(e, s)' /\ ~HandData(e, s)'
                     /\ \A j \in 1..Len(ch'[First(e, s)]) : i < j => ch'[First(e, s)][j] = 0
          <6>1. i \in 1..n - 1 /\ i + 1 \in 1..n /\ r[i + 1] = 0 BY <5>1, <5>4
          <6>2. \A j \in 1..n - 1 : j + 1 \in 1..n /\ (i < j => i + 1 < j + 1) BY <5>1, <6>1
          <6> QED BY <2>2, <5>1, <5>2, <5>3, <6>1, <6>2
        <5> QED BY <1>3, <2>1, <2>2, <5>3, <5>4 DEF EndsLast, First
      <4> QED BY <1>6, <4>1, <4>2
    <3> QED BY <3>4, <3>5
  <2>5. CASE ~(e = q /\ s = k)
    <3>1. First(e, s) # h BY <2>3, <2>5
    <3>2. ch'[First(e, s)] = ch[First(e, s)] /\ got'[First(e, s)] = got[First(e, s)]
          /\ eof'[First(e, s)] = eof[First(e, s)]
      BY <1>5, <2>3, <3>1
    <3>3. Courteous(e, s)' BY <1>3, <2>1, <2>2, <3>2, CourteousStays
    <3>4. EndsLast(e, s)' BY <1>3, <2>1, <2>2, <3>2, EndsStay
    <3> QED BY <3>3, <3>4
  <2> QED BY <2>4, <2>5
<1>11. NoResets' BY <1>3, PoliteFacts DEF NoResets
<1> QED BY <1>10, <1>11 DEF Civil

\* The frames left on a wire once the first is taken.
LEMMA TakenFrame ==
  ASSUME Polite, MuxAssumption, NEW d \in Ends, wire[d] # <<>>, wire' = [wire EXCEPT ![d] = Tail(@)]
  PROVE  /\ Head(wire[d]) \in Frames /\ Head(wire[d]) = wire[d][1] /\ 1 \in 1..Len(wire[d])
         /\ Len(wire[d]) \in Nat /\ Len(wire'[d]) = Len(wire[d]) - 1
         /\ \A i \in 1..Len(wire'[d]) : i + 1 \in 1..Len(wire[d]) /\ wire'[d][i] = wire[d][i + 1]
         /\ \A e \in Ends : e # d => wire'[e] = wire[e]
<1>1. wire \in [Ends -> Seq(Frames)] BY DEF Polite, OrderInv, IInv, Types
<1>2. wire'[d] = Tail(wire[d]) /\ \A e \in Ends : e # d => wire'[e] = wire[e] BY <1>1
<1> DEFINE q == wire[d]
<1>3. q \in Seq(Frames) /\ q # <<>> BY <1>1
<1> HIDE DEF q
<1>4. /\ Head(q) = q[1] /\ Head(q) \in Frames /\ Len(q) \in Nat /\ Len(q) >= 1
      /\ Len(Tail(q)) = Len(q) - 1 /\ \A i \in 1..Len(q) - 1 : Tail(q)[i] = q[i + 1]
  BY <1>3, HeadTailProperties, LenProperties, EmptySeq
<1>5. 1 \in 1..Len(q) /\ \A i \in 1..Len(q) - 1 : i + 1 \in 1..Len(q) BY <1>4
<1>6. wire'[d] = Tail(q) BY <1>2 DEF q
<1>7. /\ Len(wire'[d]) = Len(q) - 1
      /\ \A i \in 1..Len(wire'[d]) : i + 1 \in 1..Len(q) /\ wire'[d][i] = q[i + 1]
  BY <1>4, <1>5, <1>6
<1> QED BY <1>2, <1>4, <1>5, <1>7 DEF q

\* DATA for a stream an end has closed does not come: a polite end has read
\* all that was sent.
LEMMA NoLateData ==
  ASSUME Polite, MuxAssumption, NEW d \in Ends, up[d], wire[d] # <<>>,
         Head(wire[d]).kind = "DATA", reg[<<d, Head(wire[d]).id>>] = 0
  PROVE  made[<<d, Head(wire[d]).id>>] = 0
<1> DEFINE f == Head(wire[d])
           k == f.id
           num == Numbers(wire[d], k)
           top == sent[<<Peer(d), k>>]
<1>1. wire[d] \in Seq(Frames) BY DEF Polite, OrderInv, IInv, Types
<1>2. f \in Frames /\ f = wire[d][1] /\ 1 \in 1..Len(wire[d])
  BY <1>1, HeadTailProperties, LenProperties, EmptySeq
<1>3. k \in Streams BY <1>2 DEF Frames
<1>4. NumberOf(f, k) # 0 BY <1>2 DEF Polite, OrderInv, QueueTypes, NumberOf
<1>5. num \in Seq(Nat) /\ num # <<>> /\ Head(num) # 0 BY <1>1, <1>4, NumbersOf
<1>6. PICK b, t \in Nat : Pipe(d, k, b, t) BY <1>3 DEF Polite, OrderInv, PipeInv
<1>7. Len(got[First(d, k)]) \in Nat /\ top \in Nat BY <1>3, Counts, Bounds
<1>8. /\ Len(got[First(d, k)]) <= b /\ InOrder(num, t, top)
      /\ (IF HandData(d, k) THEN b + 1 ELSE b) <= t
  BY <1>6 DEF Pipe
<1> HIDE DEF num, top
<1>9. t + 1 <= top BY <1>5, <1>7, <1>8, OrderTail
<1>10. Len(got[First(d, k)]) # top BY <1>7, <1>8, <1>9
<1>11. Courteous(d, k) BY <1>3, PoliteFacts DEF Civil
<1>12. ~(made[<<d, k>>] = 1) BY <1>10, <1>11 DEF Courteous, top
<1>13. made[<<d, k>>] \in {0, 1} BY <1>3, Counts
<1> QED BY <1>12, <1>13

LEMMA PoliteReadFrame ==
  ASSUME Polite, MuxAssumption, NEW d \in Ends, ReadFrame(d)
  PROVE  Civil' /\ NoResets' /\ (\A e \in Ends, s \in Streams : made'[<<e, s>>] <= 1)
<1> DEFINE f == Head(wire[d])
           k == f.id
           known == reg[<<d, k>>] # 0
           g == IF known THEN reg[<<d, k>>] ELSE made[<<d, k>>] + 1
           taken == [frame |-> f, to |-> <<d, k, g>>, fresh |-> ~known]
<1>1. /\ up[d] /\ cur[d] = <<>> /\ wire[d] # <<>> /\ wire' = [wire EXCEPT ![d] = Tail(@)]
      /\ UNCHANGED <<polite, handle, chans, sent, accept, up>>
  BY DEF ReadFrame
<1>2. f \in Frames /\ f = wire[d][1] /\ 1 \in 1..Len(wire[d]) /\ k \in Streams
  BY <1>1, TakenFrame DEF Frames
<1>3. <<d, k>> \in Ends \X Streams /\ DOMAIN cur = Ends BY <1>2 DEF Polite, OrderInv, IInv, Types
<1>4. (~known /\ f.kind # "DATA") \/ g = 1
  <2>1. reg[<<d, k>>] \in {0, 1} BY <1>2, Counts
  <2>2. ~known /\ f.kind = "DATA" => made[<<d, k>>] = 0 BY <1>1, NoLateData
  <2> QED BY <2>1, <2>2
<1>5. /\ \/ cur'[d] = <<>>
         \/ /\ cur'[d] # <<>> /\ cur'[d][1].frame = f /\ cur'[d][1].to = First(d, k)
            /\ reg'[<<d, k>>] = 1 /\ made'[<<d, k>>] \in {1, made[<<d, k>>]}
      /\ cur'[d] = <<>> => UNCHANGED <<reg, made>>
      /\ \A e \in Ends : e # d => cur'[e] = cur[e]
      /\ \A z \in Ends \X Streams : z # <<d, k>> => reg'[z] = reg[z] /\ made'[z] = made[z]
  <2>1. CASE ~known /\ f.kind # "DATA"
    <3>1. UNCHANGED <<cur, reg, made>> BY <2>1 DEF ReadFrame
    <3> QED BY <1>1, <3>1
  <2>2. CASE ~(~known /\ f.kind # "DATA")
    <3>1. /\ cur' = [cur EXCEPT ![d] = <<taken>>] /\ reg' = [reg EXCEPT ![<<d, k>>] = g]
          /\ made' = [made EXCEPT ![<<d, k>>] = IF known THEN made[<<d, k>>] ELSE g]
      BY <2>2 DEF ReadFrame
    <3>2. g = 1 BY <1>4, <2>2
    <3>3. taken.frame = f /\ taken.to = First(d, k) BY <3>2 DEF First
    <3> HIDE DEF taken, g, known, f, k
    <3>4. cur'[d] = <<taken>> /\ \A e \in Ends : e # d => cur'[e] = cur[e] BY <1>3, <3>1
    <3>5. /\ reg \in [Ends \X Streams -> 0..MaxObjects] /\ made \in [Ends \X Streams -> 0..MaxObjects]
      BY DEF Polite, OrderInv, IInv, Types
    <3>6. reg'[<<d, k>>] = 1 /\ made'[<<d, k>>] \in {1, made[<<d, k>>]}
          /\ \A z \in Ends \X Streams : z # <<d, k>> => reg'[z] = reg[z] /\ made'[z] = made[z]
      BY <1>3, <3>1, <3>2, <3>5
    <3>7. cur'[d] # <<>> /\ cur'[d][1] = taken BY <3>4
    <3> QED BY <3>3, <3>4, <3>6, <3>7
  <2> QED BY <2>1, <2>2
<1> HIDE DEF taken, g, known, k
<1>6. /\ Len(wire[d]) \in Nat /\ Len(wire'[d]) = Len(wire[d]) - 1
      /\ \A i \in 1..Len(wire'[d]) : i + 1 \in 1..Len(wire[d]) /\ wire'[d][i] = wire[d][i + 1]
      /\ \A e \in Ends : e # d => wire'[e] = wire[e]
  BY <1>1, TakenFrame
<1>7. ASSUME NEW e \in Ends, NEW s \in Streams PROVE Courteous(e, s)' /\ made'[<<e, s>>] <= 1
  <2>1. Courteous(e, s) BY PoliteFacts DEF Civil
  <2>2. <<e, s>> \in Ends \X Streams /\ made[<<e, s>>] \in {0, 1} BY FirstHandle, Counts
  <2>3. Closed(e, s)' = Closed(e, s) /\ Closed(Peer(e), s)' = Closed(Peer(e), s)
    BY <1>1 DEF Closed, First
  <2>4. CASE reg'[<<e, s>>] = 1 /\ made'[<<e, s>>] \in {1, made[<<e, s>>]}
    <3>1. Courteous(e, s)' BY <1>1, <2>1, <2>3, <2>4, CourteousStays DEF chans
    <3> QED BY <2>2, <2>4, <3>1
  <2>5. CASE reg'[<<e, s>>] = reg[<<e, s>>] /\ made'[<<e, s>>] = made[<<e, s>>]
    <3>1. Courteous(e, s)' BY <1>1, <2>1, <2>3, <2>5, CourteousStays DEF chans
    <3> QED BY <2>2, <2>5, <3>1
  <2> QED BY <1>3, <1>5, <2>2, <2>4, <2>5
<1>8. ASSUME NEW e \in Ends, NEW s \in Streams PROVE EndsLast(e, s)'
  <2>1. EndsLast(e, s) BY PoliteFacts DEF Civil
  <2>2. Closed(Peer(e), s)' = Closed(Peer(e), s) BY <1>1 DEF Closed, First
  <2>3. ch' = ch /\ up' = up BY <1>1 DEF chans
  <2>4. CASE e # d BY <1>5, <1>6, <2>1, <2>2, <2>3, <2>4, EndsStay
  <2>5. CASE e = d
    <3>1. Dry(d, s) => Dry(d, s)' BY <1>6, <2>3 DEF Dry
    <3>2. \A i \in 1..Len(wire'[d]) :
            wire'[d][i].id = s /\ wire'[d][i].kind = "FIN" =>
              /\ Closed(Peer(d), s)
              /\ \A j \in 1..Len(wire'[d]) : i < j => NumberOf(wire'[d][j], s) = 0
      <4> SUFFICES ASSUME NEW i \in 1..Len(wire'[d]), wire'[d][i].id = s, wire'[d][i].kind = "FIN"
                   PROVE  /\ Closed(Peer(d), s)
                          /\ \A j \in 1..Len(wire'[d]) : i < j => NumberOf(wire'[d][j], s) = 0
        OBVIOUS
      <4>1. i + 1 \in 1..Len(wire[d]) /\ wire[d][i + 1].id = s /\ wire[d][i + 1].kind = "FIN"
        BY <1>6
      <4>2. Closed(Peer(d), s)
            /\ \A j \in 1..Len(wire[d]) : i + 1 < j => NumberOf(wire[d][j], s) = 0
        BY <1>1, <2>1, <2>5, <4>1 DEF EndsLast
      <4>3. \A j \in 1..Len(wire'[d]) : i < j => i + 1 < j + 1 BY <1>6
      <4>4. \A j \in 1..Len(wire'[d]) : j + 1 \in 1..Len(wire[d]) /\ wire'[d][j] = wire[d][j + 1]
        BY <1>6
      <4> QED BY <4>2, <4>3, <4>4
    <3>3. cur'[d] # <<>> /\ cur'[d][1].frame.kind = "FIN" /\ cur'[d][1].to = First(d, s) =>
            Closed(Peer(d), s) /\ Dry(d, s)'
      <4> SUFFICES ASSUME cur'[d] # <<>>, cur'[d][1].frame.kind = "FIN", cur'[d][1].to = First(d, s)
                   PROVE  Closed(Peer(d), s) /\ Dry(d, s)'
        OBVIOUS
      <4>1. f.kind = "FIN" /\ k = s BY <1>5 DEF First
      <4>2. wire[d][1].id = s /\ wire[d][1].kind = "FIN" BY <1>2, <4>1 DEF k
      <4>3. Closed(Peer(d), s)
            /\ \A j \in 1..Len(wire[d]) : 1 < j => NumberOf(wire[d][j], s) = 0
        BY <1>1, <1>2, <2>1, <2>5, <4>2 DEF EndsLast
      <4>4. \A i \in 1..Len(wire'[d]) : 1 < i + 1 BY <1>6
      <4>5. Dry(d, s)' BY <1>6, <4>3, <4>4 DEF Dry
      <4> QED BY <4>3, <4>5
    <3>4. \A i \in 1..Len(ch[First(d, s)]) : ch[First(d, s)][i] = 0 =>
            /\ Closed(Peer(d), s) /\ Dry(d, s)' /\ ~HandData(d, s)'
            /\ \A j \in 1..Len(ch[First(d, s)]) : i < j => ch[First(d, s)][j] = 0
      <4> SUFFICES ASSUME NEW i \in 1..Len(ch[First(d, s)]), ch[First(d, s)][i] = 0,
                          HandData(d, s)'
                   PROVE  FALSE
        BY <2>1, <2>5, <3>1 DEF EndsLast
      <4>1. Dry(d, s) BY <2>1, <2>5 DEF EndsLast
      <4>2. f.kind = "DATA" /\ k = s BY <1>5 DEF HandData, First
      <4>3. NumberOf(f, s) = 0 BY <1>1, <1>2, <4>1 DEF Dry
      <4>4. f.n # 0 BY <1>2, <4>2 DEF Polite, OrderInv, QueueTypes
      <4> QED BY <4>2, <4>3, <4>4 DEF NumberOf, k
    <3> QED BY <2>2, <2>3, <2>5, <3>2, <3>3, <3>4 DEF EndsLast, First
  <2> QED BY <2>4, <2>5
<1>9. NoResets'
  <2>1. shut' = shut BY <1>1 DEF chans
  <2>2. f.kind # "RST" BY <1>2, PoliteFacts DEF NoResets
  <2>3. ASSUME NEW e \in Ends, cur'[e] # <<>> PROVE cur'[e][1].frame.kind # "RST"
    BY <1>5, <2>2, <2>3, PoliteFacts DEF NoResets
  <2>4. ASSUME NEW e \in Ends, NEW i \in 1..Len(wire'[e]) PROVE wire'[e][i].kind # "RST"
    <3>1. \A j \in 1..Len(wire[e]) : wire[e][j].kind # "RST" BY PoliteFacts DEF NoResets
    <3>2. CASE e = d
      <4>1. i + 1 \in 1..Len(wire[e]) /\ wire'[e][i] = wire[e][i + 1] BY <1>6, <2>4, <3>2
      <4> QED BY <3>1, <4>1
    <3>3. CASE e # d BY <1>6, <2>4, <3>1, <3>3
    <3> QED BY <3>2, <3>3
  <2> QED BY <2>1, <2>3, <2>4, PoliteFacts DEF NoResets
<1> QED BY <1>7, <1>8, <1>9 DEF Civil

LEMMA PoliteOffer ==
  ASSUME Polite, MuxAssumption, NEW d \in Ends, OfferStream(d)
  PROVE  Civil' /\ NoResets'
<1> DEFINE h == cur[d][1].to
<1>1. UNCHANGED <<polite, wire, reg, made, chans, sent, up>> BY DEF OfferStream
<1>2. h \in Handles /\ handle[h] = "none"
  <2>1. cur[d] # <<>> /\ cur[d][1].fresh BY DEF OfferStream
  <2> QED BY <2>1, HandFirst DEF Polite, ObjectInv, FreshIsNone
<1>3. handle' = handle \/ handle' = [handle EXCEPT ![h] = "queued"]
      \/ handle' = [handle EXCEPT ![h] = "lost"]
  BY DEF OfferStream
<1>4. \A e \in Ends : cur'[e] # <<>> => cur[e] # <<>> /\ cur'[e][1].frame = cur[e][1].frame
                                                      /\ cur'[e][1].to = cur[e][1].to
  <2>1. DOMAIN cur = Ends BY DEF Polite, OrderInv, IInv, Types
  <2>2. \/ cur' = [cur EXCEPT ![d] = <<>>]
        \/ cur' = [cur EXCEPT ![d] = <<[frame |-> cur[d][1].frame, to |-> h, fresh |-> FALSE]>>]
    BY DEF OfferStream
  <2>3. cur[d] # <<>> /\ \A e \in Ends : e # d => cur'[e] = cur[e] BY <2>1, <2>2 DEF OfferStream
  <2>4. cur'[d] = <<>> \/ (cur'[d][1].frame = cur[d][1].frame /\ cur'[d][1].to = cur[d][1].to)
    BY <2>1, <2>2
  <2> QED BY <2>3, <2>4
<1> HIDE DEF h
<1>5. handle'[h] # "closed" /\ \A k \in Handles : k # h => handle'[k] = handle[k]
  BY <1>2, <1>3 DEF Polite, ObjectInv, HandleTypes
<1>6. ASSUME NEW e \in Ends, NEW s \in Streams PROVE Closed(e, s)' = Closed(e, s)
  <2>1. First(e, s) \in Handles BY FirstHandle
  <2>2. Closed(e, s)' = (handle'[First(e, s)] = "closed") BY DEF Closed, First
  <2> QED BY <1>2, <1>5, <2>1, <2>2 DEF Closed
<1>7. ASSUME NEW e \in Ends, NEW s \in Streams PROVE Courteous(e, s)' /\ EndsLast(e, s)'
  <2>1. Courteous(e, s) /\ EndsLast(e, s) BY PoliteFacts DEF Civil
  <2>2. Closed(e, s)' = Closed(e, s) /\ Closed(Peer(e), s)' = Closed(Peer(e), s) BY <1>6, Peers
  <2>3. Courteous(e, s)' BY <1>1, <2>1, <2>2, CourteousStays DEF chans
  <2>4. EndsLast(e, s)' BY <1>1, <1>4, <2>1, <2>2, EndsStay DEF chans
  <2> QED BY <2>3, <2>4
<1>8. NoResets' BY <1>1, <1>4, PoliteFacts DEF NoResets, chans
<1> QED BY <1>7, <1>8 DEF Civil

LEMMA PoliteDispatch ==
  ASSUME Polite, MuxAssumption, NEW d \in Ends, DispatchData(d) \/ DispatchFin(d) \/ DispatchRst(d)
  PROVE  Civil' /\ NoResets'
<1> DEFINE h == cur[d][1].to
           k == h[2]
           c == cur[d][1]
<1>1. cur[d] # <<>> /\ cur' = [cur EXCEPT ![d] = <<>>]
  BY DEF DispatchData, DispatchFin, DispatchRst, Deliver
<1>2. k \in Streams /\ h = First(d, k) /\ h \in Handles /\ ~shut[h] BY <1>1, HandFirst
<1>3. c.frame.kind # "RST" BY <1>1, PoliteFacts DEF NoResets
<1>4. /\ UNCHANGED <<polite, wire, reg, made, handle, shut, eof, got, sent, accept, up>>
      /\ \/ c.frame.kind = "DATA" /\ ch' = [ch EXCEPT ![h] = Append(@, c.frame.n)]
         \/ c.frame.kind = "FIN" /\ (ch' = ch \/ ch' = [ch EXCEPT ![h] = Append(@, 0)])
  BY <1>2, <1>3 DEF DispatchData, DispatchFin, DispatchRst, Misused, Holds
<1>5. cur'[d] = <<>> /\ \A e \in Ends : e # d => cur'[e] = cur[e]
  BY <1>1 DEF Polite, OrderInv, IInv, Types
<1>6. ch \in [Handles -> Seq(Nat)] BY DEF Polite, OrderInv, QueueTypes
<1> HIDE DEF h, k, c
<1>7. ASSUME NEW e \in Ends, NEW s \in Streams PROVE Courteous(e, s)' /\ EndsLast(e, s)'
  <2>1. Courteous(e, s) /\ EndsLast(e, s) BY PoliteFacts DEF Civil
  <2>2. Closed(e, s)' = Closed(e, s) /\ Closed(Peer(e), s)' = Closed(Peer(e), s)
    BY <1>4 DEF Closed, First
  <2>3. Courteous(e, s)' BY <1>4, <2>1, <2>2, CourteousStays
  <2>4. First(e, s) \in Handles /\ (First(e, s) = h <=> e = d /\ s = k) BY <1>2, FirstHandle DEF First
  <2>5. CASE ch'[First(e, s)] = ch[First(e, s)]
    <3>1. EndsLast(e, s)' BY <1>4, <1>5, <2>1, <2>2, <2>5, EndsStay
    <3> QED BY <2>3, <3>1
  <2>6. CASE ch'[First(e, s)] # ch[First(e, s)]
    <3>1. First(e, s) = h /\ e = d /\ s = k BY <1>4, <1>6, <2>4, <2>6
    <3> DEFINE r == ch[h]
               n == Len(r)
               x == IF c.frame.kind = "DATA" THEN c.frame.n ELSE 0
    <3>2. r \in Seq(Nat) /\ ch'[h] = Append(r, x) BY <1>2, <1>4, <1>6, <2>6, <3>1
    <3>3. n \in Nat /\ \A i \in 1..n : r[i] = 0 =>
            /\ Closed(Peer(e), s) /\ Dry(e, s) /\ ~HandData(e, s)
            /\ \A j \in 1..n : i < j => r[j] = 0
      <4>1. n \in Nat BY <3>2, LenProperties
      <4> QED BY <2>1, <3>1, <4>1 DEF EndsLast
    <3>4. x \in Nat
      <4>1. c.frame \in Frames BY <1>1, HandFirst DEF c
      <4> QED BY <4>1, Bounds DEF Frames
    <3>5. c.frame.kind = "DATA" => HandData(e, s) /\ x # 0
      <4> SUFFICES ASSUME c.frame.kind = "DATA" PROVE HandData(e, s) /\ c.frame.n # 0 OBVIOUS
      <4>1. HandData(e, s) BY <1>1, <3>1 DEF HandData, c, h
      <4>2. PICK b, t \in Nat : Pipe(e, s, b, t) BY DEF Polite, OrderInv, PipeInv
      <4>3. c.frame.n = b + 1 BY <3>1, <4>1, <4>2 DEF Pipe, c
      <4> QED BY <4>1, <4>3
    <3>6. c.frame.kind # "DATA" => x = 0 /\ Closed(Peer(e), s) /\ Dry(e, s)
      <4> SUFFICES ASSUME c.frame.kind # "DATA" PROVE Closed(Peer(e), s) /\ Dry(e, s) OBVIOUS
      <4>1. c.frame.kind = "FIN" BY <1>4
      <4> QED BY <1>1, <2>1, <3>1, <4>1 DEF EndsLast, c, h
    <3> HIDE DEF r, n, x
    <3>7. /\ Len(ch'[h]) = n + 1 /\ ch'[h][n + 1] = x
          /\ \A i \in 1..n : ch'[h][i] = r[i]
      BY <3>2, <3>4, AppendProperties DEF n
    <3>8. \A i \in 1..Len(ch'[h]) : i = n + 1 \/ i \in 1..n BY <3>3, <3>7
    <3>9. Dry(e, s)' = Dry(e, s) /\ ~HandData(e, s)' BY <1>4, <1>5, <3>1 DEF Dry, HandData
    <3>10. ASSUME NEW i \in 1..Len(ch'[h]), ch'[h][i] = 0
           PROVE  /\ Closed(Peer(e), s) /\ Dry(e, s)
                  /\ \A j \in 1..Len(ch'[h]) : i < j => ch'[h][j] = 0
      <4>1. CASE c.frame.kind = "DATA"
        <5>1. i \in 1..n /\ r[i] = 0 BY <3>5, <3>7, <3>8, <3>10, <4>1
        <5> QED BY <3>3, <3>5, <4>1, <5>1
      <4>2. CASE c.frame.kind # "DATA"
        <5>1. ASSUME NEW j \in 1..Len(ch'[h]), i < j PROVE ch'[h][j] = 0
          <6>1. CASE j = n + 1 BY <3>6, <3>7, <4>2, <6>1
          <6>2. CASE j \in 1..n
            <7>1. i \in 1..n BY <3>3, <3>8, <3>10, <5>1, <6>2
            <7>2. r[i] = 0 BY <3>7, <3>10, <7>1
            <7> QED BY <3>3, <3>7, <5>1, <6>2, <7>1, <7>2
          <6> QED BY <3>8, <5>1, <6>1, <6>2
        <5> QED BY <3>6, <4>2, <5>1
      <4> QED BY <4>1, <4>2
    <3>11. /\ cur'[e] = <<>>
           /\ up[e] => \A i \in 1..Len(wire[e]) :
                wire[e][i].id = s /\ wire[e][i].kind = "FIN" =>
                  /\ Closed(Peer(e), s)
                  /\ \A j \in 1..Len(wire[e]) : i < j => NumberOf(wire[e][j], s) = 0
      BY <1>5, <2>1, <3>1 DEF EndsLast
    <3>12. \A i \in 1..Len(ch'[First(e, s)]) : ch'[First(e, s)][i] = 0 =>
             /\ Closed(Peer(e), s)' /\ Dry(e, s)' /\ ~HandData(e, s)'
             /\ \A j \in 1..Len(ch'[First(e, s)]) : i < j => ch'[First(e, s)][j] = 0
      BY <2>2, <3>1, <3>9, <3>10
    <3>13. EndsLast(e, s)'
      <4>1. First(e, s)' = First(e, s) BY DEF First
      <4> QED BY <1>4, <2>2, <3>11, <3>12, <4>1 DEF EndsLast
    <3> QED BY <2>3, <3>13
  <2> QED BY <2>5, <2>6
<1>8. NoResets' BY <1>4, <1>5, PoliteFacts DEF NoResets
<1> QED BY <1>7, <1>8 DEF Civil

LEMMA PoliteStart == ASSUME MuxAssumption, Init PROVE PoliteInv
<1>1. /\ \A e \in Ends : wire[e] = <<>> /\ cur[e] = <<>> /\ up[e]
      /\ \A h \in Handles : handle[h] = "none" /\ ch[h] = <<>> /\ got[h] = <<>>
                            /\ eof[h] = FALSE /\ shut[h] = FALSE
      /\ \A z \in Ends \X Streams : made[z] = 0 /\ sent[z] = 0
  BY DEF Init
<1>2. NoPhantoms /\ NoResets
  <2>1. Len(<< >>) = 0 BY EmptySeq
  <2>2. \A e \in Ends, s \in Streams : made[<<e, s>>] = 0 BY <1>1
  <2> QED BY <1>1, <2>1, <2>2 DEF NoPhantoms, NoResets
<1>3. ASSUME NEW e \in Ends, NEW s \in Streams PROVE Courteous(e, s) /\ EndsLast(e, s)
  <2>1. First(e, s) \in Handles /\ <<e, s>> \in Ends \X Streams BY FirstHandle
  <2>2. /\ handle[First(e, s)] = "none" /\ ch[First(e, s)] = <<>> /\ got[First(e, s)] = <<>>
        /\ eof[First(e, s)] = FALSE /\ made[<<e, s>>] = 0 /\ sent[<<e, s>>] = 0
        /\ wire[e] = <<>> /\ cur[e] = <<>>
    BY <1>1, <2>1
  <2>3. Len(<< >>) = 0 BY EmptySeq
  <2> QED BY <2>2, <2>3 DEF Courteous, EndsLast, Closed
<1> QED BY <1>2, <1>3 DEF PoliteInv

LEMMA PoliteStep ==
  ASSUME MuxAssumption, OrderInv, ObjectInv, PoliteInv, [Next]_vars
  PROVE  PoliteInv'
<1> SUFFICES ASSUME polite' PROVE NoPhantoms' /\ NoResets' /\ Civil'
  BY DEF PoliteInv, Civil
<1>1. polite' = polite
  BY DEF Next, vars, ReadLoop, ReadFrame, OfferStream, DispatchData, DispatchFin, DispatchRst, Accept,
         CloseSession, Open, Read, ReadEnd, Write, Close, Reset
<1>2. Polite BY <1>1 DEF Polite
<1>3. ASSUME \A e \in Ends, s \in Streams : made'[<<e, s>>] <= 1 PROVE NoPhantoms'
  BY <1>3 DEF NoPhantoms
<1>4. ASSUME made' = made PROVE NoPhantoms'
  BY <1>2, <1>4, PoliteFacts DEF NoPhantoms
<1>5. CASE UNCHANGED vars
  <2>1. UNCHANGED <<wire, cur, reg, made, handle, ch, shut, eof, got, sent, up>>
    BY <1>5 DEF vars, chans
  <2>2. ASSUME NEW e \in Ends, NEW s \in Streams PROVE Courteous(e, s)' /\ EndsLast(e, s)'
    <3>1. Courteous(e, s) /\ EndsLast(e, s) BY <1>2, PoliteFacts DEF Civil
    <3>2. Closed(e, s)' = Closed(e, s) /\ Closed(Peer(e), s)' = Closed(Peer(e), s)
      BY <2>1 DEF Closed, First
    <3>3. Courteous(e, s)' BY <2>1, <3>1, <3>2, CourteousStays
    <3>4. EndsLast(e, s)' BY <2>1, <3>1, <3>2, EndsStay
    <3> QED BY <3>3, <3>4
  <2>3. NoResets' BY <1>2, <2>1, PoliteFacts DEF NoResets
  <2> QED BY <1>4, <2>1, <2>2, <2>3 DEF Civil
<1>6. ASSUME NEW e \in Ends, ReadLoop(e) \/ Accept(e) \/ CloseSession(e)
      PROVE  NoPhantoms' /\ NoResets' /\ Civil'
  <2>1. CASE ReadFrame(e) BY <1>2, <1>3, <2>1, PoliteReadFrame
  <2>2. CASE OfferStream(e) \/ Accept(e) \/ CloseSession(e)
    <3>1. made' = made BY <2>2 DEF OfferStream, Accept, CloseSession
    <3> QED BY <1>2, <1>4, <2>2, <3>1, PoliteOffer, PoliteAccept, PoliteSession
  <2>3. CASE DispatchData(e) \/ DispatchFin(e) \/ DispatchRst(e)
    <3>1. made' = made BY <2>3 DEF DispatchData, DispatchFin, DispatchRst
    <3> QED BY <1>2, <1>4, <2>3, <3>1, PoliteDispatch
  <2> QED BY <1>6, <2>1, <2>2, <2>3 DEF ReadLoop
<1>7. ASSUME NEW e \in Ends, NEW s \in Streams, Open(e, s)
      PROVE  NoPhantoms' /\ NoResets' /\ Civil'
  BY <1>2, <1>3, <1>7, PoliteOpen
<1>8. ASSUME NEW h \in Handles, Read(h) \/ ReadEnd(h) \/ Write(h) \/ Close(h) \/ Reset(h)
      PROVE  NoPhantoms' /\ NoResets' /\ Civil'
  <2>1. made' = made BY <1>8 DEF Read, ReadEnd, Write, Close, Reset
  <2>2. ~Reset(h) BY <1>2 DEF Reset, Polite
  <2> QED BY <1>2, <1>4, <1>8, <2>1, <2>2, PoliteRead, PoliteWrite, PoliteClose
<1> QED BY <1>5, <1>6, <1>7, <1>8 DEF Next

Whole == OrderInv /\ ObjectInv /\ PoliteInv

LEMMA WholeStart == ASSUME MuxAssumption, Init PROVE Whole
  BY OrderStart, ObjectStart, PoliteStart DEF Whole

LEMMA WholeStep == ASSUME MuxAssumption, Whole, [Next]_vars PROVE Whole'
  BY OrderStep, ObjectStep, PoliteStep DEF Whole

\* Among polite ends no end makes a second object for a stream: no DATA comes
\* for a stream it has closed, and a late FIN makes none (mux.go: dispatch).
THEOREM OneObject == Spec => []NoPhantoms
<1>1. Init => Whole BY WholeStart, MuxAssumption
<1>2. Whole /\ [Next]_vars => Whole' BY WholeStep, MuxAssumption
<1>3. Whole => NoPhantoms BY DEF Whole, PoliteInv, NoPhantoms
<1> QED BY <1>1, <1>2, <1>3, PTL DEF Spec

\* Among polite ends whose session is up, an application that came to the end
\* of a stream has read all that was written on it (mux.go: Stream.Close,
\* dispatch and Stream.Read).
THEOREM EndMeansAll == Spec => []EofMeansAll
<1>1. Init => Whole BY WholeStart, MuxAssumption
<1>2. Whole /\ [Next]_vars => Whole' BY WholeStep, MuxAssumption
<1>3. Whole => EofMeansAll
  BY DEF Whole, PoliteInv, EofMeansAll, BothUp, Courteous
<1> QED BY <1>1, <1>2, <1>3, PTL DEF Spec
=============================================================================
