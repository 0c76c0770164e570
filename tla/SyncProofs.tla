----------------------------- MODULE SyncProofs -----------------------------
(***************************************************************************)
(* Proofs about the sync engine and the branches it moves, for any         *)
(* repositories, links and bounds.  First, that branch tips name commits   *)
(* their own store holds; what carries the argument is the order of the    *)
(* control messages: until it pushes, a dialer has at most one message in  *)
(* flight, and the responder does nothing but answer it.  Then what any    *)
(* step keeps: the ledger is a graph, stores and messages speak of its     *)
(* commits, and once a dialer has pushed the messages come in the order of *)
(* the code (Order); what a repository that only answers syncs may trust:  *)
(* the history behind its tip and behind every tip it confirmed is held,   *)
(* with its objects, whatever fails (Carriage); that a session never loses *)
(* the tip it read, however stale that is by then (BranchesGoForward); and *)
(* that a merge takes what is new on every side whose tree it can read     *)
(* (MergesTakeNews).                                                       *)
(***************************************************************************)
EXTENDS Sync, DagProofs

\* Every variable is a function of the repositories or of the links, and the
\* two ends of a link are records of their fields.
Shape ==
  /\ DOMAIN held = Repos /\ DOMAIN ref = Repos /\ DOMAIN peerRef = Repos
  /\ DOMAIN toR = Links /\ DOMAIN toD = Links /\ DOMAIN data = Links
  /\ DOMAIN dial = Links /\ DOMAIN serve = Links
  /\ \A l \in Links :
       /\ DOMAIN dial[l] = {"pc", "local", "remote", "queue", "fetched", "round"}
       /\ DOMAIN serve[l] = {"pc", "tip", "local", "round"}

\* Nothing is in flight and the responder waits.
Quiet(l) == serve[l].pc = "serve" /\ toR[l] = <<>> /\ toD[l] = <<>>

\* A channel holds one message, of this type.
Only(channel, type) == channel = <<Head(channel)>> /\ Head(channel).type = type

\* Where the messages of a link are while its dialer fetches, and that they
\* carry the dialer's goal, the responder's tip.
Idle(l) ==
  dial[l].pc = "idle" => serve[l].pc = "idle" /\ toR[l] = <<>> /\ toD[l] = <<>>

Greeting(l) ==
  dial[l].pc = "hello" =>
    \/ serve[l].pc = "idle" /\ Only(toR[l], "hello") /\ toD[l] = <<>>
    \/ /\ serve[l].pc = "serve" /\ toR[l] = <<>> /\ Only(toD[l], "hello")
       /\ Head(toD[l]).head \in held[Responder(l)] \union {Nil}

Asking(l) ==
  dial[l].pc = "have" =>
    /\ serve[l].pc = "serve"
    /\ \/ /\ Only(toR[l], "want") /\ toD[l] = <<>>
          /\ dial[l].remote \in held[Dialer(l)] \union Head(toR[l]).commits
       \/ /\ Only(toD[l], "have") /\ toR[l] = <<>>
          /\ dial[l].remote \in held[Dialer(l)] \union Head(toD[l]).commits

Loading(l) ==
  dial[l].pc = "data" =>
    /\ serve[l].pc = "serve" /\ toD[l] = <<>>
    /\ \/ toR[l] = <<>>
       \/ Only(toR[l], "want-objects") /\ data[l].to # "dialer"

Waiting(l) ==
  /\ dial[l].pc \in {"fetch", "objects", "integrate", "push"} => Quiet(l)
  /\ dial[l].pc \in {"idle", "hello", "fetch", "have", "objects"} => data[l].to # "dialer"

Goal(l) ==
  /\ dial[l].pc \in {"fetch", "have"} => dial[l].remote \in held[Responder(l)]
  /\ dial[l].pc = "fetch" => dial[l].remote \in held[Dialer(l)] \union dial[l].queue
  /\ dial[l].pc \in {"objects", "data", "integrate"} => dial[l].remote \in held[Dialer(l)]
  /\ serve[l].pc \in {"objects", "data", "integrate"} => serve[l].tip \in held[Responder(l)]

Protocol(l) ==
  Idle(l) /\ Greeting(l) /\ Asking(l) /\ Loading(l) /\ Waiting(l) /\ Goal(l)

IInv == Shape /\ RefsHeld /\ \A l \in Links : Protocol(l)

-----------------------------------------------------------------------------

\* Taking the only message of a channel.
LEMMA OnlyMessage ==
  ASSUME NEW s, NEW type, Only(s, type)
  PROVE  Tail(s) = <<>> /\ s # <<>>
<1>1. \A m : Tail(<<m>>) = <<>> /\ <<m>> # <<>>
  OBVIOUS
<1>2. s = <<Head(s)>>
  BY DEF Only
<1> QED BY <1>1, <1>2, Zenon

\* Sending on an empty channel.
LEMMA FirstMessage ==
  ASSUME NEW m
  PROVE  <<>> \o <<m>> = <<m>> /\ Head(<<m>>) = m
  OBVIOUS

\* An end of a link moves on, or starts over.
LEMMA MovesOn ==
  ASSUME NEW ends, NEW l \in DOMAIN ends, DOMAIN ends[l] = {"pc", "tip", "local", "round"},
         NEW pc, NEW local, NEW round, NEW moved,
         \/ moved = [ends EXCEPT ![l].pc = pc]
         \/ moved = [ends EXCEPT ![l].pc = pc, ![l].local = local]
         \/ moved = [ends EXCEPT ![l].pc = pc, ![l].round = round]
  PROVE  moved[l].pc = pc /\ moved[l].tip = ends[l].tip
  OBVIOUS

\* What a step of link l does: stores grow, other links stay as they are, and
\* the invariant holds of the rest.
Grows == \A repo \in Repos : held[repo] \subseteq held'[repo]

Same(l) ==
  /\ dial'[l] = dial[l] /\ serve'[l] = serve[l]
  /\ toR'[l] = toR[l] /\ toD'[l] = toD[l] /\ data'[l] = data[l]

Elsewhere(l) == \A k \in Links \ {l} : Same(k)

Kept(l) == Shape' /\ RefsHeld' /\ Protocol(l)' /\ Grows /\ Elsewhere(l)

\* A link is not disturbed by what happens elsewhere.
LEMMA Undisturbed ==
  ASSUME NEW l \in Links, SyncAssumption, Protocol(l), Grows, Same(l)
  PROVE  Protocol(l)'
  BY DEF SyncAssumption, Protocol, Idle, Greeting, Asking, Loading, Waiting, Quiet, Goal, Dialer,
     Responder, Grows, Same

LEMMA DialKeeps ==
  ASSUME IInv, SyncAssumption, NEW l \in Links, Dial(l)
  PROVE  Kept(l)
<1> USE DEF IInv, SyncAssumption, Dial, repoVars, ToResponder, Goto, Dialer, Responder
<1>1. Shape'
  BY DEF Shape
<1>2. RefsHeld'
  BY DEF Shape, RefsHeld
<1>3. Protocol(l)'
  <2>1. dial'[l].pc = "hello" /\ serve'[l].pc = "idle" /\ toR'[l] = <<[type |-> "hello"]>> /\ toD'[l] = <<>>
    BY FirstMessage DEF Shape, Protocol, Idle
  <2>2. Only(toR'[l], "hello")
    BY <2>1, FirstMessage DEF Only
  <2>3. data'[l].to # "dialer"
    BY DEF Protocol, Waiting
  <2> QED BY <2>1, <2>2, <2>3 DEF Protocol, Idle, Greeting, Asking, Loading, Waiting, Quiet, Goal
<1>4. Grows /\ Elsewhere(l)
  BY DEF Shape, Grows, Elsewhere, Same
<1> QED BY <1>1, <1>2, <1>3, <1>4 DEF Kept

LEMMA AcceptKeeps ==
  ASSUME IInv, SyncAssumption, NEW l \in Links, Accept(l)
  PROVE  Kept(l)
<1> USE DEF IInv, SyncAssumption, Accept, repoVars, ToDialer, Dialer, Responder
<1>1. Shape'
  BY DEF Shape
<1>2. RefsHeld'
  BY DEF Shape, RefsHeld
<1>3. Protocol(l)'
  <2>1. CASE dial[l].pc = "hello"
    <3>1. Only(toR[l], "hello") /\ toD[l] = <<>>
      BY <2>1 DEF Protocol, Greeting
    <3>2. dial'[l] = dial[l] /\ serve'[l].pc = "serve" /\ toR'[l] = <<>>
      BY <3>1, OnlyMessage DEF Shape
    <3>3. toD'[l] = <<[type |-> "hello", head |-> ref[Responder(l)]]>>
      BY <3>1, FirstMessage DEF Shape
    <3>4. Only(toD'[l], "hello") /\ Head(toD'[l]).head = ref[Responder(l)]
      BY <3>3, FirstMessage DEF Only
    <3>5. ref[Responder(l)] \in held[Responder(l)] \union {Nil}
      BY DEF RefsHeld
    <3> QED BY <2>1, <3>2, <3>4, <3>5 DEF Protocol, Idle, Greeting, Asking, Loading, Waiting, Quiet, Goal
  <2>2. CASE dial[l].pc # "hello"
    BY <2>2 DEF Shape, Protocol, Idle, Greeting, Asking, Loading, Waiting, Quiet, Goal
  <2> QED BY <2>1, <2>2
<1>4. Grows /\ Elsewhere(l)
  BY DEF Shape, Grows, Elsewhere, Same
<1> QED BY <1>1, <1>2, <1>3, <1>4 DEF Kept

LEMMA DialerHelloKeeps ==
  ASSUME IInv, SyncAssumption, NEW l \in Links, DialerHello(l)
  PROVE  Kept(l)
<1> USE DEF IInv, SyncAssumption, DialerHello, repoVars, ToResponder, IdleDial, Dialer, Responder
<1>1. Shape'
  BY DEF Shape
<1>2. RefsHeld'
  BY DEF Shape, RefsHeld
<1>3. Protocol(l)'
  <2>1. /\ serve[l].pc = "serve" /\ toR[l] = <<>> /\ Only(toD[l], "hello") /\ data[l].to # "dialer"
        /\ Head(toD[l]).head \in held[Responder(l)] \union {Nil}
    BY DEF Protocol, Greeting, Waiting
  <2>2. /\ serve'[l] = serve[l] /\ toD'[l] = <<>> /\ data'[l] = data[l] /\ held' = held
        /\ dial'[l].remote = Head(toD[l]).head /\ dial'[l].queue = {Head(toD[l]).head} \ {Nil}
    BY <2>1, OnlyMessage DEF Shape
  <2>3. CASE Head(toD[l]).head # Nil
    <3>1. dial'[l].pc = "fetch" /\ toR'[l] = toR[l]
      BY <2>3 DEF Shape
    <3> QED BY <2>1, <2>2, <2>3, <3>1 DEF Protocol, Idle, Greeting, Asking, Loading, Waiting, Quiet, Goal
  <2>4. CASE Head(toD[l]).head = Nil
    <3>1. CASE ref[Dialer(l)] # Nil
      <4>1. dial'[l].pc = "push" /\ toR'[l] = toR[l]
        BY <2>4, <3>1 DEF Shape
      <4> QED BY <2>1, <2>2, <4>1 DEF Protocol, Idle, Greeting, Asking, Loading, Waiting, Quiet, Goal
    <3>2. CASE ref[Dialer(l)] = Nil
      <4>1. dial'[l].pc = "synced"
        BY <2>4, <3>2 DEF Shape
      <4> QED BY <2>1, <2>2, <4>1 DEF Protocol, Idle, Greeting, Asking, Loading, Waiting, Quiet, Goal
    <3> QED BY <3>1, <3>2
  <2> QED BY <2>3, <2>4
<1>4. Grows /\ Elsewhere(l)
  BY DEF Shape, Grows, Elsewhere, Same
<1> QED BY <1>1, <1>2, <1>3, <1>4 DEF Kept

LEMMA FetchCommitsKeeps ==
  ASSUME IInv, SyncAssumption, NEW l \in Links, FetchCommits(l)
  PROVE  Kept(l)
<1> USE DEF IInv, SyncAssumption, FetchCommits, repoVars, ToResponder, Goto, Dialer, Responder
<1>1. Shape'
  BY DEF Shape
<1>2. RefsHeld'
  BY DEF Shape, RefsHeld
<1>3. Protocol(l)'
  <2>1. /\ dial[l].pc = "fetch" /\ Quiet(l) /\ data[l].to # "dialer"
        /\ dial[l].remote \in held[Responder(l)]
        /\ dial[l].remote \in held[Dialer(l)] \union dial[l].queue
    BY DEF Protocol, Waiting, Goal
  <2>2. /\ serve'[l] = serve[l] /\ toD'[l] = toD[l] /\ data'[l] = data[l] /\ held' = held
        /\ dial'[l].remote = dial[l].remote
    BY DEF Shape
  <2>3. CASE dial[l].queue \ held[Dialer(l)] = {}
    <3>1. dial'[l].pc = "objects" /\ toR'[l] = toR[l]
      BY <2>3 DEF Shape
    <3>2. dial[l].remote \in held[Dialer(l)]
      BY <2>1, <2>3
    <3> QED BY <2>1, <2>2, <3>1, <3>2 DEF Protocol, Idle, Greeting, Asking, Loading, Waiting, Quiet, Goal
  <2>4. CASE dial[l].queue \ held[Dialer(l)] # {}
    <3> DEFINE m == [type |-> "want", commits |-> dial[l].queue \ held[Dialer(l)]]
    <3>1. dial'[l].pc = "have"
      BY <2>4 DEF Shape
    <3>2. m.type = "want" /\ m.commits = dial[l].queue \ held[Dialer(l)]
      OBVIOUS
    <3>4. toR' = [toR EXCEPT ![l] = toR[l] \o <<m>>]
      BY <2>4
    <3> HIDE DEF m
    <3>5. toR'[l] = <<m>>
      BY <2>1, <3>4, FirstMessage DEF Shape, Quiet
    <3>3. Only(toR'[l], "want") /\ Head(toR'[l]).commits = dial[l].queue \ held[Dialer(l)]
      BY <3>2, <3>5, FirstMessage DEF Only
    <3> QED BY <2>1, <2>2, <3>1, <3>3, <3>5 DEF Protocol, Idle, Greeting, Asking, Loading, Waiting, Quiet, Goal
  <2> QED BY <2>3, <2>4
<1>4. Grows /\ Elsewhere(l)
  BY DEF Shape, Grows, Elsewhere, Same
<1> QED BY <1>1, <1>2, <1>3, <1>4 DEF Kept

LEMMA RecvHaveKeeps ==
  ASSUME IInv, SyncAssumption, NEW l \in Links, RecvHave(l)
  PROVE  Kept(l)
<1> USE DEF IInv, SyncAssumption, RecvHave, Dialer, Responder
<1>1. Shape'
  BY DEF Shape
<1>2. RefsHeld'
  BY DEF Shape, RefsHeld
<1>3. Protocol(l)'
  <2>1. /\ dial[l].pc = "have" /\ serve[l].pc = "serve" /\ toR[l] = <<>> /\ Only(toD[l], "have")
        /\ dial[l].remote \in held[Dialer(l)] \union Head(toD[l]).commits
        /\ dial[l].remote \in held[Responder(l)] /\ data[l].to # "dialer"
    BY DEF Protocol, Asking, Waiting, Goal
  <2>2. /\ dial'[l].pc = "fetch" /\ dial'[l].remote = dial[l].remote
        /\ serve'[l] = serve[l] /\ toR'[l] = toR[l] /\ toD'[l] = <<>> /\ data'[l] = data[l]
    BY <2>1, OnlyMessage DEF Shape
  <2>3. held' = [held EXCEPT ![Dialer(l)] = held[Dialer(l)] \union Head(toD[l]).commits]
    OBVIOUS
  <2>4. Dialer(l) \in Repos /\ Responder(l) \in Repos
    OBVIOUS
  <2>5. dial[l].remote \in held'[Dialer(l)] /\ dial[l].remote \in held'[Responder(l)]
    BY <2>1, <2>3, <2>4, Zenon DEF Shape
  <2> QED BY <2>1, <2>2, <2>5 DEF Protocol, Idle, Greeting, Asking, Loading, Waiting, Quiet, Goal
<1>4. Grows /\ Elsewhere(l)
  BY DEF Shape, Grows, Elsewhere, Same
<1> QED BY <1>1, <1>2, <1>3, <1>4 DEF Kept

LEMMA FetchObjectsKeeps ==
  ASSUME IInv, SyncAssumption, NEW l \in Links, FetchObjects(l)
  PROVE  Kept(l)
<1> USE DEF IInv, SyncAssumption, FetchObjects, repoVars, ToResponder, Goto, Close, IdleDial, IdleServe, NoStream, Dialer, Responder
<1>1. Shape'
  BY DEF Shape
<1>2. RefsHeld'
  BY DEF Shape, RefsHeld
<1>3. Protocol(l)'
  BY OnlyMessage, FirstMessage DEF Shape, Protocol, Idle, Greeting, Asking, Loading, Waiting, Quiet,
     Goal, RefsHeld, Only
<1>4. Grows /\ Elsewhere(l)
  BY DEF Shape, Grows, Elsewhere, Same
<1> QED BY <1>1, <1>2, <1>3, <1>4 DEF Kept

LEMMA DialerDataKeeps ==
  ASSUME IInv, SyncAssumption, NEW l \in Links, DialerData(l)
  PROVE  Kept(l)
<1> USE DEF IInv, SyncAssumption, DialerData, Goto, Close, Store, NoStream, IdleDial, IdleServe, Dialer, Responder
<1>1. Shape'
  BY DEF Shape
<1>2. RefsHeld'
  BY DEF Shape, RefsHeld
<1>3. Protocol(l)'
  BY OnlyMessage, FirstMessage DEF Shape, Protocol, Idle, Greeting, Asking, Loading, Waiting, Quiet,
     Goal, RefsHeld, Only
<1>4. Grows /\ Elsewhere(l)
  BY DEF Shape, Grows, Elsewhere, Same
<1> QED BY <1>1, <1>2, <1>3, <1>4 DEF Kept

LEMMA PushKeeps ==
  ASSUME IInv, SyncAssumption, NEW l \in Links, Push(l)
  PROVE  Kept(l)
<1> USE DEF IInv, SyncAssumption, Dialer, Responder
<1>0. /\ \/ Close(l)
         \/ /\ Goto(l, "pushed") /\ (\E messages : ToResponder(l, messages))
            /\ UNCHANGED <<serve, toD, data>>
      /\ UNCHANGED repoVars
      /\ dial[l].pc = "push"
  BY Zenon DEF Push
<1>1. Shape'
  BY <1>0 DEF Shape, Goto, ToResponder, Close, IdleDial, IdleServe, NoStream, repoVars
<1>2. RefsHeld'
  BY <1>0 DEF Shape, RefsHeld, repoVars
<1>3. Protocol(l)'
  <2>1. CASE Close(l)
    BY <2>1 DEF Shape, Close, IdleDial, IdleServe, NoStream, Protocol, Idle, Greeting, Asking, Loading,
       Waiting, Quiet, Goal
  <2>2. CASE Goto(l, "pushed") /\ UNCHANGED <<serve, toD, data>>
    <3>1. dial'[l].pc = "pushed" /\ serve'[l] = serve[l] /\ data'[l] = data[l]
      BY <2>2 DEF Goto, Shape
    <3>2. serve[l].pc = "serve"
      BY <1>0 DEF Protocol, Waiting, Quiet
    <3> QED BY <3>1, <3>2 DEF Protocol, Idle, Greeting, Asking, Loading, Waiting, Quiet, Goal
  <2> QED BY <1>0, <2>1, <2>2
<1>4. Grows /\ Elsewhere(l)
  BY <1>0 DEF Shape, Grows, Elsewhere, Same, Goto, ToResponder, Close, repoVars
<1> QED BY <1>1, <1>2, <1>3, <1>4 DEF Kept

LEMMA DialerServeKeeps ==
  ASSUME IInv, SyncAssumption, NEW l \in Links, DialerServe(l)
  PROVE  Kept(l)
<1> USE DEF IInv, SyncAssumption, DialerServe, repoVars, Stream, Dialer, Responder
<1>1. Shape'
  BY DEF Shape
<1>2. RefsHeld'
  BY DEF Shape, RefsHeld
<1>3. Protocol(l)'
  BY OnlyMessage, FirstMessage DEF Shape, Protocol, Idle, Greeting, Asking, Loading, Waiting, Quiet,
     Goal, RefsHeld, Only
<1>4. Grows /\ Elsewhere(l)
  BY DEF Shape, Grows, Elsewhere, Same
<1> QED BY <1>1, <1>2, <1>3, <1>4 DEF Kept

LEMMA PushOkKeeps ==
  ASSUME IInv, SyncAssumption, NEW l \in Links, PushOk(l)
  PROVE  Kept(l)
<1> USE DEF IInv, SyncAssumption, PushOk, repoVars, ToResponder, Goto, Close, IdleDial, IdleServe, NoStream, Dialer, Responder
<1>1. Shape'
  BY DEF Shape
<1>2. RefsHeld'
  BY DEF Shape, RefsHeld
<1>3. Protocol(l)'
  BY OnlyMessage, FirstMessage DEF Shape, Protocol, Idle, Greeting, Asking, Loading, Waiting, Quiet,
     Goal, RefsHeld, Only
<1>4. Grows /\ Elsewhere(l)
  BY DEF Shape, Grows, Elsewhere, Same
<1> QED BY <1>1, <1>2, <1>3, <1>4 DEF Kept

LEMMA PingKeeps ==
  ASSUME IInv, SyncAssumption, NEW l \in Links, Ping(l)
  PROVE  Kept(l)
<1> USE DEF IInv, SyncAssumption, Ping, repoVars, ToResponder, Goto, Dialer, Responder
<1>1. Shape'
  BY DEF Shape
<1>2. RefsHeld'
  BY DEF Shape, RefsHeld
<1>3. Protocol(l)'
  BY OnlyMessage, FirstMessage DEF Shape, Protocol, Idle, Greeting, Asking, Loading, Waiting, Quiet,
     Goal, RefsHeld, Only
<1>4. Grows /\ Elsewhere(l)
  BY DEF Shape, Grows, Elsewhere, Same
<1> QED BY <1>1, <1>2, <1>3, <1>4 DEF Kept

LEMMA PongKeeps ==
  ASSUME IInv, SyncAssumption, NEW l \in Links, Pong(l)
  PROVE  Kept(l)
<1> USE DEF IInv, SyncAssumption, Pong, repoVars, Goto, Close, IdleDial, IdleServe, NoStream, Dialer, Responder
<1>1. Shape'
  BY DEF Shape
<1>2. RefsHeld'
  BY DEF Shape, RefsHeld
<1>3. Protocol(l)'
  BY OnlyMessage, FirstMessage DEF Shape, Protocol, Idle, Greeting, Asking, Loading, Waiting, Quiet,
     Goal, RefsHeld, Only
<1>4. Grows /\ Elsewhere(l)
  BY DEF Shape, Grows, Elsewhere, Same
<1> QED BY <1>1, <1>2, <1>3, <1>4 DEF Kept

LEMMA HangUpKeeps ==
  ASSUME IInv, SyncAssumption, NEW l \in Links, HangUp(l)
  PROVE  Kept(l)
<1> USE DEF IInv, SyncAssumption, HangUp, repoVars, Close, IdleDial, IdleServe, NoStream, Dialer, Responder
<1>1. Shape'
  BY DEF Shape
<1>2. RefsHeld'
  BY DEF Shape, RefsHeld
<1>3. Protocol(l)'
  BY OnlyMessage, FirstMessage DEF Shape, Protocol, Idle, Greeting, Asking, Loading, Waiting, Quiet,
     Goal, RefsHeld, Only
<1>4. Grows /\ Elsewhere(l)
  BY DEF Shape, Grows, Elsewhere, Same
<1> QED BY <1>1, <1>2, <1>3, <1>4 DEF Kept

LEMMA ServeWantKeeps ==
  ASSUME IInv, SyncAssumption, NEW l \in Links, ServeWant(l)
  PROVE  Kept(l)
<1> USE DEF IInv, SyncAssumption, ServeWant, repoVars, ToDialer, Serving, Consume, Dialer, Responder
<1>1. Shape'
  BY DEF Shape
<1>2. RefsHeld'
  BY DEF Shape, RefsHeld
<1>3. Protocol(l)'
  <2>1. CASE dial[l].pc = "have"
    <3>1. Only(toR[l], "want") /\ toD[l] = <<>>
      BY <2>1 DEF Protocol, Asking
    <3> DEFINE reply == [type |-> "have", commits |-> Head(toR[l]).commits \intersect held[Responder(l)]]
    <3>2. dial'[l] = dial[l] /\ serve'[l].pc = "serve" /\ toR'[l] = <<>>
      BY <3>1, OnlyMessage DEF Shape
    <3>3. toD'[l] = <<reply>>
      BY <3>1, FirstMessage DEF Shape
    <3>4. Only(toD'[l], "have") /\ Head(toD'[l]) = reply
      <4> HIDE DEF reply
      <4>1. Head(toD'[l]) = reply
        BY <3>3, FirstMessage
      <4>2. reply.type = "have"
        BY DEF reply
      <4> QED BY <3>3, <4>1, <4>2 DEF Only
    <3>5. dial[l].remote \in held[Dialer(l)] \union reply.commits
      BY <2>1, <3>1 DEF Protocol, Asking, Goal, Only
    <3> QED BY <2>1, <3>2, <3>4, <3>5 DEF Protocol, Idle, Greeting, Asking, Loading, Waiting, Quiet, Goal
  <2>2. CASE dial[l].pc # "have"
    BY <2>2 DEF Shape, Protocol, Idle, Greeting, Asking, Loading, Waiting, Quiet, Goal, Only
  <2> QED BY <2>1, <2>2
<1>4. Grows /\ Elsewhere(l)
  BY DEF Shape, Grows, Elsewhere, Same
<1> QED BY <1>1, <1>2, <1>3, <1>4 DEF Kept

LEMMA ServeWantObjectsKeeps ==
  ASSUME IInv, SyncAssumption, NEW l \in Links, ServeWantObjects(l)
  PROVE  Kept(l)
<1> USE DEF IInv, SyncAssumption, ServeWantObjects, repoVars, Serving, Consume, Stream, Dialer, Responder
<1>1. Shape'
  BY DEF Shape
<1>2. RefsHeld'
  BY DEF Shape, RefsHeld
<1>3. Protocol(l)'
  BY OnlyMessage, FirstMessage DEF Shape, Protocol, Idle, Greeting, Asking, Loading, Waiting, Quiet,
     Goal, RefsHeld, Only
<1>4. Grows /\ Elsewhere(l)
  BY DEF Shape, Grows, Elsewhere, Same
<1> QED BY <1>1, <1>2, <1>3, <1>4 DEF Kept

LEMMA ServePushHaveKeeps ==
  ASSUME IInv, SyncAssumption, NEW l \in Links, ServePushHave(l)
  PROVE  Kept(l)
<1> USE DEF IInv, SyncAssumption, ServePushHave, Serving, Consume, Dialer, Responder
<1>1. Shape'
  BY DEF Shape
<1>2. RefsHeld'
  BY DEF Shape, RefsHeld
<1>3. Protocol(l)'
  BY OnlyMessage, FirstMessage DEF Shape, Protocol, Idle, Greeting, Asking, Loading, Waiting, Quiet,
     Goal, RefsHeld, Only
<1>4. Grows /\ Elsewhere(l)
  BY DEF Shape, Grows, Elsewhere, Same
<1> QED BY <1>1, <1>2, <1>3, <1>4 DEF Kept

LEMMA ServePushTipKeeps ==
  ASSUME IInv, SyncAssumption, NEW l \in Links, ServePushTip(l)
  PROVE  Kept(l)
<1> USE DEF IInv, SyncAssumption, ServePushTip, repoVars, ToDialer, Serving, Consume, IdleServe, Dialer, Responder
<1>1. Shape'
  BY DEF Shape
<1>2. RefsHeld'
  BY DEF Shape, RefsHeld
<1>3. Protocol(l)'
  <2>1. dial[l].pc \notin {"idle", "hello", "fetch", "have", "objects", "data", "integrate", "push"}
    BY DEF Protocol, Idle, Greeting, Asking, Loading, Waiting, Quiet, Only
  <2>2. dial'[l] = dial[l]
    OBVIOUS
  <2>3. CASE Head(toR[l]).head \in held[Responder(l)]
    <3>1. serve'[l] = [pc |-> "objects", tip |-> Head(toR[l]).head, local |-> Nil, round |-> 0]
      BY <2>3 DEF Shape
    <3> QED BY <2>1, <2>2, <2>3, <3>1 DEF Protocol, Idle, Greeting, Asking, Loading, Waiting, Quiet, Goal
  <2>4. CASE Head(toR[l]).head \notin held[Responder(l)]
    BY <2>1, <2>2, <2>4 DEF Shape, Protocol, Idle, Greeting, Asking, Loading, Waiting, Quiet, Goal
  <2> QED BY <2>3, <2>4
<1>4. Grows /\ Elsewhere(l)
  BY DEF Shape, Grows, Elsewhere, Same
<1> QED BY <1>1, <1>2, <1>3, <1>4 DEF Kept

LEMMA ServeDoneKeeps ==
  ASSUME IInv, SyncAssumption, NEW l \in Links, ServeDone(l)
  PROVE  Kept(l)
<1> USE DEF IInv, SyncAssumption, ServeDone, repoVars, Serving, Consume, Dialer, Responder
<1>1. Shape'
  BY DEF Shape
<1>2. RefsHeld'
  BY DEF Shape, RefsHeld
<1>3. Protocol(l)'
  BY OnlyMessage, FirstMessage DEF Shape, Protocol, Idle, Greeting, Asking, Loading, Waiting, Quiet,
     Goal, RefsHeld, Only
<1>4. Grows /\ Elsewhere(l)
  BY DEF Shape, Grows, Elsewhere, Same
<1> QED BY <1>1, <1>2, <1>3, <1>4 DEF Kept

LEMMA ServePingKeeps ==
  ASSUME IInv, SyncAssumption, NEW l \in Links, ServePing(l)
  PROVE  Kept(l)
<1> USE DEF IInv, SyncAssumption, ServePing, repoVars, ToDialer, Close, Serving, Consume, IdleDial, IdleServe, NoStream, Dialer, Responder
<1>1. Shape'
  BY DEF Shape
<1>2. RefsHeld'
  BY DEF Shape, RefsHeld
<1>3. Protocol(l)'
  BY OnlyMessage, FirstMessage DEF Shape, Protocol, Idle, Greeting, Asking, Loading, Waiting, Quiet,
     Goal, RefsHeld, Only
<1>4. Grows /\ Elsewhere(l)
  BY DEF Shape, Grows, Elsewhere, Same
<1> QED BY <1>1, <1>2, <1>3, <1>4 DEF Kept

LEMMA EnsureObjectsKeeps ==
  ASSUME IInv, SyncAssumption, NEW l \in Links, EnsureObjects(l)
  PROVE  Kept(l)
<1> USE DEF IInv, SyncAssumption, EnsureObjects, repoVars, ToDialer, IdleServe, Dialer, Responder
<1>1. Shape'
  BY DEF Shape
<1>2. RefsHeld'
  BY DEF Shape, RefsHeld
<1>3. Protocol(l)'
  <2>1. serve[l].pc = "objects"
    OBVIOUS
  <2>2. dial[l].pc \notin {"idle", "hello", "fetch", "have", "objects", "data", "integrate", "push"}
    BY <2>1 DEF Protocol, Idle, Greeting, Asking, Loading, Waiting, Quiet
  <2>3. dial' = dial /\ held' = held
    OBVIOUS
  <2>4. serve'[l].pc = "serve" \/ (serve'[l].pc \in {"integrate", "data"} /\ serve'[l].tip = serve[l].tip)
    <3>1. \/ serve' = [serve EXCEPT ![l].pc = "integrate", ![l].local = ref[Responder(l)]]
          \/ serve' = [serve EXCEPT ![l].pc = "data", ![l].round = @ + 1]
          \/ serve' = [serve EXCEPT ![l] = [IdleServe EXCEPT !.pc = "serve"]]
      BY Zenon DEF EnsureObjects
    <3>2. /\ l \in DOMAIN serve
          /\ DOMAIN serve[l] = {"pc", "tip", "local", "round"}
      BY DEF Shape
    <3> HIDE DEF EnsureObjects, IInv, SyncAssumption, IdleServe
    <3>3. CASE serve' = [serve EXCEPT ![l].pc = "integrate", ![l].local = ref[Responder(l)]]
      <4>1. serve'[l].pc = "integrate" /\ serve'[l].tip = serve[l].tip
        BY <3>2, <3>3, MovesOn
      <4> QED BY <4>1
    <3>4. CASE serve' = [serve EXCEPT ![l].pc = "data", ![l].round = @ + 1]
      <4>1. serve'[l].pc = "data" /\ serve'[l].tip = serve[l].tip
        BY <3>2, <3>4, MovesOn
      <4> QED BY <4>1
    <3>5. CASE serve' = [serve EXCEPT ![l] = [IdleServe EXCEPT !.pc = "serve"]]
      <4>1. serve'[l] = [IdleServe EXCEPT !.pc = "serve"]
        BY <3>2, <3>5
      <4>2. [IdleServe EXCEPT !.pc = "serve"].pc = "serve"
        BY DEF IdleServe
      <4> QED BY <4>1, <4>2
    <3> QED BY <3>1, <3>3, <3>4, <3>5
  <2>5. serve[l].tip \in held[Responder(l)]
    BY <2>1 DEF Protocol, Goal
  <2> QED BY <2>2, <2>3, <2>4, <2>5 DEF Protocol, Idle, Greeting, Asking, Loading, Waiting, Quiet, Goal
<1>4. Grows /\ Elsewhere(l)
  BY DEF Shape, Grows, Elsewhere, Same
<1> QED BY <1>1, <1>2, <1>3, <1>4 DEF Kept

LEMMA ResponderDataKeeps ==
  ASSUME IInv, SyncAssumption, NEW l \in Links, ResponderData(l)
  PROVE  Kept(l)
<1> USE DEF IInv, SyncAssumption, ResponderData, ToDialer, Store, IdleServe, NoStream, Dialer, Responder
<1>1. Shape'
  BY DEF Shape
<1>2. RefsHeld'
  BY DEF Shape, RefsHeld
<1>3. Protocol(l)'
  <2>1. serve[l].pc = "data" /\ data[l].to = "responder"
    OBVIOUS
  <2>2. dial[l].pc \notin {"idle", "hello", "fetch", "have", "objects", "data", "integrate", "push"}
    BY <2>1 DEF Protocol, Idle, Greeting, Asking, Loading, Waiting, Quiet
  <2>3. dial' = dial /\ held' = held
    OBVIOUS
  <2>4. serve'[l].pc = "serve" \/ (serve'[l].pc = "objects" /\ serve'[l].tip = serve[l].tip)
    <3>1. \/ serve' = [serve EXCEPT ![l].pc = "objects"]
          \/ serve' = [serve EXCEPT ![l] = [IdleServe EXCEPT !.pc = "serve"]]
      BY Zenon DEF ResponderData
    <3>2. /\ l \in DOMAIN serve
          /\ DOMAIN serve[l] = {"pc", "tip", "local", "round"}
      BY DEF Shape
    <3> HIDE DEF ResponderData, IInv, SyncAssumption, IdleServe
    <3>3. CASE serve' = [serve EXCEPT ![l].pc = "objects"]
      BY <3>2, <3>3, MovesOn
    <3>4. CASE serve' = [serve EXCEPT ![l] = [IdleServe EXCEPT !.pc = "serve"]]
      <4>1. serve'[l] = [IdleServe EXCEPT !.pc = "serve"]
        BY <3>2, <3>4
      <4>2. [IdleServe EXCEPT !.pc = "serve"].pc = "serve"
        BY DEF IdleServe
      <4> QED BY <4>1, <4>2
    <3> QED BY <3>1, <3>3, <3>4
  <2>5. serve[l].tip \in held[Responder(l)]
    BY <2>1 DEF Protocol, Goal
  <2> QED BY <2>2, <2>3, <2>4, <2>5 DEF Protocol, Idle, Greeting, Asking, Loading, Waiting, Quiet, Goal
<1>4. Grows /\ Elsewhere(l)
  BY DEF Shape, Grows, Elsewhere, Same
<1> QED BY <1>1, <1>2, <1>3, <1>4 DEF Kept

LEMMA DropKeeps ==
  ASSUME IInv, SyncAssumption, NEW l \in Links, Drop(l)
  PROVE  Kept(l)
<1> USE DEF IInv, SyncAssumption, Drop, Close, Store, IdleDial, IdleServe, NoStream, Dialer, Responder
<1>1. Shape'
  BY DEF Shape
<1>2. RefsHeld'
  BY DEF Shape, RefsHeld
<1>3. Protocol(l)'
  BY OnlyMessage, FirstMessage DEF Shape, Protocol, Idle, Greeting, Asking, Loading, Waiting, Quiet,
     Goal, RefsHeld, Only
<1>4. Grows /\ Elsewhere(l)
  BY DEF Shape, Grows, Elsewhere, Same
<1> QED BY <1>1, <1>2, <1>3, <1>4 DEF Kept

\* Whatever integrate decides, the tips it leaves are the old ones, the one it
\* was given, or the merge it makes.
LEMMA IntegrationTips ==
  ASSUME NEW repo, NEW local, NEW remote, NEW i \in Integrations(repo, local, remote)
  PROVE  /\ i.peerRef \in {peerRef[repo], remote}
         /\ \/ i.ref \in {ref[repo], remote}
            \/ i.ref = Len(ledger) + 1 /\ 1 \in DOMAIN i.made
<1> DEFINE Fine(x) == /\ x.peerRef \in {peerRef[repo], remote}
                      /\ \/ x.ref \in {ref[repo], remote}
                         \/ x.ref = Len(ledger) + 1 /\ 1 \in DOMAIN x.made
<1>1. Fine(Keep(repo)) /\ Fine(ConflictBranch(repo, remote)) /\ Fine(MoveTo(repo, remote, <<>>))
  BY DEF Keep, ConflictBranch, MoveTo
<1>2. ASSUME NEW base PROVE Fine(MergeOn(repo, base, local, remote))
  <2>1. \A commit : Fine(MoveTo(repo, Len(ledger) + 1, <<commit>>))
    BY DEF MoveTo
  <2> HIDE DEF Fine
  <2> QED BY <1>1, <2>1 DEF MergeOn
<1>3. ASSUME NEW base PROVE Fine(IntegrateOnto(repo, base, local, remote))
  <2> HIDE DEF Fine
  <2> QED BY <1>1, <1>2 DEF IntegrateOnto
<1>4. Fine(i)
  <2> HIDE DEF Fine
  <2> QED BY <1>1, <1>3 DEF Integrations
<1> QED BY <1>4

\* integrate leaves tips the store holds, when it is given one it holds.
LEMMA AppliedTips ==
  ASSUME Shape, RefsHeld, NEW repo \in Repos, NEW local, NEW remote, NEW out,
         remote \in held[repo],
         NEW i \in Integrations(repo, local, remote), Apply(repo, i, out)
  PROVE  /\ RefsHeld' /\ Grows
         /\ DOMAIN held' = Repos /\ DOMAIN ref' = Repos /\ DOMAIN peerRef' = Repos
<1> USE DEF Apply
<1>1. DOMAIN held' = Repos /\ DOMAIN ref' = Repos /\ DOMAIN peerRef' = Repos
  BY DEF Shape
<1>2. Grows
  BY DEF Shape, Grows
<1>3. i.ref \in held'[repo] \union {Nil}
  <2>1. CASE i.ref \in {ref[repo], remote}
    BY <2>1, <1>2 DEF Grows, RefsHeld
  <2>2. CASE i.ref = Len(ledger) + 1 /\ 1 \in DOMAIN i.made
    BY <2>2 DEF Shape
  <2> QED BY <2>1, <2>2, IntegrationTips
<1>4. i.peerRef \in held'[repo] \union {Nil}
  BY <1>2, IntegrationTips DEF Grows, RefsHeld
<1>5. ref'[repo] = i.ref /\ peerRef'[repo] = i.peerRef
  BY DEF Shape
<1>6. ASSUME NEW k \in Repos, k # repo
      PROVE  ref'[k] = ref[k] /\ peerRef'[k] = peerRef[k] /\ held'[k] = held[k]
  BY <1>6 DEF Shape
<1>7. RefsHeld'
  BY <1>3, <1>4, <1>5, <1>6 DEF RefsHeld
<1> QED BY <1>1, <1>2, <1>7

LEMMA DialerIntegrateKeeps ==
  ASSUME IInv, SyncAssumption, NEW l \in Links, DialerIntegrate(l)
  PROVE  Kept(l)
<1> USE DEF IInv, SyncAssumption, Dialer, Responder
<1>1. dial[l].remote \in held[Dialer(l)] /\ Quiet(l)
  BY DEF DialerIntegrate, Protocol, Goal, Waiting
<1>2. PICK i \in Integrations(Dialer(l), dial[l].local, dial[l].remote) :
             \E out : Apply(Dialer(l), i, out)
  BY DEF DialerIntegrate
<1>3. /\ RefsHeld' /\ Grows
      /\ DOMAIN held' = Repos /\ DOMAIN ref' = Repos /\ DOMAIN peerRef' = Repos
  BY <1>1, <1>2, AppliedTips
<1>4. Shape' /\ Elsewhere(l)
  BY <1>3 DEF DialerIntegrate, Shape, Elsewhere, Same, Close, Goto, ToResponder, IdleDial, IdleServe, NoStream
<1>5. Protocol(l)'
  BY <1>1, <1>3 DEF DialerIntegrate, Shape, Grows, Protocol, Idle, Greeting, Asking, Loading, Waiting,
     Quiet, Goal, Close, Goto, ToResponder, IdleDial, IdleServe, NoStream
<1> QED BY <1>3, <1>4, <1>5 DEF Kept

LEMMA ResponderIntegrateKeeps ==
  ASSUME IInv, SyncAssumption, NEW l \in Links, ResponderIntegrate(l)
  PROVE  Kept(l)
<1> USE DEF IInv, SyncAssumption, Dialer, Responder
<1>1. serve[l].tip \in held[Responder(l)]
  BY DEF ResponderIntegrate, Protocol, Goal
<1>2. PICK i \in Integrations(Responder(l), serve[l].local, serve[l].tip) :
             \E out : Apply(Responder(l), i, out)
  BY DEF ResponderIntegrate
<1>3. /\ RefsHeld' /\ Grows
      /\ DOMAIN held' = Repos /\ DOMAIN ref' = Repos /\ DOMAIN peerRef' = Repos
  BY <1>1, <1>2, AppliedTips
<1>4. Shape' /\ Elsewhere(l)
  BY <1>3 DEF ResponderIntegrate, Shape, Elsewhere, Same, ToDialer, IdleServe
<1>5. dial[l].pc \notin {"idle", "hello", "fetch", "have", "objects", "data", "integrate", "push"}
  BY DEF ResponderIntegrate, Protocol, Idle, Greeting, Asking, Loading, Waiting, Quiet
<1>6. Protocol(l)'
  BY <1>5 DEF ResponderIntegrate, Shape, Protocol, Idle, Greeting, Asking, Loading, Waiting, Quiet,
     Goal, IdleServe
<1> QED BY <1>3, <1>4, <1>6 DEF Kept

LEMMA CommitKeeps ==
  ASSUME IInv, SyncAssumption, NEW repo \in Repos, Commit(repo)
  PROVE  IInv'
<1> USE DEF IInv, Commit, linkVars
<1>1. PICK c : held' = [held EXCEPT ![repo] = @ \union {c}] /\ ref' = [ref EXCEPT ![repo] = c]
  OBVIOUS
<1>2. Shape'
  BY <1>1 DEF Shape
<1>3. RefsHeld'
  BY <1>1 DEF Shape, RefsHeld
<1>4. Grows
  BY <1>1 DEF Shape, Grows
<1>5. \A l \in Links : Protocol(l)'
  BY <1>4, Undisturbed DEF Same
<1> QED BY <1>2, <1>3, <1>5

LEMMA StutterKeeps ==
  ASSUME IInv, UNCHANGED vars
  PROVE  IInv'
  BY DEF IInv, vars, repoVars, linkVars, Shape, RefsHeld, Protocol, Idle, Greeting, Asking, Loading,
     Waiting, Quiet, Goal

\* A step of one link keeps the invariant of all of them.
LEMMA KeptEverywhere ==
  ASSUME IInv, SyncAssumption, NEW l \in Links, Kept(l)
  PROVE  IInv'
<1>1. ASSUME NEW k \in Links, k # l
      PROVE  Protocol(k)'
  BY <1>1, Undisturbed DEF IInv, Kept, Elsewhere
<1> QED BY <1>1 DEF IInv, Kept

LEMMA InitHolds == Init => IInv
<1> SUFFICES ASSUME Init PROVE IInv
  OBVIOUS
<1>1. Shape
  BY DEF Init, Shape, IdleDial, IdleServe
<1>2. RefsHeld
  BY DEF Init, RefsHeld
<1>3. ASSUME NEW l \in Links PROVE Protocol(l)
  BY DEF Init, Protocol, Idle, Greeting, Asking, Loading, Waiting, Quiet, Goal, IdleDial, IdleServe, NoStream
<1> QED BY <1>1, <1>2, <1>3 DEF IInv

\* Every reachable state satisfies the invariant: a link's messages are where
\* its dialer expects them, and tips name commits that are held.
THEOREM Invariance == Spec => []IInv
<1>1. IInv /\ [Next]_vars => IInv'
  <2> SUFFICES ASSUME IInv, [Next]_vars PROVE IInv'
    OBVIOUS
  <2> USE SyncAssumption
  <2>1. CASE UNCHANGED vars
    BY <2>1, StutterKeeps
  <2>2. CASE \E repo \in Repos : Commit(repo)
    BY <2>2, CommitKeeps
  <2>3. ASSUME NEW l \in Links, Dial(l) \/ HangUp(l) \/ Drop(l)
        PROVE  IInv'
    BY <2>3, DialKeeps, HangUpKeeps, DropKeeps, KeptEverywhere
  <2>4. ASSUME NEW l \in Links, DialerStep(l)
        PROVE  IInv'
    BY <2>4, DialerHelloKeeps, FetchCommitsKeeps, RecvHaveKeeps, FetchObjectsKeeps, DialerDataKeeps,
       DialerIntegrateKeeps, PushKeeps, DialerServeKeeps, PushOkKeeps, PingKeeps, PongKeeps,
       KeptEverywhere DEF DialerStep
  <2>5. ASSUME NEW l \in Links, ResponderStep(l)
        PROVE  IInv'
    BY <2>5, AcceptKeeps, ServeWantKeeps, ServeWantObjectsKeeps, ServePushHaveKeeps,
       ServePushTipKeeps, ServeDoneKeeps, ServePingKeeps, EnsureObjectsKeeps, ResponderDataKeeps,
       ResponderIntegrateKeeps, KeptEverywhere DEF ResponderStep
  <2> QED BY <2>1, <2>2, <2>3, <2>4, <2>5 DEF Next
<1> QED BY InitHolds, <1>1, PTL DEF Spec

\* A branch, and the conflict branch, always name a commit of their own store,
\* for any repositories and links, with sessions failing at any point and
\* users committing in the middle of them.
THEOREM RefsAreHeld == Spec => []RefsHeld
<1>1. IInv => RefsHeld
  BY DEF IInv
<1> QED BY Invariance, <1>1, PTL

-----------------------------------------------------------------------------
(* Merged trees                                                            *)

\* The path of a copy leads back to the path it is a copy of.
LEMMA CopySource ==
  ASSUME NEW S, NEW p \in Seq(S), NEW tag \in S
  PROVE  ConflictCopy(p, tag) \in Seq(S)
         /\ SubSeq(ConflictCopy(p, tag), 1, Len(ConflictCopy(p, tag)) - 1) = p
<1> DEFINE q == Append(p, tag)
<1>1. Len(p) \in Nat /\ q \in Seq(S) /\ Len(q) = Len(p) + 1 /\ \A i \in 1 .. Len(p) : q[i] = p[i]
  BY LenProperties, AppendProperties
<1> HIDE DEF q
<1>2. \A i \in 1 .. Len(p) : q[i] \in S BY <1>1, ElementOfSeq
<1>3. /\ SubSeq(q, 1, Len(p)) \in Seq(S)
      /\ Len(SubSeq(q, 1, Len(p))) = IF 1 <= Len(p) THEN Len(p) - 1 + 1 ELSE 0
      /\ \A i \in 1 .. Len(p) - 1 + 1 : SubSeq(q, 1, Len(p))[i] = q[1 + i - 1]
  BY <1>1, <1>2, SubSeqProperties
<1>4. Len(SubSeq(q, 1, Len(p))) = Len(p) BY <1>1, <1>3
<1>5. \A i \in 1 .. Len(p) : SubSeq(q, 1, Len(p))[i] = p[i] BY <1>1, <1>3
<1>6. SubSeq(q, 1, Len(p)) = p BY <1>3, <1>4, <1>5, SeqEqual
<1> QED BY <1>1, <1>6 DEF q, ConflictCopy

\* A merged tree takes its versions from the two it merges, and its paths are
\* theirs or copies of theirs.
LEMMA MergedFrom ==
  ASSUME NEW S, NEW b, NEW l, NEW r, NEW tag \in S, DOMAIN l \subseteq Seq(S), DOMAIN r \subseteq Seq(S)
  PROVE  /\ Versions(MergedTree(b, l, r, tag)) \subseteq Versions(l) \union Versions(r)
         /\ DOMAIN MergedTree(b, l, r, tag) \subseteq Seq(S)
<1> DEFINE V == Versions(l) \union Versions(r)
           From(t) == DOMAIN t \subseteq Seq(S) /\ \A p \in DOMAIN t : t[p] \in V
           m == TryMerge(b, l, r)
           paths == DOMAIN b \union DOMAIN l \union DOMAIN r
           pick(p) == IF At(b, p) = At(l, p) THEN At(r, p) ELSE At(l, p)
           kept == {p \in paths \ m.overlapping : pick(p) # Absent}
           res == ResolveOverlaps(m.overlapping, l, r, tag)
           keep == [p \in m.overlapping \intersect DOMAIN l |-> l[p]]
           named == {ConflictCopy(p, tag) : p \in m.overlapping \intersect DOMAIN r}
           copies == [q \in named |-> r[SubSeq(q, 1, Len(q) - 1)]]
<1>1. m.merged = [p \in kept |-> pick(p)] BY DEF TryMerge
<1>2. \A p : pick(p) # Absent => p \in DOMAIN l \union DOMAIN r /\ pick(p) \in V
  BY DEF At, Absent, Versions
<1>3. From(m.merged)
  <2> HIDE DEF m, pick, V, paths
  <2>1. \A p \in kept : p \in Seq(S) /\ pick(p) \in V BY <1>2
  <2> HIDE DEF kept
  <2> QED BY <1>1, <2>1
<1> HIDE DEF m
<1>4. res = Into(keep, copies) BY DEF ResolveOverlaps
<1>5. From(keep) BY DEF Versions
<1>6. From(copies)
  <2> SUFFICES ASSUME NEW q \in named PROVE q \in Seq(S) /\ r[SubSeq(q, 1, Len(q) - 1)] \in V
    OBVIOUS
  <2>1. PICK p \in DOMAIN r : q = ConflictCopy(p, tag) OBVIOUS
  <2>2. q \in Seq(S) /\ SubSeq(q, 1, Len(q) - 1) = p BY <2>1, CopySource
  <2> QED BY <2>2 DEF Versions
<1>7. \A t, s : From(t) /\ From(s) => From(Into(t, s))
  <2> HIDE DEF V
  <2> QED BY DEF Into
<1>8. MergedTree(b, l, r, tag) = Into(m.merged, res) BY DEF MergedTree, m
<1>9. From(MergedTree(b, l, r, tag))
  <2> HIDE DEF From, keep, copies, res
  <2> QED BY <1>3, <1>4, <1>5, <1>6, <1>7, <1>8
<1> HIDE DEF V
<1>10. Versions(MergedTree(b, l, r, tag)) \subseteq V
  <2> HIDE DEF m, res, keep, copies
  <2> QED BY <1>9 DEF Versions
<1> QED BY <1>9, <1>10 DEF V
-----------------------------------------------------------------------------
(* The ledger, and the order of messages once the dialer has pushed.       *)

Paths == Seq(Files \union Nat)

\* Stores hold commits of the ledger, trees the paths of files and of copies.
Recorded ==
  /\ IsGraph(ledger)
  /\ DOMAIN trees = Repos /\ DOMAIN blobs = Repos /\ DOMAIN wt = Repos
  /\ \A repo \in Repos : held[repo] \subseteq 1 .. Len(ledger) /\ DOMAIN wt[repo] \subseteq Paths
  /\ \A c \in 1 .. Len(ledger) : DOMAIN ledger[c].files \subseteq Paths

\* Two messages in flight, of these types.
Two(channel, a, b) ==
  \E m, n : channel = <<m, n>> /\ m.type = a /\ n.type = b

\* The tips a link's ends have read, and the commits on their way.
DialPcs == {"idle", "hello", "fetch", "have", "objects", "data", "integrate", "push", "pushed",
            "synced", "ping"}
ServePcs == {"idle", "serve", "objects", "data", "integrate"}

Tips(l) ==
  /\ dial[l].pc \in DialPcs /\ serve[l].pc \in ServePcs
  /\ dial[l].local \in 1 .. Len(ledger) \union {Nil}
  /\ dial[l].pc \in {"push", "pushed"} => dial[l].local # Nil
  /\ dial[l].remote \in held[Responder(l)] \union {Nil}
  /\ serve[l].local \in 1 .. Len(ledger) \union {Nil}
  /\ dial[l].pc = "have" /\ toD[l] # <<>> => Head(toD[l]).commits \subseteq 1 .. Len(ledger)

\* What a dialer that pushed has told: its tip, after the commits it offers.
Offered(l) ==
  \/ Only(toR[l], "push-tip") /\ Head(toR[l]).head = dial[l].local
  \/ \E m, n : /\ toR[l] = <<m, n>> /\ m.type = "push-have" /\ n.type = "push-tip"
               /\ m.commits \subseteq 1 .. Len(ledger) /\ n.head = dial[l].local

Pushed(l) ==
  dial[l].pc = "pushed" =>
    \/ serve[l].pc = "serve" /\ toD[l] = <<>> /\ Offered(l)
    \/ /\ serve[l].pc \in {"objects", "integrate"} /\ serve[l].tip = dial[l].local
       /\ toR[l] = <<>> /\ toD[l] = <<>>
    \/ /\ serve[l].pc = "data" /\ serve[l].tip = dial[l].local
       /\ toR[l] = <<>> /\ (toD[l] = <<>> \/ Only(toD[l], "want-objects"))
    \/ serve[l].pc = "serve" /\ toR[l] = <<>> /\ Only(toD[l], "push-ok")

Settled(l) ==
  /\ dial[l].pc = "synced" =>
       serve[l].pc = "serve" /\ toD[l] = <<>> /\ (toR[l] = <<>> \/ Only(toR[l], "done"))
  /\ dial[l].pc = "ping" =>
       /\ serve[l].pc = "serve"
       /\ \/ toD[l] = <<>> /\ (Only(toR[l], "ping") \/ Two(toR[l], "done", "ping"))
          \/ toR[l] = <<>> /\ Only(toD[l], "pong")

\* The stream to a responder comes when it was asked for.
Streamed(l) ==
  data[l].to = "responder" => dial[l].pc = "pushed" /\ serve[l].pc = "data" /\ toD[l] = <<>>

Orderly(l) == Tips(l) /\ Pushed(l) /\ Settled(l) /\ Streamed(l)

SInv == IInv /\ Recorded /\ \A l \in Links : Orderly(l)

-----------------------------------------------------------------------------

\* A step only adds: to the ledger, and to the stores.
LedgerGrows ==
  Len(ledger) <= Len(ledger') /\ \A c \in 1 .. Len(ledger) : ledger'[c] = ledger[c]

StoresGrow ==
  \A repo \in Repos : /\ held[repo] \subseteq held'[repo] /\ trees[repo] \subseteq trees'[repo]
                      /\ blobs[repo] \subseteq blobs'[repo]

Adds == LedgerGrows /\ StoresGrow

\* Taking the first of two messages, sending a second.
LEMMA TwoMessages ==
  ASSUME NEW m, NEW n
  PROVE  /\ <<m>> \o <<n>> = <<m, n>> /\ <<m, n>> # <<>> /\ Head(<<m, n>>) = m /\ Tail(<<m, n>>) = <<n>>
         /\ Head(<<n>>) = n /\ Tail(<<n>>) = <<>> /\ <<n>> # <<m, n>> /\ <<n>> # <<>>
<1>1. <<m>> \o <<n>> = <<m, n>>
  <2> DEFINE S == {m, n}
             s == <<m>>
             t == <<n>>
             u == <<m, n>>
  <2>1. s \in Seq(S) /\ t \in Seq(S) /\ u \in Seq(S)
    OBVIOUS
  <2>2. Len(s) = 1 /\ s[1] = m /\ Len(t) = 1 /\ t[1] = n /\ Len(u) = 2 /\ u[1] = m /\ u[2] = n
    OBVIOUS
  <2> HIDE DEF s, t, u, S
  <2>3. /\ s \o t \in Seq(S) /\ Len(s \o t) = Len(s) + Len(t)
        /\ \A i \in 1 .. Len(s) + Len(t) : (s \o t)[i] = IF i <= Len(s) THEN s[i] ELSE t[i - Len(s)]
    BY <2>1, ConcatProperties
  <2>4. Len(s \o t) = 2 /\ (s \o t)[1] = m /\ (s \o t)[2] = n
    BY <2>2, <2>3
  <2>5. \A i \in 1 .. Len(u) : (s \o t)[i] = u[i]
    BY <2>2, <2>4
  <2>6. s \o t = u
    BY <2>1, <2>2, <2>3, <2>4, <2>5, SeqEqual
  <2> QED BY <2>6 DEF s, t, u
<1>2. <<m, n>> # <<>> /\ Head(<<m, n>>) = m
  OBVIOUS
<1>3. Tail(<<m, n>>) = <<n>>
  OBVIOUS
<1>4. Head(<<n>>) = n /\ Tail(<<n>>) = <<>> /\ <<n>> # <<>>
  OBVIOUS
<1>5. <<n>> # <<m, n>>
  OBVIOUS
<1> QED BY <1>1, <1>2, <1>3, <1>4, <1>5

LEMMA OnlyOf ==
  ASSUME NEW m, NEW type, m.type = type
  PROVE  Only(<<m>>, type) /\ Head(<<m>>) = m
  BY DEF Only

LEMMA OnlyPushOk == \A err : Only(<<[type |-> "push-ok", err |-> err]>>, "push-ok")
<1> SUFFICES ASSUME NEW err PROVE Only(<<[type |-> "push-ok", err |-> err]>>, "push-ok")
  OBVIOUS
<1> DEFINE m == [type |-> "push-ok", err |-> err]
<1>1. m.type = "push-ok"
  OBVIOUS
<1> HIDE DEF m
<1>2. Only(<<m>>, "push-ok")
  BY <1>1, OnlyOf
<1> QED BY <1>2 DEF m

LEMMA OnlyDone == Only(<<[type |-> "done"]>>, "done")
<1> DEFINE m == [type |-> "done"]
<1>1. m.type = "done"
  OBVIOUS
<1> HIDE DEF m
<1>2. Only(<<m>>, "done")
  BY <1>1, OnlyOf
<1> QED BY <1>2 DEF m

\* A link is orderly still after a step of another.
LEMMA OrderlyElsewhere ==
  ASSUME NEW l \in Links, SyncAssumption, Recorded, Orderly(l), LedgerGrows, Grows, Same(l), Len(ledger') \in Nat
  PROVE  Orderly(l)'
<1>1. 1 .. Len(ledger) \subseteq 1 .. Len(ledger') BY DEF Recorded, IsGraph, LedgerGrows
<1>2. Responder(l) \in Repos BY DEF SyncAssumption, Responder
<1>3. held[Responder(l)] \subseteq held'[Responder(l)] BY <1>2 DEF Grows
<1>4. Tips(l)' BY <1>1, <1>3 DEF Orderly, Tips, DialPcs, ServePcs, Same, Responder
<1>5. Pushed(l)' BY <1>1 DEF Orderly, Pushed, Offered, Same
<1>6. Settled(l)' BY DEF Orderly, Settled, Same
<1>7. Streamed(l)' BY DEF Orderly, Streamed, Same
<1> QED BY <1>4, <1>5, <1>6, <1>7 DEF Orderly

\* The ledger is left alone, and so are the working trees.
LEMMA RecordedStays ==
  ASSUME Recorded, Shape, ledger' = ledger, wt' = wt, DOMAIN trees' = Repos, DOMAIN blobs' = Repos,
         \A repo \in Repos : held'[repo] \subseteq 1 .. Len(ledger)
  PROVE  Recorded'
  BY DEF Recorded

\* A commit is of its own ancestry.
LEMMA OwnAncestor ==
  ASSUME Recorded, NEW c \in 1 .. Len(ledger)
  PROVE  c \in ledger[c].anc
<1>1. ledger[c].anc = {c} \union UNION {ledger[p].anc : p \in Parents(ledger, c)}
  BY DEF Recorded, IsGraph
<1> QED BY <1>1

\* The messages a serving responder finds, and when.
LEMMA Receives ==
  ASSUME NEW l \in Links, IInv, Orderly(l), serve[l].pc = "serve", toR[l] # <<>>
  PROVE  /\ Head(toR[l]).type = "push-have" =>
              /\ dial[l].pc = "pushed" /\ toD[l] = <<>>
              /\ \E m, n : /\ toR[l] = <<m, n>> /\ m.type = "push-have" /\ n.type = "push-tip"
                           /\ m.commits \subseteq 1 .. Len(ledger) /\ n.head = dial[l].local
         /\ Head(toR[l]).type = "push-tip" =>
              /\ dial[l].pc = "pushed" /\ toD[l] = <<>>
              /\ Only(toR[l], "push-tip") /\ Head(toR[l]).head = dial[l].local
         /\ Head(toR[l]).type = "done" =>
              \/ dial[l].pc = "synced" /\ toD[l] = <<>> /\ Only(toR[l], "done")
              \/ dial[l].pc = "ping" /\ toD[l] = <<>> /\ Two(toR[l], "done", "ping")
         /\ Head(toR[l]).type = "ping" =>
              dial[l].pc = "ping" /\ toD[l] = <<>> /\ Only(toR[l], "ping")
<1> DEFINE type == Head(toR[l]).type
<1>1. dial[l].pc \in {"idle", "hello", "fetch", "have", "objects", "data", "integrate", "push"}
        => type \notin {"push-have", "push-tip", "done", "ping"}
  BY DEF IInv, Protocol, Idle, Greeting, Asking, Loading, Waiting, Quiet, Only
<1>2. dial[l].pc = "pushed" =>
         /\ toD[l] = <<>>
         /\ \/ Only(toR[l], "push-tip") /\ Head(toR[l]).head = dial[l].local /\ type = "push-tip"
            \/ /\ \E m, n : /\ toR[l] = <<m, n>> /\ m.type = "push-have" /\ n.type = "push-tip"
                            /\ m.commits \subseteq 1 .. Len(ledger) /\ n.head = dial[l].local
               /\ type = "push-have"
  <2>1. ASSUME NEW m, NEW n, toR[l] = <<m, n>>, m.type = "push-have" PROVE type = "push-have"
    BY <2>1, TwoMessages
  <2> QED BY <2>1 DEF Orderly, Pushed, Offered, Only
<1>3. dial[l].pc = "synced" => toD[l] = <<>> /\ Only(toR[l], "done") /\ type = "done"
  BY DEF Orderly, Settled, Only
<1>4. dial[l].pc = "ping" =>
         /\ toD[l] = <<>>
         /\ \/ Only(toR[l], "ping") /\ type = "ping"
            \/ Two(toR[l], "done", "ping") /\ type = "done"
  <2>1. Two(toR[l], "done", "ping") => type = "done"
    BY TwoMessages DEF Two
  <2> QED BY <2>1 DEF Orderly, Settled, Only
<1>5. dial[l].pc \in DialPcs
  BY DEF Orderly, Tips
<1> HIDE DEF type
<1>6. CASE dial[l].pc \in {"idle", "hello", "fetch", "have", "objects", "data", "integrate", "push"}
  BY <1>1, <1>6 DEF type
<1>7. CASE dial[l].pc = "pushed"
  BY <1>2, <1>7 DEF type
<1>8. CASE dial[l].pc = "synced"
  BY <1>3, <1>8 DEF type
<1>9. CASE dial[l].pc = "ping"
  BY <1>4, <1>9 DEF type
<1> QED BY <1>5, <1>6, <1>7, <1>8, <1>9 DEF DialPcs

\* What is left to show of a step of link l.
Fits(l) == Recorded' /\ Adds /\ Orderly(l)'

LEMMA DialFits ==
  ASSUME SInv, SyncAssumption, NEW l \in Links, Dial(l)
  PROVE  Fits(l)
<1> USE DEF SInv, IInv, SyncAssumption, Dialer, Responder
<1>1. Recorded'
  BY RecordedStays DEF Shape, Recorded, Dial, repoVars, ToResponder, Goto
<1>2. Adds
  BY DEF Shape, Recorded, IsGraph, Adds, LedgerGrows, StoresGrow, Dial, repoVars, ToResponder, Goto
<1>3. Tips(l)'
  BY OnlyMessage, FirstMessage DEF Shape, RefsHeld, Recorded, Protocol, Idle, Greeting, Asking, Waiting, Quiet, Goal, Only,
     Orderly, Tips, DialPcs, ServePcs, Dial, repoVars, ToResponder, Goto
<1>4. Pushed(l)'
  BY OnlyMessage, FirstMessage, OnlyOf DEF Shape, Protocol, Idle, Greeting, Asking, Loading, Waiting, Quiet, Only,
     Orderly, Pushed, Offered, Dial, repoVars, ToResponder, Goto
<1>5. Settled(l)'
  BY OnlyMessage, FirstMessage, OnlyOf, TwoMessages DEF Shape, Protocol, Idle, Greeting, Asking, Loading, Waiting, Quiet, Only,
     Orderly, Pushed, Offered, Settled, Two, Dial, repoVars, ToResponder, Goto
<1>6. Streamed(l)'
  BY OnlyMessage, FirstMessage, OnlyOf DEF Shape, Protocol, Idle, Greeting, Asking, Loading, Waiting, Quiet, Only,
     Orderly, Pushed, Streamed, Dial, repoVars, ToResponder, Goto
<1> QED BY <1>1, <1>2, <1>3, <1>4, <1>5, <1>6 DEF Fits, Orderly

LEMMA AcceptFits ==
  ASSUME SInv, SyncAssumption, NEW l \in Links, Accept(l)
  PROVE  Fits(l)
<1> USE DEF SInv, IInv, SyncAssumption, Dialer, Responder
<1>1. Recorded'
  BY RecordedStays DEF Shape, Recorded, Accept, repoVars, ToDialer
<1>2. Adds
  BY DEF Shape, Recorded, IsGraph, Adds, LedgerGrows, StoresGrow, Accept, repoVars, ToDialer
<1>3. Tips(l)'
  BY OnlyMessage, FirstMessage DEF Shape, RefsHeld, Recorded, Protocol, Idle, Greeting, Asking, Waiting, Quiet, Goal, Only,
     Orderly, Tips, DialPcs, ServePcs, Accept, repoVars, ToDialer
<1>4. Pushed(l)'
  BY OnlyMessage, FirstMessage, OnlyOf DEF Shape, Protocol, Idle, Greeting, Asking, Loading, Waiting, Quiet, Only,
     Orderly, Pushed, Offered, Accept, repoVars, ToDialer
<1>5. Settled(l)'
  BY OnlyMessage, FirstMessage, OnlyOf, TwoMessages DEF Shape, Protocol, Idle, Greeting, Asking, Loading, Waiting, Quiet, Only,
     Orderly, Pushed, Offered, Settled, Two, Accept, repoVars, ToDialer
<1>6. Streamed(l)'
  BY OnlyMessage, FirstMessage, OnlyOf DEF Shape, Protocol, Idle, Greeting, Asking, Loading, Waiting, Quiet, Only,
     Orderly, Pushed, Streamed, Accept, repoVars, ToDialer
<1> QED BY <1>1, <1>2, <1>3, <1>4, <1>5, <1>6 DEF Fits, Orderly

LEMMA DialerHelloFits ==
  ASSUME SInv, SyncAssumption, NEW l \in Links, DialerHello(l)
  PROVE  Fits(l)
<1> USE DEF SInv, IInv, SyncAssumption, Dialer, Responder
<1>1. Recorded'
  BY RecordedStays DEF Shape, Recorded, DialerHello, repoVars, ToResponder, IdleDial
<1>2. Adds
  BY DEF Shape, Recorded, IsGraph, Adds, LedgerGrows, StoresGrow, DialerHello, repoVars, ToResponder, IdleDial
<1>3. Tips(l)'
  BY OnlyMessage, FirstMessage DEF Shape, RefsHeld, Recorded, Protocol, Idle, Greeting, Asking, Waiting, Quiet, Goal, Only,
     Orderly, Tips, DialPcs, ServePcs, DialerHello, repoVars, ToResponder, IdleDial
<1>4. Pushed(l)'
  BY OnlyMessage, FirstMessage, OnlyOf DEF Shape, Protocol, Idle, Greeting, Asking, Loading, Waiting, Quiet, Only,
     Orderly, Pushed, Offered, DialerHello, repoVars, ToResponder, IdleDial
<1>5. Settled(l)'
  <2>1. serve[l].pc = "serve" /\ toR[l] = <<>> /\ Only(toD[l], "hello")
    BY DEF DialerHello, Protocol, Greeting
  <2>2. /\ serve'[l] = serve[l] /\ toD'[l] = <<>> /\ dial'[l].pc \in {"fetch", "push", "synced"}
        /\ dial'[l].pc = "synced" => toR'[l] = <<[type |-> "done"]>>
    BY <2>1, OnlyMessage, FirstMessage DEF DialerHello, ToResponder, IdleDial, Shape
  <2> QED BY <2>1, <2>2, OnlyDone DEF Settled
<1>6. Streamed(l)'
  BY OnlyMessage, FirstMessage, OnlyOf DEF Shape, Protocol, Idle, Greeting, Asking, Loading, Waiting, Quiet, Only,
     Orderly, Pushed, Streamed, DialerHello, repoVars, ToResponder, IdleDial
<1> QED BY <1>1, <1>2, <1>3, <1>4, <1>5, <1>6 DEF Fits, Orderly

LEMMA FetchCommitsFits ==
  ASSUME SInv, SyncAssumption, NEW l \in Links, FetchCommits(l)
  PROVE  Fits(l)
<1> USE DEF SInv, IInv, SyncAssumption, Dialer, Responder
<1>1. Recorded'
  BY RecordedStays DEF Shape, Recorded, FetchCommits, repoVars, ToResponder, Goto
<1>2. Adds
  BY DEF Shape, Recorded, IsGraph, Adds, LedgerGrows, StoresGrow, FetchCommits, repoVars, ToResponder, Goto
<1>3. Tips(l)'
  <2>1. toD[l] = <<>> /\ toD'[l] = toD[l] /\ serve'[l] = serve[l]
    BY DEF FetchCommits, Protocol, Waiting, Quiet
  <2>2. /\ dial'[l].local = dial[l].local /\ dial'[l].remote = dial[l].remote
        /\ dial'[l].pc \in {"objects", "have"}
    BY DEF FetchCommits, Goto, Shape
  <2>3. ledger' = ledger /\ held' = held
    BY DEF FetchCommits, repoVars
  <2> QED BY <2>1, <2>2, <2>3 DEF Orderly, Tips, DialPcs, ServePcs
<1>4. Pushed(l)'
  BY OnlyMessage, FirstMessage, OnlyOf DEF Shape, Protocol, Idle, Greeting, Asking, Loading, Waiting, Quiet, Only,
     Orderly, Pushed, Offered, FetchCommits, repoVars, ToResponder, Goto
<1>5. Settled(l)'
  BY OnlyMessage, FirstMessage, OnlyOf, TwoMessages DEF Shape, Protocol, Idle, Greeting, Asking, Loading, Waiting, Quiet, Only,
     Orderly, Pushed, Offered, Settled, Two, FetchCommits, repoVars, ToResponder, Goto
<1>6. Streamed(l)'
  BY OnlyMessage, FirstMessage, OnlyOf DEF Shape, Protocol, Idle, Greeting, Asking, Loading, Waiting, Quiet, Only,
     Orderly, Pushed, Streamed, FetchCommits, repoVars, ToResponder, Goto
<1> QED BY <1>1, <1>2, <1>3, <1>4, <1>5, <1>6 DEF Fits, Orderly

LEMMA RecvHaveFits ==
  ASSUME SInv, SyncAssumption, NEW l \in Links, RecvHave(l)
  PROVE  Fits(l)
<1> USE DEF SInv, IInv, SyncAssumption, Dialer, Responder
<1>1. Recorded'
  <2>1. Head(toD[l]).commits \subseteq 1 .. Len(ledger)
    BY DEF RecvHave, Orderly, Tips
  <2>2. /\ ledger' = ledger /\ wt' = wt /\ trees' = trees /\ blobs' = blobs
        /\ held' = [held EXCEPT ![Dialer(l)] = held[Dialer(l)] \union Head(toD[l]).commits]
    BY DEF RecvHave
  <2>3. \A repo \in Repos : held'[repo] \subseteq 1 .. Len(ledger)
    BY <2>1, <2>2 DEF Recorded, Shape
  <2> QED BY <2>2, <2>3 DEF Recorded
<1>2. Adds
  BY DEF Shape, Recorded, IsGraph, Adds, LedgerGrows, StoresGrow, RecvHave
<1>3. Tips(l)'
  BY OnlyMessage, FirstMessage DEF Shape, RefsHeld, Recorded, Protocol, Idle, Greeting, Asking, Waiting, Quiet, Goal, Only,
     Orderly, Tips, DialPcs, ServePcs, RecvHave
<1>4. Pushed(l)'
  BY OnlyMessage, FirstMessage, OnlyOf DEF Shape, Protocol, Idle, Greeting, Asking, Loading, Waiting, Quiet, Only,
     Orderly, Pushed, Offered, RecvHave
<1>5. Settled(l)'
  BY OnlyMessage, FirstMessage, OnlyOf, TwoMessages DEF Shape, Protocol, Idle, Greeting, Asking, Loading, Waiting, Quiet, Only,
     Orderly, Pushed, Offered, Settled, Two, RecvHave
<1>6. Streamed(l)'
  BY OnlyMessage, FirstMessage, OnlyOf DEF Shape, Protocol, Idle, Greeting, Asking, Loading, Waiting, Quiet, Only,
     Orderly, Pushed, Streamed, RecvHave
<1> QED BY <1>1, <1>2, <1>3, <1>4, <1>5, <1>6 DEF Fits, Orderly

LEMMA FetchObjectsFits ==
  ASSUME SInv, SyncAssumption, NEW l \in Links, FetchObjects(l)
  PROVE  Fits(l)
<1> USE DEF SInv, IInv, SyncAssumption, Dialer, Responder
<1>1. Recorded'
  BY RecordedStays DEF Shape, Recorded, FetchObjects, repoVars, ToResponder, Goto, Close, IdleDial, IdleServe, NoStream
<1>2. Adds
  BY DEF Shape, Recorded, IsGraph, Adds, LedgerGrows, StoresGrow, FetchObjects, repoVars, ToResponder, Goto, Close, IdleDial, IdleServe, NoStream
<1>3. Tips(l)'
  <2>1. toD[l] = <<>> /\ serve[l].pc = "serve"
    BY DEF FetchObjects, Protocol, Waiting, Quiet
  <2>2. toD'[l] = <<>> /\ (serve'[l] = serve[l] \/ serve'[l] = IdleServe)
    BY <2>1 DEF FetchObjects, Close, Shape
  <2>3. \/ dial'[l] = IdleDial
        \/ /\ dial'[l].local = dial[l].local /\ dial'[l].remote = dial[l].remote
           /\ dial'[l].pc \in {"integrate", "data"}
    BY DEF FetchObjects, Close, Goto, Shape
  <2>4. ledger' = ledger /\ held' = held
    BY DEF FetchObjects, repoVars
  <2> QED BY <2>2, <2>3, <2>4 DEF Orderly, Tips, DialPcs, ServePcs, IdleDial, IdleServe
<1>4. Pushed(l)'
  BY OnlyMessage, FirstMessage, OnlyOf DEF Shape, Protocol, Idle, Greeting, Asking, Loading, Waiting, Quiet, Only,
     Orderly, Pushed, Offered, FetchObjects, repoVars, ToResponder, Goto, Close, IdleDial, IdleServe, NoStream
<1>5. Settled(l)'
  BY OnlyMessage, FirstMessage, OnlyOf, TwoMessages DEF Shape, Protocol, Idle, Greeting, Asking, Loading, Waiting, Quiet, Only,
     Orderly, Pushed, Offered, Settled, Two, FetchObjects, repoVars, ToResponder, Goto, Close, IdleDial, IdleServe, NoStream
<1>6. Streamed(l)'
  BY OnlyMessage, FirstMessage, OnlyOf DEF Shape, Protocol, Idle, Greeting, Asking, Loading, Waiting, Quiet, Only,
     Orderly, Pushed, Streamed, FetchObjects, repoVars, ToResponder, Goto, Close, IdleDial, IdleServe, NoStream
<1> QED BY <1>1, <1>2, <1>3, <1>4, <1>5, <1>6 DEF Fits, Orderly

LEMMA DialerDataFits ==
  ASSUME SInv, SyncAssumption, NEW l \in Links, DialerData(l)
  PROVE  Fits(l)
<1> USE DEF SInv, IInv, SyncAssumption, Dialer, Responder
<1>1. Recorded'
  BY RecordedStays DEF Shape, Recorded, DialerData, Goto, Close, Store, NoStream, IdleDial, IdleServe
<1>2. Adds
  BY DEF Shape, Recorded, IsGraph, Adds, LedgerGrows, StoresGrow, DialerData, Goto, Close, Store, NoStream, IdleDial, IdleServe
<1>3. Tips(l)'
  <2>1. toD[l] = <<>>
    BY DEF DialerData, Protocol, Loading
  <2>2. toD'[l] = <<>> /\ (serve'[l] = serve[l] \/ serve'[l] = IdleServe)
    BY <2>1 DEF DialerData, Close, Shape
  <2>3. \/ dial'[l] = IdleDial
        \/ /\ dial'[l].local = dial[l].local /\ dial'[l].remote = dial[l].remote
           /\ dial'[l].pc = "objects"
    BY DEF DialerData, Close, Goto, Shape
  <2>4. ledger' = ledger /\ held' = held
    BY DEF DialerData
  <2> QED BY <2>2, <2>3, <2>4 DEF Orderly, Tips, DialPcs, ServePcs, IdleDial, IdleServe
<1>4. Pushed(l)'
  BY OnlyMessage, FirstMessage, OnlyOf DEF Shape, Protocol, Idle, Greeting, Asking, Loading, Waiting, Quiet, Only,
     Orderly, Pushed, Offered, DialerData, Goto, Close, Store, NoStream, IdleDial, IdleServe
<1>5. Settled(l)'
  BY OnlyMessage, FirstMessage, OnlyOf, TwoMessages DEF Shape, Protocol, Idle, Greeting, Asking, Loading, Waiting, Quiet, Only,
     Orderly, Pushed, Offered, Settled, Two, DialerData, Goto, Close, Store, NoStream, IdleDial, IdleServe
<1>6. Streamed(l)'
  BY OnlyMessage, FirstMessage, OnlyOf DEF Shape, Protocol, Idle, Greeting, Asking, Loading, Waiting, Quiet, Only,
     Orderly, Pushed, Streamed, DialerData, Goto, Close, Store, NoStream, IdleDial, IdleServe
<1> QED BY <1>1, <1>2, <1>3, <1>4, <1>5, <1>6 DEF Fits, Orderly

LEMMA DialerServeFits ==
  ASSUME SInv, SyncAssumption, NEW l \in Links, DialerServe(l)
  PROVE  Fits(l)
<1> USE DEF SInv, IInv, SyncAssumption, Dialer, Responder
<1>1. Recorded'
  BY RecordedStays DEF Shape, Recorded, DialerServe, repoVars, Stream
<1>2. Adds
  BY DEF Shape, Recorded, IsGraph, Adds, LedgerGrows, StoresGrow, DialerServe, repoVars, Stream
<1>3. Tips(l)'
  BY OnlyMessage, FirstMessage DEF Shape, RefsHeld, Recorded, Protocol, Idle, Greeting, Asking, Waiting, Quiet, Goal, Only,
     Orderly, Tips, DialPcs, ServePcs, DialerServe, repoVars, Stream
<1>4. Pushed(l)'
  BY OnlyMessage, FirstMessage, OnlyOf DEF Shape, Protocol, Idle, Greeting, Asking, Loading, Waiting, Quiet, Only,
     Orderly, Pushed, Offered, DialerServe, repoVars, Stream
<1>5. Settled(l)'
  BY OnlyMessage, FirstMessage, OnlyOf, TwoMessages DEF Shape, Protocol, Idle, Greeting, Asking, Loading, Waiting, Quiet, Only,
     Orderly, Pushed, Offered, Settled, Two, DialerServe, repoVars, Stream
<1>6. Streamed(l)'
  BY OnlyMessage, FirstMessage, OnlyOf DEF Shape, Protocol, Idle, Greeting, Asking, Loading, Waiting, Quiet, Only,
     Orderly, Pushed, Streamed, DialerServe, repoVars, Stream
<1> QED BY <1>1, <1>2, <1>3, <1>4, <1>5, <1>6 DEF Fits, Orderly

LEMMA PushOkFits ==
  ASSUME SInv, SyncAssumption, NEW l \in Links, PushOk(l)
  PROVE  Fits(l)
<1> USE DEF SInv, IInv, SyncAssumption, Dialer, Responder
<1>1. Recorded'
  BY RecordedStays DEF Shape, Recorded, PushOk, repoVars, ToResponder, Goto, Close, IdleDial, IdleServe, NoStream
<1>2. Adds
  BY DEF Shape, Recorded, IsGraph, Adds, LedgerGrows, StoresGrow, PushOk, repoVars, ToResponder, Goto, Close, IdleDial, IdleServe, NoStream
<1>3. Tips(l)'
  <2>1. (serve'[l] = serve[l] \/ serve'[l] = IdleServe)
    BY DEF PushOk, Close, Shape
  <2>2. \/ dial'[l] = IdleDial
        \/ /\ dial'[l].local = dial[l].local /\ dial'[l].remote = dial[l].remote
           /\ dial'[l].pc = "synced"
    BY DEF PushOk, Close, Goto, Shape
  <2>3. ledger' = ledger /\ held' = held
    BY DEF PushOk, repoVars
  <2> QED BY <2>1, <2>2, <2>3 DEF Orderly, Tips, DialPcs, ServePcs, IdleDial, IdleServe
<1>4. Pushed(l)'
  BY OnlyMessage, FirstMessage, OnlyOf DEF Shape, Protocol, Idle, Greeting, Asking, Loading, Waiting, Quiet, Only,
     Orderly, Pushed, Offered, PushOk, repoVars, ToResponder, Goto, Close, IdleDial, IdleServe, NoStream
<1>5. Settled(l)'
  <2>1. serve[l].pc = "serve" /\ toR[l] = <<>> /\ Only(toD[l], "push-ok")
    BY DEF PushOk, Orderly, Pushed, Only
  <2>2. CASE Head(toD[l]).err
    BY <2>2 DEF PushOk, Close, IdleDial, Shape, Settled
  <2>3. CASE ~Head(toD[l]).err
    <3>0. toD'[l] = Tail(toD[l])
      BY <2>3 DEF PushOk, Shape
    <3>1. serve'[l] = serve[l] /\ toD'[l] = <<>> /\ dial'[l].pc = "synced"
      BY <2>1, <2>3, <3>0, OnlyMessage DEF PushOk, Goto, Shape
    <3>2. toR'[l] = <<>> \/ toR'[l] = <<[type |-> "done"]>>
      BY <2>1, <2>3, FirstMessage DEF PushOk, ToResponder, Shape
    <3> QED BY <2>1, <3>1, <3>2, OnlyDone DEF Settled
  <2> QED BY <2>2, <2>3
<1>6. Streamed(l)'
  BY OnlyMessage, FirstMessage, OnlyOf DEF Shape, Protocol, Idle, Greeting, Asking, Loading, Waiting, Quiet, Only,
     Orderly, Pushed, Streamed, PushOk, repoVars, ToResponder, Goto, Close, IdleDial, IdleServe, NoStream
<1> QED BY <1>1, <1>2, <1>3, <1>4, <1>5, <1>6 DEF Fits, Orderly

LEMMA PingFits ==
  ASSUME SInv, SyncAssumption, NEW l \in Links, Ping(l)
  PROVE  Fits(l)
<1> USE DEF SInv, IInv, SyncAssumption, Dialer, Responder
<1>1. Recorded'
  BY RecordedStays DEF Shape, Recorded, Ping, repoVars, ToResponder, Goto
<1>2. Adds
  BY DEF Shape, Recorded, IsGraph, Adds, LedgerGrows, StoresGrow, Ping, repoVars, ToResponder, Goto
<1>3. Tips(l)'
  BY OnlyMessage, FirstMessage DEF Shape, RefsHeld, Recorded, Protocol, Idle, Greeting, Asking, Waiting, Quiet, Goal, Only,
     Orderly, Tips, DialPcs, ServePcs, Ping, repoVars, ToResponder, Goto
<1>4. Pushed(l)'
  BY OnlyMessage, FirstMessage, OnlyOf DEF Shape, Protocol, Idle, Greeting, Asking, Loading, Waiting, Quiet, Only,
     Orderly, Pushed, Offered, Ping, repoVars, ToResponder, Goto
<1>5. Settled(l)'
  <2> DEFINE ping == [type |-> "ping", head |-> ref[Dialer(l)]]
  <2>1. serve[l].pc = "serve" /\ toD[l] = <<>> /\ (toR[l] = <<>> \/ Only(toR[l], "done"))
    BY DEF Ping, Orderly, Settled
  <2>2. /\ serve'[l] = serve[l] /\ toD'[l] = toD[l] /\ dial'[l].pc = "ping"
        /\ toR'[l] = toR[l] \o <<ping>>
    BY DEF Ping, Goto, ToResponder, Shape
  <2>3. ping.type = "ping"
    OBVIOUS
  <2> HIDE DEF ping
  <2>4. CASE toR[l] = <<>>
    BY <2>1, <2>2, <2>3, <2>4, FirstMessage, OnlyOf DEF Settled
  <2>5. CASE Only(toR[l], "done")
    <3>0. toR[l] = <<Head(toR[l])>>
      BY <2>5 DEF Only
    <3>1. toR'[l] = <<Head(toR[l]), ping>>
      <4>1. toR'[l] = <<Head(toR[l])>> \o <<ping>> BY <2>2, <3>0, Zenon
      <4> QED BY <4>1, TwoMessages, Zenon
    <3>2. Two(toR'[l], "done", "ping")
      BY <2>3, <2>5, <3>1 DEF Two, Only
    <3> QED BY <2>1, <2>2, <3>2 DEF Settled
  <2> QED BY <2>1, <2>4, <2>5
<1>6. Streamed(l)'
  BY OnlyMessage, FirstMessage, OnlyOf DEF Shape, Protocol, Idle, Greeting, Asking, Loading, Waiting, Quiet, Only,
     Orderly, Pushed, Streamed, Ping, repoVars, ToResponder, Goto
<1> QED BY <1>1, <1>2, <1>3, <1>4, <1>5, <1>6 DEF Fits, Orderly

LEMMA PongFits ==
  ASSUME SInv, SyncAssumption, NEW l \in Links, Pong(l)
  PROVE  Fits(l)
<1> USE DEF SInv, IInv, SyncAssumption, Dialer, Responder
<1>1. Recorded'
  BY RecordedStays DEF Shape, Recorded, Pong, repoVars, Goto, Close, IdleDial, IdleServe, NoStream
<1>2. Adds
  BY DEF Shape, Recorded, IsGraph, Adds, LedgerGrows, StoresGrow, Pong, repoVars, Goto, Close, IdleDial, IdleServe, NoStream
<1>3. Tips(l)'
  <2>1. ledger' = ledger /\ held' = held
    BY DEF Pong, repoVars
  <2>2. CASE Close(l)
    BY <2>1, <2>2 DEF Shape, Close, IdleDial, IdleServe, NoStream, Tips, DialPcs, ServePcs
  <2>3. CASE Goto(l, "synced") /\ serve' = serve
    BY <2>1, <2>3 DEF Shape, Goto, Orderly, Tips, DialPcs, ServePcs
  <2> QED BY <2>2, <2>3, Zenon DEF Pong
<1>4. Pushed(l)'
  <2>1. dial'[l].pc # "pushed"
    BY DEF Shape, Pong, Goto, Close, IdleDial
  <2> QED BY <2>1 DEF Pushed
<1>5. Settled(l)'
  <2>1. serve[l].pc = "serve" /\ toR[l] = <<>> /\ Only(toD[l], "pong")
    BY DEF Pong, Orderly, Settled
  <2>2. CASE Head(toD[l]).head \notin held[Dialer(l)] \union {Nil}
    BY <2>2 DEF Pong, Close, IdleDial, Shape, Settled
  <2>3. CASE Head(toD[l]).head \in held[Dialer(l)] \union {Nil}
    <3>0. toD'[l] = Tail(toD[l])
      BY <2>3 DEF Pong, Shape
    <3>1. serve'[l] = serve[l] /\ toR'[l] = toR[l] /\ toD'[l] = <<>> /\ dial'[l].pc = "synced"
      BY <2>1, <2>3, <3>0, OnlyMessage DEF Pong, Goto, Shape
    <3> QED BY <2>1, <3>1 DEF Settled
  <2> QED BY <2>2, <2>3
<1>6. Streamed(l)'
  BY OnlyMessage, FirstMessage, OnlyOf DEF Shape, Protocol, Idle, Greeting, Asking, Loading, Waiting, Quiet, Only,
     Orderly, Pushed, Streamed, Pong, repoVars, Goto, Close, IdleDial, IdleServe, NoStream
<1> QED BY <1>1, <1>2, <1>3, <1>4, <1>5, <1>6 DEF Fits, Orderly

LEMMA HangUpFits ==
  ASSUME SInv, SyncAssumption, NEW l \in Links, HangUp(l)
  PROVE  Fits(l)
<1> USE DEF SInv, IInv, SyncAssumption, Dialer, Responder
<1>1. Recorded'
  BY RecordedStays DEF Shape, Recorded, HangUp, repoVars, Close, IdleDial, IdleServe, NoStream
<1>2. Adds
  BY DEF Shape, Recorded, IsGraph, Adds, LedgerGrows, StoresGrow, HangUp, repoVars, Close, IdleDial, IdleServe, NoStream
<1>3. Tips(l)'
  BY OnlyMessage, FirstMessage DEF Shape, RefsHeld, Recorded, Protocol, Idle, Greeting, Asking, Waiting, Quiet, Goal, Only,
     Orderly, Tips, DialPcs, ServePcs, HangUp, repoVars, Close, IdleDial, IdleServe, NoStream
<1>4. Pushed(l)'
  BY OnlyMessage, FirstMessage, OnlyOf DEF Shape, Protocol, Idle, Greeting, Asking, Loading, Waiting, Quiet, Only,
     Orderly, Pushed, Offered, HangUp, repoVars, Close, IdleDial, IdleServe, NoStream
<1>5. Settled(l)'
  BY OnlyMessage, FirstMessage, OnlyOf, TwoMessages DEF Shape, Protocol, Idle, Greeting, Asking, Loading, Waiting, Quiet, Only,
     Orderly, Pushed, Offered, Settled, Two, HangUp, repoVars, Close, IdleDial, IdleServe, NoStream
<1>6. Streamed(l)'
  BY OnlyMessage, FirstMessage, OnlyOf DEF Shape, Protocol, Idle, Greeting, Asking, Loading, Waiting, Quiet, Only,
     Orderly, Pushed, Streamed, HangUp, repoVars, Close, IdleDial, IdleServe, NoStream
<1> QED BY <1>1, <1>2, <1>3, <1>4, <1>5, <1>6 DEF Fits, Orderly

LEMMA ServeWantFits ==
  ASSUME SInv, SyncAssumption, NEW l \in Links, ServeWant(l)
  PROVE  Fits(l)
<1> USE DEF SInv, IInv, SyncAssumption, Dialer, Responder
<1>1. Recorded'
  BY RecordedStays DEF Shape, Recorded, ServeWant, repoVars, ToDialer, Serving, Consume
<1>2. Adds
  BY DEF Shape, Recorded, IsGraph, Adds, LedgerGrows, StoresGrow, ServeWant, repoVars, ToDialer, Serving, Consume
<1>3. Tips(l)'
  BY OnlyMessage, FirstMessage DEF Shape, RefsHeld, Recorded, Protocol, Idle, Greeting, Asking, Waiting, Quiet, Goal, Only,
     Orderly, Tips, DialPcs, ServePcs, ServeWant, repoVars, ToDialer, Serving, Consume
<1>4. Pushed(l)'
  BY OnlyMessage, FirstMessage, OnlyOf DEF Shape, Protocol, Idle, Greeting, Asking, Loading, Waiting, Quiet, Only,
     Orderly, Pushed, Offered, ServeWant, repoVars, ToDialer, Serving, Consume
<1>5. Settled(l)'
  BY OnlyMessage, FirstMessage, OnlyOf, TwoMessages DEF Shape, Protocol, Idle, Greeting, Asking, Loading, Waiting, Quiet, Only,
     Orderly, Pushed, Offered, Settled, Two, ServeWant, repoVars, ToDialer, Serving, Consume
<1>6. Streamed(l)'
  BY OnlyMessage, FirstMessage, OnlyOf DEF Shape, Protocol, Idle, Greeting, Asking, Loading, Waiting, Quiet, Only,
     Orderly, Pushed, Streamed, ServeWant, repoVars, ToDialer, Serving, Consume
<1> QED BY <1>1, <1>2, <1>3, <1>4, <1>5, <1>6 DEF Fits, Orderly

LEMMA ServeWantObjectsFits ==
  ASSUME SInv, SyncAssumption, NEW l \in Links, ServeWantObjects(l)
  PROVE  Fits(l)
<1> USE DEF SInv, IInv, SyncAssumption, Dialer, Responder
<1>1. Recorded'
  BY RecordedStays DEF Shape, Recorded, ServeWantObjects, repoVars, Serving, Consume, Stream
<1>2. Adds
  BY DEF Shape, Recorded, IsGraph, Adds, LedgerGrows, StoresGrow, ServeWantObjects, repoVars, Serving, Consume, Stream
<1>3. Tips(l)'
  BY OnlyMessage, FirstMessage DEF Shape, RefsHeld, Recorded, Protocol, Idle, Greeting, Asking, Waiting, Quiet, Goal, Only,
     Orderly, Tips, DialPcs, ServePcs, ServeWantObjects, repoVars, Serving, Consume, Stream
<1>4. Pushed(l)'
  <2>1. toR[l] # <<>> /\ Head(toR[l]).type = "want-objects" /\ dial' = dial
    BY DEF ServeWantObjects, Serving
  <2>2. ~Offered(l)
    BY <2>1, TwoMessages DEF Offered, Only
  <2>3. dial[l].pc # "pushed"
    BY <2>1, <2>2 DEF Orderly, Pushed
  <2> QED BY <2>1, <2>3 DEF Pushed
<1>5. Settled(l)'
  BY OnlyMessage, FirstMessage, OnlyOf, TwoMessages DEF Shape, Protocol, Idle, Greeting, Asking, Loading, Waiting, Quiet, Only,
     Orderly, Pushed, Offered, Settled, Two, ServeWantObjects, repoVars, Serving, Consume, Stream
<1>6. Streamed(l)'
  BY OnlyMessage, FirstMessage, OnlyOf DEF Shape, Protocol, Idle, Greeting, Asking, Loading, Waiting, Quiet, Only,
     Orderly, Pushed, Streamed, ServeWantObjects, repoVars, Serving, Consume, Stream
<1> QED BY <1>1, <1>2, <1>3, <1>4, <1>5, <1>6 DEF Fits, Orderly

LEMMA ServePushHaveFits ==
  ASSUME SInv, SyncAssumption, NEW l \in Links, ServePushHave(l)
  PROVE  Fits(l)
<1> USE DEF SInv, IInv, SyncAssumption, Dialer, Responder
<1>1. Recorded'
  <2>1. Head(toR[l]).commits \subseteq 1 .. Len(ledger)
    BY Receives, TwoMessages DEF ServePushHave, Serving
  <2>2. /\ ledger' = ledger /\ wt' = wt /\ trees' = trees /\ blobs' = blobs
        /\ held' = [held EXCEPT ![Responder(l)] = held[Responder(l)] \union Head(toR[l]).commits]
    BY DEF ServePushHave
  <2>3. \A repo \in Repos : held'[repo] \subseteq 1 .. Len(ledger)
    BY <2>1, <2>2 DEF Recorded, Shape
  <2> QED BY <2>2, <2>3 DEF Recorded
<1>2. Adds
  BY DEF Shape, Recorded, IsGraph, Adds, LedgerGrows, StoresGrow, ServePushHave, Serving, Consume
<1>3. Tips(l)'
  BY OnlyMessage, FirstMessage DEF Shape, RefsHeld, Recorded, Protocol, Idle, Greeting, Asking, Waiting, Quiet, Goal, Only,
     Orderly, Tips, DialPcs, ServePcs, ServePushHave, Serving, Consume
<1>4. Pushed(l)'
  <2>1. PICK m, n : /\ toR[l] = <<m, n>> /\ m.type = "push-have" /\ n.type = "push-tip"
                    /\ m.commits \subseteq 1 .. Len(ledger) /\ n.head = dial[l].local
    BY Receives DEF ServePushHave, Serving
  <2>2. toD[l] = <<>>
    BY Receives DEF ServePushHave, Serving
  <2>3. dial' = dial /\ serve' = serve /\ toD' = toD /\ toR'[l] = Tail(toR[l]) /\ serve[l].pc = "serve"
    BY DEF ServePushHave, Serving, Consume, Shape
  <2>4. Only(toR'[l], "push-tip") /\ Head(toR'[l]).head = dial[l].local
    BY <2>1, <2>3, TwoMessages, OnlyOf
  <2> QED BY <2>2, <2>3, <2>4 DEF Pushed, Offered
<1>5. Settled(l)'
  BY OnlyMessage, FirstMessage, OnlyOf, TwoMessages DEF Shape, Protocol, Idle, Greeting, Asking, Loading, Waiting, Quiet, Only,
     Orderly, Pushed, Offered, Settled, Two, ServePushHave, Serving, Consume
<1>6. Streamed(l)'
  BY OnlyMessage, FirstMessage, OnlyOf DEF Shape, Protocol, Idle, Greeting, Asking, Loading, Waiting, Quiet, Only,
     Orderly, Pushed, Streamed, ServePushHave, Serving, Consume
<1> QED BY <1>1, <1>2, <1>3, <1>4, <1>5, <1>6 DEF Fits, Orderly

LEMMA ServePushTipFits ==
  ASSUME SInv, SyncAssumption, NEW l \in Links, ServePushTip(l)
  PROVE  Fits(l)
<1> USE DEF SInv, IInv, SyncAssumption, Dialer, Responder
<1>1. Recorded'
  BY RecordedStays DEF Shape, Recorded, ServePushTip, repoVars, ToDialer, Serving, Consume, IdleServe
<1>2. Adds
  BY DEF Shape, Recorded, IsGraph, Adds, LedgerGrows, StoresGrow, ServePushTip, repoVars, ToDialer, Serving, Consume, IdleServe
<1>3. Tips(l)'
  <2>1. dial[l].pc = "pushed" /\ dial'[l] = dial[l]
    BY Receives DEF ServePushTip, Serving
  <2>2. \/ serve'[l] = serve[l] /\ serve[l].pc = "serve"
        \/ serve'[l] = [pc |-> "objects", tip |-> Head(toR[l]).head, local |-> Nil, round |-> 0]
    BY DEF ServePushTip, Serving, IdleServe, Shape
  <2>3. ledger' = ledger /\ held' = held
    BY DEF ServePushTip, repoVars
  <2> QED BY <2>1, <2>2, <2>3 DEF Orderly, Tips, DialPcs, ServePcs
<1>4. Pushed(l)'
  <2>1. /\ dial[l].pc = "pushed" /\ toD[l] = <<>> /\ Only(toR[l], "push-tip")
        /\ Head(toR[l]).head = dial[l].local
    BY Receives DEF ServePushTip, Serving
  <2>2. dial'[l] = dial[l] /\ toR'[l] = <<>>
    BY <2>1, OnlyMessage DEF ServePushTip, Consume, Shape
  <2>3. CASE Head(toR[l]).head \in held[Responder(l)]
    <3>1. /\ serve'[l] = [pc |-> "objects", tip |-> Head(toR[l]).head, local |-> Nil, round |-> 0]
          /\ toD'[l] = toD[l]
      BY <2>3 DEF ServePushTip, IdleServe, Shape
    <3> QED BY <2>1, <2>2, <3>1 DEF Pushed
  <2>4. CASE Head(toR[l]).head \notin held[Responder(l)]
    <3> DEFINE m == [type |-> "push-ok", err |-> TRUE]
    <3>1. serve'[l] = serve[l] /\ serve[l].pc = "serve" /\ toD'[l] = toD[l] \o <<m>>
      BY <2>4 DEF ServePushTip, Serving, ToDialer, Shape
    <3>2. m.type = "push-ok"
      OBVIOUS
    <3> HIDE DEF m
    <3>3. Only(toD'[l], "push-ok")
      BY <2>1, <3>1, <3>2, FirstMessage, OnlyOf
    <3> QED BY <2>2, <3>1, <3>3 DEF Pushed
  <2> QED BY <2>3, <2>4
<1>5. Settled(l)'
  <2>1. dial[l].pc = "pushed" /\ dial'[l] = dial[l]
    BY Receives DEF ServePushTip, Serving
  <2> QED BY <2>1 DEF Settled
<1>6. Streamed(l)'
  BY OnlyMessage, FirstMessage, OnlyOf DEF Shape, Protocol, Idle, Greeting, Asking, Loading, Waiting, Quiet, Only,
     Orderly, Pushed, Streamed, ServePushTip, repoVars, ToDialer, Serving, Consume, IdleServe
<1> QED BY <1>1, <1>2, <1>3, <1>4, <1>5, <1>6 DEF Fits, Orderly

LEMMA ServeDoneFits ==
  ASSUME SInv, SyncAssumption, NEW l \in Links, ServeDone(l)
  PROVE  Fits(l)
<1> USE DEF SInv, IInv, SyncAssumption, Dialer, Responder
<1>1. Recorded'
  BY RecordedStays DEF Shape, Recorded, ServeDone, repoVars, Serving, Consume
<1>2. Adds
  BY DEF Shape, Recorded, IsGraph, Adds, LedgerGrows, StoresGrow, ServeDone, repoVars, Serving, Consume
<1>3. Tips(l)'
  BY OnlyMessage, FirstMessage DEF Shape, RefsHeld, Recorded, Protocol, Idle, Greeting, Asking, Waiting, Quiet, Goal, Only,
     Orderly, Tips, DialPcs, ServePcs, ServeDone, repoVars, Serving, Consume
<1>4. Pushed(l)'
  <2>1. dial[l].pc \in {"synced", "ping"} /\ dial'[l] = dial[l]
    BY Receives DEF ServeDone, Serving
  <2> QED BY <2>1 DEF Pushed
<1>5. Settled(l)'
  <2>1. \/ dial[l].pc = "synced" /\ toD[l] = <<>> /\ Only(toR[l], "done")
        \/ dial[l].pc = "ping" /\ toD[l] = <<>> /\ Two(toR[l], "done", "ping")
    BY Receives DEF ServeDone, Serving
  <2>2. dial' = dial /\ serve' = serve /\ toD' = toD /\ toR'[l] = Tail(toR[l]) /\ serve[l].pc = "serve"
    BY DEF ServeDone, Serving, Consume, Shape
  <2>3. CASE dial[l].pc = "synced"
    BY <2>1, <2>2, <2>3, OnlyMessage DEF Settled
  <2>4. CASE dial[l].pc = "ping"
    <3>1. PICK m, n : toR[l] = <<m, n>> /\ n.type = "ping"
      BY <2>1, <2>4 DEF Two
    <3>2. Only(toR'[l], "ping")
      BY <2>2, <3>1, TwoMessages, OnlyOf
    <3> QED BY <2>1, <2>2, <2>4, <3>2 DEF Settled
  <2> QED BY <2>1, <2>3, <2>4
<1>6. Streamed(l)'
  BY OnlyMessage, FirstMessage, OnlyOf DEF Shape, Protocol, Idle, Greeting, Asking, Loading, Waiting, Quiet, Only,
     Orderly, Pushed, Streamed, ServeDone, repoVars, Serving, Consume
<1> QED BY <1>1, <1>2, <1>3, <1>4, <1>5, <1>6 DEF Fits, Orderly

LEMMA ServePingFits ==
  ASSUME SInv, SyncAssumption, NEW l \in Links, ServePing(l)
  PROVE  Fits(l)
<1> USE DEF SInv, IInv, SyncAssumption, Dialer, Responder
<1>1. Recorded'
  BY RecordedStays DEF Shape, Recorded, ServePing, repoVars, ToDialer, Close, Serving, Consume, IdleDial, IdleServe, NoStream
<1>2. Adds
  BY DEF Shape, Recorded, IsGraph, Adds, LedgerGrows, StoresGrow, ServePing, repoVars, ToDialer, Close, Serving, Consume, IdleDial, IdleServe, NoStream
<1>3. Tips(l)'
  BY OnlyMessage, FirstMessage DEF Shape, RefsHeld, Recorded, Protocol, Idle, Greeting, Asking, Waiting, Quiet, Goal, Only,
     Orderly, Tips, DialPcs, ServePcs, ServePing, repoVars, ToDialer, Close, Serving, Consume, IdleDial, IdleServe, NoStream
<1>4. Pushed(l)'
  <2>1. dial[l].pc = "ping"
    BY Receives DEF ServePing, Serving
  <2>2. dial'[l].pc # "pushed"
    BY <2>1 DEF Shape, ServePing, Close, IdleDial
  <2> QED BY <2>2 DEF Pushed
<1>5. Settled(l)'
  BY OnlyMessage, FirstMessage, OnlyOf, TwoMessages DEF Shape, Protocol, Idle, Greeting, Asking, Loading, Waiting, Quiet, Only,
     Orderly, Pushed, Offered, Settled, Two, ServePing, repoVars, ToDialer, Close, Serving, Consume, IdleDial, IdleServe, NoStream
<1>6. Streamed(l)'
  BY OnlyMessage, FirstMessage, OnlyOf DEF Shape, Protocol, Idle, Greeting, Asking, Loading, Waiting, Quiet, Only,
     Orderly, Pushed, Streamed, ServePing, repoVars, ToDialer, Close, Serving, Consume, IdleDial, IdleServe, NoStream
<1> QED BY <1>1, <1>2, <1>3, <1>4, <1>5, <1>6 DEF Fits, Orderly

LEMMA EnsureObjectsFits ==
  ASSUME SInv, SyncAssumption, NEW l \in Links, EnsureObjects(l)
  PROVE  Fits(l)
<1> USE DEF SInv, IInv, SyncAssumption, Dialer, Responder
<1>1. Recorded'
  BY RecordedStays DEF Shape, Recorded, EnsureObjects, repoVars, ToDialer, IdleServe
<1>2. Adds
  BY DEF Shape, Recorded, IsGraph, Adds, LedgerGrows, StoresGrow, EnsureObjects, repoVars, ToDialer, IdleServe
<1>3. Tips(l)'
  BY OnlyMessage, FirstMessage DEF Shape, RefsHeld, Recorded, Protocol, Idle, Greeting, Asking, Waiting, Quiet, Goal, Only,
     Orderly, Tips, DialPcs, ServePcs, EnsureObjects, repoVars, ToDialer, IdleServe
<1>4. Pushed(l)'
  BY OnlyMessage, FirstMessage, OnlyOf DEF Shape, Protocol, Idle, Greeting, Asking, Loading, Waiting, Quiet, Only,
     Orderly, Pushed, Offered, EnsureObjects, repoVars, ToDialer, IdleServe
<1>5. Settled(l)'
  BY OnlyMessage, FirstMessage, OnlyOf, TwoMessages DEF Shape, Protocol, Idle, Greeting, Asking, Loading, Waiting, Quiet, Only,
     Orderly, Pushed, Offered, Settled, Two, EnsureObjects, repoVars, ToDialer, IdleServe
<1>6. Streamed(l)'
  BY OnlyMessage, FirstMessage, OnlyOf DEF Shape, Protocol, Idle, Greeting, Asking, Loading, Waiting, Quiet, Only,
     Orderly, Pushed, Streamed, EnsureObjects, repoVars, ToDialer, IdleServe
<1> QED BY <1>1, <1>2, <1>3, <1>4, <1>5, <1>6 DEF Fits, Orderly

LEMMA ResponderDataFits ==
  ASSUME SInv, SyncAssumption, NEW l \in Links, ResponderData(l)
  PROVE  Fits(l)
<1> USE DEF SInv, IInv, SyncAssumption, Dialer, Responder
<1>1. Recorded'
  BY RecordedStays DEF Shape, Recorded, ResponderData, ToDialer, Store, IdleServe, NoStream
<1>2. Adds
  BY DEF Shape, Recorded, IsGraph, Adds, LedgerGrows, StoresGrow, ResponderData, ToDialer, Store, IdleServe, NoStream
<1>3. Tips(l)'
  <2>1. serve[l].pc = "data" /\ dial' = dial /\ toR' = toR
    BY DEF ResponderData
  <2>2. dial[l].pc = "pushed"
    BY <2>1 DEF Protocol, Idle, Greeting, Asking, Loading, Waiting, Quiet, Orderly, Tips, Settled, DialPcs

  <2>3. serve'[l].pc \in {"serve", "objects"} /\ serve'[l].local \in {serve[l].local, Nil}
    BY DEF ResponderData, IdleServe, Shape
  <2>4. ledger' = ledger /\ held' = held
    BY DEF ResponderData
  <2> QED BY <2>1, <2>2, <2>3, <2>4 DEF Orderly, Tips, DialPcs, ServePcs
<1>4. Pushed(l)'
  <2>1. serve[l].pc = "data" /\ dial' = dial /\ toR' = toR
    BY DEF ResponderData
  <2>2. dial[l].pc = "pushed"
    BY <2>1 DEF Protocol, Idle, Greeting, Asking, Loading, Waiting, Quiet, Orderly, Tips, Settled, DialPcs

  <2>3. toR[l] = <<>> /\ toD[l] = <<>> /\ serve[l].tip = dial[l].local
    BY <2>1, <2>2 DEF ResponderData, Orderly, Pushed, Streamed
  <2>4. CASE data[l].sent = data[l].asked
    <3>1. serve'[l].pc = "objects" /\ serve'[l].tip = serve[l].tip /\ toD' = toD
      BY <2>4 DEF ResponderData, Shape
    <3> QED BY <2>1, <2>3, <3>1 DEF Pushed
  <2>5. CASE data[l].sent # data[l].asked
    <3>1. serve'[l].pc = "serve" /\ toD'[l] = <<[type |-> "push-ok", err |-> TRUE]>>
      BY <2>3, <2>5, FirstMessage DEF ResponderData, ToDialer, IdleServe, Shape
    <3> QED BY <2>1, <2>3, <3>1, OnlyPushOk DEF Pushed
  <2> QED BY <2>4, <2>5
<1>5. Settled(l)'
  BY OnlyMessage, FirstMessage, OnlyOf, TwoMessages DEF Shape, Protocol, Idle, Greeting, Asking, Loading, Waiting, Quiet, Only,
     Orderly, Pushed, Offered, Settled, Two, ResponderData, ToDialer, Store, IdleServe, NoStream
<1>6. Streamed(l)'
  BY OnlyMessage, FirstMessage, OnlyOf DEF Shape, Protocol, Idle, Greeting, Asking, Loading, Waiting, Quiet, Only,
     Orderly, Pushed, Streamed, ResponderData, ToDialer, Store, IdleServe, NoStream
<1> QED BY <1>1, <1>2, <1>3, <1>4, <1>5, <1>6 DEF Fits, Orderly

LEMMA DropFits ==
  ASSUME SInv, SyncAssumption, NEW l \in Links, Drop(l)
  PROVE  Fits(l)
<1> USE DEF SInv, IInv, SyncAssumption, Dialer, Responder
<1>1. Recorded'
  BY RecordedStays DEF Shape, Recorded, Drop, Close, Store, IdleDial, IdleServe, NoStream
<1>2. Adds
  BY DEF Shape, Recorded, IsGraph, Adds, LedgerGrows, StoresGrow, Drop, Close, Store, IdleDial, IdleServe, NoStream
<1>3. Tips(l)'
  BY OnlyMessage, FirstMessage DEF Shape, RefsHeld, Recorded, Protocol, Idle, Greeting, Asking, Waiting, Quiet, Goal, Only,
     Orderly, Tips, DialPcs, ServePcs, Drop, Close, Store, IdleDial, IdleServe, NoStream
<1>4. Pushed(l)'
  BY OnlyMessage, FirstMessage, OnlyOf DEF Shape, Protocol, Idle, Greeting, Asking, Loading, Waiting, Quiet, Only,
     Orderly, Pushed, Offered, Drop, Close, Store, IdleDial, IdleServe, NoStream
<1>5. Settled(l)'
  BY OnlyMessage, FirstMessage, OnlyOf, TwoMessages DEF Shape, Protocol, Idle, Greeting, Asking, Loading, Waiting, Quiet, Only,
     Orderly, Pushed, Offered, Settled, Two, Drop, Close, Store, IdleDial, IdleServe, NoStream
<1>6. Streamed(l)'
  BY OnlyMessage, FirstMessage, OnlyOf DEF Shape, Protocol, Idle, Greeting, Asking, Loading, Waiting, Quiet, Only,
     Orderly, Pushed, Streamed, Drop, Close, Store, IdleDial, IdleServe, NoStream
<1> QED BY <1>1, <1>2, <1>3, <1>4, <1>5, <1>6 DEF Fits, Orderly

\* What pushToRemote offers: the walk of the tip less that of the responder's head.
Mine(l) == Walk(ledger, held[Dialer(l)], dial[l].local, WalkLimit)
Theirs(l) ==
  IF dial[l].remote \in held[Dialer(l)] THEN Walk(ledger, held[Dialer(l)], dial[l].remote, WalkLimit)
  ELSE [ok |-> FALSE, commits |-> {}]
Offer(l) == Mine(l).commits \ (IF Theirs(l).ok THEN Theirs(l).commits ELSE {})

PushesOffer(l) ==
  /\ Mine(l).ok /\ dial'[l].pc = "pushed"
  /\ dial'[l].local = dial[l].local /\ dial'[l].remote = dial[l].remote
  /\ serve'[l] = serve[l] /\ toD'[l] = toD[l] /\ data'[l] = data[l]
  /\ \/ Offer(l) = {} /\ Only(toR'[l], "push-tip") /\ Head(toR'[l]).head = dial[l].local
     \/ \E m, n : /\ toR'[l] = <<m, n>> /\ m.type = "push-have" /\ n.type = "push-tip"
                  /\ m.commits = Offer(l) /\ n.head = dial[l].local

Closed(l) ==
  /\ dial'[l] = IdleDial /\ serve'[l] = IdleServe /\ data'[l] = NoStream
  /\ toR'[l] = <<>> /\ toD'[l] = <<>>

LEMMA Pushes ==
  ASSUME SInv, SyncAssumption, NEW l \in Links, Push(l)
  PROVE  Closed(l) \/ PushesOffer(l)
<1> USE DEF SInv, IInv
<1>1. toR[l] = <<>>
  BY DEF Push, Protocol, Waiting, Quiet
<1> DEFINE tip == [type |-> "push-tip", head |-> dial[l].local]
           offer == [type |-> "push-have", commits |-> Offer(l)]
           have == IF Offer(l) = {} THEN <<>> ELSE <<offer>>
<1>2. CASE ~Mine(l).ok
  BY <1>2 DEF Push, Mine, Close, Closed, Shape
<1>3. CASE Mine(l).ok
  <2>1. /\ dial' = [dial EXCEPT ![l].pc = "pushed"] /\ serve' = serve /\ toD' = toD /\ data' = data
        /\ toR' = [toR EXCEPT ![l] = toR[l] \o (have \o <<tip>>)]
    BY <1>3, Zenon DEF Push, Mine, Theirs, Offer, Goto, ToResponder
  <2>2. tip.type = "push-tip" /\ tip.head = dial[l].local /\ offer.type = "push-have" /\ offer.commits = Offer(l)
    OBVIOUS
  <2>3. toR'[l] = toR[l] \o (have \o <<tip>>)
    <3> HIDE DEF have, tip
    <3> QED BY <2>1 DEF Shape
  <2> HIDE DEF tip, offer
  <2>4. CASE Offer(l) = {}
    <3>1. toR'[l] = <<tip>>
      BY <1>1, <2>3, <2>4, FirstMessage
    <3>2. Only(toR'[l], "push-tip") /\ Head(toR'[l]).head = dial[l].local
      BY <2>2, <3>1, OnlyOf
    <3> QED BY <1>3, <2>1, <2>4, <3>2 DEF PushesOffer, Shape
  <2>5. CASE Offer(l) # {}
    <3>1. have \o <<tip>> = <<offer, tip>>
      BY <2>5, TwoMessages
    <3>2. <<>> \o <<offer, tip>> = <<offer, tip>>
      <4>1. <<offer, tip>> \in Seq({offer, tip})
        OBVIOUS
      <4> QED BY <4>1, ConcatEmptySeq
    <3>3. toR'[l] = <<offer, tip>>
      BY <1>1, <2>3, <3>1, <3>2
    <3> QED BY <1>3, <2>1, <2>2, <3>3 DEF PushesOffer, Shape
  <2> QED BY <2>4, <2>5
<1> QED BY <1>2, <1>3

LEMMA OfferKnown ==
  ASSUME SInv, NEW l \in Links, dial[l].local # Nil
  PROVE  Offer(l) \subseteq 1 .. Len(ledger)
<1>1. dial[l].local \in 1 .. Len(ledger)
  BY DEF SInv, Orderly, Tips
<1>2. Mine(l).commits \subseteq Reach(ledger, held[Dialer(l)], dial[l].local)
  BY DEF Mine, Walk
<1>3. IsGraph(ledger) BY DEF SInv, Recorded
<1>4. ledger[dial[l].local].anc \subseteq 1 .. Len(ledger)
  BY <1>1, <1>3 DEF IsGraph
<1> QED BY <1>1, <1>2, <1>3, <1>4, ReachWithin DEF Offer

LEMMA PushFits ==
  ASSUME SInv, SyncAssumption, NEW l \in Links, Push(l)
  PROVE  Fits(l)
<1> USE DEF SInv, IInv
<1>1. Recorded'
  BY RecordedStays DEF Shape, Recorded, Push, repoVars
<1>2. Adds
  BY DEF Shape, Recorded, IsGraph, Adds, LedgerGrows, StoresGrow, Push, repoVars
<1>3. ledger' = ledger /\ held' = held
  BY DEF Push, repoVars
<1>4. CASE Closed(l)
  BY <1>1, <1>2, <1>4 DEF Fits, Closed, Orderly, Tips, Pushed, Settled, Streamed, IdleDial, IdleServe, NoStream,
     DialPcs, ServePcs
<1>5. CASE PushesOffer(l)
  <2>1. dial[l].local \in 1 .. Len(ledger) /\ dial[l].local # Nil /\ Offer(l) \subseteq 1 .. Len(ledger)
    BY OfferKnown DEF Push, Orderly, Tips
  <2>2. serve[l].pc = "serve" /\ toD[l] = <<>>
    BY DEF Push, Protocol, Waiting, Quiet
  <2>3. Tips(l)'
    BY <1>3, <1>5, <2>1, <2>2 DEF PushesOffer, Orderly, Tips, DialPcs
  <2>4. Pushed(l)'
    BY <1>3, <1>5, <2>1, <2>2 DEF PushesOffer, Pushed, Offered
  <2>5. Settled(l)' /\ Streamed(l)'
    BY <1>5, <2>2 DEF PushesOffer, Orderly, Settled, Streamed
  <2> QED BY <1>1, <1>2, <2>3, <2>4, <2>5 DEF Fits, Orderly
<1> QED BY <1>4, <1>5, Pushes

-----------------------------------------------------------------------------
(* Commits and integrate                                                   *)

LEMMA LedgerAppend ==
  ASSUME NEW g, IsGraph(g), NEW e
  PROVE  g \o <<e>> = Append(g, e) /\ g \o <<>> = g
<1> DEFINE S == {g[c] : c \in 1 .. Len(g)} \union {e}
<1>1. g \in Seq(S) /\ e \in S
  <2>1. g \in Seq({g[c] : c \in 1 .. Len(g)}) /\ {g[c] : c \in 1 .. Len(g)} \subseteq S BY DEF IsGraph
  <2> HIDE DEF S
  <2>2. g \in Seq(S) BY <2>1, SeqMonotonic
  <2> QED BY <2>2 DEF S
<1> HIDE DEF S
<1> QED BY <1>1, AppendIsConcat, ConcatEmptySeq

\* What integrate leaves: the tip as it was; the remote tip, where there was
\* none or it descends from the local one; or the merge of the two.
MergeOf(repo, base, local, remote) ==
  NewCommit(<<local, remote>>,
            MergedTree(Flattened(repo, base), Flattened(repo, local), Flattened(repo, remote), Len(ledger) + 1))

Stays(repo, i) == i.made = <<>> /\ i.ref = ref[repo] /\ i.moved = FALSE
Follows(repo, local, remote, i) ==
  /\ i.made = <<>> /\ i.ref = remote /\ i.moved
  /\ local # Nil => local # remote /\ local \in Find(ledger, held[repo], local, remote)
Merges(repo, local, remote, i) ==
  /\ local # Nil /\ i.ref = Len(ledger) + 1 /\ i.moved
  /\ \E base \in Find(ledger, held[repo], local, remote) : i.made = <<MergeOf(repo, base, local, remote)>>

LEMMA Integrated ==
  ASSUME NEW repo, NEW local, NEW remote, NEW i \in Integrations(repo, local, remote)
  PROVE  Stays(repo, i) \/ Follows(repo, local, remote, i) \/ Merges(repo, local, remote, i)
<1> DEFINE Fine(x) == Stays(repo, x) \/ Follows(repo, local, remote, x) \/ Merges(repo, local, remote, x)
           bases == Find(ledger, held[repo], local, remote)
<1>1. Fine(Keep(repo)) /\ Fine(ConflictBranch(repo, remote))
  BY DEF Keep, ConflictBranch, Stays
<1>2. local = Nil => Fine(MoveTo(repo, remote, <<>>))
  BY DEF MoveTo, Follows
<1>3. ASSUME NEW base \in bases, local # Nil PROVE Fine(MergeOn(repo, base, local, remote))
  <2>1. Fine(MoveTo(repo, Len(ledger) + 1, <<MergeOf(repo, base, local, remote)>>))
    BY <1>3 DEF MoveTo, Merges
  <2>2. \/ MergeOn(repo, base, local, remote) = ConflictBranch(repo, remote)
        \/ MergeOn(repo, base, local, remote) =
             MoveTo(repo, Len(ledger) + 1, <<MergeOf(repo, base, local, remote)>>)
    BY Zenon DEF MergeOn, MergeOf
  <2> HIDE DEF Fine
  <2> QED BY <1>1, <2>1, <2>2
<1>4. ASSUME NEW base \in bases, local # Nil PROVE Fine(IntegrateOnto(repo, base, local, remote))
  <2>1. CASE base = remote
    <3> HIDE DEF Fine
    <3> QED BY <1>1, <2>1 DEF IntegrateOnto
  <2>2. CASE base = local /\ base # remote
    <3>1. Fine(MoveTo(repo, remote, <<>>))
      BY <2>2 DEF MoveTo, Follows
    <3> HIDE DEF Fine
    <3> QED BY <2>2, <3>1 DEF IntegrateOnto
  <2>3. CASE base # local /\ base # remote
    <3> HIDE DEF Fine
    <3> QED BY <1>3, <1>4, <2>3 DEF IntegrateOnto
  <2> QED BY <2>1, <2>2, <2>3
<1>5. Fine(i)
  <2> HIDE DEF Fine
  <2>1. CASE local = Nil
    BY <1>2, <2>1 DEF Integrations
  <2>2. CASE local # Nil
    BY <1>1, <1>4, <2>2 DEF Integrations
  <2> QED BY <2>1, <2>2
<1> QED BY <1>5

LEMMA RecordedTree ==
  ASSUME Recorded, NEW repo \in Repos, NEW c
  PROVE  DOMAIN Flattened(repo, c) \subseteq Paths
<1>1. CASE HasTree(repo, c)
  <2>1. c \in 1 .. Len(ledger) BY <1>1 DEF HasTree, Recorded
  <2> QED BY <1>1, <2>1 DEF Flattened, Tree, Recorded
<1>2. CASE ~HasTree(repo, c)
  <2>1. DOMAIN Flattened(repo, c) = {} BY <1>2 DEF Flattened
  <2> QED BY <2>1
<1> QED BY <1>1, <1>2

\* A checkout leaves paths of the old tree and of the new.
LEMMA CheckoutPaths ==
  ASSUME NEW repo, NEW files, NEW haveTrees, NEW haveBlobs,
         NEW out \in Checkouts(repo, files, haveTrees, haveBlobs)
  PROVE  DOMAIN out.wt \subseteq DOMAIN wt[repo] \union DOMAIN files
<1> DEFINE some == SUBSET {p \in DOMAIN files : files[p] \in haveBlobs}
           half(S) == [p \in S \union DOMAIN wt[repo] |-> IF p \in S THEN files[p] ELSE wt[repo][p]]
<1>1. \/ out = [wt |-> wt[repo], ok |-> FALSE]
      \/ out = [wt |-> files, ok |-> TRUE]
      \/ \E S \in some : out = [wt |-> half(S), ok |-> FALSE]
  BY Zenon DEF Checkouts
<1>2. CASE \E S \in some : out = [wt |-> half(S), ok |-> FALSE]
  <2>1. PICK S \in some : out = [wt |-> half(S), ok |-> FALSE] BY <1>2
  <2>2. DOMAIN half(S) = S \union DOMAIN wt[repo] OBVIOUS
  <2> HIDE DEF half
  <2>3. out.wt = half(S) BY <2>1
  <2> QED BY <2>2, <2>3
<1>3. CASE out = [wt |-> wt[repo], ok |-> FALSE]
  <2>1. out.wt = wt[repo] BY <1>3
  <2> QED BY <2>1
<1>4. CASE out = [wt |-> files, ok |-> TRUE]
  <2>1. out.wt = files BY <1>4
  <2> QED BY <2>1
<1> QED BY <1>1, <1>2, <1>3, <1>4

LEMMA MergeRecords ==
  ASSUME Recorded, NEW repo \in Repos, NEW base,
         NEW local \in 1 .. Len(ledger), NEW remote \in 1 .. Len(ledger)
  PROVE  /\ IsGraph(Append(ledger, MergeOf(repo, base, local, remote)))
         /\ DOMAIN MergeOf(repo, base, local, remote).files \subseteq Paths
<1> DEFINE e == MergeOf(repo, base, local, remote)
           parents == <<local, remote>>
<1>1. e.parents = parents /\ e.anc = AncestryOf(ledger, Len(ledger) + 1, parents)
  BY DEF MergeOf, NewCommit
<1>2. e.files = MergedTree(Flattened(repo, base), Flattened(repo, local), Flattened(repo, remote), Len(ledger) + 1)
  BY DEF MergeOf, NewCommit
<1>3. \A k \in DOMAIN parents : parents[k] \in 1 .. Len(ledger)
  OBVIOUS
<1> HIDE DEF e, parents
<1>4. IsGraph(Append(ledger, e))
  BY <1>1, <1>3, GraphGrows DEF Recorded
<1>5. DOMAIN e.files \subseteq Paths
  <2>1. Len(ledger) + 1 \in Files \union Nat BY DEF Recorded, IsGraph
  <2> QED BY <1>2, <2>1, RecordedTree, MergedFrom DEF Paths
<1> QED BY <1>4, <1>5 DEF e

\* What integrate records: at most the merge, a commit of the ledger whose
\* parents came before it.
LEMMA ApplyRecords ==
  ASSUME Recorded, Shape, RefsHeld, NEW repo \in Repos,
         NEW local \in 1 .. Len(ledger) \union {Nil}, NEW remote \in held[repo],
         NEW i \in Integrations(repo, local, remote), NEW out \in AfterCheckout(repo, i), Apply(repo, i, out)
  PROVE  /\ Recorded' /\ Adds /\ Len(ledger') \in Nat
         /\ \A base : i.made = <<MergeOf(repo, base, local, remote)>> =>
              ledger' = Append(ledger, MergeOf(repo, base, local, remote))
<1>1. Len(ledger) \in Nat /\ remote \in 1 .. Len(ledger) /\ IsGraph(ledger)
  BY DEF Recorded, IsGraph
<1>2. /\ ledger' = ledger \o i.made
      /\ held' = [held EXCEPT ![repo] = held[repo] \union {Len(ledger) + k : k \in DOMAIN i.made}]
      /\ trees' = [trees EXCEPT ![repo] = trees[repo] \union {i.made[k].files : k \in DOMAIN i.made}]
      /\ wt' = [wt EXCEPT ![repo] = out.wt] /\ blobs' = blobs
  BY DEF Apply
<1>3. DOMAIN trees' = Repos /\ DOMAIN blobs' = Repos /\ DOMAIN wt' = Repos /\ StoresGrow
  BY <1>2 DEF Recorded, Shape, StoresGrow
<1>4. Stays(repo, i) \/ Follows(repo, local, remote, i) \/ Merges(repo, local, remote, i)
  BY Integrated
<1>5. ASSUME i.ref \in 1 .. Len(ledger'), \A c \in 1 .. Len(ledger') : DOMAIN ledger'[c].files \subseteq Paths
      PROVE  DOMAIN out.wt \subseteq Paths
  <2>1. CASE i.moved
    <3>1. out \in Checkouts(repo, ledger'[i.ref].files,
                 trees[repo] \union {i.made[k].files : k \in DOMAIN i.made}, blobs[repo])
      BY <1>2, <2>1 DEF AfterCheckout
    <3> QED BY <1>5, <3>1, CheckoutPaths DEF Recorded
  <2>2. CASE ~i.moved
    BY <2>2 DEF AfterCheckout, Recorded
  <2> QED BY <2>1, <2>2
<1>6. CASE i.made = <<>>
  <2>1. ledger' = ledger /\ DOMAIN i.made = {}
    BY <1>1, <1>2, <1>6, LedgerAppend
  <2>2. DOMAIN out.wt \subseteq Paths
    <3>1. CASE Stays(repo, i)
      BY <3>1 DEF Stays, AfterCheckout, Recorded
    <3>2. CASE Follows(repo, local, remote, i)
      BY <1>1, <1>5, <2>1, <3>2 DEF Follows, Recorded
    <3>3. ~Merges(repo, local, remote, i)
      BY <1>6 DEF Merges
    <3> QED BY <1>4, <3>1, <3>2, <3>3
  <2>3. held' = [held EXCEPT ![repo] = held[repo]]
    BY <1>2, <2>1
  <2>4. \A k \in Repos : held'[k] \subseteq 1 .. Len(ledger) /\ DOMAIN wt'[k] \subseteq Paths
    BY <1>2, <2>2, <2>3 DEF Recorded, Shape
  <2>5. Recorded'
    BY <1>3, <2>1, <2>4 DEF Recorded
  <2>6. Adds
    BY <1>1, <1>3, <2>1 DEF Adds, LedgerGrows
  <2> QED BY <1>1, <1>6, <2>1, <2>5, <2>6
<1>7. ASSUME NEW base, i.made = <<MergeOf(repo, base, local, remote)>>
      PROVE  Recorded' /\ Adds /\ Len(ledger') \in Nat
             /\ ledger' = Append(ledger, MergeOf(repo, base, local, remote))
  <2> DEFINE e == MergeOf(repo, base, local, remote)
  <2>1. local \in 1 .. Len(ledger) /\ i.ref = Len(ledger) + 1
    <3>1. i.made # <<>> BY <1>7
    <3> QED BY <1>4, <3>1 DEF Stays, Follows, Merges
  <2>2. ledger' = Append(ledger, e) /\ DOMAIN i.made = {1}
    BY <1>1, <1>2, <1>7, LedgerAppend
  <2>3. IsGraph(ledger') /\ DOMAIN e.files \subseteq Paths
    BY <1>1, <2>1, <2>2, MergeRecords
  <2> HIDE DEF e
  <2>4. /\ Len(ledger') = Len(ledger) + 1 /\ ledger'[Len(ledger) + 1] = e
        /\ \A c \in 1 .. Len(ledger) : ledger'[c] = ledger[c]
    BY <1>1, <2>2, Appended
  <2>5. \A c \in 1 .. Len(ledger') : DOMAIN ledger'[c].files \subseteq Paths
    <3>1. \A c \in 1 .. Len(ledger) : DOMAIN ledger'[c].files \subseteq Paths
      BY <2>4 DEF Recorded
    <3>2. \A c \in 1 .. Len(ledger') : c \in 1 .. Len(ledger) \/ c = Len(ledger) + 1
      BY <1>1, <2>4
    <3> QED BY <2>3, <2>4, <3>1, <3>2
  <2>6. DOMAIN out.wt \subseteq Paths
    BY <1>1, <1>5, <2>1, <2>4, <2>5
  <2>7. \A k \in Repos : held'[k] \subseteq 1 .. Len(ledger')
    <3>1. held' = [held EXCEPT ![repo] = held[repo] \union {Len(ledger) + 1}]
      BY <1>2, <2>2
    <3> QED BY <1>1, <2>4, <3>1 DEF Recorded, Shape
  <2>8. \A k \in Repos : DOMAIN wt'[k] \subseteq Paths
    BY <1>2, <2>6 DEF Recorded
  <2>9. Recorded'
    BY <1>3, <2>3, <2>5, <2>7, <2>8 DEF Recorded
  <2>10. Adds
    BY <1>1, <1>3, <2>4 DEF Adds, LedgerGrows
  <2> QED BY <1>1, <2>2, <2>4, <2>9, <2>10 DEF e
<1>8. i.made = <<>> \/ \E base : i.made = <<MergeOf(repo, base, local, remote)>>
  BY <1>4 DEF Stays, Follows, Merges
<1> QED BY <1>6, <1>7, <1>8

LEMMA DialerIntegrateFits ==
  ASSUME SInv, SyncAssumption, NEW l \in Links, DialerIntegrate(l)
  PROVE  Fits(l)
<1> DEFINE d == Dialer(l)
<1> USE DEF SInv, IInv
<1>1. /\ d \in Repos /\ dial[l].local \in 1 .. Len(ledger) \union {Nil} /\ dial[l].remote \in held[d]
      /\ dial[l].pc = "integrate" /\ Quiet(l)
  BY DEF SyncAssumption, Dialer, DialerIntegrate, Orderly, Tips, Protocol, Goal, Waiting
<1> HIDE DEF d
<1>2. PICK i \in Integrations(d, dial[l].local, dial[l].remote) :
        \E out \in AfterCheckout(d, i) :
             /\ Apply(d, i, out)
             /\ IF ~out.ok THEN Close(l)
                ELSE /\ Goto(l, IF dial[l].local = Nil THEN "synced" ELSE "push")
                     /\ IF dial[l].local = Nil THEN ToResponder(l, <<[type |-> "done"]>>)
                        ELSE UNCHANGED toR
                     /\ UNCHANGED <<serve, toD, data>>
  BY DEF DialerIntegrate, d
<1>3. PICK out \in AfterCheckout(d, i) :
             /\ Apply(d, i, out)
             /\ IF ~out.ok THEN Close(l)
                ELSE /\ Goto(l, IF dial[l].local = Nil THEN "synced" ELSE "push")
                     /\ IF dial[l].local = Nil THEN ToResponder(l, <<[type |-> "done"]>>)
                        ELSE UNCHANGED toR
                     /\ UNCHANGED <<serve, toD, data>>
  BY <1>2
<1>4. Recorded' /\ Adds /\ Len(ledger') \in Nat
  BY <1>1, <1>3, ApplyRecords
<1>5. CASE ~out.ok
  <2>1. Closed(l)
    BY <1>3, <1>5 DEF Close, Closed, Shape
  <2> QED BY <1>4, <2>1 DEF Fits, Closed, Orderly, Tips, Pushed, Settled, Streamed, IdleDial, IdleServe, NoStream,
     DialPcs, ServePcs
<1>6. CASE out.ok
  <2>1. /\ dial'[l].local = dial[l].local /\ dial'[l].remote = dial[l].remote
        /\ serve'[l] = serve[l] /\ toD'[l] = <<>> /\ data'[l] = data[l]
        /\ dial[l].local = Nil => dial'[l].pc = "synced" /\ toR'[l] = <<[type |-> "done"]>>
        /\ dial[l].local # Nil => dial'[l].pc = "push"
    BY <1>1, <1>3, <1>6, FirstMessage DEF Goto, ToResponder, Shape, Quiet
  <2>2. 1 .. Len(ledger) \subseteq 1 .. Len(ledger') /\ held[Responder(l)] \subseteq held'[Responder(l)]
    <3>1. Len(ledger) \in Nat /\ Len(ledger) <= Len(ledger')
      BY <1>4 DEF Recorded, IsGraph, Adds, LedgerGrows
    <3>2. Responder(l) \in Repos
      BY DEF SyncAssumption, Responder
    <3>3. held[Responder(l)] \subseteq held'[Responder(l)]
      BY <1>4, <3>2 DEF Adds, StoresGrow
    <3> QED BY <1>4, <3>1, <3>3
  <2>3. Tips(l)'
    BY <2>1, <2>2 DEF Orderly, Tips, DialPcs
  <2>4. Settled(l)' /\ Streamed(l)' /\ Pushed(l)'
    BY <1>1, <2>1, OnlyDone DEF Settled, Streamed, Pushed, Orderly, Quiet
  <2> QED BY <1>4, <2>3, <2>4 DEF Fits, Orderly
<1> QED BY <1>5, <1>6

LEMMA ServingPhase ==
  ASSUME NEW l \in Links, IInv, Orderly(l), serve[l].pc \in {"objects", "data", "integrate"}
  PROVE  dial[l].pc = "pushed" /\ serve[l].tip = dial[l].local /\ toR[l] = <<>>
<1>1. dial[l].pc = "pushed"
  BY DEF IInv, Protocol, Idle, Greeting, Asking, Loading, Waiting, Quiet, Orderly, Tips, Settled, DialPcs
<1> QED BY <1>1 DEF Orderly, Pushed

LEMMA ResponderIntegrateFits ==
  ASSUME SInv, SyncAssumption, NEW l \in Links, ResponderIntegrate(l)
  PROVE  Fits(l)
<1> DEFINE r == Responder(l)
<1> USE DEF SInv, IInv
<1>1. /\ r \in Repos /\ serve[l].local \in 1 .. Len(ledger) \union {Nil} /\ serve[l].tip \in held[r]
      /\ serve[l].pc = "integrate"
  BY DEF SyncAssumption, Responder, ResponderIntegrate, Orderly, Tips, Protocol, Goal
<1>2. dial[l].pc = "pushed" /\ toR[l] = <<>> /\ toD[l] = <<>>
  BY <1>1, ServingPhase DEF Orderly, Pushed
<1> HIDE DEF r
<1>0. PICK i \in Integrations(r, serve[l].local, serve[l].tip) :
        \E out \in AfterCheckout(r, i) : Apply(r, i, out)
  BY DEF ResponderIntegrate, r
<1>3. PICK out \in AfterCheckout(r, i) : Apply(r, i, out)
  BY <1>0
<1>4. Recorded' /\ Adds /\ Len(ledger') \in Nat
  BY <1>1, <1>3, ApplyRecords
<1>5. /\ dial' = dial /\ toR' = toR /\ data' = data
      /\ serve'[l] = [pc |-> "serve", tip |-> Nil, local |-> Nil, round |-> 0]
      /\ toD'[l] = <<[type |-> "push-ok", err |-> FALSE]>>
  BY <1>2, FirstMessage DEF ResponderIntegrate, IdleServe, ToDialer, Shape
<1>6. 1 .. Len(ledger) \subseteq 1 .. Len(ledger') /\ held[r] \subseteq held'[r]
  <2>1. Len(ledger) \in Nat /\ Len(ledger) <= Len(ledger')
    BY <1>4 DEF Recorded, IsGraph, Adds, LedgerGrows
  <2>2. held[r] \subseteq held'[r]
    BY <1>1, <1>4 DEF Adds, StoresGrow
  <2> QED BY <1>4, <2>1, <2>2
<1>7. Tips(l)'
  <2> USE DEF r
  <2> QED BY <1>2, <1>5, <1>6 DEF Orderly, Tips, ServePcs
<1>8. Pushed(l)'
  BY <1>2, <1>5, OnlyPushOk DEF Pushed
<1>9. Settled(l)' /\ Streamed(l)'
  BY <1>1, <1>2, <1>5 DEF Orderly, Settled, Streamed
<1> QED BY <1>4, <1>7, <1>8, <1>9 DEF Fits, Orderly

\* What a commit records.
LEMMA CommitRecords ==
  ASSUME SInv, NEW repo \in Repos, Commit(repo)
  PROVE  /\ Recorded' /\ Adds /\ Len(ledger') \in Nat
         /\ \E files : LET parents == IF ref[repo] = Nil THEN <<>> ELSE <<ref[repo]>>
                           c == Len(ledger) + 1
                       IN  /\ Versions(files) \subseteq Versions(wt[repo]) \union {c}
                           /\ DOMAIN files \subseteq DOMAIN wt[repo] \union {<<f>> : f \in Files}
                           /\ wt' = [wt EXCEPT ![repo] = files]
                           /\ ledger' = Append(ledger, NewCommit(parents, files))
                           /\ held' = [held EXCEPT ![repo] = held[repo] \union {c}]
                           /\ trees' = [trees EXCEPT ![repo] = trees[repo] \union {files}]
                           /\ blobs' = [blobs EXCEPT ![repo] = blobs[repo] \union Versions(files)]
                           /\ ref' = [ref EXCEPT ![repo] = c]
<1> USE DEF SInv, IInv
<1> DEFINE parents == IF ref[repo] = Nil THEN <<>> ELSE <<ref[repo]>>
           c == Len(ledger) + 1
<1>1. PICK f, files :
        /\ f \in Files /\ DOMAIN files \subseteq DOMAIN wt[repo] \union {<<f>>}
        /\ Versions(files) \subseteq Versions(wt[repo]) \union {c}
        /\ ref[repo] = Nil \/ ref[repo] \in held[repo]
        /\ wt' = [wt EXCEPT ![repo] = files]
        /\ ledger' = Append(ledger, NewCommit(parents, files))
        /\ held' = [held EXCEPT ![repo] = held[repo] \union {c}]
        /\ trees' = [trees EXCEPT ![repo] = trees[repo] \union {files}]
        /\ blobs' = [blobs EXCEPT ![repo] = blobs[repo] \union Versions(files)]
        /\ ref' = [ref EXCEPT ![repo] = c]
  <2>0. PICK f \in Files : \E paths \in {DOMAIN wt[repo] \ {<<f>>}, (DOMAIN wt[repo] \ {<<f>>}) \union {<<f>>}} :
          LET files == [q \in paths |-> IF q = <<f>> THEN c ELSE wt[repo][q]]
          IN  /\ ref[repo] = Nil \/ ref[repo] \in held[repo]
              /\ wt' = [wt EXCEPT ![repo] = files]
              /\ ledger' = Append(ledger, NewCommit(parents, files))
              /\ held' = [held EXCEPT ![repo] = held[repo] \union {c}]
              /\ trees' = [trees EXCEPT ![repo] = trees[repo] \union {files}]
              /\ blobs' = [blobs EXCEPT ![repo] = blobs[repo] \union Versions(files)]
              /\ ref' = [ref EXCEPT ![repo] = c]
    BY Zenon DEF Commit
  <2>1. PICK paths \in {DOMAIN wt[repo] \ {<<f>>}, (DOMAIN wt[repo] \ {<<f>>}) \union {<<f>>}} :
          LET files == [q \in paths |-> IF q = <<f>> THEN c ELSE wt[repo][q]]
          IN  /\ ref[repo] = Nil \/ ref[repo] \in held[repo]
              /\ wt' = [wt EXCEPT ![repo] = files]
              /\ ledger' = Append(ledger, NewCommit(parents, files))
              /\ held' = [held EXCEPT ![repo] = held[repo] \union {c}]
              /\ trees' = [trees EXCEPT ![repo] = trees[repo] \union {files}]
              /\ blobs' = [blobs EXCEPT ![repo] = blobs[repo] \union Versions(files)]
              /\ ref' = [ref EXCEPT ![repo] = c]
    BY <2>0
  <2>2. paths \subseteq DOMAIN wt[repo] \union {<<f>>}
    OBVIOUS
  <2> DEFINE files == [q \in paths |-> IF q = <<f>> THEN c ELSE wt[repo][q]]
  <2>3. DOMAIN files \subseteq DOMAIN wt[repo] \union {<<f>>}
    BY <2>2
  <2>5. Versions(files) \subseteq Versions(wt[repo]) \union {c}
    BY <2>2 DEF Versions
  <2>4. /\ ref[repo] = Nil \/ ref[repo] \in held[repo]
        /\ wt' = [wt EXCEPT ![repo] = files]
        /\ ledger' = Append(ledger, NewCommit(parents, files))
        /\ held' = [held EXCEPT ![repo] = held[repo] \union {c}]
        /\ trees' = [trees EXCEPT ![repo] = trees[repo] \union {files}]
        /\ blobs' = [blobs EXCEPT ![repo] = blobs[repo] \union Versions(files)]
        /\ ref' = [ref EXCEPT ![repo] = c]
    BY <2>1
  <2> HIDE DEF files, parents, c
  <2> QED BY <2>3, <2>5, <2>4
<1> DEFINE e == NewCommit(parents, files)
<1>2. e.parents = parents /\ e.anc = AncestryOf(ledger, Len(ledger) + 1, parents) /\ e.files = files
  BY DEF NewCommit
<1>3. \A k \in DOMAIN parents : parents[k] \in 1 .. Len(ledger)
  BY <1>1 DEF Recorded
<1>4. Len(ledger) \in Nat /\ IsGraph(ledger)
  BY DEF Recorded, IsGraph
<1> HIDE DEF e, parents
<1>5. IsGraph(ledger') /\ ledger' = Append(ledger, e)
  BY <1>1, <1>2, <1>3, <1>4, GraphGrows DEF e
<1>6. /\ Len(ledger') = c /\ ledger'[c] = e /\ \A k \in 1 .. Len(ledger) : ledger'[k] = ledger[k]
  BY <1>4, <1>5, Appended
<1>7. DOMAIN files \subseteq Paths
  <2>1. <<f>> \in Seq(Files \union Nat)
    BY <1>1
  <2> QED BY <1>1, <2>1 DEF Recorded, Paths
<1>8. \A k \in 1 .. Len(ledger') : DOMAIN ledger'[k].files \subseteq Paths
  <2>1. \A k \in 1 .. Len(ledger) : DOMAIN ledger'[k].files \subseteq Paths
    BY <1>6 DEF Recorded
  <2>2. \A k \in 1 .. Len(ledger') : k \in 1 .. Len(ledger) \/ k = c
    BY <1>4, <1>6
  <2> QED BY <1>2, <1>6, <1>7, <2>1, <2>2
<1>9. \A k \in Repos : held'[k] \subseteq 1 .. Len(ledger') /\ DOMAIN wt'[k] \subseteq Paths
  BY <1>1, <1>4, <1>6, <1>7 DEF Recorded, Shape
<1>10. DOMAIN trees' = Repos /\ DOMAIN blobs' = Repos /\ DOMAIN wt' = Repos /\ StoresGrow
  BY <1>1 DEF Recorded, Shape, StoresGrow
<1>11. Recorded'
  BY <1>5, <1>8, <1>9, <1>10 DEF Recorded
<1>12. Adds /\ Len(ledger') \in Nat
  BY <1>4, <1>6, <1>10 DEF Adds, LedgerGrows
<1> QED BY <1>1, <1>11, <1>12 DEF parents

LEMMA InitOrdered == SyncAssumption /\ Init => SInv
<1> SUFFICES ASSUME SyncAssumption, Init PROVE SInv
  OBVIOUS
<1> DEFINE files == [p \in {<<f>> : f \in Files} |-> 1]
           first == [parents |-> <<>>, files |-> files, anc |-> {1}]
<1>1. IInv
  BY InitHolds
<1>2. PICK cloned \in BOOLEAN :
        /\ ledger = IF cloned THEN <<first>> ELSE <<>>
        /\ held = [repo \in Repos |-> IF cloned THEN {1} ELSE {}]
        /\ trees = [repo \in Repos |-> IF cloned THEN {files} ELSE {}]
        /\ blobs = [repo \in Repos |-> IF cloned THEN {1} ELSE {}]
        /\ wt = [repo \in Repos |-> IF cloned THEN files ELSE <<>>]
  BY Zenon DEF Init
<1>3. first.parents = <<>> /\ first.files = files /\ first.anc = {1}
  OBVIOUS
<1>4. DOMAIN files \subseteq Paths
  <2>1. \A f \in Files : <<f>> \in Seq(Files \union Nat)
    OBVIOUS
  <2> QED BY <2>1 DEF Paths
<1> HIDE DEF first, files
<1>5. IsGraph(<<>>) /\ IsGraph(<<first>>) /\ Len(<<>>) = 0 /\ Len(<<first>>) = 1 /\ <<first>>[1] = first
  <2>1. IsGraph(<<>>)
    BY EmptyGraph
  <2>2. Append(<<>>, first) = <<first>> /\ Len(<<>>) = 0 /\ Len(<<first>>) = 1 /\ <<first>>[1] = first
    OBVIOUS
  <2>3. AncestryOf(<<>>, 1, <<>>) = {1}
    BY DEF AncestryOf
  <2>4. \A k \in DOMAIN first.parents : first.parents[k] \in 1 .. Len(<<>>)
    BY <1>3
  <2>5. first.anc = AncestryOf(<<>>, Len(<<>>) + 1, first.parents)
    BY <1>3, <2>2, <2>3
  <2>6. IsGraph(Append(<<>>, first))
    BY <2>1, <2>4, <2>5, GraphGrows
  <2> QED BY <2>1, <2>2, <2>6
<1>6. Recorded
  BY <1>2, <1>3, <1>4, <1>5 DEF Recorded
<1>7. ASSUME NEW l \in Links PROVE Orderly(l)
  <2>1. dial[l] = IdleDial /\ serve[l] = IdleServe /\ toD[l] = <<>> /\ data[l] = NoStream
    BY DEF Init
  <2> QED BY <2>1 DEF Orderly, Tips, Pushed, Settled, Streamed, IdleDial, IdleServe, NoStream, DialPcs, ServePcs
<1> QED BY <1>1, <1>6, <1>7 DEF SInv

\* A step of one link: the others are as orderly as they were.
LEMMA FitsEverywhere ==
  ASSUME SInv, IInv', SyncAssumption, NEW l \in Links, Fits(l), Elsewhere(l)
  PROVE  SInv' /\ Adds
<1>1. Grows
  BY DEF Fits, Adds, StoresGrow, Grows
<1>2. ASSUME NEW k \in Links, k # l PROVE Orderly(k)'
  <2>1. Same(k) /\ Len(ledger') \in Nat /\ LedgerGrows
    BY <1>2 DEF Elsewhere, Fits, Adds, Recorded, IsGraph
  <2> QED BY <1>1, <2>1, OrderlyElsewhere DEF SInv
<1> QED BY <1>2 DEF SInv, Fits

LEMMA StepOrdered ==
  ASSUME SInv, SyncAssumption, [Next]_vars
  PROVE  SInv' /\ Adds
<1>1. CASE UNCHANGED vars
  <2>1. IInv'
    BY <1>1, StutterKeeps DEF SInv
  <2>2. Adds
    BY <1>1 DEF SInv, Recorded, IsGraph, Adds, LedgerGrows, StoresGrow, vars, repoVars
  <2>3. Recorded'
    BY <1>1 DEF SInv, Recorded, vars, repoVars
  <2>4. ASSUME NEW l \in Links PROVE Orderly(l)'
    <3>1. Same(l) /\ Len(ledger') \in Nat /\ LedgerGrows /\ Grows
      BY <1>1, <2>2 DEF Same, vars, linkVars, SInv, Recorded, IsGraph, Adds, StoresGrow, Grows, repoVars
    <3> QED BY <3>1, OrderlyElsewhere DEF SInv
  <2> QED BY <2>1, <2>2, <2>3, <2>4 DEF SInv
<1>2. ASSUME NEW repo \in Repos, Commit(repo) PROVE SInv' /\ Adds
  <2>1. IInv'
    BY <1>2, CommitKeeps DEF SInv
  <2>2. Recorded' /\ Adds /\ Len(ledger') \in Nat
    BY <1>2, CommitRecords
  <2>3. ASSUME NEW l \in Links PROVE Orderly(l)'
    <3>1. Same(l) /\ LedgerGrows /\ Grows
      BY <1>2, <2>2 DEF Same, Commit, linkVars, Adds, StoresGrow, Grows
    <3> QED BY <2>2, <3>1, OrderlyElsewhere DEF SInv
  <2> QED BY <2>1, <2>2, <2>3 DEF SInv
<1>3. ASSUME NEW l \in Links, Kept(l), Fits(l) PROVE SInv' /\ Adds
  <2>1. IInv'
    BY <1>3, KeptEverywhere DEF SInv
  <2> QED BY <1>3, <2>1, FitsEverywhere DEF Kept
<1>4. ASSUME NEW l \in Links, Dial(l) \/ HangUp(l) \/ Drop(l) PROVE SInv' /\ Adds
  BY <1>3, <1>4, DialKeeps, HangUpKeeps, DropKeeps, DialFits, HangUpFits, DropFits DEF SInv
<1>5. ASSUME NEW l \in Links, DialerStep(l) PROVE SInv' /\ Adds
  <2>1. Kept(l)
    BY <1>5, DialerHelloKeeps, FetchCommitsKeeps, RecvHaveKeeps, FetchObjectsKeeps, DialerDataKeeps,
       DialerIntegrateKeeps, PushKeeps, DialerServeKeeps, PushOkKeeps, PingKeeps, PongKeeps
       DEF DialerStep, SInv
  <2>2. Fits(l)
    BY <1>5, DialerHelloFits, FetchCommitsFits, RecvHaveFits, FetchObjectsFits, DialerDataFits,
       DialerIntegrateFits, PushFits, DialerServeFits, PushOkFits, PingFits, PongFits DEF DialerStep
  <2> QED BY <1>3, <2>1, <2>2
<1>6. ASSUME NEW l \in Links, ResponderStep(l) PROVE SInv' /\ Adds
  <2>1. Kept(l)
    BY <1>6, AcceptKeeps, ServeWantKeeps, ServeWantObjectsKeeps, ServePushHaveKeeps, ServePushTipKeeps,
       ServeDoneKeeps, ServePingKeeps, EnsureObjectsKeeps, ResponderDataKeeps, ResponderIntegrateKeeps
       DEF ResponderStep, SInv
  <2>2. Fits(l)
    BY <1>6, AcceptFits, ServeWantFits, ServeWantObjectsFits, ServePushHaveFits, ServePushTipFits,
       ServeDoneFits, ServePingFits, EnsureObjectsFits, ResponderDataFits, ResponderIntegrateFits
       DEF ResponderStep
  <2> QED BY <1>3, <2>1, <2>2
<1> QED BY <1>1, <1>2, <1>4, <1>5, <1>6 DEF Next

\* In every reachable state the ledger is a graph and the messages of every
\* link are those the code puts there.
THEOREM Order == Spec => []SInv
<1>1. SInv /\ [Next]_vars => SInv'
  BY StepOrdered, SyncAssumption
<1>2. Init => SInv
  BY InitOrdered, SyncAssumption
<1> QED BY <1>1, <1>2, PTL DEF Spec

-----------------------------------------------------------------------------
(* What a repository that only answers syncs holds                         *)

Answering == Repos \ {Dialer(l) : l \in Links}

Whole(repo, tip) == ledger[tip].anc \subseteq held[repo]

\* What a link carries to such a responder: the head it said hello with has its
\* whole ancestry there, and so has a pushed tip once the offered commits are
\* stored; what it integrates and what it confirms is complete.
Greeted(l) ==
  dial[l].pc = "hello" /\ toD[l] # <<>> /\ Head(toD[l]).head # Nil =>
    Whole(Responder(l), Head(toD[l]).head)

Fetched(l) == dial[l].remote # Nil => Whole(Responder(l), dial[l].remote)

Promised(l) ==
  dial[l].pc = "pushed" =>
    /\ Only(toR[l], "push-tip") => Whole(Responder(l), dial[l].local)
    /\ \A m, n : toR[l] = <<m, n>> =>
         ledger[dial[l].local].anc \subseteq held[Responder(l)] \union m.commits
    /\ serve[l].pc \in {"objects", "data", "integrate"} => Whole(Responder(l), dial[l].local)
    /\ serve[l].pc = "integrate" =>
         /\ Complete(Responder(l), dial[l].local)
         /\ serve[l].local # Nil => Complete(Responder(l), serve[l].local)
    /\ Only(toD[l], "push-ok") /\ ~Head(toD[l]).err => Complete(Responder(l), dial[l].local)

Carried(l) == Greeted(l) /\ Fetched(l) /\ Promised(l)

CInv ==
  Len(ledger) < WalkLimit =>
    RespondersComplete /\ \A l \in Links : Responder(l) \in Answering => Carried(l)

\* What is whole or complete stays so.
LEMMA Stay ==
  ASSUME Recorded, Adds, NEW repo \in Repos, NEW t \in 1 .. Len(ledger)
  PROVE  /\ ledger'[t].anc = ledger[t].anc
         /\ Whole(repo, t) => Whole(repo, t)'
         /\ Complete(repo, t) => Complete(repo, t)'
<1>1. ledger'[t] = ledger[t] BY DEF Adds, LedgerGrows
<1>2. held[repo] \subseteq held'[repo] /\ trees[repo] \subseteq trees'[repo] /\ blobs[repo] \subseteq blobs'[repo]
  BY DEF Adds, StoresGrow
<1>3. \A c \in ledger[t].anc : c \in 1 .. Len(ledger) 
  BY DEF Recorded, IsGraph
<1>4. \A c \in ledger[t].anc : ledger'[c] = ledger[c]
  BY <1>3 DEF Adds, LedgerGrows
<1>5. ASSUME Complete(repo, t) PROVE Complete(repo, t)'
  <2> SUFFICES ASSUME NEW c \in ledger[t].anc PROVE HasObjects(repo, c)'
    BY <1>1 DEF Complete
  <2>1. HasObjects(repo, c) BY <1>5 DEF Complete
  <2>2. ledger'[c] = ledger[c] BY <1>4
  <2> QED BY <1>2, <2>1, <2>2 DEF HasObjects, HasTree, Tree
<1> QED BY <1>1, <1>2, <1>5 DEF Whole

LEMMA CompleteIsWhole ==
  ASSUME NEW repo, NEW t, Complete(repo, t)
  PROVE  Whole(repo, t)
  BY DEF Complete, Whole, HasObjects, HasTree

\* The tips a link speaks of are commits.
LEMMA TipsKnown ==
  ASSUME SInv, SyncAssumption, NEW l \in Links
  PROVE  /\ Responder(l) \in Repos
         /\ dial[l].pc = "pushed" => dial[l].local \in 1 .. Len(ledger)
         /\ dial[l].remote # Nil => dial[l].remote \in 1 .. Len(ledger)
         /\ serve[l].local # Nil => serve[l].local \in 1 .. Len(ledger)
         /\ dial[l].pc = "hello" /\ toD[l] # <<>> /\ Head(toD[l]).head # Nil =>
              Head(toD[l]).head \in 1 .. Len(ledger)
<1>1. Responder(l) \in Repos BY DEF SyncAssumption, Responder
<1>2. held[Responder(l)] \subseteq 1 .. Len(ledger) BY <1>1 DEF SInv, Recorded
<1>3. Tips(l) BY DEF SInv, Orderly
<1>4. Greeting(l) BY DEF SInv, IInv, Protocol
<1> QED BY <1>1, <1>2, <1>3, <1>4 DEF Tips, Greeting

\* A step of another link, or a commit.
LEMMA CarriedElsewhere ==
  ASSUME SInv, SyncAssumption, Adds, NEW l \in Links, Carried(l), Same(l)
  PROVE  Carried(l)'
<1> DEFINE r == Responder(l)
<1>1. r \in Repos /\ Recorded BY TipsKnown DEF SInv
<1>2. \A t \in 1 .. Len(ledger) :
        /\ ledger'[t].anc = ledger[t].anc
        /\ Whole(r, t) => Whole(r, t)' 
        /\ Complete(r, t) => Complete(r, t)'
  BY <1>1, Stay
<1>3. held[r] \subseteq held'[r] BY <1>1 DEF Adds, StoresGrow
<1> HIDE DEF r
<1>4. Greeted(l)'
  BY <1>2, TipsKnown DEF Carried, Greeted, Same, r
<1>5. Fetched(l)'
  BY <1>2, TipsKnown DEF Carried, Fetched, Same, r
<1>6. Promised(l)'
  BY <1>2, <1>3, TipsKnown DEF Carried, Promised, Same, r
<1> QED BY <1>4, <1>5, <1>6 DEF Carried

\* A step that leaves the link neither in its hello nor pushed.
LEMMA CarriedOn ==
  ASSUME SInv, SyncAssumption, Adds, NEW l \in Links, Carried(l),
         dial'[l].pc \notin {"hello", "pushed"}, dial'[l].remote \in {dial[l].remote, Nil}
  PROVE  Carried(l)'
<1> DEFINE r == Responder(l)
<1>1. r \in Repos /\ Recorded BY TipsKnown DEF SInv
<1>2. \A t \in 1 .. Len(ledger) : Whole(r, t) => Whole(r, t)' 
  BY <1>1, Stay
<1> HIDE DEF r
<1>5. Fetched(l)'
  BY <1>2, TipsKnown DEF Carried, Fetched, r
<1> QED BY <1>5 DEF Carried, Greeted, Promised

\* The steps that leave a link neither in its hello nor pushed.
Moves(l) == dial'[l].pc \notin {"hello", "pushed"} /\ dial'[l].remote \in {dial[l].remote, Nil}

\* What a serving responder hears while its dialer fetches.
LEMMA Hears ==
  ASSUME SInv, SyncAssumption, NEW l \in Links, serve[l].pc = "serve", toR[l] # <<>>,
         Head(toR[l]).type \in {"want", "want-objects", "done", "ping"}
  PROVE  dial[l].pc \notin {"hello", "pushed"}
<1>1. IInv /\ Orderly(l) /\ Protocol(l) BY DEF SInv, IInv
<1>2. CASE dial[l].pc = "hello"
  BY <1>1, <1>2 DEF Protocol, Greeting
<1>3. CASE dial[l].pc = "pushed"
  <2>1. Offered(l) BY <1>1, <1>3 DEF Orderly, Pushed
  <2>2. Head(toR[l]).type \in {"push-tip", "push-have"}
    BY <2>1, TwoMessages DEF Offered, Only
  <2> QED BY <2>2
<1> QED BY <1>2, <1>3

LEMMA DialerMoves ==
  ASSUME SInv, SyncAssumption, NEW l \in Links,
         \/ FetchCommits(l) \/ RecvHave(l) \/ FetchObjects(l) \/ DialerData(l) \/ DialerIntegrate(l)
         \/ PushOk(l) \/ Ping(l) \/ Pong(l) \/ HangUp(l) \/ Drop(l)
  PROVE  Moves(l)
<1> USE DEF Moves, SInv, IInv, Shape, Close, IdleDial, Goto
<1>1. CASE FetchCommits(l) BY <1>1 DEF FetchCommits
<1>2. CASE RecvHave(l) BY <1>2 DEF RecvHave
<1>3. CASE FetchObjects(l) BY <1>3 DEF FetchObjects
<1>4. CASE DialerData(l) BY <1>4 DEF DialerData
<1>5. CASE DialerIntegrate(l) BY <1>5 DEF DialerIntegrate
<1>6. CASE PushOk(l) BY <1>6 DEF PushOk
<1>7. CASE Ping(l) BY <1>7 DEF Ping
<1>8. CASE Pong(l) BY <1>8 DEF Pong
<1>9. CASE HangUp(l) BY <1>9 DEF HangUp
<1>10. CASE Drop(l) BY <1>10 DEF Drop
<1> QED BY <1>1, <1>2, <1>3, <1>4, <1>5, <1>6, <1>7, <1>8, <1>9, <1>10

LEMMA ResponderMoves ==
  ASSUME SInv, SyncAssumption, NEW l \in Links,
         ServeWant(l) \/ ServeWantObjects(l) \/ ServeDone(l) \/ ServePing(l)
  PROVE  Moves(l)
<1>1. dial[l].pc \notin {"hello", "pushed"}
  BY Hears DEF ServeWant, ServeWantObjects, ServeDone, ServePing, Serving
<1>2. dial'[l] = dial[l] \/ dial'[l] = IdleDial
  BY DEF ServeWant, ServeWantObjects, ServeDone, ServePing, Close, SInv, IInv, Shape
<1> QED BY <1>1, <1>2 DEF Moves, IdleDial

LEMMA DialCarries ==
  ASSUME SInv, SyncAssumption, NEW l \in Links, Adds, Carried(l), Dial(l)
  PROVE  Carried(l)'
<1> DEFINE r == Responder(l)
<1>1. r \in Repos /\ Recorded BY TipsKnown DEF SInv
<1>2. \A t \in 1 .. Len(ledger) : Whole(r, t) => Whole(r, t)' 
  BY <1>1, Stay
<1>3. dial'[l].pc = "hello" /\ dial'[l].remote = dial[l].remote /\ toD'[l] = <<>>
  BY DEF Dial, Goto, SInv, IInv, Shape, Protocol, Idle
<1> HIDE DEF r
<1>5. Fetched(l)'
  BY <1>2, <1>3, TipsKnown DEF Carried, Fetched, r
<1> QED BY <1>3, <1>5 DEF Carried, Greeted, Promised

LEMMA AcceptCarries ==
  ASSUME SInv, SyncAssumption, NEW l \in Links, Adds, Carried(l), Accept(l),
         ref[Responder(l)] # Nil => Complete(Responder(l), ref[Responder(l)])
  PROVE  Carried(l)'
<1> DEFINE r == Responder(l)
<1>1. r \in Repos /\ Recorded BY TipsKnown DEF SInv
<1>2. \A t \in 1 .. Len(ledger) : Whole(r, t) => Whole(r, t)' 
  BY <1>1, Stay
<1>3. toD[l] = <<>> /\ dial[l].pc # "pushed"
  BY DEF Accept, SInv, IInv, Protocol, Idle, Greeting, Asking, Loading, Waiting, Quiet, Orderly, Tips, Pushed, Settled, DialPcs
<1>4. dial' = dial /\ toD'[l] = <<[type |-> "hello", head |-> ref[r]]>>
  BY <1>3, FirstMessage DEF Accept, ToDialer, SInv, IInv, Shape
<1>5. Head(toD'[l]).head = ref[r]
  BY <1>4, FirstMessage
<1>6. ref[r] # Nil => ref[r] \in 1 .. Len(ledger)
  BY <1>1 DEF SInv, IInv, RefsHeld, Recorded
<1>7. ref[r] # Nil => Whole(r, ref[r])'
  <2>1. ref[r] # Nil => Whole(r, ref[r])
    BY CompleteIsWhole
  <2> QED BY <1>2, <1>6, <2>1 DEF Accept, repoVars
<1>8. ledger' = ledger /\ held' = held /\ ref' = ref BY DEF Accept, repoVars
<1> HIDE DEF r
<1>9. Greeted(l)'
  BY <1>5, <1>7, <1>8 DEF Greeted, r, Whole
<1>10. Fetched(l)'
  BY <1>2, <1>4, TipsKnown DEF Carried, Fetched, r
<1> QED BY <1>3, <1>4, <1>9, <1>10 DEF Carried, Promised

LEMMA DialerHelloCarries ==
  ASSUME SInv, SyncAssumption, NEW l \in Links, Adds, Carried(l), DialerHello(l)
  PROVE  Carried(l)'
<1> DEFINE r == Responder(l)
<1>1. dial'[l].pc \in {"fetch", "push", "synced"} /\ dial'[l].remote = Head(toD[l]).head
  BY DEF DialerHello, SInv, IInv, Shape, IdleDial
<1>2. ledger' = ledger /\ held' = held BY DEF DialerHello, repoVars
<1>3. Fetched(l)'
  BY <1>1, <1>2 DEF DialerHello, Carried, Greeted, Fetched, Whole
<1> QED BY <1>1, <1>3 DEF Carried, Greeted, Promised

\* The walks of the offer are whole.
LEMMA MineWhole ==
  ASSUME NEW l, IsGraph(ledger), dial[l].local \in 1 .. Len(ledger), WalkLimit \in Nat,
         Len(ledger) < WalkLimit, Mine(l).ok
  PROVE  ledger[dial[l].local].anc \subseteq Mine(l).commits
<1>1. Mine(l) = Walk(ledger, held[Dialer(l)], dial[l].local, WalkLimit)
  BY DEF Mine
<1> QED BY <1>1, WalkWhole

LEMMA TheirsWhole ==
  ASSUME NEW l, IsGraph(ledger), dial[l].remote \in 1 .. Len(ledger), WalkLimit \in Nat,
         Len(ledger) < WalkLimit, Theirs(l).ok, dial[l].remote \in held[Dialer(l)]
  PROVE  Theirs(l).commits \subseteq ledger[dial[l].remote].anc
<1>1. Theirs(l) = Walk(ledger, held[Dialer(l)], dial[l].remote, WalkLimit)
  BY DEF Theirs
<1> QED BY <1>1, WalkWhole

\* What is offered and what the responder's head has is the whole of the pushed tip.
LEMMA OfferSuffices ==
  ASSUME SInv, SyncAssumption, NEW l \in Links, Carried(l), Len(ledger) < WalkLimit,
         Mine(l).ok, dial[l].local # Nil
  PROVE  ledger[dial[l].local].anc \subseteq held[Responder(l)] \union Offer(l)
<1>1. WalkLimit \in Nat /\ IsGraph(ledger) BY DEF SyncAssumption, SInv, Recorded
<1>2. dial[l].local \in 1 .. Len(ledger) BY DEF SInv, Orderly, Tips
<1>3. ledger[dial[l].local].anc \subseteq Mine(l).commits
  BY <1>1, <1>2, MineWhole
<1>4. CASE ~Theirs(l).ok
  BY <1>3, <1>4 DEF Offer
<1>5. CASE Theirs(l).ok
  <2>1. dial[l].remote \in held[Dialer(l)]
    <3>1. [ok |-> FALSE, commits |-> {}].ok = FALSE OBVIOUS
    <3> QED BY <1>5, <3>1 DEF Theirs
  <2>2. dial[l].remote \in 1 .. Len(ledger)
    BY <2>1 DEF SInv, Recorded, SyncAssumption, Dialer
  <2>3. Theirs(l).commits \subseteq ledger[dial[l].remote].anc
    BY <1>1, <1>5, <2>1, <2>2, TheirsWhole
  <2>4. dial[l].remote # Nil
    BY <1>1, <2>2 DEF Nil, IsGraph
  <2>5. ledger[dial[l].remote].anc \subseteq held[Responder(l)]
    BY <2>4 DEF Carried, Fetched, Whole
  <2> QED BY <1>3, <1>5, <2>3, <2>5 DEF Offer
<1> QED BY <1>4, <1>5

LEMMA PushCarries ==
  ASSUME SInv, SyncAssumption, NEW l \in Links, Adds, Carried(l), Push(l), Len(ledger) < WalkLimit
  PROVE  Carried(l)'
<1>1. ledger' = ledger /\ held' = held BY DEF Push, repoVars
<1>2. CASE Closed(l)
  BY <1>2, CarriedOn DEF Closed, IdleDial
<1>3. CASE PushesOffer(l)
  <2>1. dial[l].local # Nil /\ serve[l].pc = "serve" /\ toD[l] = <<>>
    BY DEF Push, SInv, IInv, Orderly, Tips, Protocol, Waiting, Quiet
  <2>2. ledger[dial[l].local].anc \subseteq held[Responder(l)] \union Offer(l)
    BY <1>3, <2>1, OfferSuffices DEF PushesOffer
  <2>3. Only(toR'[l], "push-tip") => Offer(l) = {}
    <3>1. ASSUME NEW m, NEW n, toR'[l] = <<m, n>>, Only(toR'[l], "push-tip") PROVE FALSE
      BY <3>1, TwoMessages DEF Only
    <3> QED BY <1>3, <3>1 DEF PushesOffer
  <2>4. ASSUME NEW m, NEW n, toR'[l] = <<m, n>> PROVE Offer(l) = {} \/ m.commits = Offer(l)
    <3>1. CASE \E x, y : toR'[l] = <<x, y>> /\ x.commits = Offer(l)
      <4>1. PICK x, y : toR'[l] = <<x, y>> /\ x.commits = Offer(l) BY <3>1
      <4>2. x = m BY <2>4, <4>1
      <4> QED BY <4>1, <4>2
    <3> QED BY <1>3, <3>1 DEF PushesOffer
  <2>5. Promised(l)'
    <3>1. Only(toR'[l], "push-tip") => Whole(Responder(l), dial[l].local)'
      BY <1>1, <1>3, <2>2, <2>3 DEF PushesOffer, Whole
    <3>2. \A m, n : toR'[l] = <<m, n>> => ledger'[dial'[l].local].anc \subseteq held'[Responder(l)] \union m.commits
      BY <1>1, <1>3, <2>2, <2>4 DEF PushesOffer
    <3>3. ~Only(toD'[l], "push-ok")
      BY <1>3, <2>1 DEF PushesOffer, Only
    <3> QED BY <1>3, <2>1, <3>1, <3>2, <3>3 DEF Promised, PushesOffer
  <2>6. Fetched(l)' /\ Greeted(l)'
    BY <1>1, <1>3 DEF PushesOffer, Carried, Fetched, Greeted, Whole
  <2> QED BY <2>5, <2>6 DEF Carried
<1> QED BY <1>2, <1>3, Pushes

\* While it serves, only held and toD of the link change here.
LEMMA DialerServeCarries ==
  ASSUME SInv, SyncAssumption, NEW l \in Links, Adds, Carried(l), DialerServe(l)
  PROVE  Carried(l)'
<1>1. ledger' = ledger /\ held' = held /\ dial' = dial /\ serve' = serve /\ toR' = toR
  BY DEF DialerServe, repoVars
<1>2. Only(toD[l], "want-objects") /\ toR[l] = <<>> /\ serve[l].pc = "data" /\ dial[l].pc = "pushed"
  BY DEF DialerServe, SInv, Orderly, Pushed, Only
<1>3. toD'[l] = <<>>
  BY <1>2, OnlyMessage DEF DialerServe, SInv, IInv, Shape
<1>4. Promised(l)'
  BY <1>1, <1>2, <1>3 DEF Carried, Promised, Only, Whole
<1>5. Fetched(l)' /\ Greeted(l)'
  BY <1>1, <1>2 DEF Carried, Fetched, Greeted, Whole
<1> QED BY <1>4, <1>5 DEF Carried

LEMMA ServePushHaveCarries ==
  ASSUME SInv, SyncAssumption, NEW l \in Links, Adds, Carried(l), ServePushHave(l)
  PROVE  Carried(l)'
<1>1. /\ dial[l].pc = "pushed" /\ toD[l] = <<>> /\ serve[l].pc = "serve"
      /\ \E m, n : toR[l] = <<m, n>>
  BY Receives DEF ServePushHave, Serving, SInv
<1>2. PICK m, n : toR[l] = <<m, n>>
  BY <1>1
<1>3. ledger' = ledger /\ dial' = dial /\ serve' = serve /\ toD' = toD /\ toR'[l] = <<n>>
  BY <1>2, TwoMessages DEF ServePushHave, Consume, SInv, IInv, Shape
<1>4. held'[Responder(l)] = held[Responder(l)] \union m.commits
  BY <1>2, TwoMessages, TipsKnown DEF ServePushHave, SInv, IInv, Shape
<1>5. ledger[dial[l].local].anc \subseteq held'[Responder(l)]
  BY <1>1, <1>2, <1>4 DEF Carried, Promised
<1>6. \A x, y : toR'[l] # <<x, y>>
  BY <1>3, TwoMessages
<1>7. Promised(l)'
  BY <1>1, <1>3, <1>5, <1>6 DEF Promised, Whole, Only
<1>8. Fetched(l)' /\ Greeted(l)'
  BY <1>1, <1>3, <1>4 DEF Carried, Fetched, Greeted, Whole
<1> QED BY <1>7, <1>8 DEF Carried

LEMMA ServePushTipCarries ==
  ASSUME SInv, SyncAssumption, NEW l \in Links, Adds, Carried(l), ServePushTip(l)
  PROVE  Carried(l)'
<1>1. /\ dial[l].pc = "pushed" /\ toD[l] = <<>> /\ serve[l].pc = "serve"
      /\ Only(toR[l], "push-tip") /\ Head(toR[l]).head = dial[l].local
  BY Receives DEF ServePushTip, Serving, SInv
<1>2. ledger' = ledger /\ held' = held /\ dial' = dial /\ toR'[l] = <<>>
  BY <1>1, OnlyMessage DEF ServePushTip, repoVars, Consume, SInv, IInv, Shape
<1>3. Whole(Responder(l), dial[l].local)
  BY <1>1 DEF Carried, Promised
<1>4. \/ toD' = toD /\ serve'[l].pc = "objects"
      \/ toD'[l] = <<[type |-> "push-ok", err |-> TRUE]>> /\ serve' = serve
  <2>1. CASE Head(toR[l]).head \in held[Responder(l)]
    <3>1. /\ toD' = toD
          /\ serve' = [serve EXCEPT ![l] = [IdleServe EXCEPT !.pc = "objects", !.tip = Head(toR[l]).head]]
      BY <2>1, Zenon DEF ServePushTip
    <3> QED BY <3>1 DEF IdleServe, SInv, IInv, Shape
  <2>2. CASE Head(toR[l]).head \notin held[Responder(l)]
    <3>1. toD' = [toD EXCEPT ![l] = toD[l] \o <<[type |-> "push-ok", err |-> TRUE]>>] /\ serve' = serve
      BY <2>2 DEF ServePushTip, ToDialer
    <3>2. toD'[l] = toD[l] \o <<[type |-> "push-ok", err |-> TRUE]>>
      BY <3>1 DEF SInv, IInv, Shape
    <3> QED BY <1>1, <3>1, <3>2, FirstMessage
  <2> QED BY <2>1, <2>2
<1>5. toD'[l] = <<>> \/ Head(toD'[l]).err
  <2>1. \A m : Head(<<m>>) = m OBVIOUS
  <2>2. [type |-> "push-ok", err |-> TRUE].err OBVIOUS
  <2> QED BY <1>1, <1>4, <2>1, <2>2
<1>6. Promised(l)'
  BY <1>1, <1>2, <1>3, <1>4, <1>5 DEF Promised, Whole, Only
<1>7. Fetched(l)' /\ Greeted(l)'
  BY <1>1, <1>2 DEF Carried, Fetched, Greeted, Whole
<1> QED BY <1>6, <1>7 DEF Carried

\* Nothing missing from a whole chain: it is complete.
LEMMA NothingMissing ==
  ASSUME IsGraph(ledger), NEW repo, NEW tip \in 1 .. Len(ledger), Whole(repo, tip),
         Missing(repo, KnownChain(repo, tip)) = NoObjects
  PROVE  Complete(repo, tip)
<1>1. KnownChain(repo, tip) = ledger[tip].anc
  BY ReachWithin DEF KnownChain, Whole
<1> DEFINE known == ledger[tip].anc \intersect held[repo]
<1>2. \A k \in known : Tree(k) \in trees[repo] /\ Versions(Tree(k)) \subseteq blobs[repo]
  <2> DEFINE t == {Tree(c) : c \in known} \ trees[repo]
             b == (UNION {Versions(Tree(c)) : c \in {k \in known : Tree(k) \in trees[repo]}}) \ blobs[repo]
  <2>1. Missing(repo, ledger[tip].anc) = [trees |-> t, blobs |-> b]
    BY DEF Missing
  <2> HIDE DEF t, b
  <2>2. [trees |-> t, blobs |-> b] = [trees |-> {}, blobs |-> {}]
    BY <1>1, <2>1 DEF NoObjects
  <2>3. [trees |-> t, blobs |-> b].trees = t /\ [trees |-> t, blobs |-> b].blobs = b
        /\ [trees |-> {}, blobs |-> {}].trees = {} /\ [trees |-> {}, blobs |-> {}].blobs = {}
    OBVIOUS
  <2>4. t = {} /\ b = {}
    BY <2>2, <2>3
  <2>5. \A k \in known : Tree(k) \in trees[repo]
    BY <2>4 DEF t
  <2>6. ASSUME NEW k \in known, NEW v \in Versions(Tree(k)), v \notin blobs[repo] PROVE FALSE
    <3>1. k \in {c \in known : Tree(c) \in trees[repo]} BY <2>5
    <3> DEFINE all == {Versions(Tree(c)) : c \in {k2 \in known : Tree(k2) \in trees[repo]}}
    <3>2. Versions(Tree(k)) \in all BY <3>1
    <3>3. b = (UNION all) \ blobs[repo] BY DEF b
    <3> HIDE DEF all, b
    <3>4. v \in b BY <2>6, <3>2, <3>3
    <3> QED BY <2>4, <3>4
  <2> HIDE DEF known
  <2> QED BY <2>5, <2>6
<1>3. ASSUME NEW c \in ledger[tip].anc PROVE HasObjects(repo, c)
  <2>1. c \in known BY DEF Whole
  <2> HIDE DEF known
  <2>2. Tree(c) \in trees[repo] /\ Versions(Tree(c)) \subseteq blobs[repo] BY <1>2, <2>1
  <2>3. c \in held[repo] BY DEF Whole
  <2> QED BY <2>2, <2>3 DEF HasObjects, HasTree
<1> QED BY <1>3 DEF Complete

LEMMA EnsureObjectsCarries ==
  ASSUME SInv, SyncAssumption, NEW l \in Links, Adds, Carried(l), EnsureObjects(l),
         ref[Responder(l)] # Nil => Complete(Responder(l), ref[Responder(l)])
  PROVE  Carried(l)'
<1> DEFINE r == Responder(l)
<1>1. serve[l].pc = "objects" /\ ledger' = ledger /\ held' = held /\ trees' = trees /\ blobs' = blobs
      /\ dial' = dial /\ toR' = toR
  BY DEF EnsureObjects, repoVars
<1>2. dial[l].pc = "pushed" /\ serve[l].tip = dial[l].local /\ toR[l] = <<>> /\ toD[l] = <<>>
  BY <1>1, ServingPhase DEF SInv, Orderly, Pushed
<1>3. Whole(r, dial[l].local)
  BY <1>1, <1>2 DEF Carried, Promised
<1> HIDE DEF r
<1>4. \/ /\ Missing(r, KnownChain(r, dial[l].local)) = NoObjects
         /\ serve'[l].pc = "integrate" /\ serve'[l].local = ref[r] /\ toD'[l] = <<>>
      \/ serve'[l].pc = "data" /\ Only(toD'[l], "want-objects")
      \/ serve'[l].pc = "serve" /\ toD'[l] = <<[type |-> "push-ok", err |-> TRUE]>>
  <2> DEFINE missing == Missing(r, KnownChain(r, serve[l].tip))
             want == [type |-> "want-objects", objects |-> missing]
  <2>1. \/ /\ missing = NoObjects
           /\ serve' = [serve EXCEPT ![l].pc = "integrate", ![l].local = ref[r]]
           /\ UNCHANGED toD
        \/ /\ serve' = [serve EXCEPT ![l].pc = "data", ![l].round = @ + 1]
           /\ ToDialer(l, <<want>>)
        \/ /\ serve' = [serve EXCEPT ![l] = [IdleServe EXCEPT !.pc = "serve"]]
           /\ ToDialer(l, <<[type |-> "push-ok", err |-> TRUE]>>)
    BY DEF EnsureObjects, r
  <2>2. want.type = "want-objects" OBVIOUS
  <2> HIDE DEF missing, want
  <2>3. ASSUME ToDialer(l, <<want>>) PROVE Only(toD'[l], "want-objects")
    <3>1. toD'[l] = <<want>> BY <1>2, <2>3, FirstMessage DEF ToDialer, SInv, IInv, Shape
    <3> QED BY <2>2, <3>1, OnlyOf
  <2>4. ASSUME ToDialer(l, <<[type |-> "push-ok", err |-> TRUE]>>)
        PROVE  toD'[l] = <<[type |-> "push-ok", err |-> TRUE]>>
    BY <1>2, <2>4, FirstMessage DEF ToDialer, SInv, IInv, Shape
  <2>5. IdleServe.local = Nil /\ [IdleServe EXCEPT !.pc = "serve"].pc = "serve"
    BY DEF IdleServe
  <2>6. missing = Missing(r, KnownChain(r, dial[l].local)) BY <1>2 DEF missing
  <2>7. DOMAIN serve = Links /\ DOMAIN serve[l] = {"pc", "tip", "local", "round"}
    BY DEF SInv, IInv, Shape
  <2>8. CASE missing = NoObjects /\ serve' = [serve EXCEPT ![l].pc = "integrate", ![l].local = ref[r]] /\ UNCHANGED toD
    <3>1. serve'[l].pc = "integrate" /\ serve'[l].local = ref[r]
      BY <2>7, <2>8
    <3> QED BY <1>2, <2>6, <2>8, <3>1
  <2>9. CASE serve' = [serve EXCEPT ![l].pc = "data", ![l].round = @ + 1] /\ ToDialer(l, <<want>>)
    <3>1. serve'[l].pc = "data"
      BY <2>7, <2>9
    <3> QED BY <2>3, <2>9, <3>1
  <2>10. CASE /\ serve' = [serve EXCEPT ![l] = [IdleServe EXCEPT !.pc = "serve"]]
              /\ ToDialer(l, <<[type |-> "push-ok", err |-> TRUE]>>)
    <3>1. serve'[l].pc = "serve"
      BY <2>5, <2>7, <2>10
    <3> QED BY <2>4, <2>10, <3>1
  <2> QED BY <2>1, <2>8, <2>9, <2>10
<1>5. toD'[l] = <<[type |-> "push-ok", err |-> TRUE]>> => Head(toD'[l]).err
  <2>1. \A m : Head(<<m>>) = m OBVIOUS
  <2>2. [type |-> "push-ok", err |-> TRUE].err OBVIOUS
  <2> QED BY <2>1, <2>2
<1>6. serve'[l].pc = "integrate" =>
        Complete(r, dial[l].local) /\ serve'[l].local = ref[r]
  <2>1. IsGraph(ledger) /\ dial[l].local \in 1 .. Len(ledger)
    BY <1>2 DEF SInv, Recorded, Orderly, Tips
  <2> QED BY <1>3, <1>4, <2>1, NothingMissing
<1>7. \A t : Complete(r, t) => Complete(r, t)'
  BY <1>1 DEF Complete, HasObjects, HasTree, Tree
<1>8. Promised(l)'
  <2>1. \A m, n : toR'[l] # <<m, n>>
    BY <1>1, <1>2, TwoMessages
  <2>2. Only(toD'[l], "push-ok") => Head(toD'[l]).err
    BY <1>4, <1>5 DEF Only
  <2>3. ~Only(toR'[l], "push-tip")
    BY <1>1, <1>2 DEF Only
  <2> QED BY <1>1, <1>3, <1>6, <1>7, <2>1, <2>2, <2>3 DEF Promised, Whole, r
<1>9. Fetched(l)' /\ Greeted(l)'
  BY <1>1, <1>2 DEF Carried, Fetched, Greeted, Whole
<1> QED BY <1>8, <1>9 DEF Carried

LEMMA ResponderDataCarries ==
  ASSUME SInv, SyncAssumption, NEW l \in Links, Adds, Carried(l), ResponderData(l)
  PROVE  Carried(l)'
<1>1. serve[l].pc = "data" /\ ledger' = ledger /\ held' = held /\ dial' = dial /\ toR' = toR
      /\ data[l].to = "responder"
  BY DEF ResponderData
<1>2. dial[l].pc = "pushed" /\ toR[l] = <<>> /\ toD[l] = <<>>
  BY <1>1, ServingPhase DEF SInv, Orderly, Streamed
<1>3. Whole(Responder(l), dial[l].local)
  BY <1>1, <1>2 DEF Carried, Promised
<1>4. \/ serve'[l].pc = "objects" /\ toD'[l] = <<>>
      \/ serve'[l].pc = "serve" /\ toD'[l] = <<[type |-> "push-ok", err |-> TRUE]>>
  <2> DEFINE failed == [type |-> "push-ok", err |-> TRUE]
  <2>1. \/ serve' = [serve EXCEPT ![l].pc = "objects"] /\ UNCHANGED toD
        \/ serve' = [serve EXCEPT ![l] = [IdleServe EXCEPT !.pc = "serve"]] /\ ToDialer(l, <<failed>>)
    BY Zenon DEF ResponderData
  <2>2. [IdleServe EXCEPT !.pc = "serve"].pc = "serve"
    BY DEF IdleServe
  <2>3. /\ DOMAIN serve = Links /\ DOMAIN serve[l] = {"pc", "tip", "local", "round"}
        /\ DOMAIN toD = Links
    BY DEF SInv, IInv, Shape
  <2> HIDE DEF failed
  <2>4. ToDialer(l, <<failed>>) => toD'[l] = <<failed>>
    BY <1>2, <2>3, FirstMessage DEF ToDialer
  <2>5. serve' = [serve EXCEPT ![l].pc = "objects"] => serve'[l].pc = "objects"
    BY <2>3
  <2>6. serve' = [serve EXCEPT ![l] = [IdleServe EXCEPT !.pc = "serve"]] => serve'[l].pc = "serve"
    BY <2>2, <2>3
  <2> QED BY <1>2, <2>1, <2>4, <2>5, <2>6 DEF failed
<1>5. toD'[l] = <<>> \/ Head(toD'[l]).err
  <2>1. \A m : Head(<<m>>) = m OBVIOUS
  <2>2. [type |-> "push-ok", err |-> TRUE].err OBVIOUS
  <2> QED BY <1>4, <2>1, <2>2
<1>6. Promised(l)'
  <2>1. \A m, n : toR'[l] # <<m, n>>
    BY <1>1, <1>2, TwoMessages
  <2>2. Only(toD'[l], "push-ok") => Head(toD'[l]).err
    BY <1>5 DEF Only
  <2>3. ~Only(toR'[l], "push-tip")
    BY <1>1, <1>2 DEF Only
  <2> QED BY <1>1, <1>3, <1>4, <2>1, <2>2, <2>3 DEF Promised, Whole
<1>7. Fetched(l)' /\ Greeted(l)'
  BY <1>1, <1>2 DEF Carried, Fetched, Greeted, Whole
<1> QED BY <1>6, <1>7 DEF Carried

LEMMA NewComplete ==
  ASSUME Recorded, Adds, NEW repo \in Repos, NEW e, ledger' = Append(ledger, e),
         e.anc = AncestryOf(ledger, Len(ledger) + 1, e.parents),
         \A k \in DOMAIN e.parents : e.parents[k] \in 1 .. Len(ledger) /\ Complete(repo, e.parents[k]),
         NEW c \in Nat, c = Len(ledger) + 1, c \in held'[repo], e.files \in trees'[repo],
         Versions(e.files) \subseteq blobs'[repo]
  PROVE  Complete(repo, c)'
<1>1. ledger'[c] = e /\ \A x \in 1 .. Len(ledger) : ledger'[x] = ledger[x]
  BY Appended DEF Recorded
<1>2. e.anc = {c} \union UNION {ledger[e.parents[k]].anc : k \in DOMAIN e.parents}
  BY DEF AncestryOf
<1>3. HasObjects(repo, c)'
  BY <1>1 DEF HasObjects, HasTree, Tree
<1>4. ASSUME NEW k \in DOMAIN e.parents, NEW x \in ledger[e.parents[k]].anc PROVE HasObjects(repo, x)'
  <2>1. x \in 1 .. Len(ledger) BY DEF Recorded, IsGraph
  <2>2. HasObjects(repo, x) BY DEF Complete
  <2>3. held[repo] \subseteq held'[repo] /\ trees[repo] \subseteq trees'[repo] /\ blobs[repo] \subseteq blobs'[repo]
    BY DEF Adds, StoresGrow
  <2>4. ledger'[x] = ledger[x] BY <1>1, <2>1
  <2> QED BY <2>2, <2>3, <2>4 DEF HasObjects, HasTree, Tree
<1>5. ASSUME NEW x \in e.anc PROVE HasObjects(repo, x)'
  <2>1. CASE x = c BY <1>3, <2>1
  <2>2. CASE \E k \in DOMAIN e.parents : x \in ledger[e.parents[k]].anc BY <1>4, <2>2
  <2> QED BY <1>2, <2>1, <2>2
<1> QED BY <1>1, <1>5 DEF Complete

LEMMA TipComplete ==
  ASSUME NEW repo, NEW t, ref'[repo] = t, Complete(repo, t)'
  PROVE  Complete(repo, ref[repo])'
  BY DEF Complete

LEMMA CompleteTree ==
  ASSUME Recorded, NEW repo, NEW t \in 1 .. Len(ledger), Complete(repo, t)
  PROVE  HasObjects(repo, t) /\ Flattened(repo, t) = Tree(t)
<1>1. t \in ledger[t].anc BY DEF Recorded, IsGraph
<1> QED BY <1>1 DEF Complete, HasObjects, Flattened

\* What integrate leaves a repository whose tip and whose peer's tip are complete.
LEMMA IntegratedComplete ==
  ASSUME SInv, NEW repo \in Repos,
         NEW local \in 1 .. Len(ledger) \union {Nil}, NEW remote \in held[repo],
         NEW i \in Integrations(repo, local, remote), NEW out \in AfterCheckout(repo, i), Apply(repo, i, out),
         Complete(repo, remote), local # Nil => Complete(repo, local),
         ref[repo] # Nil => Complete(repo, ref[repo])
  PROVE  ref'[repo] # Nil => Complete(repo, ref[repo])'
<1> SUFFICES ASSUME ref'[repo] # Nil PROVE Complete(repo, ref[repo])'
  OBVIOUS
<1>1. Recorded /\ Shape /\ RefsHeld BY DEF SInv, IInv
<1>2. Recorded' /\ Adds BY <1>1, ApplyRecords
<1>3. remote \in 1 .. Len(ledger) /\ Len(ledger) \in Nat BY <1>1 DEF Recorded, IsGraph
<1>4. /\ ref'[repo] = i.ref
      /\ held'[repo] = held[repo] \union {Len(ledger) + k : k \in DOMAIN i.made}
      /\ trees'[repo] = trees[repo] \union {i.made[k].files : k \in DOMAIN i.made}
      /\ blobs' = blobs
  BY <1>1 DEF Apply, Shape, Recorded
<1>5. CASE Stays(repo, i)
  <2>1. i.ref = ref[repo] /\ ref[repo] \in 1 .. Len(ledger)
    BY <1>1, <1>4, <1>5 DEF Stays, RefsHeld, Recorded
  <2> QED BY <1>1, <1>2, <1>4, <2>1, Stay, TipComplete
<1>6. CASE Follows(repo, local, remote, i)
  <2>1. i.ref = remote BY <1>6 DEF Follows
  <2> QED BY <1>1, <1>2, <1>3, <1>4, <2>1, Stay, TipComplete
<1>7. CASE Merges(repo, local, remote, i)
  <2>1. PICK base : i.made = <<MergeOf(repo, base, local, remote)>> BY <1>7 DEF Merges
  <2>2. local \in 1 .. Len(ledger) /\ Complete(repo, local) /\ i.ref = Len(ledger) + 1
    BY <1>7 DEF Merges
  <2> DEFINE e == MergeOf(repo, base, local, remote)
             parents == <<local, remote>>
             tree == MergedTree(Flattened(repo, base), Flattened(repo, local), Flattened(repo, remote), Len(ledger) + 1)
  <2>3. e.parents = parents /\ e.anc = AncestryOf(ledger, Len(ledger) + 1, parents) /\ e.files = tree
    BY DEF MergeOf, NewCommit
  <2>4. ledger' = Append(ledger, e) BY <1>1, <2>1, ApplyRecords
  <2>5. i.made[1] = e /\ DOMAIN i.made = {1} BY <2>1
  <2>6. \A k \in DOMAIN parents : parents[k] \in 1 .. Len(ledger) /\ Complete(repo, parents[k])
    BY <1>3, <2>2
  <2>7. Versions(tree) \subseteq blobs[repo]
    <3>1. /\ Versions(Flattened(repo, local)) \subseteq blobs[repo]
          /\ Versions(Flattened(repo, remote)) \subseteq blobs[repo]
      BY <1>1, <1>3, <2>2, CompleteTree DEF HasObjects
    <3>2. DOMAIN Flattened(repo, local) \subseteq Paths /\ DOMAIN Flattened(repo, remote) \subseteq Paths
      BY <1>1, RecordedTree
    <3>3. Len(ledger) + 1 \in Files \union Nat BY <1>3
    <3> DEFINE a == Flattened(repo, local)
               b == Flattened(repo, remote)
    <3> HIDE DEF a, b
    <3>4. Versions(tree) \subseteq Versions(a) \union Versions(b)
      BY <3>2, <3>3, MergedFrom DEF Paths, a, b
    <3> HIDE DEF tree
    <3> QED BY <3>1, <3>4 DEF a, b
  <2> HIDE DEF e, parents, tree
  <2> DEFINE c == Len(ledger) + 1
  <2>8. c \in Nat /\ c \in held'[repo] /\ e.files \in trees'[repo] /\ Versions(e.files) \subseteq blobs'[repo]
    BY <1>3, <1>4, <2>3, <2>5, <2>7
  <2>9. PICK t \in Nat : t = Len(ledger) + 1
    BY <1>3
  <2>10. Complete(repo, t)'
    BY <1>1, <1>2, <2>3, <2>4, <2>6, <2>8, <2>9, NewComplete
  <2> QED BY <1>4, <2>2, <2>9, <2>10, TipComplete
<1> QED BY <1>5, <1>6, <1>7, Integrated

LEMMA CommitComplete ==
  ASSUME SInv, NEW repo \in Repos, Commit(repo), ref[repo] # Nil => Complete(repo, ref[repo])
  PROVE  Complete(repo, ref[repo])'
<1>1. Recorded /\ Shape /\ RefsHeld BY DEF SInv, IInv
<1> DEFINE parents == IF ref[repo] = Nil THEN <<>> ELSE <<ref[repo]>>
           c == Len(ledger) + 1
<1>2. Recorded' /\ Adds BY CommitRecords
<1>3. PICK files : /\ ledger' = Append(ledger, NewCommit(parents, files))
                   /\ held' = [held EXCEPT ![repo] = held[repo] \union {c}]
                   /\ trees' = [trees EXCEPT ![repo] = trees[repo] \union {files}]
                   /\ blobs' = [blobs EXCEPT ![repo] = blobs[repo] \union Versions(files)]
                   /\ ref' = [ref EXCEPT ![repo] = c]
  BY CommitRecords
<1> DEFINE e == NewCommit(parents, files)
<1>4. e.parents = parents /\ e.anc = AncestryOf(ledger, Len(ledger) + 1, parents) /\ e.files = files
  BY DEF NewCommit
<1>5. \A k \in DOMAIN parents : parents[k] \in 1 .. Len(ledger) /\ Complete(repo, parents[k])
  BY <1>1 DEF RefsHeld, Recorded
<1>6. c \in held'[repo] /\ files \in trees'[repo] /\ Versions(files) \subseteq blobs'[repo] /\ ref'[repo] = c
  BY <1>1, <1>3 DEF Shape, Recorded
<1>7. PICK t \in Nat : t = c
  BY <1>1 DEF Recorded, IsGraph
<1> HIDE DEF e, parents
<1>8. ledger' = Append(ledger, e) BY <1>3 DEF e
<1>9. Complete(repo, t)'
  BY <1>1, <1>2, <1>4, <1>5, <1>6, <1>7, <1>8, NewComplete
<1> QED BY <1>6, <1>7, <1>9, TipComplete

LinkStep(l) == Dial(l) \/ DialerStep(l) \/ ResponderStep(l) \/ HangUp(l) \/ Drop(l)

LEMMA LinkStepElsewhere ==
  ASSUME SInv, SyncAssumption, NEW l \in Links, LinkStep(l)
  PROVE  Elsewhere(l)
<1>1. IInv BY DEF SInv
<1>2. CASE Dial(l) \/ HangUp(l) \/ Drop(l)
  BY <1>1, <1>2, DialKeeps, HangUpKeeps, DropKeeps DEF Kept
<1>3. CASE DialerStep(l)
  BY <1>1, <1>3, DialerHelloKeeps, FetchCommitsKeeps, RecvHaveKeeps, FetchObjectsKeeps, DialerDataKeeps,
     DialerIntegrateKeeps, PushKeeps, DialerServeKeeps, PushOkKeeps, PingKeeps, PongKeeps DEF DialerStep, Kept
<1>4. CASE ResponderStep(l)
  BY <1>1, <1>4, AcceptKeeps, ServeWantKeeps, ServeWantObjectsKeeps, ServePushHaveKeeps, ServePushTipKeeps,
     ServeDoneKeeps, ServePingKeeps, EnsureObjectsKeeps, ResponderDataKeeps, ResponderIntegrateKeeps
     DEF ResponderStep, Kept
<1> QED BY <1>2, <1>3, <1>4 DEF LinkStep

LEMMA ResponderIntegrateCarries ==
  ASSUME SInv, SyncAssumption, NEW l \in Links, Adds, Carried(l), ResponderIntegrate(l)
  PROVE  Carried(l)'
<1> DEFINE r == Responder(l)
<1>1. serve[l].pc = "integrate" /\ dial' = dial /\ toR' = toR
  BY DEF ResponderIntegrate
<1>2. dial[l].pc = "pushed" /\ toR[l] = <<>> /\ toD[l] = <<>>
  BY <1>1, ServingPhase DEF SInv, Orderly, Pushed
<1>3. serve'[l].pc = "serve"
  BY DEF ResponderIntegrate, IdleServe, SInv, IInv, Shape
<1>4. Complete(r, dial[l].local) /\ dial[l].local \in 1 .. Len(ledger) /\ r \in Repos /\ Recorded
  BY <1>1, <1>2, TipsKnown DEF Carried, Promised, SInv
<1>5. \A t \in 1 .. Len(ledger) : /\ Complete(r, t) => Complete(r, t)'
                                  /\ Whole(r, t) => Whole(r, t)'
  BY <1>4, Stay
<1> HIDE DEF r
<1>6. Promised(l)'
  <2>1. \A m, n : toR'[l] # <<m, n>>
    BY <1>1, <1>2, TwoMessages
  <2>2. ~Only(toR'[l], "push-tip")
    BY <1>1, <1>2 DEF Only
  <2> QED BY <1>1, <1>3, <1>4, <1>5, <2>1, <2>2 DEF Promised, r
<1>7. Fetched(l)'
  BY <1>1, <1>5, TipsKnown DEF Carried, Fetched, r
<1> QED BY <1>1, <1>2, <1>6, <1>7 DEF Carried, Greeted

\* The link of a responder that dials nobody, after a step of its own.
LEMMA LinkCarries ==
  ASSUME SInv, SyncAssumption, NEW l \in Links, Adds, Carried(l), LinkStep(l), Len(ledger) < WalkLimit,
         ref[Responder(l)] # Nil => Complete(Responder(l), ref[Responder(l)])
  PROVE  Carried(l)'
<1>1. CASE Moves(l) BY <1>1, CarriedOn DEF Moves
<1>2. CASE Dial(l) BY <1>2, DialCarries
<1>3. CASE HangUp(l) \/ Drop(l) BY <1>1, <1>3, DialerMoves
<1>4. CASE DialerStep(l)
  BY <1>1, <1>4, DialerMoves, DialerHelloCarries, PushCarries, DialerServeCarries DEF DialerStep
<1>5. CASE ResponderStep(l)
  BY <1>1, <1>5, ResponderMoves, AcceptCarries, ServePushHaveCarries, ServePushTipCarries,
     EnsureObjectsCarries, ResponderDataCarries, ResponderIntegrateCarries DEF ResponderStep
<1> QED BY <1>2, <1>3, <1>4, <1>5 DEF LinkStep

\* Whose branch a step moves.
LEMMA RefsMove ==
  ASSUME Shape, NEW repo \in Repos, [Next]_vars
  PROVE  \/ ref'[repo] = ref[repo]
         \/ Commit(repo)
         \/ \E l \in Links : DialerIntegrate(l) /\ Dialer(l) = repo
         \/ \E l \in Links : ResponderIntegrate(l) /\ Responder(l) = repo
<1>1. CASE UNCHANGED vars BY <1>1 DEF vars, repoVars
<1>2. ASSUME NEW x \in Repos, Commit(x) PROVE x = repo \/ ref'[repo] = ref[repo]
  BY <1>2 DEF Commit, Shape
<1>3. ASSUME NEW l \in Links, Dial(l) \/ HangUp(l) \/ Drop(l) PROVE ref' = ref
  BY <1>3 DEF Dial, HangUp, Drop, repoVars
<1>4. ASSUME NEW l \in Links, DialerStep(l) PROVE ref' = ref \/ DialerIntegrate(l)
  BY <1>4 DEF DialerStep, DialerHello, FetchCommits, RecvHave, FetchObjects, DialerData, Push,
     DialerServe, PushOk, Ping, Pong, repoVars
<1>5. ASSUME NEW l \in Links, ResponderStep(l) PROVE ref' = ref \/ ResponderIntegrate(l)
  BY <1>5 DEF ResponderStep, Accept, ServeWant, ServeWantObjects, ServePushHave, ServePushTip, ServeDone,
     ServePing, EnsureObjects, ResponderData, repoVars
<1>6. ASSUME NEW l \in Links, DialerIntegrate(l) PROVE Dialer(l) = repo \/ ref'[repo] = ref[repo]
  BY <1>6 DEF DialerIntegrate, Apply, Shape
<1>7. ASSUME NEW l \in Links, ResponderIntegrate(l) PROVE Responder(l) = repo \/ ref'[repo] = ref[repo]
  BY <1>7 DEF ResponderIntegrate, Apply, Shape
<1> QED BY <1>1, <1>2, <1>3, <1>4, <1>5, <1>6, <1>7 DEF Next

LEMMA StepComplete ==
  ASSUME SInv, SyncAssumption, CInv, [Next]_vars
  PROVE  CInv'
<1>1. SInv' /\ Adds BY StepOrdered
<1> SUFFICES ASSUME Len(ledger') < WalkLimit
             PROVE  RespondersComplete' /\ \A l \in Links : Responder(l) \in Answering => Carried(l)'
  BY DEF CInv, Answering
<1>2. Len(ledger) < WalkLimit
  <2>1. Len(ledger) \in Nat /\ Len(ledger') \in Nat /\ Len(ledger) <= Len(ledger') /\ WalkLimit \in Nat
    BY <1>1 DEF SInv, Recorded, IsGraph, Adds, LedgerGrows, SyncAssumption
  <2> QED BY <2>1
<1>3. /\ \A repo \in Answering : ref[repo] # Nil => Complete(repo, ref[repo])
      /\ \A l \in Links : Responder(l) \in Answering => Carried(l)
  BY <1>2 DEF CInv, RespondersComplete, Answering
<1>4. Recorded /\ Shape /\ RefsHeld BY DEF SInv, IInv
<1>5. ASSUME NEW repo \in Answering, ref'[repo] # Nil PROVE Complete(repo, ref[repo])'
  <2>0. repo \in Repos BY DEF Answering
  <2>1. CASE ref'[repo] = ref[repo]
    <3>1. ref[repo] \in 1 .. Len(ledger) /\ Complete(repo, ref[repo])
      BY <1>3, <1>4, <1>5, <2>0, <2>1 DEF RefsHeld, Recorded
    <3> QED BY <1>1, <1>4, <2>0, <2>1, <3>1, Stay, TipComplete
  <2>2. CASE Commit(repo)
    BY <1>3, <2>0, <2>2, CommitComplete
  <2>3. ASSUME NEW l \in Links, ResponderIntegrate(l), Responder(l) = repo PROVE Complete(repo, ref[repo])'
    <3>1. serve[l].pc = "integrate" BY <2>3 DEF ResponderIntegrate
    <3>2. dial[l].pc = "pushed" /\ serve[l].tip = dial[l].local
      BY <3>1, ServingPhase DEF SInv
    <3>3. Complete(repo, serve[l].tip) /\ (serve[l].local # Nil => Complete(repo, serve[l].local))
      BY <1>3, <2>3, <3>1, <3>2 DEF Carried, Promised
    <3>4. serve[l].local \in 1 .. Len(ledger) \union {Nil} /\ serve[l].tip \in held[repo]
      BY <2>3, <3>1 DEF SInv, Orderly, Tips, IInv, Protocol, Goal
    <3>5. PICK i \in Integrations(repo, serve[l].local, serve[l].tip) :
            \E out \in AfterCheckout(repo, i) : Apply(repo, i, out)
      BY <2>3 DEF ResponderIntegrate
    <3>6. PICK out \in AfterCheckout(repo, i) : Apply(repo, i, out)
      BY <3>5
    <3> QED BY <1>3, <1>5, <2>0, <3>3, <3>4, <3>6, IntegratedComplete
  <2>4. ~\E l \in Links : DialerIntegrate(l) /\ Dialer(l) = repo
    BY DEF Answering
  <2> QED BY <1>4, <2>0, <2>1, <2>2, <2>3, <2>4, RefsMove
<1>6. ASSUME NEW l \in Links, Responder(l) \in Answering PROVE Carried(l)'
  <2>1. Carried(l) BY <1>3, <1>6
  <2>2. CASE Same(l) BY <1>1, <2>1, <2>2, CarriedElsewhere
  <2>3. CASE UNCHANGED vars
    <3>1. Same(l) BY <2>3 DEF vars, linkVars, Same
    <3> QED BY <2>2, <3>1
  <2>4. ASSUME NEW x \in Repos, Commit(x) PROVE Carried(l)'
    <3>1. Same(l) BY <2>4 DEF Commit, linkVars, Same
    <3> QED BY <2>2, <3>1
  <2>5. ASSUME NEW k \in Links, LinkStep(k) PROVE Carried(l)'
    <3>1. CASE k = l BY <1>1, <1>2, <1>3, <1>6, <2>1, <2>5, <3>1, LinkCarries
    <3>2. CASE k # l
      <4>1. Same(l) BY <2>5, <3>2, LinkStepElsewhere DEF Elsewhere
      <4> QED BY <2>2, <4>1
    <3> QED BY <3>1, <3>2
  <2> QED BY <2>3, <2>4, <2>5 DEF Next, LinkStep
<1> QED BY <1>5, <1>6 DEF RespondersComplete, Answering

LEMMA InitComplete == SyncAssumption /\ Init => TipsComplete /\ \A l \in Links : Carried(l)
<1> SUFFICES ASSUME SyncAssumption, Init PROVE TipsComplete /\ \A l \in Links : Carried(l)
  OBVIOUS
<1> DEFINE files == [p \in {<<f>> : f \in Files} |-> 1]
           first == [parents |-> <<>>, files |-> files, anc |-> {1}]
<1>1. PICK cloned \in BOOLEAN :
        /\ ledger = IF cloned THEN <<first>> ELSE <<>>
        /\ held = [repo \in Repos |-> IF cloned THEN {1} ELSE {}]
        /\ trees = [repo \in Repos |-> IF cloned THEN {files} ELSE {}]
        /\ blobs = [repo \in Repos |-> IF cloned THEN {1} ELSE {}]
        /\ ref = [repo \in Repos |-> IF cloned THEN 1 ELSE Nil]
  BY Zenon DEF Init
<1>2. first.files = files /\ first.anc = {1} /\ Versions(files) \subseteq {1}
  BY DEF Versions
<1> HIDE DEF first, files
<1>3. ASSUME NEW repo \in Repos, ref[repo] # Nil PROVE Complete(repo, ref[repo])
  <2>1. cloned /\ ref[repo] = 1 BY <1>1, <1>3
  <2>2. ledger[1] = first BY <1>1, <2>1
  <2>3. held[repo] = {1} /\ trees[repo] = {files} /\ blobs[repo] = {1} BY <1>1, <2>1
  <2>4. HasObjects(repo, 1) BY <1>2, <2>2, <2>3 DEF HasObjects, HasTree, Tree
  <2> QED BY <1>2, <2>1, <2>2, <2>4 DEF Complete
<1>4. ASSUME NEW l \in Links PROVE Carried(l)
  <2>1. dial[l] = IdleDial /\ toD[l] = <<>> BY DEF Init
  <2> QED BY <2>1 DEF IdleDial, Carried, Greeted, Fetched, Promised
<1> QED BY <1>3, <1>4 DEF TipsComplete

\* What links carry to a repository that dials nobody: the heads it names are
\* whole there, and so is a pushed tip with the commits offered under way
\* (serveResponder and pushToRemote, sync.go:427-481, 1024-1036).
THEOREM Carriage == Spec => [](SInv /\ CInv)
<1>1. (SInv /\ CInv) /\ [Next]_vars => (SInv /\ CInv)'
  BY StepOrdered, StepComplete, SyncAssumption
<1>2. Init => SInv /\ CInv
  BY InitOrdered, InitComplete, SyncAssumption DEF CInv, RespondersComplete, TipsComplete
<1> QED BY <1>1, <1>2, PTL DEF Spec

\* Whatever fails, the tip of a repository that dials nobody has its whole
\* history there, each commit with its tree and its blobs, as long as a history
\* fits the walk of a push (RespondersComplete; ensureTipObjects, sync.go:1140-1185).
THEOREM RespondersStayComplete == Spec => [](Len(ledger) < WalkLimit => RespondersComplete)
<1>1. SInv /\ CInv => (Len(ledger) < WalkLimit => RespondersComplete)
  BY DEF CInv
<1> QED BY <1>1, Carriage, PTL

\* A confirmation is alone on its channel, and its dialer waits for it.
LEMMA PushOkAlone ==
  ASSUME SInv, NEW l \in Links, NEW j \in DOMAIN toD[l], toD[l][j].type = "push-ok"
  PROVE  dial[l].pc = "pushed" /\ Only(toD[l], "push-ok") /\ toD[l][j] = Head(toD[l])
<1> DEFINE m == Head(toD[l])
<1>1. \A x, s : s = <<x>> => DOMAIN s = {1} /\ s[1] = x /\ DOMAIN <<>> = {}
  OBVIOUS
<1>2. \A t : Only(toD[l], t) => toD[l][j] = m /\ m.type = t
  BY <1>1 DEF Only
<1>3. toD[l] # <<>> BY <1>1
<1>4. Protocol(l) /\ Orderly(l) BY DEF SInv, IInv
<1>5. dial[l].pc \in DialPcs BY <1>4 DEF Orderly, Tips
<1>6. dial[l].pc = "pushed" => Only(toD[l], "push-ok")
  BY <1>2, <1>3, <1>4 DEF Orderly, Pushed
<1>7. dial[l].pc \notin {"idle", "hello", "fetch", "have", "objects", "data", "integrate", "push"}
  BY <1>2, <1>3, <1>4 DEF Protocol, Idle, Greeting, Asking, Loading, Waiting, Quiet
<1>8. dial[l].pc \notin {"synced", "ping"}
  BY <1>2, <1>3, <1>4 DEF Orderly, Settled
<1> QED BY <1>2, <1>5, <1>6, <1>7, <1>8 DEF DialPcs

\* Where responders dial nobody, a push-ok without error is sent for a tip whose
\* whole history the responder holds, with its objects, as long as a history
\* fits the walk of a push (PushOkMeansHeld; sync.go:1110-1113).
THEOREM PushOkIsTrue ==
  ASSUME \A k, l \in Links : Responder(l) # Dialer(k)
  PROVE  Spec => [](Len(ledger) < WalkLimit => PushOkMeansHeld)
<1>1. SInv /\ CInv => (Len(ledger) < WalkLimit => PushOkMeansHeld)
  <2> SUFFICES ASSUME SInv, CInv, Len(ledger) < WalkLimit, NEW l \in Links, NEW j \in DOMAIN toD[l],
                      toD[l][j].type = "push-ok", ~toD[l][j].err
               PROVE  Complete(Responder(l), dial[l].local)
    BY DEF PushOkMeansHeld
  <2>1. Responder(l) \in Answering
    BY SyncAssumption DEF Answering, Responder, SyncAssumption, Dialer
  <2>2. Carried(l) BY <2>1 DEF CInv
  <2>3. dial[l].pc = "pushed" /\ Only(toD[l], "push-ok") /\ toD[l][j] = Head(toD[l])
    BY PushOkAlone
  <2> QED BY <2>2, <2>3 DEF Carried, Promised
<1> QED BY <1>1, Carriage, PTL

-----------------------------------------------------------------------------
(* Branches move forward                                                   *)

LEMMA LinkEnds ==
  ASSUME SyncAssumption, NEW l \in Links
  PROVE  Dialer(l) \in Repos /\ Responder(l) \in Repos /\ Dialer(l) # Responder(l)
  BY DEF SyncAssumption, Dialer, Responder

\* Where integrate takes a branch contains the tip it read.
LEMMA IntegratedForward ==
  ASSUME SInv, NEW repo \in Repos,
         NEW local \in 1 .. Len(ledger) \union {Nil}, NEW remote \in held[repo],
         NEW i \in Integrations(repo, local, remote), NEW out \in AfterCheckout(repo, i), Apply(repo, i, out)
  PROVE  ref'[repo] = ref[repo] \/ local \in ledger'[ref'[repo]].anc \union {Nil}
<1>1. Recorded /\ Shape /\ RefsHeld BY DEF SInv, IInv
<1> SUFFICES ASSUME local # Nil PROVE ref'[repo] = ref[repo] \/ local \in ledger'[ref'[repo]].anc
  OBVIOUS
<1>2. Recorded' /\ Adds BY <1>1, ApplyRecords
<1>3. remote \in 1 .. Len(ledger) /\ Len(ledger) \in Nat /\ local \in 1 .. Len(ledger) /\ IsGraph(ledger)
  BY <1>1 DEF Recorded, IsGraph
<1>4. ref'[repo] = i.ref
  BY <1>1 DEF Apply, Shape
<1>5. \A c \in 1 .. Len(ledger) : c \in ledger[c].anc /\ ledger'[c] = ledger[c]
  BY <1>1, <1>2, OwnAncestor DEF Adds, LedgerGrows
<1>6. CASE Stays(repo, i)
  BY <1>4, <1>6 DEF Stays
<1>7. CASE Follows(repo, local, remote, i)
  <2>1. local \in Find(ledger, held[repo], local, remote) /\ i.ref = remote
    BY <1>7 DEF Follows
  <2>2. local \in ledger[remote].anc BY <1>3, <2>1, BasesCommon
  <2> QED BY <1>3, <1>4, <1>5, <2>1, <2>2
<1>8. CASE Merges(repo, local, remote, i)
  <2>1. PICK base : i.made = <<MergeOf(repo, base, local, remote)>> BY <1>8 DEF Merges
  <2> DEFINE e == MergeOf(repo, base, local, remote)
  <2>2. ledger' = Append(ledger, e) /\ i.ref = Len(ledger) + 1
    BY <1>1, <1>8, <2>1, ApplyRecords DEF Merges
  <2>3. e.anc = AncestryOf(ledger, Len(ledger) + 1, <<local, remote>>)
    BY DEF MergeOf, NewCommit
  <2>4. ledger[local].anc \subseteq AncestryOf(ledger, Len(ledger) + 1, <<local, remote>>)
    <3> DEFINE ps == <<local, remote>>
    <3>1. 1 \in DOMAIN ps /\ ps[1] = local OBVIOUS
    <3> HIDE DEF ps
    <3>2. ledger[ps[1]].anc \subseteq AncestryOf(ledger, Len(ledger) + 1, ps)
      BY <3>1 DEF AncestryOf
    <3> QED BY <3>1, <3>2 DEF ps
  <2> HIDE DEF e
  <2>5. ledger'[Len(ledger) + 1] = e BY <1>1, <2>2, Appended DEF Recorded
  <2> QED BY <1>3, <1>4, <1>5, <2>2, <2>3, <2>4, <2>5
<1> QED BY <1>6, <1>7, <1>8, Integrated

\* What the ends of a link integrate: a tip they hold, into the one they read.
LEMMA IntegratesRead ==
  ASSUME SInv, SyncAssumption, NEW l \in Links
  PROVE  /\ dial[l].pc = "integrate" => dial[l].local \in 1 .. Len(ledger) \union {Nil}
                                        /\ dial[l].remote \in held[Dialer(l)]
         /\ serve[l].pc = "integrate" => serve[l].local \in 1 .. Len(ledger) \union {Nil}
                                         /\ serve[l].tip \in held[Responder(l)]
  BY DEF SInv, Orderly, Tips, IInv, Protocol, Goal

\* One integration, at either end of a link that read local.
Folds(repo, local) ==
  /\ local \in 1 .. Len(ledger) \union {Nil} /\ Integrating(repo, local)
  /\ \E remote \in held[repo] : \E i \in Integrations(repo, local, remote) :
       \E out \in AfterCheckout(repo, i) : Apply(repo, i, out)

LEMMA IntegratesFold ==
  ASSUME SInv, SyncAssumption, NEW l \in Links
  PROVE  /\ DialerIntegrate(l) => Folds(Dialer(l), dial[l].local)
         /\ ResponderIntegrate(l) => Folds(Responder(l), serve[l].local)
<1>1. ASSUME DialerIntegrate(l) PROVE Folds(Dialer(l), dial[l].local)
  <2>1. dial[l].pc = "integrate" BY <1>1 DEF DialerIntegrate
  <2>2. Integrating(Dialer(l), dial[l].local) BY <2>1 DEF Integrating
  <2>3. \E i \in Integrations(Dialer(l), dial[l].local, dial[l].remote) :
          \E out \in AfterCheckout(Dialer(l), i) : Apply(Dialer(l), i, out)
    BY <1>1 DEF DialerIntegrate
  <2> QED BY <2>1, <2>2, <2>3, IntegratesRead DEF Folds
<1>2. ASSUME ResponderIntegrate(l) PROVE Folds(Responder(l), serve[l].local)
  <2>1. serve[l].pc = "integrate" BY <1>2 DEF ResponderIntegrate
  <2>2. Integrating(Responder(l), serve[l].local) BY <2>1 DEF Integrating
  <2>3. \E i \in Integrations(Responder(l), serve[l].local, serve[l].tip) :
          \E out \in AfterCheckout(Responder(l), i) : Apply(Responder(l), i, out)
    BY <1>2 DEF ResponderIntegrate
  <2> QED BY <2>1, <2>2, <2>3, IntegratesRead DEF Folds
<1> QED BY <1>1, <1>2

LEMMA CommitForward ==
  ASSUME SInv, NEW repo \in Repos, Commit(repo), ref[repo] # Nil
  PROVE  ref[repo] \in ledger'[ref'[repo]].anc
<1>1. Recorded /\ Shape /\ RefsHeld BY DEF SInv, IInv
<1> DEFINE parents == IF ref[repo] = Nil THEN <<>> ELSE <<ref[repo]>>
<1>2. PICK files : /\ ledger' = Append(ledger, NewCommit(parents, files))
                   /\ ref' = [ref EXCEPT ![repo] = Len(ledger) + 1]
  BY CommitRecords
<1> DEFINE e == NewCommit(parents, files)
<1>3. e.anc = AncestryOf(ledger, Len(ledger) + 1, parents)
  BY DEF NewCommit
<1>4. 1 \in DOMAIN parents /\ parents[1] = ref[repo]
  OBVIOUS
<1> HIDE DEF e, parents
<1>5. ledger[ref[repo]].anc \subseteq e.anc
  BY <1>3, <1>4 DEF AncestryOf
<1>6. ref[repo] \in ledger[ref[repo]].anc
  BY <1>1, OwnAncestor DEF RefsHeld, Recorded
<1>7. ledger'[Len(ledger) + 1] = e
  BY <1>1, <1>2, Appended DEF e, Recorded
<1>8. ref'[repo] = Len(ledger) + 1
  BY <1>1, <1>2 DEF Shape
<1> QED BY <1>5, <1>6, <1>7, <1>8

LEMMA StepForward ==
  ASSUME SInv, SyncAssumption, [Next]_vars, NEW repo \in Repos, ref[repo] # Nil, ref'[repo] # ref[repo]
  PROVE  \/ ref[repo] \in ledger'[ref'[repo]].anc
         \/ \E local \in ledger'[ref'[repo]].anc \union {Nil} : local # ref[repo] /\ Integrating(repo, local)
<1>1. Shape BY DEF SInv, IInv
<1>2. CASE Commit(repo) BY <1>2, CommitForward
<1>3. ASSUME NEW local, Folds(repo, local)
      PROVE  \/ ref[repo] \in ledger'[ref'[repo]].anc
             \/ \E x \in ledger'[ref'[repo]].anc \union {Nil} : x # ref[repo] /\ Integrating(repo, x)
  <2>1. local \in ledger'[ref'[repo]].anc \union {Nil} BY <1>3, IntegratedForward DEF Folds
  <2>2. Integrating(repo, local) BY <1>3 DEF Folds
  <2> QED BY <2>1, <2>2
<1>4. ASSUME NEW l \in Links, DialerIntegrate(l), Dialer(l) = repo PROVE \E local : Folds(repo, local)
  BY <1>4, IntegratesFold
<1>5. ASSUME NEW l \in Links, ResponderIntegrate(l), Responder(l) = repo PROVE \E local : Folds(repo, local)
  BY <1>5, IntegratesFold
<1> QED BY <1>1, <1>2, <1>3, <1>4, <1>5, RefsMove

\* Whatever commits, sessions and failures interleave, a branch moves to a
\* commit that contains where it was; or the session that moved it had read an
\* older tip, and keeps that one: the base integrate finds is an ancestor of
\* both tips, so its fast-forwards and merges contain the tip it read
\* (ForwardUnlessOvertaken; sync.go:381, 710-825, 1185-1192).
THEOREM BranchesGoForward == Spec => ForwardUnlessOvertaken
<1>1. SInv /\ [Next]_vars =>
        [\A repo \in Repos : ref[repo] # Nil /\ ref'[repo] # ref[repo] =>
           LET past == ledger'[ref'[repo]].anc
           IN  \/ ref[repo] \in past
               \/ \E local \in past \union {Nil} : local # ref[repo] /\ Integrating(repo, local)]_vars
  BY StepForward, SyncAssumption
<1> QED BY <1>1, Order, PTL DEF Spec, ForwardUnlessOvertaken

-----------------------------------------------------------------------------
(* What a merge keeps                                                      *)

\* A merged tree names what the merged trees name, and copies of the remote's.
LEMMA MergedPaths ==
  ASSUME NEW b, NEW l, NEW r, NEW tag
  PROVE  DOMAIN MergedTree(b, l, r, tag)
           \subseteq DOMAIN l \union DOMAIN r \union {ConflictCopy(p, tag) : p \in DOMAIN r}
<1> DEFINE m == TryMerge(b, l, r)
           res == ResolveOverlaps(m.overlapping, l, r, tag)
           paths == DOMAIN b \union DOMAIN l \union DOMAIN r
           pick(p) == IF At(b, p) = At(l, p) THEN At(r, p) ELSE At(l, p)
           kept == {p \in paths \ m.overlapping : pick(p) # Absent}
<1>1. DOMAIN MergedTree(b, l, r, tag) = DOMAIN m.merged \union DOMAIN res
  BY DEF MergedTree, Into
<1>2. DOMAIN m.merged \subseteq DOMAIN l \union DOMAIN r
  <2>1. m.merged = [p \in kept |-> pick(p)] BY DEF TryMerge
  <2>2. \A p \in kept : p \in DOMAIN l \union DOMAIN r BY DEF At
  <2> HIDE DEF m, pick, kept
  <2> QED BY <2>1, <2>2
<1> HIDE DEF m
<1>3. DOMAIN res = (m.overlapping \intersect DOMAIN l)
                     \union {ConflictCopy(p, tag) : p \in m.overlapping \intersect DOMAIN r}
  BY DEF ResolveOverlaps, Into
<1> QED BY <1>1, <1>2, <1>3

\* A version only one side has survives its merge, and so does every path both
\* sides have, when no path of theirs has the name of a copy made now.
LEMMA MergeKeeps ==
  ASSUME NEW S, NEW b, NEW l, NEW r, NEW tag \in S, DOMAIN l \subseteq Seq(S), DOMAIN r \subseteq Seq(S),
         Absent \notin Versions(l) \union Versions(r),
         \A p \in DOMAIN r : ConflictCopy(p, tag) \notin DOMAIN l \union DOMAIN r
  PROVE  LET t == MergedTree(b, l, r, tag)
         IN  /\ Versions(l) \ (Versions(b) \union Versions(r)) \subseteq Versions(t)
             /\ Versions(r) \ (Versions(b) \union Versions(l)) \subseteq Versions(t)
             /\ DOMAIN l \intersect DOMAIN r \subseteq DOMAIN t
<1> DEFINE m == TryMerge(b, l, r)
           over == m.overlapping
           paths == DOMAIN b \union DOMAIN l \union DOMAIN r
           pick(p) == IF At(b, p) = At(l, p) THEN At(r, p) ELSE At(l, p)
           kept == {p \in paths \ over : pick(p) # Absent}
           keep == [p \in over \intersect DOMAIN l |-> l[p]]
           named == {ConflictCopy(p, tag) : p \in over \intersect DOMAIN r}
           copies == [q \in named |-> r[SubSeq(q, 1, Len(q) - 1)]]
           res == ResolveOverlaps(over, l, r, tag)
           t == MergedTree(b, l, r, tag)
<1>1. m.merged = [p \in kept |-> pick(p)] BY DEF TryMerge
<1>2. over = {p \in paths : At(l, p) # At(r, p) /\ At(b, p) # At(l, p) /\ At(b, p) # At(r, p)}
  BY DEF TryMerge
<1>3. t = Into(m.merged, res) /\ res = Into(keep, copies)
  BY DEF MergedTree, ResolveOverlaps
<1>4. named \intersect (DOMAIN l \union DOMAIN r) = {} OBVIOUS
<1>5. /\ \A p \in DOMAIN l : At(l, p) = l[p] /\ l[p] # Absent /\ l[p] \in Versions(l)
      /\ \A p \in DOMAIN r : At(r, p) = r[p] /\ r[p] # Absent /\ r[p] \in Versions(r)
      /\ \A p : At(b, p) # Absent => At(b, p) \in Versions(b)
      /\ \A p : At(l, p) # Absent => At(l, p) \in Versions(l)
      /\ \A p : At(r, p) # Absent => At(r, p) \in Versions(r)
  BY DEF At, Versions
<1> HIDE DEF m, over, res
<1>6. ASSUME NEW p \in DOMAIN l \union DOMAIN r, p \notin over, pick(p) # Absent
      PROVE  p \in DOMAIN t /\ t[p] = pick(p)
  <2>1. p \in kept BY <1>6
  <2>2. p \notin DOMAIN keep /\ p \notin DOMAIN copies BY <1>4, <1>6
  <2> HIDE DEF keep, copies, kept, pick, t
  <2>3. p \notin DOMAIN res BY <1>3, <2>2 DEF Into
  <2>4. p \in DOMAIN m.merged /\ m.merged[p] = pick(p) BY <1>1, <2>1
  <2> QED BY <1>3, <2>3, <2>4 DEF Into
<1>7. ASSUME NEW p \in over \intersect DOMAIN l PROVE p \in DOMAIN t /\ t[p] = l[p]
  <2>1. p \in DOMAIN keep /\ keep[p] = l[p] /\ p \notin DOMAIN copies BY <1>4
  <2> HIDE DEF keep, copies, t
  <2>2. p \in DOMAIN res /\ res[p] = l[p] BY <1>3, <2>1 DEF Into
  <2> QED BY <1>3, <2>2 DEF Into
<1>8. ASSUME NEW p \in over \intersect DOMAIN r
      PROVE  ConflictCopy(p, tag) \in DOMAIN t /\ t[ConflictCopy(p, tag)] = r[p]
  <2> DEFINE q == ConflictCopy(p, tag)
  <2>1. q \in DOMAIN copies OBVIOUS
  <2>2. SubSeq(q, 1, Len(q) - 1) = p BY CopySource
  <2>3. copies[q] = r[p] BY <2>1, <2>2
  <2> HIDE DEF keep, copies, t, q
  <2>4. q \in DOMAIN res /\ res[q] = r[p] BY <1>3, <2>1, <2>3 DEF Into
  <2>5. q \in DOMAIN t /\ t[q] = r[p] BY <1>3, <2>4 DEF Into
  <2> QED BY <2>5 DEF q
<1>9. ASSUME NEW p \in DOMAIN l, l[p] \notin Versions(b) \union Versions(r) PROVE l[p] \in Versions(t)
  <2>1. At(b, p) # At(l, p) /\ At(l, p) # At(r, p) BY <1>5, <1>9
  <2>2. CASE p \in over
    <3>1. p \in DOMAIN t /\ t[p] = l[p] BY <1>7, <2>2
    <3> QED BY <3>1 DEF Versions
  <2>3. CASE p \notin over
    <3>1. p \in DOMAIN t /\ t[p] = l[p] BY <1>5, <1>6, <2>1, <2>3
    <3> QED BY <3>1 DEF Versions
  <2> QED BY <2>2, <2>3
<1>10. ASSUME NEW p \in DOMAIN r, r[p] \notin Versions(b) \union Versions(l) PROVE r[p] \in Versions(t)
  <2>1. At(b, p) # At(r, p) /\ At(l, p) # At(r, p) BY <1>5, <1>10
  <2>2. CASE p \in over
    <3>1. ConflictCopy(p, tag) \in DOMAIN t /\ t[ConflictCopy(p, tag)] = r[p] BY <1>8, <2>2
    <3> QED BY <3>1 DEF Versions
  <2>3. CASE p \notin over
    <3>1. At(b, p) = At(l, p) BY <1>2, <2>1, <2>3
    <3>2. p \in DOMAIN t /\ t[p] = r[p] BY <1>5, <1>6, <2>3, <3>1
    <3> QED BY <3>2 DEF Versions
  <2> QED BY <2>2, <2>3
<1>11. ASSUME NEW p \in DOMAIN l \intersect DOMAIN r PROVE p \in DOMAIN t
  <2>1. CASE p \in over BY <1>7, <2>1
  <2>2. CASE p \notin over BY <1>5, <1>6, <2>2
  <2> QED BY <2>1, <2>2
<1> HIDE DEF t
<1>12. /\ Versions(l) \ (Versions(b) \union Versions(r)) \subseteq Versions(t)
       /\ Versions(r) \ (Versions(b) \union Versions(l)) \subseteq Versions(t)
  <2>1. \A v \in Versions(l) : \E p \in DOMAIN l : v = l[p] BY DEF Versions
  <2>2. \A v \in Versions(r) : \E p \in DOMAIN r : v = r[p] BY DEF Versions
  <2> QED BY <1>9, <1>10, <2>1, <2>2
<1> QED BY <1>11, <1>12 DEF t

-----------------------------------------------------------------------------
(* Merges take what is new                                                 *)

\* A tree of a ledger of n commits: versions they wrote, under the names of
\* files and of copies they made.
NamedBy(t, n) ==
  /\ Versions(t) \subseteq 1 .. n
  /\ \A p \in DOMAIN t : Len(p) >= 1 /\ (Len(p) > 1 => p[Len(p)] \in 1 .. n)

NInv ==
  /\ \A c \in 1 .. Len(ledger) : NamedBy(ledger[c].files, Len(ledger))
  /\ \A repo \in Repos : NamedBy(wt[repo], Len(ledger))

LEMMA NamedUp ==
  ASSUME NEW t, NEW n \in Nat, NEW m \in Nat, n <= m, NamedBy(t, n)
  PROVE  NamedBy(t, m)
<1>1. 1 .. n \subseteq 1 .. m OBVIOUS
<1> QED BY <1>1 DEF NamedBy

LEMMA CheckoutNamed ==
  ASSUME NEW repo, NEW files, NEW haveTrees, NEW haveBlobs, NEW n,
         NEW out \in Checkouts(repo, files, haveTrees, haveBlobs), NamedBy(wt[repo], n), NamedBy(files, n)
  PROVE  NamedBy(out.wt, n)
<1> DEFINE some == SUBSET {p \in DOMAIN files : files[p] \in haveBlobs}
           half(S) == [p \in S \union DOMAIN wt[repo] |-> IF p \in S THEN files[p] ELSE wt[repo][p]]
<1>1. \/ out = [wt |-> wt[repo], ok |-> FALSE]
      \/ out = [wt |-> files, ok |-> TRUE]
      \/ \E S \in some : out = [wt |-> half(S), ok |-> FALSE]
  BY Zenon DEF Checkouts
<1>2. out.wt = wt[repo] \/ out.wt = files \/ \E S \in some : out.wt = half(S)
  <2> HIDE DEF half, some
  <2> QED BY <1>1
<1>3. ASSUME NEW S \in some PROVE NamedBy(half(S), n)
  <2>1. /\ \A p \in S : p \in DOMAIN files /\ half(S)[p] = files[p]
        /\ \A p \in DOMAIN half(S) \ S : p \in DOMAIN wt[repo] /\ half(S)[p] = wt[repo][p]
        /\ S \subseteq DOMAIN half(S)
    OBVIOUS
  <2> DEFINE h == half(S)
  <2> HIDE DEF half, some
  <2>2. \A p \in DOMAIN h : \/ p \in DOMAIN files /\ h[p] = files[p]
                            \/ p \in DOMAIN wt[repo] /\ h[p] = wt[repo][p]
    BY <2>1
  <2> HIDE DEF h
  <2>3. NamedBy(h, n)
    <3>1. Versions(files) \subseteq 1 .. n /\ Versions(wt[repo]) \subseteq 1 .. n BY DEF NamedBy
    <3>2. \A p \in DOMAIN h : h[p] \in Versions(files) \union Versions(wt[repo]) BY <2>2 DEF Versions
    <3>3. Versions(h) \subseteq 1 .. n BY <3>1, <3>2 DEF Versions
    <3> QED BY <2>2, <3>3 DEF NamedBy
  <2> QED BY <2>3 DEF h
<1> HIDE DEF half, some
<1> QED BY <1>2, <1>3

\* The trees a merge reads, or takes for empty.
LEMMA FlattenedNamed ==
  ASSUME Recorded, NInv, NEW repo \in Repos, NEW c
  PROVE  /\ NamedBy(Flattened(repo, c), Len(ledger))
         /\ HasTree(repo, c) => Flattened(repo, c) = Tree(c)
         /\ Versions(Flattened(repo, c)) \subseteq Versions(Tree(c))
<1>1. CASE HasTree(repo, c)
  <2>1. c \in 1 .. Len(ledger) BY <1>1 DEF HasTree, Recorded
  <2>2. Flattened(repo, c) = ledger[c].files BY <1>1 DEF Flattened, Tree
  <2> QED BY <2>1, <2>2 DEF NInv, Tree
<1>2. CASE ~HasTree(repo, c)
  <2>1. Flattened(repo, c) = << >> /\ DOMAIN << >> = {} BY <1>2 DEF Flattened
  <2>2. Versions(<< >>) = {} BY DEF Versions
  <2> QED BY <1>2, <2>1, <2>2 DEF NamedBy
<1> QED BY <1>1, <1>2

\* What MergeTakesNews says of a merge m of x and y in repo, its tree being t.
Takes(repo, x, y, t) ==
  /\ HasTree(repo, x) => Versions(Tree(x)) \ (Shared(ledger, x, y) \union Versions(Tree(y))) \subseteq Versions(t)
  /\ HasTree(repo, y) => Versions(Tree(y)) \ (Shared(ledger, x, y) \union Versions(Tree(x))) \subseteq Versions(t)
  /\ HasTree(repo, x) /\ HasTree(repo, y) => DOMAIN Tree(x) \intersect DOMAIN Tree(y) \subseteq DOMAIN t

LEMMA MergeTakes ==
  ASSUME Recorded, NInv, NEW repo \in Repos, NEW x \in 1 .. Len(ledger), NEW y \in 1 .. Len(ledger),
         NEW base \in ledger[x].anc \intersect ledger[y].anc
  PROVE  /\ Takes(repo, x, y, MergeOf(repo, base, x, y).files)
         /\ NamedBy(MergeOf(repo, base, x, y).files, Len(ledger) + 1)
<1> DEFINE c == Len(ledger) + 1
           S == Files \union Nat
           l == Flattened(repo, x)
           r == Flattened(repo, y)
           b == Flattened(repo, base)
           t == MergedTree(b, l, r, c)
<1>1. Len(ledger) \in Nat BY DEF Recorded, IsGraph
<1>2. MergeOf(repo, base, x, y).files = t BY DEF MergeOf, NewCommit
<1>3. /\ NamedBy(l, Len(ledger)) /\ NamedBy(r, Len(ledger))
  BY FlattenedNamed
<1>4. /\ Versions(l) \subseteq Versions(Tree(x)) /\ Versions(r) \subseteq Versions(Tree(y))
      /\ Versions(b) \subseteq Versions(Tree(base))
      /\ HasTree(repo, x) => l = Tree(x)
      /\ HasTree(repo, y) => r = Tree(y)
  BY FlattenedNamed
<1>5. Versions(Tree(base)) \subseteq Shared(ledger, x, y) BY DEF Shared, Tree
<1>6. DOMAIN l \subseteq Seq(S) /\ DOMAIN r \subseteq Seq(S) /\ c \in S
  <2>1. DOMAIN l \subseteq Paths /\ DOMAIN r \subseteq Paths BY RecordedTree
  <2> QED BY <1>1, <2>1 DEF Paths
<1> HIDE DEF l, r, b, S
<1>7. \A p \in DOMAIN l \union DOMAIN r : Len(p) >= 1 /\ (Len(p) > 1 => p[Len(p)] \in 1 .. Len(ledger))
  BY <1>3 DEF NamedBy
<1>8. ASSUME NEW p \in DOMAIN l \union DOMAIN r
      PROVE  /\ Len(ConflictCopy(p, c)) = Len(p) + 1 /\ Len(p) \in Nat
             /\ ConflictCopy(p, c)[Len(p) + 1] = c
  BY <1>6, AppendProperties, LenProperties DEF ConflictCopy
<1>9. ASSUME NEW p \in DOMAIN r PROVE ConflictCopy(p, c) \notin DOMAIN l \union DOMAIN r
  <2>1. Len(ConflictCopy(p, c)) > 1 /\ ConflictCopy(p, c)[Len(ConflictCopy(p, c))] = c
    BY <1>7, <1>8
  <2>2. c \notin 1 .. Len(ledger) BY <1>1
  <2> QED BY <1>7, <2>1, <2>2
<1>10. Absent \notin Versions(l) \union Versions(r)
  <2>1. Versions(l) \subseteq 1 .. Len(ledger) /\ Versions(r) \subseteq 1 .. Len(ledger) BY <1>3 DEF NamedBy
  <2> QED BY <1>1, <2>1 DEF Absent
<1> HIDE DEF c
<1>11. /\ Versions(l) \ (Versions(b) \union Versions(r)) \subseteq Versions(t)
       /\ Versions(r) \ (Versions(b) \union Versions(l)) \subseteq Versions(t)
       /\ DOMAIN l \intersect DOMAIN r \subseteq DOMAIN t
  BY <1>6, <1>9, <1>10, MergeKeeps
<1>12. Versions(t) \subseteq Versions(l) \union Versions(r) BY <1>6, MergedFrom
<1>13. DOMAIN t \subseteq DOMAIN l \union DOMAIN r \union {ConflictCopy(p, c) : p \in DOMAIN r}
  BY MergedPaths
<1> HIDE DEF t
<1>14. Takes(repo, x, y, t) BY <1>4, <1>5, <1>11 DEF Takes
<1>15. 1 .. Len(ledger) \subseteq 1 .. c /\ c \in 1 .. c BY <1>1 DEF c
<1>16. Versions(t) \subseteq 1 .. c BY <1>3, <1>12, <1>15 DEF NamedBy
<1>17. ASSUME NEW p \in DOMAIN t PROVE Len(p) >= 1 /\ (Len(p) > 1 => p[Len(p)] \in 1 .. c)
  <2>1. CASE p \in DOMAIN l \union DOMAIN r BY <1>7, <1>15, <2>1
  <2>2. CASE \E q \in DOMAIN r : p = ConflictCopy(q, c)
    <3>1. PICK q \in DOMAIN r : p = ConflictCopy(q, c) BY <2>2
    <3> QED BY <1>8, <1>15, <3>1
  <2> QED BY <1>13, <2>1, <2>2
<1>18. NamedBy(t, c) BY <1>16, <1>17 DEF NamedBy
<1> QED BY <1>2, <1>14, <1>18 DEF c

\* A step that keeps the ledger, or adds one commit, and writes one worktree.
LEMMA NamedStays ==
  ASSUME Recorded, Adds, Len(ledger') \in Nat, NInv, NEW repo \in Repos,
         \A c \in 1 .. Len(ledger') : c > Len(ledger) => NamedBy(ledger'[c].files, Len(ledger')),
         NamedBy(wt'[repo], Len(ledger')), \A x \in Repos \ {repo} : wt'[x] = wt[x]
  PROVE  NInv'
<1>1. Len(ledger) \in Nat /\ Len(ledger) <= Len(ledger') /\ \A c \in 1 .. Len(ledger) : ledger'[c] = ledger[c]
  BY DEF Recorded, IsGraph, Adds, LedgerGrows
<1>2. \A c \in 1 .. Len(ledger) : NamedBy(ledger'[c].files, Len(ledger')) BY <1>1, NamedUp DEF NInv
<1>3. \A c \in 1 .. Len(ledger') : NamedBy(ledger'[c].files, Len(ledger'))
  <2>1. \A c \in 1 .. Len(ledger') : c \in 1 .. Len(ledger) \/ c > Len(ledger) BY <1>1
  <2> QED BY <1>2, <2>1
<1>4. \A x \in Repos : NamedBy(wt'[x], Len(ledger'))
  <2>1. \A x \in Repos : NamedBy(wt[x], Len(ledger')) BY <1>1, NamedUp DEF NInv
  <2> QED BY <2>1
<1> QED BY <1>3, <1>4 DEF NInv

LEMMA CommitNamed ==
  ASSUME SInv, SyncAssumption, NInv, NEW repo \in Repos, Commit(repo)
  PROVE  /\ NInv'
         /\ \A m \in DOMAIN ledger' \ DOMAIN ledger : Len(ledger'[m].parents) # 2
<1>1. /\ Recorded /\ Shape /\ Len(ledger) \in Nat /\ IsGraph(ledger) /\ DOMAIN wt = Repos
  BY DEF SInv, IInv, Recorded, IsGraph
<1> DEFINE parents == IF ref[repo] = Nil THEN <<>> ELSE <<ref[repo]>>
           c == Len(ledger) + 1
<1>2. Recorded' /\ Adds /\ Len(ledger') \in Nat BY CommitRecords
<1>3. PICK files : /\ Versions(files) \subseteq Versions(wt[repo]) \union {c}
                   /\ DOMAIN files \subseteq DOMAIN wt[repo] \union {<<f>> : f \in Files}
                   /\ wt' = [wt EXCEPT ![repo] = files]
                   /\ ledger' = Append(ledger, NewCommit(parents, files))
  BY CommitRecords
<1> DEFINE e == NewCommit(parents, files)
<1>4. e.parents = parents /\ e.files = files BY DEF NewCommit
<1>5. Len(parents) # 2 OBVIOUS
<1> HIDE DEF e, parents
<1>6. /\ Len(ledger') = c /\ ledger'[c] = e /\ DOMAIN ledger' = 1 .. c /\ DOMAIN ledger = 1 .. Len(ledger)
  <2>1. Len(ledger') = c /\ ledger'[c] = e BY <1>1, <1>3, Appended DEF e
  <2>2. DOMAIN ledger' = 1 .. Len(ledger') /\ DOMAIN ledger = 1 .. Len(ledger)
    BY <1>1, <1>2, LenProperties DEF Recorded, IsGraph
  <2> QED BY <2>1, <2>2
<1>7. NamedBy(files, c)
  <2>1. NamedBy(wt[repo], c) BY <1>1, NamedUp DEF NInv
  <2>2. Versions(files) \subseteq 1 .. c BY <1>1, <1>3, <2>1 DEF NamedBy
  <2>3. ASSUME NEW p \in DOMAIN files PROVE Len(p) >= 1 /\ (Len(p) > 1 => p[Len(p)] \in 1 .. c)
    <3>1. CASE p \in DOMAIN wt[repo] BY <2>1, <3>1 DEF NamedBy
    <3>2. CASE \E f \in Files : p = <<f>>
      <4>1. Len(p) = 1 BY <3>2
      <4> QED BY <4>1
    <3> QED BY <1>3, <3>1, <3>2
  <2> QED BY <2>2, <2>3 DEF NamedBy
<1>8. \A k \in 1 .. Len(ledger') : k > Len(ledger) => k = c BY <1>1, <1>6
<1>9. wt'[repo] = files /\ \A x \in Repos \ {repo} : wt'[x] = wt[x] BY <1>1, <1>3
<1>10. NInv' BY <1>1, <1>2, <1>4, <1>6, <1>7, <1>8, <1>9, NamedStays
<1>11. \A m \in DOMAIN ledger' \ DOMAIN ledger : m = c BY <1>1, <1>6
<1> QED BY <1>4, <1>5, <1>6, <1>10, <1>11

\* What MergeTakesNews says of a step.
TakesNews ==
  \A repo \in Repos : \A m \in held'[repo] \ DOMAIN ledger : Len(ledger'[m].parents) = 2 =>
    Takes(repo, ledger'[m].parents[1], ledger'[m].parents[2], ledger'[m].files)

LEMMA IntegratedNamed ==
  ASSUME SInv, SyncAssumption, NInv, NEW repo \in Repos, NEW local, Folds(repo, local)
  PROVE  NInv' /\ TakesNews
<1>1. /\ Recorded /\ Shape /\ RefsHeld /\ Len(ledger) \in Nat /\ IsGraph(ledger) /\ DOMAIN wt = Repos
      /\ DOMAIN ledger = 1 .. Len(ledger)
  BY LenProperties DEF SInv, IInv, Recorded, IsGraph
<1>12. PICK remote \in held[repo] : \E i \in Integrations(repo, local, remote) :
        \E out \in AfterCheckout(repo, i) : Apply(repo, i, out)
  BY DEF Folds
<1>13. PICK i \in Integrations(repo, local, remote) : \E out \in AfterCheckout(repo, i) : Apply(repo, i, out)
  BY <1>12
<1>2. PICK out \in AfterCheckout(repo, i) : Apply(repo, i, out)
  BY <1>13
<1>3. local \in 1 .. Len(ledger) \union {Nil} /\ remote \in 1 .. Len(ledger) BY <1>1 DEF Folds, Recorded
<1>4. /\ Recorded' /\ Adds /\ Len(ledger') \in Nat
      /\ \A base : i.made = <<MergeOf(repo, base, local, remote)>> =>
           ledger' = Append(ledger, MergeOf(repo, base, local, remote))
  BY <1>1, <1>2, <1>3, ApplyRecords
<1>5. /\ ledger' = ledger \o i.made /\ wt' = [wt EXCEPT ![repo] = out.wt]
      /\ held' = [held EXCEPT ![repo] = held[repo] \union {Len(ledger) + k : k \in DOMAIN i.made}]
  BY <1>2 DEF Apply
<1>6. wt'[repo] = out.wt /\ \A x \in Repos \ {repo} : wt'[x] = wt[x] BY <1>1, <1>5
<1>7. ASSUME i.ref \in 1 .. Len(ledger'), \A c \in 1 .. Len(ledger') : NamedBy(ledger'[c].files, Len(ledger'))
      PROVE  NamedBy(out.wt, Len(ledger'))
  <2>0. NamedBy(wt[repo], Len(ledger')) BY <1>1, <1>4, NamedUp DEF NInv, Adds, LedgerGrows
  <2>1. CASE i.moved
    <3>1. out \in Checkouts(repo, ledger'[i.ref].files,
                 trees[repo] \union {i.made[k].files : k \in DOMAIN i.made}, blobs[repo])
      BY <1>2, <1>5, <2>1 DEF AfterCheckout
    <3> QED BY <1>7, <2>0, <3>1, CheckoutNamed
  <2>2. CASE ~i.moved
    <3>1. out = [wt |-> wt[repo], ok |-> TRUE] BY <1>2, <2>2 DEF AfterCheckout
    <3>2. out.wt = wt[repo] BY <3>1
    <3> QED BY <2>0, <3>2
  <2> QED BY <2>1, <2>2
<1>8. ASSUME i.made = <<>>, i.moved = FALSE \/ i.ref = remote PROVE NInv' /\ TakesNews
  <2>1. ledger' = ledger /\ \A x \in Repos : held'[x] = held[x]
    <3>1. ledger' = ledger /\ DOMAIN i.made = {} BY <1>1, <1>5, <1>8, LedgerAppend
    <3>2. {Len(ledger) + k : k \in DOMAIN i.made} = {} BY <3>1
    <3>3. held' = [held EXCEPT ![repo] = held[repo] \union {}] BY <1>5, <3>2
    <3>4. held[repo] \union {} = held[repo] /\ DOMAIN held = Repos BY <1>1 DEF Shape
    <3> QED BY <3>1, <3>3, <3>4
  <2>2. \A c \in 1 .. Len(ledger') : NamedBy(ledger'[c].files, Len(ledger')) BY <2>1 DEF NInv
  <2>3. NamedBy(wt'[repo], Len(ledger'))
    <3>1. CASE i.moved = FALSE
      <4>1. out = [wt |-> wt[repo], ok |-> TRUE] BY <1>2, <3>1 DEF AfterCheckout
      <4>2. out.wt = wt[repo] BY <4>1
      <4> QED BY <1>6, <2>1, <4>2 DEF NInv
    <3>2. CASE i.ref = remote BY <1>3, <1>6, <1>7, <2>1, <2>2, <3>2
    <3> QED BY <1>8, <3>1, <3>2
  <2>4. NInv' BY <1>1, <1>4, <1>6, <2>2, <2>3, NamedStays
  <2>5. \A x \in Repos : held'[x] \subseteq DOMAIN ledger BY <1>1, <2>1 DEF Recorded
  <2> QED BY <2>4, <2>5 DEF TakesNews
<1>9. CASE Stays(repo, i) BY <1>8, <1>9 DEF Stays
<1>10. CASE Follows(repo, local, remote, i) BY <1>8, <1>10 DEF Follows
<1>11. CASE Merges(repo, local, remote, i)
  <2>1. PICK base \in Find(ledger, held[repo], local, remote) : i.made = <<MergeOf(repo, base, local, remote)>>
    BY <1>11 DEF Merges
  <2>2. local \in 1 .. Len(ledger) /\ i.ref = Len(ledger) + 1 /\ i.moved
    BY <1>3, <1>11 DEF Merges
  <2>3. base \in ledger[local].anc \intersect ledger[remote].anc BY <1>1, <1>3, <2>2, BasesCommon
  <2> DEFINE e == MergeOf(repo, base, local, remote)
             c == Len(ledger) + 1
  <2>4. e.parents = <<local, remote>> BY DEF MergeOf, NewCommit
  <2>5. ledger' = Append(ledger, e) BY <1>4, <2>1
  <2>6. Takes(repo, local, remote, e.files) /\ NamedBy(e.files, c)
    BY <1>1, <1>3, <2>2, <2>3, MergeTakes
  <2> HIDE DEF e
  <2>7. Len(ledger') = c /\ ledger'[c] = e /\ \A k \in 1 .. Len(ledger) : ledger'[k] = ledger[k]
    BY <1>1, <2>5, Appended
  <2>8. \A k \in 1 .. Len(ledger') : k \in 1 .. Len(ledger) \/ k = c BY <1>1, <2>7
  <2>9. \A k \in 1 .. Len(ledger') : NamedBy(ledger'[k].files, Len(ledger'))
    <3>1. Len(ledger) <= c /\ c \in Nat BY <1>1
    <3>2. \A k \in 1 .. Len(ledger) : NamedBy(ledger[k].files, c) BY <1>1, <3>1, NamedUp DEF NInv
    <3> HIDE DEF c
    <3> QED BY <2>6, <2>7, <2>8, <3>2
  <2>10. NamedBy(wt'[repo], Len(ledger')) BY <1>1, <1>6, <1>7, <2>2, <2>7, <2>9
  <2>11. NInv' BY <1>1, <1>4, <1>6, <2>9, <2>10, NamedStays
  <2>12. ASSUME NEW x \in Repos, NEW m \in held'[x] \ DOMAIN ledger PROVE x = repo /\ m = c
    <3>1. DOMAIN i.made = {1} BY <2>1
    <3>2. held' = [held EXCEPT ![repo] = held[repo] \union {c}] BY <1>5, <3>1
    <3>3. held[x] \subseteq DOMAIN ledger BY <1>1 DEF Recorded
    <3> HIDE DEF c
    <3> QED BY <1>1, <2>12, <3>2, <3>3 DEF Shape
  <2>13. TakesNews
    <3>1. ledger'[c].parents[1] = local /\ ledger'[c].parents[2] = remote BY <2>4, <2>7
    <3> HIDE DEF c
    <3> QED BY <2>6, <2>7, <2>12, <3>1 DEF TakesNews
  <2> QED BY <2>11, <2>13
<1> QED BY <1>9, <1>10, <1>11, Integrated, <1>2

\* No other step makes a commit.
LEMMA HeldKnown ==
  ASSUME SInv', ledger' = ledger
  PROVE  TakesNews
<1>1. DOMAIN ledger' = 1 .. Len(ledger') BY LenProperties DEF SInv, Recorded, IsGraph
<1>2. \A repo \in Repos : held'[repo] \subseteq 1 .. Len(ledger') BY DEF SInv, Recorded
<1> QED BY <1>1, <1>2 DEF TakesNews

\* The steps that move a branch, a worktree or the ledger.
LEMMA OnlyIntegrates ==
  ASSUME NEW l \in Links, LinkStep(l), ~DialerIntegrate(l), ~ResponderIntegrate(l)
  PROVE  UNCHANGED <<ledger, ref, wt>>
<1>1. Dial(l) \/ HangUp(l) \/ Drop(l) => UNCHANGED <<ledger, ref, wt>>
  BY DEF Dial, HangUp, Drop, repoVars
<1>2. DialerStep(l) => UNCHANGED <<ledger, ref, wt>>
  BY DEF DialerStep, DialerHello, FetchCommits, RecvHave, FetchObjects, DialerData, Push,
     DialerServe, PushOk, Ping, Pong, repoVars
<1>3. ResponderStep(l) => UNCHANGED <<ledger, ref, wt>>
  BY DEF ResponderStep, Accept, ServeWant, ServeWantObjects, ServePushHave, ServePushTip, ServeDone,
     ServePing, EnsureObjects, ResponderData, repoVars
<1> QED BY <1>1, <1>2, <1>3 DEF LinkStep

LEMMA StepNamed ==
  ASSUME SInv, SyncAssumption, NInv, [Next]_vars
  PROVE  NInv' /\ TakesNews
<1>0. SInv' BY StepOrdered
<1>1. CASE UNCHANGED <<ledger, ref, wt>>
  <2>1. NInv' BY <1>1 DEF NInv
  <2> QED BY <1>0, <1>1, <2>1, HeldKnown
<1>2. ASSUME NEW repo \in Repos, Commit(repo) PROVE NInv' /\ TakesNews
  <2>1. NInv' /\ \A m \in DOMAIN ledger' \ DOMAIN ledger : Len(ledger'[m].parents) # 2
    BY <1>2, CommitNamed
  <2>2. DOMAIN ledger' = 1 .. Len(ledger') /\ \A x \in Repos : held'[x] \subseteq 1 .. Len(ledger')
    BY <1>0, LenProperties DEF SInv, Recorded, IsGraph
  <2> QED BY <2>1, <2>2 DEF TakesNews
<1>3. ASSUME NEW l \in Links, LinkStep(l) PROVE NInv' /\ TakesNews
  <2>1. Dialer(l) \in Repos /\ Responder(l) \in Repos BY LinkEnds
  <2>2. CASE DialerIntegrate(l) BY <2>1, <2>2, IntegratesFold, IntegratedNamed
  <2>3. CASE ResponderIntegrate(l) BY <2>1, <2>3, IntegratesFold, IntegratedNamed
  <2> QED BY <1>1, <1>3, <2>2, <2>3, OnlyIntegrates
<1>4. CASE UNCHANGED vars BY <1>1, <1>4 DEF vars, repoVars
<1> QED BY <1>2, <1>3, <1>4 DEF Next, LinkStep

LEMMA InitNamed == SyncAssumption /\ Init => NInv
<1> SUFFICES ASSUME SyncAssumption, Init PROVE NInv
  OBVIOUS
<1> DEFINE files == [p \in {<<f>> : f \in Files} |-> 1]
           first == [parents |-> <<>>, files |-> files, anc |-> {1}]
<1>1. PICK cloned \in BOOLEAN :
        /\ ledger = IF cloned THEN <<first>> ELSE <<>>
        /\ wt = [repo \in Repos |-> IF cloned THEN files ELSE <<>>]
  BY Zenon DEF Init
<1>2. first.files = files OBVIOUS
<1>3. NamedBy(files, 1)
  <2>1. Versions(files) \subseteq {1} BY DEF Versions
  <2>2. \A f \in Files : Len(<<f>>) = 1 OBVIOUS
  <2>3. \A p \in DOMAIN files : \E f \in Files : p = <<f>> OBVIOUS
  <2> HIDE DEF files
  <2>4. \A p \in DOMAIN files : Len(p) = 1 BY <2>2, <2>3
  <2> QED BY <2>1, <2>4 DEF NamedBy
<1>4. NamedBy(<<>>, 0)
  <2>1. DOMAIN <<>> = {} OBVIOUS
  <2> QED BY <2>1 DEF NamedBy, Versions
<1> HIDE DEF first, files
<1>5. Len(<<>>) = 0 /\ Len(<<first>>) = 1 /\ <<first>>[1] = first OBVIOUS
<1>6. CASE cloned
  <2>1. Len(ledger) = 1 /\ \A c \in 1 .. Len(ledger) : ledger[c] = first BY <1>1, <1>5, <1>6
  <2> QED BY <1>1, <1>2, <1>3, <1>6, <2>1 DEF NInv
<1>7. CASE ~cloned
  <2>1. Len(ledger) = 0 BY <1>1, <1>5, <1>7
  <2>2. \A c \in 1 .. Len(ledger) : FALSE BY <2>1
  <2> QED BY <1>1, <1>4, <1>7, <2>1, <2>2 DEF NInv
<1> QED BY <1>6, <1>7

\* Whatever was dropped, fetched in part, or committed meanwhile, a merge made by
\* sync takes every version that is new on a side whose tree is held, and with
\* both trees every path both sides have: the base is an ancestor of both tips,
\* what both sides changed keeps the local version in place and the remote one
\* beside it, under a name no commit has used
\* (MergeTakesNews; sync.go:767-868, 951-1004, 1249-1262).
THEOREM MergesTakeNews == Spec => MergeTakesNews
<1>1. (SInv /\ NInv) /\ [Next]_vars => (SInv /\ NInv)'
  BY StepOrdered, StepNamed, SyncAssumption
<1>2. Init => SInv /\ NInv
  BY InitOrdered, InitNamed, SyncAssumption
<1>3. (SInv /\ NInv) /\ [Next]_vars => [TakesNews]_vars
  BY StepNamed, SyncAssumption
<1>4. TakesNews => \A repo \in Repos : \A m \in held'[repo] \ DOMAIN ledger : Len(ledger'[m].parents) = 2 =>
       LET x == ledger'[m].parents[1]
           y == ledger'[m].parents[2]
           new(c, other) == Versions(Tree(c)) \ (Shared(ledger, x, y) \union Versions(Tree(other)))
           kept == ledger'[m].files
       IN  /\ HasTree(repo, x) => new(x, y) \subseteq Versions(kept)
           /\ HasTree(repo, y) => new(y, x) \subseteq Versions(kept)
           /\ HasTree(repo, x) /\ HasTree(repo, y) =>
                DOMAIN Tree(x) \intersect DOMAIN Tree(y) \subseteq DOMAIN kept
  BY DEF TakesNews, Takes
<1> QED BY <1>1, <1>2, <1>3, <1>4, PTL DEF Spec, MergeTakesNews
=============================================================================
