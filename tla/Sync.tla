-------------------------------- MODULE Sync --------------------------------
(***************************************************************************)
(* The sync engine (internal/sync): repositories that commit, and sessions *)
(* between them in which the dialer fetches the responder's tip, folds it  *)
(* into its branch and pushes its own tip for the responder to do the same.*)
(*                                                                         *)
(* A session runs over a link <<d, r>>, d the side that dialed.  Its two   *)
(* control directions are FIFO channels; an object transfer is a stream of *)
(* its own, which lands whole unless the session dies under it.            *)
(*                                                                         *)
(* The ledger numbers commits in the order they are made; a file version   *)
(* is the number of the commit that wrote it, so every edit is a version   *)
(* nobody else has.  Trees are flat: one tree object and its blobs.        *)
(***************************************************************************)
EXTENDS Dag, Merge, FiniteSetsExt

CONSTANTS
  Repos,            \* repositories, each with its working tree and object store
  Links,            \* <<d, r>>: d may dial r
  Files,            \* names of the files users edit
  WalkLimit,        \* the 500 of pushToRemote's WalkTipOrder
  MaxRounds,        \* the 12 object rounds of fetchGraph and ensureTipObjects
  EditsDuringSync,  \* may a repository commit while it has a session at work?
  MaxSessions,      \* sessions at work at once
  MaxEdits, MaxDials, MaxDrops  \* bounds: commits by users, sessions, failures

ASSUME SyncAssumption ==
  /\ Links \subseteq {l \in Repos \X Repos : l[1] # l[2]}
  /\ WalkLimit \in Nat \ {0} /\ MaxRounds \in Nat
  /\ EditsDuringSync \in BOOLEAN
  /\ {MaxSessions, MaxEdits, MaxDials, MaxDrops} \subseteq Nat

VARIABLES
  ledger,   \* every commit made
  held,     \* commits in each object store
  trees,    \* tree objects in each object store
  blobs,    \* file versions in each object store
  ref,      \* the tip of the branch HEAD names
  peerRef,  \* the tip of the last conflict branch (HEAD-peer-*)
  wt        \* the working tree

repoVars == <<ledger, held, trees, blobs, ref, peerRef, wt>>

VARIABLES
  dial,     \* the dialer's side of each link
  serve,    \* the responder's side
  toR, toD, \* control messages in flight to the responder and to the dialer
  data      \* the object stream in flight

linkVars == <<dial, serve, toR, toD, data>>

VARIABLES edits, dials, drops   \* how much of each bound is used

vars == <<repoVars, linkVars, edits, dials, drops>>

Dialer(l) == l[1]
Responder(l) == l[2]

NoObjects == [trees |-> {}, blobs |-> {}]
NoStream == [to |-> "none", asked |-> NoObjects, sent |-> NoObjects]
IdleDial == [pc |-> "idle", local |-> Nil, remote |-> Nil, queue |-> {}, fetched |-> {}, round |-> 0]
IdleServe == [pc |-> "idle", tip |-> Nil, local |-> Nil, round |-> 0]

Active(l) == dial[l].pc \notin {"idle", "synced"}
Busy(repo) == \E l \in Links : repo \in {l[1], l[2]} /\ Active(l)

-----------------------------------------------------------------------------
(* Repositories                                                            *)

Tree(c) == ledger[c].files
HasTree(repo, c) == c \in held[repo] /\ Tree(c) \in trees[repo]

\* Every object a checkout of c needs.
HasObjects(repo, c) == HasTree(repo, c) /\ Versions(Tree(c)) \subseteq blobs[repo]

\* merkle.Flatten with its error dropped, as tryMerge calls it.
Flattened(repo, c) == IF HasTree(repo, c) THEN Tree(c) ELSE << >>

\* Checkout: fails without the tree, or at the first file whose blob is
\* missing, the files before it written.
Checkouts(repo, files, haveTrees, haveBlobs) ==
  IF files \notin haveTrees THEN {[wt |-> wt[repo], ok |-> FALSE]}
  ELSE IF Versions(files) \subseteq haveBlobs THEN {[wt |-> files, ok |-> TRUE]}
  ELSE {[wt |-> [p \in S \union DOMAIN wt[repo] |-> IF p \in S THEN files[p] ELSE wt[repo][p]],
         ok |-> FALSE] : S \in SUBSET {p \in DOMAIN files : files[p] \in haveBlobs}}

NewCommit(parents, files) ==
  [parents |-> parents, files |-> files, anc |-> AncestryOf(ledger, Len(ledger) + 1, parents)]

\* A user edits or deletes one file, and the worktree is committed on the
\* branch tip (Repo.Commit, by the watcher or by the command line).
Commit(repo) ==
  /\ edits < MaxEdits
  /\ EditsDuringSync \/ ~Busy(repo)
  /\ \E f \in Files :
       LET c == Len(ledger) + 1
           p == <<f>>
           others == DOMAIN wt[repo] \ {p}
           parents == IF ref[repo] = Nil THEN <<>> ELSE <<ref[repo]>>
       IN  \E paths \in {others, others \union {p}} :
             LET files == [q \in paths |-> IF q = p THEN c ELSE wt[repo][q]]
             IN  /\ files # wt[repo]
                 /\ ref[repo] = Nil \/ ref[repo] \in held[repo]
                 /\ wt' = [wt EXCEPT ![repo] = files]
                 /\ ledger' = Append(ledger, NewCommit(parents, files))
                 /\ held' = [held EXCEPT ![repo] = @ \union {c}]
                 /\ trees' = [trees EXCEPT ![repo] = @ \union {files}]
                 /\ blobs' = [blobs EXCEPT ![repo] = @ \union Versions(files)]
                 /\ ref' = [ref EXCEPT ![repo] = c]
  /\ edits' = edits + 1
  /\ UNCHANGED <<peerRef, linkVars, dials, drops>>

-----------------------------------------------------------------------------
(* integrate: fold remote into the branch whose tip was read as local.     *)

\* What Engine.integrate may do: the branch and conflict-branch tips it
\* leaves, the commit it makes, and whether it checks out the new tip.
Keep(repo) == [ref |-> ref[repo], peerRef |-> peerRef[repo], made |-> <<>>, moved |-> FALSE]
ConflictBranch(repo, remote) ==
  [ref |-> ref[repo], peerRef |-> remote, made |-> <<>>, moved |-> FALSE]
MoveTo(repo, tip, made) == [ref |-> tip, peerRef |-> peerRef[repo], made |-> made, moved |-> TRUE]

MergeOn(repo, base, local, remote) ==
  LET b == Flattened(repo, base)
      l == Flattened(repo, local)
      r == Flattened(repo, remote)
      c == Len(ledger) + 1
      overlapping == TryMerge(b, l, r).overlapping
      unresolvable == \/ ~HasTree(repo, local) \/ ~HasTree(repo, remote)
                      \/ \E p \in overlapping \intersect DOMAIN r : r[p] \notin blobs[repo]
  IN  IF base \notin held[repo] \/ (overlapping # {} /\ unresolvable)
      THEN ConflictBranch(repo, remote)
      ELSE MoveTo(repo, c, <<NewCommit(<<local, remote>>, MergedTree(b, l, r, c))>>)

\* Mutant: the check for an old tip comes after the fast-forward.
IntegrateOntoAnyTip(repo, base, local, remote) ==
  IF base \in {local, remote} THEN MoveTo(repo, remote, <<>>)
  ELSE MergeOn(repo, base, local, remote)

IntegrateOnto(repo, base, local, remote) ==
  IF base = remote THEN Keep(repo)
  ELSE IF base = local THEN MoveTo(repo, remote, <<>>)
  ELSE MergeOn(repo, base, local, remote)

Integrations(repo, local, remote) ==
  LET bases == Find(ledger, held[repo], local, remote)
  IN  IF local = Nil THEN {MoveTo(repo, remote, <<>>)}
      ELSE IF bases = {} THEN {ConflictBranch(repo, remote)}
      ELSE {IntegrateOnto(repo, base, local, remote) : base \in bases}

\* SetRef, then Checkout: the branch has moved by the time the checkout fails.
AfterCheckout(repo, i) ==
  IF i.moved
  THEN Checkouts(repo, (ledger \o i.made)[i.ref].files,
                 trees[repo] \union {i.made[k].files : k \in DOMAIN i.made}, blobs[repo])
  ELSE {[wt |-> wt[repo], ok |-> TRUE]}

Apply(repo, i, out) ==
  /\ ledger' = ledger \o i.made
  /\ held' = [held EXCEPT ![repo] = @ \union {Len(ledger) + k : k \in DOMAIN i.made}]
  /\ trees' = [trees EXCEPT ![repo] = @ \union {i.made[k].files : k \in DOMAIN i.made}]
  /\ ref' = [ref EXCEPT ![repo] = i.ref]
  /\ peerRef' = [peerRef EXCEPT ![repo] = i.peerRef]
  /\ wt' = [wt EXCEPT ![repo] = out.wt]
  /\ UNCHANGED blobs

-----------------------------------------------------------------------------
(* Objects                                                                 *)

\* Mutant: descends into no tree.
MissingTreesOnly(repo, cs) ==
  [trees |-> {Tree(c) : c \in cs \intersect held[repo]} \ trees[repo], blobs |-> {}]

\* missingObjects: what the trees of the held commits among cs lack.  A tree
\* that is missing itself hides the blobs under it until a later round.
Missing(repo, cs) ==
  LET known == cs \intersect held[repo]
  IN  [trees |-> {Tree(c) : c \in known} \ trees[repo],
       blobs |-> (UNION {Versions(Tree(c)) : c \in {k \in known : Tree(k) \in trees[repo]}})
                   \ blobs[repo]]

\* serveObjects: the requested objects this side has, on a stream to `to`.
Stream(repo, to, asked) ==
  [to |-> to, asked |-> asked,
   sent |-> [trees |-> asked.trees \intersect trees[repo],
             blobs |-> asked.blobs \intersect blobs[repo]]]

PartsOf(objs) ==
  {[trees |-> t, blobs |-> b] : t \in SUBSET objs.trees, b \in SUBSET objs.blobs}

\* fetchObjects stores what it reads in the order it asked.  An object the
\* server lacks fails the transfer there, what came before stays stored.
Received(s) == IF s.sent = s.asked THEN {s.sent} ELSE PartsOf(s.sent)

Store(repo, objs) ==
  /\ trees' = [trees EXCEPT ![repo] = @ \union objs.trees]
  /\ blobs' = [blobs EXCEPT ![repo] = @ \union objs.blobs]

-----------------------------------------------------------------------------
(* The session: both ends close together, nothing in flight survives.      *)

Close(l) ==
  /\ dial' = [dial EXCEPT ![l] = IdleDial]
  /\ serve' = [serve EXCEPT ![l] = IdleServe]
  /\ toR' = [toR EXCEPT ![l] = <<>>]
  /\ toD' = [toD EXCEPT ![l] = <<>>]
  /\ data' = [data EXCEPT ![l] = NoStream]

ToResponder(l, msgs) == toR' = [toR EXCEPT ![l] = @ \o msgs]
ToDialer(l, msgs) == toD' = [toD EXCEPT ![l] = @ \o msgs]

Goto(l, pc) == dial' = [dial EXCEPT ![l].pc = pc]

\* SyncWithSession, initiator: open the control stream, send the hello.
Dial(l) ==
  /\ dial[l].pc = "idle" /\ serve[l].pc = "idle"
  /\ dials < MaxDials
  /\ Cardinality({k \in Links : Active(k)}) < MaxSessions
  /\ dials' = dials + 1
  /\ Goto(l, "hello")
  /\ ToResponder(l, <<[type |-> "hello"]>>)
  /\ UNCHANGED <<repoVars, serve, toD, data, edits, drops>>

\* ServeInbound: answer with our own hello (one head: the tip of HEAD's
\* branch) and serve.
Accept(l) ==
  /\ serve[l].pc = "idle" /\ toR[l] # <<>>
  /\ toR' = [toR EXCEPT ![l] = Tail(@)]
  /\ ToDialer(l, <<[type |-> "hello", head |-> ref[Responder(l)]]>>)
  /\ serve' = [serve EXCEPT ![l].pc = "serve"]
  /\ UNCHANGED <<repoVars, dial, data, edits, dials, drops>>

\* Mutant: an empty repository adopts the tip without fetching it.
DialerHelloNoFetch(l) ==
  LET m == Head(toD[l])
      local == ref[Dialer(l)]
      next == IF m.head # Nil THEN (IF local = Nil THEN "integrate" ELSE "fetch")
              ELSE IF local # Nil THEN "push" ELSE "synced"
  IN  /\ dial[l].pc = "hello" /\ toD[l] # <<>>
      /\ dial' = [dial EXCEPT ![l] = [IdleDial EXCEPT !.pc = next, !.local = local,
                                        !.remote = m.head, !.queue = {m.head} \ {Nil}]]
      /\ toD' = [toD EXCEPT ![l] = Tail(@)]
      /\ IF next = "synced" THEN ToResponder(l, <<[type |-> "done"]>>) ELSE UNCHANGED toR
      /\ UNCHANGED <<repoVars, serve, data, edits, dials, drops>>

\* serveResponder up to the fetch: the local tip is read here, and used as it
\* was by integrate and by the push.
DialerHello(l) ==
  LET m == Head(toD[l])
      local == ref[Dialer(l)]
      next == IF m.head # Nil THEN "fetch" ELSE IF local # Nil THEN "push" ELSE "synced"
  IN  /\ dial[l].pc = "hello" /\ toD[l] # <<>>
      /\ dial' = [dial EXCEPT ![l] = [IdleDial EXCEPT !.pc = next, !.local = local,
                                        !.remote = m.head, !.queue = {m.head} \ {Nil}]]
      /\ toD' = [toD EXCEPT ![l] = Tail(@)]
      /\ IF next = "synced" THEN ToResponder(l, <<[type |-> "done"]>>) ELSE UNCHANGED toR
      /\ UNCHANGED <<repoVars, serve, data, edits, dials, drops>>

\* fetchGraph, one level: ask for the queued commits we lack.  One we have is
\* taken to come with its whole ancestry, and with its objects.
FetchCommits(l) ==
  LET want == dial[l].queue \ held[Dialer(l)]
  IN  /\ dial[l].pc = "fetch"
      /\ IF want = {}
         THEN Goto(l, "objects") /\ UNCHANGED toR
         ELSE /\ Goto(l, "have")
              /\ ToResponder(l, <<[type |-> "want", commits |-> want]>>)
      /\ UNCHANGED <<repoVars, serve, toD, data, edits, dials, drops>>

\* Mutant: one level of parents is enough.
NextLevelNone(got, now) == {}

NextLevel(got, now) == (UNION {Parents(ledger, c) : c \in got}) \ now

\* The commits of the level are stored before their parents are asked for.
RecvHave(l) ==
  LET d == Dialer(l)
      got == Head(toD[l]).commits
      now == held[d] \union got
  IN  /\ dial[l].pc = "have" /\ toD[l] # <<>>
      /\ held' = [held EXCEPT ![d] = now]
      /\ dial' = [dial EXCEPT ![l].pc = "fetch",
                    ![l].queue = NextLevel(got, now),
                    ![l].fetched = @ \union got]
      /\ toD' = [toD EXCEPT ![l] = Tail(@)]
      /\ UNCHANGED <<ledger, trees, blobs, ref, peerRef, wt, serve, toR, data, edits, dials, drops>>

\* fetchGraph, one object round for the commits this session fetched; after
\* MaxRounds of them whatever is still missing fails the sync.
FetchObjects(l) ==
  LET missing == Missing(Dialer(l), dial[l].fetched)
  IN  /\ dial[l].pc = "objects"
      /\ \/ /\ missing = NoObjects
            /\ Goto(l, "integrate")
            /\ UNCHANGED <<serve, toR, toD, data>>
         \/ /\ missing # NoObjects /\ dial[l].round < MaxRounds
            /\ dial' = [dial EXCEPT ![l].pc = "data", ![l].round = @ + 1]
            /\ ToResponder(l, <<[type |-> "want-objects", objects |-> missing]>>)
            /\ UNCHANGED <<serve, toD, data>>
         \/ /\ missing # NoObjects /\ dial[l].round = MaxRounds
            /\ Close(l)
      /\ UNCHANGED <<repoVars, edits, dials, drops>>

DialerData(l) ==
  LET s == data[l]
  IN  /\ dial[l].pc = "data" /\ s.to = "dialer"
      /\ \E objs \in Received(s) : Store(Dialer(l), objs)
      /\ IF s.sent = s.asked
         THEN /\ Goto(l, "objects")
              /\ data' = [data EXCEPT ![l] = NoStream]
              /\ UNCHANGED <<serve, toR, toD>>
         ELSE Close(l)
      /\ UNCHANGED <<ledger, held, ref, peerRef, wt, edits, dials, drops>>

\* integrate with the tip read at the hello; an error ends the session.
DialerIntegrate(l) ==
  LET d == Dialer(l)
  IN  /\ dial[l].pc = "integrate"
      /\ \E i \in Integrations(d, dial[l].local, dial[l].remote) :
           \E out \in AfterCheckout(d, i) :
             /\ Apply(d, i, out)
             /\ IF ~out.ok THEN Close(l)
                ELSE /\ Goto(l, IF dial[l].local = Nil THEN "synced" ELSE "push")
                     /\ IF dial[l].local = Nil THEN ToResponder(l, <<[type |-> "done"]>>)
                        ELSE UNCHANGED toR
                     /\ UNCHANGED <<serve, toD, data>>
      /\ UNCHANGED <<edits, dials, drops>>

\* pushToRemote: our tip's history less that of the responder's head, if we
\* have that head.  A hole in our own history fails the session.
Push(l) ==
  LET d == Dialer(l)
      head == dial[l].remote
      mine == Walk(ledger, held[d], dial[l].local, WalkLimit)
      theirs == IF head \in held[d] THEN Walk(ledger, held[d], head, WalkLimit)
                ELSE [ok |-> FALSE, commits |-> {}]
      offer == mine.commits \ (IF theirs.ok THEN theirs.commits ELSE {})
      have == IF offer = {} THEN <<>> ELSE <<[type |-> "push-have", commits |-> offer]>>
  IN  /\ dial[l].pc = "push"
      /\ IF mine.ok
         THEN /\ Goto(l, "pushed")
              /\ ToResponder(l, have \o <<[type |-> "push-tip", head |-> dial[l].local]>>)
              /\ UNCHANGED <<serve, toD, data>>
         ELSE Close(l)
      /\ UNCHANGED <<repoVars, edits, dials, drops>>

\* Until push-ok the dialer serves the objects the responder asks for.
DialerServe(l) ==
  LET m == Head(toD[l])
  IN  /\ dial[l].pc = "pushed" /\ toD[l] # <<>>
      /\ m.type = "want-objects"
      /\ data' = [data EXCEPT ![l] = Stream(Dialer(l), "responder", m.objects)]
      /\ toD' = [toD EXCEPT ![l] = Tail(@)]
      /\ UNCHANGED <<repoVars, dial, serve, toR, edits, dials, drops>>

\* push-ok: done, or the error it carries ends the session.  Only a dialer
\* that fetched first says done.
PushOk(l) ==
  LET m == Head(toD[l])
  IN  /\ dial[l].pc = "pushed" /\ toD[l] # <<>>
      /\ m.type = "push-ok"
      /\ IF m.err THEN Close(l)
         ELSE /\ Goto(l, "synced")
              /\ toD' = [toD EXCEPT ![l] = Tail(@)]
              /\ IF dial[l].remote # Nil THEN ToResponder(l, <<[type |-> "done"]>>)
                 ELSE UNCHANGED toR
              /\ UNCHANGED <<serve, data>>
      /\ UNCHANGED <<repoVars, edits, dials, drops>>

\* keepaliveLoop: ping with our tip ...
Ping(l) ==
  /\ dial[l].pc = "synced"
  /\ Goto(l, "ping")
  /\ ToResponder(l, <<[type |-> "ping", head |-> ref[Dialer(l)]]>>)
  /\ UNCHANGED <<repoVars, serve, toD, data, edits, dials, drops>>

\* Mutant: the pong only proves that the peer is alive.
PongAlive(l) ==
  /\ dial[l].pc = "ping" /\ toD[l] # <<>>
  /\ Goto(l, "synced")
  /\ toD' = [toD EXCEPT ![l] = Tail(@)]
  /\ UNCHANGED <<repoVars, serve, toR, data, edits, dials, drops>>

\* ... and hang up, to dial again, when the answer names a commit we lack.
Pong(l) ==
  LET tip == Head(toD[l]).head
  IN  /\ dial[l].pc = "ping" /\ toD[l] # <<>>
      /\ IF tip \notin held[Dialer(l)] \union {Nil} THEN Close(l)
         ELSE /\ Goto(l, "synced")
              /\ toD' = [toD EXCEPT ![l] = Tail(@)]
              /\ UNCHANGED <<serve, toR, data>>
      /\ UNCHANGED <<repoVars, edits, dials, drops>>

\* A one-shot dialer closes the control stream, a daemon its session.
HangUp(l) ==
  /\ dial[l].pc = "synced"
  /\ Close(l)
  /\ UNCHANGED <<repoVars, edits, dials, drops>>

-----------------------------------------------------------------------------
(* serveInitiatorRequests: one message at a time                           *)

Serving(l, type) == serve[l].pc = "serve" /\ toR[l] # <<>> /\ Head(toR[l]).type = type

Consume(l) == toR' = [toR EXCEPT ![l] = Tail(@)]

ServeWant(l) ==
  /\ Serving(l, "want")
  /\ Consume(l)
  /\ ToDialer(l, <<[type |-> "have", commits |-> Head(toR[l]).commits \intersect held[Responder(l)]]>>)
  /\ UNCHANGED <<repoVars, dial, serve, data, edits, dials, drops>>

ServeWantObjects(l) ==
  /\ Serving(l, "want-objects")
  /\ Consume(l)
  /\ data' = [data EXCEPT ![l] = Stream(Responder(l), "dialer", Head(toR[l]).objects)]
  /\ UNCHANGED <<repoVars, dial, serve, toD, edits, dials, drops>>

ServePushHave(l) ==
  /\ Serving(l, "push-have")
  /\ Consume(l)
  /\ held' = [held EXCEPT ![Responder(l)] = @ \union Head(toR[l]).commits]
  /\ UNCHANGED <<ledger, trees, blobs, ref, peerRef, wt, dial, serve, toD, data, edits, dials, drops>>

ServePushTip(l) ==
  LET tip == Head(toR[l]).head
  IN  /\ Serving(l, "push-tip")
      /\ Consume(l)
      /\ IF tip \in held[Responder(l)]
         THEN /\ serve' = [serve EXCEPT ![l] = [IdleServe EXCEPT !.pc = "objects", !.tip = tip]]
              /\ UNCHANGED toD
         ELSE ToDialer(l, <<[type |-> "push-ok", err |-> TRUE]>>) /\ UNCHANGED serve
      /\ UNCHANGED <<repoVars, dial, data, edits, dials, drops>>

ServeDone(l) ==
  /\ Serving(l, "done")
  /\ Consume(l)
  /\ UNCHANGED <<repoVars, dial, serve, toD, data, edits, dials, drops>>

\* Answer, then drop the session if the dialer's tip is news: our own daemon
\* dials back for it.
ServePing(l) ==
  LET r == Responder(l)
  IN  /\ Serving(l, "ping")
      /\ IF Head(toR[l]).head \in held[r] \union {Nil}
         THEN /\ Consume(l)
              /\ ToDialer(l, <<[type |-> "pong", head |-> ref[r]]>>)
              /\ UNCHANGED <<dial, serve, data>>
         ELSE Close(l)
      /\ UNCHANGED <<repoVars, edits, dials, drops>>

\* Mutant: only the pushed tip is checked.
KnownChainTip(repo, tip) == {tip}

\* collectKnownChain
KnownChain(repo, tip) == Reach(ledger, held[repo], tip) \intersect held[repo]

\* ensureTipObjects: every object of every commit we
\* hold below the pushed tip, not only of the commits just pushed.
EnsureObjects(l) ==
  LET r == Responder(l)
      missing == Missing(r, KnownChain(r, serve[l].tip))
  IN  /\ serve[l].pc = "objects"
      /\ \/ /\ missing = NoObjects
            /\ serve' = [serve EXCEPT ![l].pc = "integrate", ![l].local = ref[r]]
            /\ UNCHANGED toD
         \/ /\ missing # NoObjects /\ serve[l].round < MaxRounds
            /\ serve' = [serve EXCEPT ![l].pc = "data", ![l].round = @ + 1]
            /\ ToDialer(l, <<[type |-> "want-objects", objects |-> missing]>>)
         \/ /\ missing # NoObjects /\ serve[l].round = MaxRounds
            /\ serve' = [serve EXCEPT ![l] = [IdleServe EXCEPT !.pc = "serve"]]
            /\ ToDialer(l, <<[type |-> "push-ok", err |-> TRUE]>>)
      /\ UNCHANGED <<repoVars, dial, toR, data, edits, dials, drops>>

ResponderData(l) ==
  LET s == data[l]
  IN  /\ serve[l].pc = "data" /\ s.to = "responder"
      /\ \E objs \in Received(s) : Store(Responder(l), objs)
      /\ data' = [data EXCEPT ![l] = NoStream]
      /\ IF s.sent = s.asked
         THEN serve' = [serve EXCEPT ![l].pc = "objects"] /\ UNCHANGED toD
         ELSE /\ serve' = [serve EXCEPT ![l] = [IdleServe EXCEPT !.pc = "serve"]]
              /\ ToDialer(l, <<[type |-> "push-ok", err |-> TRUE]>>)
      /\ UNCHANGED <<ledger, held, ref, peerRef, wt, dial, toR, edits, dials, drops>>

\* Mutant: push-ok only when the branch moved.
ResponderIntegrateSilent(l) ==
  LET r == Responder(l)
  IN  /\ serve[l].pc = "integrate"
      /\ \E i \in Integrations(r, serve[l].local, serve[l].tip) :
           /\ \E out \in AfterCheckout(r, i) : Apply(r, i, out)
           /\ IF i.moved THEN ToDialer(l, <<[type |-> "push-ok", err |-> FALSE]>>) ELSE UNCHANGED toD
      /\ serve' = [serve EXCEPT ![l] = [IdleServe EXCEPT !.pc = "serve"]]
      /\ UNCHANGED <<dial, toR, data, edits, dials, drops>>

\* The responder's integrate; its error is dropped and push-ok says all is well.
ResponderIntegrate(l) ==
  LET r == Responder(l)
  IN  /\ serve[l].pc = "integrate"
      /\ \E i \in Integrations(r, serve[l].local, serve[l].tip) :
           \E out \in AfterCheckout(r, i) : Apply(r, i, out)
      /\ serve' = [serve EXCEPT ![l] = [IdleServe EXCEPT !.pc = "serve"]]
      /\ ToDialer(l, <<[type |-> "push-ok", err |-> FALSE]>>)
      /\ UNCHANGED <<dial, toR, data, edits, dials, drops>>

\* The connection is lost or either process dies.  The receiver of an object
\* stream keeps what it had stored of it.
Drop(l) ==
  LET s == data[l]
      receiver == IF s.to = "dialer" THEN Dialer(l) ELSE Responder(l)
  IN  /\ dial[l].pc # "idle" /\ drops < MaxDrops
      /\ drops' = drops + 1
      /\ \E objs \in PartsOf(s.sent) : Store(receiver, objs)
      /\ Close(l)
      /\ UNCHANGED <<ledger, held, ref, peerRef, wt, edits, dials>>

-----------------------------------------------------------------------------

\* Every repository is empty, or all were cloned from one commit that holds
\* every file.
Init ==
  \E cloned \in BOOLEAN :
    LET files == [p \in {<<f>> : f \in Files} |-> 1]
        everywhere(x) == [repo \in Repos |-> x]
    IN  /\ ledger = IF cloned THEN <<[parents |-> <<>>, files |-> files, anc |-> {1}]>> ELSE <<>>
        /\ held = everywhere(IF cloned THEN {1} ELSE {})
        /\ trees = everywhere(IF cloned THEN {files} ELSE {})
        /\ blobs = everywhere(IF cloned THEN {1} ELSE {})
        /\ ref = everywhere(IF cloned THEN 1 ELSE Nil)
        /\ peerRef = everywhere(Nil)
        /\ wt = everywhere(IF cloned THEN files ELSE <<>>)
        /\ dial = [l \in Links |-> IdleDial]
        /\ serve = [l \in Links |-> IdleServe]
        /\ toR = [l \in Links |-> <<>>]
        /\ toD = [l \in Links |-> <<>>]
        /\ data = [l \in Links |-> NoStream]
        /\ edits = 0 /\ dials = 0 /\ drops = 0

DialerStep(l) ==
  \/ DialerHello(l) \/ FetchCommits(l) \/ RecvHave(l) \/ FetchObjects(l) \/ DialerData(l)
  \/ DialerIntegrate(l) \/ Push(l) \/ DialerServe(l) \/ PushOk(l) \/ Ping(l) \/ Pong(l)

ResponderStep(l) ==
  \/ Accept(l) \/ ServeWant(l) \/ ServeWantObjects(l) \/ ServePushHave(l) \/ ServePushTip(l)
  \/ ServeDone(l) \/ ServePing(l) \/ EnsureObjects(l) \/ ResponderData(l) \/ ResponderIntegrate(l)

Next ==
  \/ \E repo \in Repos : Commit(repo)
  \/ \E l \in Links : Dial(l) \/ DialerStep(l) \/ ResponderStep(l) \/ HangUp(l) \/ Drop(l)

\* Each end of a session is a goroutine that runs whenever it can; users need
\* not commit, dialers need not dial or hang up, connections need not fail.
Fairness == \A l \in Links : WF_vars(DialerStep(l)) /\ WF_vars(ResponderStep(l))

Spec == Init /\ [][Next]_vars /\ Fairness

-----------------------------------------------------------------------------
(* Properties                                                              *)

\* The ledger is acyclic, stores and messages speak of commits that exist, tips
\* of commits that are held.
Commits == DOMAIN ledger

Objects == [trees : SUBSET {Tree(c) : c \in Commits}, blobs : SUBSET Commits]

Messages ==
  [type : {"hello", "done"}]
  \union [type : {"hello", "ping", "pong", "push-tip"}, head : Commits \union {Nil}]
  \union [type : {"want", "have", "push-have"}, commits : SUBSET Commits]
  \union [type : {"push-ok"}, err : BOOLEAN]

IsMessage(m) == IF m.type = "want-objects" THEN m.objects \in Objects ELSE m \in Messages

TypeOK ==
  /\ \A c \in Commits : Parents(ledger, c) \subseteq 1..(c-1)
  /\ \A repo \in Repos :
       /\ held[repo] \subseteq Commits /\ blobs[repo] \subseteq Commits
       /\ trees[repo] \subseteq {Tree(c) : c \in Commits}
       /\ {ref[repo], peerRef[repo]} \subseteq held[repo] \union {Nil}
       /\ Versions(wt[repo]) \subseteq Commits
  /\ \A l \in Links :
       /\ dial[l].pc \in {"idle", "hello", "fetch", "have", "objects", "data", "integrate", "push",
                          "pushed", "synced", "ping"}
       /\ serve[l].pc \in {"idle", "serve", "objects", "data", "integrate"}
       /\ \A i \in DOMAIN toR[l] : IsMessage(toR[l][i])
       /\ \A i \in DOMAIN toD[l] : IsMessage(toD[l][i])
       /\ data[l].to \in {"none", "dialer", "responder"}
       /\ data[l].sent \in Objects /\ data[l].asked \in Objects

\* A branch, and the conflict branch, name a commit of their own store: a tip
\* is moved only once its commit has arrived, whatever fails or interleaves
\* (sync.go:427-481, 710-760, 1024-1036).
RefsHeld == \A repo \in Repos : {ref[repo], peerRef[repo]} \subseteq held[repo] \union {Nil}

Complete(repo, tip) ==
  \A c \in ledger[tip].anc : HasObjects(repo, c)

\* A branch tip is always materializable, and so is everything behind it: the
\* whole history is held, with every tree and blob.  Log, checkout, bisect,
\* and the next push depend on it (sync.go:1110-1113, 569-573).
TipsComplete == \A repo \in Repos : ref[repo] # Nil => Complete(repo, ref[repo])

\* A repository that only answers syncs, and dials none, keeps that promise even
\* when sessions die under it: it checks every commit below a pushed tip, held
\* before or not (sync.go:1140-1185).
RespondersComplete ==
  \A repo \in Repos \ {Dialer(l) : l \in Links} : ref[repo] # Nil => Complete(repo, ref[repo])

\* A session at one of its ends, about to fold what it fetched into the branch
\* of repo, whose tip it read as local.
Integrating(repo, local) ==
  \E l \in Links :
    \/ dial[l].pc = "integrate" /\ Dialer(l) = repo /\ dial[l].local = local
    \/ serve[l].pc = "integrate" /\ Responder(l) = repo /\ serve[l].local = local

\* A branch moves to a commit that contains the one it was at, whatever commits,
\* sessions and failures come between a session's steps.  The one exception is a
\* session that read the tip before somebody else moved it: what it read is
\* still contained in what it leaves, so that only the commits made meanwhile
\* can go (sync.go:381, 710-825, 1185-1192).
ForwardUnlessOvertaken ==
  [][\A repo \in Repos : ref[repo] # Nil /\ ref'[repo] # ref[repo] =>
       LET past == ledger'[ref'[repo]].anc
       IN  \/ ref[repo] \in past
           \/ \E local \in past \union {Nil} : local # ref[repo] /\ Integrating(repo, local)]_vars

\* An automatic merge keeps every file version one parent has and the other
\* never saw, and every path both parents have (sync.go:767 "Nothing is
\* discarded").
MergeLosesNothing ==
  \A m \in DOMAIN ledger : Len(ledger[m].parents) = 2 =>
    LET x == ledger[m].parents[1]
        y == ledger[m].parents[2]
    IN  /\ Versions(Tree(x)) \ ledger[y].anc \subseteq Versions(Tree(m))
        /\ Versions(Tree(y)) \ ledger[x].anc \subseteq Versions(Tree(m))
        /\ DOMAIN Tree(x) \intersect DOMAIN Tree(y) \subseteq DOMAIN Tree(m)

\* What two commits share: the file versions in the trees of their common ancestors.
Shared(g, x, y) == UNION {Versions(g[c].files) : c \in g[x].anc \intersect g[y].anc}

\* A merge made in repo takes every file version that is new on a side whose tree
\* repo has, even when the tree of the other side, or of the base, was never
\* fetched and reads as empty; and with both trees every path both sides have.
\* No session, commit or failure in between changes that
\* (sync.go:767-868, 951-1004, 1249-1262).
MergeTakesNews ==
  [][\A repo \in Repos : \A m \in held'[repo] \ DOMAIN ledger : Len(ledger'[m].parents) = 2 =>
       LET x == ledger'[m].parents[1]
           y == ledger'[m].parents[2]
           new(c, other) == Versions(Tree(c)) \ (Shared(ledger, x, y) \union Versions(Tree(other)))
           kept == ledger'[m].files
       IN  /\ HasTree(repo, x) => new(x, y) \subseteq Versions(kept)
           /\ HasTree(repo, y) => new(y, x) \subseteq Versions(kept)
           /\ HasTree(repo, x) /\ HasTree(repo, y) =>
                DOMAIN Tree(x) \intersect DOMAIN Tree(y) \subseteq DOMAIN kept]_vars

\* When a responder confirms a pushed tip, it holds the tip's whole history
\* with its objects (sync.go:1110-1113).
PushOkMeansHeld ==
  \A l \in Links : \A i \in DOMAIN toD[l] :
    toD[l][i].type = "push-ok" /\ ~toD[l][i].err => Complete(Responder(l), dial[l].local)

Finishes(l) == dial[l].pc \in {"push", "pushed", "integrate"} /\ dial'[l].pc = "synced"

\* A sync that ran to its end between related histories leaves both working
\* trees with the same file versions, whatever each side had to merge.
RoundSharesWork ==
  [][\A l \in Links : Finishes(l) =>
       LET x == ref'[Dialer(l)]
           y == ref'[Responder(l)]
       IN  ledger'[x].anc \intersect ledger'[y].anc # {} =>
             Versions(wt'[Dialer(l)]) = Versions(wt'[Responder(l)])]_vars

\* A sync that ran to its end leaves nothing to fetch: the dialer has the
\* responder's tip (docs/AUTOMATION.md:69).
NothingLeftToFetch ==
  [][\A l \in Links : Finishes(l) => ref'[Responder(l)] \in held'[Dialer(l)]]_vars

\* A session never hangs with each side waiting for the other: it becomes
\* idle-but-live or it ends.
SessionSettles ==
  \A l \in Links : Active(l) ~> ~Active(l)

\* A live session does not outlast a difference it could detect: when the
\* responder has a tip its dialer lacks, keepalive ends the session so that
\* a new one fetches it (daemon.go:865-903).
NewsEndsSession ==
  \A l \in Links :
    dial[l].pc = "synced" /\ ref[Responder(l)] \notin held[Dialer(l)] \union {Nil}
      ~> dial[l].pc = "idle" \/ ref[Responder(l)] \in held[Dialer(l)]
=============================================================================
