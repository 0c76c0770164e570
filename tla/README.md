# Verification of lrm

lrm is a peer-to-peer version control system: every device keeps a full repository, a daemon
commits what changes in the working tree, and daemons that find each other synchronise their
histories, merging on their own. This directory models the parts where that can go wrong,
checks the models with TLC and proves some of their properties with TLAPS.

## The system

| component | state | operations | talks to |
|---|---|---|---|
| store (`internal/store`) | `.lrm`: HEAD, refs, tags, config, ref-log, replog | Init, Open, SetRef, Commit, Close | dag, cas, staging |
| commit graph (`internal/dag`), merge bases (`internal/lca`) | commits by hash, parents | Put, Get, Has, WalkTipOrder; Find | cas |
| objects (`internal/cas`, `merkle`, `chunker`) | blobs, trees, chunk manifests by hash | Put, Get; BuildTree, Flatten | files |
| staging (`internal/staging`) | path to last seen hash | Load, Scan, UpdateFromScan, Save | working tree, cas |
| sync engine (`internal/sync`) | one control stream per session, results | SyncWithSession (dialer), ServeInbound (responder), integrate, Checkout, PingRound, MergeLocalOpts | store, mux |
| git-like commands (`internal/gitcompat`) | REBASE_STATE, BISECT_STATE, shelves, notes | rebase, cherry-pick, bisect, stash, reset, amend, gc, fsck | store, sync (Checkout) |
| multiplexer (`internal/mux`) | streams by id, readCh per stream, acceptCh | OpenStream, AcceptStream, Read, Write, Close, Reset; readLoop | transport |
| transport (`internal/transport`, `identity`) | session keys, record counters, key pins | Dial, Accept, HandshakeOver, AcceptOver | TCP |
| daemon (`internal/daemon`) | map of live peers, known and static peers, dials in flight, event watchers, port mappings, control socket | accept, dial, keepalive, watch, control, map, unmap | all of the above |
| reaching peers (`punch`, `relay`, `node`, `upnp`, `natpmp`, `stun`, `mdns`, `portkey`) | punched connections, address book, leases | punch, relay, pair, map, announce | daemon |
| handing files over (`send`, `drop`) | staging files, `inbox/` | send, serve, upload | mux, HTTP |
| panel and updater (`desktop`, `dash`, `update`) | pid file, `.asset.new`, `exe.old` | start and stop a daemon, check, install | daemon, command line |
| LR and LRQ languages, diff, patch | | user scripts and queries | store |

Goroutines run concurrently in one daemon (accept loop, one per session, keepalive, watcher,
dial rounds) and share the store, the working tree and the peers map, mostly without locks.
The command line is another process on the same `.lrm`. Two daemons share nothing but the
frames between them. What is hard: sessions that die between two steps, repositories that
change while a session reads them, both ends of a session integrating each other's tip,
bounded channels between one read loop and many streams, and two daemons that dial each
other at once. `PROJECT.json` lists each hazard at its line with the properties that cover it.

What makes each component correct:

* graph and merge base: a base is a common ancestor whatever is held, and a lowest one, the same for
  everybody but for ties, when both histories are; a walk lists the whole ancestry, or fails, or is exactly at its limit;
* sync: a branch names commits that are held, with their history and objects; a session that moves
  it keeps the tip it read; merges lose no file version; a confirmed push arrived; sessions end or idle;
  news is noticed;
* mux: every stream is FIFO and whole, its end means its end, no stream is made twice, no
  misuse of a closed channel, no jam while readers read;
* daemon: of the sessions two daemons open at once the one of the lower PeerID stands, and two
  daemons always come to share a session again; a watcher that stays is told of events; a
  daemon alone is found at its socket; a port that was opened is kept, and closed at the end;
* working tree: files the index calls clean are committed, commits only add to a branch, as long as
  watcher and commands do not write over each other, and every edit gets into one;
* history commands: no commit a branch ever named is lost, replays keep their order and lose
  none, the culprit of a bisect stays suspect, shelves are not written over;
* services: what lands in `inbox/` is what somebody hashed and takes nobody's name, both ends of a
  punch end up on one connection, only paired devices are served, only verified binaries are
  installed and there always is one.

## Modules

| module | models | uses |
|---|---|---|
| `Dag` | `dag.go`, `lca.go`: operators on a ledger of commits and the set a repository holds | |
| `MCDag` | grows every small graph, for the properties of `Dag` | `Dag` |
| `Merge` | `tryMerge`, `resolveOverlaps`, `conflictCopyPath`: operators on flattened trees | |
| `Sync` | `sync.go`, `checkout.go`, Init and Commit of `store.go`, keepalive of `daemon.go` | `Dag`, `Merge` |
| `Mux` | `mux.go` | |
| `Sessions` | dial rounds, `handleInbound`, `serveDialer`, keepalive of `daemon.go` | |
| `Repo` | the files of one repository: `store.go`, `reflog.go`, `staging.go`, `checkout.go` | |
| `Worktree` | the watcher (`scanAndCommit`), the editor, and the everyday commands of `cli.go`, `localmerge.go`, `restore.go` | `Repo`, `Merge` |
| `Commands` | state files, tags, notes, shelves; commit, amend, reset, branch deletion, gc, fsck | `Repo` |
| `Rebase`, `Bisect`, `Shelves` | `rebase.go` and `pick.go`; `bisect.go`; `stash.go` and the stash part of `gitcompat.go` | `Commands` |
| `History` | a user at work with all of these, and kills | `Rebase`, `Bisect`, `Shelves` |
| `Transfer` | `send.go`, `handleSend`, `drop.go` | |
| `Punch` | `punch.go`, `HandshakeOver` and `AcceptOver` | `Rendezvous` |
| `Rendezvous` | what a punch promises (abstract) | |
| `Trust` | `node.go`, the checks of `relay.go`, the relay and punch handlers | |
| `Daemons` | start, stop, control socket (`daemon.go`), the panel's `service.go` | |
| `Watch` | `subscribeWatch`, `event`, the watch command | |
| `Install` | `update.go`, the panel's update and check | |
| `Mapping` | `tryMapPorts`, renewal, `unmapPorts`, `lrm share`, UPnP and NAT-PMP requests | |
| `Services` | one behaviour per task, of the last seven | all seven |
| `MCSync`, `MCMux`, `MCHistory`, `MCServices` | the instances for TLC | |
| `MuxProofs`, `SessionsProofs` | theorems about the module each is named after | |
| `SyncProofs` | what the branches of `Sync` name, and what becomes of them | `Sync`, `DagProofs` |
| `DagProofs` | lemmas about the commit graph, walks and merge bases, for every graph | `Dag` |
| `GraphProofs` | the properties of `MCDag`, for every graph | `MCDag`, `DagProofs` |
| `ServicesProofs` | the invariants of the parts of `Services`; theorems about `Punch` and `Services` | |
| `WorktreeProofs` | files, index and branch in step, for any repository | |
| `HistoryProofs` | files follow HEAD, a bisect keeps its culprit, nothing a branch named is lost to one kill, renumbering keeps every shelf, and a rebase replays its branch in order, for any history | |

`Sync` takes a session for two FIFO directions and an object stream, which is what `Mux` is checked
for with the sync engine's use of it (the `polite` applications), and `Sessions` takes a sync for a
step of a session. `Worktree` and `History` run on the same `Repo`; `History` is what three groups
of commands do to it in any order. The seven services share no state with one another (the
address book, the inbox, the socket, the binary and the router are separate), so `Services` is
their choice and not their product: every behaviour is about one of them.

**Sync.** A repository is the commits, trees and blobs it holds, its branch tip, the tip of
its last conflict branch and its working tree. Commits are numbers in one ledger: a commit
is immutable and named by its hash, so every repository means the same thing by it. A file
version is the number of the commit that wrote it, so each edit is a version of its own and
properties can ask whether a version was lost. A session is a link with two FIFO directions
of control messages, one object stream, and a program counter on each side; the actions are
the messages' handlers in the order of the code:

    Dial, Accept -> DialerHello -> FetchCommits/RecvHave* -> FetchObjects/DialerData*
      -> DialerIntegrate -> Push -> (EnsureObjects, DialerServe, ResponderData)*
      -> ResponderIntegrate -> PushOk -> Ping/ServePing/Pong* or HangUp

`Integrations` is `Engine.integrate` as a set of outcomes (keep, fast-forward, merge, conflict
branch), one per merge base the search may return; `AfterCheckout` adds the outcomes of the
checkout that follows, which include every partly written tree when a blob is missing. `Drop`
ends a session at any step; the receiver keeps any part of the object stream it was storing.
A session closed by either side takes both down with what was in flight. The 72-byte object
header, batches of fifty, JSON, pacing and result counters are abstracted away.

**Mux.** A handle is one Stream object of one end: an end makes a new object when a frame
names a stream it has forgotten, which is how a stream can come to exist twice. `ReadFrame`
is the lookup of `dispatch`, under its lock; `OfferStream` and `DispatchData/Fin/Rst` are what
follows it, so that closes and opens of the application fall in between. Channels have their
capacities (`ReadCap`, `AcceptCap`, `WireCap`) and `panic` records a send on, or a close of, a
closed channel. A frame's payload is its number. In half of the behaviours the
applications are *polite*: they use streams as the sync engine does and close one only
when they are owed nothing; in the other half they open, write, close and reset as they like.

**Sessions.** A daemon is its PeerID and its `peers` map, which holds one session for the other
daemon or none. A connection is a slot with a goroutine on each side, whose `pc` is where it
stands between its uses of the map: `load` (the lookup and the glare rule), `retire` (it found a
session to replace), `store` (it is about to list its own), `serve` (the sync, then keepalive or
the serve loop), `unlist` (dropPeer found its session listed and is about to delete the entry).
`Dial` is a dial round as far as it concerns the other daemon; `dialMu` is `Dialing`, for its
entry lives as long as the goroutine. A daemon in `statics` was also given the other's address.
From outside come the loss of a connection, a hang-up (for newer history, or after an error of
the sync), and the death and restart of a daemon.

**Repo, Worktree.** A file's content is a version number, a tree a function from all paths to
versions, a commit a record of its tree, its parents and how it was built (a tree built from a
map of paths hashes differently from a scanned one, which is why the watcher sometimes commits
a tree that is there already). A process reads and decides in one step, then makes its writes one
by one (`todo`): a ref, a log line, HEAD, files, the index. The watcher's tick is `Tick`, `Scan`, `Check`,
`Commit` and the writes. Every command saves the index it holds when it closes, as `Repo.Close`
does. Nothing keeps a command and the watcher apart: they interleave between any two writes. `behind` and
`crossed` record which of them has been written under since it began, and whether it then wrote itself.

**History.** A command is a step that reads and decides, a list of writes, and what it goes on with
after them (`next`: the replay of a rebase, the next round of a bisect). `Crash` kills the process before
any write, or inside a write of a file that is truncated and rewritten (state files, HEAD, shelves, refs),
which leaves it torn. `tips` records what every branch named whenever a command began; `TipsSurvive` says
that gc neither took nor would take any of it. `Starts` gives the small histories a behaviour begins with
and the kind of command (`task`) it is about. What the user's tests say is a matter of the files: a commit
is broken when the culprit is among its ancestors, and two commits with the same files fare alike
(`TestsJudgeFiles`); files that are no commit's cannot be judged.

**Transfer.** A send is the two ends and what is between them; a file is a pair of blocks and may be
rewritten by its owner between the hash and the stream. The receiver looks for a name and takes it in two
steps, as the upload page of another process does. When its disk fails, for want of room or of a
directory, `Serve` returns without an answer and `handleInbound` leaves the connection open (`DiskFails`). A `rival` of a file is a transfer that had
also found its name free.

**Punch.** A pair is one port of each end. Each pair has a dialing goroutine and a goroutine at the acceptor;
`Win` is the compare and swap, `Validate` the acceptor's half of the handshake, `Drain` what it does with
connections that queue up once it has chosen. Only the three handshake messages are modelled
(`said`), and who knows what after each.

**Trust, Daemons, Watch, Install, Mapping.** Small machines with several processes on shared files
or tables: the book file and each process's copy; the socket file, the port and the pid file; the slice
of channels and the indices into it; the names and inodes of the binary, its predecessor and the
download; the router's table and what each daemon believes of it. Their records of the past
(`ever`, `met`, `shared`, `known`...) are written by actions and read only by properties and bounds.

## Runs

| run | question | bounds |
|---|---|---|
| `dag` | are merge bases and walks right on partly held graphs? | 5 commits, walk limit 3 |
| `sync_quiet` | does sync work when nothing fails? | 2 repositories dialing each other, 2 files, 2 edits, 2 sessions |
| `sync_drops` | what survives sessions that die, that work at once, and among commits? | one side dials, 3 sessions, 2 of them at once, 2 edits at any moment, 1 failure at any step |
| `mux` | do streams keep their promises in every interleaving? | 2 streams, capacities 1, 3 frames one way and 1 answer, 2 objects per stream |
| `sessions` | which session stands, and do two daemons always find back together? | 3 connections at once, 1 disruption or 1 daemon with a static address |
| `worktree` | how far do watcher and commands keep files, index and branch in step? | 3 files, one ignored, 2 branches, 3 edits or commands at any moment, up to the first crossing write |
| `history` | do rebase, bisect, stash and gc lose anything, even if killed? | 4 starting histories, 3 commands, 1 edit, 1 mishap (a kill inside any write, or a branch switched meanwhile) |
| `services` | do the seven services keep what they promise? | below |
| `sync_resume` (violated) | is a tip always complete, even after a failure? | 1 edit, 2 sessions, 1 failure |
| `mux_fin` (violated) | does FIN always end the reader? | 2 frames, capacity 1 |
| `sessions_glare` (violated) | do cross-dials converge on one connection? | 3 connections, no disruption |
| `worktree_race` (violated) | are commands safe while the daemon runs? | as `worktree`, with 4 edits or commands |

Bounds of `services`: two sends and two uploads for one name of which two take place, with two
mishaps (a rewrite, a lost connection, a failure of the receiver's disk, a restart, a retry); two pairs of ports and two rounds; two
machines and a third device with five requests; two daemons on two ports with four starts or
kills; three watchers, channels of one, two events; two updaters, three releases, two troubles;
two hosts, two external ports, two half hours (a lease's life), one fault, one key.

Five commits give criss-cross merges with two lowest bases, graphs with several roots and walks
that cross a hole. Two edits give a fast-forward, a divergence with and without an overlapping
path, and deletions against edits; two sessions give a retry and the opposite direction. A
capacity of one makes every channel full, empty and in between within three frames. The
`WalkLimit` of 500 and `MaxRounds` of 12 of the sync engine are the code's and no history of the runs reaches
them. In `sync_quiet` one session works at a time (`MaxSessions = 1`), between commits
(`EditsDuringSync = FALSE`); in `sync_drops` two do, which is what it takes for one to overtake the
other, and commits fall into them. `worktree` does not go on behind a crossing write (`Uncrossed`): the step that
makes it is still checked, `CleanUnlessCrossed` and `EditsReachTheTip` promise nothing from there on, and
`CommitsAddUnlessBehind` is proved of all that may follow. Three edits or commands, in any mixture, are what it takes to
make the files differ from the index, to start a command and to let an edit fall into it; the tick comes as often
as it likes. Three connections are one per dialer and one
more that is dialed while a goroutine of an earlier one still winds down; `sessions` also passes
with `MaxDisruptions = 2`, in four minutes. Three commands are a start, a continuation or an abort, and
a gc; the starting histories have a pick that applies before one that conflicts, a merge between
suspects, and two shelves. Three watchers are what it takes for an index to be wrong in
both directions; with two updaters every pair of steps meets, and three were checked by hand.

What does *not* hold beyond those settings, seen with TLC. A configuration's name means that it is
kept beside the others and that TLC finds the violation. Of the sync engine and the daemon:

* with `EditsDuringSync = TRUE` the branch does not always move forward: the dialer integrates with the tip it read
  at the hello (`sync.go:381`), and drops a commit made since from the branch (`ForwardUnlessOvertaken`
  names the case);
* with `MaxDrops = 1` and links both ways, `MergeLosesNothing` fails: a tree that is missing
  after a cut session reads as empty in `tryMerge` (`sync.go:1249-1251`), and what only it held is left out
  of the merge (`MergeTakesNews` says what is not);
* with `MaxSessions = 2` and three repositories `TipsComplete` fails although nothing is cut: while one peer pushes a
  commit whose objects are still to come, the repository fetches the same tip from another peer, takes the commit for one
  that came whole (`sync.go:435`) and moves its branch to it;
* with `WalkLimit = 2`, `PushOkMeansHeld` fails: a push offers no commit beyond the limit and is
  confirmed (`sync.go:1067`);
* with `MaxRounds = 1` a sync of a commit whose tree is new fails at its first round;
* `SyncDiverge.cfg`: after a divergence both ends make a merge commit of their own, so there is
  something left to fetch (`docs/AUTOMATION.md:69` asserts there is not);
* `SessionsEvict.cfg`: a session that was replaced deletes its successor from the map, between the
  two halves of `dropPeer` ("a replaced session must never evict its successor", `daemon.go:343`);
* with the lower daemon in `statics`, `LowStands` fails, and with either one in it `Reconnects`
  does: the entries of `dialMu` for the peer and for its address are two, two sessions of one
  dialer are a tie for `shouldReplace`, each side may keep another one, and when both are dropped
  the same can happen again;
* `WatchLeak.cfg`: who stops watching may stay in the slice, its index being stale
  (`daemon.go:201`), and the goroutine that would tell it waits for ever;
* `SocketShadowed.cfg`: two daemons that start together both find nobody at the socket, and one of them
  removes the other's ("Refuse to shadow a live daemon", `daemon.go:946`); a daemon that stops removes
  whatever socket file is there;
* `MappingKeys.cfg`: a key's port, got by NAT-PMP, is not renewed once the daemon's UPnP works ("run
  `lrm daemon` to keep them renewed", `cli.go:1623`); `MappingOthers.cfg`: a daemon that stops deletes
  by port number, and so another machine's mapping, when the router lost its own in between.

Of the commands:

* past a crossing write a clean index no longer means that the files are committed (`worktree_race`), and one of two
  commits that a command and the watcher make at once is lost from the branch (`CommitsAddUnlessBehind` names the case);
* `lrm branch b` while HEAD's own branch has no commit yet gives `b` an empty ref: its tip is left to the
  ref-log (`cli.go:1166`);
* an edit that is not committed yet is overwritten by any checkout, stash, merge or sync, and
  ignored files are removed by all of these: the model does so, no property claims otherwise;
* `HistoryKills.cfg`: a bisect killed after a candidate is checked out and before
  `Current` is saved takes the next verdict for another commit, and the culprit is cleared;
* `TipsSurvive` needs `MaxMishaps = 1`: after one kill between a ref and its log line the tip is
  named by the ref alone, and a second one may take the ref; it also needs gc to run alone, for the watcher's
  commit is no root before its ref is written.

Of the services:

* two transfers that found one name free overwrite one another's file (`KeptUnlessRaced` excepts
  them), although `docs/PROTOCOL.md:280` gives a collision a name of its own; a sender whose file
  shrank after the hash leaves both ends waiting, and one whose receiver has a full disk waits for an answer
  that does not come (`send.go:153-195`, `daemon.go:647-650`; `SendsEnd` excepts both); a name whose look
  fails for another reason than that it is free is tried under the next number for ever (`send.go:186`); a send that is run again after
  a lost answer arrives twice;
* `PunchLost.cfg`: a punch fails although a dial had won, when the window ends between the
  compare and swap and the report to the loop (`punch.go:225-230`);
* `BookTrust.cfg`: the daemon writes its own copy of the book on every contact, so an unpaired
  device comes back ("learning must not create trust", `node.go:243`) and a new one may be forgotten;
* `UpdateRace.cfg`: an update verifies the stream it reads while another writes to the same
  file, and installs it ("Nothing is installed that was not hash-verified", `update.go`);
  `UpdateCheck.cfg`: the panel's check installs the release it finds, and then says "press Install to
  apply" (`server.go:164-181`);
* `PanelStop.cfg`: `StopDaemon` removes the pid file before it waits, so its wait ends at once and it
  reports a daemon stopped that still holds the port (`service.go:386-389`).

The four violated runs are findings; `PROJECT.json` quotes the line each contradicts.

**Fairness.** In `Sync` each end of a session is a goroutine that runs whenever it can
(`WF` of `DialerStep` and of `ResponderStep`); users need not edit, daemons need not dial or
hang up, and connections need not fail. In `Mux` read loops run, and applications accept and read
(`WF` of `ReadLoop`, `Accept`, `Read`); nobody must write or close. In
`Sessions` the goroutine of each side runs (`WF` of `Step`) and each daemon goes on making dial rounds,
which `peerLoop` does on a ticker whatever else happens (`WF` of `Dial`). In `Worktree` the watcher's ticker
fires for ever (`WF` of `Watcher`) and a command that was started runs on; nobody has to edit
or to type. In `History` a command that was started runs on, and `bisect run` goes on testing; nobody has to
start one, and none has to be killed. In `Services` both ends of a send run on (`WF` of `Sending`).
`CHECK_DEADLOCK` is off because the bounds stop every model and because an idle daemon is a legal
end, except in `worktree`, where the watcher's tick never ends.

**Refinement.** `Rendezvous` says what a punch promises: the dialer commits to one connection, and the
acceptor serves that one or none. `Meets` is its specification with the dialer's and the acceptor's
choice as the mapping; TLC checks it on two pairs and `ServicesProofs` proves it for any number.

## Proofs

`SyncProofs` proves `Spec => []RefsHeld` for any repositories, links and bounds, any number of
sessions at once, with failures and with edits during sessions. `RefsHeld` alone is not
inductive: that the dialer may move its branch to the tip it fetched depends on what the
fetch did. The invariant `IInv` adds the shape of the state and, for each link, `Protocol`: until
the dialer pushes there is at most one message in flight and the responder only answers it; an
answer to a `want` names commits that exist; and the goal (the tip the hello announced) is
in the queue, asked for, on its way, or held. One lemma per action, one conjunct at a time.

It goes on from there, again for any repositories, links, failures and edits.
`Order` is `SInv`: the ledger is a graph (`IsGraph`: parents are older, the recorded ancestry is the
closure of the parents), stores and trees speak of its commits, and after a push the messages come in
order: offer and tip, then rounds of objects, then the confirmation, each end waiting for the other
(`Pushed`, `Settled`, `Streamed`). On it rest four properties:

- `RespondersStayComplete` (`RespondersComplete`) and `PushOkIsTrue` (`PushOkMeansHeld`). `CInv` says
  what a link carries to a repository that dials nobody: the head it names at the hello is whole there
  (all ancestors are held), what the dialer offers makes the pushed tip whole as well - the offer is the
  dialer's walk less the walk of that head, and a walk that does not fail lists everything (`WalkWhole`) - and
  when no object is missing below a whole tip it is complete. No failure breaks this, for what was stored
  stays and the check starts from the tip each time. Both are stated for `Len(ledger) < WalkLimit`: with
  histories beyond the limit of a walk they are false (`sync.go:1067`); the code's limit is 500. `PushOkIsTrue` assumes that no responder is a dialer of another link, as in
  `sync_drops`: one that fetches and is cut may itself have a tip without its history (`sync_resume`).
- `BranchesGoForward` (`ForwardUnlessOvertaken`), with links both ways, sessions at once, commits inside
  them and failures. Only `integrate` moves a branch that has a commit, apart from a commit itself, and what it is
  given are commits of its store (`IntegratesRead`): a fast-forward keeps the tip that was read because every
  base `Find` returns is an ancestor of both tips (`BasesCommon`), a merge because it records both parents (`IntegratedForward`). So
  whatever the step drops was committed after that reading, and if the branch still is where it was read, nothing is.
- `MergesTakeNews` (`MergeTakesNews`), under the same conditions, that is none. What a merge sees of a side whose tree was
  never fetched is an empty tree; so the property speaks of the other side, of whose files none may be left
  out that is new: the base, being an ancestor of both, cannot have it, whether it is read or not (`MergeTakes`). `NInv` is what
  that needs of the data: a version of a file, and the tag of a conflict copy, is a commit there is, so that the name of
  a new copy is free. That a merge loses nothing at all (`MergeLosesNothing`), and that the tip of a
  branch is complete on the dialing side too (`TipsComplete`), needs sessions that take turns and do not fail, which the
  code does not see to: both are only checked, in `sync_quiet`.

The lemmas about `Dag` need no recursion theorem: `Reach` is the walk as the code makes it, a recursive
function that goes on from what is held, and that such a function exists (`ReachedExists`) is shown by
giving it, as an intersection of closed sets. That a walk stays within the ancestry of its tip, and misses none
of it when all it visits is held, is shown by the least counterexample (`LeastCommit`, `ReachStep`).

`GraphProofs` proves the three properties of `MCDag` for graphs of any size. That the ledger is a graph and
the store holds commits of it (`GraphInv`) is inductive; the rest is about the operators. A walk finds every
commit but its tip as a parent of one it loaded (`ReachHangs`), so cutting it at its limit leaves commits that
hang together, and either the limit of them or all (`YoungestCount`, `WalkTrusted`). `Find` compares sums of
distances: `DistancesExist` settles them from the youngest commit down, `DepthIsNat` says they are natural
numbers, so one base at least has the least score; the youngest common ancestor is a candidate, so `Find`
fails on disjoint histories only (`BasesLowest`). With both ancestries held the walks, and so the distances, are those of the whole
graph, whatever else is held (`SameDepths`, `BasesSame`). The walk's limit is positive (`LimitAssumption`): the
code takes 0 for no limit (`dag.go:154`), which is a limit nobody reaches.

`MuxProofs` proves the four safety properties of the multiplexer for all streams, capacities and
bounds. `ReadChIntact`, polite or not: the read loop never sends on a readCh it closed and closes none
twice. The invariant says that a shut object is no longer registered (`ShutForgotten`) and that the
frame in the read loop's hand belongs to an object that is registered or was never shut (`InHand`),
which survives the application's closes because they only forget. `NoGaps`, polite or not: `Pipe`
follows a stream from its writer to its reader - frames read, then those in the readCh (`InOrder`
above what was read), then perhaps one in the read loop's hand, then those on the wire, in order up to
the last one written. Once the object is forgotten the pipe is cut between hand and wire, and what is read
stays a prefix. `NoPhantoms` and `EofMeansAll`, among polite ends: `ObjectInv` says what became of each
object (in `acceptCh` once, never again new); `EndsLast` that behind a FIN - on the wire, in the hand, in
the readCh - nothing comes, because its sender has closed; `Courteous` that an end closes only when it has
read all that was sent and the other is `Mute`, and that an end of stream was read only then.
DATA for a stream an end has closed would be above all that was sent, so it does not come.

`SessionsProofs` proves `Spec => []LowStands` for any two PeerIDs and any number of connections. As
long as nothing outside ends a session and the lower daemon dials by discovery only, the
invariant says that both goroutines of a session of the lower daemon run and neither has closed
it nor is about to (`LowRuns`), that there is one such session at most (`LowAlone`, which is what
`dialMu` is for: two would be a tie), and that whatever a goroutine has set out to retire was
dialed by the higher daemon (`OnlyHighRetired`: the lookup is old by then, but who dialed a session
never changes). That the session is also listed, or is the only one, does not follow:
`sessions_glare` and `sessions_evict` show it is not so.

`ServicesProofs` proves `PunchSpec => []OneLeft` and `PunchSpec => Meets`, for any set of pairs and any
number of rounds. `PunchInv` says what the code's two safeguards amount to. `DialInv`: one goroutine at
most passes the compare and swap, and when the loop has joined all of them none is left that could still
open a connection. `ShakeInv`: handshake messages are only ever said on the connection that was kept;
the third is said by a dialer that has committed itself; and what the acceptor takes as valid has heard it. The
refinement follows step by step: the step that commits the dialer and the one that hands the
winner over are the two steps of `Rendezvous`, all others stutter.

It also proves the eight safety properties and the refinement the `services` run checks, for any machines, devices, watchers, daemons, releases, hosts, ports and transfers. The behaviours of
`Services` are those of one service each, and so are the invariants:

- *Transfer.* `SendInv`: what a handler receives or writes is content the sender hashed, from the offer
  on. `RivalsInv`: whoever still claims the name of a file in the inbox is among the `rivals` it had when it
  came. The search for a free name ends for every finite inbox (`SomeFree`, by the least counterexample).
- *Trust.* `BooksPaired`: every copy of a book, in the file, in a daemon's memory, in a command's, on its
  way to the file, names only devices paired there at some time.
- *Watch.* `ListedOnce`: a watcher's place in the slice is nowhere else, and one who leaves shifts the others.
- *Daemons.* `MetAll` and `BindsFree`: a daemon that met no other runs alone, and what it finds at the
  socket between its probe and its bind is its own or nobody's.
- *Install.* `OneDownload`: the file under the download's name, unless two runs shared it, is what its
  one writer put there. `Whole`: the binary and its predecessor are releases and nobody writes to them
  still, whatever they are called by then. `WindowsInv`: only a swap under way explains a missing name.
- *Mapping.* `TableInv`: a port the router forwards here with our knowledge is one the daemon remembers.
  `LeaseInv`: the lease is renewed before it runs out.

`WorktreeProofs` proves `CleanUnlessCrossed` and `CommitsAddUnlessBehind` for any files, branches, edits
and number of commands, and for every interleaving of the watcher and a command: nothing in the code keeps them apart, and
`worktree_race` shows what comes of a write over the other's. Neither property is inductive, because a
process that has decided makes its writes one by one, among edits and the other's writes. `WorkInv` says what the
rest of them will lead to: the last write saves the index, every index saved on the way is the same one, and it is the
tree of the commit HEAD's branch will then name, through whichever writes of HEAD and of a ref are still to come
(`PlannedIn`); a ref is written first of all, with a commit that has a name already, or none, or a child of
the tip it replaces (`AddsIn`), unless the process has been written under since. A write keeps this for the writes behind
it, and the last one makes it true of the repository (`OneWritePlanned`); each command is one lemma that its plan is
such a plan. All of that is void (`Tangled`) once one process has written over the other, or is bound to: when
both have still to write, or one has that was written under (`MustWrite`: a command always writes its index, the watcher
once it has seen a change). A step never leads out of that (`StaysTangled`), and when both are idle nobody is bound to
anything: what is left then is `crossed` itself. The proof refuted an earlier form of the second property, beyond the
commands the runs type: `lrm branch b` with HEAD on a branch that is not born empties `b` (`cli.go:1166`),
which the property now names.

`HistoryProofs` proves three properties of rebases and bisects that are not interrupted (`mishaps = 0`), one of the
renumbering of shelves that is not, and one of every command with at most one mishap, for any files, branches,
starting histories, commands and edits. A command here is a list of writes with edits in between, and goes on with a next part (`next`, `mem`) that has writes of its own. The writes still to
come are taken as a set (`Writes`), and `HeadTo`, `RefsTo`, `IndexTo`, `StateTo` and `WorkTo` name the values
that HEAD, the branches, the index, the state files and the working tree will have after them: each
thing is written once by a command, or by several writes that agree. An invariant that speaks of the final values
is kept by every write, because a write changes none of them (`WriteSteady`, `WriteHonest`); what is left is one
lemma per command, that its plan leads to a good end.

- `HeadFollowed` (`FilesFollowHead`). `Settled` says what a good end is: the index is the tree of HEAD's tip; the
  state of a rebase, and what a replay carries in memory, speak of a branch that has not moved since
  (`Rebased`), with HEAD on the scratch branch; a bisect remembers a branch to go back to. No assumption.
- `CulpritKept` (`BisectKeepsCulprit`). `Honest` says that the verdicts of the final state file are true, and that
  the files on disk will be those of the candidate it names, unless they were edited (`Told`): then a verdict on the
  files is one on the candidate. It assumes `EditsShow`, that an edit leaves contents which no commit of
  a bisect has, as the instance does. Without it the property is false: in the code too, files edited by hand
  into another commit's are judged as the candidate's, for `bisect run` does not look at them
  before it tests (TLC finds this with `Versions = {1, 2}`).
- `TipsKept` (`TipsSurvive`, while `mishaps <= 1`). `Safe` says where the tips are in the middle of a command: in the
  ref-log, in an entry the command has yet to append, or in a ref that no write to come will move (`TipsHeld`); what a
  write will take from a branch or give to one is in the ref-log or will be (`Settling`), and so is what a rebase that
  stands will take when it finishes, or it is the original tip the rebase remembers (`Replaceable`). Until the first kill
  all is logged, the writes to come apart (`Unhurt`): this is why that kill loses nothing,
  for the entries that die with the command are at most those of refs it moved itself. The second kill is what
  `MaxMishaps = 1` keeps out of the run and `mishaps <= 1` out of the theorem. gc enters by `Unswept`: no ancestor of
  anything that is named (by a ref, a tag, a shelf, the ref-log, a tip, a write to come) was swept. A plan that keeps
  all this is `Fair`, and each command has one (`FairMove`, `FairRemoval`, and one lemma per command). `Ancestors` is a
  recursive function; that it exists, and what it holds, is proved from the order of the hashes: parents are older
  (`LineageExists`).
- `ShelvesStay` (`ShelvesKept`). `Renaming` speaks of the order of the writes to come: a rename onto a file that is there
  has a write before it that takes that file away, no two renames have the same target, and a file with a temporary name
  is renamed again (`Orderly`); so the next rename, which has nothing before it, is onto no file. `Orderly` outlives the
  head of the list (`OrderlyRest`); that the plan of `compactShelves` has it (`OrderlyDrop`) rests on `ByAge` listing every
  numbered shelf (`ByAgeAll`), and its ages and numbers are a total order. A killed renumbering leaves temporary names
  the next one does not look at, and renames onto them: hence `mishaps = 0`.
- `OrderKept` (`RebaseInOrder`). `Tracks` says of a rebase and a scratch tip what the property says of them, and `Going`
  that it holds of the tip and the rebase the command on its way will leave (`TipTo`, `NoteTo`), or of what a replay carries
  in memory. What makes it inductive is `Stuck`: a rebase that stopped did so at a commit which conflicts with one below
  the scratch tip, and still does when the user has committed on top, so that dropping it in `RebaseContinue` leaves out
  none without a conflict. The walks along first parents are recursive functions; that they exist and list commits in
  their order, and that new commits change none, is proved from the order of the hashes (`WalkExists`, `WalkIs`,
  `WalkStays`); a commit on top adds one step (`GrownIs`), with the copy's place behind the others (`GrownSteps`).

Assumptions: those the modules name (`PairsAssumption`, and the like of `Mux`, `Sessions` and `Sync`), which TLC
evaluates in the runs. `WanPortsAssumption` says that ports are positive, for 0 stands for none;
`TransfersAssumption` that a send and an upload are different things; `TornAssumption` that no branch is
called like the mark for a torn HEAD; `VersionsAssumption` that an edit is a version of its file, and
`StartsAssumption` that the branches and shelves of a starting history name commits of it, and that parents are older
than their commits, for a commit's hash covers theirs; `ScratchAssumption` that the two branches of a rebase are not the
user's.

Only model-checked: the liveness properties (fairness and ENABLED are out of the prover's
reach); `TipsComplete` and `MergeLosesNothing` of `Sync`, as said above; and `RoundSharesWork` of `Sync`, for the two
ends of a criss-cross history may merge from different bases.

## Not modelled, and the plan

Left out, each with its reason in `PROJECT.json`: hashing, chunking and tree storage (`cas`,
`chunker`, `merkle`: pure functions, taken to be injective), `diff`, `patch`, `vectorclock`, `lrq` and the LR
interpreter (pure or languages of their own), the replog (read by people only), discovery, STUN and
port key encodings (pure I/O), cryptography, the dashboard, the workspace gate, key pins, and
`publishStatus` (a snapshot for people, under a temporary name that two writers share).

What is left of the plan:

1. The watcher inside a sync (`Worktree` with `Sync`), once a property of the combination holds.
2. The workspace gate and key pins; the concurrency primitives of LR.
