------------------------------ MODULE Worktree ------------------------------
(***************************************************************************)
(* Who touches the working tree of a repository: the user's editor, the    *)
(* daemon's watcher (scanAndCommit), and one lrm command at a time. The    *)
(* index, HEAD and the refs are plain files and there is no lock: a        *)
(* command and the watcher interleave between any two writes.              *)
(***************************************************************************)
EXTENDS Repo

LOCAL M == INSTANCE Merge

CONSTANTS Contents,     \* contents an edit can leave
          MaxCommits,   \* bound: commits made
          MaxActs       \* bound: edits and commands of the user

VARIABLES proc,         \* each process: what it does next and what it has read
          todo,         \* the writes it has still to make
          acts,         \* what the user has done so far
          \* Records of the past, which no guard reads:
          behind,       \* the processes another one has written under since they
                        \* began: what they have read may be old by now
          crossed       \* one of them has then made a write of its own

past == <<behind, crossed>>
vars == <<work, index, commits, refs, head, reflog, proc, todo, acts, past>>

Procs == {"watch", "cli"}
Idle == [at |-> "idle", idx |-> NoTree, tree |-> NoTree]

\* A repository with nothing in it yet, or one with two branches that both
\* changed a file since they parted, the files checked out from Main.
Diverged(b, f, g) ==
  LET t(x, y) == [p \in Files |-> CASE p = f -> x [] p = g -> y [] OTHER -> NoFile]
  IN  /\ commits = << [tree |-> t(1, NoFile), built |-> "scan", parents |-> <<>>],
                      [tree |-> t(2, NoFile), built |-> "scan", parents |-> <<1>>],
                      [tree |-> t(1, 1), built |-> "scan", parents |-> <<1>>] >>
      /\ refs = [x \in Branches |-> IF x = Main THEN 2 ELSE IF x = b THEN 3 ELSE Missing]
      /\ reflog = {<<Main, 1>>, <<Main, 2>>, <<b, 1>>, <<b, 3>>}
      /\ work = t(2, NoFile) /\ index = work

Init ==
  /\ \/ /\ work = NoTree /\ index = NoTree /\ commits = <<>> /\ reflog = {}
        /\ refs = [b \in Branches |-> Missing]
     \/ \E b \in Branches \ {Main}, g \in Files \ Ignored :
          Diverged(b, CHOOSE f \in Files \ Ignored : TRUE, g)
  /\ head = Main
  /\ proc = [p \in Procs |-> Idle]
  /\ todo = [p \in Procs |-> <<>>]
  /\ acts = 0
  /\ behind = {} /\ crossed = FALSE

IsIdle(p) == proc[p].at = "idle"

\* p begins, and reads everything anew.
Begins(p) == behind' = behind \ {p} /\ UNCHANGED crossed

\* p goes on to make the writes ws, and nothing else.
Goes(p, ws) ==
  /\ proc' = [proc EXCEPT ![p].at = IF ws = <<>> THEN "idle" ELSE "write"]
  /\ todo' = [todo EXCEPT ![p] = ws]

\* A write of p; after its last one p is idle, its copies forgotten.
Write(p) ==
  /\ proc[p].at = "write"
  /\ Perform(Head(todo[p]),
             LAMBDA q : /\ todo' = [todo EXCEPT ![p] = q \o Tail(@)]
                        /\ proc' = [proc EXCEPT ![p] =
                             IF q \o Tail(todo[p]) = <<>> THEN Idle ELSE @])
  /\ behind' = behind \union {q \in Procs \ {p} : ~IsIdle(q)}
  /\ crossed' = (crossed \/ p \in behind)
  /\ UNCHANGED acts

-----------------------------------------------------------------------------
(* The user's editor. *)

Edit(f, v) ==
  /\ acts < MaxActs
  /\ v # work[f]
  /\ work' = [work EXCEPT ![f] = v]
  /\ acts' = acts + 1
  /\ UNCHANGED <<index, commits, refs, head, reflog, proc, todo, past>>

-----------------------------------------------------------------------------
(* Scan, compare, commit: the watcher's tick and lrm commit.                *)

\* Both begin by reading index.json: the watcher because a command may have
\* saved it, the command because it opens the repository.
Load(p) ==
  /\ proc' = [proc EXCEPT ![p] = [at |-> "scan", idx |-> index, tree |-> NoTree]]
  /\ Begins(p)
  /\ UNCHANGED <<work, index, commits, refs, head, reflog, todo>>

Tick == IsIdle("watch") /\ Load("watch") /\ UNCHANGED acts

Command == /\ IsIdle("cli") /\ acts < MaxActs
           /\ acts' = acts + 1

CmdCommit == Command /\ Load("cli")

\* A clean scan ends the tick; the command still saves its index on Close.
Scan(p) ==
  /\ proc[p].at = "scan"
  /\ LET t == Scanned(work)
     IN  IF IsClean(proc[p].idx, t)
         THEN Goes(p, IF p = "cli" THEN <<Save(proc[p].idx)>> ELSE <<>>)
         ELSE /\ proc' = [proc EXCEPT ![p].at = IF p = "watch" THEN "check" ELSE "commit",
                                      ![p].tree = t]
              /\ UNCHANGED todo
  /\ UNCHANGED <<work, index, commits, refs, head, reflog, acts, past>>

\* scanAndCommit: what HEAD's tip holds already needs no commit.
Check ==
  /\ proc["watch"].at = "check"
  /\ IF HeadCommit # Unborn /\ HasTree(HeadCommit, proc["watch"].tree)
     THEN Goes("watch", <<Save(proc["watch"].tree)>>)
     ELSE proc' = [proc EXCEPT !["watch"].at = "commit"] /\ UNCHANGED todo
  /\ UNCHANGED <<work, index, commits, refs, head, reflog, acts, past>>

\* Mutant: the index is refreshed from the files, not from the scanned tree.
CommitThenRescan(p) ==
  /\ proc[p].at = "commit" /\ Len(commits) < MaxCommits
  /\ LET tip == HeadCommit
         new == Len(commits) + 1
     IN  /\ commits' = Append(commits, [tree |-> proc[p].tree, built |-> "scan",
                                        parents |-> IF tip = Unborn THEN <<>> ELSE <<tip>>])
         /\ Goes(p, <<Ref(HeadBranch, new), Log(HeadBranch, tip, new), Save(Scanned(work))>>)
  /\ UNCHANGED <<work, index, refs, head, reflog, acts, past>>

\* Mutant: a commit's parent is the tip of the main branch.
CommitOntoMain(p) ==
  /\ proc[p].at = "commit" /\ Len(commits) < MaxCommits
  /\ LET tip == GetRef(Main)
         new == Len(commits) + 1
     IN  /\ commits' = Append(commits, [tree |-> proc[p].tree, built |-> "scan",
                                        parents |-> IF tip = Unborn THEN <<>> ELSE <<tip>>])
         /\ Goes(p, <<Ref(HeadBranch, new), Log(HeadBranch, tip, new), Save(proc[p].tree)>>)
  /\ UNCHANGED <<work, index, refs, head, reflog, acts, past>>

\* Commit: the tip is read, the object put, and only then the ref written, to
\* the branch and with the parent read before; the index is saved last, and
\* once more when the command closes.
Commit(p) ==
  /\ proc[p].at = "commit" /\ Len(commits) < MaxCommits
  /\ LET tip == HeadCommit
         new == Len(commits) + 1
         t == proc[p].tree
     IN  /\ commits' = Append(commits, [tree |-> t, built |-> "scan",
                                        parents |-> IF tip = Unborn THEN <<>> ELSE <<tip>>])
         /\ Goes(p, <<Ref(HeadBranch, new), Log(HeadBranch, tip, new), Save(t)>>
                    \o (IF p = "cli" THEN <<Save(t)>> ELSE <<>>))
  /\ UNCHANGED <<work, index, refs, head, reflog, acts, past>>

-----------------------------------------------------------------------------
(* The other commands. Each reads what it needs and decides; ws are its     *)
(* writes, and made the commits it adds. Close saves the index it holds:    *)
(* the one a checkout left, or else the one it opened the repository with.  *)

Runs(ws, made) ==
  /\ Command
  /\ commits' = commits \o made
  /\ Len(commits') <= MaxCommits
  /\ Goes("cli", IF \E i \in DOMAIN ws : ws[i].op = "index" THEN ws
                 ELSE Append(ws, Save(index)))
  /\ Begins("cli")
  /\ UNCHANGED <<work, index, refs, head, reflog>>

\* lrm status, log, show, diff, add: nothing but the Close.
CmdStatus == Runs(<<>>, <<>>)

\* lrm branch b: moves b if there is one.
CmdBranch(b) == Runs(<<Ref(b, HeadCommit), Log(b, GetRef(b), HeadCommit)>>, <<>>)

\* lrm checkout -b b: the files stay as they are.
CmdCheckoutNew(b) ==
  /\ refs[b] = Missing
  /\ Runs((IF HeadCommit = Unborn THEN <<>>
           ELSE <<Ref(b, HeadCommit), Log(b, Unborn, HeadCommit)>>) \o <<SetHead(b)>>, <<>>)

\* Mutant: HEAD is moved and the files are not written.
CmdCheckoutHeadOnly(b) ==
  /\ b \in ListBranches
  /\ Runs(<<SetHead(b)>>, <<>>)

\* lrm checkout b: HEAD first, then the files, whatever they hold.
CmdCheckout(b) ==
  /\ b \in ListBranches
  /\ Runs(<<SetHead(b)>> \o (IF refs[b] = Unborn THEN <<>>
                          ELSE CheckoutWrites(TreeOf(refs[b]))), <<>>)

\* MergeLocalOpts: adopt, fast-forward, or a merge commit in which a path both
\* sides changed takes one side; theirs says which.
MergeLocalOpts(c, theirs) ==
  LET tip  == HeadCommit
      base == MergeBase(tip, c)
      m    == M!TryMerge(TreeOf(base), TreeOf(tip), TreeOf(c))
      side == TreeOf(IF theirs THEN c ELSE tip)
      tree == [f \in Files |-> IF f \in m.overlapping THEN side[f] ELSE M!At(m.merged, f)]
      Moves(d, t) == <<Ref(HeadBranch, d), Log(HeadBranch, tip, d)>> \o CheckoutWrites(t)
      none == [ws |-> <<>>, made |-> <<>>]
  IN  IF tip = Unborn \/ (base = tip /\ c # tip) THEN [none EXCEPT !.ws = Moves(c, TreeOf(c))]
      ELSE IF base \in {c, Unborn} THEN none
      ELSE [ws |-> Moves(Len(commits) + 1, tree),
            made |-> <<[tree |-> tree, built |-> "map", parents |-> <<tip, c>>]>>]

\* lrm merge [--theirs] c
CmdMerge(c, theirs) ==
  LET r == MergeLocalOpts(c, theirs) IN Runs(r.ws, r.made)

\* RestorePaths: one file from c's tree; what c lacks is removed. The index
\* and the other files are left alone.
RestorePaths(c, f) == <<Put(TreeOf(c), {f})>>

\* lrm restore c f
CmdRestore(c, f) ==
  /\ TreeOf(c)[f] # NoFile \/ work[f] # NoFile
  /\ Runs(RestorePaths(c, f), <<>>)

\* lrm reset --mixed c and --hard c.
CmdReset(c, hard) ==
  Runs(<<Ref(HeadBranch, c), Log(HeadBranch, HeadCommit, c)>>
       \o (IF hard THEN CheckoutWrites(TreeOf(c)) ELSE <<Save(TreeOf(c))>>), <<>>)

-----------------------------------------------------------------------------

Named == {c \in DOMAIN commits : \E b \in Branches : refs[b] = c \/ <<b, c>> \in reflog}

Commands ==
  \/ CmdCommit \/ CmdStatus
  \/ \E b \in Branches : CmdBranch(b) \/ CmdCheckoutNew(b) \/ CmdCheckout(b)
  \/ \E c \in Named :
       \/ \E side \in BOOLEAN : CmdMerge(c, side)
       \/ \E f \in Files : CmdRestore(c, f)
       \/ \E hard \in BOOLEAN : CmdReset(c, hard)

Runs_(p) == Write(p) \/ Scan(p) \/ Commit(p)

Watcher == Tick \/ Check \/ Runs_("watch")

Next ==
  \/ \E f \in Files, v \in Contents \union {NoFile} : Edit(f, v)
  \/ Commands \/ Runs_("cli")
  \/ Watcher

Spec == Init /\ [][Next]_vars

\* The ticker fires for ever and a started command runs on; nobody has to
\* edit or to type a command.
Fairness == WF_vars(Watcher) /\ WF_vars(Runs_("cli"))
FairSpec == Spec /\ Fairness

\* Where TLC stops: behind a crossing write the invariant and the liveness
\* below say nothing any more.
Uncrossed == ~crossed

-----------------------------------------------------------------------------

TypeOK ==
  /\ work \in Trees /\ index \in Trees
  /\ \A i \in DOMAIN commits : /\ commits[i].tree \in Trees
                               /\ \A j \in DOMAIN commits[i].parents :
                                    commits[i].parents[j] \in 1 .. i - 1
  /\ refs \in [Branches -> {Missing} \union 0 .. Len(commits)]
  /\ head \in Branches
  /\ \A e \in reflog : e[1] \in Branches /\ e[2] \in DOMAIN commits
  /\ \A p \in Procs : (proc[p].at = "write") = (todo[p] # <<>>)

\* Between commands, files the index calls unchanged are what the tip of the
\* branch holds: no edit is marked as seen without being in a commit. It is
\* what lets a clean scan end the tick (scanAndCommit, lrm commit).
CleanMeansCommitted ==
  (\A p \in Procs : IsIdle(p)) /\ IsClean(index, Scanned(work)) /\ HeadCommit # Unborn
     => TreeOf(HeadCommit) = Scanned(work)

\* The same of a watcher and a command that interleave as they like: the two
\* can only fall out of step when one of them writes over what the other wrote
\* after it had begun (scanAndCommit, Repo.Close; nothing locks the files).
CleanUnlessCrossed == ~crossed => CleanMeansCommitted

\* However the watcher and a command interleave, a commit or a merge only adds
\* to its branch: the tip it replaces is an ancestor of the new one, unless
\* another process has written since the one that writes the ref began. (Branch
\* and reset write the ref they are given: a commit that has a name, or none
\* when a branch is made from one that is not born.)
CommitsAddUnlessBehind ==
  [][\A b \in Branches :
       refs[b] \notin {Unborn, Missing} /\ refs'[b] \notin Named \union {Unborn, refs[b]}
         => \/ refs[b] \in Ancestors(refs'[b])
            \/ \E p \in behind : todo'[p] # todo[p]]_vars

\* Once the user leaves the files alone, the watcher brings them into the
\* branch, whatever commands ran beside it: from some time on its tip holds what
\* is on disk, unless one has written over what the other wrote.
EditsReachTheTip ==
  <>[](HeadCommit # Unborn /\ ~crossed => TreeOf(HeadCommit) = Scanned(work))
=============================================================================
