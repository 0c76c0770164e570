------------------------------- MODULE Rebase -------------------------------
(***************************************************************************)
(* lrm rebase and lrm cherry-pick (internal/gitcompat rebase.go, pick.go): *)
(* the commits of a branch are replayed one by one on a scratch branch     *)
(* that starts at the upstream; a conflict stops it for the user, and      *)
(* REBASE_STATE says where to go on.                                       *)
(***************************************************************************)
EXTENDS Commands

\* isAncestorOf
IsAncestor(a, c) == a \in Ancestors(c)

FirstParent(c) == IF commits[c].parents = <<>> THEN Unborn ELSE commits[c].parents[1]

\* From tip along first parents, oldest first, to what stop reaches.
FirstParents(tip, stop) ==
  LET back[c \in 0 .. Len(commits)] ==
        IF c = Unborn \/ c \in Ancestors(stop) THEN <<>>
        ELSE Append(back[FirstParent(c)], c)
  IN  back[tip]

\* rebaseChain refuses a merge commit on the way.
RebaseChain(tip, up) == FirstParents(tip, up)
Linear(chain) == \A i \in DOMAIN chain : Len(commits[chain[i]].parents) <= 1

\* applyPick's three-way merge of target, against its first parent, with tip.
PickTree(target, tip) ==
  LET b == TreeOf(FirstParent(target)) o == TreeOf(tip) t == TreeOf(target)
  IN  [f \in Files |-> IF o[f] = b[f] THEN t[f] ELSE o[f]]

Conflicts(target, tip) ==
  LET b == TreeOf(FirstParent(target)) o == TreeOf(tip) t == TreeOf(target)
  IN  {f \in Files : o[f] # t[f] /\ o[f] # b[f] /\ t[f] # b[f]}

\* applyPick once there is no conflict: the commit, then its checkout.
PickWrites(target) ==
  CommitWrites(Len(commits) + 1) \o CheckoutWrites(PickTree(target, HeadCommit))
Picked(target, of) ==
  <<NewCommit(PickTree(target, HeadCommit), "map", Onto(HeadCommit), of)>>

CherryPick(target) ==
  /\ Clean /\ HeadCommit \notin {Unborn, target}
  /\ Conflicts(target, HeadCommit) = {}
  /\ Runs(PickWrites(target), "idle", NoState, Picked(target, 0))

-----------------------------------------------------------------------------

SaveRebase(st) == SaveState("rebase", st)
Popped(st) == [st EXCEPT !.done = Append(@, Head(st.pending)), !.pending = Tail(@)]

RebaseStart(up) ==
  LET tip   == HeadCommit
      chain == RebaseChain(tip, up)
      st    == [branch |-> HeadBranch, orig |-> tip, up |-> up, pending |-> chain, done |-> <<>>]
  IN  /\ state["rebase"] = NoState
      /\ Clean /\ tip # Unborn /\ ~IsAncestor(up, tip)
      /\ Linear(chain) /\ chain # <<>>
      /\ GetRef(RebaseBranch) = Unborn
      /\ Runs(<<Ref(RebaseBranch, up), Log(RebaseBranch, Unborn, up), SaveRebase(st),
                SetHead(RebaseBranch)>> \o CheckoutWrites(TreeOf(up)), "replay", st, <<>>)

\* rebaseReplay: the next pending commit, with its message, onto HEAD. What
\* stops it, a conflict or a branch that is not born, is saved.
Replay ==
  LET target == Head(mem.pending)
  IN  /\ next = "replay" /\ todo = <<>> /\ mem.pending # <<>>
      /\ IF HeadCommit = Unborn \/ Conflicts(target, HeadCommit) # {}
         THEN Steps("replay", <<SaveRebase(mem)>>, "idle", mem, <<>>)
         ELSE Steps("replay", PickWrites(target) \o <<SaveRebase(Popped(mem))>>,
                    "replay", Popped(mem), Picked(target, target))

\* Mutant of the resumed replay: the resolved commit stays pending.
ContinueAgain ==
  LET st     == state["rebase"]
      target == Head(st.pending)
      tip    == GetRef(RebaseBranch)
      new    == Len(commits) + 1
  IN  /\ Loads(st) /\ st.pending # <<>>
      /\ HeadBranch \in {RebaseBranch, st.branch}
      /\ IF tip # Unborn /\ HasTree(tip, Scanned(work))
         THEN Runs(<<SetHead(RebaseBranch), SaveRebase(Popped(st))>>, "replay", Popped(st), <<>>)
         ELSE Runs(<<SetHead(RebaseBranch), Ref(RebaseBranch, new), Log(RebaseBranch, tip, new),
                     Save(Scanned(work)), SaveRebase(st)>>, "replay", st,
                   <<NewCommit(Scanned(work), "scan", Onto(tip), target)>>)

\* RebaseContinue: the files as they are resolve the commit it stopped at; if
\* they are the scratch tip's tree the commit is dropped.
RebaseContinue ==
  LET st     == state["rebase"]
      target == Head(st.pending)
      tip    == GetRef(RebaseBranch)
      new    == Len(commits) + 1
  IN  /\ Loads(st) /\ st.pending # <<>>
      /\ HeadBranch \in {RebaseBranch, st.branch}
      /\ IF tip # Unborn /\ HasTree(tip, Scanned(work))
         THEN Runs(<<SetHead(RebaseBranch), SaveRebase(Popped(st))>>, "replay", Popped(st), <<>>)
         ELSE Runs(<<SetHead(RebaseBranch), Ref(RebaseBranch, new), Log(RebaseBranch, tip, new),
                     Save(Scanned(work)), SaveRebase(Popped(st))>>, "replay", Popped(st),
                   <<NewCommit(Scanned(work), "scan", Onto(tip), target)>>)

\* rebaseFinish: the branch takes HEAD's tip.
RebaseFinish ==
  LET tip == HeadCommit
  IN  /\ next = "replay" /\ todo = <<>> /\ mem.pending = <<>>
      /\ Steps("replay", <<Ref(mem.branch, tip), Log(mem.branch, mem.orig, tip),
                           SetHead(mem.branch), RemoveRef(RebaseBranch), SaveRebase(NoState)>>
                         \o (IF tip = Unborn THEN <<>> ELSE CheckoutWrites(TreeOf(tip))),
               "idle", mem, <<>>)

\* Mutant: abort puts HEAD back but not the files.
AbortHeadOnly ==
  LET st == state["rebase"]
  IN  /\ Loads(st)
      /\ Runs(<<SetHead(st.branch), RemoveRef(RebaseBranch), SaveRebase(NoState),
                Log(st.branch, st.orig, st.orig)>>, "idle", NoState, <<>>)

RebaseAbort ==
  LET st == state["rebase"]
  IN  /\ Loads(st)
      /\ Runs(<<SetHead(st.branch), RemoveRef(RebaseBranch), SaveRebase(NoState)>>
              \o CheckoutWrites(TreeOf(st.orig)) \o <<Log(st.branch, st.orig, st.orig)>>,
              "idle", NoState, <<>>)
=============================================================================
