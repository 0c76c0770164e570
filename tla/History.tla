------------------------------- MODULE History -------------------------------
(***************************************************************************)
(* A user at work on the history of one repository: rebases, bisects and   *)
(* shelves, one kind at a time (task), with edits and ordinary commands in *)
(* between, and commands that are killed half way.                         *)
(***************************************************************************)
EXTENDS Rebase, Bisect, Shelves

CONSTANTS Versions,     \* contents an edit can leave
          Starts,       \* the histories to begin with, and the task of each
          MaxEdits,     \* bound: edits of the user
          MaxMishaps    \* bound: killed commands, and branches switched while
                        \* a rebase or a bisect stands

ASSUME VersionsAssumption == Versions \subseteq Nat

\* A start is a repository whose branches and shelves name commits of it, the
\* shelves by number; a commit's hash covers its parents', so they are older.
ASSUME StartsAssumption ==
  \A s \in Starts :
    /\ s.commits \in Seq([tree : Trees, built : STRING, parents : Seq(Nat), of : Nat])
    /\ \A c \in DOMAIN s.commits : \A i \in DOMAIN s.commits[c].parents :
         s.commits[c].parents[i] \in 1 .. c - 1
    /\ IsFiniteSet(DOMAIN s.shelves)
    /\ \A x \in DOMAIN s.shelves :
         x[2] \in Nat /\ x = Num(x[2]) /\ s.shelves[x] \in DOMAIN s.commits
    /\ DOMAIN s.refs \subseteq Branches /\ Main \in DOMAIN s.refs
    /\ \A b \in DOMAIN s.refs : s.refs[b] \in DOMAIN s.commits

VARIABLES task,     \* which commands the user needs
          culprit,  \* bisect: the commit that broke it
          edits, mishaps

vars == <<repoVars, cmdVars, task, culprit, edits, mishaps>>

\* What the tests of a broken commit say.
Broken(c) == culprit \in Ancestors(c)

\* Two commits with the same files fare alike.
TestsJudgeFiles ==
  \A c, d \in DOMAIN commits : TreeOf(c) = TreeOf(d) => (Broken(c) <=> Broken(d))

Init ==
  /\ \E s \in Starts :
       /\ commits = s.commits
       /\ refs = [b \in Branches |-> IF b \in DOMAIN s.refs THEN s.refs[b] ELSE Missing]
       /\ shelves = s.shelves
       /\ task = s.task
       /\ culprit \in IF s.task = "bisect" THEN DOMAIN s.commits ELSE {Unborn}
       /\ TestsJudgeFiles
       /\ reflog = UNION {{b} \X Ancestors(s.refs[b]) : b \in DOMAIN s.refs}
       /\ work = s.commits[s.refs[Main]].tree /\ index = work
  /\ head = Main
  /\ todo = <<>> /\ next = "idle" /\ mem = NoState
  /\ state = [f \in StateFiles |-> NoState]
  /\ tags = [n \in TagNames |-> Unborn] /\ notes = {} /\ swept = {} /\ tips = {}
  /\ commands = 0 /\ edits = 0 /\ mishaps = 0

Meanwhile == UNCHANGED <<task, culprit, edits, mishaps>>

Edit(f, v) ==
  /\ Idle /\ edits < MaxEdits /\ v # work[f]
  /\ work' = [work EXCEPT ![f] = v]
  /\ edits' = edits + 1
  /\ UNCHANGED <<index, commits, refs, head, reflog, cmdVars, task, culprit, mishaps>>

Crash == Die /\ mishaps < MaxMishaps /\ mishaps' = mishaps + 1
             /\ UNCHANGED <<task, culprit, edits>>

Switch(b) ==
  /\ CmdCheckout(b) /\ UNCHANGED <<task, culprit, edits>>
  /\ IF \E f \in StateFiles : state[f] # NoState
     THEN mishaps < MaxMishaps /\ mishaps' = mishaps + 1
     ELSE UNCHANGED mishaps

Tip(b) == refs[b] \notin {Unborn, Missing}

Rebases ==
  /\ task = "rebase"
  /\ \/ /\ Idle
        /\ \/ \E b \in Branches : Tip(b) /\ (RebaseStart(refs[b]) \/ CherryPick(refs[b]))
           \/ RebaseContinue \/ RebaseAbort
     \/ Replay \/ RebaseFinish

\* What the tests say of the files on disk, when they are some commit's, or
\* that these cannot be tested.
Truth == {"skip"} \union {IF Broken(c) THEN "bad" ELSE "good" :
                            c \in {d \in DOMAIN commits : TreeOf(d) = work}}

Bisects ==
  /\ task = "bisect"
  /\ \/ /\ Idle
        /\ \/ \E b \in Branches, goods \in SUBSET {c \in DOMAIN commits : ~Broken(c)} :
                /\ Tip(b) /\ Broken(refs[b]) /\ Cardinality(goods) <= 1
                /\ BisectStart(refs[b], goods)
           \/ BisectRun \/ BisectReset
           \/ /\ Loads(state["bisect"])
              /\ \/ \E v \in Truth : BisectMark(v, state["bisect"].current)
                 \/ \E c \in tips : BisectMark(IF Broken(c) THEN "bad" ELSE "good", c)
     \/ Advance
     \/ \E v \in Truth : RunOnce(v)

\* lrm stash, tag, notes, reset --soft, commit --amend, gc.
CmdStash == StashPush \/ StashClear
              \/ \E x \in DOMAIN shelves : StashPop(x) \/ StashApply(x) \/ StashDrop(x)
CmdTag   == \E n \in TagNames : DeleteTag(n) \/ \E c \in tips : TagCreate(n, c)
CmdNotes == \E c \in tips : Note(c)
CmdReset == \E c \in tips : ResetSoft(c)
CmdAmend == \E reword \in BOOLEAN : Amend(reword)

Stashes ==
  /\ task = "shelves" /\ Idle
  /\ CmdStash \/ CmdTag \/ CmdNotes \/ CmdReset \/ CmdAmend \/ GC

Next ==
  \/ \E f \in Files \ Ignored, v \in Versions : Edit(f, v)
  \/ Write /\ Meanwhile
  \/ Crash
  \/ task # "bisect" /\ CmdCommit /\ Meanwhile
  \/ \E b \in Branches : Switch(b)
  \/ \E b \in Branches, force \in BOOLEAN : task # "bisect" /\ DeleteBranch(b, force) /\ Meanwhile
  \/ Rebases /\ Meanwhile
  \/ Bisects /\ Meanwhile
  \/ Stashes /\ Meanwhile

Spec == Init /\ [][Next]_vars

\* A command that was started runs on (bisect run tests for ever if it has
\* to); nobody has to start one.
Running == (Write \/ (task = "bisect" /\ (Advance \/ \E v \in Truth : RunOnce(v)))
                  \/ (task = "rebase" /\ (Replay \/ RebaseFinish)))
FairSpec == Spec /\ WF_vars(Running /\ Meanwhile)

-----------------------------------------------------------------------------

TypeOK ==
  /\ work \in Trees /\ index \in Trees
  /\ \A i \in DOMAIN commits : \A j \in DOMAIN commits[i].parents :
       commits[i].parents[j] \in 1 .. i - 1
  /\ refs \in [Branches -> {Missing} \union 0 .. Len(commits)]
  /\ head \in Branches \union {Torn}
  /\ next \in {"idle", "replay", "advance", "run"}
  /\ \A x \in DOMAIN shelves : shelves[x] \in -Len(commits) .. Len(commits) \ {0}
  /\ swept \subseteq DOMAIN commits /\ tips \subseteq DOMAIN commits

\* Nothing a branch ever named when a command began is lost: gc has not taken
\* it and would not. It holds although the branch may have been reset,
\* amended, rebased or deleted since, and although one command was killed on
\* the way (the ref is written first, its log line after).
TipsSurvive ==
  Idle => /\ tips \intersect swept = {}
          /\ tips \subseteq Reachable
          /\ FsckMissing = {}

\* The commits of walk that replay another have each a place in done, in the
\* same order.
InStep(walk, done) ==
  LET copies == {i \in DOMAIN walk : commits[walk[i]].of # 0}
  IN  \E at \in [copies -> DOMAIN done] :
        /\ \A i \in copies : done[at[i]] = commits[walk[i]].of
        /\ \A i, j \in copies : i < j => at[i] < at[j]

\* A rebase replays every commit of the branch once and in order: at each
\* stop, done and pending are the branch's own commits; those that are done
\* are on the scratch branch in that order, and one that is not there had a
\* conflict. So it is when the branch takes the scratch tip.
RebaseInOrder ==
  LET st   == IF next = "replay" THEN mem ELSE state["rebase"]
      tip  == refs[RebaseBranch]
      walk == FirstParents(tip, st.up)
  IN  task = "rebase" /\ mishaps = 0 /\ todo = <<>> /\ Loads(st) =>
        /\ st.done \o st.pending = RebaseChain(st.orig, st.up)
        /\ st.up \in Ancestors(tip)
        /\ InStep(walk, st.done)
        /\ \A k \in DOMAIN st.done :
             \/ \E i \in DOMAIN walk : commits[walk[i]].of = st.done[k]
             \/ \E c \in Ancestors(tip) : Conflicts(st.done[k], c) # {}

\* When a rebase or a bisect, finished, aborted or stopped, has given the
\* terminal back, files that show no change are those of HEAD's tip.
FilesFollowHead ==
  task # "shelves" /\ mishaps = 0 /\ Idle /\ Clean /\ HeadCommit # Unborn
    => TreeOf(HeadCommit) = Scanned(work)

\* "the true first-bad commit is always in the set" (suspectSet), when every
\* verdict given was true of the files it was given on.
BisectKeepsCulprit ==
  task = "bisect" /\ mishaps = 0 /\ Idle /\ Loads(state["bisect"])
    => culprit \in Suspects(state["bisect"])

\* The same, with commands that may be killed.
BisectKeepsCulpritThroughKills ==
  Idle /\ Loads(state["bisect"]) => culprit \in Suspects(state["bisect"])

\* bisect run comes to an end, whatever its tests say.
BisectRunEnds == next = "run" ~> Idle

\* A shelf goes only when it is popped, dropped or cleared: renumbering the
\* others writes none over another.
ShelvesKept ==
  [][\A x \in DOMAIN shelves :
       mishaps' = 0 /\ shelves[x] > 0 /\ (todo # <<>> /\ Head(todo).op = "mv")
         => \E y \in DOMAIN shelves' : shelves'[y] = shelves[x]]_vars
=============================================================================
