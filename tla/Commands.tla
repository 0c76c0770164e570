------------------------------ MODULE Commands ------------------------------
(***************************************************************************)
(* The lrm commands that keep state of their own beside the repository's   *)
(* files: tags, notes, shelves, and the state files of a rebase and of a   *)
(* bisect. A command reads and decides, then makes its writes one after    *)
(* the other; it may go on from there (next), and the process may be       *)
(* killed before, or in the middle of, any write. Rebase, Bisect and       *)
(* Shelves give the commands, History runs them.                           *)
(***************************************************************************)
EXTENDS Repo

CONSTANTS RebaseBranch, ScratchBranch, \* rebase-scratch, bisect-scratch
          TagNames,
          MaxCommits,   \* bound: commits
          MaxCommands   \* bound: commands

ASSUME ScratchAssumption ==
  {RebaseBranch, ScratchBranch} \subseteq Branches \ {Main} /\ RebaseBranch # ScratchBranch

VARIABLES todo,     \* the writes the running command has still to make
          next,     \* what it goes on with after them: "idle", "replay", ...
          mem,      \* the state it carries from one to the next
          state,    \* REBASE_STATE and BISECT_STATE: NoState, TornState or theirs
          shelves,  \* refs/shelves: file name -> commit, -c once torn
          tags,     \* refs/tags: tag -> commit or Unborn
          notes,    \* refs/notes: the commits that have one
          swept,    \* the commits gc removed
          tips,     \* every commit a branch named when a command began
          commands

cmdVars == <<todo, next, mem, state, shelves, tags, notes, swept, tips, commands>>

NoState   == [none |-> TRUE]
TornState == [torn |-> TRUE]
StateFiles == {"rebase", "bisect"}

\* A state file that is there and parses.
Loads(s) == s \notin {NoState, TornState}

Idle == todo = <<>> /\ next = "idle"

-----------------------------------------------------------------------------
(* The writes these commands make besides Repo's.                           *)

RemoveRef(b)      == [op |-> "rmref", branch |-> b]
SaveState(f, s)   == [op |-> "state", file |-> f, to |-> s]
WriteShelf(n, c)  == [op |-> "shelf", name |-> n, commit |-> c]
RemoveShelf(n)    == [op |-> "rmshelf", name |-> n]
Rename(n, m)      == [op |-> "mv", from |-> n, to |-> m]

\* The shelves with file n given c; without file n; with m called n.
With(s, n, c) == [x \in DOMAIN s \union {n} |-> IF x = n THEN c ELSE s[x]]
Without(s, n) == [x \in DOMAIN s \ {n} |-> s[x]]
Renamed(s, m, n) ==
  [x \in {IF y = m THEN n ELSE y : y \in DOMAIN s} |->
     IF x = n /\ m \in DOMAIN s THEN s[m] ELSE s[x]]

PerformMore(w, Leave(_)) ==
  \/ Perform(w, Leave) /\ UNCHANGED <<state, shelves>>
  \/ /\ w.op = "rmref"
     /\ refs' = [refs EXCEPT ![w.branch] = Missing]
     /\ Leave(<<>>)
     /\ UNCHANGED <<work, index, commits, head, reflog, state, shelves>>
  \/ /\ w.op = "state"
     /\ state' = [state EXCEPT ![w.file] = w.to]
     /\ Leave(<<>>)
     /\ UNCHANGED <<repoVars, shelves>>
  \/ /\ \/ w.op = "shelf" /\ shelves' = With(shelves, w.name, w.commit)
        \/ w.op = "rmshelf" /\ shelves' = Without(shelves, w.name)
        \/ w.op = "mv" /\ shelves' = Renamed(shelves, w.from, w.to)
     /\ Leave(<<>>)
     /\ UNCHANGED <<repoVars, state>>

\* The next write of the running command.
Write ==
  /\ todo # <<>>
  /\ PerformMore(Head(todo), LAMBDA q : todo' = q \o Tail(todo))
  /\ mem' = IF todo' = <<>> /\ next = "idle" THEN NoState ELSE mem
  /\ UNCHANGED <<next, tags, notes, swept, tips, commands>>

\* os.WriteFile truncates before it writes: killed in between, it leaves an
\* empty file. An index and a file of the working tree are renamed into place.
TornWrite(w) ==
  \/ w.op = "ref" /\ WriteRef(w.branch, Unborn) /\ UNCHANGED <<head, state, shelves>>
  \/ w.op = "head" /\ head' = Torn /\ UNCHANGED <<refs, state, shelves>>
  \/ /\ w.op = "state" /\ w.to # NoState
     /\ state' = [state EXCEPT ![w.file] = TornState]
     /\ UNCHANGED <<refs, head, shelves>>
  \/ /\ w.op = "shelf" /\ shelves' = With(shelves, w.name, -w.commit)
     /\ UNCHANGED <<refs, head, state>>

\* The process is killed: what it had in memory is gone.
Die ==
  /\ ~Idle
  /\ todo' = <<>> /\ next' = "idle" /\ mem' = NoState
  /\ UNCHANGED <<work, index, commits, reflog, tags, notes, swept, tips, commands>>
  /\ \/ UNCHANGED <<refs, head, state, shelves>>
     \/ todo # <<>> /\ TornWrite(Head(todo))

-----------------------------------------------------------------------------

\* What the running command goes on with: the writes ws, then n with state m.
\* made are the commits it has put by then. (The index Close saves is the one
\* on disk, no other process being there to write it.)
Proceed(ws, n, m, made) ==
  /\ commits' = commits \o made /\ Len(commits') <= MaxCommits
  /\ todo' = ws /\ next' = n
  /\ mem' = IF ws = <<>> /\ n = "idle" THEN NoState ELSE m
  /\ UNCHANGED <<work, index, refs, head, reflog, state, shelves, tags, notes, swept>>

Steps(n, ws, then, m, made) ==
  /\ next = n /\ todo = <<>>
  /\ Proceed(ws, then, m, made)
  /\ UNCHANGED <<tips, commands>>

\* A command begins; the branches are what its user sees.
Begins ==
  /\ Idle /\ commands < MaxCommands
  /\ commands' = commands + 1
  /\ tips' = tips \union {refs[b] : b \in {x \in Branches \ {RebaseBranch, ScratchBranch} :
                                            refs[x] \notin {Unborn, Missing}}}

Runs(ws, then, m, made) == Begins /\ Proceed(ws, then, m, made)

\* A command that does its work in one write of a file nothing else reads.
AtOnce == Begins /\ UNCHANGED <<repoVars, todo, next, mem, state>>

\* The parents of a commit on top of c.
Onto(c) == IF c = Unborn THEN <<>> ELSE <<c>>

\* of: the commit whose message it carries on, in a rebase.
NewCommit(t, built, ps, of) == [tree |-> t, built |-> built, parents |-> ps, of |-> of]

\* requireClean, and the same test at the head of the other commands.
Clean == IsClean(index, Scanned(work))

\* store.Commit onto HEAD's branch: what it writes once the object is put.
CommitWrites(new) == <<Ref(HeadBranch, new), Log(HeadBranch, HeadCommit, new)>>

\* lrm commit, and the watcher's: the scanned tree on top of HEAD.
CmdCommit ==
  /\ ~Clean
  /\ Runs(CommitWrites(Len(commits) + 1) \o <<Save(Scanned(work))>>, "idle", NoState,
          <<NewCommit(Scanned(work), "scan", Onto(HeadCommit), 0)>>)

\* lrm checkout b
CmdCheckout(b) ==
  /\ b \in ListBranches
  /\ Runs(<<SetHead(b)>> \o (IF refs[b] = Unborn THEN <<>>
                             ELSE CheckoutWrites(TreeOf(refs[b]))), "idle", NoState, <<>>)

\* lrm branch -d b, or -D: the tip goes to the log before the ref is removed.
DeleteBranch(b, force) ==
  /\ b \in ListBranches /\ b # HeadBranch
  /\ b = RebaseBranch => state["rebase"] = NoState
  /\ b = ScratchBranch => state["bisect"] = NoState
  /\ \/ force \/ refs[b] = Unborn
     \/ HeadCommit # Unborn /\ refs[b] \in Ancestors(HeadCommit)
  /\ Runs((IF refs[b] = Unborn THEN <<>> ELSE <<Log(b, refs[b], Unborn)>>) \o <<RemoveRef(b)>>,
          "idle", NoState, <<>>)

\* Amend: a commit in the tip's place, with the tip's parents.
Amend(reword) ==
  /\ HeadCommit # Unborn
  /\ reword \/ ~Clean
  /\ LET t == Scanned(work)
     IN  Runs(CommitWrites(Len(commits) + 1) \o <<Save(t)>>, "idle", NoState,
              <<NewCommit(t, "scan", commits[HeadCommit].parents, 0)>>)

\* ResetSoft: the ref moves, the index stays.
ResetSoft(c) ==
  Runs(<<Ref(HeadBranch, c), Log(HeadBranch, HeadCommit, c)>>, "idle", NoState, <<>>)

-----------------------------------------------------------------------------
(* Tags, notes and garbage collection.                                      *)

TagCreate(n, c) ==
  /\ AtOnce /\ tags[n] = Unborn
  /\ tags' = [tags EXCEPT ![n] = c]
  /\ UNCHANGED <<shelves, notes, swept>>

DeleteTag(n) ==
  /\ AtOnce /\ tags[n] # Unborn
  /\ tags' = [tags EXCEPT ![n] = Unborn]
  /\ UNCHANGED <<shelves, notes, swept>>

\* lrm notes add and remove.
Note(c) ==
  /\ AtOnce
  /\ notes' = (notes \union {c}) \ (notes \intersect {c})
  /\ UNCHANGED <<shelves, tags, swept>>

\* Mutant: the ref-logs keep nothing.
CollectRootsOfRefs ==
  ({refs[b] : b \in Branches} \union {tags[n] : n \in TagNames}
     \union {shelves[n] : n \in DOMAIN shelves}) \intersect DOMAIN commits

\* collectRoots: what a branch, a tag, a shelf or a ref-log line names. Notes
\* are no roots.
CollectRoots ==
  ({refs[b] : b \in Branches} \union {tags[n] : n \in TagNames}
     \union {shelves[n] : n \in DOMAIN shelves} \union {e[2] : e \in reflog})
  \intersect DOMAIN commits

Reachable == UNION {Ancestors(c) : c \in CollectRoots}

\* GC: every commit no root reaches is removed (its trees and files with it).
GC ==
  /\ AtOnce
  /\ swept' = swept \union (DOMAIN commits \ Reachable)
  /\ UNCHANGED <<shelves, tags, notes>>

\* Fsck: the commits it reports missing.
FsckMissing == Reachable \intersect swept
=============================================================================
