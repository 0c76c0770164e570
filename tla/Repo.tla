-------------------------------- MODULE Repo --------------------------------
(***************************************************************************)
(* The files of one repository (internal/store, internal/staging and the   *)
(* checkout of internal/sync): the working tree, the index on disk, HEAD,  *)
(* the branch refs, the ref-log and the commits. A file's content is a     *)
(* version number, 0 when the file is not there; a tree is a function from *)
(* all files to versions, and a commit is a record of its tree, how it was *)
(* built (from a scan, or from a map of paths) and its parents. Worktree   *)
(* and Commands run processes on it.                                       *)
(***************************************************************************)
EXTENDS Integers, Sequences, FiniteSets

CONSTANTS Files,        \* paths of the working tree
          Ignored,      \* those no scan reports: node_modules, .lrmignore, ...
          Branches,     \* branch names
          Main          \* the branch HEAD falls back to

ASSUME FilesAssumption == Ignored \subseteq Files /\ Main \in Branches

VARIABLES work,         \* the files on disk
          index,        \* index.json: the tree of the last scan or checkout
          commits,      \* every commit made, in order; its number is its hash
          refs,         \* refs/heads: branch -> commit, Unborn or Missing
          head,         \* the branch HEAD names, or Torn
          reflog        \* logs/refs: the pairs (branch, commit) it mentions

repoVars == <<work, index, commits, refs, head, reflog>>

NoFile  == 0
Unborn  == 0      \* an empty ref file, or none
Missing == -1     \* no ref file
Torn    == "torn" \* HEAD truncated by a write that did not finish

ASSUME TornAssumption == Torn \notin Branches

Trees == [Files -> Nat]
NoTree == [f \in Files |-> NoFile]

\* HeadBranch: a HEAD without "ref: " is taken for main.
HeadBranch == IF head = Torn THEN Main ELSE head

\* GetRef: "" for a branch that does not exist.
GetRef(b) == IF refs[b] = Missing THEN Unborn ELSE refs[b]

HeadCommit == GetRef(HeadBranch)
TreeOf(c) == IF c = Unborn THEN NoTree ELSE commits[c].tree

\* A tree built from a map of paths (a merge, a pick) carries no sizes, so its
\* hash is never that of the same files scanned.
HasTree(c, t) == commits[c].built = "scan" /\ commits[c].tree = t

ListBranches == {b \in Branches : refs[b] # Missing}

\* A commit with its ancestors.
Ancestors(c) ==
  LET up[x \in 0 .. Len(commits)] ==
        IF x = Unborn THEN {}
        ELSE {x} \union UNION {up[commits[x].parents[i]] : i \in DOMAIN commits[x].parents}
  IN  up[c]

\* lca.Find for the small histories here: a lowest common ancestor.
MergeBase(a, b) ==
  LET common == Ancestors(a) \intersect Ancestors(b)
  IN  IF common = {} THEN Unborn
      ELSE CHOOSE c \in common : \A d \in common : d # c => c \notin Ancestors(d)

\* Scan walks the files merkle.BuildTree would put in a tree.
Scanned(t) == [f \in Files |-> IF f \in Ignored THEN NoFile ELSE t[f]]
IsClean(idx, t) == idx = t

-----------------------------------------------------------------------------
(* The writes a command makes, in the order it makes them.                  *)

Ref(b, c)    == [op |-> "ref", branch |-> b, commit |-> c]
Log(b, o, c) == [op |-> "log", branch |-> b, old |-> o, commit |-> c]
SetHead(b)   == [op |-> "head", branch |-> b]
Save(t)      == [op |-> "index", tree |-> t]
Put(t, fs) == [op |-> "files", tree |-> t, left |-> fs]
Extras(t)    == [op |-> "extras", tree |-> t]

\* Checkout: every file of the tree is written, then what is not in the tree
\* is removed, ignored or not, then the index is the tree.
CheckoutWrites(t) ==
  LET there == {f \in Files : t[f] # NoFile}
  IN  (IF there = {} THEN <<>> ELSE <<Put(t, there)>>) \o <<Extras(t), Save(t)>>

WriteRef(b, c) == refs' = [refs EXCEPT ![b] = c]

\* AppendReflog: the commits the new line names; a born branch has no old one.
AppendReflog(b, o, c) ==
  reflog' = reflog \union {<<b, x>> : x \in {o, c} \ {Unborn}}

\* Carries out write w, or one file of it; Leave(q) puts what is left of it, q,
\* back in front of the other writes.
Perform(w, Leave(_)) ==
  \/ /\ w.op = "ref"
     /\ WriteRef(w.branch, w.commit)
     /\ Leave(<<>>)
     /\ UNCHANGED <<work, index, commits, head, reflog>>
  \/ /\ w.op = "log"
     /\ AppendReflog(w.branch, w.old, w.commit)
     /\ Leave(<<>>)
     /\ UNCHANGED <<work, index, commits, refs, head>>
  \/ /\ w.op = "head"
     /\ head' = w.branch
     /\ Leave(<<>>)
     /\ UNCHANGED <<work, index, commits, refs, reflog>>
  \/ /\ w.op = "index"
     /\ index' = w.tree
     /\ Leave(<<>>)
     /\ UNCHANGED <<work, commits, refs, head, reflog>>
  \/ /\ w.op = "files"
     /\ \E f \in w.left :
          /\ work' = [work EXCEPT ![f] = w.tree[f]]
          /\ Leave(IF w.left = {f} THEN <<>> ELSE <<[w EXCEPT !.left = @ \ {f}]>>)
     /\ UNCHANGED <<index, commits, refs, head, reflog>>
  \/ /\ w.op = "extras"
     /\ work' = [f \in Files |-> IF w.tree[f] = NoFile THEN NoFile ELSE work[f]]
     /\ Leave(<<>>)
     /\ UNCHANGED <<index, commits, refs, head, reflog>>
=============================================================================
