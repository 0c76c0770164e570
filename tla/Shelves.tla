------------------------------- MODULE Shelves -------------------------------
(***************************************************************************)
(* lrm stash (internal/gitcompat gitcompat.go, stash.go): a shelf is a     *)
(* commit named by a numbered file of refs/shelves; pop and drop renumber  *)
(* the files that are left, in two rounds of renames.                      *)
(***************************************************************************)
EXTENDS Commands

\* The file names: n, and .compact-n.tmp.
Num(n) == <<"n", n>>
Tmp(n) == <<"tmp", n>>
Numeric(s) == {x \in DOMAIN s : x[1] = "n"}

\* StashList: the shelves whose file names a commit, those of an unfinished
\* renumbering included.
StashList == {x \in DOMAIN shelves : shelves[x] \in DOMAIN commits \ swept}

NextShelfName ==
  Num(IF Numeric(shelves) = {} THEN 0
      ELSE 1 + CHOOSE n \in {x[2] : x \in Numeric(shelves)} :
                 \A x \in Numeric(shelves) : x[2] <= n)

\* The files F, each after those that come before it.
Listed(F, before) ==
  [i \in 1 .. Cardinality(F) |->
     CHOOSE x \in F : Cardinality({y \in F : <<y, x>> \in before}) = i - 1]

\* By the time of the commit (a torn file by its own, which is that of the commit
\* it was to name), then by name.
ByAge(s) ==
  LET age(x) == IF s[x] < 0 THEN -s[x] ELSE s[x]
      older(x, y) == age(x) < age(y) \/ (age(x) = age(y) /\ x[2] < y[2])
  IN  Listed(Numeric(s), {e \in Numeric(s) \X Numeric(s) : older(e[1], e[2])})

\* Mutant: one round of renames, the newest shelf first.
CompactOneRound(s) ==
  LET old == ByAge(s) n == Len(old)
  IN  [i \in DOMAIN old |-> Rename(old[n + 1 - i], Num(n - i))]

\* compactShelves: the numbered files, renamed to temporary names and then to
\* 0, 1, ...
CompactShelves(s) ==
  LET old == ByAge(s)
  IN  [i \in DOMAIN old |-> Rename(old[i], Tmp(i - 1))]
        \o [i \in DOMAIN old |-> Rename(Tmp(i - 1), Num(i - 1))]

\* StashPush: the files as they are become a commit beside the branch, then
\* the tip is checked out over them.
StashPush ==
  /\ ~Clean /\ HeadCommit # Unborn
  /\ Runs(<<WriteShelf(NextShelfName, Len(commits) + 1)>> \o CheckoutWrites(TreeOf(HeadCommit)),
          "idle", NoState, <<NewCommit(Scanned(work), "scan", Onto(HeadCommit), 0)>>)

\* restoreShelfFiles: every file of the shelf is written, none is removed.
RestoreShelfFiles(x) ==
  LET t == TreeOf(shelves[x])
      there == {f \in Files : t[f] # NoFile}
  IN  IF there = {} THEN <<>> ELSE <<Put(t, there)>>

Drop(x) == <<RemoveShelf(x)>> \o CompactShelves(Without(shelves, x))

StashApply(x) == x \in StashList /\ Runs(RestoreShelfFiles(x), "idle", NoState, <<>>)
StashDrop(x)  == x \in StashList /\ Runs(Drop(x), "idle", NoState, <<>>)

\* StashPop, of the newest unless the user names one.
StashPop(x) ==
  /\ x \in StashList
  /\ Runs(RestoreShelfFiles(x) \o Drop(x), "idle", NoState, <<>>)

\* StashClear, in the order the directory lists the files: .compact-n.tmp first
\* (numbers of one digit).
StashClear ==
  LET F == DOMAIN shelves
      first(x, y) == IF x[1] = y[1] THEN x[2] < y[2] ELSE x[1] = "tmp"
      all == Listed(F, {e \in F \X F : first(e[1], e[2])})
  IN  Runs([i \in DOMAIN all |-> RemoveShelf(all[i])], "idle", NoState, <<>>)
=============================================================================
