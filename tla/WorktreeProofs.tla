--------------------------- MODULE WorktreeProofs ---------------------------
(***************************************************************************)
(* Files and commits stay in step, for any files, branches, contents and   *)
(* bounds, and however the watcher and a command interleave: as long as    *)
(* neither writes over what the other wrote after it had begun, what the   *)
(* index calls clean is committed (CleanUnlessCrossed); and a process that *)
(* nobody has written under adds to its branch (CommitsAddUnlessBehind).   *)
(***************************************************************************)
EXTENDS Worktree, SequenceTheorems, TLAPS

\* A sequence, of whatever elements.
IsSeq(s) == Len(s) \in Nat /\ s \in Seq({s[i] : i \in 1 .. Len(s)})

LEMMA AnySeq == ASSUME NEW S, NEW s \in Seq(S) PROVE IsSeq(s)
<1>1. Len(s) \in Nat /\ s \in [1 .. Len(s) -> S] BY LenProperties
<1>2. s \in [1 .. Len(s) -> {s[i] : i \in 1 .. Len(s)}] BY <1>1
<1> QED BY <1>1, <1>2, SeqDef DEF IsSeq

LEMMA SeqPop ==
  ASSUME NEW s, IsSeq(s), Len(s) # 0
  PROVE  /\ IsSeq(Tail(s)) /\ Len(Tail(s)) = Len(s) - 1 /\ Head(s) = s[1]
         /\ \A i \in 1 .. Len(s) - 1 : Tail(s)[i] = s[i + 1]
         /\ <<>> \o Tail(s) = Tail(s)
         /\ Tail(s) = <<>> <=> Len(s) = 1
<1> DEFINE S == {s[i] : i \in 1 .. Len(s)}
<1>1. s \in Seq(S) /\ Len(s) \in Nat BY DEF IsSeq
<1> HIDE DEF S
<1>2. s # <<>> BY <1>1, EmptySeq
<1>3. /\ Tail(s) \in Seq(S) /\ Len(Tail(s)) = Len(s) - 1 /\ Head(s) = s[1]
      /\ \A i \in 1 .. Len(s) - 1 : Tail(s)[i] = s[i + 1]
  BY <1>1, <1>2, HeadTailProperties
<1>4. <<>> \o Tail(s) = Tail(s) BY <1>3, ConcatEmptySeq
<1>5. Tail(s) = <<>> <=> Len(s) = 1 BY <1>1, <1>3, EmptySeq
<1> QED BY <1>3, <1>4, <1>5, AnySeq

LEMMA SeqReplace ==
  ASSUME NEW s, IsSeq(s), Len(s) # 0, NEW w
  PROVE  LET r == <<w>> \o Tail(s)
         IN  /\ IsSeq(r) /\ Len(r) = Len(s) /\ r # <<>> /\ r[1] = w
             /\ \A i \in 2 .. Len(s) : r[i] = s[i]
<1> DEFINE S == {s[i] : i \in 1 .. Len(s)} \union {w}
           r == <<w>> \o Tail(s)
<1>1. Len(s) \in Nat /\ Tail(s) \in Seq({Tail(s)[i] : i \in 1 .. Len(s) - 1})
      /\ Len(Tail(s)) = Len(s) - 1 /\ \A i \in 1 .. Len(s) - 1 : Tail(s)[i] = s[i + 1]
  BY SeqPop DEF IsSeq
<1>2. Tail(s) \in Seq(S)
  <2>1. \A i \in 1 .. Len(s) - 1 : Tail(s)[i] \in S BY <1>1
  <2>2. Tail(s) \in [1 .. Len(s) - 1 -> S]
    <3>1. Tail(s) \in [1 .. Len(s) - 1 -> {Tail(s)[i] : i \in 1 .. Len(s) - 1}]
      BY <1>1, LenProperties
    <3> HIDE DEF S
    <3> QED BY <2>1, <3>1
  <2>3. Len(s) - 1 \in Nat BY <1>1
  <2> HIDE DEF S
  <2> QED BY <2>2, <2>3, SeqDef
<1>3. <<w>> \in Seq(S) /\ Len(<<w>>) = 1 /\ <<w>>[1] = w OBVIOUS
<1> HIDE DEF S
<1>4. /\ r \in Seq(S) /\ Len(r) = 1 + Len(Tail(s))
      /\ \A i \in 1 .. Len(r) : r[i] = IF i <= 1 THEN <<w>>[i] ELSE Tail(s)[i - 1]
  BY <1>2, <1>3, ConcatProperties
<1> HIDE DEF r
<1>5. Len(r) = Len(s) /\ r # <<>> BY <1>1, <1>4, EmptySeq
<1>6. r[1] = w BY <1>1, <1>3, <1>4, <1>5
<1>7. ASSUME NEW i \in 2 .. Len(s) PROVE r[i] = s[i]
  <2>1. i \in 1 .. Len(r) /\ ~(i <= 1) /\ i - 1 \in 1 .. Len(s) - 1 BY <1>1, <1>5
  <2>2. r[i] = Tail(s)[i - 1] BY <1>4, <2>1
  <2>3. Tail(s)[i - 1] = s[(i - 1) + 1] BY <1>1, <2>1
  <2> QED BY <1>1, <2>1, <2>2, <2>3
<1> QED BY <1>4, <1>5, <1>6, <1>7, AnySeq DEF r

-----------------------------------------------------------------------------
(* A write takes effect and leaves the others to be made.                   *)

\* Of the writes q the first is made; r are those left.
OneWrite(w, q, r) ==
  \/ /\ w.op = "ref" /\ r = Tail(q) /\ WriteRef(w.branch, w.commit)
     /\ UNCHANGED <<work, index, commits, head, reflog>>
  \/ /\ w.op = "log" /\ r = Tail(q)
     /\ UNCHANGED <<work, index, commits, refs, head>>
  \/ /\ w.op = "head" /\ r = Tail(q) /\ head' = w.branch
     /\ UNCHANGED <<work, index, commits, refs, reflog>>
  \/ /\ w.op = "index" /\ r = Tail(q) /\ index' = w.tree
     /\ UNCHANGED <<work, commits, refs, head, reflog>>
  \/ /\ w.op = "files" /\ (r = Tail(q) \/ \E l : r = <<[w EXCEPT !.left = l]>> \o Tail(q))
     /\ UNCHANGED <<index, commits, refs, head, reflog>>
  \/ /\ w.op = "extras" /\ r = Tail(q)
     /\ UNCHANGED <<index, commits, refs, head, reflog>>

LEMMA WriteEffect ==
  ASSUME NEW p, Write(p), IsSeq(todo[p]), Len(todo[p]) # 0
  PROVE  \E r : /\ todo' = [todo EXCEPT ![p] = r]
                /\ proc' = [proc EXCEPT ![p] = IF r = <<>> THEN Idle ELSE @]
                /\ OneWrite(todo[p][1], todo[p], r)
                /\ UNCHANGED acts
<1> DEFINE q == todo[p]
           w == Head(q)
           Left(r) == /\ todo' = [todo EXCEPT ![p] = r \o Tail(@)]
                      /\ proc' = [proc EXCEPT ![p] = IF r \o Tail(todo[p]) = <<>> THEN Idle ELSE @]
<1>1. <<>> \o Tail(q) = Tail(q) /\ w = q[1] BY SeqPop
<1>2. UNCHANGED acts BY DEF Write
<1>3. Perform(w, Left) BY DEF Write
<1> QED BY <1>1, <1>2, <1>3 DEF Perform, OneWrite

-----------------------------------------------------------------------------
(* What the writes still to be made lead to, in a repository with commits   *)
(* cs, refs rs and HEAD hd.                                                 *)

TipIn(rs, b) == IF rs[b] = Missing THEN Unborn ELSE rs[b]

\* The writes q leave HEAD at h, a branch whose tip is then c.
LeadsTo(q, h, c, rs, hd) ==
  /\ \/ \E i \in 1 .. Len(q) : q[i].op = "head" /\ q[i].branch = h
     \/ h = hd /\ \A i \in 1 .. Len(q) : q[i].op # "head"
  /\ \/ \E i \in 1 .. Len(q) : q[i].op = "ref" /\ q[i].branch = h /\ q[i].commit = c
     \/ c = TipIn(rs, h) /\ \A i \in 1 .. Len(q) : ~(q[i].op = "ref" /\ q[i].branch = h)

\* A ref is written first of all or not, and refs and HEAD speak of branches
\* and commits there are.
TypedIn(q, cs) ==
  /\ IsSeq(q) /\ Len(q) # 0
  /\ \A i \in 1 .. Len(q) :
       /\ q[i].op = "ref" => i = 1 /\ q[i].branch \in Branches /\ q[i].commit \in 0 .. Len(cs)
       /\ q[i].op = "head" => q[i].branch \in Branches

\* The last write saves the index, with the tree of the tip HEAD will have.
PlannedIn(q, cs, rs, hd) ==
  /\ TypedIn(q, cs)
  /\ q[Len(q)].op = "index"
  /\ \A i \in 1 .. Len(q) : q[i].op = "index" => q[i].tree = q[Len(q)].tree
  /\ \A h \in Branches : \A c \in 1 .. Len(cs) :
       LeadsTo(q, h, c, rs, hd) => q[Len(q)].tree = cs[c].tree

SyncedIn(idx, cs, rs, hd) == TipIn(rs, hd) # Unborn => idx = cs[TipIn(rs, hd)].tree

\* A write keeps the promise of those that follow; the last one fulfils it.
LEMMA OneWritePlanned ==
  ASSUME NEW q, NEW r, PlannedIn(q, commits, refs, head), OneWrite(q[1], q, r),
         Len(commits) \in Nat,
         refs \in [Branches -> {Missing} \union 0 .. Len(commits)], head \in Branches
  PROVE  /\ commits' = commits
         /\ refs' \in [Branches -> {Missing} \union 0 .. Len(commits)] /\ head' \in Branches
         /\ r # <<>> => PlannedIn(r, commits, refs', head')
         /\ r = <<>> => SyncedIn(index', commits, refs', head')
<1> DEFINE w == q[1]
           n == Len(q)
<1>0. IsSeq(q) /\ n \in Nat /\ n # 0 /\ 1 \in 1 .. n BY DEF PlannedIn, TypedIn, IsSeq
<1>1. commits' = commits BY DEF OneWrite
<1>2. refs' \in [Branches -> {Missing} \union 0 .. Len(commits)] /\ head' \in Branches
  BY <1>0 DEF OneWrite, PlannedIn, TypedIn, WriteRef
<1>3. /\ IsSeq(Tail(q)) /\ Len(Tail(q)) = n - 1
      /\ \A i \in 1 .. n - 1 : Tail(q)[i] = q[i + 1]
      /\ Tail(q) = <<>> <=> n = 1
  BY <1>0, SeqPop
<1>4. CASE r = Tail(q) /\ n # 1
  <2>1. IsSeq(r) /\ Len(r) = n - 1 /\ Len(r) # 0 /\ r # <<>> BY <1>0, <1>3, <1>4
  <2>2. \A i \in 1 .. Len(r) : i + 1 \in 1 .. n /\ r[i] = q[i + 1] BY <1>0, <1>3, <1>4, <2>1
  <2>3. r[Len(r)] = q[n] BY <1>0, <2>1, <2>2
  <2>4. \A i \in 1 .. n : i # 1 => i - 1 \in 1 .. Len(r) /\ q[i] = r[i - 1]
    <3> SUFFICES ASSUME NEW i \in 1 .. n, i # 1 PROVE i - 1 \in 1 .. Len(r) /\ q[i] = r[i - 1]
      OBVIOUS
    <3>1. i - 1 \in 1 .. Len(r) /\ (i - 1) + 1 = i BY <1>0, <2>1
    <3> QED BY <2>2, <3>1
  <2> HIDE DEF n
  <2>5. \A i \in 1 .. Len(r) :
          /\ r[i].op = "index" => r[i].tree = r[Len(r)].tree
          /\ r[i].op # "ref"
          /\ r[i].op = "head" => r[i].branch \in Branches
    <3> SUFFICES ASSUME NEW i \in 1 .. Len(r)
                 PROVE  /\ r[i].op = "index" => r[i].tree = r[Len(r)].tree
                        /\ r[i].op # "ref"
                        /\ r[i].op = "head" => r[i].branch \in Branches
      OBVIOUS
    <3>1. i + 1 \in 1 .. n /\ r[i] = q[i + 1] /\ i + 1 # 1 BY <2>2
    <3> QED BY <2>3, <3>1 DEF PlannedIn, TypedIn, n
  <2>6. ASSUME NEW h \in Branches, NEW c \in 1 .. Len(commits), LeadsTo(r, h, c, refs', head')
        PROVE  LeadsTo(q, h, c, refs, head)
    <3>1. \/ \E i \in 1 .. n : q[i].op = "head" /\ q[i].branch = h
          \/ h = head /\ \A i \in 1 .. n : q[i].op # "head"
      <4>1. CASE \E i \in 1 .. Len(r) : r[i].op = "head" /\ r[i].branch = h
        BY <2>2, <4>1
      <4>2. CASE h = head' /\ \A i \in 1 .. Len(r) : r[i].op # "head"
        <5>1. \A i \in 1 .. n : i # 1 => q[i].op # "head" BY <2>4, <4>2
        <5>2. CASE w.op = "head" BY <1>0, <4>2, <5>2 DEF OneWrite
        <5>3. CASE w.op # "head" BY <4>2, <5>1, <5>3 DEF OneWrite
        <5> QED BY <5>2, <5>3
      <4> QED BY <2>6, <4>1, <4>2 DEF LeadsTo
    <3>2. c = TipIn(refs', h) BY <2>5, <2>6 DEF LeadsTo
    <3>3. \A i \in 1 .. n : i # 1 => q[i].op # "ref" BY <2>4, <2>5
    <3>4. \/ \E i \in 1 .. n : q[i].op = "ref" /\ q[i].branch = h /\ q[i].commit = c
          \/ c = TipIn(refs, h) /\ \A i \in 1 .. n : ~(q[i].op = "ref" /\ q[i].branch = h)
      <4>1. CASE w.op = "ref" /\ w.branch = h
        <5>1. w.commit \in 0 .. Len(commits) BY <1>0, <4>1 DEF PlannedIn, TypedIn
        <5>2. refs' = [refs EXCEPT ![h] = w.commit] BY <4>1 DEF OneWrite, WriteRef
        <5>3. refs'[h] = w.commit /\ w.commit # Missing BY <5>1, <5>2 DEF Missing
        <5>4. c = w.commit BY <3>2, <5>3 DEF TipIn
        <5> QED BY <1>0, <4>1, <5>4
      <4>2. CASE ~(w.op = "ref" /\ w.branch = h)
        <5>1. refs'[h] = refs[h] BY <4>2 DEF OneWrite, WriteRef
        <5> QED BY <3>2, <3>3, <4>2, <5>1 DEF TipIn
      <4> QED BY <4>1, <4>2
    <3> QED BY <3>1, <3>4 DEF LeadsTo, n
  <2>7. \A h \in Branches : \A c \in 1 .. Len(commits) :
          LeadsTo(r, h, c, refs', head') => r[Len(r)].tree = commits[c].tree
    BY <2>3, <2>6 DEF PlannedIn, TypedIn, n
  <2>8. r[Len(r)].op = "index" BY <2>3 DEF PlannedIn, TypedIn, n
  <2>9. PlannedIn(r, commits, refs', head') BY <2>1, <2>5, <2>7, <2>8 DEF PlannedIn, TypedIn
  <2> QED BY <1>1, <1>2, <2>1, <2>9
<1>5. CASE r = Tail(q) /\ n = 1
  <2>1. w.op = "index" BY <1>5 DEF PlannedIn, TypedIn
  <2>2. index' = w.tree /\ refs' = refs /\ head' = head BY <2>1 DEF OneWrite
  <2>3. r = <<>> BY <1>3, <1>5
  <2>4. \A i \in 1 .. n : i = 1 BY <1>5
  <2>5. \A i \in 1 .. Len(q) : q[i].op = "index" BY <2>1, <2>4
  <2>6. ASSUME TipIn(refs, head) # Unborn PROVE index' = commits[TipIn(refs, head)].tree
    <3>1. TipIn(refs, head) \in 1 .. Len(commits) BY <2>6 DEF TipIn, Unborn
    <3>2. LeadsTo(q, head, TipIn(refs, head), refs, head) BY <2>5 DEF LeadsTo
    <3> QED BY <1>5, <2>2, <3>1, <3>2 DEF PlannedIn, TypedIn
  <2> QED BY <1>1, <1>2, <2>2, <2>3, <2>6 DEF SyncedIn
<1>6. CASE \E l : r = <<[w EXCEPT !.left = l]>> \o Tail(q) /\ w.op = "files"
  <2>1. PICK l : r = <<[w EXCEPT !.left = l]>> \o Tail(q) BY <1>6
  <2> DEFINE v == [w EXCEPT !.left = l]
  <2>2. v.op = "files" BY <1>6
  <2> HIDE DEF v
  <2>3. IsSeq(r) /\ Len(r) = n /\ r # <<>> /\ r[1] = v /\ \A i \in 2 .. n : r[i] = q[i]
    <3>1. r = <<v>> \o Tail(q) BY <2>1 DEF v
    <3> HIDE DEF n, w
    <3> QED BY <1>0, <3>1, SeqReplace DEF n
  <2>4. refs' = refs /\ head' = head BY <1>6 DEF OneWrite
  <2>5. \A i \in 1 .. n : (i # 1 => r[i] = q[i]) /\ (i = 1 => r[i].op = "files" /\ q[i].op = "files")
    <3> SUFFICES ASSUME NEW i \in 1 .. n
                 PROVE  (i # 1 => r[i] = q[i]) /\ (i = 1 => r[i].op = "files" /\ q[i].op = "files")
      OBVIOUS
    <3>1. i # 1 => i \in 2 .. n BY <1>0
    <3> HIDE DEF n
    <3>2. i # 1 => r[i] = q[i] BY <2>3, <3>1
    <3> QED BY <1>6, <2>2, <2>3, <3>2
  <2>6. r[n] = q[n] /\ q[n].op = "index"
    <3>1. q[n].op = "index" BY DEF PlannedIn, TypedIn
    <3>2. n # 1 BY <1>6, <3>1
    <3> QED BY <1>0, <2>5, <3>1, <3>2
  <2>7. \A i \in 1 .. n :
       /\ r[i].op = "index" => r[i].tree = r[n].tree
       /\ r[i].op = "ref" => i = 1 /\ r[i].branch \in Branches /\ r[i].commit \in 0 .. Len(commits)
       /\ r[i].op = "head" => r[i].branch \in Branches
    BY <2>5, <2>6 DEF PlannedIn, TypedIn
  <2>8. \A i \in 1 .. n : r[i].op \in {"head", "ref"} \/ q[i].op \in {"head", "ref"} => r[i] = q[i]
    BY <2>5
  <2>9. \A h \in Branches : \A c \in 1 .. Len(commits) :
          LeadsTo(r, h, c, refs, head) => LeadsTo(q, h, c, refs, head)
    <3> HIDE DEF n
    <3> SUFFICES ASSUME NEW h \in Branches, NEW c \in 1 .. Len(commits), LeadsTo(r, h, c, refs, head)
                 PROVE  LeadsTo(q, h, c, refs, head)
      OBVIOUS
    <3>1. \/ \E i \in 1 .. n : q[i].op = "head" /\ q[i].branch = h
          \/ h = head /\ \A i \in 1 .. n : q[i].op # "head"
      BY <2>3, <2>8 DEF LeadsTo
    <3>2. \/ \E i \in 1 .. n : q[i].op = "ref" /\ q[i].branch = h /\ q[i].commit = c
          \/ c = TipIn(refs, h) /\ \A i \in 1 .. n : ~(q[i].op = "ref" /\ q[i].branch = h)
      BY <2>3, <2>8 DEF LeadsTo
    <3> QED BY <3>1, <3>2 DEF LeadsTo, n
  <2>10. PlannedIn(r, commits, refs, head)
    <3>1. \A h \in Branches : \A c \in 1 .. Len(commits) :
            LeadsTo(r, h, c, refs, head) => r[n].tree = commits[c].tree
      BY <2>6, <2>9 DEF PlannedIn, TypedIn
    <3>2. n = Len(r) /\ Len(r) # 0 BY <1>0, <2>3
    <3> HIDE DEF n
    <3> QED BY <2>3, <2>6, <2>7, <3>1, <3>2 DEF PlannedIn, TypedIn
  <2> QED BY <1>1, <1>2, <2>3, <2>4, <2>10
<1> QED BY <1>4, <1>5, <1>6 DEF OneWrite

\* Whatever it was planned for, it leaves well-formed writes, none to a ref.
LEMMA OneWriteTyped ==
  ASSUME NEW q, NEW r, TypedIn(q, commits), OneWrite(q[1], q, r), Len(commits) \in Nat,
         refs \in [Branches -> {Missing} \union 0 .. Len(commits)], head \in Branches
  PROVE  /\ commits' = commits
         /\ refs' \in [Branches -> {Missing} \union 0 .. Len(commits)] /\ head' \in Branches
         /\ r # <<>> => TypedIn(r, commits) /\ r[1].op # "ref"
<1> DEFINE w == q[1]
           n == Len(q)
<1>0. IsSeq(q) /\ n \in Nat /\ n # 0 /\ 1 \in 1 .. n BY DEF TypedIn, IsSeq
<1>1. commits' = commits BY DEF OneWrite
<1>2. refs' \in [Branches -> {Missing} \union 0 .. Len(commits)] /\ head' \in Branches
  BY <1>0 DEF OneWrite, TypedIn, WriteRef
<1>3. CASE r = Tail(q)
  <2> SUFFICES ASSUME r # <<>> PROVE TypedIn(r, commits) /\ r[1].op # "ref" BY <1>1, <1>2
  <2>1. /\ IsSeq(r) /\ Len(r) = n - 1 /\ \A i \in 1 .. n - 1 : r[i] = q[i + 1] /\ n # 1
    BY <1>0, <1>3, SeqPop
  <2> HIDE DEF n
  <2>2. ASSUME NEW i \in 1 .. Len(r)
        PROVE  r[i].op # "ref" /\ (r[i].op = "head" => r[i].branch \in Branches)
    <3>1. i + 1 \in 1 .. n /\ r[i] = q[i + 1] /\ i + 1 # 1 BY <1>0, <2>1
    <3> QED BY <3>1 DEF TypedIn, n
  <2>3. Len(r) # 0 /\ 1 \in 1 .. Len(r) BY <1>0, <2>1
  <2> QED BY <2>1, <2>2, <2>3 DEF TypedIn
<1>4. ASSUME NEW l, r = <<[w EXCEPT !.left = l]>> \o Tail(q), w.op = "files"
      PROVE  TypedIn(r, commits) /\ r[1].op # "ref"
  <2> DEFINE v == [w EXCEPT !.left = l]
  <2>1. v.op = "files" BY <1>4
  <2>2. r = <<v>> \o Tail(q) BY <1>4
  <2> HIDE DEF v, w, n
  <2>3. IsSeq(r) /\ Len(r) = n /\ r[1] = v /\ \A i \in 2 .. n : r[i] = q[i]
    BY <1>0, <2>2, SeqReplace DEF n
  <2>4. \A i \in 1 .. n : i = 1 \/ i \in 2 .. n BY <1>0
  <2>5. \A i \in 1 .. n : r[i].op = "files" \/ (r[i] = q[i] /\ i # 1) BY <2>1, <2>3, <2>4
  <2>6. \A i \in 1 .. n : r[i].op # "ref" /\ (r[i].op = "head" => r[i].branch \in Branches)
    BY <2>5 DEF TypedIn, n
  <2>7. r[1].op # "ref" BY <2>1, <2>3
  <2> QED BY <1>0, <2>3, <2>6, <2>7 DEF TypedIn
<1> QED BY <1>1, <1>2, <1>3, <1>4 DEF OneWrite

-----------------------------------------------------------------------------
(* The plans commands make.                                                 *)

\* Writes that only end in saving the tree t as the index.
Ending(q, t) ==
  /\ IsSeq(q) /\ Len(q) # 0
  /\ q[Len(q)] = Save(t)
  /\ \A i \in 1 .. Len(q) : q[i].op \notin {"ref", "head"} /\ (q[i].op = "index" => q[i].tree = t)

LEMMA TupleSeq ==
  /\ IsSeq(<< >>) /\ Len(<< >>) = 0
  /\ \A a : IsSeq(<<a>>) /\ Len(<<a>>) = 1
  /\ \A a, b : IsSeq(<<a, b>>) /\ Len(<<a, b>>) = 2
  /\ \A a, b, c : IsSeq(<<a, b, c>>) /\ Len(<<a, b, c>>) = 3
<1>1. IsSeq(<< >>) /\ Len(<< >>) = 0 BY EmptySeq DEF IsSeq
<1>2. ASSUME NEW a PROVE IsSeq(<<a>>) /\ Len(<<a>>) = 1
  <2>1. <<a>> \in Seq({a}) OBVIOUS
  <2> QED BY <2>1, AnySeq
<1>3. ASSUME NEW a, NEW b PROVE IsSeq(<<a, b>>) /\ Len(<<a, b>>) = 2
  <2>1. <<a, b>> \in Seq({a, b}) OBVIOUS
  <2> QED BY <2>1, AnySeq
<1>4. ASSUME NEW a, NEW b, NEW c PROVE IsSeq(<<a, b, c>>) /\ Len(<<a, b, c>>) = 3
  <2>1. <<a, b, c>> \in Seq({a, b, c}) OBVIOUS
  <2> QED BY <2>1, AnySeq
<1> QED BY <1>1, <1>2, <1>3, <1>4

LEMMA SeqConcat ==
  ASSUME NEW s, NEW q, IsSeq(s), IsSeq(q)
  PROVE  /\ IsSeq(s \o q) /\ Len(s \o q) = Len(s) + Len(q)
         /\ \A i \in 1 .. Len(s) : (s \o q)[i] = s[i]
         /\ \A i \in 1 .. Len(q) : (s \o q)[Len(s) + i] = q[i]
         /\ \A i \in 1 .. Len(s \o q) : i \in 1 .. Len(s) \/ i - Len(s) \in 1 .. Len(q)
<1> DEFINE A == {s[i] : i \in 1 .. Len(s)}
           B == {q[i] : i \in 1 .. Len(q)}
           S == A \union B
<1>1. s \in Seq(A) /\ q \in Seq(B) /\ Len(s) \in Nat /\ Len(q) \in Nat BY DEF IsSeq
<1>2. s \in Seq(S) /\ q \in Seq(S)
  <2>1. s \in [1 .. Len(s) -> A] /\ q \in [1 .. Len(q) -> B] BY <1>1, LenProperties
  <2> HIDE DEF A, B
  <2>2. s \in [1 .. Len(s) -> S] /\ q \in [1 .. Len(q) -> S] BY <2>1
  <2> HIDE DEF S
  <2> QED BY <1>1, <2>2, SeqDef
<1> HIDE DEF S
<1>3. /\ s \o q \in Seq(S) /\ Len(s \o q) = Len(s) + Len(q)
      /\ \A i \in 1 .. Len(s) + Len(q) : (s \o q)[i] = IF i <= Len(s) THEN s[i] ELSE q[i - Len(s)]
  BY <1>2, ConcatProperties
<1>4. \A i \in 1 .. Len(s) : (s \o q)[i] = s[i] BY <1>1, <1>3
<1>5. ASSUME NEW i \in 1 .. Len(q) PROVE (s \o q)[Len(s) + i] = q[i]
  <2>1. /\ Len(s) + i \in 1 .. Len(s) + Len(q) /\ ~(Len(s) + i <= Len(s))
        /\ (Len(s) + i) - Len(s) = i
    BY <1>1
  <2> QED BY <1>3, <2>1
<1>6. \A i \in 1 .. Len(s \o q) : i \in 1 .. Len(s) \/ i - Len(s) \in 1 .. Len(q) BY <1>1, <1>3
<1>7. IsSeq(s \o q) BY <1>3, AnySeq
<1> QED BY <1>3, <1>4, <1>5, <1>6, <1>7

LEMMA ConcatFirst ==
  ASSUME NEW s, NEW q, IsSeq(s), IsSeq(q), NEW i \in 1 .. Len(s)
  PROVE  (s \o q)[i] = s[i]
BY SeqConcat

LEMMA ConcatSecond ==
  ASSUME NEW s, NEW q, IsSeq(s), IsSeq(q), NEW i \in 1 .. Len(q), NEW j, j = Len(s) + i
  PROVE  (s \o q)[j] = q[i]
BY SeqConcat

LEMMA SameSeq ==
  ASSUME NEW s, NEW r, IsSeq(s), IsSeq(r), Len(s) = Len(r), \A i \in 1 .. Len(s) : s[i] = r[i]
  PROVE  s = r
<1> DEFINE n == Len(s)
           S == {s[i] : i \in 1 .. n}
<1>1. {r[i] : i \in 1 .. n} = S OBVIOUS
<1>2. s \in [1 .. n -> S] /\ r \in [1 .. n -> S] BY <1>1, LenProperties DEF IsSeq
<1> HIDE DEF S
<1> QED BY <1>2

LEMMA TupleConcat ==
  /\ \A a, b : <<a>> \o <<b>> = <<a, b>>
  /\ \A a, b, c : <<a, b>> \o <<c>> = <<a, b, c>>
<1>1. ASSUME NEW a, NEW b PROVE <<a>> \o <<b>> = <<a, b>>
  <2> DEFINE s == <<a>>  r == <<b>>  u == <<a, b>>
  <2>1. /\ IsSeq(s) /\ IsSeq(r) /\ IsSeq(u) /\ Len(s) = 1 /\ Len(r) = 1 /\ Len(u) = 2 BY TupleSeq
  <2>2. s[1] = a /\ r[1] = b /\ u[1] = a /\ u[2] = b OBVIOUS
  <2> HIDE DEF s, r, u
  <2>3. IsSeq(s \o r) /\ Len(s \o r) = 2 /\ (s \o r)[1] = a /\ (s \o r)[2] = b
    <3>1. 1 \in 1 .. Len(s) /\ 1 \in 1 .. Len(r) /\ 2 = Len(s) + 1 BY <2>1
    <3>2. IsSeq(s \o r) /\ Len(s \o r) = Len(s) + Len(r) BY <2>1, SeqConcat
    <3>3. (s \o r)[1] = s[1] BY <2>1, <3>1, ConcatFirst
    <3>4. (s \o r)[2] = r[1]
      <4>1. IsSeq(s) BY <2>1
      <4>2. IsSeq(r) BY <2>1
      <4>3. 1 \in 1 .. Len(r) BY <3>1
      <4>4. 2 = Len(s) + 1 BY <3>1
      <4> QED BY <4>1, <4>2, <4>3, <4>4, ConcatSecond
    <3> QED BY <2>1, <2>2, <3>2, <3>3, <3>4
  <2>4. \A i \in 1 .. 2 : (s \o r)[i] = u[i]
    <3>1. \A i \in 1 .. 2 : i \in {1, 2} OBVIOUS
    <3> QED BY <2>2, <2>3, <3>1
  <2>5. s \o r = u BY <2>1, <2>3, <2>4, SameSeq
  <2> QED BY <2>5 DEF s, r, u
<1>2. ASSUME NEW a, NEW b, NEW c PROVE <<a, b>> \o <<c>> = <<a, b, c>>
  <2> DEFINE s == <<a, b>>  r == <<c>>  u == <<a, b, c>>
  <2>1. /\ IsSeq(s) /\ IsSeq(r) /\ IsSeq(u) /\ Len(s) = 2 /\ Len(r) = 1 /\ Len(u) = 3 BY TupleSeq
  <2>2. s[1] = a /\ s[2] = b /\ r[1] = c /\ u[1] = a /\ u[2] = b /\ u[3] = c OBVIOUS
  <2> HIDE DEF s, r, u
  <2>3. /\ IsSeq(s \o r) /\ Len(s \o r) = 3
        /\ (s \o r)[1] = a /\ (s \o r)[2] = b /\ (s \o r)[3] = c
    <3>1. 1 \in 1 .. Len(s) /\ 2 \in 1 .. Len(s) /\ 1 \in 1 .. Len(r) /\ 3 = Len(s) + 1 BY <2>1
    <3>2. IsSeq(s \o r) /\ Len(s \o r) = Len(s) + Len(r) BY <2>1, SeqConcat
    <3>3. (s \o r)[1] = s[1] /\ (s \o r)[2] = s[2]
      <4>1. IsSeq(s) BY <2>1
      <4>2. IsSeq(r) BY <2>1
      <4>3. 1 \in 1 .. Len(s) BY <3>1
      <4>4. 2 \in 1 .. Len(s) BY <3>1
      <4>5. (s \o r)[1] = s[1] BY <4>1, <4>2, <4>3, ConcatFirst
      <4>6. (s \o r)[2] = s[2] BY <4>1, <4>2, <4>4, ConcatFirst
      <4> QED BY <4>5, <4>6
    <3>4. (s \o r)[3] = r[1]
      <4>1. IsSeq(s) BY <2>1
      <4>2. IsSeq(r) BY <2>1
      <4>3. 1 \in 1 .. Len(r) BY <3>1
      <4>4. 3 = Len(s) + 1 BY <3>1
      <4> QED BY <4>1, <4>2, <4>3, <4>4, ConcatSecond
    <3> QED BY <2>1, <2>2, <3>2, <3>3, <3>4
  <2>4. \A i \in 1 .. 3 : (s \o r)[i] = u[i]
    <3>1. \A i \in 1 .. 3 : i \in {1, 2, 3} OBVIOUS
    <3> QED BY <2>2, <2>3, <3>1
  <2>5. s \o r = u BY <2>1, <2>3, <2>4, SameSeq
  <2> QED BY <2>5 DEF s, r, u
<1> QED BY <1>1, <1>2

\* Writes of neither a ref nor HEAD, put before an ending.
LEMMA EndingLonger ==
  ASSUME NEW s, IsSeq(s), NEW q, NEW t, Ending(q, t),
         \A i \in 1 .. Len(s) : s[i].op \notin {"ref", "head", "index"}
  PROVE  Ending(s \o q, t)
<1> DEFINE r == s \o q
<1>1. /\ IsSeq(r) /\ Len(r) = Len(s) + Len(q) /\ \A i \in 1 .. Len(s) : r[i] = s[i]
      /\ \A i \in 1 .. Len(q) : r[Len(s) + i] = q[i]
      /\ \A i \in 1 .. Len(r) : i \in 1 .. Len(s) \/ i - Len(s) \in 1 .. Len(q)
      /\ Len(s) \in Nat /\ Len(q) \in Nat /\ Len(q) # 0
  <2>1. IsSeq(q) /\ Len(q) # 0 BY DEF Ending
  <2>2. Len(s) \in Nat /\ Len(q) \in Nat BY <2>1 DEF IsSeq
  <2> QED BY <2>1, <2>2, SeqConcat
<1> HIDE DEF r
<1>2. r[Len(r)] = q[Len(q)] BY <1>1
<1>3. ASSUME NEW i \in 1 .. Len(r)
      PROVE  r[i].op \notin {"ref", "head"} /\ (r[i].op = "index" => r[i].tree = t)
  <2>1. CASE i \in 1 .. Len(s) BY <1>1, <2>1
  <2>2. CASE i - Len(s) \in 1 .. Len(q)
    <3>1. r[i] = q[i - Len(s)]
      <4>1. Len(s) + (i - Len(s)) = i BY <1>1
      <4> QED BY <1>1, <2>2, <4>1
    <3> QED BY <2>2, <3>1 DEF Ending
  <2> QED BY <1>1, <2>1, <2>2
<1>4. Len(r) # 0 BY <1>1
<1> QED BY <1>1, <1>2, <1>3, <1>4 DEF Ending, r

LEMMA Endings ==
  ASSUME NEW t
  PROVE  /\ Ending(<<Save(t)>>, t) /\ Ending(<<Save(t), Save(t)>>, t)
         /\ Ending(CheckoutWrites(t), t)
         /\ \A u, fs : Ending(<<Put(u, fs), Save(t)>>, t)
<1>1. Ending(<<Save(t)>>, t)
  <2>1. IsSeq(<<Save(t)>>) /\ Len(<<Save(t)>>) = 1 BY TupleSeq
  <2> QED BY <2>1 DEF Ending, Save
<1>2. Ending(<<Save(t), Save(t)>>, t)
  <2>1. IsSeq(<<Save(t), Save(t)>>) /\ Len(<<Save(t), Save(t)>>) = 2 BY TupleSeq
  <2> QED BY <2>1 DEF Ending, Save
<1>3. Ending(CheckoutWrites(t), t)
  <2> DEFINE q == <<Extras(t), Save(t)>>
  <2>1. Ending(q, t)
    <3>1. IsSeq(q) /\ Len(q) = 2 BY TupleSeq
    <3> QED BY <3>1 DEF Ending, Save, Extras
  <2>2. \A fs : Ending(<<Put(t, fs)>> \o q, t)
    <3> HIDE DEF q
    <3> SUFFICES ASSUME NEW fs PROVE Ending(<<Put(t, fs)>> \o q, t) OBVIOUS
    <3>1. IsSeq(<<Put(t, fs)>>) /\ Len(<<Put(t, fs)>>) = 1 BY TupleSeq
    <3>2. \A i \in 1 .. 1 : <<Put(t, fs)>>[i].op \notin {"ref", "head", "index"} BY DEF Put
    <3> QED BY <2>1, <3>1, <3>2, EndingLonger
  <2>3. Ending(<<>> \o q, t)
    <3> HIDE DEF q
    <3>1. \A i \in 1 .. 0 : << >>[i].op \notin {"ref", "head", "index"} OBVIOUS
    <3> QED BY <2>1, <3>1, TupleSeq, EndingLonger
  <2>4. CheckoutWrites(t) = <<>> \o q \/ \E fs : CheckoutWrites(t) = <<Put(t, fs)>> \o q
    BY Zenon DEF CheckoutWrites
  <2> HIDE DEF q
  <2> QED BY <2>2, <2>3, <2>4
<1>4. ASSUME NEW u, NEW fs PROVE Ending(<<Put(u, fs), Save(t)>>, t)
  <2>1. IsSeq(<<Put(u, fs), Save(t)>>) /\ Len(<<Put(u, fs), Save(t)>>) = 2 BY TupleSeq
  <2> QED BY <2>1 DEF Ending, Save, Put
<1> QED BY <1>1, <1>2, <1>3, <1>4

\* A plan: writes s that move HEAD and refs, and an ending with the tree of
\* the commit they lead to.
LEMMA PlanWith ==
  ASSUME NEW s, IsSeq(s), NEW q, NEW t, Ending(q, t), NEW cs, NEW rs, NEW hd,
         \A i \in 1 .. Len(s) :
            /\ s[i].op # "index"
            /\ s[i].op = "ref" => i = 1 /\ s[i].branch \in Branches /\ s[i].commit \in 0 .. Len(cs)
            /\ s[i].op = "head" => s[i].branch \in Branches
  PROVE  /\ TypedIn(s \o q, cs)
         /\ (\A h \in Branches : \A c \in 1 .. Len(cs) : LeadsTo(s, h, c, rs, hd) => t = cs[c].tree)
              => PlannedIn(s \o q, cs, rs, hd)
<1> DEFINE r == s \o q
<1>1. /\ IsSeq(r) /\ Len(r) = Len(s) + Len(q) /\ \A i \in 1 .. Len(s) : r[i] = s[i]
      /\ \A i \in 1 .. Len(q) : r[Len(s) + i] = q[i]
      /\ \A i \in 1 .. Len(r) : i \in 1 .. Len(s) \/ i - Len(s) \in 1 .. Len(q)
      /\ Len(s) \in Nat /\ Len(q) \in Nat /\ Len(q) # 0
  <2>1. IsSeq(q) /\ Len(q) # 0 BY DEF Ending
  <2>2. Len(s) \in Nat /\ Len(q) \in Nat BY <2>1 DEF IsSeq
  <2> QED BY <2>1, <2>2, SeqConcat
<1> HIDE DEF r
<1>2. r[Len(r)] = Save(t) /\ Len(r) # 0 BY <1>1 DEF Ending
<1>3. ASSUME NEW i \in 1 .. Len(r)
      PROVE  \/ i \in 1 .. Len(s) /\ r[i] = s[i]
             \/ r[i].op \notin {"ref", "head"} /\ (r[i].op = "index" => r[i].tree = t)
  <2>1. CASE i \in 1 .. Len(s) BY <1>1, <2>1
  <2>2. CASE i - Len(s) \in 1 .. Len(q)
    <3>1. r[i] = q[i - Len(s)]
      <4>1. Len(s) + (i - Len(s)) = i BY <1>1
      <4> QED BY <1>1, <2>2, <4>1
    <3> QED BY <2>2, <3>1 DEF Ending
  <2> QED BY <1>1, <2>1, <2>2
<1>4. \A i \in 1 .. Len(s) : i \in 1 .. Len(r) /\ r[i] = s[i] BY <1>1
<1>5. ASSUME NEW h \in Branches, NEW c \in 1 .. Len(cs), LeadsTo(r, h, c, rs, hd)
      PROVE  LeadsTo(s, h, c, rs, hd)
  <2>1. \/ \E i \in 1 .. Len(s) : s[i].op = "head" /\ s[i].branch = h
        \/ h = hd /\ \A i \in 1 .. Len(s) : s[i].op # "head"
    BY <1>3, <1>4, <1>5 DEF LeadsTo
  <2>2. \/ \E i \in 1 .. Len(s) : s[i].op = "ref" /\ s[i].branch = h /\ s[i].commit = c
        \/ c = TipIn(rs, h) /\ \A i \in 1 .. Len(s) : ~(s[i].op = "ref" /\ s[i].branch = h)
    BY <1>3, <1>4, <1>5 DEF LeadsTo
  <2> QED BY <2>1, <2>2 DEF LeadsTo
<1>6. Save(t).op = "index" /\ Save(t).tree = t BY DEF Save
<1>7. \A i \in 1 .. Len(r) :
        /\ r[i].op = "index" => r[i].tree = t
        /\ r[i].op = "ref" => i = 1 /\ r[i].branch \in Branches /\ r[i].commit \in 0 .. Len(cs)
        /\ r[i].op = "head" => r[i].branch \in Branches
  BY <1>3
<1>8. TypedIn(r, cs) BY <1>1, <1>2, <1>7 DEF TypedIn
<1>9. ASSUME \A h \in Branches : \A c \in 1 .. Len(cs) : LeadsTo(s, h, c, rs, hd) => t = cs[c].tree
      PROVE  PlannedIn(r, cs, rs, hd)
  <2>1. \A h \in Branches : \A c \in 1 .. Len(cs) : LeadsTo(r, h, c, rs, hd) => t = cs[c].tree
    BY <1>5, <1>9
  <2> QED BY <1>2, <1>6, <1>7, <1>8, <2>1 DEF PlannedIn
<1> QED BY <1>8, <1>9 DEF r

\* What commands do with refs and HEAD before an ending.
LEMMA Plans ==
  ASSUME NEW q, NEW t, Ending(q, t), NEW cs, NEW rs, NEW hd \in Branches, Len(cs) \in Nat,
         NEW b \in Branches, NEW o, NEW c \in 0 .. Len(cs)
  PROVE  /\ TypedIn(q, cs) /\ TypedIn(<<SetHead(b)>> \o q, cs)
         /\ TypedIn(<<Ref(b, c), Log(b, o, c)>> \o q, cs)
         /\ TypedIn(<<Ref(b, c), Log(b, o, c), SetHead(b)>> \o q, cs)
         /\ SyncedIn(t, cs, rs, hd) => PlannedIn(q, cs, rs, hd)
         /\ SyncedIn(t, cs, rs, b) => PlannedIn(<<SetHead(b)>> \o q, cs, rs, hd)
         /\ (IF b = hd THEN c # Unborn => t = cs[c].tree ELSE SyncedIn(t, cs, rs, hd))
              => PlannedIn(<<Ref(b, c), Log(b, o, c)>> \o q, cs, rs, hd)
         /\ (c # Unborn => t = cs[c].tree)
              => PlannedIn(<<Ref(b, c), Log(b, o, c), SetHead(b)>> \o q, cs, rs, hd)
<1> DEFINE Mild(s) == \A i \in 1 .. Len(s) :
             /\ s[i].op # "index"
             /\ s[i].op = "ref" => i = 1 /\ s[i].branch \in Branches /\ s[i].commit \in 0 .. Len(cs)
             /\ s[i].op = "head" => s[i].branch \in Branches
           Right(s) == \A h \in Branches : \A k \in 1 .. Len(cs) :
                         LeadsTo(s, h, k, rs, hd) => t = cs[k].tree
<1>1. ASSUME NEW s, IsSeq(s), Mild(s)
      PROVE  TypedIn(s \o q, cs) /\ (Right(s) => PlannedIn(s \o q, cs, rs, hd))
  BY <1>1, PlanWith
<1>2. \A k \in 1 .. Len(cs) : k # Unborn BY DEF Unborn
<1>3. TypedIn(q, cs) /\ (SyncedIn(t, cs, rs, hd) => PlannedIn(q, cs, rs, hd))
  <2>1. IsSeq(<<>>) /\ Len(<<>>) = 0 BY TupleSeq
  <2>2. Mild(<<>>) BY <2>1
  <2>3. SyncedIn(t, cs, rs, hd) => Right(<<>>) BY <1>2, <2>1 DEF LeadsTo, SyncedIn
  <2>4. <<>> \o q = q
    <3>1. q \in Seq({q[i] : i \in 1 .. Len(q)}) BY DEF Ending, IsSeq
    <3> QED BY <3>1, ConcatEmptySeq
  <2> HIDE DEF Mild, Right
  <2>5. TypedIn(<<>> \o q, cs) /\ (SyncedIn(t, cs, rs, hd) => PlannedIn(<<>> \o q, cs, rs, hd))
    BY <1>1, <2>1, <2>2, <2>3
  <2> QED BY <2>4, <2>5
<1>4. /\ TypedIn(<<SetHead(b)>> \o q, cs)
      /\ SyncedIn(t, cs, rs, b) => PlannedIn(<<SetHead(b)>> \o q, cs, rs, hd)
  <2> DEFINE s == <<SetHead(b)>>
  <2>1. IsSeq(s) /\ Len(s) = 1 BY TupleSeq
  <2>2. s[1].op = "head" /\ s[1].branch = b BY DEF SetHead
  <2> HIDE DEF s
  <2>3. \A i \in 1 .. Len(s) : i = 1 BY <2>1
  <2>4. Mild(s) BY <2>2, <2>3
  <2>5. (SyncedIn(t, cs, rs, b)) => Right(s)
    <3> SUFFICES ASSUME SyncedIn(t, cs, rs, b),
                        NEW h \in Branches, NEW k \in 1 .. Len(cs), LeadsTo(s, h, k, rs, hd)
                 PROVE  t = cs[k].tree
      OBVIOUS
    <3>1. h = b /\ k = TipIn(rs, h) BY <2>1, <2>2, <2>3 DEF LeadsTo
    <3> QED BY <1>2, <3>1 DEF SyncedIn
  <2> HIDE DEF Mild, Right
  <2>6. TypedIn(s \o q, cs) /\ ((SyncedIn(t, cs, rs, b)) => PlannedIn(s \o q, cs, rs, hd))
    BY <1>1, <2>1, <2>4, <2>5
  <2> QED BY <2>6 DEF s
<1>5. /\ TypedIn(<<Ref(b, c), Log(b, o, c)>> \o q, cs)
      /\ (IF b = hd THEN c # Unborn => t = cs[c].tree ELSE SyncedIn(t, cs, rs, hd))
           => PlannedIn(<<Ref(b, c), Log(b, o, c)>> \o q, cs, rs, hd)
  <2> DEFINE s == <<Ref(b, c), Log(b, o, c)>>
  <2>1. IsSeq(s) /\ Len(s) = 2 BY TupleSeq
  <2>2. s[1].op = "ref" /\ s[1].branch = b /\ s[1].commit = c /\ s[2].op = "log" BY DEF Ref, Log
  <2> HIDE DEF s
  <2>3. \A i \in 1 .. Len(s) : i \in {1, 2} BY <2>1
  <2>4. Mild(s) BY <2>2, <2>3
  <2>5. (IF b = hd THEN c # Unborn => t = cs[c].tree ELSE SyncedIn(t, cs, rs, hd)) => Right(s)
    <3> SUFFICES ASSUME IF b = hd THEN c # Unborn => t = cs[c].tree ELSE SyncedIn(t, cs, rs, hd),
                        NEW h \in Branches, NEW k \in 1 .. Len(cs), LeadsTo(s, h, k, rs, hd)
                 PROVE  t = cs[k].tree
      OBVIOUS
    <3>1. h = hd BY <2>2, <2>3 DEF LeadsTo
    <3>2. k = IF b = hd THEN c ELSE TipIn(rs, hd) BY <2>1, <2>2, <2>3, <3>1 DEF LeadsTo
    <3> QED BY <1>2, <3>2 DEF SyncedIn
  <2> HIDE DEF Mild, Right
  <2>6. TypedIn(s \o q, cs) /\ ((IF b = hd THEN c # Unborn => t = cs[c].tree ELSE SyncedIn(t, cs, rs, hd)) => PlannedIn(s \o q, cs, rs, hd))
    BY <1>1, <2>1, <2>4, <2>5
  <2> QED BY <2>6 DEF s
<1>6. /\ TypedIn(<<Ref(b, c), Log(b, o, c), SetHead(b)>> \o q, cs)
      /\ (c # Unborn => t = cs[c].tree)
           => PlannedIn(<<Ref(b, c), Log(b, o, c), SetHead(b)>> \o q, cs, rs, hd)
  <2> DEFINE s == <<Ref(b, c), Log(b, o, c), SetHead(b)>>
  <2>1. IsSeq(s) /\ Len(s) = 3 BY TupleSeq
  <2>2. /\ s[1].op = "ref" /\ s[1].branch = b /\ s[1].commit = c /\ s[2].op = "log"
        /\ s[3].op = "head" /\ s[3].branch = b
    BY DEF Ref, Log, SetHead
  <2> HIDE DEF s
  <2>3. \A i \in 1 .. Len(s) : i \in {1, 2, 3} BY <2>1
  <2>4. Mild(s) BY <2>2, <2>3
  <2>5. (c # Unborn => t = cs[c].tree) => Right(s)
    <3> SUFFICES ASSUME c # Unborn => t = cs[c].tree,
                        NEW h \in Branches, NEW k \in 1 .. Len(cs), LeadsTo(s, h, k, rs, hd)
                 PROVE  t = cs[k].tree
      OBVIOUS
    <3>0. 1 \in 1 .. Len(s) /\ 3 \in 1 .. Len(s) BY <2>1
    <3>1. h = b BY <2>2, <2>3, <3>0 DEF LeadsTo
    <3>2. k = c BY <2>2, <2>3, <3>0, <3>1 DEF LeadsTo
    <3> QED BY <1>2, <3>2
  <2> HIDE DEF Mild, Right
  <2>6. TypedIn(s \o q, cs) /\ ((c # Unborn => t = cs[c].tree) => PlannedIn(s \o q, cs, rs, hd))
    BY <1>1, <2>1, <2>4, <2>5
  <2> QED BY <2>6 DEF s
<1> HIDE DEF Mild, Right
<1> QED BY <1>3, <1>4, <1>5, <1>6
-----------------------------------------------------------------------------
(* The invariant.                                                           *)

\* A ref to be written is of a commit some branch or ref-log names, of none,
\* or of a child of the tip it replaces.
AddsIn(q, cs, rs, lg) ==
  q[1].op = "ref" =>
    LET b == q[1].branch
        c == q[1].commit
    IN  \/ c = Unborn
        \/ c \in 1 .. Len(cs) /\ \E x \in Branches : rs[x] = c \/ <<x, c>> \in lg
        \/ rs[b] \in {Unborn, Missing}
        \/ c \in 1 .. Len(cs) /\ \E k \in DOMAIN cs[c].parents : cs[c].parents[k] = rs[b]

CommitsIn(cs) ==
  /\ IsSeq(cs)
  /\ \A c \in 1 .. Len(cs) : \A k \in DOMAIN cs[c].parents : cs[c].parents[k] \in 1 .. Len(cs)

WTypes ==
  /\ CommitsIn(commits)
  /\ refs \in [Branches -> {Missing} \union 0 .. Len(commits)]
  /\ head \in Branches
  /\ proc = [p \in Procs |-> proc[p]] /\ \A p \in Procs : DOMAIN proc[p] = {"at", "idx", "tree"}
  /\ todo = [p \in Procs |-> todo[p]]

\* Whatever the others do, the writes a process has left are well formed.
ProcInv(p) ==
  /\ proc[p].at \in {"idle", "scan", "check", "commit", "write"}
  /\ proc[p].at = "check" => p = "watch"
  /\ IF proc[p].at = "write" THEN TypedIn(todo[p], commits) ELSE todo[p] = <<>>

\* p will write before it is idle again: a command always does, the watcher
\* once it has seen a change.
MustWrite(p) ==
  \/ proc[p].at \in {"check", "commit", "write"}
  \/ p = "cli" /\ proc[p].at # "idle"

\* A process has written over the other's writes, or it is bound to.
Tangled ==
  \/ crossed
  \/ \E p \in Procs : p \in behind /\ MustWrite(p)
  \/ \A p \in Procs : MustWrite(p)

\* Until then, unless somebody is writing, the index is the tree of HEAD's tip;
\* who writes has planned to make it so; and a command that has yet to scan
\* holds the index there is.
InStep ==
  /\ proc["cli"].at = "scan" => proc["cli"].idx = index
  /\ \A p \in Procs : proc[p].at = "write" => PlannedIn(todo[p], commits, refs, head)
  /\ (\A p \in Procs : proc[p].at # "write") => SyncedIn(index, commits, refs, head)

WorkInv ==
  /\ WTypes
  /\ \A p \in Procs : ProcInv(p)
  /\ \A p \in Procs : proc[p].at = "write" /\ p \notin behind
                        => AddsIn(todo[p], commits, refs, reflog)
  /\ ~Tangled => InStep

\* WorkInv of the next state, in terms of its values.
InStepIn(pr, td, idx, cs, rs, hd) ==
  /\ pr["cli"].at = "scan" => pr["cli"].idx = idx
  /\ \A p \in Procs : pr[p].at = "write" => PlannedIn(td[p], cs, rs, hd)
  /\ (\A p \in Procs : pr[p].at # "write") => SyncedIn(idx, cs, rs, hd)

LEMMA Primed ==
  WorkInv' <=>
    /\ CommitsIn(commits')
    /\ refs' \in [Branches -> {Missing} \union 0 .. Len(commits')]
    /\ head' \in Branches
    /\ proc' = [p \in Procs |-> proc'[p]] /\ \A p \in Procs : DOMAIN proc'[p] = {"at", "idx", "tree"}
    /\ todo' = [p \in Procs |-> todo'[p]]
    /\ \A p \in Procs :
         /\ proc'[p].at \in {"idle", "scan", "check", "commit", "write"}
         /\ proc'[p].at = "check" => p = "watch"
         /\ IF proc'[p].at = "write" THEN TypedIn(todo'[p], commits') ELSE todo'[p] = <<>>
    /\ \A p \in Procs : proc'[p].at = "write" /\ p \notin behind'
                          => AddsIn(todo'[p], commits', refs', reflog')
    /\ ~Tangled' => InStepIn(proc', todo', index', commits', refs', head')
<1>1. InStep' <=> InStepIn(proc', todo', index', commits', refs', head')
  BY DEF InStep, InStepIn, PlannedIn, TypedIn, SyncedIn, LeadsTo, TipIn, IsSeq
<1> QED BY <1>1 DEF WorkInv, WTypes, ProcInv, TypedIn, AddsIn, CommitsIn, IsSeq

LEMMA HeadFacts ==
  ASSUME WorkInv
  PROVE  /\ HeadBranch = head /\ HeadBranch \in Branches
         /\ HeadCommit = TipIn(refs, head) /\ HeadCommit \in 0 .. Len(commits)
         /\ HeadCommit # Unborn => HeadCommit = refs[head] /\ HeadCommit \in 1 .. Len(commits)
         /\ Len(commits) \in Nat /\ DOMAIN commits = 1 .. Len(commits)
<1>1. head \in Branches /\ refs \in [Branches -> {Missing} \union 0 .. Len(commits)] /\ IsSeq(commits)
  BY DEF WorkInv, WTypes, CommitsIn
<1>2. HeadBranch = head BY <1>1, TornAssumption DEF HeadBranch
<1>3. Len(commits) \in Nat /\ DOMAIN commits = 1 .. Len(commits)
  <2>1. commits \in Seq({commits[i] : i \in 1 .. Len(commits)}) BY <1>1 DEF IsSeq
  <2> QED BY <2>1, LenProperties
<1>4. HeadCommit = TipIn(refs, head) BY <1>2 DEF HeadCommit, GetRef, TipIn
<1> QED BY <1>1, <1>2, <1>3, <1>4 DEF TipIn, Unborn, Missing

\* A repository whose commits are those there are, and perhaps more.
Grows(cs) ==
  /\ CommitsIn(cs) /\ Len(cs) \in Nat
  /\ \A c \in 0 .. Len(commits) : c \in 0 .. Len(cs)
  /\ \A c \in 1 .. Len(commits) : c \in 1 .. Len(cs) /\ cs[c] = commits[c]

LEMMA Grown ==
  ASSUME NEW cs, Grows(cs), NEW q
  PROVE  /\ TypedIn(q, commits) => TypedIn(q, cs)
         /\ \A rs, lg : AddsIn(q, commits, rs, lg) => AddsIn(q, cs, rs, lg)
<1>1. TypedIn(q, commits) => TypedIn(q, cs) BY DEF TypedIn, Grows
<1>2. ASSUME NEW rs, NEW lg, AddsIn(q, commits, rs, lg) PROVE AddsIn(q, cs, rs, lg)
  BY <1>2 DEF AddsIn, Grows
<1> QED BY <1>1, <1>2

\* Making a commit leaves the others as they are.
LEMMA CommitAdded ==
  ASSUME CommitsIn(commits), NEW e, \A k \in DOMAIN e.parents : e.parents[k] \in 1 .. Len(commits)
  PROVE  /\ Grows(Append(commits, e)) /\ Grows(commits \o <<e>>) /\ Len(commits) \in Nat
         /\ \A cs \in {Append(commits, e), commits \o <<e>>} :
               /\ Len(cs) = Len(commits) + 1 /\ cs[Len(commits) + 1] = e
               /\ \A c \in 1 .. Len(commits) : cs[c] = commits[c]
<1> DEFINE n == Len(commits)
           S == {commits[c] : c \in 1 .. n} \union {e}
<1>1. IsSeq(commits) /\ n \in Nat BY DEF CommitsIn, IsSeq
<1>2. Append(commits, e) = commits \o <<e>>
  <2>1. commits \in [1 .. n -> {commits[c] : c \in 1 .. n}]
    BY <1>1, LenProperties DEF IsSeq
  <2>2. commits \in [1 .. n -> S] BY <2>1
  <2>3. commits \in Seq(S)
    <3> HIDE DEF S, n
    <3> QED BY <1>1, <2>2, SeqDef
  <2>4. e \in S OBVIOUS
  <2> HIDE DEF S, n
  <2> QED BY <2>3, <2>4, AppendIsConcat
<1> DEFINE cs == commits \o <<e>>
<1>3. /\ IsSeq(cs) /\ Len(cs) = n + 1
      /\ \A c \in 1 .. n : cs[c] = commits[c]
      /\ \A i \in 1 .. 1 : cs[n + i] = <<e>>[i]
  BY <1>1, TupleSeq, SeqConcat
<1>4. cs[n + 1] = e BY <1>3
<1> HIDE DEF cs
<1>5. CommitsIn(cs)
  <2> SUFFICES ASSUME NEW c \in 1 .. Len(cs), NEW k \in DOMAIN cs[c].parents
               PROVE  cs[c].parents[k] \in 1 .. Len(cs)
    BY <1>3 DEF CommitsIn
  <2>1. CASE c = n + 1 BY <1>1, <1>3, <1>4, <2>1
  <2>2. CASE c # n + 1
    <3>1. c \in 1 .. n BY <1>1, <1>3, <2>2
    <3>2. cs[c] = commits[c] BY <1>3, <3>1
    <3>3. commits[c].parents[k] \in 1 .. n BY <3>1, <3>2 DEF CommitsIn
    <3> QED BY <1>1, <1>3, <3>2, <3>3
  <2> QED BY <2>1, <2>2
<1>6. Grows(cs)
  <2>1. \A c \in 0 .. n : c \in 0 .. Len(cs) BY <1>1, <1>3
  <2>2. \A c \in 1 .. n : c \in 1 .. Len(cs) BY <1>1, <1>3
  <2> QED BY <1>1, <1>3, <1>5, <2>1, <2>2 DEF Grows
<1> QED BY <1>1, <1>2, <1>3, <1>4, <1>6 DEF cs

LEMMA NoneAdded ==
  ASSUME CommitsIn(commits) PROVE Grows(commits) /\ commits \o <<>> = commits /\ Len(commits) \in Nat
<1>1. commits \o <<>> = commits BY ConcatEmptySeq DEF CommitsIn, IsSeq
<1> QED BY <1>1 DEF Grows, CommitsIn, IsSeq

LEMMA WorkStart == Init => WorkInv
<1> SUFFICES ASSUME Init PROVE WorkInv OBVIOUS
<1>1. /\ proc = [p \in Procs |-> Idle] /\ todo = [p \in Procs |-> <<>>] /\ head = Main BY DEF Init
<1>2. /\ CommitsIn(commits)
      /\ refs \in [Branches -> {Missing} \union 0 .. Len(commits)]
      /\ SyncedIn(index, commits, refs, head)
  <2>1. CASE commits = <<>> /\ refs = [b \in Branches |-> Missing]
    <3>1. CommitsIn(commits) BY <2>1, TupleSeq DEF CommitsIn
    <3> QED BY <1>1, <2>1, <3>1, FilesAssumption DEF SyncedIn, TipIn
  <2>2. ASSUME NEW b \in Branches \ {Main}, NEW f, NEW g, Diverged(b, f, g)
        PROVE  /\ CommitsIn(commits)
               /\ refs \in [Branches -> {Missing} \union 0 .. Len(commits)]
               /\ SyncedIn(index, commits, refs, head)
    <3> DEFINE t(x, y) == [p \in Files |-> CASE p = f -> x [] p = g -> y [] OTHER -> NoFile]
               c1 == [tree |-> t(1, NoFile), built |-> "scan", parents |-> <<>>]
               c2 == [tree |-> t(2, NoFile), built |-> "scan", parents |-> <<1>>]
               c3 == [tree |-> t(1, 1), built |-> "scan", parents |-> <<1>>]
    <3>1. /\ commits = <<c1, c2, c3>>
          /\ refs = [x \in Branches |-> IF x = Main THEN 2 ELSE IF x = b THEN 3 ELSE Missing]
          /\ index = t(2, NoFile)
      BY <2>2 DEF Diverged
    <3>2. c2.tree = t(2, NoFile) OBVIOUS
    <3>3. /\ \A k \in DOMAIN c1.parents : FALSE
          /\ \A k \in DOMAIN c2.parents : c2.parents[k] = 1
          /\ \A k \in DOMAIN c3.parents : c3.parents[k] = 1
      OBVIOUS
    <3> HIDE DEF c1, c2, c3, t
    <3>4. IsSeq(commits) /\ Len(commits) = 3 BY <3>1, TupleSeq
    <3>5. commits[1] = c1 /\ commits[2] = c2 /\ commits[3] = c3 BY <3>1
    <3>6. \A c \in 1 .. Len(commits) : c \in {1, 2, 3} BY <3>4
    <3>7. CommitsIn(commits) BY <3>3, <3>4, <3>5, <3>6 DEF CommitsIn
    <3>8. refs \in [Branches -> {Missing} \union 0 .. Len(commits)] BY <3>1, <3>4
    <3>9. TipIn(refs, head) = 2 BY <1>1, <3>1, FilesAssumption DEF TipIn, Missing
    <3> QED BY <3>1, <3>2, <3>5, <3>7, <3>8, <3>9 DEF SyncedIn
  <2> QED BY <2>1, <2>2 DEF Init
<1>3. WTypes BY <1>1, <1>2, FilesAssumption DEF WTypes, Idle
<1>4. \A p \in Procs : proc[p].at = "idle" /\ todo[p] = <<>> BY <1>1 DEF Idle
<1>5. "cli" \in Procs BY DEF Procs
<1> QED BY <1>2, <1>3, <1>4, <1>5 DEF WorkInv, ProcInv, InStep
-----------------------------------------------------------------------------
(* Steps.                                                                   *)

\* What p can rely on as long as nobody gets in its way.
Known(p) ==
  /\ SyncedIn(index, commits, refs, head)
  /\ p = "cli" /\ proc[p].at = "scan" => proc[p].idx = index

\* The writes ws are well formed and add to a branch; if p was not misled,
\* they leave the index in step.
Plan(p, ws, cs) ==
  /\ TypedIn(ws, cs) /\ AddsIn(ws, cs, refs, reflog)
  /\ Known(p) => PlannedIn(ws, cs, refs, head)

LEMMA TwoProcs == \A p, q, x \in Procs : q # p /\ x # p => q = x
BY DEF Procs

\* A process that goes on does not disentangle itself.
LEMMA StaysTangled ==
  ASSUME crossed' = crossed,
         \A x \in Procs : MustWrite(x) => MustWrite(x)' /\ (x \in behind => x \in behind')
  PROVE  Tangled => Tangled'
BY DEF Tangled

\* p plans the writes ws.
LEMMA Planning ==
  ASSUME WorkInv, NEW p \in Procs, NEW ws, Goes(p, ws), proc[p].at # "write",
         UNCHANGED <<index, refs, head, reflog, crossed>>,
         behind' = behind \/ (proc[p].at = "idle" /\ behind' = behind \ {p}),
         Grows(commits'),
         ws = <<>> => commits' = commits /\ p = "watch" /\ proc[p].at = "scan",
         ws # <<>> => Plan(p, ws, commits')
  PROVE  WorkInv'
<1>1. /\ proc' = [proc EXCEPT ![p].at = IF ws = <<>> THEN "idle" ELSE "write"]
      /\ todo' = [todo EXCEPT ![p] = ws]
  BY DEF Goes
<1>2. /\ proc = [q \in Procs |-> proc[q]] /\ todo = [q \in Procs |-> todo[q]]
      /\ \A q \in Procs : DOMAIN proc[q] = {"at", "idx", "tree"} /\ ProcInv(q)
  BY DEF WorkInv, WTypes
<1>3. /\ proc' = [q \in Procs |-> proc'[q]] /\ \A q \in Procs : DOMAIN proc'[q] = {"at", "idx", "tree"}
      /\ todo' = [q \in Procs |-> todo'[q]]
      /\ proc'[p].at = (IF ws = <<>> THEN "idle" ELSE "write") /\ todo'[p] = ws
      /\ \A q \in Procs : q # p => proc'[q] = proc[q] /\ todo'[q] = todo[q]
  BY <1>1, <1>2
<1>4. CommitsIn(commits') /\ head \in Branches
      /\ refs \in [Branches -> {Missing} \union 0 .. Len(commits')]
  BY DEF WorkInv, WTypes, Grows
<1>5. ASSUME NEW q \in Procs
      PROVE  /\ proc'[q].at \in {"idle", "scan", "check", "commit", "write"}
             /\ proc'[q].at = "check" => q = "watch"
             /\ IF proc'[q].at = "write" THEN TypedIn(todo'[q], commits') ELSE todo'[q] = <<>>
             /\ proc'[q].at = "write" /\ q \notin behind' => AddsIn(todo'[q], commits', refs, reflog)
  <2>1. CASE q = p /\ ws = <<>> BY <1>3, <2>1
  <2>2. CASE q = p /\ ws # <<>> BY <1>3, <2>2 DEF Plan
  <2>3. CASE q # p
    <3>1. proc'[q] = proc[q] /\ todo'[q] = todo[q] /\ ProcInv(q) BY <1>2, <1>3, <2>3
    <3>2. q \notin behind' => q \notin behind BY <2>3
    <3>3. proc[q].at = "write" /\ q \notin behind => AddsIn(todo[q], commits, refs, reflog)
      BY DEF WorkInv
    <3> QED BY <3>1, <3>2, <3>3, Grown DEF ProcInv
  <2> QED BY <2>1, <2>2, <2>3
<1>6. ASSUME ~Tangled' PROVE InStepIn(proc', todo', index, commits', refs, head)
  <2>1. ~Tangled
    <3>1. ASSUME NEW x \in Procs, MustWrite(x) PROVE MustWrite(x)' /\ (x \in behind => x \in behind')
      <4>1. CASE x # p BY <1>3, <3>1, <4>1 DEF MustWrite
      <4>2. CASE x = p /\ ws = <<>> BY <3>1, <4>2 DEF MustWrite
      <4>3. CASE x = p /\ ws # <<>>
        <5>1. proc[p].at # "idle" BY <3>1, <4>3 DEF MustWrite
        <5> QED BY <1>3, <4>3, <5>1 DEF MustWrite
      <4> QED BY <4>1, <4>2, <4>3
    <3> QED BY <1>6, <3>1, StaysTangled
  <2>2. InStep BY <2>1 DEF WorkInv
  <2>3. CASE ws = <<>>
    <3>1. proc'[p].at = "idle" /\ p = "watch" /\ commits' = commits BY <1>3, <2>3
    <3>2. "cli" \in Procs /\ "cli" # "watch" BY DEF Procs
    <3>3. proc'["cli"] = proc["cli"] BY <1>3, <3>1, <3>2
    <3>4. \A q \in Procs : proc'[q].at = "write" => proc[q].at = "write" /\ todo'[q] = todo[q]
      BY <1>3, <3>1
    <3>5. (\A q \in Procs : proc'[q].at # "write") => \A q \in Procs : proc[q].at # "write"
      BY <1>3
    <3> QED BY <2>2, <3>1, <3>3, <3>4, <3>5 DEF InStep, InStepIn
  <2>4. CASE ws # <<>>
    <3>1. MustWrite(p)' /\ proc'[p].at = "write" BY <1>3, <2>4 DEF MustWrite
    <3>2. PICK x \in Procs : ~MustWrite(x)' BY <1>6 DEF Tangled
    <3>3. ASSUME NEW q \in Procs, q # p
          PROVE  proc'[q].at # "write" /\ proc[q].at # "write" /\ (q = "cli" => proc'[q].at = "idle")
      <4>1. q = x BY <3>1, <3>2, <3>3, TwoProcs
      <4>2. ~MustWrite(q)' BY <3>2, <4>1
      <4> QED BY <1>3, <3>3, <4>2 DEF MustWrite
    <3>4. \A q \in Procs : proc[q].at # "write" BY <3>3
    <3>5. Known(p) BY <2>2, <3>4 DEF InStep, Known
    <3>6. PlannedIn(ws, commits', refs, head) BY <2>4, <3>5 DEF Plan
    <3>7. "cli" \in Procs BY DEF Procs
    <3>8. proc'["cli"].at # "scan" BY <3>1, <3>3, <3>7
    <3>9. \A q \in Procs : proc'[q].at = "write" => q = p /\ todo'[q] = ws BY <1>3, <3>3
    <3> QED BY <3>1, <3>6, <3>8, <3>9 DEF InStepIn
  <2> QED BY <2>3, <2>4
<1> QED BY <1>3, <1>4, <1>5, <1>6, Primed

\* p goes on without writing.
LEMMA Going ==
  ASSUME WorkInv, NEW p \in Procs, NEW a \in {"check", "commit", "scan"},
         proc[p].at # "write", proc' = [proc EXCEPT ![p] = proc'[p]],
         DOMAIN proc'[p] = {"at", "idx", "tree"}, proc'[p].at = a,
         a = "check" => p = "watch", a = "scan" => proc'[p].idx = index /\ proc[p].at = "idle",
         behind' = behind \/ (proc[p].at = "idle" /\ behind' = behind \ {p}),
         UNCHANGED <<index, commits, refs, head, reflog, todo, crossed>>
  PROVE  WorkInv'
<1>1. /\ proc = [q \in Procs |-> proc[q]] /\ todo = [q \in Procs |-> todo[q]]
      /\ \A q \in Procs : DOMAIN proc[q] = {"at", "idx", "tree"} /\ ProcInv(q)
      /\ CommitsIn(commits) /\ refs \in [Branches -> {Missing} \union 0 .. Len(commits)]
      /\ head \in Branches
  BY DEF WorkInv, WTypes
<1>2. todo[p] = <<>> /\ proc'[p].at # "write" BY <1>1 DEF ProcInv
<1>3. \A q \in Procs : q # p => proc'[q] = proc[q] BY <1>1
<1>4. proc' = [q \in Procs |-> proc'[q]] BY <1>1
<1>5. ASSUME NEW q \in Procs
      PROVE  /\ DOMAIN proc'[q] = {"at", "idx", "tree"}
             /\ proc'[q].at \in {"idle", "scan", "check", "commit", "write"}
             /\ proc'[q].at = "check" => q = "watch"
             /\ IF proc'[q].at = "write" THEN TypedIn(todo[q], commits) ELSE todo[q] = <<>>
             /\ proc'[q].at = "write" /\ q \notin behind' => AddsIn(todo[q], commits, refs, reflog)
  <2>1. CASE q = p BY <1>2, <2>1
  <2>2. CASE q # p
    <3>1. q \notin behind' => q \notin behind BY <2>2
    <3> QED BY <1>1, <1>3, <2>2, <3>1 DEF WorkInv, ProcInv
  <2> QED BY <2>1, <2>2
<1>6. ASSUME ~Tangled' PROVE InStepIn(proc', todo, index, commits, refs, head)
  <2>1. ~Tangled
    <3>1. ASSUME NEW x \in Procs, MustWrite(x) PROVE MustWrite(x)' /\ (x \in behind => x \in behind')
      <4>1. CASE x # p BY <1>3, <3>1, <4>1 DEF MustWrite
      <4>2. CASE x = p BY <3>1, <4>2 DEF MustWrite
      <4> QED BY <4>1, <4>2
    <3> QED BY <1>6, <3>1, StaysTangled
  <2>2. InStep BY <2>1 DEF WorkInv
  <2>3. \A q \in Procs : proc'[q].at = "write" <=> proc[q].at = "write" BY <1>2, <1>3
  <2>4. proc'["cli"].at = "scan" => proc'["cli"].idx = index
    <3>1. "cli" \in Procs BY DEF Procs
    <3>2. CASE p = "cli" BY <3>2
    <3>3. CASE p # "cli" BY <1>3, <2>2, <3>1, <3>3 DEF InStep
    <3> QED BY <3>2, <3>3
  <2> QED BY <2>2, <2>3, <2>4 DEF InStep, InStepIn
<1> QED BY <1>1, <1>4, <1>5, <1>6, Primed

LEMMA SavesAdd ==
  ASSUME NEW t, NEW cs, NEW rs, NEW lg
  PROVE  /\ AddsIn(<<Save(t)>>, cs, rs, lg)
         /\ \A u, fs : AddsIn(<<Put(u, fs), Save(t)>>, cs, rs, lg)
BY DEF AddsIn, Save, Put

LEMMA LoadStep ==
  ASSUME WorkInv, NEW p \in Procs, IsIdle(p), Load(p)
  PROVE  WorkInv'
<1>1. proc' = [proc EXCEPT ![p] = [at |-> "scan", idx |-> index, tree |-> NoTree]] BY DEF Load
<1>2. proc = [q \in Procs |-> proc[q]] /\ proc[p].at = "idle" BY DEF WorkInv, WTypes, IsIdle
<1>3. proc'[p] = [at |-> "scan", idx |-> index, tree |-> NoTree] BY <1>1, <1>2
<1>4. /\ UNCHANGED <<index, commits, refs, head, reflog, todo, crossed>>
      /\ behind' = behind \ {p}
  BY DEF Load, Begins
<1>5. /\ proc' = [proc EXCEPT ![p] = proc'[p]] /\ DOMAIN proc'[p] = {"at", "idx", "tree"}
      /\ proc'[p].at = "scan" /\ proc'[p].idx = index
  BY <1>1, <1>2, <1>3
<1> QED BY <1>2, <1>4, <1>5, Going

LEMMA ScanStep == ASSUME WorkInv, NEW p \in Procs, Scan(p) PROVE WorkInv'
<1>1. /\ proc[p].at = "scan"
      /\ UNCHANGED <<index, commits, refs, head, reflog, behind, crossed>>
  BY DEF Scan, past
<1>2. CommitsIn(commits) /\ head \in Branches BY DEF WorkInv, WTypes
<1>3. Grows(commits') /\ Len(commits) \in Nat BY <1>1, <1>2, NoneAdded
<1>4. CASE p = "watch" /\ Goes(p, <<>>) BY <1>1, <1>3, <1>4, Planning
<1>5. CASE p = "cli" /\ Goes(p, <<Save(proc[p].idx)>>)
  <2> DEFINE t == proc[p].idx
  <2>1. Known(p) => SyncedIn(t, commits, refs, head) BY <1>1, <1>5 DEF Known
  <2>2. Goes(p, <<Save(t)>>) BY <1>5
  <2> HIDE DEF t
  <2>3. /\ TypedIn(<<Save(t)>>, commits)
        /\ SyncedIn(t, commits, refs, head) => PlannedIn(<<Save(t)>>, commits, refs, head)
    BY <1>2, <1>3, Endings, Plans, 0 \in 0 .. Len(commits)
  <2>4. AddsIn(<<Save(t)>>, commits, refs, reflog) /\ <<Save(t)>> # <<>> BY SavesAdd
  <2>5. Plan(p, <<Save(t)>>, commits') BY <1>1, <2>1, <2>3, <2>4 DEF Plan
  <2> QED BY <1>1, <1>3, <2>2, <2>4, <2>5, Planning
<1>6. ASSUME NEW t, proc' = [proc EXCEPT ![p].at = IF p = "watch" THEN "check" ELSE "commit", ![p].tree = t],
             UNCHANGED todo
      PROVE  WorkInv'
  <2>1. DOMAIN proc[p] = {"at", "idx", "tree"} /\ proc = [q \in Procs |-> proc[q]] BY DEF WorkInv, WTypes
  <2>2. /\ proc' = [proc EXCEPT ![p] = proc'[p]] /\ DOMAIN proc'[p] = {"at", "idx", "tree"}
        /\ proc'[p].at = IF p = "watch" THEN "check" ELSE "commit"
    BY <1>6, <2>1
  <2> QED BY <1>1, <1>6, <2>2, Going
<1>7. p = "watch" \/ p = "cli" BY DEF Procs
<1> QED BY <1>4, <1>5, <1>6, <1>7 DEF Scan

LEMMA CheckStep == ASSUME WorkInv, Check PROVE WorkInv'
<1> DEFINE p == "watch"
<1>0. p \in Procs BY DEF Procs
<1>1. /\ proc[p].at = "check"
      /\ UNCHANGED <<index, commits, refs, head, reflog, behind, crossed>>
  BY DEF Check, past
<1>2. CommitsIn(commits) /\ head \in Branches BY DEF WorkInv, WTypes
<1>3. Grows(commits') /\ Len(commits) \in Nat BY <1>1, <1>2, NoneAdded
<1>4. CASE HeadCommit # Unborn /\ HasTree(HeadCommit, proc[p].tree) /\ Goes(p, <<Save(proc[p].tree)>>)
  <2> DEFINE t == proc[p].tree
  <2>1. SyncedIn(t, commits, refs, head) BY <1>4, HeadFacts DEF SyncedIn, HasTree
  <2> HIDE DEF t
  <2>2. TypedIn(<<Save(t)>>, commits) /\ PlannedIn(<<Save(t)>>, commits, refs, head)
    BY <1>2, <1>3, <2>1, Endings, Plans, 0 \in 0 .. Len(commits)
  <2>3. AddsIn(<<Save(t)>>, commits, refs, reflog) /\ <<Save(t)>> # <<>> BY SavesAdd
  <2>4. Goes(p, <<Save(t)>>) BY <1>4 DEF t
  <2> HIDE DEF p
  <2>5. Plan(p, <<Save(t)>>, commits') BY <1>1, <2>2, <2>3 DEF Plan
  <2> QED BY <1>0, <1>1, <1>3, <2>3, <2>4, <2>5, Planning
<1>5. CASE proc' = [proc EXCEPT !["watch"].at = "commit"] /\ UNCHANGED todo
  <2>1. DOMAIN proc[p] = {"at", "idx", "tree"} /\ proc = [q \in Procs |-> proc[q]] BY <1>0 DEF WorkInv, WTypes
  <2>2. /\ proc' = [proc EXCEPT ![p] = proc'[p]] /\ DOMAIN proc'[p] = {"at", "idx", "tree"}
        /\ proc'[p].at = "commit"
    BY <1>0, <1>5, <2>1
  <2> HIDE DEF p
  <2> QED BY <1>0, <1>1, <1>5, <2>2, Going
<1> QED BY <1>4, <1>5 DEF Check

LEMMA CommitStep == ASSUME WorkInv, NEW p \in Procs, Commit(p) PROVE WorkInv'
<1> DEFINE tip == HeadCommit
           n == Len(commits) + 1
           t == proc[p].tree
           e == [tree |-> t, built |-> "scan", parents |-> IF tip = Unborn THEN <<>> ELSE <<tip>>]
           m == <<Ref(head, n), Log(head, tip, n)>>
           end == <<Save(t)>> \o (IF p = "cli" THEN <<Save(t)>> ELSE <<>>)
<1>1. proc[p].at = "commit" /\ UNCHANGED <<behind, crossed>> BY DEF Commit, past
<1>2. /\ HeadBranch = head /\ head \in Branches /\ tip = TipIn(refs, head)
      /\ tip # Unborn => tip = refs[head] /\ tip \in 1 .. Len(commits)
      /\ Len(commits) \in Nat
  BY HeadFacts
<1>3. /\ commits' = Append(commits, e)
      /\ Goes(p, <<Ref(head, n), Log(head, tip, n), Save(t)>> \o (IF p = "cli" THEN <<Save(t)>> ELSE <<>>))
      /\ UNCHANGED <<index, refs, head, reflog>>
  BY <1>2 DEF Commit
<1>4. CommitsIn(commits) BY DEF WorkInv, WTypes
<1>5. /\ e.parents = IF tip = Unborn THEN <<>> ELSE <<tip>>
      /\ e.tree = t
  OBVIOUS
<1> HIDE DEF e, tip, t
<1>6. \A k \in DOMAIN e.parents : e.parents[k] \in 1 .. Len(commits) BY <1>2, <1>5
<1>7. /\ Grows(commits') /\ Len(commits') = n /\ commits'[n] = e
  BY <1>3, <1>4, <1>6, CommitAdded
<1>8. <<Ref(head, n), Log(head, tip, n), Save(t)>> \o (IF p = "cli" THEN <<Save(t)>> ELSE <<>>) = m \o end
  OBVIOUS
<1>9. Ending(end, t)
  <2>1. \A x : <<x>> \o <<>> = <<x>> /\ <<x>> \o <<x>> = <<x, x>>
    <3>1. \A x : <<x>> \o <<>> = <<x>> OBVIOUS
    <3> QED BY <3>1, TupleConcat
  <2>2. end = <<Save(t)>> \/ end = <<Save(t), Save(t)>>
    <3>1. CASE p = "cli" BY <2>1, <3>1
    <3>2. CASE p # "cli" BY <2>1, <3>2
    <3> QED BY <3>1, <3>2
  <2> HIDE DEF end
  <2> QED BY <2>2, Endings
<1>10. /\ (m \o end)[1] = Ref(head, n) /\ m \o end # <<>> OBVIOUS
<1> HIDE DEF end, m
<1>11. n \in 0 .. Len(commits') /\ n \in 1 .. Len(commits') /\ Len(commits') \in Nat BY <1>2, <1>7
<1>12. TypedIn(m \o end, commits') /\ PlannedIn(m \o end, commits', refs, head)
  <2>1. (IF head = head THEN n # Unborn => t = commits'[n].tree ELSE SyncedIn(t, commits', refs, head))
    BY <1>5, <1>7
  <2> QED BY <1>2, <1>9, <1>11, <2>1, Plans DEF m
<1>13. AddsIn(m \o end, commits', refs, reflog)
  <2>1. CASE tip = Unborn
    <3>1. refs[head] \in {Unborn, Missing} BY <1>2, <2>1 DEF TipIn
    <3> QED BY <1>10, <3>1 DEF AddsIn, Ref
  <2>2. CASE tip # Unborn
    <3>1. 1 \in DOMAIN e.parents /\ e.parents[1] = refs[head] BY <1>2, <1>5, <2>2
    <3> QED BY <1>7, <1>10, <1>11, <3>1 DEF AddsIn, Ref
  <2> QED BY <2>1, <2>2
<1>14. Plan(p, m \o end, commits') BY <1>12, <1>13 DEF Plan
<1>15. Goes(p, m \o end) BY <1>3, <1>8
<1> QED BY <1>1, <1>3, <1>7, <1>10, <1>14, <1>15, Planning
-----------------------------------------------------------------------------
(* Commands.                                                                *)

\* What Runs writes: ws, and if that does not save the index, the index too.
Closed(ws) == IF \E i \in DOMAIN ws : ws[i].op = "index" THEN ws ELSE Append(ws, Save(index))

LEMMA ClosedAlready ==
  ASSUME NEW ws, IsSeq(ws), NEW i \in 1 .. Len(ws), ws[i].op = "index" PROVE Closed(ws) = ws
<1>1. DOMAIN ws = 1 .. Len(ws) BY LenProperties DEF IsSeq
<1> QED BY <1>1 DEF Closed

LEMMA ClosedLast ==
  /\ Closed(<< >>) = <<Save(index)>>
  /\ \A a : a.op # "index" => Closed(<<a>>) = <<a>> \o <<Save(index)>>
                              /\ Closed(<<a>>) = <<a, Save(index)>>
  /\ \A a, b : a.op # "index" /\ b.op # "index" => Closed(<<a, b>>) = <<a, b>> \o <<Save(index)>>
  /\ \A a, b, c : a.op # "index" /\ b.op # "index" /\ c.op # "index"
                    => Closed(<<a, b, c>>) = <<a, b, c>> \o <<Save(index)>>
<1>1. Closed(<< >>) = <<Save(index)>> BY DEF Closed
<1>2. ASSUME NEW a, a.op # "index"
      PROVE  Closed(<<a>>) = <<a>> \o <<Save(index)>> /\ Closed(<<a>>) = <<a, Save(index)>>
  <2>1. Closed(<<a>>) = <<a>> \o <<Save(index)>> BY <1>2 DEF Closed
  <2> QED BY <2>1, TupleConcat
<1>3. ASSUME NEW a, NEW b, a.op # "index", b.op # "index"
      PROVE  Closed(<<a, b>>) = <<a, b>> \o <<Save(index)>>
  BY <1>3 DEF Closed
<1>4. ASSUME NEW a, NEW b, NEW c, a.op # "index", b.op # "index", c.op # "index"
      PROVE  Closed(<<a, b, c>>) = <<a, b, c>> \o <<Save(index)>>
  BY <1>4 DEF Closed
<1> QED BY <1>1, <1>2, <1>3, <1>4

\* Such a command keeps the invariant if what it plans is a plan.
LEMMA RunsStep ==
  ASSUME WorkInv, NEW ws, NEW made, Runs(ws, made),
         \/ made = <<>>
         \/ \E e : made = <<e>> /\ \A k \in DOMAIN e.parents : e.parents[k] \in 1 .. Len(commits),
         Plan("cli", Closed(ws), commits \o made)
  PROVE  WorkInv'
<1>1. /\ commits' = commits \o made /\ Goes("cli", Closed(ws))
      /\ UNCHANGED <<index, refs, head, reflog, crossed>>
      /\ proc["cli"].at = "idle" /\ behind' = behind \ {"cli"}
  BY DEF Runs, Command, IsIdle, Closed, Begins
<1>2. CommitsIn(commits) BY DEF WorkInv, WTypes
<1>3. Grows(commits') BY <1>1, <1>2, NoneAdded, CommitAdded
<1>4. Closed(ws) # <<>>
  <2>1. Len(Closed(ws)) # 0 BY DEF Plan, TypedIn
  <2> QED BY <2>1, EmptySeq
<1>5. "cli" \in Procs BY DEF Procs
<1> QED BY <1>1, <1>3, <1>4, <1>5, Planning

LEMMA Sound ==
  ASSUME WorkInv PROVE commits \o <<>> = commits /\ head \in Branches /\ Len(commits) \in Nat
BY NoneAdded DEF WorkInv, WTypes

\* A move of the branch b to a commit c that is named, or to none, that ends in q.
LEMMA MovesTo ==
  ASSUME WorkInv, NEW b \in Branches, NEW o, NEW c \in 0 .. Len(commits),
         c = Unborn \/ c \in Named, NEW q
  PROVE  LET m == <<Ref(b, c), Log(b, o, c)>> \o q
         IN  IsSeq(q) => AddsIn(m, commits, refs, reflog)
<1> DEFINE m == <<Ref(b, c), Log(b, o, c)>> \o q
<1> SUFFICES ASSUME IsSeq(q) PROVE AddsIn(m, commits, refs, reflog) OBVIOUS
<1>1. IsSeq(<<Ref(b, c), Log(b, o, c)>>) /\ Len(<<Ref(b, c), Log(b, o, c)>>) = 2 BY TupleSeq
<1>2. m[1] = Ref(b, c) BY <1>1, SeqConcat
<1>3. c # Unborn => c \in 1 .. Len(commits) /\ \E x \in Branches : refs[x] = c \/ <<x, c>> \in reflog
  BY HeadFacts DEF Named
<1> HIDE DEF m
<1> QED BY <1>2, <1>3 DEF AddsIn, Ref

LEMMA StatusStep == ASSUME WorkInv, CmdStatus PROVE WorkInv'
<1>1. Runs(<<>>, <<>>) BY DEF CmdStatus
<1>2. commits \o <<>> = commits /\ head \in Branches /\ Len(commits) \in Nat BY Sound
<1>3. /\ TypedIn(<<Save(index)>>, commits)
      /\ SyncedIn(index, commits, refs, head) => PlannedIn(<<Save(index)>>, commits, refs, head)
  BY <1>2, Endings, Plans, 0 \in 0 .. Len(commits)
<1>4. AddsIn(<<Save(index)>>, commits, refs, reflog) BY SavesAdd
<1>5. Plan("cli", Closed(<<>>), commits \o <<>>) BY <1>2, <1>3, <1>4, ClosedLast DEF Plan, Known
<1> QED BY <1>1, <1>5, RunsStep

LEMMA BranchStep == ASSUME WorkInv, NEW b \in Branches, CmdBranch(b) PROVE WorkInv'
<1> DEFINE c == HeadCommit
           o == GetRef(b)
           m == <<Ref(b, c), Log(b, o, c)>>
<1>1. Runs(m, <<>>) BY DEF CmdBranch
<1>2. commits \o <<>> = commits /\ head \in Branches /\ Len(commits) \in Nat BY Sound
<1>3. /\ c = TipIn(refs, head) /\ c \in 0 .. Len(commits)
      /\ c # Unborn => c \in Named
  BY HeadFacts DEF Named
<1>4. SyncedIn(index, commits, refs, head) => (c # Unborn => index = commits[c].tree)
  BY <1>3 DEF SyncedIn
<1>5. Ref(b, c).op # "index" /\ Log(b, o, c).op # "index" BY DEF Ref, Log
<1>6. IsSeq(<<Save(index)>>) /\ Ending(<<Save(index)>>, index) BY Endings DEF Ending
<1> HIDE DEF c, o
<1>7. Closed(m) = m \o <<Save(index)>> BY <1>5, ClosedLast
<1>8. /\ TypedIn(m \o <<Save(index)>>, commits)
      /\ SyncedIn(index, commits, refs, head) => PlannedIn(m \o <<Save(index)>>, commits, refs, head)
  <2>1. SyncedIn(index, commits, refs, head) =>
          IF b = head THEN c # Unborn => index = commits[c].tree ELSE SyncedIn(index, commits, refs, head)
    BY <1>4
  <2> QED BY <1>2, <1>3, <1>6, <2>1, Plans
<1>9. AddsIn(m \o <<Save(index)>>, commits, refs, reflog) BY <1>3, <1>6, MovesTo
<1> HIDE DEF m
<1>10. Plan("cli", Closed(m), commits \o <<>>) BY <1>2, <1>7, <1>8, <1>9 DEF Plan, Known
<1> QED BY <1>1, <1>10, RunsStep

LEMMA CheckoutNewStep ==
  ASSUME WorkInv, NEW b \in Branches, CmdCheckoutNew(b) PROVE WorkInv'
<1> DEFINE c == HeadCommit
           m == <<Ref(b, c), Log(b, Unborn, c), SetHead(b)>>
<1>1. Runs((IF c = Unborn THEN <<>> ELSE <<Ref(b, c), Log(b, Unborn, c)>>) \o <<SetHead(b)>>, <<>>)
      /\ refs[b] = Missing
  BY DEF CmdCheckoutNew
<1>2. commits \o <<>> = commits /\ head \in Branches /\ Len(commits) \in Nat BY Sound
<1>3. c = TipIn(refs, head) /\ c \in 0 .. Len(commits) BY HeadFacts
<1>4. SyncedIn(index, commits, refs, head) => (c # Unborn => index = commits[c].tree)
  BY <1>3 DEF SyncedIn
<1>5. Ref(b, c).op # "index" /\ Log(b, Unborn, c).op # "index" /\ SetHead(b).op # "index"
      /\ SetHead(b).op = "head" /\ Ref(b, c).op = "ref" /\ Ref(b, c).branch = b
  BY DEF Ref, Log, SetHead
<1>6. Ending(<<Save(index)>>, index) BY Endings
<1> HIDE DEF c
<1>7. CASE c = Unborn
  <2> DEFINE ws == <<SetHead(b)>>
  <2>1. Runs(ws, <<>>) BY <1>1, <1>7
  <2>2. Closed(ws) = ws \o <<Save(index)>> /\ Closed(ws) = <<SetHead(b), Save(index)>> BY <1>5, ClosedLast
  <2>3. SyncedIn(index, commits, refs, b) BY <1>1 DEF SyncedIn, TipIn
  <2>4. TypedIn(ws \o <<Save(index)>>, commits) /\ PlannedIn(ws \o <<Save(index)>>, commits, refs, head)
    BY <1>2, <1>3, <1>6, <2>3, Plans
  <2>5. AddsIn(<<SetHead(b), Save(index)>>, commits, refs, reflog) BY <1>5 DEF AddsIn
  <2> HIDE DEF ws
  <2>6. Plan("cli", Closed(ws), commits \o <<>>) BY <1>2, <2>2, <2>4, <2>5 DEF Plan
  <2> QED BY <2>1, <2>6, RunsStep
<1>8. CASE c # Unborn
  <2>1. Runs(m, <<>>)
    <3>1. <<Ref(b, c), Log(b, Unborn, c)>> \o <<SetHead(b)>> = m BY TupleConcat
    <3> QED BY <1>1, <1>8, <3>1
  <2>2. Closed(m) = m \o <<Save(index)>> BY <1>5, ClosedLast
  <2>3. /\ TypedIn(m \o <<Save(index)>>, commits)
        /\ SyncedIn(index, commits, refs, head) => PlannedIn(m \o <<Save(index)>>, commits, refs, head)
    BY <1>2, <1>3, <1>4, <1>6, Plans
  <2>4. AddsIn(m \o <<Save(index)>>, commits, refs, reflog)
    <3>1. (m \o <<Save(index)>>)[1] = Ref(b, c)
      <4>1. IsSeq(m) /\ Len(m) = 3 /\ m[1] = Ref(b, c) BY TupleSeq
      <4>2. IsSeq(<<Save(index)>>) BY TupleSeq
      <4> HIDE DEF m
      <4> QED BY <4>1, <4>2, SeqConcat
    <3> HIDE DEF m
    <3> QED BY <1>1, <1>5, <3>1 DEF AddsIn
  <2> HIDE DEF m
  <2>5. Plan("cli", Closed(m), commits \o <<>>) BY <1>2, <2>2, <2>3, <2>4 DEF Plan, Known
  <2> QED BY <2>1, <2>5, RunsStep
<1> QED BY <1>7, <1>8

LEMMA CheckoutStep == ASSUME WorkInv, NEW b \in Branches, CmdCheckout(b) PROVE WorkInv'
<1> DEFINE c == refs[b]
           t == TreeOf(c)
<1>1. Runs(<<SetHead(b)>> \o (IF c = Unborn THEN <<>> ELSE CheckoutWrites(t)), <<>>)
      /\ c # Missing
  BY DEF CmdCheckout, ListBranches
<1>2. commits \o <<>> = commits /\ head \in Branches /\ Len(commits) \in Nat BY Sound
<1>3. c \in 0 .. Len(commits) BY <1>1 DEF WorkInv, WTypes
<1>4. SetHead(b).op = "head" /\ Save(t).op = "index" BY DEF SetHead, Save
<1>5. c # Unborn => t = commits[c].tree BY DEF TreeOf
<1>6. TipIn(refs, b) = c BY <1>1 DEF TipIn
<1> HIDE DEF c, t
<1>7. CASE c = Unborn
  <2> DEFINE ws == <<SetHead(b)>>
  <2>1. Runs(ws, <<>>) BY <1>1, <1>7
  <2>2. Closed(ws) = ws \o <<Save(index)>> /\ Closed(ws) = <<SetHead(b), Save(index)>> BY <1>4, ClosedLast
  <2>3. SyncedIn(index, commits, refs, b) BY <1>6, <1>7 DEF SyncedIn
  <2>4. TypedIn(ws \o <<Save(index)>>, commits) /\ PlannedIn(ws \o <<Save(index)>>, commits, refs, head)
    BY <1>2, <1>3, <2>3, Endings, Plans
  <2>5. AddsIn(<<SetHead(b), Save(index)>>, commits, refs, reflog) BY <1>4 DEF AddsIn
  <2> HIDE DEF ws
  <2>6. Plan("cli", Closed(ws), commits \o <<>>) BY <1>2, <2>2, <2>4, <2>5 DEF Plan
  <2> QED BY <2>1, <2>6, RunsStep
<1>8. CASE c # Unborn
  <2> DEFINE q == CheckoutWrites(t)
             s == <<SetHead(b)>>
             ws == s \o q
  <2>1. Runs(ws, <<>>) BY <1>1, <1>8
  <2>2. IsSeq(q) /\ Ending(q, t) /\ Len(q) # 0 /\ Len(q) \in Nat /\ q[Len(q)] = Save(t)
    <3>1. Ending(q, t) BY Endings
    <3> QED BY <3>1 DEF Ending, IsSeq
  <2>3. IsSeq(s) /\ Len(s) = 1 /\ s[1] = SetHead(b) BY TupleSeq
  <2> HIDE DEF q, s
  <2>4. /\ IsSeq(ws) /\ Len(ws) = 1 + Len(q) /\ ws[1] = SetHead(b) /\ ws[1 + Len(q)] = Save(t)
    <3>1. 1 \in 1 .. Len(s) /\ Len(q) \in 1 .. Len(q) /\ 1 + Len(q) = Len(s) + Len(q) BY <2>2, <2>3
    <3>2. IsSeq(s \o q) /\ Len(s \o q) = Len(s) + Len(q) BY <2>2, <2>3, SeqConcat
    <3>3. (s \o q)[1] = s[1] BY <2>2, <2>3, <3>1, ConcatFirst
    <3>4. (s \o q)[1 + Len(q)] = q[Len(q)]
      <4>1. IsSeq(s) BY <2>3
      <4>2. IsSeq(q) BY <2>2
      <4>3. Len(q) \in 1 .. Len(q) BY <3>1
      <4>4. 1 + Len(q) = Len(s) + Len(q) BY <3>1
      <4> QED BY <4>1, <4>2, <4>3, <4>4, ConcatSecond
    <3> QED BY <2>2, <2>3, <3>2, <3>3, <3>4
  <2>5. Closed(ws) = ws
    <3>1. 1 + Len(q) \in 1 .. Len(ws) BY <2>2, <2>4
    <3> HIDE DEF ws
    <3> QED BY <1>4, <2>4, <3>1, ClosedAlready
  <2>6. SyncedIn(t, commits, refs, b) BY <1>5, <1>6, <1>8 DEF SyncedIn
  <2>7. TypedIn(ws, commits) /\ PlannedIn(ws, commits, refs, head)
    BY <1>2, <1>3, <2>2, <2>6, Plans DEF s
  <2>8. AddsIn(ws, commits, refs, reflog) BY <1>4, <2>4 DEF AddsIn
  <2> HIDE DEF ws
  <2>9. Plan("cli", Closed(ws), commits \o <<>>) BY <1>2, <2>5, <2>7, <2>8 DEF Plan
  <2> QED BY <2>1, <2>9, RunsStep
<1> QED BY <1>7, <1>8

\* Moving HEAD's branch to the commit d and the index to its tree.
LEMMA MoveStep ==
  ASSUME WorkInv, NEW d, NEW q, NEW t, Ending(q, t), NEW made, NEW o,
         Runs(<<Ref(HeadBranch, d), Log(HeadBranch, o, d)>> \o q, made),
         \/ made = <<>> /\ d \in Named /\ t = TreeOf(d)
         \/ /\ d = Len(commits) + 1 /\ HeadCommit # Unborn
            /\ \E e : /\ made = <<e>> /\ \A k \in DOMAIN e.parents : e.parents[k] \in 1 .. Len(commits)
                     /\ e.tree = t /\ \E k \in DOMAIN e.parents : e.parents[k] = HeadCommit
  PROVE  WorkInv'
<1> DEFINE m == <<Ref(head, d), Log(head, o, d)>>
           ws == m \o q
           cs == commits \o made
<1>1. HeadBranch = head /\ head \in Branches /\ Len(commits) \in Nat BY HeadFacts
<1>2. Runs(ws, made) BY <1>1
<1>3. commits \o <<>> = commits /\ CommitsIn(commits) BY Sound DEF WorkInv, WTypes
<1>4. /\ Len(cs) \in Nat /\ d \in 1 .. Len(cs) /\ t = cs[d].tree
      /\ \/ cs = commits /\ d \in Named
         \/ \E k \in DOMAIN cs[d].parents : cs[d].parents[k] = refs[head]
  <2>1. CASE made = <<>> /\ d \in Named /\ t = TreeOf(d)
    <3>1. d \in 1 .. Len(commits) BY <2>1, HeadFacts DEF Named
    <3>2. t = commits[d].tree BY <2>1, <3>1 DEF TreeOf, Unborn
    <3> QED BY <1>1, <1>3, <2>1, <3>1, <3>2
  <2>2. ASSUME NEW e, made = <<e>>, \A k \in DOMAIN e.parents : e.parents[k] \in 1 .. Len(commits),
               e.tree = t, \E k \in DOMAIN e.parents : e.parents[k] = HeadCommit,
               d = Len(commits) + 1, HeadCommit # Unborn
        PROVE  /\ Len(cs) \in Nat /\ d \in 1 .. Len(cs) /\ t = cs[d].tree
               /\ \E k \in DOMAIN cs[d].parents : cs[d].parents[k] = refs[head]
    <3>1. Len(cs) = Len(commits) + 1 /\ cs[d] = e BY <1>3, <2>2, CommitAdded
    <3>2. HeadCommit = refs[head] BY <2>2, HeadFacts
    <3> QED BY <1>1, <2>2, <3>1, <3>2
  <2> QED BY <2>1, <2>2
<1>5. IsSeq(q) /\ Len(q) # 0 /\ Len(q) \in Nat /\ q[Len(q)] = Save(t) BY DEF Ending, IsSeq
<1>6. IsSeq(m) /\ Len(m) = 2 /\ m[1] = Ref(head, d) BY TupleSeq
<1>7. TypedIn(ws, cs) /\ PlannedIn(ws, cs, refs, head)
  <2>1. d \in 0 .. Len(cs) BY <1>4
  <2>2. (IF head = head THEN d # Unborn => t = cs[d].tree ELSE SyncedIn(t, cs, refs, head)) BY <1>4
  <2> HIDE DEF cs
  <2> QED BY <1>1, <1>4, <2>1, <2>2, Plans
<1> HIDE DEF m
<1>8. /\ IsSeq(ws) /\ Len(ws) = 2 + Len(q) /\ ws[1] = Ref(head, d) /\ ws[2 + Len(q)] = Save(t)
  <2>1. 1 \in 1 .. Len(m) /\ Len(q) \in 1 .. Len(q) /\ 2 + Len(q) = Len(m) + Len(q) BY <1>5, <1>6
  <2>2. IsSeq(m \o q) /\ Len(m \o q) = Len(m) + Len(q) BY <1>5, <1>6, SeqConcat
  <2>3. (m \o q)[1] = m[1] BY <1>5, <1>6, <2>1, ConcatFirst
  <2>4. (m \o q)[2 + Len(q)] = q[Len(q)]
    <3>1. IsSeq(m) BY <1>6
    <3>2. IsSeq(q) BY <1>5
    <3>3. Len(q) \in 1 .. Len(q) BY <2>1
    <3>4. 2 + Len(q) = Len(m) + Len(q) BY <2>1
    <3> QED BY <3>1, <3>2, <3>3, <3>4, ConcatSecond
  <2> QED BY <1>5, <1>6, <2>2, <2>3, <2>4
<1> HIDE DEF ws
<1>9. Closed(ws) = ws
  <2>1. 2 + Len(q) \in 1 .. Len(ws) /\ Save(t).op = "index" BY <1>5, <1>8 DEF Save
  <2> QED BY <1>8, <2>1, ClosedAlready
<1>10. AddsIn(ws, cs, refs, reflog)
  <2>1. ws[1].op = "ref" /\ ws[1].branch = head /\ ws[1].commit = d BY <1>8 DEF Ref
  <2> HIDE DEF cs
  <2> QED BY <1>4, <2>1 DEF AddsIn, Named
<1>11. Plan("cli", Closed(ws), commits \o made) BY <1>7, <1>9, <1>10 DEF Plan
<1>12. \/ made = <<>>
       \/ \E e : made = <<e>> /\ \A k \in DOMAIN e.parents : e.parents[k] \in 1 .. Len(commits)
  OBVIOUS
<1> QED BY <1>2, <1>11, <1>12, RunsStep

LEMMA ResetStep ==
  ASSUME WorkInv, NEW c \in Named, NEW hard \in BOOLEAN, CmdReset(c, hard) PROVE WorkInv'
<1> DEFINE t == TreeOf(c)
<1>1. Ending(CheckoutWrites(t), t) /\ Ending(<<Save(t)>>, t) BY Endings
<1>2. \E q : Ending(q, t) /\ Runs(<<Ref(HeadBranch, c), Log(HeadBranch, HeadCommit, c)>> \o q, <<>>)
  <2>1. CASE hard BY <1>1, <2>1 DEF CmdReset
  <2>2. CASE ~hard BY <1>1, <2>2 DEF CmdReset
  <2> QED BY <2>1, <2>2
<1> QED BY <1>2, MoveStep

LEMMA RestoreStep ==
  ASSUME WorkInv, NEW c, NEW f, CmdRestore(c, f) PROVE WorkInv'
<1> DEFINE w == Put(TreeOf(c), {f})
<1>1. Runs(<<w>>, <<>>) BY DEF CmdRestore, RestorePaths
<1>2. commits \o <<>> = commits /\ head \in Branches /\ Len(commits) \in Nat BY Sound
<1>3. Ending(<<w, Save(index)>>, index) /\ AddsIn(<<w, Save(index)>>, commits, refs, reflog)
  BY Endings, SavesAdd
<1>4. w.op # "index" BY DEF Put
<1> HIDE DEF w
<1>5. Closed(<<w>>) = <<w, Save(index)>> BY <1>4, ClosedLast
<1>6. /\ TypedIn(<<w, Save(index)>>, commits)
      /\ SyncedIn(index, commits, refs, head) => PlannedIn(<<w, Save(index)>>, commits, refs, head)
  BY <1>2, <1>3, Plans, 0 \in 0 .. Len(commits)
<1>7. Plan("cli", Closed(<<w>>), commits \o <<>>) BY <1>2, <1>3, <1>5, <1>6 DEF Plan, Known
<1> QED BY <1>1, <1>7, RunsStep

LEMMA MergeStep ==
  ASSUME WorkInv, NEW c \in Named, NEW theirs \in BOOLEAN, CmdMerge(c, theirs) PROVE WorkInv'
<1> DEFINE r == MergeLocalOpts(c, theirs)
           d == Len(commits) + 1
           Moves(x, q) == <<Ref(HeadBranch, x), Log(HeadBranch, HeadCommit, x)>> \o q
<1>1. Runs(r.ws, r.made) BY DEF CmdMerge
<1>2. \/ r.ws = Moves(c, CheckoutWrites(TreeOf(c))) /\ r.made = <<>>
      \/ r.ws = <<>> /\ r.made = <<>>
      \/ /\ HeadCommit # Unborn
         /\ \E t : /\ r.ws = Moves(d, CheckoutWrites(t))
                  /\ r.made = <<[tree |-> t, built |-> "map", parents |-> <<HeadCommit, c>>]>>
  BY DEF MergeLocalOpts
<1> HIDE DEF r
<1>3. CASE r.ws = Moves(c, CheckoutWrites(TreeOf(c))) /\ r.made = <<>>
  <2>1. Ending(CheckoutWrites(TreeOf(c)), TreeOf(c)) BY Endings
  <2> QED BY <1>1, <1>3, <2>1, MoveStep
<1>4. CASE r.ws = <<>> /\ r.made = <<>> BY <1>1, <1>4, StatusStep DEF CmdStatus
<1>5. ASSUME HeadCommit # Unborn, NEW t, r.ws = Moves(d, CheckoutWrites(t)),
             r.made = <<[tree |-> t, built |-> "map", parents |-> <<HeadCommit, c>>]>>
      PROVE  WorkInv'
  <2> DEFINE e == [tree |-> t, built |-> "map", parents |-> <<HeadCommit, c>>]
  <2>1. Ending(CheckoutWrites(t), t) BY Endings
  <2>2. HeadCommit \in 1 .. Len(commits) /\ c \in 1 .. Len(commits) BY <1>5, HeadFacts DEF Named
  <2>3. e.tree = t /\ e.parents = <<HeadCommit, c>> OBVIOUS
  <2> HIDE DEF e
  <2>4. /\ \A k \in DOMAIN e.parents : e.parents[k] \in 1 .. Len(commits)
        /\ \E k \in DOMAIN e.parents : e.parents[k] = HeadCommit
    <3>1. DOMAIN <<HeadCommit, c>> = {1, 2} /\ <<HeadCommit, c>>[1] = HeadCommit /\ <<HeadCommit, c>>[2] = c
      OBVIOUS
    <3> QED BY <2>2, <2>3, <3>1
  <2>5. r.made = <<e>> BY <1>5 DEF e
  <2>6. Runs(<<Ref(HeadBranch, d), Log(HeadBranch, HeadCommit, d)>> \o CheckoutWrites(t), <<e>>)
    BY <1>1, <1>5, <2>5
  <2>7. /\ d = Len(commits) + 1 /\ HeadCommit # Unborn
        /\ \E x : /\ <<e>> = <<x>> /\ \A k \in DOMAIN x.parents : x.parents[k] \in 1 .. Len(commits)
                 /\ x.tree = t /\ \E k \in DOMAIN x.parents : x.parents[k] = HeadCommit
    BY <1>5, <2>3, <2>4
  <2> HIDE DEF d
  <2> QED BY <2>1, <2>6, <2>7, MoveStep
<1> QED BY <1>2, <1>3, <1>4, <1>5

LEMMA WriteStep == ASSUME WorkInv, NEW p \in Procs, Write(p) PROVE WorkInv'
<1> DEFINE q == todo[p]
<1>1. /\ proc[p].at = "write" /\ crossed' = (crossed \/ p \in behind)
      /\ behind' = behind \union {x \in Procs \ {p} : ~IsIdle(x)}
  BY DEF Write
<1>2. TypedIn(q, commits) BY <1>1 DEF WorkInv, ProcInv
<1>3. IsSeq(q) /\ Len(q) # 0 BY <1>2 DEF TypedIn
<1>4. PICK r : /\ todo' = [todo EXCEPT ![p] = r]
               /\ proc' = [proc EXCEPT ![p] = IF r = <<>> THEN Idle ELSE @]
               /\ OneWrite(q[1], q, r)
  BY <1>3, WriteEffect
<1>5. /\ CommitsIn(commits) /\ Len(commits) \in Nat /\ head \in Branches
      /\ refs \in [Branches -> {Missing} \union 0 .. Len(commits)]
      /\ proc = [x \in Procs |-> proc[x]] /\ todo = [x \in Procs |-> todo[x]]
      /\ \A x \in Procs : DOMAIN proc[x] = {"at", "idx", "tree"} /\ ProcInv(x)
  BY DEF WorkInv, WTypes, CommitsIn, IsSeq
<1>6. /\ commits' = commits
      /\ refs' \in [Branches -> {Missing} \union 0 .. Len(commits)] /\ head' \in Branches
      /\ r # <<>> => TypedIn(r, commits) /\ AddsIn(r, commits, refs', reflog')
  BY <1>2, <1>4, <1>5, OneWriteTyped DEF AddsIn
<1>7. /\ proc'[p] = (IF r = <<>> THEN Idle ELSE proc[p]) /\ todo'[p] = r
      /\ \A x \in Procs : x # p => proc'[x] = proc[x] /\ todo'[x] = todo[x]
      /\ proc' = [x \in Procs |-> proc'[x]] /\ todo' = [x \in Procs |-> todo'[x]]
  BY <1>4, <1>5
<1>8. Idle.at = "idle" /\ DOMAIN Idle = {"at", "idx", "tree"} BY DEF Idle
<1>9. ASSUME NEW x \in Procs
      PROVE  /\ DOMAIN proc'[x] = {"at", "idx", "tree"}
             /\ proc'[x].at \in {"idle", "scan", "check", "commit", "write"}
             /\ proc'[x].at = "check" => x = "watch"
             /\ IF proc'[x].at = "write" THEN TypedIn(todo'[x], commits) ELSE todo'[x] = <<>>
             /\ proc'[x].at = "write" /\ x \notin behind' => AddsIn(todo'[x], commits, refs', reflog')
  <2>1. CASE x = p /\ r = <<>> BY <1>7, <1>8, <2>1
  <2>2. CASE x = p /\ r # <<>> BY <1>1, <1>5, <1>6, <1>7, <2>2
  <2>3. CASE x # p
    <3>1. proc[x].at = "write" => x \in behind' BY <1>1, <2>3 DEF IsIdle
    <3> QED BY <1>5, <1>7, <2>3, <3>1 DEF ProcInv
  <2> QED BY <2>1, <2>2, <2>3
<1>10. ASSUME ~Tangled' PROVE InStepIn(proc', todo', index', commits, refs', head')
  <2>1. ~crossed /\ p \notin behind BY <1>1, <1>10 DEF Tangled
  <2>2. ASSUME NEW x \in Procs, x # p PROVE ~MustWrite(x) /\ proc'[x] = proc[x]
    <3>1. SUFFICES ASSUME MustWrite(x) PROVE FALSE BY <1>7, <2>2
    <3>2. x \in behind' BY <1>1, <2>2, <3>1 DEF MustWrite, IsIdle
    <3>3. MustWrite(x)' BY <1>7, <2>2, <3>1 DEF MustWrite
    <3> QED BY <1>10, <3>2, <3>3 DEF Tangled
  <2>3. \E x \in Procs : x # p BY DEF Procs
  <2>4. ~Tangled BY <2>1, <2>2, <2>3 DEF Tangled
  <2>5. PlannedIn(q, commits, refs, head) BY <1>1, <2>4 DEF WorkInv, InStep
  <2>6. /\ r # <<>> => PlannedIn(r, commits, refs', head')
        /\ r = <<>> => SyncedIn(index', commits, refs', head')
    BY <1>4, <1>5, <2>5, OneWritePlanned
  <2>7. \A x \in Procs : x # p => proc'[x].at # "write" /\ (x = "cli" => proc'[x].at # "scan")
    BY <2>2 DEF MustWrite
  <2>8. proc'[p].at = IF r = <<>> THEN "idle" ELSE "write" BY <1>1, <1>7, <1>8
  <2>9. proc'["cli"].at # "scan" BY <2>7, <2>8 DEF Procs
  <2>10. \A x \in Procs : proc'[x].at = "write" => PlannedIn(todo'[x], commits, refs', head')
    BY <1>7, <2>6, <2>7, <2>8
  <2> QED BY <2>6, <2>8, <2>9, <2>10 DEF InStepIn
<1> QED BY <1>5, <1>6, <1>7, <1>9, <1>10, Primed

LEMMA WorkStep == ASSUME WorkInv, [Next]_vars PROVE WorkInv'
<1>1. ASSUME NEW f \in Files, NEW v \in Contents \union {NoFile}, Edit(f, v) PROVE WorkInv'
  BY <1>1 DEF Edit, past, WorkInv, WTypes, ProcInv, InStep, Tangled, MustWrite
<1>2. CASE Commands
  <2>1. CASE CmdCommit BY <2>1, LoadStep DEF CmdCommit, Command, Procs
  <2>2. CASE CmdStatus BY <2>2, StatusStep
  <2>3. ASSUME NEW b \in Branches, CmdBranch(b) \/ CmdCheckoutNew(b) \/ CmdCheckout(b) PROVE WorkInv'
    BY <2>3, BranchStep, CheckoutNewStep, CheckoutStep
  <2>4. ASSUME NEW c \in Named, NEW side \in BOOLEAN, CmdMerge(c, side) PROVE WorkInv'
    BY <2>4, MergeStep
  <2>5. ASSUME NEW c \in Named, NEW f \in Files, CmdRestore(c, f) PROVE WorkInv'
    BY <2>5, RestoreStep
  <2>6. ASSUME NEW c \in Named, NEW hard \in BOOLEAN, CmdReset(c, hard) PROVE WorkInv'
    BY <2>6, ResetStep
  <2> QED BY <1>2, <2>1, <2>2, <2>3, <2>4, <2>5, <2>6 DEF Commands
<1>3. ASSUME NEW p \in Procs, Runs_(p) PROVE WorkInv'
  BY <1>3, WriteStep, ScanStep, CommitStep DEF Runs_
<1>4. CASE Watcher
  <2>1. CASE Tick BY <2>1, LoadStep DEF Tick, Procs
  <2>2. CASE Check BY <2>2, CheckStep
  <2>3. CASE Runs_("watch") BY <1>3, <2>3 DEF Procs
  <2> QED BY <1>4, <2>1, <2>2, <2>3 DEF Watcher
<1>5. CASE UNCHANGED vars BY <1>5 DEF vars, past, WorkInv, WTypes, ProcInv, InStep, Tangled, MustWrite
<1>6. CASE Runs_("cli") BY <1>3, <1>6 DEF Procs
<1> QED BY <1>1, <1>2, <1>4, <1>5, <1>6 DEF Next

LEMMA WorkInvHolds == Spec => []WorkInv
<1>1. Init => WorkInv BY WorkStart
<1>2. WorkInv /\ [Next]_vars => WorkInv' BY WorkStep
<1> QED BY <1>1, <1>2, PTL DEF Spec

\* Between commands, files the index calls unchanged are what the tip of the
\* branch holds, as long as neither the watcher nor a command has written over
\* the other (CleanUnlessCrossed): so the watcher and lrm commit, which stop at
\* a clean scan, never leave an edit out of the history.
THEOREM CleanIsCommitted == Spec => []CleanUnlessCrossed
<1>1. WorkInv => CleanUnlessCrossed
  <2> SUFFICES ASSUME WorkInv, ~crossed, \A p \in Procs : IsIdle(p), IsClean(index, Scanned(work)),
                      HeadCommit # Unborn
               PROVE  TreeOf(HeadCommit) = Scanned(work)
    BY DEF CleanUnlessCrossed, CleanMeansCommitted
  <2>1. \A p \in Procs : proc[p].at = "idle" /\ ~MustWrite(p) BY DEF IsIdle, MustWrite
  <2>2. \E p \in Procs : TRUE BY DEF Procs
  <2>3. SyncedIn(index, commits, refs, head) BY <2>1, <2>2 DEF WorkInv, Tangled, InStep
  <2>4. HeadCommit = TipIn(refs, head) BY HeadFacts
  <2>5. index = commits[HeadCommit].tree BY <2>3, <2>4 DEF SyncedIn
  <2> QED BY <2>5 DEF IsClean, TreeOf
<1> QED BY <1>1, WorkInvHolds, PTL

-----------------------------------------------------------------------------
(* Refs.                                                                    *)

\* The function Ancestors is defined by exists: the least sets closed under
\* parents.
LEMMA UpExists ==
  ASSUME CommitsIn(commits)
  PROVE  \E f : f = [x \in 0 .. Len(commits) |->
                    IF x = Unborn THEN {}
                    ELSE {x} \union UNION {f[commits[x].parents[i]] : i \in DOMAIN commits[x].parents}]
<1> DEFINE n == Len(commits)
<1>a. n \in Nat /\ \A c \in 1 .. n : \A k \in DOMAIN commits[c].parents : commits[c].parents[k] \in 1 .. n
  BY DEF CommitsIn, IsSeq
<1> HIDE DEF n
<1> DEFINE C == 1 .. n
           P(x) == {commits[x].parents[i] : i \in DOMAIN commits[x].parents}
           Whole(S) == \A x \in S : P(x) \subseteq S
           f == [c \in 0 .. n |-> IF c = 0 THEN {}
                  ELSE {k \in C : \A S \in SUBSET C : c \in S /\ Whole(S) => k \in S}]
           e(x) == IF x = Unborn THEN {}
                   ELSE {x} \union UNION {f[commits[x].parents[i]] : i \in DOMAIN commits[x].parents}
<1>0. \A c \in C : P(c) \subseteq C /\ c \in 0 .. n /\ c # 0 /\ c # Unborn BY <1>a DEF Unborn
<1>1. ASSUME NEW c \in C PROVE f[c] \subseteq C /\ Whole(f[c]) /\ c \in f[c]
  <2>1. f[c] = {k \in C : \A S \in SUBSET C : c \in S /\ Whole(S) => k \in S} BY <1>0
  <2> HIDE DEF f
  <2>2. ASSUME NEW x \in f[c], NEW y \in P(x) PROVE y \in f[c]
    <3>1. x \in C /\ y \in C BY <1>0, <2>1, <2>2
    <3>2. ASSUME NEW S \in SUBSET C, c \in S, Whole(S) PROVE y \in S
      BY <2>1, <2>2, <3>2
    <3> HIDE DEF Whole, P, C
    <3> QED BY <2>1, <3>1, <3>2
  <2> HIDE DEF P
  <2> QED BY <2>1, <2>2
<1>2. ASSUME NEW c \in C, NEW k \in f[c], NEW S \in SUBSET C, c \in S, Whole(S) PROVE k \in S
  BY <1>0, <1>2
<1>3. ASSUME NEW c \in C PROVE f[c] = e(c)
  <2> DEFINE d == {c} \union UNION {f[p] : p \in P(c)}
  <2>0. e(c) = d
    <3> HIDE DEF f
    <3>1. {f[commits[c].parents[i]] : i \in DOMAIN commits[c].parents} = {f[p] : p \in P(c)} OBVIOUS
    <3>2. c # Unborn BY <1>0
    <3> HIDE DEF P
    <3> QED BY <3>1, <3>2
  <2> HIDE DEF f, e, P
  <2>1. d \in SUBSET C BY <1>0, <1>1
  <2>2. Whole(d) BY <1>0, <1>1
  <2>3. f[c] \subseteq d
    <3>1. c \in d OBVIOUS
    <3> HIDE DEF Whole, C, d
    <3> QED BY <1>2, <2>1, <2>2, <3>1
  <2>4. c \in f[c] BY <1>1
  <2>5. ASSUME NEW p \in P(c), NEW k \in f[p] PROVE k \in f[c]
    <3>1. p \in f[c] /\ p \in C BY <1>0, <1>1, <2>4, <2>5
    <3> HIDE DEF Whole, C
    <3> QED BY <1>1, <1>2, <3>1
  <2> QED BY <2>0, <2>3, <2>4, <2>5
<1>4. f[0] = e(0) BY <1>a DEF Unborn
<1>5. f = [c \in 0 .. n |-> e(c)]
  <2>1. f = [c \in 0 .. n |-> f[c]] OBVIOUS
  <2>2. ASSUME NEW c \in 0 .. n PROVE f[c] = e(c)
    <3>1. c = 0 \/ c \in C OBVIOUS
    <3> HIDE DEF f, e, C
    <3> QED BY <1>3, <1>4, <3>1
  <2> HIDE DEF f, e
  <2> QED BY <2>1, <2>2
<1> QED BY <1>5 DEF n

\* A parent of a commit is one of its ancestors.
LEMMA ParentIsAncestor ==
  ASSUME CommitsIn(commits), NEW c \in 1 .. Len(commits), NEW k \in DOMAIN commits[c].parents
  PROVE  commits[c].parents[k] \in Ancestors(c)
<1> DEFINE up[x \in 0 .. Len(commits)] ==
             IF x = Unborn THEN {}
             ELSE {x} \union UNION {up[commits[x].parents[i]] : i \in DOMAIN commits[x].parents}
<1>1. Len(commits) \in Nat /\ commits[c].parents[k] \in 1 .. Len(commits) BY DEF CommitsIn, IsSeq
<1>2. up = [x \in 0 .. Len(commits) |->
             IF x = Unborn THEN {}
             ELSE {x} \union UNION {up[commits[x].parents[i]] : i \in DOMAIN commits[x].parents}]
  BY UpExists DEF up
<1>3. Ancestors(c) = up[c] BY DEF Ancestors, up
<1> HIDE DEF up
<1>4. \A x \in 1 .. Len(commits) :
        up[x] = {x} \union UNION {up[commits[x].parents[i]] : i \in DOMAIN commits[x].parents}
  <2>1. \A x \in 1 .. Len(commits) : x \in 0 .. Len(commits) /\ x # Unborn BY <1>1 DEF Unborn
  <2> QED BY <1>2, <2>1
<1>5. commits[c].parents[k] \in up[commits[c].parents[k]] BY <1>1, <1>4
<1> QED BY <1>3, <1>4, <1>5

\* A commit, by the watcher or by the user, and a merge only ever add to the
\* branch, unless another process has written since theirs began
\* (CommitsAddUnlessBehind): the tip they replace is an ancestor of the new one.
THEOREM CommitsAdd == Spec => CommitsAddUnlessBehind
<1> DEFINE Adds == \A b \in Branches :
             refs[b] \notin {Unborn, Missing} /\ refs'[b] \notin Named \union {Unborn, refs[b]}
               => \/ refs[b] \in Ancestors(refs'[b])
                  \/ \E p \in behind : todo'[p] # todo[p]
<1>1. ASSUME WorkInv, [Next]_vars PROVE Adds
  <2> SUFFICES ASSUME NEW b \in Branches, refs[b] \notin {Unborn, Missing}, refs'[b] # refs[b],
                      refs'[b] \notin Named \union {Unborn}
               PROVE  refs[b] \in Ancestors(refs'[b]) \/ \E p \in behind : todo'[p] # todo[p]
    OBVIOUS
  <2>1. PICK p \in Procs : Write(p)
    <3>1. ASSUME NEW p \in Procs, Load(p) \/ Scan(p) \/ Commit(p) PROVE refs' = refs
      BY <3>1 DEF Load, Scan, Commit
    <3>2. ASSUME NEW ws, NEW made, Runs(ws, made) PROVE refs' = refs BY <3>2 DEF Runs
    <3>3. Commands => refs' = refs
      BY <3>1, <3>2 DEF Commands, CmdCommit, CmdStatus, CmdBranch, CmdCheckoutNew, CmdCheckout,
         CmdMerge, CmdRestore, CmdReset, Procs
    <3>4. Tick \/ Check => refs' = refs BY <3>1 DEF Tick, Check, Load
    <3>5. ASSUME NEW f, NEW v, Edit(f, v) PROVE refs' = refs BY <3>5 DEF Edit
    <3>6. "watch" \in Procs /\ "cli" \in Procs BY DEF Procs
    <3> QED BY <1>1, <3>1, <3>3, <3>4, <3>5, <3>6 DEF Next, Watcher, Runs_, vars
  <2> DEFINE q == todo[p]
  <2>2. TypedIn(q, commits) /\ (p \notin behind => AddsIn(q, commits, refs, reflog))
    BY <1>1, <2>1 DEF WorkInv, ProcInv, Write
  <2>3. IsSeq(q) /\ Len(q) # 0 /\ 1 \in 1 .. Len(q) /\ Len(q) \in Nat BY <2>2 DEF TypedIn, IsSeq
  <2>4. PICK r : todo' = [todo EXCEPT ![p] = r] /\ OneWrite(q[1], q, r) BY <2>1, <2>3, WriteEffect
  <2>5. q[1].op = "ref" /\ refs' = [refs EXCEPT ![q[1].branch] = q[1].commit] /\ r = Tail(q)
    BY <2>4 DEF OneWrite, WriteRef
  <2>6. /\ refs \in [Branches -> {Missing} \union 0 .. Len(commits)] /\ CommitsIn(commits)
        /\ DOMAIN commits = 1 .. Len(commits) /\ todo = [x \in Procs |-> todo[x]]
    BY <1>1, HeadFacts DEF WorkInv, WTypes
  <2>7. b = q[1].branch /\ refs'[b] = q[1].commit BY <2>5, <2>6
  <2>8. todo'[p] # todo[p]
    <3>1. Len(r) = Len(q) - 1 BY <2>3, <2>5, SeqPop
    <3> QED BY <2>3, <2>4, <2>6, <3>1
  <2> HIDE DEF q
  <2>9. ~(refs'[b] \in 1 .. Len(commits) /\ \E x \in Branches : refs[x] = refs'[b] \/ <<x, refs'[b]>> \in reflog)
    BY <2>6 DEF Named
  <2>10. ASSUME p \notin behind
         PROVE  refs'[b] \in 1 .. Len(commits)
                /\ \E k \in DOMAIN commits[refs'[b]].parents : commits[refs'[b]].parents[k] = refs[b]
    BY <2>2, <2>5, <2>7, <2>9, <2>10 DEF AddsIn
  <2>11. CASE p \notin behind BY <2>6, <2>10, <2>11, ParentIsAncestor
  <2>12. CASE p \in behind BY <2>8, <2>12
  <2> QED BY <2>11, <2>12
<1>2. WorkInv /\ [Next]_vars => [Adds]_vars BY <1>1
<1> QED BY <1>2, WorkInvHolds, PTL DEF Spec, CommitsAddUnlessBehind
============================================================================
