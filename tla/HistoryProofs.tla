---------------------------- MODULE HistoryProofs ----------------------------
(***************************************************************************)
(* Commits, rebases, bisects and shelves, for any files, branches,         *)
(* histories and bounds. As long as no command is killed and no branch is  *)
(* switched half way, the files are those of the commit HEAD names         *)
(* (FilesFollowHead) and a bisect never clears the commit it is looking    *)
(* for (BisectKeepsCulprit). With at most one such mishap, no command,     *)
(* gc included, loses what a branch named (TipsSurvive), and with none     *)
(* renumbering writes no shelf over another (ShelvesKept) and a rebase     *)
(* replays the commits of its branch in order (RebaseInOrder).             *)
(*                                                                         *)
(* A command's writes are taken as a set. No two of them give the same     *)
(* thing different values, so the set says, in whatever order they are     *)
(* made, what HEAD, the branches, the index, the state files and the       *)
(* working tree will be when it is through. The first invariant speaks of  *)
(* these final values; a write changes none of them. The second speaks of  *)
(* the writes still to make: what a branch loses is in the reflog, or in   *)
(* an entry the command has yet to append. The third is about the order of *)
(* the renames still to make, and the fourth about the way from a rebase's *)
(* upstream to its scratch tip.                                            *)
(***************************************************************************)
EXTENDS History, SequenceTheorems, FiniteSetTheorems, WellFoundedInduction, TLAPS

-----------------------------------------------------------------------------
(* The writes of a sequence.                                                *)

Writes(q) == {q[i] : i \in 1 .. Len(q)}

\* A sequence, of whatever elements.
IsSeq(q) == Len(q) \in Nat /\ q \in Seq(Writes(q))

LEMMA AnySeq == ASSUME NEW S, NEW q \in Seq(S) PROVE IsSeq(q)
<1>1. Len(q) \in Nat /\ q \in [1 .. Len(q) -> S] BY LenProperties
<1>2. q \in [1 .. Len(q) -> Writes(q)] BY <1>1 DEF Writes
<1> QED BY <1>1, <1>2, SeqDef DEF IsSeq

LEMMA NoWrites == IsSeq(<<>>) /\ Writes(<<>>) = {}
BY EmptySeq DEF IsSeq, Writes

LEMMA SomeWrites ==
  /\ \A a : IsSeq(<<a>>) /\ Writes(<<a>>) = {a}
  /\ \A a, b : IsSeq(<<a, b>>) /\ Writes(<<a, b>>) = {a, b}
  /\ \A a, b, c : IsSeq(<<a, b, c>>) /\ Writes(<<a, b, c>>) = {a, b, c}
  /\ \A a, b, c, d : IsSeq(<<a, b, c, d>>) /\ Writes(<<a, b, c, d>>) = {a, b, c, d}
  /\ \A a, b, c, d, e : IsSeq(<<a, b, c, d, e>>) /\ Writes(<<a, b, c, d, e>>) = {a, b, c, d, e}
<1>1. ASSUME NEW a PROVE IsSeq(<<a>>) /\ Writes(<<a>>) = {a}
  <2> DEFINE q == <<a>>
  <2>1. q \in Seq({a}) /\ Len(q) = 1 OBVIOUS
  <2>2. q[1] = a OBVIOUS
  <2>3. 1 .. 1 = {1} OBVIOUS
  <2> HIDE DEF q
  <2>4. Writes(q) = {a} BY <2>1, <2>2, <2>3 DEF Writes
  <2>5. IsSeq(q) BY <2>1, AnySeq
  <2> QED BY <2>4, <2>5 DEF q
<1>2. ASSUME NEW a, NEW b PROVE IsSeq(<<a, b>>) /\ Writes(<<a, b>>) = {a, b}
  <2> DEFINE q == <<a, b>>
  <2>1. q \in Seq({a, b}) /\ Len(q) = 2 OBVIOUS
  <2>2. q[1] = a /\ q[2] = b OBVIOUS
  <2>3. 1 .. 2 = {1, 2} OBVIOUS
  <2> HIDE DEF q
  <2>4. Writes(q) = {a, b} BY <2>1, <2>2, <2>3 DEF Writes
  <2>5. IsSeq(q) BY <2>1, AnySeq
  <2> QED BY <2>4, <2>5 DEF q
<1>3. ASSUME NEW a, NEW b, NEW c
      PROVE  IsSeq(<<a, b, c>>) /\ Writes(<<a, b, c>>) = {a, b, c}
  <2> DEFINE q == <<a, b, c>>
  <2>1. q \in Seq({a, b, c}) /\ Len(q) = 3 OBVIOUS
  <2>2. q[1] = a /\ q[2] = b /\ q[3] = c OBVIOUS
  <2>3. 1 .. 3 = {1, 2, 3} OBVIOUS
  <2> HIDE DEF q
  <2>4. Writes(q) = {a, b, c} BY <2>1, <2>2, <2>3 DEF Writes
  <2>5. IsSeq(q) BY <2>1, AnySeq
  <2> QED BY <2>4, <2>5 DEF q
<1>4. ASSUME NEW a, NEW b, NEW c, NEW d
      PROVE  IsSeq(<<a, b, c, d>>) /\ Writes(<<a, b, c, d>>) = {a, b, c, d}
  <2> DEFINE q == <<a, b, c, d>>
  <2>1. q \in Seq({a, b, c, d}) /\ Len(q) = 4 OBVIOUS
  <2>2. q[1] = a /\ q[2] = b /\ q[3] = c /\ q[4] = d OBVIOUS
  <2>3. 1 .. 4 = {1, 2, 3, 4} OBVIOUS
  <2> HIDE DEF q
  <2>4. Writes(q) = {a, b, c, d} BY <2>1, <2>2, <2>3 DEF Writes
  <2>5. IsSeq(q) BY <2>1, AnySeq
  <2> QED BY <2>4, <2>5 DEF q
<1>5. ASSUME NEW a, NEW b, NEW c, NEW d, NEW e
      PROVE  IsSeq(<<a, b, c, d, e>>) /\ Writes(<<a, b, c, d, e>>) = {a, b, c, d, e}
  <2> DEFINE q == <<a, b, c, d, e>>
  <2>1. q \in Seq({a, b, c, d, e}) /\ Len(q) = 5 OBVIOUS
  <2>2. q[1] = a /\ q[2] = b /\ q[3] = c /\ q[4] = d /\ q[5] = e OBVIOUS
  <2>3. 1 .. 5 = {1, 2, 3, 4, 5} OBVIOUS
  <2> HIDE DEF q
  <2>4. Writes(q) = {a, b, c, d, e} BY <2>1, <2>2, <2>3 DEF Writes
  <2>5. IsSeq(q) BY <2>1, AnySeq
  <2> QED BY <2>4, <2>5 DEF q
<1> QED BY <1>1, <1>2, <1>3, <1>4, <1>5

LEMMA MoreWrites ==
  ASSUME NEW s, NEW q, IsSeq(s), IsSeq(q)
  PROVE  /\ IsSeq(s \o q) /\ Len(s \o q) = Len(s) + Len(q)
         /\ \A i \in 1 .. Len(s) : (s \o q)[i] = s[i]
         /\ \A i \in 1 .. Len(q) : (s \o q)[Len(s) + i] = q[i]
         /\ Writes(s \o q) = Writes(s) \union Writes(q)
<1> DEFINE S == Writes(s) \union Writes(q)
<1>1. s \in Seq(Writes(s)) /\ q \in Seq(Writes(q)) /\ Len(s) \in Nat /\ Len(q) \in Nat
  BY DEF IsSeq
<1>2. s \in Seq(S) /\ q \in Seq(S)
  <2>1. s \in [1 .. Len(s) -> Writes(s)] /\ q \in [1 .. Len(q) -> Writes(q)]
    BY <1>1, LenProperties
  <2>2. s \in [1 .. Len(s) -> S] /\ q \in [1 .. Len(q) -> S] BY <2>1
  <2> HIDE DEF S
  <2> QED BY <1>1, <2>2, SeqDef
<1> HIDE DEF S
<1>3. /\ s \o q \in Seq(S) /\ Len(s \o q) = Len(s) + Len(q)
      /\ \A i \in 1 .. Len(s) + Len(q) : (s \o q)[i] = IF i <= Len(s) THEN s[i] ELSE q[i - Len(s)]
  BY <1>2, ConcatProperties
<1>4. \A i \in 1 .. Len(s) : i \in 1 .. Len(s \o q) /\ (s \o q)[i] = s[i] BY <1>1, <1>3
<1>5. ASSUME NEW i \in 1 .. Len(q)
      PROVE  Len(s) + i \in 1 .. Len(s \o q) /\ (s \o q)[Len(s) + i] = q[i]
  <2>1. /\ Len(s) + i \in 1 .. Len(s) + Len(q) /\ ~(Len(s) + i <= Len(s))
        /\ (Len(s) + i) - Len(s) = i
    BY <1>1
  <2> QED BY <1>3, <2>1
<1>6. \A i \in 1 .. Len(s \o q) :
        \/ i \in 1 .. Len(s) /\ (s \o q)[i] = s[i]
        \/ i - Len(s) \in 1 .. Len(q) /\ (s \o q)[i] = q[i - Len(s)]
  BY <1>1, <1>3
<1>7. Writes(s \o q) = Writes(s) \union Writes(q) BY <1>4, <1>5, <1>6 DEF Writes
<1> QED BY <1>3, <1>4, <1>5, <1>7, AnySeq

LEMMA FirstWrite ==
  ASSUME NEW q, IsSeq(q), q # <<>>
  PROVE  /\ IsSeq(Tail(q)) /\ Writes(q) = {Head(q)} \union Writes(Tail(q))
         /\ <<>> \o Tail(q) = Tail(q)
<1>1. q \in Seq(Writes(q)) /\ Len(q) \in Nat BY DEF IsSeq
<1>2. /\ Tail(q) \in Seq(Writes(q)) /\ Len(Tail(q)) = Len(q) - 1 /\ Head(q) = q[1]
      /\ \A i \in 1 .. Len(q) - 1 : Tail(q)[i] = q[i + 1]
  BY <1>1, HeadTailProperties
<1>3. Len(q) # 0 BY <1>1, EmptySeq
<1>4. \A i \in 1 .. Len(q) : i = 1 \/ (i - 1 \in 1 .. Len(q) - 1 /\ q[i] = Tail(q)[i - 1])
  BY <1>1, <1>2, <1>3
<1>5. \A i \in 1 .. Len(q) - 1 : i + 1 \in 1 .. Len(q) /\ Tail(q)[i] = q[i + 1] BY <1>1, <1>2
<1>6. Writes(q) = {Head(q)} \union Writes(Tail(q))
  <2>1. 1 \in 1 .. Len(q) /\ Len(q) - 1 = Len(Tail(q)) BY <1>1, <1>2, <1>3
  <2>2. ASSUME NEW w \in Writes(q) PROVE w \in {Head(q)} \union Writes(Tail(q))
    <3>1. PICK i \in 1 .. Len(q) : w = q[i] BY DEF Writes
    <3> QED BY <1>2, <1>4, <2>1, <3>1 DEF Writes
  <2>3. ASSUME NEW w \in Writes(Tail(q)) PROVE w \in Writes(q)
    <3>1. PICK i \in 1 .. Len(q) - 1 : w = Tail(q)[i] BY <2>1 DEF Writes
    <3> QED BY <1>5, <3>1 DEF Writes
  <2>4. Head(q) \in Writes(q) BY <1>2, <2>1 DEF Writes
  <2> QED BY <2>2, <2>3, <2>4
<1>7. <<>> \o Tail(q) = Tail(q) BY <1>2, ConcatEmptySeq
<1> QED BY <1>2, <1>6, <1>7, AnySeq

LEMMA CheckoutSet ==
  ASSUME NEW t
  PROVE  LET fs == {f \in Files : t[f] # NoFile}
         IN  /\ IsSeq(CheckoutWrites(t))
             /\ Writes(CheckoutWrites(t)) = {Extras(t), Save(t)} \union (IF fs = {} THEN {} ELSE {Put(t, fs)})
<1> DEFINE fs == {f \in Files : t[f] # NoFile}
           p == IF fs = {} THEN <<>> ELSE <<Put(t, fs)>>
<1>1. IsSeq(p) /\ Writes(p) = IF fs = {} THEN {} ELSE {Put(t, fs)} BY NoWrites, SomeWrites
<1>2. IsSeq(<<Extras(t), Save(t)>>) /\ Writes(<<Extras(t), Save(t)>>) = {Extras(t), Save(t)}
  BY SomeWrites
<1>3. CheckoutWrites(t) = p \o <<Extras(t), Save(t)>> BY DEF CheckoutWrites
<1> HIDE DEF p, fs
<1>4. IsSeq(CheckoutWrites(t)) /\ Writes(CheckoutWrites(t)) = Writes(p) \union {Extras(t), Save(t)}
  BY <1>1, <1>2, <1>3, MoreWrites
<1>5. Writes(CheckoutWrites(t)) = {Extras(t), Save(t)} \union Writes(p) BY <1>4
<1> QED BY <1>1, <1>4, <1>5 DEF fs

-----------------------------------------------------------------------------
(* What the writes W lead to.                                               *)

HeadTo(W, hd, h) ==
  /\ \A w \in W : w.op = "head" => w.branch = h
  /\ hd = h \/ \E w \in W : w.op = "head"

RefsTo(W, rs, r) ==
  /\ \A w \in W : /\ w.op = "ref" => r[w.branch] = w.commit
                  /\ w.op = "rmref" => r[w.branch] = Missing
  /\ \A b \in Branches : rs[b] = r[b] \/ \E w \in W : w.op \in {"ref", "rmref"} /\ w.branch = b

IndexTo(W, idx, x) ==
  /\ \A w \in W : w.op = "index" => w.tree = x
  /\ idx = x \/ \E w \in W : w.op = "index"

StateTo(W, st, s) ==
  /\ \A w \in W : w.op = "state" => s[w.file] = w.to
  /\ \A f \in StateFiles : st[f] = s[f] \/ \E w \in W : w.op = "state" /\ w.file = f

WorkTo(W, wk, t) ==
  /\ \A w \in W : /\ w.op \in {"files", "extras"} => w.tree = t
                  /\ w.op = "files" => "left" \in DOMAIN w
  /\ \A f \in Files :
       \/ wk[f] = t[f]
       \/ \E w \in W : w.op = "files" /\ f \in w.left
       \/ t[f] = NoFile /\ \E w \in W : w.op = "extras"

\* The write w is made; what is left of it goes back (back), or nothing.
OneWrite(w, back) ==
  \/ /\ w.op = "ref" /\ refs' = [refs EXCEPT ![w.branch] = w.commit] /\ back = {}
     /\ UNCHANGED <<work, index, head, state>>
  \/ /\ w.op = "rmref" /\ refs' = [refs EXCEPT ![w.branch] = Missing] /\ back = {}
     /\ UNCHANGED <<work, index, head, state>>
  \/ w.op \in {"log", "shelf", "rmshelf", "mv"} /\ back = {} /\ UNCHANGED <<work, index, refs, head, state>>
  \/ w.op = "head" /\ head' = w.branch /\ back = {} /\ UNCHANGED <<work, index, refs, state>>
  \/ w.op = "index" /\ index' = w.tree /\ back = {} /\ UNCHANGED <<work, refs, head, state>>
  \/ /\ w.op = "state" /\ state' = [state EXCEPT ![w.file] = w.to] /\ back = {}
     /\ UNCHANGED <<work, index, refs, head>>
  \/ /\ w.op = "files" /\ UNCHANGED <<index, refs, head, state>>
     /\ \E f \in w.left : /\ work' = [work EXCEPT ![f] = w.tree[f]]
                          /\ back = IF w.left = {f} THEN {} ELSE {[w EXCEPT !.left = @ \ {f}]}
  \/ /\ w.op = "extras" /\ back = {} /\ UNCHANGED <<index, refs, head, state>>
     /\ work' = [f \in Files |-> IF w.tree[f] = NoFile THEN NoFile ELSE work[f]]

\* What the write w does to the rest of the repository.
Beside(w) ==
  /\ IF w.op = "log" THEN AppendReflog(w.branch, w.old, w.commit) ELSE UNCHANGED reflog
  /\ \/ w.op \notin {"shelf", "rmshelf", "mv"} /\ UNCHANGED shelves
     \/ w.op = "shelf" /\ shelves' = With(shelves, w.name, w.commit)
     \/ w.op = "rmshelf" /\ shelves' = Without(shelves, w.name)
     \/ w.op = "mv" /\ shelves' = Renamed(shelves, w.from, w.to)

LEMMA WriteEffect ==
  ASSUME Write, IsSeq(todo)
  PROVE  \E w, back, rest :
           /\ Writes(todo) = {w} \union rest /\ Writes(todo') = back \union rest /\ IsSeq(todo')
           /\ OneWrite(w, back) /\ Beside(w)
           /\ next' = next /\ commits' = commits /\ (next # "idle" => mem' = mem)
<1> DEFINE w == Head(todo)
           rest == Writes(Tail(todo))
           Left(q) == todo' = q \o Tail(todo)
<1>1. IsSeq(Tail(todo)) /\ Writes(todo) = {w} \union rest /\ <<>> \o Tail(todo) = Tail(todo)
  BY FirstWrite DEF Write
<1>2. next' = next /\ (next # "idle" => mem' = mem) BY DEF Write
<1>3. PerformMore(w, Left) BY DEF Write
<1>4. CASE OneWrite(w, {}) /\ Beside(w) /\ todo' = <<>> \o Tail(todo) /\ commits' = commits
  <2>1. Writes(todo') = {} \union rest /\ IsSeq(todo') BY <1>1, <1>4
  <2> QED BY <1>1, <1>2, <1>4, <2>1
<1>5. CASE /\ w.op = "files" /\ commits' = commits /\ UNCHANGED <<index, refs, head, state>>
           /\ Beside(w)
           /\ \E f \in w.left : /\ work' = [work EXCEPT ![f] = w.tree[f]]
                                /\ Left(IF w.left = {f} THEN <<>> ELSE <<[w EXCEPT !.left = @ \ {f}]>>)
  <2>1. PICK f \in w.left : /\ work' = [work EXCEPT ![f] = w.tree[f]]
                            /\ Left(IF w.left = {f} THEN <<>> ELSE <<[w EXCEPT !.left = @ \ {f}]>>)
    BY <1>5
  <2> DEFINE v == [w EXCEPT !.left = @ \ {f}]
             back == IF w.left = {f} THEN {} ELSE {v}
  <2>2. OneWrite(w, back) BY <1>5, <2>1 DEF OneWrite
  <2> HIDE DEF v
  <2>3. Writes(todo') = back \union rest /\ IsSeq(todo')
    <3>1. CASE w.left = {f} BY <1>1, <2>1, <3>1
    <3>2. CASE w.left # {f}
      <4>1. todo' = <<v>> \o Tail(todo) BY <2>1, <3>2 DEF v
      <4>2. IsSeq(<<v>>) /\ Writes(<<v>>) = {v} BY SomeWrites
      <4> QED BY <1>1, <3>2, <4>1, <4>2, MoreWrites
    <3> QED BY <3>1, <3>2
  <2> HIDE DEF back
  <2> QED BY <1>1, <1>2, <1>5, <2>2, <2>3
<1> QED
  BY <1>3, <1>4, <1>5 DEF PerformMore, Perform, OneWrite, Beside, WriteRef, repoVars

-----------------------------------------------------------------------------
(* A write changes nothing of what it and the rest lead to.                 *)

LEMMA WhatIsLeft ==
  ASSUME NEW w, NEW back, OneWrite(w, back), NEW v \in back
  PROVE  v.op = "files" /\ w.op = "files"
<1>1. w.op = "files" BY DEF OneWrite
<1>2. PICK f \in w.left : back = IF w.left = {f} THEN {} ELSE {[w EXCEPT !.left = @ \ {f}]}
  BY <1>1 DEF OneWrite
<1>3. v = [w EXCEPT !.left = @ \ {f}] BY <1>2
<1> QED BY <1>1, <1>3

LEMMA HeadKept ==
  ASSUME NEW w, NEW back, NEW rest, NEW h, OneWrite(w, back), HeadTo({w} \union rest, head, h)
  PROVE  HeadTo(back \union rest, head', h)
<1>1. CASE w.op = "head" BY <1>1 DEF OneWrite, HeadTo
<1>2. CASE w.op # "head"
  <2>1. head' = head /\ \A v \in back : v.op = "files" BY <1>2, WhatIsLeft DEF OneWrite
  <2> QED BY <1>2, <2>1 DEF HeadTo
<1> QED BY <1>1, <1>2

LEMMA RefsKept ==
  ASSUME NEW w, NEW back, NEW rest, NEW r, OneWrite(w, back), RefsTo({w} \union rest, refs, r),
         DOMAIN refs = Branches, refs = [b \in Branches |-> refs[b]]
  PROVE  RefsTo(back \union rest, refs', r) /\ DOMAIN refs' = Branches
         /\ \A b \in Branches : refs'[b] \in {refs[b], r[b]}
<1>1. CASE w.op = "ref"
  <2>1. back = {} /\ refs' = [refs EXCEPT ![w.branch] = w.commit] /\ r[w.branch] = w.commit
    BY <1>1 DEF OneWrite, RefsTo
  <2>2. \A b \in Branches : refs'[b] = IF b = w.branch THEN r[b] ELSE refs[b] BY <2>1
  <2>3. DOMAIN refs' = Branches BY <2>1
  <2> QED BY <2>1, <2>2, <2>3 DEF RefsTo
<1>2. CASE w.op = "rmref"
  <2>1. back = {} /\ refs' = [refs EXCEPT ![w.branch] = Missing] /\ r[w.branch] = Missing
    BY <1>2 DEF OneWrite, RefsTo
  <2>2. \A b \in Branches : refs'[b] = IF b = w.branch THEN r[b] ELSE refs[b] BY <2>1
  <2>3. DOMAIN refs' = Branches BY <2>1
  <2> QED BY <2>1, <2>2, <2>3 DEF RefsTo
<1>3. CASE w.op \notin {"ref", "rmref"}
  <2>1. refs' = refs /\ \A v \in back : v.op = "files" BY <1>3, WhatIsLeft DEF OneWrite
  <2> QED BY <1>3, <2>1 DEF RefsTo
<1> QED BY <1>1, <1>2, <1>3

LEMMA IndexKept ==
  ASSUME NEW w, NEW back, NEW rest, NEW x, OneWrite(w, back), IndexTo({w} \union rest, index, x)
  PROVE  IndexTo(back \union rest, index', x)
<1>1. CASE w.op = "index" BY <1>1 DEF OneWrite, IndexTo
<1>2. CASE w.op # "index"
  <2>1. index' = index /\ \A v \in back : v.op = "files" BY <1>2, WhatIsLeft DEF OneWrite
  <2> QED BY <1>2, <2>1 DEF IndexTo
<1> QED BY <1>1, <1>2

LEMMA StateKept ==
  ASSUME NEW w, NEW back, NEW rest, NEW s, OneWrite(w, back), StateTo({w} \union rest, state, s),
         DOMAIN state = StateFiles, state = [f \in StateFiles |-> state[f]]
  PROVE  StateTo(back \union rest, state', s) /\ DOMAIN state' = StateFiles
         /\ state' = [f \in StateFiles |-> state'[f]]
<1>1. CASE w.op = "state"
  <2>1. back = {} /\ state' = [state EXCEPT ![w.file] = w.to] /\ s[w.file] = w.to
    BY <1>1 DEF OneWrite, StateTo
  <2>2. \A f \in StateFiles : state'[f] = IF f = w.file THEN s[f] ELSE state[f] BY <2>1
  <2>3. DOMAIN state' = StateFiles BY <2>1
  <2>4. state' = [f \in StateFiles |-> state'[f]]
    <3>1. state' = [f \in StateFiles |-> IF f = w.file THEN w.to ELSE state[f]] BY <2>1
    <3> QED BY <3>1
  <2> QED BY <2>1, <2>2, <2>3, <2>4 DEF StateTo
<1>2. CASE w.op # "state"
  <2>1. state' = state /\ \A v \in back : v.op = "files" BY <1>2, WhatIsLeft DEF OneWrite
  <2> QED BY <1>2, <2>1 DEF StateTo
<1> QED BY <1>1, <1>2

LEMMA WorkKept ==
  ASSUME NEW w, NEW back, NEW rest, NEW t \in Trees, OneWrite(w, back),
         WorkTo({w} \union rest, work, t), work \in Trees
  PROVE  WorkTo(back \union rest, work', t) /\ work' \in Trees
<1>1. CASE w.op = "files"
  <2>0. w.tree = t /\ "left" \in DOMAIN w BY <1>1 DEF WorkTo
  <2>1. PICK f \in w.left :
          /\ work' = [work EXCEPT ![f] = t[f]]
          /\ back = IF w.left = {f} THEN {} ELSE {[w EXCEPT !.left = @ \ {f}]}
    BY <1>1, <2>0 DEF OneWrite
  <2>2. work' \in Trees BY <2>1 DEF Trees
  <2>3. \A g \in Files : work'[g] = IF g = f THEN t[g] ELSE work[g] BY <2>1 DEF Trees
  <2>4. ASSUME NEW v \in back
        PROVE  v.op = "files" /\ v.tree = t /\ v.left = w.left \ {f} /\ "left" \in DOMAIN v
    <3>1. v = [w EXCEPT !.left = @ \ {f}] BY <2>1
    <3> QED BY <1>1, <2>0, <3>1
  <2>5. ASSUME NEW g \in Files
        PROVE  \/ work'[g] = t[g]
               \/ \E v \in back \union rest : v.op = "files" /\ g \in v.left
               \/ t[g] = NoFile /\ \E v \in back \union rest : v.op = "extras"
    <3>1. CASE g = f \/ work[g] = t[g] BY <2>3, <3>1
    <3>2. CASE g # f /\ g \in w.left
      <4>1. w.left # {f} BY <3>2
      <4>2. [w EXCEPT !.left = @ \ {f}] \in back BY <2>1, <4>1
      <4> QED BY <2>4, <3>2, <4>2
    <3>3. CASE \E v \in rest : v.op = "files" /\ g \in v.left BY <3>3
    <3>4. CASE t[g] = NoFile /\ \E v \in {w} \union rest : v.op = "extras" BY <1>1, <3>4
    <3> QED BY <3>1, <3>2, <3>3, <3>4 DEF WorkTo
  <2> QED BY <2>2, <2>4, <2>5 DEF WorkTo
<1>2. CASE w.op = "extras"
  <2>1. work' = [f \in Files |-> IF t[f] = NoFile THEN NoFile ELSE work[f]] /\ back = {}
    BY <1>2 DEF OneWrite, WorkTo
  <2>2. work' \in Trees BY <2>1 DEF Trees, NoFile
  <2>3. \A f \in Files : work'[f] = (IF t[f] = NoFile THEN t[f] ELSE work[f]) BY <2>1
  <2> QED BY <1>2, <2>1, <2>2, <2>3 DEF WorkTo
<1>3. CASE w.op \notin {"files", "extras"}
  <2>1. work' = work /\ back = {} BY <1>3 DEF OneWrite
  <2> QED BY <1>3, <2>1 DEF WorkTo
<1> QED BY <1>1, <1>2, <1>3

-----------------------------------------------------------------------------
(* The files follow HEAD.                                                   *)

Quiet == mishaps = 0 /\ task # "shelves"

TipIn(r, b) == IF r[b] = Missing THEN Unborn ELSE r[b]

\* s is the state of a rebase that stands, with HEAD at h, of a branch that has
\* not moved, in a repository with commits cs and branches r.
Rebased(s, h, r, cs) ==
  /\ s.branch \in Branches \ {RebaseBranch} /\ s.orig \in 1 .. Len(cs)
  /\ h = RebaseBranch /\ r[s.branch] \in {s.orig, Missing}

\* What is true of the final HEAD h, branches r, index x and state files s,
\* with commits cs, when the command goes on with n and carries m.
Settled(h, r, x, s, cs, n, m) ==
  /\ TipIn(r, h) # Unborn => x = cs[TipIn(r, h)].tree
  /\ IF task = "rebase" THEN s["rebase"] # NoState => Rebased(s["rebase"], h, r, cs)
                        ELSE s["rebase"] = NoState
  /\ task = "bisect" /\ s["bisect"] # NoState => s["bisect"].orig \in Branches
  /\ n = "replay" => Rebased(m, h, r, cs)
  /\ n = "advance" => m.st.orig \in Branches

RefsOf(cs) == [Branches -> {Missing} \union 0 .. Len(cs)]

\* The command on its way leaves everything settled.
Settles ==
  \E h, r, x, s :
    /\ h \in Branches /\ r \in RefsOf(commits)
    /\ HeadTo(Writes(todo), head, h) /\ RefsTo(Writes(todo), refs, r)
    /\ IndexTo(Writes(todo), index, x) /\ StateTo(Writes(todo), state, s)
    /\ Settled(h, r, x, s, commits, next, mem)

Steady ==
  /\ IsSeq(commits) /\ IsSeq(todo)
  /\ head \in Branches /\ refs \in RefsOf(commits)
  /\ DOMAIN state = StateFiles /\ state = [f \in StateFiles |-> state[f]]
  /\ Settles

HInv == mishaps \in Nat /\ (Quiet => Steady)

LEMMA AtRest ==
  ASSUME Steady, todo = <<>>
  PROVE  Settled(head, refs, index, state, commits, next, mem) /\ HeadBranch = head
<1>1. PICK h, r, x, s :
        /\ h \in Branches /\ r \in RefsOf(commits)
        /\ HeadTo({}, head, h) /\ RefsTo({}, refs, r)
        /\ IndexTo({}, index, x) /\ StateTo({}, state, s)
        /\ Settled(h, r, x, s, commits, next, mem)
  BY NoWrites DEF Steady, Settles
<1>2. h = head /\ x = index BY <1>1 DEF HeadTo, IndexTo
<1>3. \A b \in Branches : r[b] = refs[b] BY <1>1 DEF RefsTo
<1>4. s["rebase"] = state["rebase"] /\ s["bisect"] = state["bisect"] BY <1>1 DEF StateTo, StateFiles
<1>5. HeadBranch = head BY TornAssumption DEF Steady, HeadBranch
<1>6. TipIn(r, h) = TipIn(refs, h) BY <1>1, <1>2, <1>3 DEF TipIn
<1>7. \A m : Rebased(m, h, r, commits) => Rebased(m, h, refs, commits) BY <1>3 DEF Rebased
<1> QED BY <1>1, <1>2, <1>4, <1>5, <1>6, <1>7 DEF Settled

\* The command goes on with writes that settle everything.
LEMMA GoesOn ==
  ASSUME Steady, task' = task,
         NEW ws, NEW n, NEW m, NEW made, Proceed(ws, n, m, made), IsSeq(ws), IsSeq(made),
         NEW h \in Branches, NEW r \in RefsOf(commits'), NEW x, NEW s,
         HeadTo(Writes(ws), head, h), RefsTo(Writes(ws), refs, r),
         IndexTo(Writes(ws), index, x), StateTo(Writes(ws), state, s),
         Settled(h, r, x, s, commits', n, m)
  PROVE  Steady'
<1>1. /\ todo' = ws /\ next' = n /\ commits' = commits \o made
      /\ UNCHANGED <<index, refs, head, state>> /\ (n # "idle" => mem' = m)
  BY DEF Proceed
<1>2. IsSeq(commits) /\ IsSeq(commits') /\ Len(commits') = Len(commits) + Len(made)
  BY <1>1, MoreWrites DEF Steady
<1>3. refs' \in RefsOf(commits')
  <2>1. Len(made) \in Nat /\ Len(commits) \in Nat BY <1>2 DEF IsSeq
  <2>2. 0 .. Len(commits) \subseteq 0 .. Len(commits') BY <1>2, <2>1
  <2> QED BY <1>1, <2>2 DEF Steady, RefsOf
<1>4. Settled(h, r, x, s, commits', next', mem') <=> Settled(h, r, x, s, commits', n, m)
  BY <1>1 DEF Settled
<1>5. Settles'
  BY <1>1, <1>4 DEF Settles, Settled
<1> QED BY <1>1, <1>2, <1>3, <1>5 DEF Steady

LEMMA WriteSteady ==
  ASSUME Steady, Write, task' = task
  PROVE  Steady'
<1>1. PICK w, back, rest :
           /\ Writes(todo) = {w} \union rest /\ Writes(todo') = back \union rest /\ IsSeq(todo')
           /\ OneWrite(w, back)
           /\ next' = next /\ commits' = commits /\ (next # "idle" => mem' = mem)
  BY WriteEffect DEF Steady
<1>2. PICK h, r, x, s :
        /\ h \in Branches /\ r \in RefsOf(commits)
        /\ HeadTo({w} \union rest, head, h) /\ RefsTo({w} \union rest, refs, r)
        /\ IndexTo({w} \union rest, index, x) /\ StateTo({w} \union rest, state, s)
        /\ Settled(h, r, x, s, commits, next, mem)
  BY <1>1 DEF Steady, Settles
<1>3. HeadTo(back \union rest, head', h) BY <1>1, <1>2, HeadKept
<1>4. DOMAIN refs = Branches /\ refs = [b \in Branches |-> refs[b]] BY DEF Steady, RefsOf
<1>5. RefsTo(back \union rest, refs', r) /\ DOMAIN refs' = Branches
      /\ \A b \in Branches : refs'[b] \in {refs[b], r[b]}
  BY <1>1, <1>2, <1>4, RefsKept
<1>6. IndexTo(back \union rest, index', x) BY <1>1, <1>2, IndexKept
<1>7. StateTo(back \union rest, state', s) /\ DOMAIN state' = StateFiles
      /\ state' = [f \in StateFiles |-> state'[f]]
  BY <1>1, <1>2, StateKept DEF Steady
<1>8. Settled(h, r, x, s, commits', next', mem') BY <1>1, <1>2 DEF Settled
<1>9. head' \in Branches BY <1>1, <1>2 DEF OneWrite, HeadTo, Steady
<1>10. refs' \in RefsOf(commits)
  <2>1. refs' = [b \in Branches |-> refs'[b]] BY <1>1, <1>4 DEF OneWrite
  <2> QED BY <1>2, <1>5, <2>1 DEF Steady, RefsOf
<1>11. Settles'
  BY <1>1, <1>2, <1>3, <1>5, <1>6, <1>7, <1>8 DEF Settles, Settled
<1> QED BY <1>1, <1>7, <1>9, <1>10, <1>11 DEF Steady

LEMMA OneMore ==
  ASSUME NEW c, IsSeq(commits)
  PROVE  LET cs == commits \o <<c>>
         IN  /\ IsSeq(<<c>>) /\ IsSeq(cs) /\ Len(commits) \in Nat /\ Len(cs) = Len(commits) + 1
             /\ cs[Len(commits) + 1] = c
             /\ \A i \in 1 .. Len(commits) : cs[i] = commits[i]
<1>1. IsSeq(<<c>>) /\ Len(<<c>>) = 1 /\ <<c>>[1] = c BY SomeWrites
<1> DEFINE q == <<c>>
<1> HIDE DEF q
<1>2. IsSeq(q) /\ Len(q) = 1 /\ q[1] = c BY <1>1 DEF q
<1>3. /\ IsSeq(commits \o q) /\ Len(commits \o q) = Len(commits) + Len(q)
      /\ \A i \in 1 .. Len(commits) : (commits \o q)[i] = commits[i]
      /\ \A i \in 1 .. Len(q) : (commits \o q)[Len(commits) + i] = q[i]
  <2>1. IsSeq(commits) /\ IsSeq(q) BY <1>2
  <2> QED BY <2>1, MoreWrites
<1>4. 1 \in 1 .. Len(q) BY <1>2
<1>6. (commits \o q)[Len(commits) + 1] = c BY <1>2, <1>3, <1>4
<1>5. Len(commits) \in Nat BY DEF IsSeq
<1> QED BY <1>2, <1>3, <1>5, <1>6 DEF q

LEMMA NoMore == IsSeq(commits) => IsSeq(<<>>) /\ commits \o <<>> = commits
BY NoWrites, ConcatEmptySeq DEF IsSeq

\* Every write of a checkout is of its tree, and the index is saved.
LEMMA Checkouts ==
  ASSUME NEW t
  PROVE  /\ IsSeq(CheckoutWrites(t))
         /\ \A w \in Writes(CheckoutWrites(t)) :
              /\ w.op \in {"files", "extras", "index"} /\ w.tree = t
              /\ w.op = "files" => "left" \in DOMAIN w
         /\ \E w \in Writes(CheckoutWrites(t)) : w.op = "index"
<1> DEFINE fs == {f \in Files : t[f] # NoFile}
<1>1. /\ IsSeq(CheckoutWrites(t))
      /\ Writes(CheckoutWrites(t)) = {Extras(t), Save(t)} \union (IF fs = {} THEN {} ELSE {Put(t, fs)})
  BY CheckoutSet
<1> HIDE DEF fs
<1>2. Put(t, fs).op = "files" /\ Put(t, fs).tree = t /\ "left" \in DOMAIN Put(t, fs) BY DEF Put
<1>3. Extras(t).op = "extras" /\ Extras(t).tree = t /\ Save(t).op = "index" /\ Save(t).tree = t
  BY DEF Extras, Save
<1> QED BY <1>1, <1>2, <1>3

\* A branch b gets the new commit, and the index is its tree.
LEMMA CommitSteady ==
  ASSUME Steady, task' = task, CmdCommit
  PROVE  Steady'
<1> DEFINE new == Len(commits) + 1
           t == Scanned(work)
           c == NewCommit(t, "scan", Onto(HeadCommit), 0)
           ws == CommitWrites(new) \o <<Save(t)>>
           r == [refs EXCEPT ![head] = new]
<1>1. Runs(ws, "idle", NoState, <<c>>) /\ todo = <<>> BY DEF CmdCommit, Runs, Begins, Idle
<1>2. Settled(head, refs, index, state, commits, next, mem) /\ HeadBranch = head BY <1>1, AtRest
<1>3. /\ IsSeq(<<c>>) /\ Len(commits) \in Nat /\ Len(commits') = new
      /\ commits'[new] = c /\ \A i \in 1 .. Len(commits) : commits'[i] = commits[i]
  <2>1. commits' = commits \o <<c>> BY <1>1 DEF Runs, Proceed
  <2> HIDE DEF c
  <2> QED BY <2>1, OneMore DEF Steady
<1>4. IsSeq(ws) /\ Writes(ws) = {Ref(head, new), Log(head, HeadCommit, new), Save(t)}
  <2>1. CommitWrites(new) = <<Ref(head, new), Log(head, HeadCommit, new)>> BY <1>2 DEF CommitWrites
  <2> HIDE DEF t, new
  <2> QED BY <2>1, SomeWrites, MoreWrites
<1>5. c.tree = t BY DEF NewCommit
<1> HIDE DEF ws, c, t
<1>6. r \in RefsOf(commits') /\ \A b \in Branches : r[b] = IF b = head THEN new ELSE refs[b]
  BY <1>3 DEF RefsOf, Steady
<1>7. HeadTo(Writes(ws), head, head) /\ IndexTo(Writes(ws), index, t) /\ StateTo(Writes(ws), state, state)
  BY <1>4 DEF HeadTo, IndexTo, StateTo, Ref, Log, Save
<1>8. RefsTo(Writes(ws), refs, r) BY <1>4, <1>6 DEF RefsTo, Ref, Log, Save, Steady
<1>9. Settled(head, r, t, state, commits', "idle", NoState)
  <2>1. TipIn(r, head) = new BY <1>3, <1>6 DEF TipIn, Missing, Steady
  <2>2. \A s : Rebased(s, head, refs, commits) => Rebased(s, head, r, commits')
    BY <1>3, <1>6 DEF Rebased
  <2> QED BY <1>2, <1>3, <1>5, <2>1, <2>2 DEF Settled
<1> HIDE DEF r
<1>10. Proceed(ws, "idle", NoState, <<c>>) BY <1>1 DEF Runs, ws, c, t
<1>11. head \in Branches BY DEF Steady
<1> QED BY <1>3, <1>4, <1>6, <1>7, <1>8, <1>9, <1>10, <1>11, GoesOn

LEMMA SwitchSteady ==
  ASSUME Steady, task' = task, NEW b, CmdCheckout(b), \A f \in StateFiles : state[f] = NoState
  PROVE  Steady'
<1> DEFINE co == CheckoutWrites(TreeOf(refs[b]))
           ws == <<SetHead(b)>> \o (IF refs[b] = Unborn THEN <<>> ELSE co)
           x == IF refs[b] = Unborn THEN index ELSE TreeOf(refs[b])
<1>1. Runs(ws, "idle", NoState, <<>>) /\ todo = <<>> /\ b \in Branches /\ refs[b] # Missing
  BY DEF CmdCheckout, Runs, Begins, Idle, ListBranches
<1>2. Settled(head, refs, index, state, commits, next, mem) BY <1>1, AtRest
<1>3. commits' = commits /\ IsSeq(<<>>)
  BY <1>1, NoMore DEF Runs, Proceed, Steady
<1>4. /\ IsSeq(ws) /\ \E w \in Writes(ws) : w = SetHead(b)
      /\ \A w \in Writes(ws) : w = SetHead(b) \/ (refs[b] # Unborn /\ w \in Writes(co))
      /\ refs[b] # Unborn => Writes(co) \subseteq Writes(ws)
  <2>1. IsSeq(co) BY Checkouts
  <2>2. IsSeq(<<SetHead(b)>>) /\ Writes(<<SetHead(b)>>) = {SetHead(b)} BY SomeWrites
  <2> HIDE DEF co
  <2> QED BY <2>1, <2>2, NoWrites, MoreWrites
<1>5. refs[b] # Unborn => x = TreeOf(refs[b]) /\ x = commits[refs[b]].tree BY DEF TreeOf
<1>6. /\ \A w \in Writes(co) : w.op \in {"files", "extras", "index"} /\ w.tree = TreeOf(refs[b])
      /\ \E w \in Writes(co) : w.op = "index"
  BY Checkouts
<1> HIDE DEF co, ws
<1>7. HeadTo(Writes(ws), head, b) BY <1>4, <1>6 DEF HeadTo, SetHead
<1>8. IndexTo(Writes(ws), index, x) BY <1>4, <1>5, <1>6 DEF IndexTo, SetHead
<1>9. StateTo(Writes(ws), state, state) /\ RefsTo(Writes(ws), refs, refs)
  BY <1>4, <1>6 DEF StateTo, RefsTo, SetHead
<1>10. Settled(b, refs, x, state, commits', "idle", NoState)
  BY <1>1, <1>2, <1>3, <1>5 DEF Settled, TipIn, StateFiles
<1>11. Proceed(ws, "idle", NoState, <<>>) BY <1>1 DEF Runs, ws, co
<1>12. refs \in RefsOf(commits') BY <1>3 DEF Steady
<1> HIDE DEF x
<1> QED BY <1>1, <1>3, <1>4, <1>7, <1>8, <1>9, <1>10, <1>11, <1>12, GoesOn

LEMMA DeleteSteady ==
  ASSUME Steady, task' = task, NEW b, NEW force, DeleteBranch(b, force)
  PROVE  Steady'
<1> DEFINE ws == (IF refs[b] = Unborn THEN <<>> ELSE <<Log(b, refs[b], Unborn)>>) \o <<RemoveRef(b)>>
           r == [refs EXCEPT ![b] = Missing]
<1>1. Runs(ws, "idle", NoState, <<>>) /\ todo = <<>> /\ b \in Branches /\ b # HeadBranch
  BY DEF DeleteBranch, Runs, Begins, Idle, ListBranches
<1>2. Settled(head, refs, index, state, commits, next, mem) /\ HeadBranch = head BY <1>1, AtRest
<1>3. commits' = commits /\ IsSeq(<<>>)
  BY <1>1, NoMore DEF Runs, Proceed, Steady
<1>4. /\ IsSeq(ws) /\ \E w \in Writes(ws) : w = RemoveRef(b)
      /\ \A w \in Writes(ws) : w = RemoveRef(b) \/ w = Log(b, refs[b], Unborn)
  BY NoWrites, SomeWrites, MoreWrites
<1> HIDE DEF ws
<1>5. r \in RefsOf(commits') /\ \A a \in Branches : r[a] = IF a = b THEN Missing ELSE refs[a]
  BY <1>3 DEF RefsOf, Steady
<1>6. /\ HeadTo(Writes(ws), head, head) /\ IndexTo(Writes(ws), index, index)
      /\ StateTo(Writes(ws), state, state)
  BY <1>4 DEF HeadTo, IndexTo, StateTo, Log, RemoveRef
<1>7. RefsTo(Writes(ws), refs, r) BY <1>1, <1>4, <1>5 DEF RefsTo, Log, RemoveRef
<1>8. Settled(head, r, index, state, commits', "idle", NoState)
  <2>1. TipIn(r, head) = TipIn(refs, head) BY <1>1, <1>2, <1>5 DEF TipIn, Steady
  <2>2. \A s : Rebased(s, head, refs, commits) => Rebased(s, head, r, commits)
    BY <1>5 DEF Rebased
  <2> QED BY <1>2, <1>3, <2>1, <2>2 DEF Settled
<1> HIDE DEF r
<1>9. Proceed(ws, "idle", NoState, <<>>) BY <1>1 DEF Runs, ws
<1>10. head \in Branches BY DEF Steady
<1> QED BY <1>3, <1>4, <1>5, <1>6, <1>7, <1>8, <1>9, <1>10, GoesOn

LEMMA PickSteady ==
  ASSUME Steady, task' = task, NEW target, NEW of, NEW n, NEW m, NEW more, todo = <<>>,
         task = "rebase",
         LET ws == PickWrites(target) \o more IN Proceed(ws, n, m, Picked(target, of)),
         \/ more = <<>> /\ n = "idle"
         \/ /\ more = <<SaveRebase(m)>> /\ n = "replay" /\ DOMAIN state = StateFiles
            /\ Rebased(m, head, refs, commits)
  PROVE  Steady'
<1> DEFINE new == Len(commits) + 1
           t == PickTree(target, HeadCommit)
           c == NewCommit(t, "map", Onto(HeadCommit), of)
           co == CheckoutWrites(t)
           pw == PickWrites(target)
           ws == pw \o more
           r == [refs EXCEPT ![head] = new]
           s == [f \in StateFiles |-> IF f = "rebase" /\ more # <<>> THEN m ELSE state[f]]
<1>1. Proceed(ws, n, m, <<c>>) BY DEF Picked
<1>2. Settled(head, refs, index, state, commits, next, mem) /\ HeadBranch = head BY AtRest
<1>3. /\ IsSeq(<<c>>) /\ Len(commits) \in Nat /\ Len(commits') = new
      /\ commits'[new] = c /\ \A i \in 1 .. Len(commits) : commits'[i] = commits[i]
  <2>1. commits' = commits \o <<c>> BY <1>1 DEF Proceed
  <2> HIDE DEF c
  <2> QED BY <2>1, OneMore DEF Steady
<1>4. c.tree = t BY DEF NewCommit
<1> HIDE DEF c, t
<1>5. /\ IsSeq(co)
      /\ \A w \in Writes(co) : w.op \in {"files", "extras", "index"} /\ w.tree = t
      /\ \E w \in Writes(co) : w.op = "index"
  BY Checkouts
<1>6. IsSeq(pw) /\ Writes(pw) = {Ref(head, new), Log(head, HeadCommit, new)} \union Writes(co)
  <2>1. pw = <<Ref(head, new), Log(head, HeadCommit, new)>> \o co
    BY <1>2 DEF PickWrites, CommitWrites, t
  <2> HIDE DEF pw, co, new
  <2> QED BY <1>5, <2>1, SomeWrites, MoreWrites
<1> HIDE DEF co, pw
<1>7. IsSeq(more) /\ Writes(more) = IF more = <<>> THEN {} ELSE {SaveRebase(m)}
  <2>1. IsSeq(<<SaveRebase(m)>>) /\ Writes(<<SaveRebase(m)>>) = {SaveRebase(m)} BY SomeWrites
  <2>2. <<SaveRebase(m)>> # <<>> OBVIOUS
  <2> QED BY <2>1, <2>2, NoWrites
<1>8. IsSeq(ws) /\ Writes(ws) = Writes(pw) \union Writes(more) BY <1>6, <1>7, MoreWrites
<1> HIDE DEF ws
<1>9. \A w \in Writes(ws) :
        \/ w = Ref(head, new) \/ w = Log(head, HeadCommit, new)
        \/ w.op \in {"files", "extras", "index"} /\ w.tree = t
        \/ w = SaveRebase(m) /\ more # <<>>
  BY <1>5, <1>6, <1>7, <1>8
<1>10. /\ Ref(head, new) \in Writes(ws) /\ \E w \in Writes(ws) : w.op = "index"
       /\ more # <<>> => SaveRebase(m) \in Writes(ws)
  BY <1>5, <1>6, <1>7, <1>8
<1>11. r \in RefsOf(commits') /\ \A b \in Branches : r[b] = IF b = head THEN new ELSE refs[b]
  BY <1>3 DEF RefsOf, Steady
<1>12. HeadTo(Writes(ws), head, head) /\ IndexTo(Writes(ws), index, t)
  BY <1>9, <1>10 DEF HeadTo, IndexTo, Ref, Log, SaveRebase, SaveState
<1>13. StateTo(Writes(ws), state, s)
  BY <1>9, <1>10 DEF StateTo, Ref, Log, SaveRebase, SaveState, StateFiles
<1>14. RefsTo(Writes(ws), refs, r)
  BY <1>9, <1>10, <1>11 DEF RefsTo, Ref, Log, SaveRebase, SaveState, Steady
<1>15. Settled(head, r, t, s, commits', n, m)
  <2>1. TipIn(r, head) = new BY <1>3, <1>11 DEF TipIn, Missing, Steady
  <2>2. \A z : Rebased(z, head, refs, commits) => Rebased(z, head, r, commits')
    BY <1>3, <1>11 DEF Rebased
  <2>3. s["rebase"] = (IF more # <<>> THEN m ELSE state["rebase"]) BY DEF StateFiles
  <2>4. more # <<>> => n = "replay" /\ Rebased(m, head, r, commits') BY <2>2
  <2>5. n \in {"idle", "replay"} /\ (n = "replay" => Rebased(m, head, r, commits')) BY <2>2
  <2> QED BY <1>2, <1>3, <1>4, <2>1, <2>2, <2>3, <2>4, <2>5 DEF Settled
<1> HIDE DEF r, s
<1>16. Proceed(ws, n, m, <<c>>) BY <1>1
<1>17. head \in Branches BY DEF Steady
<1> QED BY <1>3, <1>8, <1>11, <1>12, <1>13, <1>14, <1>15, <1>16, <1>17, GoesOn

LEMMA RebaseStartSteady ==
  ASSUME Steady, task' = task, task = "rebase", NEW a \in Branches, Tip(a), RebaseStart(refs[a])
  PROVE  Steady'
<1> DEFINE up == refs[a]
           tip == HeadCommit
           chain == RebaseChain(tip, up)
           st == [branch |-> HeadBranch, orig |-> tip, up |-> up, pending |-> chain, done |-> <<>>]
           pw == <<Ref(RebaseBranch, up), Log(RebaseBranch, Unborn, up), SaveRebase(st),
                   SetHead(RebaseBranch)>>
           co == CheckoutWrites(TreeOf(up))
           ws == pw \o co
           r == [refs EXCEPT ![RebaseBranch] = up]
           s == [state EXCEPT !["rebase"] = st]
<1>1. /\ Runs(ws, "replay", st, <<>>) /\ todo = <<>>
      /\ tip # Unborn /\ GetRef(RebaseBranch) = Unborn
  BY DEF RebaseStart, Runs, Begins, Idle
<1>2. Settled(head, refs, index, state, commits, next, mem) /\ HeadBranch = head BY <1>1, AtRest
<1>3. commits' = commits /\ IsSeq(<<>>) BY <1>1, NoMore DEF Runs, Proceed, Steady
<1>4. up \in 1 .. Len(commits) /\ RebaseBranch \in Branches /\ head \in Branches /\ head # RebaseBranch
  <2>1. head # RebaseBranch BY <1>1, <1>2 DEF HeadCommit
  <2> QED BY <2>1, ScratchAssumption DEF Steady, RefsOf, Tip, Unborn, Missing, IsSeq
<1>5. st.branch = head /\ st.orig = refs[head] /\ st.orig \in 1 .. Len(commits)
  BY <1>1, <1>2, <1>4 DEF HeadCommit, GetRef, Steady, RefsOf, Unborn, Missing, IsSeq
<1> HIDE DEF st
<1>6. /\ IsSeq(co)
      /\ \A w \in Writes(co) : w.op \in {"files", "extras", "index"} /\ w.tree = TreeOf(up)
      /\ \E w \in Writes(co) : w.op = "index"
  BY Checkouts
<1> HIDE DEF co
<1>7. /\ IsSeq(ws)
      /\ Writes(ws) = {Ref(RebaseBranch, up), Log(RebaseBranch, Unborn, up), SaveRebase(st),
                       SetHead(RebaseBranch)} \union Writes(co)
  <2>1. IsSeq(pw) /\ Writes(pw) = {Ref(RebaseBranch, up), Log(RebaseBranch, Unborn, up),
                                   SaveRebase(st), SetHead(RebaseBranch)}
    BY SomeWrites
  <2> HIDE DEF pw
  <2> QED BY <1>6, <2>1, MoreWrites
<1>70. \A w \in Writes(ws) :
        \/ w \in {Ref(RebaseBranch, up), Log(RebaseBranch, Unborn, up), SaveRebase(st),
                 SetHead(RebaseBranch)}
        \/ w.op \in {"files", "extras", "index"} /\ w.tree = TreeOf(up)
  BY <1>6, <1>7
<1>71. /\ {Ref(RebaseBranch, up), SaveRebase(st), SetHead(RebaseBranch)} \subseteq Writes(ws)
       /\ \E w \in Writes(ws) : w.op = "index"
  BY <1>6, <1>7
<1> HIDE DEF ws
<1>8. r \in RefsOf(commits') /\ \A b \in Branches : r[b] = IF b = RebaseBranch THEN up ELSE refs[b]
  BY <1>3, <1>4 DEF RefsOf, Steady, IsSeq
<1>9. s["rebase"] = st /\ s["bisect"] = state["bisect"] BY DEF Steady, StateFiles
<1>10. HeadTo(Writes(ws), head, RebaseBranch)
  BY <1>70, <1>71 DEF HeadTo, Ref, Log, SetHead, SaveRebase, SaveState
<1>11. IndexTo(Writes(ws), index, TreeOf(up))
  BY <1>70, <1>71 DEF IndexTo, Ref, Log, SetHead, SaveRebase, SaveState
<1>12. StateTo(Writes(ws), state, s)
  BY <1>70, <1>71, <1>9 DEF StateTo, Ref, Log, SetHead, SaveRebase, SaveState, StateFiles
<1>13. RefsTo(Writes(ws), refs, r)
  BY <1>4, <1>70, <1>71, <1>8 DEF RefsTo, Ref, Log, SetHead, SaveRebase, SaveState
<1>14. Settled(RebaseBranch, r, TreeOf(up), s, commits', "replay", st)
  <2>1. TipIn(r, RebaseBranch) = up BY <1>4, <1>8 DEF TipIn, Missing, Steady, IsSeq
  <2>2. TreeOf(up) = commits[up].tree BY <1>4 DEF TreeOf, Unborn, Steady, IsSeq
  <2>3. Rebased(st, RebaseBranch, r, commits) BY <1>4, <1>5, <1>8 DEF Rebased
  <2> QED BY <1>2, <1>3, <1>9, <2>1, <2>2, <2>3 DEF Settled
<1> HIDE DEF r, s
<1>15. Proceed(ws, "replay", st, <<>>) BY <1>1 DEF Runs
<1> QED BY <1>3, <1>4, <1>7, <1>8, <1>10, <1>11, <1>12, <1>13, <1>14, <1>15, GoesOn

LEMMA ContinueSteady ==
  ASSUME Steady, task' = task, task = "rebase", RebaseContinue
  PROVE  Steady'
<1> DEFINE st == state["rebase"]
           target == Head(st.pending)
           tip == GetRef(RebaseBranch)
           new == Len(commits) + 1
           p == Popped(st)
           s == [state EXCEPT !["rebase"] = p]
           t == Scanned(work)
           c == NewCommit(t, "scan", Onto(tip), target)
           drop == <<SetHead(RebaseBranch), SaveRebase(p)>>
           keep == <<SetHead(RebaseBranch), Ref(RebaseBranch, new), Log(RebaseBranch, tip, new),
                     Save(t), SaveRebase(p)>>
           r == [refs EXCEPT ![RebaseBranch] = new]
<1>1. /\ todo = <<>> /\ Loads(st)
      /\ \/ Proceed(drop, "replay", p, <<>>)
         \/ Proceed(keep, "replay", p, <<c>>)
  BY DEF RebaseContinue, Runs, Begins, Idle
<1>2. Settled(head, refs, index, state, commits, next, mem) /\ HeadBranch = head BY <1>1, AtRest
<1>3. Rebased(st, head, refs, commits) /\ head = RebaseBranch /\ RebaseBranch \in Branches
  BY <1>1, <1>2, ScratchAssumption DEF Settled, Loads, Rebased
<1>4. p.branch = st.branch /\ p.orig = st.orig BY DEF Popped
<1>5. s["rebase"] = p /\ s["bisect"] = state["bisect"] BY DEF Steady, StateFiles
<1>6. Rebased(p, head, refs, commits) BY <1>3, <1>4 DEF Rebased
<1>7. c.tree = t BY DEF NewCommit
<1>8. refs \in RefsOf(commits) BY DEF Steady
<1> HIDE DEF p, s, c, t, target, tip
<1>9. CASE Proceed(drop, "replay", p, <<>>)
  <2>1. commits' = commits /\ IsSeq(<<>>) BY <1>9, NoMore DEF Proceed, Steady
  <2>2. IsSeq(drop) /\ Writes(drop) = {SetHead(RebaseBranch), SaveRebase(p)} BY SomeWrites
  <2> HIDE DEF drop
  <2>3. /\ HeadTo(Writes(drop), head, RebaseBranch) /\ RefsTo(Writes(drop), refs, refs)
        /\ IndexTo(Writes(drop), index, index)
    BY <1>3, <2>2 DEF HeadTo, RefsTo, IndexTo, SetHead, SaveRebase, SaveState
  <2>4. StateTo(Writes(drop), state, s)
    BY <1>5, <2>2 DEF StateTo, SetHead, SaveRebase, SaveState, StateFiles
  <2>5. Settled(RebaseBranch, refs, index, s, commits', "replay", p)
    BY <1>2, <1>3, <1>5, <1>6, <2>1 DEF Settled
  <2> QED BY <1>3, <1>8, <1>9, <2>1, <2>2, <2>3, <2>4, <2>5, GoesOn
<1>10. CASE Proceed(keep, "replay", p, <<c>>)
  <2>1. /\ IsSeq(<<c>>) /\ Len(commits) \in Nat /\ Len(commits') = new
        /\ commits'[new] = c /\ \A i \in 1 .. Len(commits) : commits'[i] = commits[i]
    <3>1. commits' = commits \o <<c>> BY <1>10 DEF Proceed
    <3> QED BY <3>1, OneMore DEF Steady
  <2>2. IsSeq(keep) /\ Writes(keep) = {SetHead(RebaseBranch), Ref(RebaseBranch, new),
                                       Log(RebaseBranch, tip, new), Save(t), SaveRebase(p)}
    BY SomeWrites
  <2> HIDE DEF keep
  <2>3. r \in RefsOf(commits') /\ \A b \in Branches : r[b] = IF b = RebaseBranch THEN new ELSE refs[b]
    BY <1>3, <2>1 DEF RefsOf, Steady
  <2>4. \A w \in Writes(keep) :
          w \in {SetHead(RebaseBranch), Ref(RebaseBranch, new), Log(RebaseBranch, tip, new),
                 Save(t), SaveRebase(p)}
    BY <2>2
  <2>5. {SetHead(RebaseBranch), Ref(RebaseBranch, new), Save(t), SaveRebase(p)} \subseteq Writes(keep)
    BY <2>2
  <2>6. HeadTo(Writes(keep), head, RebaseBranch) /\ IndexTo(Writes(keep), index, t)
    BY <2>4, <2>5 DEF HeadTo, IndexTo, SetHead, SaveRebase, SaveState, Ref, Log, Save
  <2>7. RefsTo(Writes(keep), refs, r)
    BY <1>3, <2>3, <2>4, <2>5 DEF RefsTo, SetHead, SaveRebase, SaveState, Ref, Log, Save
  <2>8. StateTo(Writes(keep), state, s)
    BY <1>5, <2>4, <2>5 DEF StateTo, SetHead, SaveRebase, SaveState, Ref, Log, Save, StateFiles
  <2>9. Settled(RebaseBranch, r, t, s, commits', "replay", p)
    <3>1. TipIn(r, RebaseBranch) = new BY <1>3, <2>1, <2>3 DEF TipIn, Missing
    <3>2. Rebased(p, RebaseBranch, r, commits') BY <1>3, <1>6, <2>1, <2>3 DEF Rebased
    <3> QED BY <1>2, <1>5, <1>7, <2>1, <3>1, <3>2 DEF Settled
  <2> HIDE DEF r
  <2> QED BY <1>3, <1>10, <2>1, <2>2, <2>3, <2>6, <2>7, <2>8, <2>9, GoesOn
<1> QED BY <1>1, <1>9, <1>10

LEMMA AbortSteady ==
  ASSUME Steady, task' = task, task = "rebase", RebaseAbort
  PROVE  Steady'
<1> DEFINE st == state["rebase"]
           t == TreeOf(st.orig)
           pw == <<SetHead(st.branch), RemoveRef(RebaseBranch), SaveRebase(NoState)>>
           co == CheckoutWrites(t)
           lw == <<Log(st.branch, st.orig, st.orig)>>
           ws == pw \o co \o lw
           r == [refs EXCEPT ![RebaseBranch] = Missing]
           s == [state EXCEPT !["rebase"] = NoState]
<1>1. todo = <<>> /\ Loads(st) /\ Proceed(ws, "idle", NoState, <<>>)
  BY DEF RebaseAbort, Runs, Begins, Idle
<1>2. Settled(head, refs, index, state, commits, next, mem) BY <1>1, AtRest
<1>3. Rebased(st, head, refs, commits) BY <1>1, <1>2 DEF Settled, Loads
<1>4. commits' = commits /\ IsSeq(<<>>) BY <1>1, NoMore DEF Proceed, Steady
<1>5. s["rebase"] = NoState /\ s["bisect"] = state["bisect"] BY DEF Steady, StateFiles
<1> HIDE DEF st
<1>6. /\ IsSeq(co)
      /\ \A w \in Writes(co) : w.op \in {"files", "extras", "index"} /\ w.tree = t
      /\ \E w \in Writes(co) : w.op = "index"
  BY Checkouts
<1> HIDE DEF co
<1>7. /\ IsSeq(ws)
      /\ Writes(ws) = {SetHead(st.branch), RemoveRef(RebaseBranch), SaveRebase(NoState)}
                         \union Writes(co) \union {Log(st.branch, st.orig, st.orig)}
  <2>1. IsSeq(pw) /\ Writes(pw) = {SetHead(st.branch), RemoveRef(RebaseBranch), SaveRebase(NoState)}
    BY SomeWrites
  <2>2. IsSeq(lw) /\ Writes(lw) = {Log(st.branch, st.orig, st.orig)} BY SomeWrites
  <2> HIDE DEF pw, lw
  <2>3. IsSeq(pw \o co) /\ Writes(pw \o co) = Writes(pw) \union Writes(co) BY <1>6, <2>1, MoreWrites
  <2> QED BY <2>1, <2>2, <2>3, MoreWrites
<1> HIDE DEF ws
<1>8. \A w \in Writes(ws) :
        \/ w \in {SetHead(st.branch), RemoveRef(RebaseBranch), SaveRebase(NoState),
                  Log(st.branch, st.orig, st.orig)}
        \/ w.op \in {"files", "extras", "index"} /\ w.tree = t
  BY <1>6, <1>7
<1>9. /\ {SetHead(st.branch), RemoveRef(RebaseBranch), SaveRebase(NoState)} \subseteq Writes(ws)
      /\ \E w \in Writes(ws) : w.op = "index"
  BY <1>6, <1>7
<1>10. r \in RefsOf(commits') /\ \A b \in Branches : r[b] = IF b = RebaseBranch THEN Missing ELSE refs[b]
  BY <1>4 DEF RefsOf, Steady
<1>11. HeadTo(Writes(ws), head, st.branch) /\ IndexTo(Writes(ws), index, t)
  BY <1>8, <1>9 DEF HeadTo, IndexTo, SetHead, RemoveRef, SaveRebase, SaveState, Log
<1>12. StateTo(Writes(ws), state, s)
  BY <1>5, <1>8, <1>9 DEF StateTo, SetHead, RemoveRef, SaveRebase, SaveState, Log, StateFiles
<1>13. RefsTo(Writes(ws), refs, r)
  BY <1>8, <1>9, <1>10, ScratchAssumption
  DEF RefsTo, SetHead, RemoveRef, SaveRebase, SaveState, Log
<1>14. Settled(st.branch, r, t, s, commits', "idle", NoState)
  <2>1. r[st.branch] \in {st.orig, Missing} /\ st.orig \in 1 .. Len(commits)
    BY <1>3, <1>10 DEF Rebased
  <2>2. TipIn(r, st.branch) # Unborn => TipIn(r, st.branch) = st.orig BY <2>1 DEF TipIn
  <2>3. t = commits[st.orig].tree BY <2>1 DEF TreeOf, Unborn, Steady, IsSeq
  <2> QED BY <1>2, <1>4, <1>5, <2>2, <2>3 DEF Settled
<1>15. st.branch \in Branches BY <1>3 DEF Rebased
<1> HIDE DEF r, s, t
<1> QED BY <1>1, <1>4, <1>7, <1>10, <1>11, <1>12, <1>13, <1>14, <1>15, GoesOn

LEMMA ReplaySteady ==
  ASSUME Steady, task' = task, task = "rebase", Replay
  PROVE  Steady'
<1> DEFINE target == Head(mem.pending)
<1>1. todo = <<>> /\ next = "replay" BY DEF Replay
<1>2. Settled(head, refs, index, state, commits, next, mem) /\ HeadBranch = head BY <1>1, AtRest
<1>3. Rebased(mem, head, refs, commits) BY <1>1, <1>2 DEF Settled
<1>4. CASE Steps("replay", <<SaveRebase(mem)>>, "idle", mem, <<>>)
  <2> DEFINE ws == <<SaveRebase(mem)>>
             s == [state EXCEPT !["rebase"] = mem]
  <2>1. Proceed(ws, "idle", mem, <<>>) BY <1>4 DEF Steps
  <2>2. commits' = commits /\ IsSeq(<<>>) BY <2>1, NoMore DEF Proceed, Steady
  <2>3. IsSeq(ws) /\ Writes(ws) = {SaveRebase(mem)} BY SomeWrites
  <2> HIDE DEF ws
  <2>4. s["rebase"] = mem /\ s["bisect"] = state["bisect"] BY DEF Steady, StateFiles
  <2>5. /\ HeadTo(Writes(ws), head, head) /\ RefsTo(Writes(ws), refs, refs)
        /\ IndexTo(Writes(ws), index, index) /\ StateTo(Writes(ws), state, s)
    BY <2>3, <2>4 DEF HeadTo, RefsTo, IndexTo, StateTo, SaveRebase, SaveState, StateFiles
  <2>6. Settled(head, refs, index, s, commits', "idle", mem) BY <1>2, <1>3, <2>2, <2>4 DEF Settled
  <2>7. head \in Branches /\ refs \in RefsOf(commits') BY <2>2 DEF Steady
  <2> HIDE DEF s
  <2> QED BY <2>1, <2>2, <2>3, <2>5, <2>6, <2>7, GoesOn
<1>5. CASE Steps("replay", PickWrites(target) \o <<SaveRebase(Popped(mem))>>,
                 "replay", Popped(mem), Picked(target, target))
  <2> DEFINE p == Popped(mem)
  <2>1. p.branch = mem.branch /\ p.orig = mem.orig BY DEF Popped
  <2>2. Rebased(p, head, refs, commits) BY <1>3, <2>1 DEF Rebased
  <2>3. Proceed(PickWrites(target) \o <<SaveRebase(p)>>, "replay", p, Picked(target, target))
    BY <1>5 DEF Steps
  <2> HIDE DEF p, target
  <2> QED BY <1>1, <2>2, <2>3, PickSteady DEF Steady
<1> QED BY <1>4, <1>5 DEF Replay

LEMMA FinishSteady ==
  ASSUME Steady, task' = task, task = "rebase", RebaseFinish
  PROVE  Steady'
<1> DEFINE tip == HeadCommit
           b == mem.branch
           pw == <<Ref(b, tip), Log(b, mem.orig, tip), SetHead(b), RemoveRef(RebaseBranch),
                   SaveRebase(NoState)>>
           co == CheckoutWrites(TreeOf(tip))
           cw == IF tip = Unborn THEN <<>> ELSE co
           ws == pw \o cw
           r == [refs EXCEPT ![b] = tip, ![RebaseBranch] = Missing]
           s == [state EXCEPT !["rebase"] = NoState]
           x == IF tip = Unborn THEN index ELSE TreeOf(tip)
<1>1. todo = <<>> /\ next = "replay" /\ Proceed(ws, "idle", mem, <<>>)
  BY DEF RebaseFinish, Steps
<1>2. Settled(head, refs, index, state, commits, next, mem) /\ HeadBranch = head BY <1>1, AtRest
<1>3. b \in Branches /\ b # RebaseBranch BY <1>1, <1>2 DEF Settled, Rebased
<1>4. commits' = commits /\ IsSeq(<<>>) BY <1>1, NoMore DEF Proceed, Steady
<1>5. s["rebase"] = NoState /\ s["bisect"] = state["bisect"] BY DEF Steady, StateFiles
<1>6. tip \in 0 .. Len(commits) /\ (tip # Unborn => TreeOf(tip) = commits[tip].tree)
  BY <1>2 DEF HeadCommit, GetRef, TreeOf, Steady, RefsOf, IsSeq, Unborn
<1> HIDE DEF b, tip
<1>7. /\ IsSeq(co)
      /\ \A w \in Writes(co) : w.op \in {"files", "extras", "index"} /\ w.tree = TreeOf(tip)
      /\ \E w \in Writes(co) : w.op = "index"
  BY Checkouts
<1> HIDE DEF co
<1>8. /\ IsSeq(ws)
      /\ Writes(ws) = {Ref(b, tip), Log(b, mem.orig, tip), SetHead(b), RemoveRef(RebaseBranch),
                       SaveRebase(NoState)} \union (IF tip = Unborn THEN {} ELSE Writes(co))
  <2>1. IsSeq(pw) /\ Writes(pw) = {Ref(b, tip), Log(b, mem.orig, tip), SetHead(b),
                                   RemoveRef(RebaseBranch), SaveRebase(NoState)}
    BY SomeWrites
  <2>2. IsSeq(cw) /\ Writes(cw) = IF tip = Unborn THEN {} ELSE Writes(co) BY <1>7, NoWrites
  <2> HIDE DEF pw, cw
  <2> QED BY <2>1, <2>2, MoreWrites
<1> HIDE DEF ws
<1>9. \A w \in Writes(ws) :
        \/ w \in {Ref(b, tip), Log(b, mem.orig, tip), SetHead(b), RemoveRef(RebaseBranch),
                  SaveRebase(NoState)}
        \/ tip # Unborn /\ w.op \in {"files", "extras", "index"} /\ w.tree = x
  BY <1>7, <1>8
<1>10. /\ {Ref(b, tip), SetHead(b), RemoveRef(RebaseBranch), SaveRebase(NoState)} \subseteq Writes(ws)
       /\ tip # Unborn => \E w \in Writes(ws) : w.op = "index"
  BY <1>7, <1>8
<1>11. /\ r \in RefsOf(commits')
       /\ \A a \in Branches :
            r[a] = IF a = RebaseBranch THEN Missing ELSE IF a = b THEN tip ELSE refs[a]
  BY <1>3, <1>4, <1>6 DEF RefsOf, Steady
<1>12. HeadTo(Writes(ws), head, b)
  BY <1>9, <1>10 DEF HeadTo, Ref, SetHead, RemoveRef, SaveRebase, SaveState, Log
<1>13. IndexTo(Writes(ws), index, x)
  <2>1. tip = Unborn => index = x OBVIOUS
  <2> QED BY <1>9, <1>10, <2>1 DEF IndexTo, Ref, SetHead, RemoveRef, SaveRebase, SaveState, Log
<1>14. StateTo(Writes(ws), state, s)
  BY <1>5, <1>9, <1>10 DEF StateTo, Ref, SetHead, RemoveRef, SaveRebase, SaveState, Log, StateFiles
<1>15. RefsTo(Writes(ws), refs, r)
  <2>1. RebaseBranch \in Branches BY ScratchAssumption
  <2>2. r[b] = tip /\ r[RebaseBranch] = Missing BY <1>3, <1>11, <2>1
  <2>3. ASSUME NEW w \in Writes(ws)
        PROVE  /\ w.op = "ref" => r[w.branch] = w.commit
               /\ w.op = "rmref" => r[w.branch] = Missing
    BY <1>9, <2>2 DEF Ref, SetHead, RemoveRef, SaveRebase, SaveState, Log
  <2>4. ASSUME NEW a \in Branches, a \in {b, RebaseBranch}
        PROVE  \E w \in Writes(ws) : w.op \in {"ref", "rmref"} /\ w.branch = a
    BY <1>10, <2>4 DEF Ref, RemoveRef
  <2>5. \A a \in Branches : a \notin {b, RebaseBranch} => refs[a] = r[a] BY <1>11
  <2> QED BY <2>3, <2>4, <2>5 DEF RefsTo
<1>16. Settled(b, r, x, s, commits', "idle", mem)
  <2>1. TipIn(r, b) = tip
    <3>1. r[b] = tip BY <1>3, <1>11
    <3>2. tip # Missing BY <1>6 DEF Missing, Steady, IsSeq
    <3> QED BY <3>1, <3>2 DEF TipIn
  <2> QED BY <1>2, <1>4, <1>5, <1>6, <2>1 DEF Settled
<1> HIDE DEF r, s, x
<1> QED BY <1>1, <1>3, <1>4, <1>8, <1>11, <1>12, <1>13, <1>14, <1>15, <1>16, GoesOn

\* A bisect saves its state st, and nothing else.
LEMMA MarkSteady ==
  ASSUME Steady, task' = task, task = "bisect", todo = <<>>, NEW st, st.orig \in Branches, NEW m,
         m.st = st, Proceed(<<SaveBisect(st)>>, "advance", m, <<>>)
  PROVE  Steady'
<1> DEFINE ws == <<SaveBisect(st)>>
           s == [state EXCEPT !["bisect"] = st]
<1>1. Settled(head, refs, index, state, commits, next, mem) BY AtRest
<1>2. commits' = commits /\ IsSeq(<<>>) BY NoMore DEF Proceed, Steady
<1>3. IsSeq(ws) /\ Writes(ws) = {SaveBisect(st)} BY SomeWrites
<1>4. Proceed(ws, "advance", m, <<>>) OBVIOUS
<1> HIDE DEF ws
<1>5. s["bisect"] = st /\ s["rebase"] = state["rebase"] BY DEF Steady, StateFiles
<1>6. /\ HeadTo(Writes(ws), head, head) /\ RefsTo(Writes(ws), refs, refs)
      /\ IndexTo(Writes(ws), index, index) /\ StateTo(Writes(ws), state, s)
  BY <1>3, <1>5 DEF HeadTo, RefsTo, IndexTo, StateTo, SaveBisect, SaveState, StateFiles
<1>7. Settled(head, refs, index, s, commits', "advance", m) BY <1>1, <1>2, <1>5 DEF Settled
<1>8. head \in Branches /\ refs \in RefsOf(commits') BY <1>2 DEF Steady
<1> HIDE DEF s
<1> QED BY <1>2, <1>3, <1>4, <1>6, <1>7, <1>8, GoesOn

\* It goes on with no write.
LEMMA NothingSteady ==
  ASSUME Steady, task' = task, task = "bisect", todo = <<>>, NEW n, n \in {"idle", "run"},
         NEW m, Proceed(<<>>, n, m, <<>>)
  PROVE  Steady'
<1>1. Settled(head, refs, index, state, commits, next, mem) BY AtRest
<1>2. commits' = commits /\ IsSeq(<<>>) BY NoMore DEF Proceed, Steady
<1>3. /\ HeadTo(Writes(<<>>), head, head) /\ RefsTo(Writes(<<>>), refs, refs)
      /\ IndexTo(Writes(<<>>), index, index) /\ StateTo(Writes(<<>>), state, state)
  BY NoWrites DEF HeadTo, RefsTo, IndexTo, StateTo
<1>4. Settled(head, refs, index, state, commits', n, m) BY <1>1, <1>2 DEF Settled
<1>5. head \in Branches /\ refs \in RefsOf(commits') BY <1>2 DEF Steady
<1> QED BY <1>2, <1>3, <1>4, <1>5, GoesOn

LEMMA TakeSteady ==
  ASSUME Steady, task' = task, task = "bisect", todo = <<>>, NEW c \in DOMAIN commits,
         NEW st, st.orig \in Branches, NEW n, n \in {"idle", "run"}, NEW m,
         Proceed(Candidate(c, st), n, m, <<>>)
  PROVE  Steady'
<1> DEFINE t == TreeOf(c)
           pw == <<Ref(ScratchBranch, c), SetHead(ScratchBranch)>>
           co == CheckoutWrites(t)
           sw == <<SaveBisect(st)>>
           ws == pw \o co \o sw
           r == [refs EXCEPT ![ScratchBranch] = c]
           s == [state EXCEPT !["bisect"] = st]
<1>1. Settled(head, refs, index, state, commits, next, mem) BY AtRest
<1>2. commits' = commits /\ IsSeq(<<>>) BY NoMore DEF Proceed, Steady
<1>3. c \in 1 .. Len(commits) /\ t = commits[c].tree /\ ScratchBranch \in Branches
  <2>1. DOMAIN commits = 1 .. Len(commits) /\ Len(commits) \in Nat
    BY LenProperties DEF Steady, IsSeq
  <2> QED BY <2>1, ScratchAssumption DEF TreeOf, Unborn
<1>4. Proceed(ws, n, m, <<>>) BY DEF Candidate
<1> HIDE DEF t
<1>5. /\ IsSeq(co)
      /\ \A w \in Writes(co) : w.op \in {"files", "extras", "index"} /\ w.tree = t
      /\ \E w \in Writes(co) : w.op = "index"
  BY Checkouts
<1> HIDE DEF co
<1>6. /\ IsSeq(ws)
      /\ Writes(ws) = {Ref(ScratchBranch, c), SetHead(ScratchBranch)} \union Writes(co)
                        \union {SaveBisect(st)}
  <2>1. IsSeq(pw) /\ Writes(pw) = {Ref(ScratchBranch, c), SetHead(ScratchBranch)} BY SomeWrites
  <2>2. IsSeq(sw) /\ Writes(sw) = {SaveBisect(st)} BY SomeWrites
  <2> HIDE DEF pw, sw
  <2>3. IsSeq(pw \o co) /\ Writes(pw \o co) = Writes(pw) \union Writes(co) BY <1>5, <2>1, MoreWrites
  <2> QED BY <2>1, <2>2, <2>3, MoreWrites
<1> HIDE DEF ws
<1>7. \A w \in Writes(ws) :
        \/ w \in {Ref(ScratchBranch, c), SetHead(ScratchBranch), SaveBisect(st)}
        \/ w.op \in {"files", "extras", "index"} /\ w.tree = t
  BY <1>5, <1>6
<1>8. /\ {Ref(ScratchBranch, c), SetHead(ScratchBranch), SaveBisect(st)} \subseteq Writes(ws)
      /\ \E w \in Writes(ws) : w.op = "index"
  BY <1>5, <1>6
<1>9. r \in RefsOf(commits') /\ \A b \in Branches : r[b] = IF b = ScratchBranch THEN c ELSE refs[b]
  BY <1>2, <1>3 DEF RefsOf, Steady, IsSeq
<1>10. s["bisect"] = st /\ s["rebase"] = state["rebase"] BY DEF Steady, StateFiles
<1>11. HeadTo(Writes(ws), head, ScratchBranch) /\ IndexTo(Writes(ws), index, t)
  BY <1>7, <1>8 DEF HeadTo, IndexTo, Ref, SetHead, SaveBisect, SaveState
<1>12. StateTo(Writes(ws), state, s)
  BY <1>7, <1>8, <1>10 DEF StateTo, Ref, SetHead, SaveBisect, SaveState, StateFiles
<1>13. RefsTo(Writes(ws), refs, r)
  BY <1>3, <1>7, <1>8, <1>9 DEF RefsTo, Ref, SetHead, SaveBisect, SaveState
<1>14. Settled(ScratchBranch, r, t, s, commits', n, m)
  <2>1. r[ScratchBranch] = c /\ c # Missing BY <1>3, <1>9 DEF Missing, Steady, IsSeq
  <2>2. TipIn(r, ScratchBranch) = c BY <2>1 DEF TipIn
  <2> QED BY <1>1, <1>2, <1>3, <1>10, <2>2 DEF Settled
<1> HIDE DEF r, s
<1> QED BY <1>2, <1>3, <1>4, <1>6, <1>9, <1>11, <1>12, <1>13, <1>14, GoesOn

LEMMA ResetSteady ==
  ASSUME Steady, task' = task, task = "bisect", BisectReset
  PROVE  Steady'
<1> DEFINE b == state["bisect"].orig
           tip == GetRef(b)
           pw == <<RemoveRef(ScratchBranch), SetHead(b)>>
           co == CheckoutWrites(TreeOf(refs[b]))
           cw == IF tip = Unborn THEN <<>> ELSE co
           sw == <<SaveBisect(NoState)>>
           ws == pw \o cw \o sw
           r == [refs EXCEPT ![ScratchBranch] = Missing]
           s == [state EXCEPT !["bisect"] = NoState]
           x == IF tip = Unborn THEN index ELSE TreeOf(refs[b])
<1>1. /\ todo = <<>> /\ Loads(state["bisect"]) /\ Proceed(ws, "idle", NoState, <<>>)
  BY DEF BisectReset, Runs, Begins, Idle
<1>2. Settled(head, refs, index, state, commits, next, mem) BY <1>1, AtRest
<1>3. b \in Branches /\ ScratchBranch \in Branches
  BY <1>1, <1>2, ScratchAssumption DEF Settled, Loads
<1>4. commits' = commits /\ IsSeq(<<>>) BY <1>1, NoMore DEF Proceed, Steady
<1>5. s["bisect"] = NoState /\ s["rebase"] = state["rebase"] BY DEF Steady, StateFiles
<1>6. tip # Unborn => refs[b] = tip /\ tip # Missing /\ TreeOf(tip) = commits[tip].tree
  BY DEF GetRef, TreeOf
<1>7. refs[b] \in {tip, Missing} BY DEF GetRef
<1> HIDE DEF b, tip
<1>8. /\ IsSeq(co)
      /\ \A w \in Writes(co) : w.op \in {"files", "extras", "index"} /\ w.tree = TreeOf(refs[b])
      /\ \E w \in Writes(co) : w.op = "index"
  BY Checkouts
<1> HIDE DEF co
<1>9. /\ IsSeq(ws)
      /\ Writes(ws) = {RemoveRef(ScratchBranch), SetHead(b)}
                        \union (IF tip = Unborn THEN {} ELSE Writes(co)) \union {SaveBisect(NoState)}
  <2>1. IsSeq(pw) /\ Writes(pw) = {RemoveRef(ScratchBranch), SetHead(b)} BY SomeWrites
  <2>2. IsSeq(cw) /\ Writes(cw) = IF tip = Unborn THEN {} ELSE Writes(co) BY <1>8, NoWrites
  <2>3. IsSeq(sw) /\ Writes(sw) = {SaveBisect(NoState)} BY SomeWrites
  <2> HIDE DEF pw, cw, sw
  <2>4. IsSeq(pw \o cw) /\ Writes(pw \o cw) = Writes(pw) \union Writes(cw) BY <2>1, <2>2, MoreWrites
  <2> QED BY <2>1, <2>2, <2>3, <2>4, MoreWrites
<1> HIDE DEF ws
<1>10. \A w \in Writes(ws) :
         \/ w \in {RemoveRef(ScratchBranch), SetHead(b), SaveBisect(NoState)}
         \/ tip # Unborn /\ w.op \in {"files", "extras", "index"} /\ w.tree = x
  BY <1>8, <1>9
<1>11. /\ {RemoveRef(ScratchBranch), SetHead(b), SaveBisect(NoState)} \subseteq Writes(ws)
       /\ tip # Unborn => \E w \in Writes(ws) : w.op = "index"
  BY <1>8, <1>9
<1>12. /\ r \in RefsOf(commits')
       /\ \A a \in Branches : r[a] = IF a = ScratchBranch THEN Missing ELSE refs[a]
  BY <1>3, <1>4 DEF RefsOf, Steady
<1>13. HeadTo(Writes(ws), head, b)
  BY <1>10, <1>11 DEF HeadTo, SetHead, RemoveRef, SaveBisect, SaveState
<1>14. IndexTo(Writes(ws), index, x)
  <2>1. tip = Unborn => index = x OBVIOUS
  <2> QED BY <1>10, <1>11, <2>1 DEF IndexTo, SetHead, RemoveRef, SaveBisect, SaveState
<1>15. StateTo(Writes(ws), state, s)
  BY <1>5, <1>10, <1>11 DEF StateTo, SetHead, RemoveRef, SaveBisect, SaveState, StateFiles
<1>16. RefsTo(Writes(ws), refs, r)
  BY <1>3, <1>10, <1>11, <1>12 DEF RefsTo, SetHead, RemoveRef, SaveBisect, SaveState
<1>17. Settled(b, r, x, s, commits', "idle", NoState)
  <2>1. r[b] \in {tip, Missing} BY <1>3, <1>7, <1>12
  <2>2. TipIn(r, b) # Unborn => TipIn(r, b) = tip /\ tip # Unborn BY <2>1 DEF TipIn
  <2> QED BY <1>2, <1>4, <1>5, <1>6, <2>2 DEF Settled
<1> HIDE DEF r, s, x
<1> QED BY <1>1, <1>3, <1>4, <1>9, <1>12, <1>13, <1>14, <1>15, <1>16, <1>17, GoesOn

LEMMA BisectsSteady ==
  ASSUME Steady, task' = task, Bisects
  PROVE  Steady'
<1> DEFINE st == state["bisect"]
<1>1. task = "bisect" BY DEF Bisects
<1>2. ASSUME todo = <<>>, Loads(st) PROVE st.orig \in Branches
  BY <1>1, <1>2, AtRest DEF Settled, Loads
<1>3. ASSUME NEW v, NEW c PROVE MarkedState(st, v, c).orig = st.orig BY DEF MarkedState
<1>4. ASSUME NEW bad, NEW goods, BisectStart(bad, goods) PROVE Steady'
  <2> DEFINE b == [orig |-> HeadBranch, bad |-> bad, current |-> Unborn, concluded |-> Unborn,
                   tested |-> [c \in goods \union {bad} |-> IF c = bad THEN "bad" ELSE "good"]]
             m == [st |-> b, run |-> FALSE]
  <2>1. todo = <<>> /\ Proceed(<<SaveBisect(b)>>, "advance", m, <<>>)
    BY <1>4 DEF BisectStart, Runs, Begins, Idle
  <2>2. b.orig \in Branches /\ m.st = b BY <2>1, AtRest DEF Steady
  <2> HIDE DEF b, m
  <2> QED BY <1>1, <2>1, <2>2, MarkSteady
<1>5. ASSUME BisectRun PROVE Steady'
  <2>1. todo = <<>> /\ Proceed(<<>>, "run", NoState, <<>>) BY <1>5 DEF BisectRun, Runs, Begins, Idle
  <2> QED BY <1>1, <2>1, NothingSteady
<1>6. ASSUME BisectReset PROVE Steady' BY <1>1, <1>6, ResetSteady
<1>7. ASSUME NEW v, NEW c, BisectMark(v, c) PROVE Steady'
  <2> DEFINE b == MarkedState(st, v, c)
             m == [st |-> b, run |-> FALSE]
  <2>1. todo = <<>> /\ Loads(st) /\ Proceed(<<SaveBisect(b)>>, "advance", m, <<>>)
    BY <1>7 DEF BisectMark, Marks, Runs, Begins, Idle
  <2>2. b.orig \in Branches /\ m.st = b BY <1>2, <1>3, <2>1
  <2> HIDE DEF b, m
  <2> QED BY <1>1, <2>1, <2>2, MarkSteady
<1>8. ASSUME Advance PROVE Steady'
  <2> DEFINE set == Suspects(mem.st)
             then == IF mem.run THEN "run" ELSE "idle"
  <2>1. todo = <<>> /\ next = "advance" BY <1>8 DEF Advance
  <2>2. mem.st.orig \in Branches BY <2>1, AtRest DEF Settled
  <2>3. set \subseteq DOMAIN commits /\ Middle(Testable(mem.st)) \subseteq set
    BY DEF Suspects, Middle, Testable
  <2>4. ASSUME NEW c \in set,
               Proceed(Candidate(c, [mem.st EXCEPT !.current = c, !.concluded = c]), "idle", mem, <<>>)
        PROVE  Steady'
    <3> DEFINE b == [mem.st EXCEPT !.current = c, !.concluded = c]
    <3>1. b.orig \in Branches BY <2>2
    <3> HIDE DEF b
    <3>2. c \in DOMAIN commits BY <2>3
    <3> HIDE DEF set
    <3> QED BY <1>1, <2>1, <2>4, <3>1, <3>2, TakeSteady DEF b
  <2>5. ASSUME NEW c \in Middle(Testable(mem.st)),
               Proceed(Candidate(c, [mem.st EXCEPT !.current = c]), then, mem, <<>>)
        PROVE  Steady'
    <3> DEFINE b == [mem.st EXCEPT !.current = c]
    <3>1. b.orig \in Branches BY <2>2
    <3> HIDE DEF b
    <3>2. c \in DOMAIN commits BY <2>3
    <3>3. then \in {"idle", "run"} OBVIOUS
    <3> HIDE DEF set, then
    <3> QED BY <1>1, <2>1, <2>5, <3>1, <3>2, <3>3, TakeSteady DEF b
  <2>6. Proceed(<<>>, "idle", mem, <<>>) => Steady' BY <1>1, <2>1, NothingSteady
  <2> QED BY <1>8, <2>4, <2>5, <2>6 DEF Advance, Steps
<1>9. ASSUME NEW v, RunOnce(v) PROVE Steady'
  <2> DEFINE b == MarkedState(st, v, st.current)
             m == [st |-> b, run |-> TRUE]
  <2>1. todo = <<>> BY <1>9 DEF RunOnce
  <2>2. CASE Loads(st) /\ Proceed(<<SaveBisect(b)>>, "advance", m, <<>>)
    <3>1. b.orig \in Branches /\ m.st = b BY <1>2, <1>3, <2>1, <2>2
    <3> HIDE DEF b, m
    <3> QED BY <1>1, <2>1, <2>2, <3>1, MarkSteady
  <2>3. CASE Proceed(<<>>, "idle", NoState, <<>>) BY <1>1, <2>1, <2>3, NothingSteady
  <2> QED BY <1>9, <2>2, <2>3 DEF RunOnce, Steps, Marks
<1> QED BY <1>4, <1>5, <1>6, <1>7, <1>8, <1>9 DEF Bisects

LEMMA RebasesSteady ==
  ASSUME Steady, task' = task, Rebases
  PROVE  Steady'
<1>1. task = "rebase" BY DEF Rebases
<1>2. ASSUME NEW target, CherryPick(target) PROVE Steady'
  <2>1. todo = <<>> /\ Proceed(PickWrites(target), "idle", NoState, Picked(target, 0))
    BY <1>2 DEF CherryPick, Runs, Begins, Idle
  <2>2. PickWrites(target) \o <<>> = PickWrites(target)
    <3> DEFINE co == CheckoutWrites(PickTree(target, HeadCommit))
               cw == CommitWrites(Len(commits) + 1)
    <3>1. IsSeq(co) /\ IsSeq(cw) BY Checkouts, SomeWrites DEF CommitWrites
    <3> HIDE DEF co, cw
    <3>2. IsSeq(cw \o co) BY <3>1, MoreWrites
    <3>3. IsSeq(PickWrites(target)) BY <3>2 DEF PickWrites, co, cw
    <3> QED BY <3>3, ConcatEmptySeq DEF IsSeq
  <2> QED BY <1>1, <2>1, <2>2, PickSteady
<1> QED
  BY <1>1, <1>2, RebaseStartSteady, ContinueSteady, AbortSteady, ReplaySteady, FinishSteady
  DEF Rebases

LEMMA InitHInv == Init => HInv
<1> SUFFICES ASSUME Init PROVE HInv OBVIOUS
<1>1. PICK s \in Starts :
        /\ commits = s.commits
        /\ refs = [b \in Branches |-> IF b \in DOMAIN s.refs THEN s.refs[b] ELSE Missing]
        /\ index = s.commits[s.refs[Main]].tree
  BY DEF Init
<1>2. /\ head = Main /\ todo = <<>> /\ next = "idle" /\ mem = NoState
      /\ state = [f \in StateFiles |-> NoState] /\ mishaps = 0
  BY DEF Init
<1>3. IsSeq(commits) /\ DOMAIN commits = 1 .. Len(commits) /\ Len(commits) \in Nat
  <2>1. commits \in Seq([tree : Trees, built : STRING, parents : Seq(Nat), of : Nat])
    BY <1>1, StartsAssumption
  <2> QED BY <2>1, AnySeq, LenProperties
<1>4. /\ Main \in Branches /\ refs[Main] = s.refs[Main] /\ refs[Main] \in 1 .. Len(commits)
      /\ refs \in RefsOf(commits)
  BY <1>1, <1>3, StartsAssumption DEF RefsOf
<1>5. IsSeq(todo) /\ Writes(todo) = {} BY <1>2, NoWrites
<1>6. Settled(head, refs, index, state, commits, next, mem)
  BY <1>1, <1>2, <1>4 DEF Settled, TipIn, StateFiles
<1>7. Settles
  BY <1>2, <1>4, <1>5, <1>6 DEF Settles, HeadTo, RefsTo, IndexTo, StateTo
<1>8. DOMAIN state = StateFiles /\ state = [f \in StateFiles |-> state[f]] BY <1>2
<1> QED BY <1>2, <1>3, <1>4, <1>5, <1>7, <1>8 DEF HInv, Steady

LEMMA NextHInv == HInv /\ [Next]_vars => HInv'
<1> SUFFICES ASSUME HInv, [Next]_vars PROVE HInv' OBVIOUS
<1>1. CASE UNCHANGED vars
  BY <1>1 DEF HInv, Quiet, Steady, Settles, Settled, vars, repoVars, cmdVars
<1>2. CASE Next
  <2>1. task' = task BY <1>2 DEF Next, Edit, Crash, Switch, Meanwhile
  <2>2. mishaps' \in Nat /\ (mishaps' = 0 => mishaps = 0)
    BY <1>2 DEF Next, Edit, Crash, Switch, Meanwhile, HInv
  <2> SUFFICES ASSUME Quiet' PROVE Steady' BY <2>2 DEF HInv
  <2>3. Quiet /\ Steady BY <2>1, <2>2 DEF Quiet, HInv
  <2>4. ASSUME NEW f, NEW v, Edit(f, v) PROVE Steady'
    <3>1. UNCHANGED <<index, commits, refs, head, todo, next, mem, state>>
      BY <2>4 DEF Edit, cmdVars
    <3>2. Settles' BY <2>1, <2>3, <3>1 DEF Steady, Settles, Settled
    <3> QED BY <2>3, <3>1, <3>2 DEF Steady
  <2>5. ASSUME Crash PROVE Steady' BY <2>5 DEF Crash, Quiet, HInv
  <2>6. ASSUME NEW b, Switch(b) PROVE Steady'
    <3>1. \A f \in StateFiles : state[f] = NoState BY <2>6 DEF Switch, Quiet, HInv
    <3> QED BY <2>1, <2>3, <2>6, <3>1, SwitchSteady DEF Switch
  <2>7. ~Stashes BY <2>3 DEF Stashes, Quiet
  <2> QED
    BY <1>2, <2>1, <2>3, <2>4, <2>5, <2>6, <2>7, WriteSteady, CommitSteady, DeleteSteady,
       RebasesSteady, BisectsSteady
    DEF Next
<1> QED BY <1>1, <1>2

\* When a rebase or a bisect, finished, aborted or stopped, has given the
\* terminal back, clean files are those of HEAD's tip: cmdRebase, cmdBisect,
\* cmdCheckout and cmdCommit leave the index with the tree of the commit that
\* HEAD names, each by writes of its own.
THEOREM HeadFollowed == Spec => []FilesFollowHead
<1>1. HInv => FilesFollowHead
  <2> SUFFICES ASSUME HInv, task # "shelves", mishaps = 0, Idle, Clean, HeadCommit # Unborn
               PROVE  TreeOf(HeadCommit) = Scanned(work)
    BY DEF FilesFollowHead
  <2>1. Settled(head, refs, index, state, commits, next, mem) /\ HeadBranch = head
    BY AtRest DEF HInv, Quiet, Idle
  <2>2. HeadCommit = TipIn(refs, head) BY <2>1 DEF HeadCommit, GetRef, TipIn
  <2> QED BY <2>1, <2>2 DEF Settled, TreeOf, Clean, IsClean
<1> QED BY <1>1, InitHInv, NextHInv, PTL DEF Spec

-----------------------------------------------------------------------------
(* A bisect keeps its culprit.                                              *)

\* What the user's edits leave is in no commit of the repository: a verdict on
\* edited files is a verdict on no commit, so it is a skip.
EditsShow ==
  \A s \in Starts : s.task = "bisect" =>
    \A c \in DOMAIN s.commits : \A f \in Files : s.commits[c].tree[f] \notin Versions

\* The verdicts st remembers are true.
Truthful(st) ==
  /\ {"current", "tested"} \subseteq DOMAIN st
  /\ Broken(st.bad)
  /\ \A c \in DOMAIN st.tested : /\ st.tested[c] = "good" => ~Broken(c)
                                 /\ st.tested[c] = "bad" => Broken(c)

\* So are they, and the files t are the candidate's, or edited.
Told(st, t) ==
  /\ Truthful(st)
  /\ st.current # Unborn => /\ st.current \in DOMAIN commits
                            /\ \/ t = commits[st.current].tree
                               \/ \E f \in Files : t[f] \in Versions

\* The command on its way leaves a state that was told the truth.
Tells ==
  \E s : \E t \in Trees :
    /\ StateTo(Writes(todo), state, s) /\ WorkTo(Writes(todo), work, t)
    /\ s["bisect"] # NoState => Told(s["bisect"], t)

Honest ==
  /\ culprit \in DOMAIN commits /\ TestsJudgeFiles
  /\ work \in Trees
  /\ \A c \in DOMAIN commits : /\ c # Unborn /\ commits[c].tree \in Trees
                               /\ \A f \in Files : commits[c].tree[f] \notin Versions
  /\ next = "advance" => Truthful(mem.st)
  /\ Tells

BInv == HInv /\ (task = "bisect" /\ mishaps = 0 => Honest)

LEMMA AncestorsSame == ASSUME NEW c, commits' = commits PROVE Ancestors(c)' = Ancestors(c)
BY SMT DEF Ancestors

LEMMA TruthSame ==
  ASSUME commits' = commits, culprit' = culprit
  PROVE  /\ \A c : Broken(c)' <=> Broken(c)
         /\ \A st : Truthful(st)' <=> Truthful(st)
         /\ \A st, t : Told(st, t)' <=> Told(st, t)
         /\ TestsJudgeFiles' <=> TestsJudgeFiles
<1>1. \A c : Broken(c)' <=> Broken(c) BY AncestorsSame DEF Broken
<1>2. \A st : Truthful(st)' <=> Truthful(st) BY <1>1 DEF Truthful
<1>3. \A st, t : Told(st, t)' <=> Told(st, t) BY <1>2 DEF Told
<1>4. TestsJudgeFiles' <=> TestsJudgeFiles BY <1>1 DEF TestsJudgeFiles, TreeOf
<1> QED BY <1>1, <1>2, <1>3, <1>4

LEMMA ToldAtRest ==
  ASSUME Honest, todo = <<>>, state["bisect"] # NoState
  PROVE  Told(state["bisect"], work)
<1>1. PICK s, t :
        /\ t \in Trees
        /\ StateTo({}, state, s) /\ WorkTo({}, work, t)
        /\ s["bisect"] # NoState => Told(s["bisect"], t)
  BY NoWrites DEF Honest, Tells
<1>2. s["bisect"] = state["bisect"] BY <1>1 DEF StateTo, StateFiles
<1>3. work = t BY <1>1 DEF WorkTo, Honest, Trees
<1> QED BY <1>1, <1>2, <1>3

LEMMA GoesOnHonest ==
  ASSUME Honest, IsSeq(commits), culprit' = culprit,
         NEW ws, NEW n, NEW m, Proceed(ws, n, m, <<>>), NEW s, NEW t \in Trees,
         StateTo(Writes(ws), state, s), WorkTo(Writes(ws), work, t),
         s["bisect"] # NoState => Told(s["bisect"], t),
         n = "advance" => Truthful(m.st)
  PROVE  Honest'
<1>1. /\ todo' = ws /\ next' = n /\ commits' = commits
      /\ UNCHANGED <<work, state>> /\ (n # "idle" => mem' = m)
  BY NoMore DEF Proceed
<1>2. Tells' BY <1>1, TruthSame DEF Tells
<1>3. next' = "advance" => Truthful(mem.st)' BY <1>1, TruthSame DEF Truthful, Broken
<1> QED BY <1>1, <1>2, <1>3, TruthSame DEF Honest

LEMMA CheckoutWork ==
  ASSUME NEW t \in Trees, work \in Trees
  PROVE  WorkTo(Writes(CheckoutWrites(t)), work, t)
<1> DEFINE fs == {f \in Files : t[f] # NoFile}
<1>1. Writes(CheckoutWrites(t)) = {Extras(t), Save(t)} \union (IF fs = {} THEN {} ELSE {Put(t, fs)})
  BY CheckoutSet
<1>2. \A w \in Writes(CheckoutWrites(t)) :
        /\ w.op \in {"files", "extras"} => w.tree = t
        /\ w.op = "files" => "left" \in DOMAIN w
  BY Checkouts
<1>3. Extras(t).op = "extras" /\ Put(t, fs).op = "files" /\ Put(t, fs).left = fs
  BY DEF Extras, Put
<1>4. ASSUME NEW f \in Files, t[f] # NoFile
      PROVE  \E w \in Writes(CheckoutWrites(t)) : w.op = "files" /\ f \in w.left
  <2>1. f \in fs BY <1>4
  <2> HIDE DEF fs
  <2> QED BY <1>1, <1>3, <2>1
<1>5. \E w \in Writes(CheckoutWrites(t)) : w.op = "extras" BY <1>1, <1>3
<1> QED BY <1>2, <1>4, <1>5 DEF WorkTo

LEMMA WriteHonest ==
  ASSUME Steady, Honest, Write, culprit' = culprit
  PROVE  Honest'
<1>1. PICK w, back, rest :
           /\ Writes(todo) = {w} \union rest /\ Writes(todo') = back \union rest /\ IsSeq(todo')
           /\ OneWrite(w, back)
           /\ next' = next /\ commits' = commits /\ (next # "idle" => mem' = mem)
  BY WriteEffect DEF Steady
<1>2. PICK s, t :
        /\ t \in Trees
        /\ StateTo({w} \union rest, state, s) /\ WorkTo({w} \union rest, work, t)
        /\ s["bisect"] # NoState => Told(s["bisect"], t)
  BY <1>1 DEF Honest, Tells
<1>3. StateTo(back \union rest, state', s) BY <1>1, <1>2, StateKept DEF Steady
<1>4. WorkTo(back \union rest, work', t) /\ work' \in Trees BY <1>1, <1>2, WorkKept DEF Honest
<1>5. Tells' BY <1>1, <1>2, <1>3, <1>4, TruthSame DEF Tells
<1>6. next' = "advance" => Truthful(mem.st)' BY <1>1, TruthSame DEF Honest, Truthful, Broken
<1> QED BY <1>1, <1>4, <1>5, <1>6, TruthSame DEF Honest

\* It goes on with writes that touch no file of the working tree.
LEMMA StillHonest ==
  ASSUME Steady, Honest, culprit' = culprit,
         NEW ws, NEW n, NEW m, Proceed(ws, n, m, <<>>), NEW s,
         StateTo(Writes(ws), state, s), \A w \in Writes(ws) : w.op \notin {"files", "extras"},
         s["bisect"] # NoState => Told(s["bisect"], work),
         n = "advance" => Truthful(m.st)
  PROVE  Honest'
<1>1. WorkTo(Writes(ws), work, work) /\ work \in Trees BY DEF WorkTo, Honest
<1> QED BY <1>1, GoesOnHonest DEF Steady

LEMMA MarkHonest ==
  ASSUME Steady, Honest, culprit' = culprit, NEW st, Told(st, work), NEW m, m.st = st,
         Proceed(<<SaveBisect(st)>>, "advance", m, <<>>)
  PROVE  Honest'
<1> DEFINE ws == <<SaveBisect(st)>>
           s == [state EXCEPT !["bisect"] = st]
<1>1. Writes(ws) = {SaveBisect(st)} BY SomeWrites
<1>2. s["bisect"] = st /\ s["rebase"] = state["rebase"] BY DEF Steady, StateFiles
<1>3. Proceed(ws, "advance", m, <<>>) /\ Truthful(m.st) BY DEF Told
<1> HIDE DEF ws
<1>4. StateTo(Writes(ws), state, s) /\ \A w \in Writes(ws) : w.op \notin {"files", "extras"}
  BY <1>1, <1>2 DEF StateTo, SaveBisect, SaveState, StateFiles
<1> HIDE DEF s
<1> QED BY <1>2, <1>3, <1>4, StillHonest

LEMMA NothingHonest ==
  ASSUME Steady, Honest, culprit' = culprit, todo = <<>>, NEW n, n \in {"idle", "run"}, NEW m,
         Proceed(<<>>, n, m, <<>>)
  PROVE  Honest'
<1>1. StateTo(Writes(<<>>), state, state) /\ \A w \in Writes(<<>>) : w.op \notin {"files", "extras"}
  BY NoWrites DEF StateTo
<1> QED BY <1>1, ToldAtRest, StillHonest

LEMMA TakeHonest ==
  ASSUME Steady, Honest, culprit' = culprit, NEW c \in DOMAIN commits,
         NEW st, Truthful(st), st.current = c, NEW n, n \in {"idle", "run"}, NEW m,
         Proceed(Candidate(c, st), n, m, <<>>)
  PROVE  Honest'
<1> DEFINE t == TreeOf(c)
           pw == <<Ref(ScratchBranch, c), SetHead(ScratchBranch)>>
           co == CheckoutWrites(t)
           sw == <<SaveBisect(st)>>
           ws == pw \o co \o sw
           s == [state EXCEPT !["bisect"] = st]
<1>1. t = commits[c].tree /\ t \in Trees BY DEF Honest, TreeOf
<1>2. Told(st, t) BY <1>1 DEF Told
<1>3. Proceed(ws, n, m, <<>>) BY DEF Candidate
<1> HIDE DEF t
<1>4. /\ IsSeq(co) /\ WorkTo(Writes(co), work, t)
      /\ \A w \in Writes(co) : w.op \in {"files", "extras", "index"}
  BY <1>1, Checkouts, CheckoutWork DEF Honest
<1> HIDE DEF co
<1>5. Writes(ws) = {Ref(ScratchBranch, c), SetHead(ScratchBranch)} \union Writes(co)
                     \union {SaveBisect(st)}
  <2>1. IsSeq(pw) /\ Writes(pw) = {Ref(ScratchBranch, c), SetHead(ScratchBranch)} BY SomeWrites
  <2>2. IsSeq(sw) /\ Writes(sw) = {SaveBisect(st)} BY SomeWrites
  <2> HIDE DEF pw, sw
  <2>3. IsSeq(pw \o co) /\ Writes(pw \o co) = Writes(pw) \union Writes(co) BY <1>4, <2>1, MoreWrites
  <2> QED BY <2>1, <2>2, <2>3, MoreWrites
<1> HIDE DEF ws
<1>6. \A w \in Writes(ws) :
        w \in {Ref(ScratchBranch, c), SetHead(ScratchBranch), SaveBisect(st)} \/ w \in Writes(co)
  BY <1>5
<1>7. SaveBisect(st) \in Writes(ws) /\ Writes(co) \subseteq Writes(ws) BY <1>5
<1>8. s["bisect"] = st /\ s["rebase"] = state["rebase"] BY DEF Steady, StateFiles
<1>9. StateTo(Writes(ws), state, s)
  BY <1>4, <1>6, <1>7, <1>8 DEF StateTo, Ref, SetHead, SaveBisect, SaveState, StateFiles
<1>10. WorkTo(Writes(ws), work, t)
  BY <1>4, <1>6, <1>7 DEF WorkTo, Ref, SetHead, SaveBisect, SaveState
<1> HIDE DEF s
<1> QED BY <1>1, <1>2, <1>3, <1>8, <1>9, <1>10, GoesOnHonest DEF Steady

LEMMA ResetHonest ==
  ASSUME Steady, Honest, culprit' = culprit, task = "bisect", BisectReset
  PROVE  Honest'
<1> DEFINE b == state["bisect"].orig
           tip == GetRef(b)
           t == IF tip = Unborn THEN work ELSE TreeOf(refs[b])
           pw == <<RemoveRef(ScratchBranch), SetHead(b)>>
           co == CheckoutWrites(TreeOf(refs[b]))
           cw == IF tip = Unborn THEN <<>> ELSE co
           sw == <<SaveBisect(NoState)>>
           ws == pw \o cw \o sw
           s == [state EXCEPT !["bisect"] = NoState]
<1>1. /\ todo = <<>> /\ Loads(state["bisect"]) /\ Proceed(ws, "idle", NoState, <<>>)
  BY DEF BisectReset, Runs, Begins, Idle
<1>2. b \in Branches BY <1>1, AtRest DEF Settled, Loads
<1>3. tip # Unborn => TreeOf(refs[b]) \in Trees
  <2> SUFFICES ASSUME tip # Unborn PROVE TreeOf(refs[b]) \in Trees OBVIOUS
  <2>1. refs[b] \in {Missing} \union 0 .. Len(commits) /\ refs[b] \notin {Missing, Unborn}
    BY <1>2 DEF Steady, RefsOf, GetRef
  <2>2. DOMAIN commits = 1 .. Len(commits) /\ Len(commits) \in Nat
    BY LenProperties DEF Steady, IsSeq
  <2>3. refs[b] \in DOMAIN commits BY <2>1, <2>2 DEF Unborn
  <2> QED BY <2>1, <2>3 DEF Honest, TreeOf
<1>4. t \in Trees BY <1>3 DEF Honest
<1> HIDE DEF b, tip
<1>5. IsSeq(cw) /\ WorkTo(Writes(cw), work, t) /\ \A w \in Writes(cw) : w.op # "state"
  <2>1. CASE tip = Unborn BY <2>1, NoWrites DEF WorkTo
  <2>2. CASE tip # Unborn
    <3> HIDE DEF co
    <3>1. IsSeq(co) /\ WorkTo(Writes(co), work, t) /\ \A w \in Writes(co) : w.op # "state"
      BY <1>3, <2>2, Checkouts, CheckoutWork DEF Honest, co
    <3> HIDE DEF t
    <3> QED BY <2>2, <3>1
  <2> QED BY <2>1, <2>2
<1> HIDE DEF cw, t
<1>6. Writes(ws) = {RemoveRef(ScratchBranch), SetHead(b)} \union Writes(cw)
                     \union {SaveBisect(NoState)}
  <2>1. IsSeq(pw) /\ Writes(pw) = {RemoveRef(ScratchBranch), SetHead(b)} BY SomeWrites
  <2>2. IsSeq(sw) /\ Writes(sw) = {SaveBisect(NoState)} BY SomeWrites
  <2> HIDE DEF pw, sw
  <2>3. IsSeq(pw \o cw) /\ Writes(pw \o cw) = Writes(pw) \union Writes(cw) BY <1>5, <2>1, MoreWrites
  <2> QED BY <2>1, <2>2, <2>3, MoreWrites
<1> HIDE DEF ws
<1>7. \A w \in Writes(ws) :
        w \in {RemoveRef(ScratchBranch), SetHead(b), SaveBisect(NoState)} \/ w \in Writes(cw)
  BY <1>6
<1>8. SaveBisect(NoState) \in Writes(ws) /\ Writes(cw) \subseteq Writes(ws) BY <1>6
<1>9. s["bisect"] = NoState /\ s["rebase"] = state["rebase"] BY DEF Steady, StateFiles
<1>10. StateTo(Writes(ws), state, s)
  BY <1>5, <1>7, <1>8, <1>9 DEF StateTo, RemoveRef, SetHead, SaveBisect, SaveState, StateFiles
<1>11. WorkTo(Writes(ws), work, t)
  BY <1>5, <1>7, <1>8 DEF WorkTo, RemoveRef, SetHead, SaveBisect, SaveState
<1> HIDE DEF s
<1> QED BY <1>1, <1>4, <1>9, <1>10, <1>11, GoesOnHonest DEF Steady

LEMMA SwitchHonest ==
  ASSUME Steady, Honest, culprit' = culprit, NEW b, CmdCheckout(b),
         \A f \in StateFiles : state[f] = NoState
  PROVE  Honest'
<1> DEFINE t == IF refs[b] = Unborn THEN work ELSE TreeOf(refs[b])
           co == CheckoutWrites(TreeOf(refs[b]))
           cw == IF refs[b] = Unborn THEN <<>> ELSE co
           ws == <<SetHead(b)>> \o cw
<1>1. Proceed(ws, "idle", NoState, <<>>) /\ b \in Branches /\ refs[b] # Missing
  BY DEF CmdCheckout, Runs, ListBranches
<1>2. refs[b] # Unborn => TreeOf(refs[b]) \in Trees
  <2>1. DOMAIN commits = 1 .. Len(commits) /\ Len(commits) \in Nat
    BY LenProperties DEF Steady, IsSeq
  <2>2. refs[b] # Unborn => refs[b] \in DOMAIN commits BY <1>1, <2>1 DEF Steady, RefsOf, Unborn
  <2> QED BY <2>2 DEF Honest, TreeOf
<1>3. t \in Trees BY <1>2 DEF Honest
<1>4. IsSeq(cw) /\ WorkTo(Writes(cw), work, t) /\ \A w \in Writes(cw) : w.op # "state"
  <2>1. CASE refs[b] = Unborn BY <2>1, NoWrites DEF WorkTo
  <2>2. CASE refs[b] # Unborn
    <3> HIDE DEF co
    <3>1. IsSeq(co) /\ WorkTo(Writes(co), work, t) /\ \A w \in Writes(co) : w.op # "state"
      BY <1>2, <2>2, Checkouts, CheckoutWork DEF Honest, co
    <3> HIDE DEF t
    <3> QED BY <2>2, <3>1
  <2> QED BY <2>1, <2>2
<1> HIDE DEF cw, t
<1>5. Writes(ws) = {SetHead(b)} \union Writes(cw)
  <2>1. IsSeq(<<SetHead(b)>>) /\ Writes(<<SetHead(b)>>) = {SetHead(b)} BY SomeWrites
  <2> QED BY <1>4, <2>1, MoreWrites
<1> HIDE DEF ws
<1>6. StateTo(Writes(ws), state, state) /\ WorkTo(Writes(ws), work, t)
  BY <1>4, <1>5 DEF StateTo, WorkTo, SetHead
<1> QED BY <1>1, <1>3, <1>6, GoesOnHonest DEF Steady, StateFiles

LEMMA DeleteHonest ==
  ASSUME Steady, Honest, culprit' = culprit, NEW b, NEW force, DeleteBranch(b, force)
  PROVE  Honest'
<1> DEFINE ws == (IF refs[b] = Unborn THEN <<>> ELSE <<Log(b, refs[b], Unborn)>>) \o <<RemoveRef(b)>>
<1>1. Proceed(ws, "idle", NoState, <<>>) /\ todo = <<>> BY DEF DeleteBranch, Runs, Begins, Idle
<1>2. \A w \in Writes(ws) : w = RemoveRef(b) \/ w = Log(b, refs[b], Unborn)
  BY NoWrites, SomeWrites, MoreWrites
<1> HIDE DEF ws
<1>3. StateTo(Writes(ws), state, state) /\ \A w \in Writes(ws) : w.op \notin {"files", "extras"}
  BY <1>2 DEF StateTo, RemoveRef, Log
<1> QED BY <1>1, <1>3, ToldAtRest, StillHonest

\* A verdict on the files is true of the candidate.
LEMMA VerdictTrue ==
  ASSUME Honest, NEW st, Told(st, work), st.current # Unborn, NEW v \in Truth
  PROVE  (v = "good" => ~Broken(st.current)) /\ (v = "bad" => Broken(st.current))
<1>1. CASE v = "skip" BY <1>1
<1>2. CASE v # "skip"
  <2>1. PICK c \in {d \in DOMAIN commits : TreeOf(d) = work} :
          v = IF Broken(c) THEN "bad" ELSE "good"
    BY <1>2 DEF Truth
  <2>2. work = commits[c].tree /\ c \in DOMAIN commits BY <2>1 DEF TreeOf, Honest
  <2>3. work = commits[st.current].tree /\ st.current \in DOMAIN commits
    BY <2>2 DEF Told, Honest
  <2>4. Broken(c) <=> Broken(st.current) BY <2>1, <2>3 DEF Honest, TestsJudgeFiles, TreeOf
  <2> QED BY <2>1, <2>4
<1> QED BY <1>1, <1>2

LEMMA MarkedTold ==
  ASSUME NEW st, Told(st, work), NEW c, NEW v, v = "good" => ~Broken(c), v = "bad" => Broken(c)
  PROVE  Told(MarkedState(st, v, c), work)
<1> DEFINE b == MarkedState(st, v, c)
<1>1. /\ b.tested = [x \in DOMAIN st.tested \union {c} |-> IF x = c THEN v ELSE st.tested[x]]
      /\ b.bad = st.bad /\ b.current = st.current /\ DOMAIN b = DOMAIN st
  BY DEF MarkedState, Told, Truthful
<1> HIDE DEF b
<1>2. Truthful(b) BY <1>1 DEF Told, Truthful
<1> QED BY <1>1, <1>2 DEF Told, b

LEMMA BisectsHonest ==
  ASSUME Steady, Honest, culprit' = culprit, Bisects
  PROVE  Honest'
<1> DEFINE st == state["bisect"]
<1>1. task = "bisect" BY DEF Bisects
<1>2. ASSUME todo = <<>>, Loads(st) PROVE Told(st, work)
  BY <1>2, ToldAtRest DEF Loads
<1>3. ASSUME NEW bad, NEW goods \in SUBSET {c \in DOMAIN commits : ~Broken(c)}, Broken(bad),
             BisectStart(bad, goods)
      PROVE  Honest'
  <2> DEFINE b == [orig |-> HeadBranch, bad |-> bad, current |-> Unborn, concluded |-> Unborn,
                   tested |-> [c \in goods \union {bad} |-> IF c = bad THEN "bad" ELSE "good"]]
             m == [st |-> b, run |-> FALSE]
  <2>1. Proceed(<<SaveBisect(b)>>, "advance", m, <<>>) BY <1>3 DEF BisectStart, Runs
  <2>2. {"current", "tested"} \subseteq DOMAIN b /\ b.bad = bad /\ b.current = Unborn /\ m.st = b
        /\ b.tested = [c \in goods \union {bad} |-> IF c = bad THEN "bad" ELSE "good"]
    OBVIOUS
  <2> HIDE DEF b, m
  <2>3. Told(b, work) BY <1>3, <2>2 DEF Told, Truthful
  <2> QED BY <2>1, <2>2, <2>3, MarkHonest
<1>4. ASSUME BisectRun PROVE Honest'
  <2>1. todo = <<>> /\ Proceed(<<>>, "run", NoState, <<>>) BY <1>4 DEF BisectRun, Runs, Begins, Idle
  <2> QED BY <2>1, NothingHonest
<1>5. ASSUME BisectReset PROVE Honest' BY <1>1, <1>5, ResetHonest
<1>6. ASSUME NEW v, NEW c, v = "good" => ~Broken(c), v = "bad" => Broken(c), BisectMark(v, c)
      PROVE  Honest'
  <2> DEFINE b == MarkedState(st, v, c)
             m == [st |-> b, run |-> FALSE]
  <2>1. todo = <<>> /\ Loads(st) /\ Proceed(<<SaveBisect(b)>>, "advance", m, <<>>)
    BY <1>6 DEF BisectMark, Marks, Runs, Begins, Idle
  <2>2. Told(b, work) /\ m.st = b BY <1>2, <1>6, <2>1, MarkedTold
  <2> HIDE DEF b, m
  <2> QED BY <2>1, <2>2, MarkHonest
<1>7. ASSUME NEW v \in Truth, Loads(st), BisectMark(v, st.current) PROVE Honest'
  <2>1. todo = <<>> /\ st.current # Unborn BY <1>7 DEF BisectMark, Marks, Runs, Begins, Idle
  <2> QED BY <1>2, <1>6, <1>7, <2>1, VerdictTrue
<1>8. ASSUME Advance PROVE Honest'
  <2> DEFINE set == Suspects(mem.st)
             then == IF mem.run THEN "run" ELSE "idle"
  <2>1. todo = <<>> /\ next = "advance" BY <1>8 DEF Advance
  <2>2. Truthful(mem.st) BY <2>1 DEF Honest
  <2>3. set \subseteq DOMAIN commits /\ Middle(Testable(mem.st)) \subseteq set
    BY DEF Suspects, Middle, Testable
  <2>4. ASSUME NEW c \in set,
               Proceed(Candidate(c, [mem.st EXCEPT !.current = c, !.concluded = c]), "idle", mem, <<>>)
        PROVE  Honest'
    <3> DEFINE b == [mem.st EXCEPT !.current = c, !.concluded = c]
    <3>1. b.current = c /\ b.bad = mem.st.bad /\ b.tested = mem.st.tested /\ DOMAIN b = DOMAIN mem.st
      BY <2>2 DEF Truthful
    <3> HIDE DEF b
    <3>2. Truthful(b) BY <2>2, <3>1 DEF Truthful
    <3>3. c \in DOMAIN commits BY <2>3
    <3> HIDE DEF set
    <3> QED BY <2>4, <3>1, <3>2, <3>3, TakeHonest DEF b
  <2>5. ASSUME NEW c \in Middle(Testable(mem.st)),
               Proceed(Candidate(c, [mem.st EXCEPT !.current = c]), then, mem, <<>>)
        PROVE  Honest'
    <3> DEFINE b == [mem.st EXCEPT !.current = c]
    <3>1. b.current = c /\ b.bad = mem.st.bad /\ b.tested = mem.st.tested /\ DOMAIN b = DOMAIN mem.st
      BY <2>2 DEF Truthful
    <3> HIDE DEF b
    <3>2. Truthful(b) BY <2>2, <3>1 DEF Truthful
    <3>3. c \in DOMAIN commits BY <2>3
    <3>4. then \in {"idle", "run"} OBVIOUS
    <3> HIDE DEF set, then
    <3> QED BY <2>5, <3>1, <3>2, <3>3, <3>4, TakeHonest DEF b
  <2>6. Proceed(<<>>, "idle", mem, <<>>) => Honest' BY <2>1, NothingHonest
  <2> QED BY <1>8, <2>4, <2>5, <2>6 DEF Advance, Steps
<1>9. ASSUME NEW v \in Truth, RunOnce(v) PROVE Honest'
  <2> DEFINE b == MarkedState(st, v, st.current)
             m == [st |-> b, run |-> TRUE]
  <2>1. todo = <<>> BY <1>9 DEF RunOnce
  <2>2. CASE Marks(st, v, st.current) /\ Proceed(<<SaveBisect(b)>>, "advance", m, <<>>)
    <3>1. Loads(st) /\ st.current # Unborn BY <2>2 DEF Marks
    <3>2. Told(b, work) /\ m.st = b BY <1>2, <2>1, <3>1, VerdictTrue, MarkedTold
    <3> HIDE DEF b, m
    <3> QED BY <2>2, <3>2, MarkHonest
  <2>3. CASE Proceed(<<>>, "idle", NoState, <<>>) BY <2>1, <2>3, NothingHonest
  <2> QED BY <1>9, <2>2, <2>3 DEF RunOnce, Steps
<1> QED BY <1>3, <1>4, <1>5, <1>6, <1>7, <1>8, <1>9 DEF Bisects

LEMMA InitBInv == EditsShow /\ Init => BInv
<1> SUFFICES ASSUME EditsShow, Init, task = "bisect" PROVE Honest BY InitHInv DEF BInv
<1>1. PICK s \in Starts :
        /\ commits = s.commits /\ task = s.task
        /\ culprit \in IF s.task = "bisect" THEN DOMAIN s.commits ELSE {Unborn}
        /\ TestsJudgeFiles /\ work = s.commits[s.refs[Main]].tree
  BY DEF Init
<1>2. commits \in Seq([tree : Trees, built : STRING, parents : Seq(Nat), of : Nat])
  BY <1>1, StartsAssumption
<1>3. DOMAIN commits = 1 .. Len(commits) /\ Len(commits) \in Nat
      /\ commits \in [1 .. Len(commits) -> [tree : Trees, built : STRING, parents : Seq(Nat), of : Nat]]
  BY <1>2, LenProperties
<1>4. \A c \in DOMAIN commits : c # Unborn /\ commits[c].tree \in Trees BY <1>3 DEF Unborn
<1>5. work \in Trees BY <1>1, <1>4, StartsAssumption
<1>6. \A c \in DOMAIN commits : \A f \in Files : commits[c].tree[f] \notin Versions
  BY <1>1 DEF EditsShow
<1>7. todo = <<>> /\ next = "idle" /\ state = [f \in StateFiles |-> NoState] BY DEF Init
<1>8. Writes(todo) = {} BY <1>7, NoWrites
<1>9. Tells
  <2>1. state["bisect"] = NoState BY <1>7 DEF StateFiles
  <2> QED BY <1>5, <1>8, <2>1 DEF Tells, StateTo, WorkTo
<1> QED BY <1>1, <1>4, <1>5, <1>6, <1>7, <1>9 DEF Honest

LEMMA NextBInv == BInv /\ [Next]_vars => BInv'
<1> SUFFICES ASSUME BInv, [Next]_vars PROVE BInv' OBVIOUS
<1>1. HInv' BY NextHInv DEF BInv
<1>2. CASE UNCHANGED vars
  <2>1. UNCHANGED <<commits, culprit, work, next, mem, todo, state, task, mishaps>>
    BY <1>2 DEF vars, repoVars, cmdVars
  <2>2. Tells' <=> Tells BY <2>1, TruthSame DEF Tells
  <2>3. Truthful(mem.st)' <=> Truthful(mem.st) BY <2>1, TruthSame DEF Truthful, Broken
  <2> QED BY <1>1, <2>1, <2>2, <2>3, TruthSame DEF BInv, Honest
<1>3. CASE Next
  <2>1. task' = task /\ culprit' = culprit BY <1>3 DEF Next, Edit, Crash, Switch, Meanwhile
  <2>2. mishaps' = 0 => mishaps = 0
    BY <1>3 DEF Next, Edit, Crash, Switch, Meanwhile, BInv, HInv
  <2> SUFFICES ASSUME task = "bisect", mishaps' = 0 PROVE Honest' BY <1>1, <2>1 DEF BInv
  <2>3. Steady /\ Honest /\ mishaps = 0 BY <2>2 DEF BInv, HInv, Quiet
  <2>4. ASSUME NEW f \in Files, NEW v \in Versions, Edit(f, v) PROVE Honest'
    <3>1. /\ work' = [work EXCEPT ![f] = v] /\ todo = <<>>
          /\ UNCHANGED <<commits, todo, next, mem, state>>
      BY <2>4 DEF Edit, cmdVars, Idle
    <3>2. work' \in Trees /\ work'[f] = v
      BY <2>3, <3>1, VersionsAssumption DEF Honest, Trees
    <3>3. ASSUME state["bisect"] # NoState PROVE Told(state["bisect"], work')
      BY <2>3, <3>1, <3>2, <3>3, ToldAtRest DEF Told
    <3>4. StateTo(Writes(todo'), state', state) /\ WorkTo(Writes(todo'), work', work')
      BY <3>1, NoWrites DEF StateTo, WorkTo
    <3>5. Tells' BY <2>1, <3>1, <3>2, <3>3, <3>4, TruthSame DEF Tells
    <3>6. next' = "advance" => Truthful(mem.st)'
      BY <2>1, <2>3, <3>1, TruthSame DEF Honest, Truthful, Broken
    <3> QED BY <2>1, <2>3, <3>1, <3>2, <3>5, <3>6, TruthSame DEF Honest
  <2>5. ASSUME Crash PROVE Honest' BY <2>3, <2>5 DEF Crash
  <2>6. ASSUME NEW b, Switch(b) PROVE Honest'
    <3>1. \A f \in StateFiles : state[f] = NoState BY <2>3, <2>6 DEF Switch
    <3> QED BY <2>1, <2>3, <2>6, <3>1, SwitchHonest DEF Switch
  <2> QED
    BY <1>3, <2>1, <2>3, <2>4, <2>5, <2>6, WriteHonest, DeleteHonest, BisectsHonest
    DEF Next, Rebases, Stashes
<1> QED BY <1>2, <1>3

\* The commit that broke it is among suspectSet's at every stop of a bisect,
\* whatever commits the user marks, skips or tests in whatever order, when
\* each verdict was true of the files it was given on: BisectMark and
\* bisectAdvance never call a candidate what its files are not.
THEOREM CulpritKept == EditsShow /\ Spec => []BisectKeepsCulprit
<1>1. BInv => BisectKeepsCulprit
  <2> SUFFICES ASSUME BInv, task = "bisect", mishaps = 0, Idle, Loads(state["bisect"])
               PROVE  culprit \in Suspects(state["bisect"])
    BY DEF BisectKeepsCulprit
  <2>1. Truthful(state["bisect"]) /\ culprit \in DOMAIN commits
    BY ToldAtRest DEF BInv, Idle, Loads, Told, Honest
  <2> QED BY <2>1 DEF Truthful, Suspects, Marked, Broken
<1> QED BY <1>1, InitBInv, NextBInv, PTL DEF Spec

-----------------------------------------------------------------------------
(* Ancestors, in any history cs.                                            *)

LEMMA LeastNumber == ASSUME NEW T \in SUBSET Nat, T # {} PROVE \E x \in T : \A y \in T : x <= y
<1> DEFINE Less == {ss \in Nat \X Nat : ss[1] < ss[2]}
<1>1. IsWellFoundedOn(Less, Nat) BY NatLessThanWellFounded DEF OpToRel
<1> HIDE DEF Less
<1>2. PICK x \in T : \A y \in T : <<y, x>> \notin Less BY <1>1, WFMin, Zenon
<1>3. ASSUME NEW y \in T, y < x PROVE FALSE
  <2>1. <<y, x>> \in Less BY <1>3 DEF Less
  <2> QED BY <2>1, <1>2
<1> QED BY <1>3

ParentsIn(cs, c) == {cs[c].parents[i] : i \in DOMAIN cs[c].parents}

\* Parents are older.
Ordered(cs) == IsSeq(cs) /\ \A c \in 1 .. Len(cs) : ParentsIn(cs, c) \subseteq 1 .. c - 1

Lineage(cs, c) ==
  LET up[x \in 0 .. Len(cs)] ==
        IF x = Unborn THEN {}
        ELSE {x} \union UNION {up[cs[x].parents[i]] : i \in DOMAIN cs[x].parents}
  IN  up[c]

LEMMA AncestorsAre ==
  \A c : Ancestors(c) = Lineage(commits, c) /\ Ancestors(c)' = Lineage(commits', c)
BY Zenon DEF Ancestors, Lineage

\* The function Ancestors recurs on exists: it is the least set that holds c and,
\* with a commit, its parents.
LEMMA LineageExists ==
  ASSUME NEW cs, Ordered(cs)
  PROVE  \E f : f = [x \in 0 .. Len(cs) |->
                      IF x = Unborn THEN {}
                      ELSE {x} \union UNION {f[cs[x].parents[i]] : i \in DOMAIN cs[x].parents}]
<1> DEFINE C == 1 .. Len(cs)
           Closed(S) == \A x \in S : ParentsIn(cs, x) \subseteq S
           f == [c \in 0 .. Len(cs) |->
                   IF c = Unborn THEN {}
                   ELSE {k \in C : \A S \in SUBSET C : c \in S /\ Closed(S) => k \in S}]
           e(c) == IF c = Unborn THEN {}
                   ELSE {c} \union UNION {f[cs[c].parents[i]] : i \in DOMAIN cs[c].parents}
<1>0. Len(cs) \in Nat /\ \A c \in C : ParentsIn(cs, c) \subseteq C BY DEF Ordered, IsSeq
<1>1. ASSUME NEW c \in C PROVE f[c] \subseteq C /\ Closed(f[c]) /\ c \in f[c]
  <2>1. c \in 0 .. Len(cs) /\ c # Unborn BY <1>0 DEF Unborn
  <2>2. f[c] = {k \in C : \A S \in SUBSET C : c \in S /\ Closed(S) => k \in S} BY <2>1
  <2> HIDE DEF f, C
  <2> QED BY <1>0, <2>2
<1>2. ASSUME NEW c \in C, NEW k \in f[c], NEW S \in SUBSET C, c \in S, Closed(S) PROVE k \in S
  <2>1. c \in 0 .. Len(cs) /\ c # Unborn BY <1>0 DEF Unborn
  <2>2. f[c] = {j \in C : \A T \in SUBSET C : c \in T /\ Closed(T) => j \in T} BY <2>1
  <2> HIDE DEF f, C
  <2> QED BY <1>2, <2>2
<1>3. ASSUME NEW c \in C PROVE f[c] = e(c)
  <2> HIDE DEF f
  <2>0. c # Unborn BY <1>0 DEF Unborn
  <2>1. e(c) = {c} \union UNION {f[p] : p \in ParentsIn(cs, c)} BY <2>0 DEF ParentsIn
  <2> HIDE DEF e, C
  <2>2. e(c) \in SUBSET C BY <1>0, <1>1, <2>1
  <2>3. Closed(e(c)) BY <1>0, <1>1, <2>1
  <2>4. f[c] \subseteq e(c) 
    <3> HIDE DEF Closed
    <3> QED BY <1>2, <2>1, <2>2, <2>3
  <2>5. c \in f[c] BY <1>1
  <2>6. ASSUME NEW p \in ParentsIn(cs, c), NEW k \in f[p] PROVE k \in f[c]
    <3>1. p \in f[c] /\ p \in C BY <1>0, <1>1, <2>5, <2>6
    <3> HIDE DEF Closed
    <3> QED BY <1>1, <1>2, <3>1
  <2> QED BY <2>1, <2>4, <2>5, <2>6
<1>4. f[0] = e(0) BY <1>0 DEF Unborn
<1>5. f = [c \in 0 .. Len(cs) |-> e(c)] 
  <2>1. f = [c \in 0 .. Len(cs) |-> f[c]] OBVIOUS
  <2>2. \A c \in 0 .. Len(cs) : c = 0 \/ c \in C BY <1>0
  <2> HIDE DEF f, e, C
  <2> QED BY <1>3, <1>4, <2>1, <2>2
<1> QED BY <1>5

LEMMA LineageUnfolds ==
  ASSUME NEW cs, Ordered(cs)
  PROVE  /\ Lineage(cs, Unborn) = {}
         /\ \A c \in 1 .. Len(cs) :
              Lineage(cs, c) = {c} \union UNION {Lineage(cs, p) : p \in ParentsIn(cs, c)}
<1> DEFINE up[x \in 0 .. Len(cs)] ==
             IF x = Unborn THEN {}
             ELSE {x} \union UNION {up[cs[x].parents[i]] : i \in DOMAIN cs[x].parents}
<1>1. up = [x \in 0 .. Len(cs) |->
              IF x = Unborn THEN {}
              ELSE {x} \union UNION {up[cs[x].parents[i]] : i \in DOMAIN cs[x].parents}]
  BY LineageExists DEF up
<1>2. \A c : Lineage(cs, c) = up[c] BY DEF Lineage, up
<1> HIDE DEF up
<1>3. Len(cs) \in Nat BY DEF Ordered, IsSeq
<1>4. up[Unborn] = {} BY <1>1, <1>3 DEF Unborn
<1>5. ASSUME NEW c \in 1 .. Len(cs)
      PROVE  Lineage(cs, c) = {c} \union UNION {Lineage(cs, p) : p \in ParentsIn(cs, c)}
  <2>1. c \in 0 .. Len(cs) /\ c # Unborn BY <1>3 DEF Unborn
  <2>2. up[c] = {c} \union UNION {up[cs[c].parents[i]] : i \in DOMAIN cs[c].parents}
    BY <1>1, <2>1
  <2> QED BY <1>2, <2>2 DEF ParentsIn
<1> QED BY <1>2, <1>4, <1>5

\* A commit descends from itself and from its parents, and from no younger one;
\* the ancestors of an ancestor are ancestors.
LEMMA LineageIs ==
  ASSUME NEW cs, Ordered(cs), NEW c \in 1 .. Len(cs)
  PROVE  /\ c \in Lineage(cs, c) /\ Lineage(cs, c) \subseteq 1 .. c
         /\ \A d \in Lineage(cs, c) : Lineage(cs, d) \subseteq Lineage(cs, c)
<1> DEFINE Good(x) == /\ Lineage(cs, x) \subseteq 1 .. x
                      /\ \A d \in Lineage(cs, x) : Lineage(cs, d) \subseteq Lineage(cs, x)
           Bad == {x \in 1 .. Len(cs) : ~Good(x)}
<1>1. Len(cs) \in Nat /\ \A x \in 1 .. Len(cs) : ParentsIn(cs, x) \subseteq 1 .. x - 1
  BY DEF Ordered, IsSeq
<1>2. \A x \in 1 .. Len(cs) : Lineage(cs, x) = {x} \union UNION {Lineage(cs, p) : p \in ParentsIn(cs, x)}
  BY LineageUnfolds
<1>3. Bad = {}
  <2> SUFFICES ASSUME Bad # {} PROVE FALSE OBVIOUS
  <2>1. Bad \in SUBSET Nat BY <1>1
  <2>2. PICK x \in Bad : \A y \in Bad : x <= y
    <3> HIDE DEF Bad
    <3> QED BY <2>1, LeastNumber
  <2>3. x \in 1 .. Len(cs) /\ ~Good(x) BY <2>2
  <2>4. ASSUME NEW p \in ParentsIn(cs, x) PROVE Good(p) /\ p < x
    <3>1. p \in 1 .. x - 1 BY <1>1, <2>3
    <3>2. p \in 1 .. Len(cs) /\ ~(x <= p) /\ p < x BY <1>1, <2>3, <3>1
    <3>3. p \notin Bad BY <2>2, <3>2
    <3> QED BY <3>2, <3>3
  <2>5. Lineage(cs, x) = {x} \union UNION {Lineage(cs, p) : p \in ParentsIn(cs, x)} BY <1>2, <2>3
  <2>6. ASSUME NEW d \in Lineage(cs, x) PROVE d \in 1 .. x
    <3>1. CASE d = x BY <1>1, <2>3, <3>1
    <3>2. ASSUME NEW p \in ParentsIn(cs, x), d \in Lineage(cs, p) PROVE d \in 1 .. x
      <4>1. d \in 1 .. p /\ p < x /\ p \in 1 .. x - 1 BY <1>1, <2>3, <2>4, <3>2
      <4> QED BY <1>1, <2>3, <4>1
    <3> QED BY <2>5, <3>1, <3>2
  <2>7. ASSUME NEW d \in Lineage(cs, x) PROVE Lineage(cs, d) \subseteq Lineage(cs, x)
    <3> HIDE DEF Bad
    <3>2. ASSUME NEW p \in ParentsIn(cs, x), d \in Lineage(cs, p)
          PROVE  Lineage(cs, d) \subseteq Lineage(cs, x)
      <4>1. Lineage(cs, d) \subseteq Lineage(cs, p) BY <2>4, <3>2
      <4> QED BY <2>5, <4>1
    <3> QED BY <2>5, <3>2
  <2> QED BY <2>3, <2>6, <2>7
<1>4. c \in Lineage(cs, c) BY <1>2
<1> QED BY <1>3, <1>4

\* New commits give the old ones no other ancestors.
LEMMA LineageStays ==
  ASSUME NEW cs, Ordered(cs), NEW ds, Ordered(ds), Len(cs) <= Len(ds),
         \A i \in 1 .. Len(cs) : ds[i] = cs[i], NEW c \in 1 .. Len(cs)
  PROVE  Lineage(ds, c) = Lineage(cs, c)
<1> DEFINE Bad == {x \in 1 .. Len(cs) : Lineage(ds, x) # Lineage(cs, x)}
<1>1. Len(cs) \in Nat /\ Len(ds) \in Nat /\ \A x \in 1 .. Len(cs) : ParentsIn(cs, x) \subseteq 1 .. x - 1
  BY DEF Ordered, IsSeq
<1>2. Bad = {}
  <2> SUFFICES ASSUME Bad # {} PROVE FALSE OBVIOUS
  <2>1. Bad \in SUBSET Nat BY <1>1
  <2>2. PICK x \in Bad : \A y \in Bad : x <= y
    <3> HIDE DEF Bad
    <3> QED BY <2>1, LeastNumber
  <2>3. x \in 1 .. Len(cs) /\ x \in 1 .. Len(ds) /\ Lineage(ds, x) # Lineage(cs, x) BY <1>1, <2>2
  <2>4. ASSUME NEW p \in ParentsIn(cs, x) PROVE Lineage(ds, p) = Lineage(cs, p)
    <3>1. p \in 1 .. x - 1 BY <1>1, <2>3
    <3>2. p \in 1 .. Len(cs) /\ ~(x <= p) BY <1>1, <2>3, <3>1
    <3>3. p \notin Bad BY <2>2, <3>2
    <3> QED BY <3>2, <3>3
  <2>5. ParentsIn(ds, x) = ParentsIn(cs, x) BY <2>3 DEF ParentsIn
  <2>6. Lineage(cs, x) = {x} \union UNION {Lineage(cs, p) : p \in ParentsIn(cs, x)} BY <2>3, LineageUnfolds
  <2>7. Lineage(ds, x) = {x} \union UNION {Lineage(ds, p) : p \in ParentsIn(ds, x)} BY <2>3, LineageUnfolds
  <2> HIDE DEF Bad
  <2>8. {Lineage(ds, p) : p \in ParentsIn(ds, x)} = {Lineage(cs, p) : p \in ParentsIn(cs, x)}
    BY <2>4, <2>5
  <2> QED BY <2>3, <2>6, <2>7, <2>8
<1> QED BY <1>2

-----------------------------------------------------------------------------
(* What a branch named is never lost (TipsSurvive).                         *)

\* What the ref-log mentions, and what the writes W will add to it.
Logged == {e[2] : e \in reflog}
LoggedBy(W) == UNION {{w.old, w.commit} : w \in {w \in W : w.op = "log"}}
Accounted == Logged \union LoggedBy(Writes(todo))

Blank == {Unborn, Missing}

\* The user's branches; those whose refs are always logged.
Own == Branches \ {RebaseBranch, ScratchBranch}
Kept == Branches \ {ScratchBranch}

Moves(w, b) == w.op \in {"ref", "rmref"} /\ w.branch = b

\* The rebases that stand, in a state file s, in the writes W or in memory.
Rebasings(s, W, n, m) ==
  {x \in {s["rebase"]} \union {w.to : w \in {w \in W : w.op = "state" /\ w.file = "rebase"}} : Loads(x)}
    \union (IF n = "replay" THEN {m} ELSE {})
Standing == Rebasings(state, Writes(todo), next, mem)

\* A commit all of whose ancestors are still there.
Whole(c) == c \in DOMAIN commits => Ancestors(c) \intersect swept = {}

NamedBy(W) == LoggedBy(W) \union {w.commit : w \in {w \in W : w.op \in {"ref", "shelf"}}}
Named ==
  {refs[b] : b \in Branches} \union {tags[n] : n \in TagNames}
    \union {shelves[x] : x \in DOMAIN shelves} \union Logged \union tips \union NamedBy(Writes(todo))

WellFormed(w, n) ==
  /\ w.op = "ref" => w.branch \in Branches /\ w.commit \in 0 .. n
  /\ w.op = "rmref" => w.branch \in Branches
  /\ w.op = "head" => task = "bisect" \/ w.branch \in Branches
  /\ w.op = "shelf" => w.commit \in Nat
  /\ w.op \in {"mv", "shelf"} => task = "shelves"

Shape ==
  /\ IsSeq(todo) /\ Ordered(commits)
  /\ refs \in RefsOf(commits) /\ tips \subseteq DOMAIN commits
  /\ task # "bisect" => head \in Branches \union {Torn}
  /\ DOMAIN state = StateFiles /\ DOMAIN tags = TagNames /\ IsFiniteSet(DOMAIN shelves)
  /\ \A w \in Writes(todo) : WellFormed(w, Len(commits))

\* A commit a branch named is in the ref-log, or will be, or its ref stays.
TipsHeld ==
  \A t \in tips : \/ t \in Accounted
                  \/ \E b \in Own : refs[b] = t /\ \A w \in Writes(todo) : ~Moves(w, b)

\* What a write takes from a branch, and what it gives to one, is in the ref-log
\* or will be.
Settling ==
  \A w \in Writes(todo) :
    /\ \A b \in Own : Moves(w, b) => refs[b] \in Accounted \union Blank
    /\ w.op = "ref" /\ w.branch \in Kept => w.commit \in Accounted \union Blank

\* So is what a rebase that finishes will take from its branch.
Replaceable ==
  \A s \in Standing :
    /\ task = "rebase" /\ {"branch", "orig"} \subseteq DOMAIN s /\ s.branch \in Branches
    /\ s.branch \in Kept => refs[s.branch] \in Accounted \union Blank \union {s.orig}

\* Until a command is killed, every branch is accounted for, and that of a
\* rebase without any write to come.
Unhurt ==
  /\ tips \subseteq Logged
  /\ \A b \in Kept : refs[b] \in Accounted \union Blank
  /\ \A s \in Standing : s.branch \in Kept =>
       /\ refs[s.branch] \in Logged \union Blank
       /\ \A w \in Writes(todo) : w.op = "ref" /\ w.branch = s.branch => w.commit \in Logged \union Blank

\* gc took nothing below what is named.
Unswept ==
  /\ swept \subseteq DOMAIN commits /\ (task # "shelves" => swept = {})
  /\ \A c \in Named : Whole(c)

Safe == Shape /\ TipsHeld /\ Settling /\ Replaceable /\ Unswept /\ (mishaps = 0 => Unhurt)
TInv == HInv /\ (mishaps <= 1 => Safe)

-----------------------------------------------------------------------------
(* A command begins, or goes on.                                            *)

\* The rebase s stood before, or its branch is as it was; the writes W leave it so.
Stands(s, W) ==
  /\ task = "rebase" /\ {"branch", "orig"} \subseteq DOMAIN s /\ s.branch \in Branches
  /\ \/ \E z \in Standing : z.branch = s.branch /\ z.orig = s.orig
     \/ refs[s.branch] = s.orig
  /\ mishaps = 0 /\ s.branch \in Kept =>
       \A w \in W : w.op = "ref" /\ w.branch = s.branch => w.commit \in Logged \union Blank

\* What a plan of writes W, to go on with n and m, has to provide for, len being
\* the number of commits by then.
Fair(W, n, m, len) ==
  /\ \A w \in W : WellFormed(w, len)
  /\ \A w \in W : \A b \in Own : Moves(w, b) => refs[b] \in Logged \union LoggedBy(W) \union Blank
  /\ \A w \in W : w.op = "ref" /\ w.branch \in Kept =>
       w.commit \in Logged \union LoggedBy(W) \union Blank
  /\ \A s \in Rebasings(state, W, n, m) : Stands(s, W)
  /\ task = "shelves" => NamedBy(W) \subseteq Named \union {Unborn, Len(commits) + 1}

\* The new commit, if any, has parents whose ancestors are still there.
Founded(made) ==
  \/ made = <<>>
  \/ \E c : /\ made = <<c>>
           /\ \A i \in DOMAIN c.parents : c.parents[i] \in 1 .. Len(commits) /\ Whole(c.parents[i])

LEMMA DomainIs == ASSUME NEW q, IsSeq(q) PROVE DOMAIN q = 1 .. Len(q) /\ Len(q) \in Nat
BY LenProperties DEF IsSeq

LEMMA MadeKeeps ==
  ASSUME Ordered(commits), NEW made, Founded(made), commits' = commits \o made,
         swept \subseteq DOMAIN commits, UNCHANGED swept
  PROVE  /\ Ordered(commits') /\ Len(commits) \in Nat
         /\ Len(commits') \in {Len(commits), Len(commits) + 1}
         /\ \A c : c # Len(commits) + 1 => (Whole(c) => Whole(c)')
         /\ \A c : c = Len(commits') => Whole(c)' \/ commits' = commits
<1>0. IsSeq(commits) /\ DOMAIN commits = 1 .. Len(commits) /\ Len(commits) \in Nat
  BY DomainIs DEF Ordered
<1>1. CASE made = <<>>
  <2>1. commits' = commits BY <1>0, <1>1, NoMore
  <2> QED BY <1>0, <2>1 DEF Whole, Ancestors
<1>2. ASSUME NEW c, made = <<c>>,
             \A i \in DOMAIN c.parents : c.parents[i] \in 1 .. Len(commits) /\ Whole(c.parents[i])
      PROVE  /\ Ordered(commits') /\ Len(commits') = Len(commits) + 1
             /\ \A d : d # Len(commits) + 1 => (Whole(d) => Whole(d)')
             /\ \A d : d = Len(commits') => Whole(d)'
  <2> DEFINE n == Len(commits) + 1
             ps == {c.parents[i] : i \in DOMAIN c.parents}
  <2>1. /\ IsSeq(commits') /\ Len(commits') = n /\ commits'[n] = c
        /\ \A i \in 1 .. Len(commits) : commits'[i] = commits[i]
    BY <1>0, <1>2, OneMore
  <2>2. ParentsIn(commits', n) = ps BY <2>1 DEF ParentsIn
  <2>3. \A p \in ps : p \in 1 .. Len(commits) /\ Whole(p) BY <1>2
  <2> HIDE DEF ps
  <2>4. Ordered(commits')
    <3> SUFFICES ASSUME NEW x \in 1 .. n PROVE ParentsIn(commits', x) \subseteq 1 .. x - 1
      BY <2>1 DEF Ordered
    <3>1. CASE x = n BY <1>0, <2>2, <2>3, <3>1
    <3>2. CASE x # n
      <4>1. x \in 1 .. Len(commits) BY <1>0, <3>2
      <4>2. ParentsIn(commits', x) = ParentsIn(commits, x) BY <2>1, <4>1 DEF ParentsIn
      <4> QED BY <4>1, <4>2 DEF Ordered
    <3> QED BY <3>1, <3>2
  <2>5. \A x \in 1 .. Len(commits) : Lineage(commits', x) = Lineage(commits, x)
    <3>1. Len(commits) <= Len(commits') BY <1>0, <2>1
    <3> HIDE DEF n
    <3> QED BY <2>1, <2>4, <3>1, LineageStays
  <2>6. DOMAIN commits' = 1 .. n BY <2>1, DomainIs
  <2>7. ASSUME NEW d, d # n, Whole(d) PROVE Whole(d)'
    BY <1>0, <2>5, <2>6, <2>7, AncestorsAre DEF Whole
  <2>8. ASSUME NEW d, d = n PROVE Whole(d)'
    <3>1. d \in 1 .. Len(commits') /\ d \notin swept BY <1>0, <2>1, <2>8
    <3>2. Lineage(commits', d) = {d} \union UNION {Lineage(commits', p) : p \in ParentsIn(commits', d)}
      <4> HIDE DEF n
      <4> DEFINE ds == commits'
      <4>1. Ordered(ds) /\ d \in 1 .. Len(ds) BY <2>4, <3>1
      <4> HIDE DEF ds
      <4>2. Lineage(ds, d) = {d} \union UNION {Lineage(ds, p) : p \in ParentsIn(ds, d)}
        BY <4>1, LineageUnfolds, Zenon
      <4> QED BY <4>2 DEF ds
    <3>3. \A p \in ps : Lineage(commits', p) \intersect swept = {}
      BY <1>0, <2>3, <2>5, AncestorsAre DEF Whole
    <3>4. ParentsIn(commits', d) = ps BY <2>2, <2>8
    <3>5. Lineage(commits', d) \intersect swept = {} BY <3>1, <3>2, <3>3, <3>4
    <3> QED BY <3>5, AncestorsAre DEF Whole
  <2> QED BY <2>1, <2>4, <2>7, <2>8
<1> QED BY <1>0, <1>1, <1>2 DEF Founded

\* What the user sees when a command begins.
Seen == {refs[b] : b \in {x \in Own : refs[x] \notin Blank}}

LEMMA PlanSafe ==
  ASSUME Safe, todo = <<>>, mishaps \in Nat, mishaps' = 0 => mishaps = 0, task' = task,
         NEW ws, NEW n, NEW m, NEW made, Proceed(ws, n, m, made), IsSeq(ws), Founded(made),
         tips' \in {tips, tips \union Seen},
         Fair(Writes(ws), n, m, Len(commits'))
  PROVE  Safe'
<1> DEFINE W == Writes(ws)
<1>1. /\ todo' = ws /\ next' = n /\ commits' = commits \o made
      /\ UNCHANGED <<refs, head, reflog, state, shelves, tags, swept>>
      /\ n = "replay" => mem' = m
  BY DEF Proceed
<1>2. IsSeq(commits) /\ DOMAIN commits = 1 .. Len(commits) /\ Len(commits) \in Nat
  BY DomainIs DEF Safe, Shape, Ordered
<1>3. /\ Ordered(commits') /\ Len(commits') \in {Len(commits), Len(commits) + 1}
      /\ \A c : c # Len(commits) + 1 => (Whole(c) => Whole(c)')
      /\ \A c : c = Len(commits') => Whole(c)' \/ commits' = commits
  BY <1>1, MadeKeeps DEF Safe, Shape, Unswept
<1>4. DOMAIN commits' = 1 .. Len(commits') BY <1>3, DomainIs DEF Ordered
<1>5. 0 .. Len(commits) \subseteq 0 .. Len(commits') /\ DOMAIN commits \subseteq DOMAIN commits'
  <2>1. Len(commits) <= Len(commits') /\ Len(commits') \in Nat BY <1>2, <1>3
  <2> QED BY <1>2, <1>4, <2>1
<1>6. Accounted = Logged /\ Writes(todo) = {} BY NoWrites DEF Accounted, LoggedBy
<1>7. Accounted' = Logged \union LoggedBy(W) /\ Writes(todo)' = W /\ Logged' = Logged
  BY <1>1 DEF Accounted, Logged, LoggedBy, Writes
<1>8. Standing' = Rebasings(state, W, n, m)
  BY <1>1, <1>7 DEF Standing, Rebasings
<1> HIDE DEF W
<1>9. Seen \subseteq DOMAIN commits
  BY <1>2 DEF Seen, Own, Safe, Shape, RefsOf, Blank, Unborn, Missing
<1>10. Shape'
  <2>1. refs' \in RefsOf(commits') BY <1>1, <1>5 DEF Safe, Shape, RefsOf
  <2>2. tips' \subseteq DOMAIN commits' BY <1>5, <1>9 DEF Safe, Shape
  <2>3. \A k : \A w \in W : WellFormed(w, k) => WellFormed(w, k)' BY DEF WellFormed
  <2>4. \A w \in W : WellFormed(w, Len(commits')) BY DEF Fair, W
  <2>5. (\A w \in Writes(todo) : WellFormed(w, Len(commits)))' BY <1>7, <2>3, <2>4
  <2> QED BY <2>5, <1>1, <1>3, <1>7, <2>1, <2>2, <2>3 DEF Safe, Shape
<1>11. TipsHeld'
  <2> SUFFICES ASSUME NEW t \in tips'
               PROVE  t \in Logged \union LoggedBy(W)
                      \/ \E b \in Own : refs[b] = t /\ \A w \in W : ~Moves(w, b)
    BY <1>1, <1>7 DEF TipsHeld, Moves
  <2>1. t \in Logged \/ \E b \in Own : refs[b] = t /\ (t \in tips \/ t \notin Blank)
    BY <1>6 DEF Seen, Safe, TipsHeld
  <2>2. t \notin Blank
    <3>1. tips \subseteq 1 .. Len(commits) BY <1>2 DEF Safe, Shape
    <3>2. Blank \intersect (1 .. Len(commits)) = {} BY <1>2 DEF Blank, Unborn, Missing
    <3> QED BY <1>2, <1>9, <3>1, <3>2
  <2>3. \A b \in Own : \A w \in W : Moves(w, b) => refs[b] \in Logged \union LoggedBy(W) \union Blank
    BY DEF Fair, W
  <2> QED BY <2>1, <2>2, <2>3
<1>12. Settling'
  BY <1>1, <1>7 DEF Settling, Fair, Moves, W
<1>13. Replaceable'
  <2> SUFFICES ASSUME NEW s \in Rebasings(state, W, n, m)
               PROVE  /\ task = "rebase" /\ {"branch", "orig"} \subseteq DOMAIN s /\ s.branch \in Branches
                      /\ s.branch \in Kept => refs[s.branch] \in Logged \union LoggedBy(W) \union Blank \union {s.orig}
    BY <1>1, <1>7, <1>8 DEF Replaceable
  <2>1. /\ task = "rebase" /\ {"branch", "orig"} \subseteq DOMAIN s /\ s.branch \in Branches
        /\ \/ \E z \in Standing : z.branch = s.branch /\ z.orig = s.orig
           \/ refs[s.branch] = s.orig
    BY DEF Fair, Stands, W
  <2> QED BY <1>6, <2>1 DEF Safe, Replaceable
<1>14. Unswept'
  <2>1. swept' \subseteq DOMAIN commits' /\ (task' # "shelves" => swept' = {})
    BY <1>1, <1>5 DEF Safe, Unswept
  <2>2. Named' \subseteq Named \union NamedBy(W)
    <3>1. Seen \subseteq {refs[b] : b \in Branches} BY DEF Seen, Own
    <3>2. NamedBy(Writes(todo))' = NamedBy(W) BY <1>7 DEF NamedBy, LoggedBy
    <3>3. /\ {refs[b] : b \in Branches}' = {refs[b] : b \in Branches} 
          /\ {tags[k] : k \in TagNames}' = {tags[k] : k \in TagNames}
          /\ {shelves[x] : x \in DOMAIN shelves}' = {shelves[x] : x \in DOMAIN shelves}
      BY <1>1
    <3> QED BY <1>7, <3>1, <3>2, <3>3 DEF Named
  <2>3. CASE task = "shelves"
    <3>1. NamedBy(W) \subseteq Named \union {Unborn, Len(commits) + 1} BY <2>3 DEF Fair, W
    <3>2. ~(Unborn \in DOMAIN commits') BY <1>4 DEF Unborn
    <3>3. Whole(Unborn)' BY <3>2 DEF Whole
    <3>4. ASSUME NEW c, c = Len(commits) + 1 PROVE Whole(c)'
      <4>1. CASE Len(commits') = Len(commits) + 1
        <5>1. commits' # commits BY <1>2, <4>1
        <5>2. c = Len(commits') BY <3>4, <4>1
        <5> QED BY <1>3, <5>1, <5>2
      <4>2. CASE Len(commits') = Len(commits)
        <5>1. c \notin DOMAIN commits' BY <1>2, <1>4, <3>4, <4>2
        <5> QED BY <5>1 DEF Whole
      <4> QED BY <1>3, <4>1, <4>2
    <3>5. ASSUME NEW c \in Named PROVE Whole(c)'
      <4>1. Whole(c) BY DEF Safe, Unswept
      <4> QED BY <1>3, <3>4, <4>1
    <3> QED BY <2>1, <2>2, <3>1, <3>3, <3>4, <3>5 DEF Unswept
  <2>4. CASE task # "shelves"
    <3>1. \A c : Whole(c)' BY <2>1, <2>4 DEF Whole
    <3> QED BY <2>1, <3>1 DEF Unswept
  <2> QED BY <2>3, <2>4
<1>15. ASSUME mishaps' = 0 PROVE Unhurt'
  <2>1. mishaps = 0 /\ Unhurt BY <1>15 DEF Safe
  <2>2. \A b \in Kept : refs[b] \in Logged \union Blank BY <1>6, <2>1 DEF Unhurt
  <2>3. tips' \subseteq Logged
    <3>1. Seen \subseteq Logged BY <2>2 DEF Seen, Own, Kept
    <3> QED BY <2>1, <3>1 DEF Unhurt
  <2>4. \A s \in Rebasings(state, W, n, m) : s.branch \in Kept =>
          \A w \in W : w.op = "ref" /\ w.branch = s.branch => w.commit \in Logged \union Blank
    BY <2>1 DEF Fair, Stands, W
  <2>5. \A s \in Rebasings(state, W, n, m) : s.branch \in Kept => refs[s.branch] \in Logged \union Blank
    BY <2>2
  <2> QED BY <1>1, <1>7, <1>8, <2>2, <2>3, <2>4, <2>5 DEF Unhurt
<1> QED BY <1>10, <1>11, <1>12, <1>13, <1>14, <1>15 DEF Safe

-----------------------------------------------------------------------------
(* Plans that provide for everything.                                       *)

\* A write that moves no branch of the user's, nor the scratch branch of a
\* rebase but to remove it, and mentions no commit unseen.
Inert(w, len) ==
  /\ WellFormed(w, len)
  /\ w.op = "rmref" => w.branch \notin Own
  /\ w.op = "ref" => w.branch \notin Kept /\ task # "shelves"
  /\ w.op = "log" /\ task = "shelves" => {w.old, w.commit} \subseteq Named \union {Unborn}
  /\ w.op = "shelf" => w.commit = Len(commits) + 1

LEMMA FairMore ==
  ASSUME NEW W, NEW V, NEW n, NEW m, NEW len, Fair(W, "idle", NoState, len),
         \A w \in V : Inert(w, len),
         \A w \in V : w.op = "state" /\ w.file = "rebase" /\ Loads(w.to) => Stands(w.to, W),
         n = "replay" => Stands(m, W)
  PROVE  Fair(W \union V, n, m, len)
<1> DEFINE U == W \union V
<1>1. \A w : w \in U <=> w \in W \/ w \in V OBVIOUS
<1> HIDE DEF U
<1>2. LoggedBy(W) \subseteq LoggedBy(U) /\ LoggedBy(U) \subseteq LoggedBy(W) \union LoggedBy(V)
  BY <1>1 DEF LoggedBy
<1>3. NamedBy(U) \subseteq NamedBy(W) \union NamedBy(V) BY <1>1 DEF NamedBy, LoggedBy
<1>4. Own \subseteq Kept BY DEF Own, Kept
<1>5. \A s : Stands(s, W) => Stands(s, U)
  BY <1>1 DEF Stands, Inert
<1>6. ASSUME NEW s \in Rebasings(state, U, n, m) PROVE Stands(s, U)
  <2>1. Stands(s, W)
    BY <1>1 DEF Rebasings, Fair
  <2> QED BY <1>5, <2>1
<1>7. ASSUME task = "shelves" PROVE NamedBy(U) \subseteq Named \union {Unborn, Len(commits) + 1}
  <2>1. NamedBy(W) \subseteq Named \union {Unborn, Len(commits) + 1} BY <1>7 DEF Fair
  <2>2. NamedBy(V) \subseteq Named \union {Unborn, Len(commits) + 1}
    BY <1>7 DEF NamedBy, LoggedBy, Inert
  <2> QED BY <1>3, <2>1, <2>2
<1>8. \A w \in U : WellFormed(w, len) BY <1>1 DEF Fair, Inert
<1>9. \A w \in U : \A b \in Own : Moves(w, b) => refs[b] \in Logged \union LoggedBy(U) \union Blank
  BY <1>1, <1>2, <1>4 DEF Fair, Inert, Moves
<1>10. \A w \in U : w.op = "ref" /\ w.branch \in Kept =>
         w.commit \in Logged \union LoggedBy(U) \union Blank
  BY <1>1, <1>2 DEF Fair, Inert
<1>11. Fair(U, n, m, len) BY <1>6, <1>7, <1>8, <1>9, <1>10 DEF Fair
<1> QED BY <1>11 DEF U

LEMMA StandsAlready ==
  ASSUME Safe, todo = <<>>, NEW W, NEW z \in Standing,
         mishaps = 0 => \A w \in W : w.op = "ref" => w.branch # z.branch \/ w.commit \in Logged \union Blank
  PROVE  Stands(z, W)
BY DEF Safe, Replaceable, Stands

\* One who says of the same branch the same.
LEMMA StandsAlike ==
  ASSUME NEW W, NEW z, NEW s, Stands(z, W), s.branch = z.branch, s.orig = z.orig,
         {"branch", "orig"} \subseteq DOMAIN s
  PROVE  Stands(s, W)
BY DEF Stands

LEMMA RebasingsStand ==
  ASSUME todo = <<>>, NEW W, \A w \in W : w.op # "state"
  PROVE  Rebasings(state, W, "idle", NoState) \subseteq Standing
BY NoWrites DEF Rebasings, Standing

LEMMA FairNothing ==
  ASSUME Safe, todo = <<>>, NEW len
  PROVE  Fair({}, "idle", NoState, len)
<1>1. \A s \in Rebasings(state, {}, "idle", NoState) : Stands(s, {})
  <2>1. Rebasings(state, {}, "idle", NoState) \subseteq Standing BY RebasingsStand
  <2>2. \A s \in Standing : Stands(s, {}) BY StandsAlready
  <2> QED BY <2>1, <2>2
<1>2. NamedBy({}) = {} BY DEF NamedBy, LoggedBy
<1> QED BY <1>1, <1>2 DEF Fair

\* A branch b moves from o to x.
LEMMA FairMove ==
  ASSUME Safe, todo = <<>>, NEW b \in Branches, NEW o, NEW len, NEW x \in 0 .. len,
         b \in Own => refs[b] \in Logged \union {o} \union Blank,
         mishaps = 0 => \A z \in Standing : b # z.branch \/ x \in Logged \union Blank,
         task = "shelves" => {o, x} \subseteq Named \union {Unborn, Len(commits) + 1}
  PROVE  /\ Fair({Ref(b, x), Log(b, o, x)}, "idle", NoState, len)
         /\ \A z \in Standing : Stands(z, {Ref(b, x), Log(b, o, x)})
<1> DEFINE W == {Ref(b, x), Log(b, o, x)}
<1>1. /\ Ref(b, x).op = "ref" /\ Ref(b, x).branch = b /\ Ref(b, x).commit = x
      /\ Log(b, o, x).op = "log" /\ Log(b, o, x).old = o /\ Log(b, o, x).commit = x
  BY DEF Ref, Log
<1>2. \A w : w \in W <=> w = Ref(b, x) \/ w = Log(b, o, x) OBVIOUS
<1> HIDE DEF W
<1>3. LoggedBy(W) = {o, x} BY <1>1, <1>2 DEF LoggedBy
<1>4. NamedBy(W) = {o, x} BY <1>1, <1>2, <1>3 DEF NamedBy
<1>5. \A z \in Standing : Stands(z, W) BY <1>1, <1>2, StandsAlready
<1>6. \A s \in Rebasings(state, W, "idle", NoState) : Stands(s, W)
  <2>1. Rebasings(state, W, "idle", NoState) \subseteq Standing BY <1>1, <1>2, RebasingsStand
  <2> QED BY <1>5, <2>1
<1>7. Fair(W, "idle", NoState, len)
  BY <1>1, <1>2, <1>3, <1>4, <1>6 DEF Fair, WellFormed, Moves
<1> QED BY <1>5, <1>7 DEF W

\* A branch b is removed, its tip logged.
LEMMA FairRemoval ==
  ASSUME Safe, todo = <<>>, NEW b \in Branches, NEW len, NEW W,
         \/ refs[b] = Unborn /\ W = {RemoveRef(b)}
         \/ W = {Log(b, refs[b], Unborn), RemoveRef(b)}
  PROVE  Fair(W, "idle", NoState, len)
<1>1. /\ RemoveRef(b).op = "rmref" /\ RemoveRef(b).branch = b
      /\ Log(b, refs[b], Unborn).op = "log" /\ Log(b, refs[b], Unborn).old = refs[b]
      /\ Log(b, refs[b], Unborn).commit = Unborn
  BY DEF RemoveRef, Log
<1>2. \A w \in W : w = RemoveRef(b) \/ w = Log(b, refs[b], Unborn) OBVIOUS
<1>3. refs[b] \in LoggedBy(W) \union Blank BY <1>1 DEF LoggedBy, Blank
<1>4. NamedBy(W) \subseteq Named \union {Unborn} BY <1>1, <1>2 DEF NamedBy, LoggedBy, Named
<1>5. \A s \in Rebasings(state, W, "idle", NoState) : Stands(s, W)
  <2>1. Rebasings(state, W, "idle", NoState) \subseteq Standing BY <1>1, <1>2, RebasingsStand
  <2>2. \A s \in Standing : Stands(s, W) BY <1>1, <1>2, StandsAlready
  <2> QED BY <2>1, <2>2
<1> QED BY <1>1, <1>2, <1>3, <1>4, <1>5 DEF Fair, WellFormed, Moves

-----------------------------------------------------------------------------
(* Each command has such a plan.                                            *)

LEMMA GoesSafe ==
  ASSUME Safe, mishaps \in Nat, mishaps' = 0 => mishaps = 0, task' = task,
         NEW ws, NEW n, NEW m, NEW made,
         Runs(ws, n, m, made) \/ (\E k : Steps(k, ws, n, m, made)),
         IsSeq(ws), Founded(made), Fair(Writes(ws), n, m, Len(commits'))
  PROVE  Safe'
<1>1. todo = <<>> /\ Proceed(ws, n, m, made) BY DEF Runs, Begins, Idle, Steps
<1>2. tips' \in {tips, tips \union Seen}
  BY Zenon DEF Runs, Begins, Steps, Seen, Own, Blank
<1> QED BY <1>1, <1>2, PlanSafe

\* How many commits there are once made are put.
LEMMA HowMany ==
  ASSUME Safe
  PROVE  /\ Len(commits) \in Nat /\ DOMAIN commits = 1 .. Len(commits) /\ IsSeq(commits)
         /\ \A ws, n, m : Proceed(ws, n, m, <<>>) => Len(commits') = Len(commits)
         /\ \A ws, n, m, c : Proceed(ws, n, m, <<c>>) => Len(commits') = Len(commits) + 1
<1>1. IsSeq(commits) BY DEF Safe, Shape, Ordered
<1>2. Len(commits) \in Nat /\ DOMAIN commits = 1 .. Len(commits) BY <1>1, DomainIs
<1>3. \A ws, n, m : Proceed(ws, n, m, <<>>) => Len(commits') = Len(commits)
  BY <1>1, NoMore DEF Proceed
<1>4. ASSUME NEW ws, NEW n, NEW m, NEW c, Proceed(ws, n, m, <<c>>)
      PROVE  Len(commits') = Len(commits) + 1
  <2>1. commits' = commits \o <<c>> BY <1>4 DEF Proceed
  <2> QED BY <1>1, <2>1, OneMore
<1> QED BY <1>1, <1>2, <1>3, <1>4

\* Where HEAD is when nothing is on its way.
LEMMA HeadIs ==
  ASSUME Safe, todo = <<>>, task # "bisect"
  PROVE  /\ HeadBranch \in Branches /\ HeadCommit \in 0 .. Len(commits)
         /\ HeadCommit \in Named \union {Unborn}
         /\ refs[HeadBranch] \in {HeadCommit} \union Blank
<1>1. HeadBranch \in Branches BY FilesAssumption DEF Safe, Shape, HeadBranch
<1>2. refs[HeadBranch] \in {Missing} \union 0 .. Len(commits) BY <1>1 DEF Safe, Shape, RefsOf
<1>3. Len(commits) \in Nat BY HowMany
<1> QED BY <1>1, <1>2, <1>3 DEF HeadCommit, GetRef, Named, Blank, Unborn, Missing

LEMMA OntoFounded ==
  ASSUME Safe, NEW c \in (Named \union {Unborn}) \intersect (0 .. Len(commits)),
         NEW t, NEW built, NEW of
  PROVE  Founded(<<NewCommit(t, built, Onto(c), of)>>)
<1> DEFINE k == NewCommit(t, built, Onto(c), of)
<1>1. k.parents = Onto(c) BY DEF NewCommit
<1>2. c # Unborn => c \in 1 .. Len(commits) /\ Whole(c) BY HowMany DEF Unborn, Safe, Unswept
<1>3. \A i \in DOMAIN Onto(c) : Onto(c)[i] = c /\ c # Unborn BY DEF Onto
<1> HIDE DEF k
<1>4. \A i \in DOMAIN k.parents : k.parents[i] \in 1 .. Len(commits) /\ Whole(k.parents[i])
  BY <1>1, <1>2, <1>3
<1>5. Founded(<<k>>) BY <1>4 DEF Founded
<1> QED BY <1>5 DEF k

\* The scratch branch is HEAD's as long as no command was killed.
LEMMA OnScratch ==
  ASSUME HInv, Safe, todo = <<>>, mishaps = 0, NEW z \in Standing
  PROVE  HeadBranch = RebaseBranch /\ z.branch # RebaseBranch
<1>1. task = "rebase" BY DEF Safe, Replaceable
<1>2. Steady BY <1>1 DEF HInv, Quiet
<1>3. Settled(head, refs, index, state, commits, next, mem) /\ HeadBranch = head BY <1>2, AtRest
<1>4. (z = state["rebase"] /\ Loads(z)) \/ (next = "replay" /\ z = mem)
  BY NoWrites DEF Standing, Rebasings
<1>5. Rebased(z, head, refs, commits) BY <1>1, <1>3, <1>4 DEF Settled, Loads
<1> QED BY <1>3, <1>5 DEF Rebased

\* It says the same of the same branch as a rebase that stands.
Alike(s) ==
  {"branch", "orig"} \subseteq DOMAIN s /\ \E z \in Standing : z.branch = s.branch /\ z.orig = s.orig

LEMMA InertWrites ==
  ASSUME NEW len
  PROVE  /\ \A t : Inert(Save(t), len) /\ Save(t).op # "state"
         /\ \A t : \A w \in Writes(CheckoutWrites(t)) : Inert(w, len) /\ w.op # "state"
         /\ \A b : task = "bisect" \/ b \in Branches => Inert(SetHead(b), len)
         /\ \A b : SetHead(b).op # "state"
         /\ \A b \in {RebaseBranch, ScratchBranch} : Inert(RemoveRef(b), len) /\ RemoveRef(b).op # "state"
         /\ \A f, to : Inert(SaveState(f, to), len)
         /\ \A f, to : SaveState(f, to).file = f /\ SaveState(f, to).to = to
<1>1. \A t : Inert(Save(t), len) /\ Save(t).op # "state" BY DEF Save, Inert, WellFormed
<1>2. \A t : \A w \in Writes(CheckoutWrites(t)) : Inert(w, len) /\ w.op # "state"
  BY Checkouts DEF Inert, WellFormed
<1>3. \A b : SetHead(b).op = "head" /\ SetHead(b).branch = b BY DEF SetHead
<1>4. \A b : RemoveRef(b).op = "rmref" /\ RemoveRef(b).branch = b BY DEF RemoveRef
<1>5. \A f, to : /\ SaveState(f, to).op = "state" /\ SaveState(f, to).file = f
                 /\ SaveState(f, to).to = to
  BY DEF SaveState
<1> QED BY <1>1, <1>2, <1>3, <1>4, <1>5, ScratchAssumption DEF Inert, WellFormed, Own

\* The step moves branch b from o to x, with writes ws, those in V besides, and
\* goes on with n and m.
Moving(b, o, x, V, ws, n, m, made) ==
  /\ Runs(ws, n, m, made) \/ (\E k : Steps(k, ws, n, m, made))
  /\ b \in Branches /\ x \in 0 .. Len(commits')
  /\ IsSeq(ws) /\ Founded(made) /\ Writes(ws) = {Ref(b, x), Log(b, o, x)} \union V
  /\ b \in Own => refs[b] \in Logged \union {o} \union Blank
  /\ mishaps = 0 => \A z \in Standing : b # z.branch \/ x \in Logged \union Blank
  /\ task = "shelves" => {o, x} \subseteq Named \union {Unborn, Len(commits) + 1}
  /\ \A w \in V : Inert(w, Len(commits'))
  /\ \A w \in V : w.op = "state" /\ w.file = "rebase" /\ Loads(w.to) => Alike(w.to)
  /\ n = "replay" => Alike(m)

LEMMA MoveSafe ==
  ASSUME HInv, Safe, mishaps' = 0 => mishaps = 0, task' = task, todo = <<>>,
         NEW b, NEW o, NEW x, NEW V, NEW ws, NEW n, NEW m, NEW made,
         Moving(b, o, x, V, ws, n, m, made)
  PROVE  Safe'
<1> DEFINE W == {Ref(b, x), Log(b, o, x)}
           len == Len(commits')
<1> HIDE DEF len
<1>0. b \in Branches /\ x \in 0 .. len BY DEF len, Moving
<1>1. Fair(W, "idle", NoState, len) /\ \A z \in Standing : Stands(z, W)
  <2>1. b \in Own => refs[b] \in Logged \union {o} \union Blank BY DEF Moving
  <2>2. mishaps = 0 => \A z \in Standing : b # z.branch \/ x \in Logged \union Blank BY DEF Moving
  <2>3. task = "shelves" => {o, x} \subseteq Named \union {Unborn, Len(commits) + 1} BY DEF Moving
  <2> QED BY <1>0, <2>1, <2>2, <2>3, FairMove
<1> HIDE DEF W
<1>2. \A s : Alike(s) => Stands(s, W) BY <1>1 DEF Alike, Stands
<1>3. Fair(W \union V, n, m, len)
  <2>1. \A w \in V : w.op = "state" /\ w.file = "rebase" /\ Loads(w.to) => Stands(w.to, W)
    BY <1>2 DEF Moving
  <2>2. n = "replay" => Stands(m, W) BY <1>2 DEF Moving
  <2>3. \A w \in V : Inert(w, len) BY DEF len, Moving
  <2> QED BY <1>1, <2>1, <2>2, <2>3, FairMore
<1>4. Fair(Writes(ws), n, m, Len(commits')) BY <1>3 DEF W, len, Moving
<1>5. mishaps \in Nat BY DEF HInv
<1>6. /\ Runs(ws, n, m, made) \/ (\E k : Steps(k, ws, n, m, made))
      /\ IsSeq(ws) /\ Founded(made)
  BY DEF Moving
<1> QED BY <1>4, <1>5, <1>6, GoesSafe

\* HEAD's branch moves.
LEMMA HeadMoves ==
  ASSUME HInv, Safe, mishaps' = 0 => mishaps = 0, task' = task, todo = <<>>, task # "bisect",
         NEW x \in 0 .. Len(commits'), NEW ws, NEW n, NEW m, NEW made, NEW V,
         Runs(ws, n, m, made) \/ (\E k : Steps(k, ws, n, m, made)),
         IsSeq(ws), Founded(made),
         Writes(ws) = {Ref(HeadBranch, x), Log(HeadBranch, HeadCommit, x)} \union V,
         task = "shelves" => x \in Named \union {Len(commits) + 1},
         \A w \in V : Inert(w, Len(commits')),
         \A w \in V : w.op = "state" /\ w.file = "rebase" /\ Loads(w.to) => Alike(w.to),
         n = "replay" => Alike(m)
  PROVE  Safe'
<1>1. /\ HeadBranch \in Branches /\ HeadCommit \in Named \union {Unborn}
      /\ refs[HeadBranch] \in {HeadCommit} \union Blank
  BY HeadIs
<1>2. mishaps = 0 => \A z \in Standing : HeadBranch # z.branch BY OnScratch
<1>3. task = "shelves" => {HeadCommit, x} \subseteq Named \union {Unborn, Len(commits) + 1} BY <1>1
<1>4. HeadBranch \in Own => refs[HeadBranch] \in Logged \union {HeadCommit} \union Blank BY <1>1
<1> DEFINE hb == HeadBranch
           hc == HeadCommit
<1> HIDE DEF hb, hc
<1>5. /\ hb \in Branches /\ (hb \in Own => refs[hb] \in Logged \union {hc} \union Blank)
      /\ mishaps = 0 => \A z \in Standing : hb # z.branch \/ x \in Logged \union Blank
      /\ task = "shelves" => {hc, x} \subseteq Named \union {Unborn, Len(commits) + 1}
      /\ Writes(ws) = {Ref(hb, x), Log(hb, hc, x)} \union V
  BY <1>1, <1>2, <1>3, <1>4 DEF hb, hc
<1>6. Moving(hb, hc, x, V, ws, n, m, made) BY <1>5 DEF Moving
<1> QED BY <1>6, MoveSafe

LEMMA HeadMovesOnly ==
  ASSUME HInv, Safe, mishaps' = 0 => mishaps = 0, task' = task, task # "bisect",
         NEW x \in 0 .. Len(commits'), NEW ws, NEW made, NEW V,
         Runs(ws, "idle", NoState, made), IsSeq(ws), Founded(made),
         Writes(ws) = {Ref(HeadBranch, x), Log(HeadBranch, HeadCommit, x)} \union V,
         task = "shelves" => x \in Named \union {Len(commits) + 1},
         \A w \in V : Inert(w, Len(commits')) /\ w.op # "state"
  PROVE  Safe'
<1>1. todo = <<>> BY DEF Runs, Begins, Idle
<1>2. /\ \A w \in V : Inert(w, Len(commits'))
      /\ \A w \in V : w.op = "state" /\ w.file = "rebase" /\ Loads(w.to) => Alike(w.to)
      /\ "idle" = "replay" => Alike(NoState)
  OBVIOUS
<1> QED BY <1>1, <1>2, HeadMoves

\* InertWrites, of the number of commits after the step.
LEMMA InertThen ==
  /\ \A t : Inert(Save(t), Len(commits')) /\ Save(t).op # "state"
  /\ \A t : \A w \in Writes(CheckoutWrites(t)) : Inert(w, Len(commits')) /\ w.op # "state"
  /\ \A b : task = "bisect" \/ b \in Branches => Inert(SetHead(b), Len(commits'))
  /\ \A b : SetHead(b).op # "state"
  /\ \A b \in {RebaseBranch, ScratchBranch} :
       Inert(RemoveRef(b), Len(commits')) /\ RemoveRef(b).op # "state"
  /\ \A f, to : Inert(SaveState(f, to), Len(commits'))
  /\ \A f, to : SaveState(f, to).file = f /\ SaveState(f, to).to = to
<1> DEFINE len == Len(commits')
<1> HIDE DEF len
<1>1. /\ \A t : Inert(Save(t), len) /\ Save(t).op # "state"
      /\ \A t : \A w \in Writes(CheckoutWrites(t)) : Inert(w, len) /\ w.op # "state"
      /\ \A b : task = "bisect" \/ b \in Branches => Inert(SetHead(b), len)
      /\ \A b : SetHead(b).op # "state"
      /\ \A b \in {RebaseBranch, ScratchBranch} : Inert(RemoveRef(b), len) /\ RemoveRef(b).op # "state"
      /\ \A f, to : Inert(SaveState(f, to), len)
      /\ \A f, to : SaveState(f, to).file = f /\ SaveState(f, to).to = to
  BY InertWrites, Zenon
<1> QED BY <1>1 DEF len

LEMMA CommitSafe ==
  ASSUME HInv, Safe, mishaps' = 0 => mishaps = 0, task' = task, task # "bisect", CmdCommit
  PROVE  Safe'
<1> DEFINE x == Len(commits) + 1
           t == Scanned(work)
           c == NewCommit(t, "scan", Onto(HeadCommit), 0)
           ws == CommitWrites(x) \o <<Save(t)>>
           made == <<c>>
           V == {Save(t)}
<1>1. Runs(ws, "idle", NoState, made) /\ todo = <<>> BY DEF CmdCommit, Runs, Begins, Idle
<1>2. Founded(made) BY <1>1, HeadIs, OntoFounded
<1> HIDE DEF c, t
<1>3. IsSeq(ws) /\ Writes(ws) = {Ref(HeadBranch, x), Log(HeadBranch, HeadCommit, x)} \union V
  <2> HIDE DEF x
  <2> QED BY SomeWrites, MoreWrites DEF CommitWrites
<1>4. \A w \in V : Inert(w, Len(commits')) /\ w.op # "state" BY InertThen
<1> HIDE DEF ws, V
<1>5. Len(commits') = x /\ x \in 0 .. Len(commits') BY <1>1, HowMany DEF Runs
<1>6. task = "shelves" => x \in Named \union {Len(commits) + 1} OBVIOUS
<1> HIDE DEF x, made
<1> QED BY <1>1, <1>2, <1>3, <1>4, <1>5, <1>6, HeadMovesOnly

LEMMA AmendSafe ==
  ASSUME HInv, Safe, mishaps' = 0 => mishaps = 0, task' = task, task # "bisect",
         NEW reword, Amend(reword)
  PROVE  Safe'
<1> DEFINE x == Len(commits) + 1
           t == Scanned(work)
           c == NewCommit(t, "scan", commits[HeadCommit].parents, 0)
           ws == CommitWrites(x) \o <<Save(t)>>
           made == <<c>>
           V == {Save(t)}
<1>1. Runs(ws, "idle", NoState, made) /\ todo = <<>> /\ HeadCommit # Unborn
  BY DEF Amend, Runs, Begins, Idle
<1>2. Founded(made)
  <2> DEFINE h == HeadCommit
  <2>1. h \in 1 .. Len(commits) /\ h \in Named BY <1>1, HeadIs, HowMany DEF Unborn
  <2>2. c.parents = commits[h].parents BY DEF NewCommit
  <2> HIDE DEF c, h
  <2>3. Ordered(commits) /\ Len(commits) \in Nat BY HowMany DEF Safe, Shape
  <2>4. Lineage(commits, h) = {h} \union UNION {Lineage(commits, p) : p \in ParentsIn(commits, h)}
    BY <2>1, <2>3, LineageUnfolds
  <2>5. Whole(h) BY <2>1 DEF Safe, Unswept
  <2>6. Lineage(commits, h) \intersect swept = {} BY <2>1, <2>5, HowMany, AncestorsAre DEF Whole
  <2>7. ASSUME NEW i \in DOMAIN c.parents
        PROVE  c.parents[i] \in 1 .. Len(commits) /\ Whole(c.parents[i])
    <3> DEFINE p == c.parents[i]
    <3>1. p \in ParentsIn(commits, h) BY <2>2 DEF ParentsIn
    <3> HIDE DEF p
    <3>2. p \in 1 .. h - 1 BY <2>1, <2>3, <3>1 DEF Ordered
    <3>3. p \in 1 .. Len(commits) BY <2>1, <2>3, <3>2
    <3>4. Lineage(commits, p) \intersect swept = {} BY <2>4, <2>6, <3>1
    <3>5. Whole(p) BY <3>4, AncestorsAre DEF Whole
    <3> QED BY <3>3, <3>5 DEF p
  <2> QED BY <2>7 DEF Founded
<1> HIDE DEF c, t
<1>3. IsSeq(ws) /\ Writes(ws) = {Ref(HeadBranch, x), Log(HeadBranch, HeadCommit, x)} \union V
  <2> HIDE DEF x
  <2> QED BY SomeWrites, MoreWrites DEF CommitWrites
<1>4. \A w \in V : Inert(w, Len(commits')) /\ w.op # "state" BY InertThen
<1> HIDE DEF ws, V
<1>5. Len(commits') = x /\ x \in 0 .. Len(commits') BY <1>1, HowMany DEF Runs
<1>6. task = "shelves" => x \in Named \union {Len(commits) + 1} OBVIOUS
<1> HIDE DEF x, made
<1> QED BY <1>1, <1>2, <1>3, <1>4, <1>5, <1>6, HeadMovesOnly

LEMMA ResetSafe ==
  ASSUME HInv, Safe, mishaps' = 0 => mishaps = 0, task' = task, task # "bisect",
         NEW x \in tips, ResetSoft(x)
  PROVE  Safe'
<1> DEFINE ws == <<Ref(HeadBranch, x), Log(HeadBranch, HeadCommit, x)>>
<1>1. Runs(ws, "idle", NoState, <<>>) BY DEF ResetSoft
<1>2. Founded(<<>>) BY DEF Founded
<1> DEFINE V == {}
           made == <<>>
<1>3. IsSeq(ws) /\ Writes(ws) = {Ref(HeadBranch, x), Log(HeadBranch, HeadCommit, x)} \union V
  BY SomeWrites
<1> HIDE DEF ws
<1>4. Len(commits') = Len(commits) /\ x \in 0 .. Len(commits')
  BY <1>1, HowMany DEF Runs, Safe, Shape
<1>5. task = "shelves" => x \in Named \union {Len(commits) + 1} BY DEF Named
<1>6. \A w \in V : Inert(w, Len(commits')) /\ w.op # "state" OBVIOUS
<1>7. Runs(ws, "idle", NoState, made) /\ Founded(made) BY <1>1, <1>2
<1> HIDE DEF V, made
<1> QED BY <1>3, <1>4, <1>5, <1>6, <1>7, HeadMovesOnly

\* A pick, of a cherry-pick or of a rebase that goes on (more).
LEMMA PickedSafe ==
  ASSUME HInv, Safe, mishaps' = 0 => mishaps = 0, task' = task, task = "rebase", todo = <<>>,
         NEW target, NEW of, NEW n, NEW m, NEW more,
         LET ws == PickWrites(target) \o more
         IN  Runs(ws, n, m, Picked(target, of)) \/ (\E k : Steps(k, ws, n, m, Picked(target, of))),
         \/ more = <<>> /\ n = "idle"
         \/ more = <<SaveRebase(m)>> /\ Alike(m)
  PROVE  Safe'
<1> DEFINE x == Len(commits) + 1
           t == PickTree(target, HeadCommit)
           c == NewCommit(t, "map", Onto(HeadCommit), of)
           co == CheckoutWrites(t)
           ws == PickWrites(target) \o more
           made == <<c>>
           V == Writes(co) \union Writes(more)
<1>1. Runs(ws, n, m, made) \/ (\E k : Steps(k, ws, n, m, made)) BY DEF Picked
<1>2. Founded(made) BY HeadIs, OntoFounded
<1>3. PickWrites(target) = CommitWrites(x) \o co BY DEF PickWrites
<1> HIDE DEF c, t
<1>4. IsSeq(more) /\ Writes(more) \subseteq {SaveRebase(m)} /\ (Writes(more) # {} => Alike(m))
  BY NoWrites, SomeWrites
<1>5. IsSeq(ws) /\ Writes(ws) = {Ref(HeadBranch, x), Log(HeadBranch, HeadCommit, x)} \union V
  <2> DEFINE pw == CommitWrites(x)
             q == pw \o co
  <2>1. IsSeq(pw) /\ Writes(pw) = {Ref(HeadBranch, x), Log(HeadBranch, HeadCommit, x)}
    BY SomeWrites DEF CommitWrites
  <2>2. IsSeq(co) BY Checkouts
  <2> HIDE DEF pw, co
  <2>3. IsSeq(q) /\ Writes(q) = Writes(pw) \union Writes(co) BY <2>1, <2>2, MoreWrites
  <2>4. ws = q \o more BY <1>3 DEF pw
  <2> HIDE DEF q, ws
  <2>5. IsSeq(ws) /\ Writes(ws) = Writes(q) \union Writes(more) BY <1>4, <2>3, <2>4, MoreWrites
  <2> QED BY <2>1, <2>3, <2>5
<1>6. \A w \in V : Inert(w, Len(commits')) BY <1>4, InertThen DEF SaveRebase
<1>7. \A w \in V : w.op = "state" /\ w.file = "rebase" /\ Loads(w.to) => Alike(w.to)
  BY <1>4, InertThen DEF SaveRebase
<1> HIDE DEF ws, V
<1>8. Len(commits') = x /\ x \in 0 .. Len(commits') BY <1>1, HowMany DEF Runs, Steps
<1>9. task = "shelves" => x \in Named \union {Len(commits) + 1} OBVIOUS
<1>10. n = "replay" => Alike(m) OBVIOUS
<1> HIDE DEF x, made
<1> QED BY <1>1, <1>2, <1>5, <1>6, <1>7, <1>8, <1>9, <1>10, HeadMoves

LEMMA CherrySafe ==
  ASSUME HInv, Safe, mishaps' = 0 => mishaps = 0, task' = task, task = "rebase",
         NEW target, CherryPick(target)
  PROVE  Safe'
<1>1. Runs(PickWrites(target), "idle", NoState, Picked(target, 0)) /\ todo = <<>>
  BY DEF CherryPick, Runs, Begins, Idle
<1> DEFINE pw == PickWrites(target)
<1>2. IsSeq(pw)
  <2> DEFINE cw == CommitWrites(Len(commits) + 1)
             co == CheckoutWrites(PickTree(target, HeadCommit))
  <2>1. IsSeq(cw) BY SomeWrites DEF CommitWrites
  <2>2. IsSeq(co) BY Checkouts
  <2>3. pw = cw \o co BY DEF PickWrites
  <2> HIDE DEF pw, cw, co
  <2> QED BY <2>1, <2>2, <2>3, MoreWrites
<1>3. pw \o <<>> = pw
  <2> HIDE DEF pw
  <2> QED BY <1>2, ConcatEmptySeq DEF IsSeq
<1>4. Runs(pw \o <<>>, "idle", NoState, Picked(target, 0)) BY <1>1, <1>3
<1> DEFINE more == <<>>
           n == "idle"
<1>5. /\ LET ws == PickWrites(target) \o more
          IN  Runs(ws, n, NoState, Picked(target, 0)) \/ (\E k : Steps(k, ws, n, NoState, Picked(target, 0)))
      /\ \/ more = <<>> /\ n = "idle"
         \/ more = <<SaveRebase(NoState)>> /\ Alike(NoState)
  BY <1>4
<1> HIDE DEF more, n
<1> QED BY <1>1, <1>5, PickedSafe

\* A command that leaves the branches alone.
LEMMA PlainSafe ==
  ASSUME HInv, Safe, mishaps' = 0 => mishaps = 0, task' = task, todo = <<>>,
         NEW ws, NEW n, NEW m, NEW made,
         Runs(ws, n, m, made) \/ (\E k : Steps(k, ws, n, m, made)),
         IsSeq(ws), Founded(made),
         \A w \in Writes(ws) : Inert(w, Len(commits')),
         \A w \in Writes(ws) : w.op = "state" /\ w.file = "rebase" /\ Loads(w.to) => Alike(w.to),
         n = "replay" => Alike(m)
  PROVE  Safe'
<1> DEFINE len == Len(commits')
           V == Writes(ws)
<1>0. \A w \in V : Inert(w, len) OBVIOUS
<1> HIDE DEF len
<1>1. Fair({}, "idle", NoState, len) BY FairNothing
<1>2. \A z \in Standing : Stands(z, {}) BY StandsAlready
<1>3. \A s : Alike(s) => Stands(s, {}) BY <1>2 DEF Alike, Stands
<1>4. \A w \in V : w.op = "state" /\ w.file = "rebase" /\ Loads(w.to) => Stands(w.to, {}) BY <1>3
<1>5. n = "replay" => Stands(m, {}) BY <1>3
<1> HIDE DEF V
<1>6. Fair({} \union V, n, m, len) BY <1>0, <1>1, <1>4, <1>5, FairMore
<1>7. {} \union V = V OBVIOUS
<1>8. Fair(Writes(ws), n, m, Len(commits')) BY <1>6, <1>7 DEF V, len
<1>9. mishaps \in Nat BY DEF HInv
<1> QED BY <1>8, <1>9, GoesSafe

LEMMA ReplaySafe ==
  ASSUME HInv, Safe, mishaps' = 0 => mishaps = 0, task' = task, task = "rebase", Replay
  PROVE  Safe'
<1> DEFINE target == Head(mem.pending)
<1>1. todo = <<>> /\ next = "replay" BY DEF Replay
<1>2. mem \in Standing BY <1>1 DEF Standing, Rebasings
<1>3. Alike(mem) BY <1>2 DEF Alike, Safe, Replaceable
<1>4. CASE Steps("replay", <<SaveRebase(mem)>>, "idle", mem, <<>>)
  <2> DEFINE ws == <<SaveRebase(mem)>>
  <2>1. IsSeq(ws) /\ Writes(ws) = {SaveRebase(mem)} BY SomeWrites
  <2>2. Inert(SaveRebase(mem), Len(commits')) /\ SaveRebase(mem).to = mem BY InertThen DEF SaveRebase
  <2>3. \E k : Steps(k, ws, "idle", mem, <<>>) BY <1>4
  <2> HIDE DEF ws
  <2>4. /\ \A w \in Writes(ws) : Inert(w, Len(commits'))
        /\ \A w \in Writes(ws) : w.op = "state" /\ w.file = "rebase" /\ Loads(w.to) => Alike(w.to)
        /\ "idle" = "replay" => Alike(mem)
    BY <1>3, <2>1, <2>2
  <2>5. Founded(<<>>) BY DEF Founded
  <2> QED BY <1>1, <2>1, <2>3, <2>4, <2>5, PlainSafe
<1>5. CASE Steps("replay", PickWrites(target) \o <<SaveRebase(Popped(mem))>>,
                 "replay", Popped(mem), Picked(target, target))
  <2> DEFINE p == Popped(mem)
  <2>1. p.branch = mem.branch /\ p.orig = mem.orig /\ {"branch", "orig"} \subseteq DOMAIN p
    BY <1>3 DEF Popped, Alike
  <2>2. Alike(p) BY <1>2, <2>1 DEF Alike
  <2>3. Steps("replay", PickWrites(target) \o <<SaveRebase(p)>>, "replay", p, Picked(target, target))
    BY <1>5
  <2> HIDE DEF p, target
  <2> QED BY <1>1, <2>2, <2>3, PickedSafe
<1> QED BY <1>4, <1>5 DEF Replay

LEMMA CheckoutSafe ==
  ASSUME HInv, Safe, mishaps' = 0 => mishaps = 0, task' = task, NEW b, CmdCheckout(b)
  PROVE  Safe'
<1> DEFINE co == CheckoutWrites(TreeOf(refs[b]))
           ws == <<SetHead(b)>> \o (IF refs[b] = Unborn THEN <<>> ELSE co)
<1>1. Runs(ws, "idle", NoState, <<>>) /\ todo = <<>> /\ b \in Branches
  BY DEF CmdCheckout, Runs, Begins, Idle, ListBranches
<1>2. IsSeq(co) BY Checkouts
<1>3. \A w \in {SetHead(b)} \union Writes(co) : Inert(w, Len(commits')) /\ w.op # "state"
  BY <1>1, InertThen
<1> HIDE DEF co
<1>4. IsSeq(ws) /\ Writes(ws) \subseteq {SetHead(b)} \union Writes(co)
  BY <1>2, NoWrites, SomeWrites, MoreWrites
<1> HIDE DEF ws
<1>5. /\ \A w \in Writes(ws) : Inert(w, Len(commits'))
      /\ \A w \in Writes(ws) : w.op = "state" /\ w.file = "rebase" /\ Loads(w.to) => Alike(w.to)
      /\ "idle" = "replay" => Alike(NoState)
  BY <1>3, <1>4
<1>6. Founded(<<>>) BY DEF Founded
<1> QED BY <1>1, <1>4, <1>5, <1>6, PlainSafe

LEMMA DeleteSafe ==
  ASSUME HInv, Safe, mishaps' = 0 => mishaps = 0, task' = task, NEW b, NEW force, DeleteBranch(b, force)
  PROVE  Safe'
<1> DEFINE ws == (IF refs[b] = Unborn THEN <<>> ELSE <<Log(b, refs[b], Unborn)>>) \o <<RemoveRef(b)>>
<1>1. Runs(ws, "idle", NoState, <<>>) /\ todo = <<>> /\ b \in Branches
  BY DEF DeleteBranch, Runs, Begins, Idle, ListBranches
<1>2. /\ IsSeq(ws)
      /\ \/ refs[b] = Unborn /\ Writes(ws) = {RemoveRef(b)}
         \/ Writes(ws) = {Log(b, refs[b], Unborn), RemoveRef(b)}
  BY NoWrites, SomeWrites, MoreWrites
<1> HIDE DEF ws
<1>3. Fair(Writes(ws), "idle", NoState, Len(commits)) BY <1>1, <1>2, FairRemoval
<1>4. Len(commits') = Len(commits) BY <1>1, HowMany DEF Runs
<1>5. Fair(Writes(ws), "idle", NoState, Len(commits')) BY <1>3, <1>4
<1>6. Founded(<<>>) /\ mishaps \in Nat BY DEF Founded, HInv
<1> QED BY <1>1, <1>2, <1>5, <1>6, GoesSafe

LEMMA AbortSafe ==
  ASSUME HInv, Safe, mishaps' = 0 => mishaps = 0, task' = task, task = "rebase", RebaseAbort
  PROVE  Safe'
<1> DEFINE st == state["rebase"]
           pw == <<SetHead(st.branch), RemoveRef(RebaseBranch), SaveRebase(NoState)>>
           co == CheckoutWrites(TreeOf(st.orig))
           lw == <<Log(st.branch, st.orig, st.orig)>>
           ws == pw \o co \o lw
<1>1. todo = <<>> /\ Loads(st) /\ Runs(ws, "idle", NoState, <<>>)
  BY DEF RebaseAbort, Runs, Begins, Idle
<1>2. st.branch \in Branches BY <1>1 DEF Safe, Replaceable, Standing, Rebasings
<1> HIDE DEF st
<1>3. /\ IsSeq(ws)
      /\ Writes(ws) = {SetHead(st.branch), RemoveRef(RebaseBranch), SaveRebase(NoState)}
                         \union Writes(co) \union {Log(st.branch, st.orig, st.orig)}
  <2>1. IsSeq(pw) /\ Writes(pw) = {SetHead(st.branch), RemoveRef(RebaseBranch), SaveRebase(NoState)}
    BY SomeWrites
  <2>2. IsSeq(lw) /\ Writes(lw) = {Log(st.branch, st.orig, st.orig)} BY SomeWrites
  <2>3. IsSeq(co) BY Checkouts
  <2> HIDE DEF pw, lw, co
  <2>4. IsSeq(pw \o co) /\ Writes(pw \o co) = Writes(pw) \union Writes(co) BY <2>1, <2>3, MoreWrites
  <2> QED BY <2>1, <2>2, <2>4, MoreWrites
<1>4. Inert(Log(st.branch, st.orig, st.orig), Len(commits')) /\ Log(st.branch, st.orig, st.orig).op = "log"
  BY DEF Inert, WellFormed, Log
<1>5. \A w \in Writes(co) : Inert(w, Len(commits')) /\ w.op # "state" BY InertThen
<1>6. /\ Inert(SetHead(st.branch), Len(commits')) /\ SetHead(st.branch).op # "state"
      /\ Inert(RemoveRef(RebaseBranch), Len(commits')) /\ RemoveRef(RebaseBranch).op # "state"
      /\ Inert(SaveRebase(NoState), Len(commits')) /\ SaveRebase(NoState).to = NoState
  BY <1>2, InertThen DEF SaveRebase
<1> HIDE DEF ws, co
<1>7. /\ \A w \in Writes(ws) : Inert(w, Len(commits'))
      /\ \A w \in Writes(ws) : w.op = "state" /\ w.file = "rebase" /\ Loads(w.to) => Alike(w.to)
      /\ "idle" = "replay" => Alike(NoState)
  BY <1>3, <1>4, <1>5, <1>6 DEF Loads
<1>8. Founded(<<>>) BY DEF Founded
<1> QED BY <1>1, <1>3, <1>7, <1>8, PlainSafe

LEMMA ContinueSafe ==
  ASSUME HInv, Safe, mishaps' = 0 => mishaps = 0, task' = task, task = "rebase", RebaseContinue
  PROVE  Safe'
<1> DEFINE st == state["rebase"]
           target == Head(st.pending)
           tip == GetRef(RebaseBranch)
           x == Len(commits) + 1
           p == Popped(st)
           t == Scanned(work)
           c == NewCommit(t, "scan", Onto(tip), target)
           drop == <<SetHead(RebaseBranch), SaveRebase(p)>>
           keep == <<SetHead(RebaseBranch), Ref(RebaseBranch, x), Log(RebaseBranch, tip, x),
                     Save(t), SaveRebase(p)>>
           made == <<c>>
           V == {SetHead(RebaseBranch), Save(t), SaveRebase(p)}
<1>1. /\ todo = <<>> /\ Loads(st)
      /\ Runs(drop, "replay", p, <<>>) \/ Runs(keep, "replay", p, made)
  BY DEF RebaseContinue, Runs, Begins, Idle
<1>2. st \in Standing BY <1>1 DEF Standing, Rebasings
<1>3. Alike(p)
  <2>1. p.branch = st.branch /\ p.orig = st.orig /\ {"branch", "orig"} \subseteq DOMAIN p
    BY <1>2 DEF Popped, Safe, Replaceable
  <2> QED BY <1>2, <2>1 DEF Alike
<1>4. /\ tip \in 0 .. Len(commits) /\ tip \in Named \union {Unborn}
  BY HowMany, ScratchAssumption DEF Safe, Shape, RefsOf, GetRef, Named, Unborn
<1>5. Founded(made) BY <1>4, OntoFounded
<1> HIDE DEF st, c, t, p, tip
<1>6. /\ \A w \in V : Inert(w, Len(commits'))
      /\ \A w \in V : w.op = "state" /\ w.file = "rebase" /\ Loads(w.to) => Alike(w.to)
      /\ "replay" = "replay" => Alike(p)
  <2>1. /\ Inert(SetHead(RebaseBranch), Len(commits')) /\ SetHead(RebaseBranch).op # "state"
        /\ Inert(Save(t), Len(commits')) /\ Save(t).op # "state"
        /\ Inert(SaveRebase(p), Len(commits')) /\ SaveRebase(p).to = p
    BY ScratchAssumption, InertThen DEF SaveRebase
  <2> QED BY <1>3, <2>1
<1>7. CASE Runs(drop, "replay", p, <<>>)
  <2>1. IsSeq(drop) /\ Writes(drop) \subseteq V BY SomeWrites
  <2>2. Founded(<<>>) BY DEF Founded
  <2> HIDE DEF drop, V
  <2>3. /\ \A w \in Writes(drop) : Inert(w, Len(commits'))
        /\ \A w \in Writes(drop) : w.op = "state" /\ w.file = "rebase" /\ Loads(w.to) => Alike(w.to)
    BY <1>6, <2>1
  <2> QED BY <1>1, <1>6, <1>7, <2>1, <2>2, <2>3, PlainSafe
<1>8. CASE Runs(keep, "replay", p, made)
  <2>1. IsSeq(keep) /\ Writes(keep) = {Ref(RebaseBranch, x), Log(RebaseBranch, tip, x)} \union V
    <3> HIDE DEF x
    <3>1. IsSeq(keep) /\ Writes(keep) = {SetHead(RebaseBranch), Ref(RebaseBranch, x),
                                         Log(RebaseBranch, tip, x), Save(t), SaveRebase(p)}
      BY SomeWrites
    <3> HIDE DEF keep
    <3> QED BY <3>1
  <2> HIDE DEF keep, V
  <2>2. Len(commits') = x /\ x \in 0 .. Len(commits') BY <1>8, HowMany DEF Runs
  <2>3. /\ mishaps = 0 => \A z \in Standing : RebaseBranch # z.branch \/ x \in Logged \union Blank
        /\ RebaseBranch \in Own => refs[RebaseBranch] \in Logged \union {tip} \union Blank
        /\ task = "shelves" => {tip, x} \subseteq Named \union {Unborn, Len(commits) + 1}
        /\ RebaseBranch \in Branches
    BY <1>1, OnScratch, ScratchAssumption DEF Own
  <2> DEFINE n == "replay"
  <2>4. /\ Runs(keep, n, p, made) \/ (\E k : Steps(k, keep, n, p, made))
        /\ n = "replay" => Alike(p)
        /\ todo = <<>> /\ RebaseBranch \in Branches
    BY <1>1, <1>3, <1>8, <2>3
  <2> HIDE DEF x, made, n
  <2>5. x \in 0 .. Len(commits') BY <2>2
  <2>6. RebaseBranch \in Own => refs[RebaseBranch] \in Logged \union {tip} \union Blank BY <2>3
  <2>7. mishaps = 0 => \A z \in Standing : RebaseBranch # z.branch \/ x \in Logged \union Blank BY <2>3
  <2>8. task = "shelves" => {tip, x} \subseteq Named \union {Unborn, Len(commits) + 1} BY <2>3
  <2>9. \A w \in V : Inert(w, Len(commits')) BY <1>6
  <2>10. \A w \in V : w.op = "state" /\ w.file = "rebase" /\ Loads(w.to) => Alike(w.to) BY <1>6
  <2>11. Moving(RebaseBranch, tip, x, V, keep, n, p, made)
    BY <1>5, <2>1, <2>4, <2>5, <2>6, <2>7, <2>8, <2>9, <2>10 DEF Moving
  <2> QED BY <1>1, <2>11, MoveSafe
<1> QED BY <1>1, <1>7, <1>8

LEMMA FinishSafe ==
  ASSUME HInv, Safe, mishaps' = 0 => mishaps = 0, task' = task, task = "rebase", RebaseFinish
  PROVE  Safe'
<1> DEFINE x == HeadCommit
           b == mem.branch
           o == mem.orig
           pw == <<Ref(b, x), Log(b, o, x), SetHead(b), RemoveRef(RebaseBranch), SaveRebase(NoState)>>
           co == CheckoutWrites(TreeOf(x))
           cw == IF x = Unborn THEN <<>> ELSE co
           ws == pw \o cw
           V == {SetHead(b), RemoveRef(RebaseBranch), SaveRebase(NoState)} \union Writes(cw)
           n == "idle"
<1>1. todo = <<>> /\ next = "replay" /\ (\E k : Steps(k, ws, n, mem, <<>>))
  BY DEF RebaseFinish, Steps
<1>2. mem \in Standing BY <1>1 DEF Standing, Rebasings
<1>3. b \in Branches /\ (b \in Kept => refs[b] \in Accounted \union Blank \union {o})
  BY <1>2 DEF Safe, Replaceable
<1>4. Accounted = Logged BY <1>1, NoWrites DEF Accounted, LoggedBy
<1>5. x \in 0 .. Len(commits) BY <1>1, HeadIs
<1>6. mishaps = 0 => x \in Logged \union Blank
  <2> SUFFICES ASSUME mishaps = 0 PROVE x \in Logged \union Blank OBVIOUS
  <2>1. HeadBranch = RebaseBranch BY <1>1, <1>2, OnScratch
  <2>2. refs[RebaseBranch] \in Accounted \union Blank BY ScratchAssumption DEF Safe, Unhurt, Kept
  <2> QED BY <1>4, <2>1, <2>2 DEF HeadCommit, GetRef, Blank
<1> HIDE DEF b, x, o
<1>7. IsSeq(co) /\ \A w \in Writes(co) : Inert(w, Len(commits')) /\ w.op # "state"
  BY Checkouts, InertThen
<1> HIDE DEF co
<1>8. IsSeq(cw) /\ \A w \in Writes(cw) : Inert(w, Len(commits')) /\ w.op # "state" BY <1>7, NoWrites
<1> HIDE DEF cw
<1>9. IsSeq(ws) /\ Writes(ws) = {Ref(b, x), Log(b, o, x)} \union V
  <2>1. IsSeq(pw) /\ Writes(pw) = {Ref(b, x), Log(b, o, x), SetHead(b), RemoveRef(RebaseBranch),
                                   SaveRebase(NoState)}
    BY SomeWrites
  <2> HIDE DEF pw
  <2>2. IsSeq(ws) /\ Writes(ws) = Writes(pw) \union Writes(cw) BY <1>8, <2>1, MoreWrites
  <2> HIDE DEF ws
  <2> QED BY <2>1, <2>2
<1>10. /\ Inert(SetHead(b), Len(commits')) /\ SetHead(b).op # "state"
       /\ Inert(RemoveRef(RebaseBranch), Len(commits')) /\ RemoveRef(RebaseBranch).op # "state"
       /\ Inert(SaveRebase(NoState), Len(commits')) /\ SaveRebase(NoState).to = NoState
  BY <1>3, InertThen DEF SaveRebase
<1>11. \A w \in V : Inert(w, Len(commits')) BY <1>8, <1>10
<1>12. \A w \in V : w.op = "state" /\ w.file = "rebase" /\ Loads(w.to) => Alike(w.to)
  BY <1>8, <1>10 DEF Loads
<1>13. Len(commits') = Len(commits) BY <1>1, HowMany DEF Steps
<1>14. Founded(<<>>) BY DEF Founded
<1>15. b \in Own => refs[b] \in Logged \union {o} \union Blank BY <1>3, <1>4 DEF Own, Kept
<1>16. n = "replay" => Alike(mem) OBVIOUS
<1>17. task = "shelves" => {o, x} \subseteq Named \union {Unborn, Len(commits) + 1} OBVIOUS
<1> HIDE DEF V, ws, n
<1>18. x \in 0 .. Len(commits') /\ b \in Branches BY <1>3, <1>5, <1>13
<1>19. mishaps = 0 => \A z \in Standing : b # z.branch \/ x \in Logged \union Blank BY <1>6
<1>20. todo = <<>> BY <1>1
<1>21. Runs(ws, n, mem, <<>>) \/ (\E k : Steps(k, ws, n, mem, <<>>)) BY <1>1
<1>22. Moving(b, o, x, V, ws, n, mem, <<>>)
  BY <1>9, <1>11, <1>12, <1>14, <1>15, <1>16, <1>17, <1>18, <1>19, <1>21 DEF Moving
<1> QED BY <1>20, <1>22, MoveSafe

LEMMA RebaseStartSafe ==
  ASSUME HInv, Safe, mishaps' = 0 => mishaps = 0, task' = task, task = "rebase",
         NEW a \in Branches, Tip(a), RebaseStart(refs[a])
  PROVE  Safe'
<1> DEFINE x == refs[a]
           tip == HeadCommit
           st == [branch |-> HeadBranch, orig |-> tip, up |-> x, pending |-> RebaseChain(tip, x),
                  done |-> <<>>]
           pw == <<Ref(RebaseBranch, x), Log(RebaseBranch, Unborn, x), SaveRebase(st),
                   SetHead(RebaseBranch)>>
           co == CheckoutWrites(TreeOf(x))
           ws == pw \o co
           W == {Ref(RebaseBranch, x), Log(RebaseBranch, Unborn, x)}
           V == {SaveRebase(st), SetHead(RebaseBranch)} \union Writes(co)
           n == "replay"
<1>1. /\ Runs(ws, n, st, <<>>) /\ todo = <<>>
      /\ tip # Unborn /\ GetRef(RebaseBranch) = Unborn
  BY DEF RebaseStart, Runs, Begins, Idle
<1>2. Len(commits') = Len(commits) /\ Len(commits) \in Nat BY <1>1, HowMany DEF Runs
<1>3. x \in 0 .. Len(commits') BY <1>2 DEF Safe, Shape, RefsOf, Tip, Missing
<1>4. /\ st.branch = HeadBranch /\ st.orig = tip /\ {"branch", "orig"} \subseteq DOMAIN st
      /\ HeadBranch \in Branches /\ HeadBranch # RebaseBranch /\ refs[HeadBranch] = tip
  <2>1. HeadBranch \in Branches BY <1>1, HeadIs
  <2> QED BY <1>1, <2>1 DEF HeadCommit, GetRef
<1> HIDE DEF st, x, tip
<1>5. Fair(W, "idle", NoState, Len(commits')) /\ RebaseBranch \in Branches
  <2> DEFINE len == Len(commits')
             o == Unborn
  <2>1. RebaseBranch \in Branches BY ScratchAssumption
  <2>2. RebaseBranch \in Own => refs[RebaseBranch] \in Logged \union {o} \union Blank BY DEF Own
  <2>3. mishaps = 0 => \A z \in Standing : RebaseBranch # z.branch \/ x \in Logged \union Blank
    BY <1>1, OnScratch
  <2>4. task = "shelves" => {o, x} \subseteq Named \union {Unborn, Len(commits) + 1} OBVIOUS
  <2>5. W = {Ref(RebaseBranch, x), Log(RebaseBranch, o, x)} OBVIOUS
  <2>6. x \in 0 .. len BY <1>3
  <2> HIDE DEF len, o, W
  <2>7. Fair(W, "idle", NoState, len) BY <1>1, <2>1, <2>2, <2>3, <2>4, <2>5, <2>6, FairMove
  <2> QED BY <2>1, <2>7 DEF len
<1>6. Stands(st, W)
  <2>1. \A w \in W : w.op = "ref" => w.branch = RebaseBranch BY DEF Ref, Log
  <2> HIDE DEF W
  <2> QED BY <1>4, <2>1 DEF Stands
<1>7. IsSeq(co) /\ \A w \in Writes(co) : Inert(w, Len(commits')) /\ w.op # "state"
  BY Checkouts, InertThen
<1> HIDE DEF co
<1>8. IsSeq(ws) /\ Writes(ws) = W \union V
  <2>1. IsSeq(pw) /\ Writes(pw) = {Ref(RebaseBranch, x), Log(RebaseBranch, Unborn, x),
                                   SaveRebase(st), SetHead(RebaseBranch)}
    BY SomeWrites
  <2> HIDE DEF pw
  <2>2. IsSeq(ws) /\ Writes(ws) = Writes(pw) \union Writes(co) BY <1>7, <2>1, MoreWrites
  <2> HIDE DEF ws
  <2> QED BY <2>1, <2>2
<1>9. /\ Inert(SetHead(RebaseBranch), Len(commits')) /\ SetHead(RebaseBranch).op # "state"
      /\ Inert(SaveRebase(st), Len(commits')) /\ SaveRebase(st).to = st
  BY <1>5, InertThen DEF SaveRebase
<1> HIDE DEF W
<1>10. \A w \in V : Inert(w, Len(commits')) BY <1>7, <1>9
<1>11. \A w \in V : w.op = "state" /\ w.file = "rebase" /\ Loads(w.to) => Stands(w.to, W)
  BY <1>6, <1>7, <1>9
<1> HIDE DEF V, ws, n
<1>12. Fair(W \union V, n, st, Len(commits'))
  <2> DEFINE len == Len(commits')
  <2>1. Fair(W, "idle", NoState, len) /\ \A w \in V : Inert(w, len) BY <1>5, <1>10
  <2> HIDE DEF len
  <2>2. Fair(W \union V, n, st, len) BY <1>6, <1>11, <2>1, FairMore
  <2> QED BY <2>2 DEF len
<1>13. Fair(Writes(ws), n, st, Len(commits')) BY <1>8, <1>12
<1>14. Founded(<<>>) /\ mishaps \in Nat BY DEF Founded, HInv
<1> QED BY <1>1, <1>8, <1>13, <1>14, GoesSafe

\* A step of a bisect, which writes its state, its scratch branch and HEAD.
LEMMA BisectPlain ==
  ASSUME HInv, Safe, mishaps' = 0 => mishaps = 0, task' = task, task = "bisect", todo = <<>>,
         NEW ws, NEW n, NEW m,
         Runs(ws, n, m, <<>>) \/ (\E k : Steps(k, ws, n, m, <<>>)),
         IsSeq(ws), n # "replay",
         \A w \in Writes(ws) : Inert(w, Len(commits')) /\ (w.op = "state" => w.file = "bisect")
  PROVE  Safe'
<1>1. Founded(<<>>) BY DEF Founded
<1>2. \A w \in Writes(ws) : Inert(w, Len(commits')) OBVIOUS
<1>3. \A w \in Writes(ws) : w.op = "state" /\ w.file = "rebase" /\ Loads(w.to) => Alike(w.to)
  OBVIOUS
<1>4. n = "replay" => Alike(m) OBVIOUS
<1> QED BY <1>1, <1>2, <1>3, <1>4, PlainSafe

LEMMA BisectInert ==
  /\ \A st : Inert(SaveBisect(st), Len(commits')) /\ SaveBisect(st).file = "bisect"
  /\ task = "bisect" => \A c \in 0 .. Len(commits') :
       Inert(Ref(ScratchBranch, c), Len(commits')) /\ Ref(ScratchBranch, c).op = "ref"
<1>1. \A c : /\ Ref(ScratchBranch, c).op = "ref" /\ Ref(ScratchBranch, c).branch = ScratchBranch
             /\ Ref(ScratchBranch, c).commit = c
  BY DEF Ref
<1> QED BY <1>1, InertThen, ScratchAssumption DEF SaveBisect, Inert, WellFormed, Kept

LEMMA SavedSafe ==
  ASSUME HInv, Safe, mishaps' = 0 => mishaps = 0, task' = task, task = "bisect", todo = <<>>,
         NEW st, NEW ws, ws \in {<<>>, <<SaveBisect(st)>>}, NEW n, NEW m, n # "replay",
         Runs(ws, n, m, <<>>) \/ (\E k : Steps(k, ws, n, m, <<>>))
  PROVE  Safe'
<1>1. IsSeq(ws) /\ Writes(ws) \subseteq {SaveBisect(st)} BY NoWrites, SomeWrites
<1>2. \A w \in Writes(ws) : Inert(w, Len(commits')) /\ (w.op = "state" => w.file = "bisect")
  BY <1>1, BisectInert
<1> QED BY <1>1, <1>2, BisectPlain

LEMMA CandidateSafe ==
  ASSUME HInv, Safe, mishaps' = 0 => mishaps = 0, task' = task, task = "bisect", todo = <<>>,
         NEW c \in DOMAIN commits, NEW st, NEW n, NEW m, n # "replay",
         \E k : Steps(k, Candidate(c, st), n, m, <<>>)
  PROVE  Safe'
<1> DEFINE ws == Candidate(c, st)
           pw == <<Ref(ScratchBranch, c), SetHead(ScratchBranch)>>
           co == CheckoutWrites(TreeOf(c))
           lw == <<SaveBisect(st)>>
<1>1. c \in 0 .. Len(commits')
  <2>1. Len(commits') = Len(commits) BY HowMany DEF Steps
  <2> QED BY <2>1, HowMany
<1>2. ws = pw \o co \o lw BY DEF Candidate
<1>3. IsSeq(pw) /\ Writes(pw) = {Ref(ScratchBranch, c), SetHead(ScratchBranch)} BY SomeWrites
<1>4. IsSeq(lw) /\ Writes(lw) = {SaveBisect(st)} BY SomeWrites
<1>5. IsSeq(co) /\ \A w \in Writes(co) : Inert(w, Len(commits')) /\ w.op # "state"
  BY Checkouts, InertThen
<1> HIDE DEF pw, lw, co
<1>6. IsSeq(pw \o co) /\ Writes(pw \o co) = Writes(pw) \union Writes(co) BY <1>3, <1>5, MoreWrites
<1>7. IsSeq(ws) /\ Writes(ws) = Writes(pw) \union Writes(co) \union Writes(lw)
  BY <1>2, <1>4, <1>6, MoreWrites
<1>8. \A w \in Writes(ws) : Inert(w, Len(commits')) /\ (w.op = "state" => w.file = "bisect")
  <2>1. /\ Inert(Ref(ScratchBranch, c), Len(commits')) /\ Ref(ScratchBranch, c).op = "ref"
        /\ Inert(SetHead(ScratchBranch), Len(commits')) /\ SetHead(ScratchBranch).op # "state"
        /\ Inert(SaveBisect(st), Len(commits')) /\ SaveBisect(st).file = "bisect"
    BY <1>1, BisectInert, InertThen
  <2> QED BY <1>3, <1>4, <1>5, <1>7, <2>1
<1>9. Runs(ws, n, m, <<>>) \/ (\E k : Steps(k, ws, n, m, <<>>)) OBVIOUS
<1> HIDE DEF ws
<1> QED BY <1>7, <1>8, <1>9, BisectPlain

LEMMA AdvanceSafe ==
  ASSUME HInv, Safe, mishaps' = 0 => mishaps = 0, task' = task, task = "bisect", Advance
  PROVE  Safe'
<1> DEFINE st == mem.st
           then == IF mem.run THEN "run" ELSE "idle"
<1>1. todo = <<>> /\ then # "replay" BY DEF Advance
<1>2. Suspects(st) \subseteq DOMAIN commits /\ Middle(Testable(st)) \subseteq Suspects(st)
  BY DEF Suspects, Testable, Middle
<1> HIDE DEF then
<1>3. \/ \E c \in Suspects(st) :
            Steps("advance", Candidate(c, [st EXCEPT !.current = c, !.concluded = c]), "idle", mem, <<>>)
      \/ \E c \in Middle(Testable(st)) :
            Steps("advance", Candidate(c, [st EXCEPT !.current = c]), then, mem, <<>>)
      \/ Steps("advance", <<>>, "idle", mem, <<>>)
  BY Zenon DEF Advance, then
<1> HIDE DEF st
<1>4. ASSUME NEW c \in Suspects(st),
             Steps("advance", Candidate(c, [st EXCEPT !.current = c, !.concluded = c]), "idle", mem, <<>>)
      PROVE  Safe'
  <2> DEFINE s2 == [st EXCEPT !.current = c, !.concluded = c]
  <2>1. c \in DOMAIN commits /\ "idle" # "replay" BY <1>2
  <2>2. \E k : Steps(k, Candidate(c, s2), "idle", mem, <<>>) BY <1>4
  <2> HIDE DEF s2
  <2> QED BY <1>1, <2>1, <2>2, CandidateSafe
<1>5. ASSUME NEW c \in Middle(Testable(st)),
             Steps("advance", Candidate(c, [st EXCEPT !.current = c]), then, mem, <<>>)
      PROVE  Safe'
  <2> DEFINE s2 == [st EXCEPT !.current = c]
  <2>1. c \in DOMAIN commits BY <1>2
  <2>2. \E k : Steps(k, Candidate(c, s2), then, mem, <<>>) BY <1>5
  <2> HIDE DEF s2
  <2> QED BY <1>1, <2>1, <2>2, CandidateSafe
<1>6. ASSUME Steps("advance", <<>>, "idle", mem, <<>>) PROVE Safe'
  <2>1. <<>> \in {<<>>, <<SaveBisect(st)>>} /\ "idle" # "replay" OBVIOUS
  <2>2. Runs(<<>>, "idle", mem, <<>>) \/ (\E k : Steps(k, <<>>, "idle", mem, <<>>)) BY <1>6
  <2> QED BY <1>1, <2>1, <2>2, SavedSafe
<1> QED BY <1>3, <1>4, <1>5, <1>6

LEMMA BisectResetSafe ==
  ASSUME HInv, Safe, mishaps' = 0 => mishaps = 0, task' = task, task = "bisect", BisectReset
  PROVE  Safe'
<1> DEFINE st == state["bisect"]
           pw == <<RemoveRef(ScratchBranch), SetHead(st.orig)>>
           co == CheckoutWrites(TreeOf(refs[st.orig]))
           cw == IF GetRef(st.orig) = Unborn THEN <<>> ELSE co
           lw == <<SaveBisect(NoState)>>
           ws == pw \o cw \o lw
<1>1. todo = <<>> /\ Runs(ws, "idle", NoState, <<>>) BY DEF BisectReset, Runs, Begins, Idle
<1> HIDE DEF st
<1>3. IsSeq(pw) /\ Writes(pw) = {RemoveRef(ScratchBranch), SetHead(st.orig)} BY SomeWrites
<1>4. IsSeq(lw) /\ Writes(lw) = {SaveBisect(NoState)} BY SomeWrites
<1>5. IsSeq(co) /\ \A w \in Writes(co) : Inert(w, Len(commits')) /\ w.op # "state"
  BY Checkouts, InertThen
<1> HIDE DEF pw, lw, co
<1>6. IsSeq(cw) /\ \A w \in Writes(cw) : Inert(w, Len(commits')) /\ w.op # "state"
  BY <1>5, NoWrites
<1> HIDE DEF cw
<1>7. IsSeq(pw \o cw) /\ Writes(pw \o cw) = Writes(pw) \union Writes(cw) BY <1>3, <1>6, MoreWrites
<1>8. IsSeq(ws) /\ Writes(ws) = Writes(pw) \union Writes(cw) \union Writes(lw)
  BY <1>4, <1>7, MoreWrites
<1>9. \A w \in Writes(ws) : Inert(w, Len(commits')) /\ (w.op = "state" => w.file = "bisect")
  <2>1. /\ Inert(RemoveRef(ScratchBranch), Len(commits')) /\ RemoveRef(ScratchBranch).op # "state"
        /\ Inert(SetHead(st.orig), Len(commits')) /\ SetHead(st.orig).op # "state"
        /\ Inert(SaveBisect(NoState), Len(commits')) /\ SaveBisect(NoState).file = "bisect"
    BY BisectInert, InertThen
  <2> QED BY <1>3, <1>4, <1>6, <1>8, <2>1
<1>10. "idle" # "replay" /\ (Runs(ws, "idle", NoState, <<>>) \/ (\E k : Steps(k, ws, "idle", NoState, <<>>)))
  BY <1>1
<1> HIDE DEF ws
<1> QED BY <1>1, <1>8, <1>9, <1>10, BisectPlain

LEMMA BisectsSafe ==
  ASSUME HInv, Safe, mishaps' = 0 => mishaps = 0, task' = task, Bisects
  PROVE  Safe'
<1>1. task = "bisect" BY DEF Bisects
<1>2. ASSUME NEW bad, NEW goods, BisectStart(bad, goods) PROVE Safe'
  <2> DEFINE st == [orig |-> HeadBranch, bad |-> bad, current |-> Unborn, concluded |-> Unborn,
                    tested |-> [c \in goods \union {bad} |-> IF c = bad THEN "bad" ELSE "good"]]
             m == [st |-> st, run |-> FALSE]
             ws == <<SaveBisect(st)>>
             n == "advance"
  <2>1. Runs(ws, n, m, <<>>) /\ todo = <<>> BY <1>2 DEF BisectStart, Runs, Begins, Idle
  <2>2. n # "replay" /\ ws \in {<<>>, <<SaveBisect(st)>>} OBVIOUS
  <2> HIDE DEF ws, n, m, st
  <2> QED BY <1>1, <2>1, <2>2, SavedSafe
<1>3. ASSUME NEW v, NEW c, BisectMark(v, c) PROVE Safe'
  <2> DEFINE st == MarkedState(state["bisect"], v, c)
             m == [st |-> st, run |-> FALSE]
             ws == <<SaveBisect(st)>>
             n == "advance"
  <2>1. Runs(ws, n, m, <<>>) /\ todo = <<>> BY <1>3 DEF BisectMark, Runs, Begins, Idle
  <2>2. n # "replay" /\ ws \in {<<>>, <<SaveBisect(st)>>} OBVIOUS
  <2> HIDE DEF ws, n, m, st
  <2> QED BY <1>1, <2>1, <2>2, SavedSafe
<1>4. ASSUME BisectRun PROVE Safe'
  <2>1. Runs(<<>>, "run", NoState, <<>>) /\ todo = <<>> BY <1>4 DEF BisectRun, Runs, Begins, Idle
  <2>2. "run" # "replay" /\ <<>> \in {<<>>, <<SaveBisect(NoState)>>} OBVIOUS
  <2> QED BY <1>1, <2>1, <2>2, SavedSafe
<1>5. ASSUME NEW v, RunOnce(v) PROVE Safe'
  <2> DEFINE st == MarkedState(state["bisect"], v, state["bisect"].current)
             m == [st |-> st, run |-> TRUE]
             ws == <<SaveBisect(st)>>
             n == "advance"
             i == "idle"
             none == <<>>
  <2>1. todo = <<>> /\ (Steps("run", ws, n, m, <<>>) \/ Steps("run", none, i, NoState, <<>>))
    BY <1>5 DEF RunOnce
  <2>2. /\ n # "replay" /\ ws \in {<<>>, <<SaveBisect(st)>>}
        /\ i # "replay" /\ none \in {<<>>, <<SaveBisect(st)>>}
    OBVIOUS
  <2> HIDE DEF ws, n, m, st, i, none
  <2>3. CASE Steps("run", ws, n, m, <<>>)
    <3>1. Runs(ws, n, m, <<>>) \/ (\E k : Steps(k, ws, n, m, <<>>)) BY <2>3
    <3> QED BY <1>1, <2>1, <2>2, <3>1, SavedSafe
  <2>4. CASE Steps("run", none, i, NoState, <<>>)
    <3>1. Runs(none, i, NoState, <<>>) \/ (\E k : Steps(k, none, i, NoState, <<>>)) BY <2>4
    <3> QED BY <1>1, <2>1, <2>2, <3>1, SavedSafe
  <2> QED BY <2>1, <2>3, <2>4
<1> QED BY <1>1, <1>2, <1>3, <1>4, <1>5, AdvanceSafe, BisectResetSafe, Zenon DEF Bisects

LEMMA ListIsSeq ==
  ASSUME NEW n \in Nat, NEW q, q = [i \in 1 .. n |-> q[i]]
  PROVE  IsSeq(q) /\ Len(q) = n
<1> DEFINE S == {q[i] : i \in 1 .. n}
<1>1. q \in [1 .. n -> S]
  <2>1. \A i \in 1 .. n : q[i] \in S OBVIOUS
  <2>2. q \in [1 .. n -> S] <=> (q = [i \in 1 .. n |-> q[i]] /\ \A i \in 1 .. n : q[i] \in S)
    BY Zenon
  <2> QED BY <2>1, <2>2
<1> HIDE DEF S
<1>2. q \in Seq(S) BY <1>1, SeqDef
<1>3. Len(q) = n BY <1>1, <1>2, LenProperties
<1> QED BY <1>2, <1>3, AnySeq

LEMMA ShelfInert ==
  ASSUME task = "shelves"
  PROVE  /\ \A x : Inert(RemoveShelf(x), Len(commits')) /\ RemoveShelf(x).op # "state"
         /\ \A x, y : Inert(Rename(x, y), Len(commits')) /\ Rename(x, y).op # "state"
         /\ \A t, fs : Inert(Put(t, fs), Len(commits')) /\ Put(t, fs).op # "state"
         /\ Len(commits) \in Nat =>
              \A x : /\ Inert(WriteShelf(x, Len(commits) + 1), Len(commits'))
                     /\ WriteShelf(x, Len(commits) + 1).op # "state"
<1>1. /\ \A x : RemoveShelf(x).op = "rmshelf"
      /\ \A x, y : Rename(x, y).op = "mv"
      /\ \A t, fs : Put(t, fs).op = "files"
      /\ \A x, c : WriteShelf(x, c).op = "shelf" /\ WriteShelf(x, c).commit = c
  BY DEF RemoveShelf, Rename, Put, WriteShelf
<1>2. \A w : w.op \in {"rmshelf", "mv", "files"} => Inert(w, Len(commits'))
  BY DEF Inert, WellFormed
<1>3. ASSUME Len(commits) \in Nat, NEW w, w.op = "shelf", w.commit = Len(commits) + 1
      PROVE  Inert(w, Len(commits'))
  <2>1. Len(commits) + 1 \in Nat BY <1>3
  <2> QED BY <1>3, <2>1 DEF Inert, WellFormed
<1> QED BY <1>1, <1>2, <1>3

\* A command on the shelves.
LEMMA ShelvesPlain ==
  ASSUME HInv, Safe, mishaps' = 0 => mishaps = 0, task' = task, NEW ws, NEW made,
         Runs(ws, "idle", NoState, made), IsSeq(ws), Founded(made),
         \A w \in Writes(ws) : Inert(w, Len(commits')) /\ w.op # "state"
  PROVE  Safe'
<1>1. todo = <<>> BY DEF Runs, Begins, Idle
<1>2. \A w \in Writes(ws) : Inert(w, Len(commits')) OBVIOUS
<1>3. \A w \in Writes(ws) : w.op = "state" /\ w.file = "rebase" /\ Loads(w.to) => Alike(w.to)
  OBVIOUS
<1>4. "idle" = "replay" => Alike(NoState) OBVIOUS
<1> QED BY <1>1, <1>2, <1>3, <1>4, PlainSafe

LEMMA RestoreIs ==
  ASSUME task = "shelves", NEW x
  PROVE  /\ IsSeq(RestoreShelfFiles(x))
         /\ \A w \in Writes(RestoreShelfFiles(x)) : Inert(w, Len(commits')) /\ w.op # "state"
<1> DEFINE t == TreeOf(shelves[x])
           there == {f \in Files : t[f] # NoFile}
<1>1. RestoreShelfFiles(x) = IF there = {} THEN <<>> ELSE <<Put(t, there)>> BY DEF RestoreShelfFiles
<1> HIDE DEF t, there
<1>2. /\ IsSeq(RestoreShelfFiles(x))
      /\ \A w \in Writes(RestoreShelfFiles(x)) : w = Put(t, there)
  BY <1>1, NoWrites, SomeWrites
<1> QED BY <1>2, ShelfInert

LEMMA DropIs ==
  ASSUME task = "shelves", NEW x, IsFiniteSet(DOMAIN shelves)
  PROVE  /\ IsSeq(Drop(x))
         /\ \A w \in Writes(Drop(x)) : Inert(w, Len(commits')) /\ w.op # "state"
<1> DEFINE s == Without(shelves, x)
           F == Numeric(s)
           old == ByAge(s)
           n == Cardinality(F)
           q1 == [i \in DOMAIN old |-> Rename(old[i], Tmp(i - 1))]
           q2 == [i \in DOMAIN old |-> Rename(Tmp(i - 1), Num(i - 1))]
           rw == <<RemoveShelf(x)>>
<1>1. n \in Nat
  <2>1. F \subseteq DOMAIN shelves BY DEF Numeric, Without
  <2> HIDE DEF F
  <2>2. IsFiniteSet(F) BY <2>1, FS_Subset
  <2> QED BY <2>2, FS_CardinalityType
<1>2. DOMAIN old = 1 .. n BY DEF ByAge, Listed
<1>3. Drop(x) = rw \o (q1 \o q2) BY DEF Drop, CompactShelves
<1> HIDE DEF s, F, old, n
<1>4. IsSeq(q1) /\ IsSeq(q2) /\ Len(q1) = n /\ Len(q2) = n
  <2>1. q1 = [i \in 1 .. n |-> q1[i]] BY <1>2
  <2>2. q2 = [i \in 1 .. n |-> q2[i]] BY <1>2
  <2> HIDE DEF q1, q2
  <2> QED BY <1>1, <2>1, <2>2, ListIsSeq
<1>5. \A w \in Writes(q1) \union Writes(q2) : \E y, z : w = Rename(y, z)
  BY <1>2, <1>4 DEF Writes
<1>6. IsSeq(rw) /\ Writes(rw) = {RemoveShelf(x)} BY SomeWrites
<1> HIDE DEF q1, q2, rw
<1>7. IsSeq(q1 \o q2) /\ Writes(q1 \o q2) = Writes(q1) \union Writes(q2) BY <1>4, MoreWrites
<1>8. IsSeq(Drop(x)) /\ Writes(Drop(x)) = Writes(rw) \union Writes(q1 \o q2)
  BY <1>3, <1>6, <1>7, MoreWrites
<1> QED BY <1>5, <1>6, <1>7, <1>8, ShelfInert

LEMMA StashSafe ==
  ASSUME HInv, Safe, mishaps' = 0 => mishaps = 0, task' = task, task = "shelves", CmdStash
  PROVE  Safe'
<1>0. IsFiniteSet(DOMAIN shelves) /\ Founded(<<>>) BY DEF Safe, Shape, Founded
<1>1. ASSUME StashPush PROVE Safe'
  <2> DEFINE c == NewCommit(Scanned(work), "scan", Onto(HeadCommit), 0)
             made == <<c>>
             pw == <<WriteShelf(NextShelfName, Len(commits) + 1)>>
             co == CheckoutWrites(TreeOf(HeadCommit))
             ws == pw \o co
  <2>1. Runs(ws, "idle", NoState, made) /\ todo = <<>> BY <1>1 DEF StashPush, Runs, Begins, Idle
  <2>2. Founded(made) BY <2>1, HeadIs, OntoFounded
  <2>3. IsSeq(pw) /\ Writes(pw) = {WriteShelf(NextShelfName, Len(commits) + 1)} BY SomeWrites
  <2>4. \A w \in Writes(pw) : Inert(w, Len(commits')) /\ w.op # "state"
    BY <2>3, ShelfInert, HowMany
  <2>5. IsSeq(co) /\ \A w \in Writes(co) : Inert(w, Len(commits')) /\ w.op # "state"
    BY Checkouts, InertThen
  <2> HIDE DEF pw, co
  <2>6. IsSeq(ws) /\ Writes(ws) = Writes(pw) \union Writes(co) BY <2>3, <2>5, MoreWrites
  <2>7. \A w \in Writes(ws) : Inert(w, Len(commits')) /\ w.op # "state" BY <2>4, <2>5, <2>6
  <2> HIDE DEF ws, made
  <2> QED BY <2>1, <2>2, <2>6, <2>7, ShelvesPlain
<1>2. ASSUME StashClear PROVE Safe'
  <2> DEFINE F == DOMAIN shelves
             first(x, y) == IF x[1] = y[1] THEN x[2] < y[2] ELSE x[1] = "tmp"
             all == Listed(F, {e \in F \X F : first(e[1], e[2])})
             n == Cardinality(F)
             ws == [i \in DOMAIN all |-> RemoveShelf(all[i])]
  <2>1. Runs(ws, "idle", NoState, <<>>) BY <1>2 DEF StashClear
  <2>2. n \in Nat BY <1>0, FS_CardinalityType
  <2>3. DOMAIN all = 1 .. n BY DEF Listed
  <2> HIDE DEF all, n
  <2>4. ws = [i \in 1 .. n |-> ws[i]] BY <2>3
  <2>5. \A i \in 1 .. n : ws[i] = RemoveShelf(all[i]) BY <2>3
  <2> HIDE DEF ws
  <2>6. IsSeq(ws) /\ Len(ws) = n BY <2>2, <2>4, ListIsSeq
  <2>7. \A w \in Writes(ws) : Inert(w, Len(commits')) /\ w.op # "state"
    BY <2>5, <2>6, ShelfInert DEF Writes
  <2> QED BY <1>0, <2>1, <2>6, <2>7, ShelvesPlain
<1>3. ASSUME NEW x, StashPop(x) PROVE Safe'
  <2> DEFINE rw == RestoreShelfFiles(x)
             dw == Drop(x)
             ws == rw \o dw
  <2>1. Runs(ws, "idle", NoState, <<>>) BY <1>3 DEF StashPop
  <2>2. IsSeq(rw) /\ \A w \in Writes(rw) : Inert(w, Len(commits')) /\ w.op # "state" BY RestoreIs
  <2>3. IsSeq(dw) /\ \A w \in Writes(dw) : Inert(w, Len(commits')) /\ w.op # "state" BY <1>0, DropIs
  <2> HIDE DEF rw, dw
  <2>4. IsSeq(ws) /\ Writes(ws) = Writes(rw) \union Writes(dw) BY <2>2, <2>3, MoreWrites
  <2>5. \A w \in Writes(ws) : Inert(w, Len(commits')) /\ w.op # "state" BY <2>2, <2>3, <2>4
  <2> HIDE DEF ws
  <2> QED BY <1>0, <2>1, <2>4, <2>5, ShelvesPlain
<1>4. ASSUME NEW x, StashApply(x) PROVE Safe'
  <2> DEFINE ws == RestoreShelfFiles(x)
  <2>1. Runs(ws, "idle", NoState, <<>>) BY <1>4 DEF StashApply
  <2>2. IsSeq(ws) /\ \A w \in Writes(ws) : Inert(w, Len(commits')) /\ w.op # "state" BY RestoreIs
  <2> HIDE DEF ws
  <2> QED BY <1>0, <2>1, <2>2, ShelvesPlain
<1>5. ASSUME NEW x, StashDrop(x) PROVE Safe'
  <2> DEFINE ws == Drop(x)
  <2>1. Runs(ws, "idle", NoState, <<>>) BY <1>5 DEF StashDrop
  <2>2. IsSeq(ws) /\ \A w \in Writes(ws) : Inert(w, Len(commits')) /\ w.op # "state" BY <1>0, DropIs
  <2> HIDE DEF ws
  <2> QED BY <1>0, <2>1, <2>2, ShelvesPlain
<1> QED BY <1>1, <1>2, <1>3, <1>4, <1>5 DEF CmdStash

\* Tags, notes and gc, which leave what has a name its ancestors.
LEMMA AtOnceSafe ==
  ASSUME Safe, AtOnce, UNCHANGED shelves, mishaps' = 0 => mishaps = 0, task' = task, task = "shelves",
         {tags'[k] : k \in TagNames} \subseteq Named \union {Unborn}, DOMAIN tags' = TagNames,
         swept' \subseteq DOMAIN commits,
         \A c \in Named : c \in DOMAIN commits => Ancestors(c) \intersect swept' = {}
  PROVE  Safe'
<1>1. /\ UNCHANGED <<commits, refs, head, reflog, todo, next, mem, state, shelves>>
      /\ todo = <<>> /\ tips' = tips \union Seen
  BY DEF AtOnce, Begins, Idle, repoVars, Seen, Own, Blank
<1>2. Accounted = Logged /\ Writes(todo) = {} BY <1>1, NoWrites DEF Accounted, LoggedBy
<1>3. /\ Accounted' = Accounted /\ Writes(todo)' = {} /\ Logged' = Logged /\ Standing' = Standing
  BY <1>1, <1>2 DEF Accounted, Logged, Writes, Standing, Rebasings
<1>4. DOMAIN commits = 1 .. Len(commits) /\ Len(commits) \in Nat BY HowMany
<1>5. Seen \subseteq DOMAIN commits /\ Seen \subseteq {refs[b] : b \in Branches}
  BY <1>4 DEF Seen, Own, Safe, Shape, RefsOf, Blank, Unborn, Missing
<1>6. Shape'
  BY <1>1, <1>3, <1>5 DEF Safe, Shape, Ordered, IsSeq, ParentsIn, RefsOf
<1>7. TipsHeld'
  BY <1>1, <1>2, <1>3 DEF Safe, TipsHeld, Seen
<1>8. Settling' BY <1>3 DEF Settling
<1>9. Replaceable' BY <1>1, <1>3 DEF Safe, Replaceable
<1>10. Unswept'
  <2>1. Named' \subseteq Named \union {Unborn}
    <3>1. NamedBy(Writes(todo)) = {} /\ NamedBy(Writes(todo))' = {}
      BY <1>2, <1>3 DEF NamedBy, LoggedBy
    <3>2. /\ {refs[b] : b \in Branches}' = {refs[b] : b \in Branches}
          /\ {shelves[x] : x \in DOMAIN shelves}' = {shelves[x] : x \in DOMAIN shelves}
          /\ {tags[k] : k \in TagNames}' = {tags'[k] : k \in TagNames}
      BY <1>1
    <3> QED BY <1>1, <1>3, <1>5, <3>1, <3>2 DEF Named
  <2>2. ASSUME NEW c \in Named PROVE Whole(c)'
    <3>1. commits' = commits BY <1>1
    <3> QED BY <3>1, AncestorsSame DEF Whole
  <2>3. Whole(Unborn)' BY <1>1, <1>4 DEF Whole, Unborn
  <2> QED BY <1>1, <2>1, <2>2, <2>3 DEF Unswept
<1>11. ASSUME mishaps' = 0 PROVE Unhurt'
  <2>1. Unhurt BY <1>11 DEF Safe
  <2>2. Seen \subseteq Logged BY <1>2, <2>1 DEF Unhurt, Seen, Own, Kept
  <2> QED BY <1>1, <1>2, <1>3, <2>1, <2>2 DEF Unhurt
<1> QED BY <1>6, <1>7, <1>8, <1>9, <1>10, <1>11 DEF Safe

\* At rest, whatever has a name and is a commit is a root of gc's.
LEMMA RootsAreNamed ==
  ASSUME Safe, todo = <<>>
  PROVE  Named \intersect DOMAIN commits = CollectRoots
<1>1. Accounted = Logged /\ NamedBy(Writes(todo)) = {}
  BY NoWrites DEF Accounted, NamedBy, LoggedBy
<1>2. tips \subseteq Logged \union {refs[b] : b \in Branches}
  BY <1>1 DEF Safe, TipsHeld, Own
<1> QED BY <1>1, <1>2 DEF Named, CollectRoots, Logged

\* An ancestor of a commit is one.
LEMMA AncestorsOlder ==
  ASSUME Safe, NEW c \in DOMAIN commits
  PROVE  c \in Ancestors(c) /\ Ancestors(c) \subseteq DOMAIN commits
<1>1. Ordered(commits) /\ DOMAIN commits = 1 .. Len(commits) /\ Len(commits) \in Nat
  BY HowMany DEF Safe, Shape
<1>2. c \in Lineage(commits, c) /\ Lineage(commits, c) \subseteq 1 .. c BY <1>1, LineageIs
<1> QED BY <1>1, <1>2, AncestorsAre

LEMMA GCSafe ==
  ASSUME Safe, mishaps' = 0 => mishaps = 0, task' = task, task = "shelves", GC
  PROVE  Safe'
<1>1. AtOnce /\ UNCHANGED <<shelves, tags>> /\ todo = <<>> BY DEF GC, AtOnce, Begins, Idle
<1>2. swept' = swept \union (DOMAIN commits \ Reachable) BY DEF GC
<1>3. ASSUME NEW c \in Named, c \in DOMAIN commits PROVE Ancestors(c) \intersect swept' = {}
  <2>1. c \in CollectRoots BY <1>1, <1>3, RootsAreNamed
  <2>2. Ancestors(c) \subseteq Reachable BY <2>1 DEF Reachable
  <2>3. Ancestors(c) \intersect swept = {} BY <1>3 DEF Safe, Unswept, Whole
  <2> QED BY <1>2, <2>2, <2>3
<1>4. swept' \subseteq DOMAIN commits BY <1>2 DEF Safe, Unswept
<1>5. {tags'[k] : k \in TagNames} \subseteq Named \union {Unborn} /\ DOMAIN tags' = TagNames
  BY <1>1 DEF Named, Safe, Shape
<1> QED BY <1>1, <1>3, <1>4, <1>5, AtOnceSafe

LEMMA TagSafe ==
  ASSUME Safe, mishaps' = 0 => mishaps = 0, task' = task, task = "shelves", CmdTag \/ CmdNotes
  PROVE  Safe'
<1>1. /\ AtOnce /\ UNCHANGED <<shelves, swept>>
      /\ tags' = tags \/ \E k \in TagNames, c \in tips \union {Unborn} : tags' = [tags EXCEPT ![k] = c]
  BY DEF CmdTag, CmdNotes, TagCreate, DeleteTag, Note
<1>2. \A c \in Named : c \in DOMAIN commits => Ancestors(c) \intersect swept' = {}
  BY <1>1 DEF Safe, Unswept, Whole
<1>3. swept' \subseteq DOMAIN commits BY <1>1 DEF Safe, Unswept
<1>4. {tags'[k] : k \in TagNames} \subseteq Named \union {Unborn} /\ DOMAIN tags' = TagNames
  <2>1. DOMAIN tags = TagNames BY DEF Safe, Shape
  <2>2. CASE tags' = tags BY <2>1, <2>2 DEF Named
  <2>3. ASSUME NEW k \in TagNames, NEW c \in tips \union {Unborn}, tags' = [tags EXCEPT ![k] = c]
        PROVE  {tags'[j] : j \in TagNames} \subseteq Named \union {Unborn} /\ DOMAIN tags' = TagNames
    <3>1. \A j \in TagNames : tags'[j] \in {tags[j], c} BY <2>1, <2>3
    <3> QED BY <2>1, <2>3, <3>1 DEF Named
  <2> QED BY <1>1, <2>2, <2>3
<1> QED BY <1>1, <1>2, <1>3, <1>4, AtOnceSafe

-----------------------------------------------------------------------------
(* A write, a kill, an edit.                                                *)

\* What a write does to the shelves, and leaves to be named.
LEMMA ShelvesBeside ==
  ASSUME NEW w, Beside(w), IsFiniteSet(DOMAIN shelves)
  PROVE  /\ IsFiniteSet(DOMAIN shelves')
         /\ \A x \in DOMAIN shelves' :
              \/ \E y \in DOMAIN shelves : shelves'[x] = shelves[y]
              \/ w.op = "shelf" /\ shelves'[x] = w.commit
<1>1. CASE shelves' = shelves BY <1>1
<1>2. CASE w.op = "shelf" /\ shelves' = With(shelves, w.name, w.commit)
  <2>1. DOMAIN shelves' = DOMAIN shelves \union {w.name} BY <1>2 DEF With
  <2>2. IsFiniteSet(DOMAIN shelves \union {w.name}) BY FS_AddElement
  <2>3. \A x \in DOMAIN shelves' : shelves'[x] = IF x = w.name THEN w.commit ELSE shelves[x]
    BY <1>2 DEF With
  <2> QED BY <1>2, <2>1, <2>2, <2>3
<1>3. CASE shelves' = Without(shelves, w.name)
  <2>1. DOMAIN shelves' = DOMAIN shelves \ {w.name} BY <1>3 DEF Without
  <2>2. IsFiniteSet(DOMAIN shelves \ {w.name}) BY FS_RemoveElement
  <2>3. \A x \in DOMAIN shelves' : shelves'[x] = shelves[x] BY <1>3 DEF Without
  <2> QED BY <2>1, <2>2, <2>3
<1>4. CASE shelves' = Renamed(shelves, w.from, w.to)
  <2> DEFINE D == DOMAIN shelves
             E == {IF y = w.from THEN w.to ELSE y : y \in D}
  <2>1. shelves' = [x \in E |-> IF x = w.to /\ w.from \in D THEN shelves[w.from] ELSE shelves[x]]
    BY <1>4 DEF Renamed
  <2>2. DOMAIN shelves' = E BY <2>1
  <2>3. IsFiniteSet(E)
    <3>1. IsFiniteSet(D \union {w.to}) BY FS_AddElement
    <3>2. E \subseteq D \union {w.to} OBVIOUS
    <3> HIDE DEF E, D
    <3> QED BY <3>1, <3>2, FS_Subset
  <2>4. ASSUME NEW x \in E PROVE \E y \in D : shelves'[x] = shelves[y]
    <3>1. shelves'[x] = IF x = w.to /\ w.from \in D THEN shelves[w.from] ELSE shelves[x] BY <2>1
    <3>2. x \in D \/ (x = w.to /\ w.from \in D) OBVIOUS
    <3> QED BY <3>1, <3>2
  <2> QED BY <2>2, <2>3, <2>4
<1> QED BY <1>1, <1>2, <1>3, <1>4 DEF Beside

LEMMA WriteSafe ==
  ASSUME Safe, Write, Meanwhile
  PROVE  Safe'
<1>0. IsSeq(todo) BY DEF Safe, Shape
<1>1. PICK w, back, rest :
        /\ Writes(todo) = {w} \union rest /\ Writes(todo') = back \union rest /\ IsSeq(todo')
        /\ OneWrite(w, back) /\ Beside(w)
        /\ next' = next /\ commits' = commits /\ (next # "idle" => mem' = mem)
  BY <1>0, WriteEffect
<1>2. UNCHANGED <<tags, swept, tips, task, mishaps>> BY DEF Write, Meanwhile
<1>3. \A v \in back : v.op = "files" BY <1>1, WhatIsLeft
<1> DEFINE U == Writes(todo)
           P == Writes(todo')
           lost == IF w.op = "log" THEN {w.old, w.commit} ELSE {}
<1>4. /\ w \in U /\ rest \subseteq U /\ rest \subseteq P /\ Writes(todo)' = P
      /\ \A v \in U : v = w \/ v \in rest
      /\ \A v \in P : v \in U \/ v.op = "files"
      /\ \A v \in P : v.op # "files" => v \in rest
  BY <1>1, <1>3 DEF Writes
<1>5. WellFormed(w, Len(commits)) /\ \A v \in P : WellFormed(v, Len(commits))
  BY <1>4 DEF Safe, Shape, WellFormed
<1> HIDE DEF U, P
<1>6. LoggedBy(U) = lost \union LoggedBy(P)
  <2>1. LoggedBy(P) \subseteq LoggedBy(U) /\ lost \subseteq LoggedBy(U)
    BY <1>4 DEF LoggedBy
  <2>2. LoggedBy(U) \subseteq lost \union LoggedBy(P) BY <1>4 DEF LoggedBy
  <2> QED BY <2>1, <2>2
<1>7. Logged' = Logged \union (lost \ {Unborn})
  <2>1. CASE w.op = "log"
    <3> DEFINE b == w.branch
               A == lost \ {Unborn}
    <3>1. reflog' = reflog \union {<<b, x>> : x \in A} BY <1>1, <2>1 DEF Beside, AppendReflog
    <3> HIDE DEF A
    <3>2. \A x : <<b, x>>[2] = x OBVIOUS
    <3>3. {e[2] : e \in reflog'} = {e[2] : e \in reflog} \union A
      <4> DEFINE N == {<<b, x>> : x \in A}
      <4>1. {e[2] : e \in N} = A BY <3>2
      <4>2. reflog' = reflog \union N BY <3>1
      <4> HIDE DEF N
      <4> QED BY <4>1, <4>2
    <3> QED BY <3>3 DEF Logged, A
  <2>2. CASE w.op # "log" BY <1>1, <2>2 DEF Beside, Logged
  <2> QED BY <2>1, <2>2
<1> HIDE DEF lost
<1>8. Accounted = Logged \union LoggedBy(U) /\ Accounted' = Logged' \union LoggedBy(P)
  BY <1>4 DEF Accounted, LoggedBy, U
<1>9. /\ Accounted \union Blank = Accounted' \union Blank /\ Accounted' \subseteq Accounted
      /\ Logged \subseteq Logged'
  BY <1>6, <1>7, <1>8 DEF Blank
<1>10. /\ refs' \in RefsOf(commits)
       /\ \A b \in Branches : \/ refs'[b] = refs[b]
                              \/ w.op = "ref" /\ w.branch = b /\ refs'[b] = w.commit
                              \/ w.op = "rmref" /\ w.branch = b /\ refs'[b] = Missing
  <2>0. refs \in RefsOf(commits) BY DEF Safe, Shape
  <2>1. CASE w.op = "ref"
    <3>1. refs' = [refs EXCEPT ![w.branch] = w.commit] BY <1>1, <2>1 DEF OneWrite
    <3>2. w.commit \in 0 .. Len(commits) BY <1>5, <2>1 DEF WellFormed
    <3> QED BY <2>0, <2>1, <3>1, <3>2 DEF RefsOf
  <2>2. CASE w.op = "rmref"
    <3>1. refs' = [refs EXCEPT ![w.branch] = Missing] BY <1>1, <2>2 DEF OneWrite
    <3> QED BY <2>0, <2>2, <3>1 DEF RefsOf
  <2>3. CASE w.op \notin {"ref", "rmref"}
    <3>1. refs' = refs BY <1>1, <2>3 DEF OneWrite
    <3> QED BY <2>0, <3>1
  <2> QED BY <2>1, <2>2, <2>3
<1>11. Standing' \subseteq Standing
  <2> DEFINE S(s, W) == {s["rebase"]} \union {v.to : v \in {v \in W : v.op = "state" /\ v.file = "rebase"}}
  <2>1. state'["rebase"] \in S(state, U)
    <3>1. CASE w.op = "state"
      <4>1. state' = [state EXCEPT ![w.file] = w.to] BY <1>1, <3>1 DEF OneWrite
      <4>2. state'["rebase"] = IF w.file = "rebase" THEN w.to ELSE state["rebase"]
        BY <4>1 DEF Safe, Shape, StateFiles
      <4> QED BY <1>4, <3>1, <4>2
    <3>2. CASE w.op # "state" BY <1>1, <3>2 DEF OneWrite
    <3> QED BY <3>1, <3>2
  <2>2. S(state', P) \subseteq S(state, U) BY <1>4, <2>1
  <2>3. next = "replay" => mem' = mem BY <1>1
  <2> QED BY <1>1, <1>4, <2>2, <2>3 DEF Standing, Rebasings, U
<1>12. Shape'
  <2>1. task # "bisect" => head' \in Branches \union {Torn}
    BY <1>1, <1>5 DEF OneWrite, Safe, Shape, WellFormed
  <2>2. DOMAIN state' = StateFiles BY <1>1 DEF OneWrite, Safe, Shape
  <2>3. IsFiniteSet(DOMAIN shelves') BY <1>1, ShelvesBeside DEF Safe, Shape
  <2>4. (\A v \in Writes(todo) : WellFormed(v, Len(commits)))'
    BY <1>1, <1>2, <1>4, <1>5 DEF WellFormed
  <2>5. Ordered(commits') /\ RefsOf(commits') = RefsOf(commits) BY <1>1 DEF Safe, Shape
  <2> QED BY <1>1, <1>2, <1>10, <2>1, <2>2, <2>3, <2>4, <2>5 DEF Safe, Shape
<1>13. \A b \in Branches : (\A v \in U : ~Moves(v, b)) => refs'[b] = refs[b] /\ (\A v \in P : ~Moves(v, b))
  BY <1>4, <1>10 DEF Moves
<1>14. TipsHeld'
  <2> SUFFICES ASSUME NEW t \in tips
               PROVE  t \in Accounted' \/ \E b \in Own : refs'[b] = t /\ \A v \in P : ~Moves(v, b)
    BY <1>2, <1>4 DEF TipsHeld, Moves
  <2>1. t \notin Blank
    <3>1. t \in 1 .. Len(commits) /\ Len(commits) \in Nat BY HowMany DEF Safe, Shape
    <3> QED BY <3>1 DEF Blank, Unborn, Missing
  <2>2. CASE t \in Accounted BY <1>9, <2>1, <2>2
  <2>3. CASE \E b \in Own : refs[b] = t /\ \A v \in U : ~Moves(v, b) BY <1>13, <2>3 DEF Own
  <2> QED BY <2>2, <2>3 DEF Safe, TipsHeld, U
<1>15. ASSUME NEW b \in Kept, NEW X, refs[b] \in Accounted \union Blank \union X
       PROVE  refs'[b] \in Accounted' \union Blank \union X
  <2>1. w.op = "ref" /\ w.branch = b => w.commit \in Accounted \union Blank
    BY <1>4 DEF Safe, Settling, U
  <2> QED BY <1>9, <1>10, <1>15, <2>1 DEF Kept, Blank
<1>16. Settling'
  <2> SUFFICES ASSUME NEW v \in P
               PROVE  /\ \A b \in Own : Moves(v, b) => refs'[b] \in Accounted' \union Blank
                      /\ v.op = "ref" /\ v.branch \in Kept => v.commit \in Accounted' \union Blank
    BY <1>4 DEF Settling, Moves
  <2>1. CASE v.op = "files" BY <2>1 DEF Moves
  <2>2. CASE v \in U
    <3>1. /\ \A b \in Own : Moves(v, b) => refs[b] \in Accounted \union Blank \union {}
          /\ v.op = "ref" /\ v.branch \in Kept => v.commit \in Accounted \union Blank
      BY <2>2 DEF Safe, Settling, U
    <3> QED BY <1>9, <1>15, <3>1 DEF Own, Kept
  <2> QED BY <1>4, <2>1, <2>2
<1>17. Replaceable'
  <2> SUFFICES ASSUME NEW s \in Standing
               PROVE  /\ task = "rebase" /\ {"branch", "orig"} \subseteq DOMAIN s /\ s.branch \in Branches
                      /\ s.branch \in Kept => refs'[s.branch] \in Accounted' \union Blank \union {s.orig}
    BY <1>2, <1>11 DEF Replaceable
  <2>1. /\ task = "rebase" /\ {"branch", "orig"} \subseteq DOMAIN s /\ s.branch \in Branches
        /\ s.branch \in Kept => refs[s.branch] \in Accounted \union Blank \union {s.orig}
    BY DEF Safe, Replaceable
  <2> QED BY <1>15, <2>1
<1>18. Unswept'
  <2>1. Named' \subseteq Named \union Blank
    <3>1. {refs[b] : b \in Branches}' \subseteq {refs[b] : b \in Branches} \union NamedBy(U) \union Blank
      BY <1>4, <1>10 DEF NamedBy, Blank
    <3>2. {shelves[x] : x \in DOMAIN shelves}' \subseteq {shelves[x] : x \in DOMAIN shelves} \union NamedBy(U)
      <4>1. \A x \in DOMAIN shelves' :
              \/ \E y \in DOMAIN shelves : shelves'[x] = shelves[y]
              \/ w.op = "shelf" /\ shelves'[x] = w.commit
        BY <1>1, ShelvesBeside DEF Safe, Shape
      <4> QED BY <1>4, <4>1 DEF NamedBy
    <3>3. Logged' \subseteq Logged \union NamedBy(U) BY <1>6, <1>7 DEF NamedBy
    <3>4. NamedBy(Writes(todo))' \subseteq NamedBy(U)
      <4>1. NamedBy(Writes(todo))' = NamedBy(P) BY <1>4 DEF NamedBy, LoggedBy
      <4>2. LoggedBy(P) \subseteq LoggedBy(U) BY <1>6
      <4> QED BY <1>4, <4>1, <4>2 DEF NamedBy
    <3>5. {tags[k] : k \in TagNames}' = {tags[k] : k \in TagNames} /\ tips' = tips BY <1>2
    <3> QED BY <3>1, <3>2, <3>3, <3>4, <3>5 DEF Named, U
  <2>2. ASSUME NEW c \in Named PROVE Whole(c)'
    <3>1. Whole(c) BY DEF Safe, Unswept
    <3> QED BY <1>1, <1>2, <3>1 DEF Whole, Ancestors
  <2>3. \A c \in Blank : c \notin DOMAIN commits BY HowMany DEF Blank, Unborn, Missing
  <2>4. \A c \in Blank : Whole(c)' BY <1>1, <2>3 DEF Whole
  <2> QED BY <1>1, <1>2, <2>1, <2>2, <2>4 DEF Safe, Unswept
<1>19. ASSUME mishaps' = 0 PROVE Unhurt'
  <2>1. Unhurt BY <1>2, <1>19 DEF Safe
  <2>2. tips' \subseteq Logged' BY <1>2, <1>9, <2>1 DEF Unhurt
  <2>3. \A b \in Kept : refs'[b] \in Accounted' \union Blank
    <3>1. \A b \in Kept : refs[b] \in Accounted \union Blank \union {} BY <2>1 DEF Unhurt
    <3> QED BY <1>15, <3>1
  <2>4. ASSUME NEW s \in Standing, s.branch \in Kept
        PROVE  /\ refs'[s.branch] \in Logged' \union Blank
               /\ \A v \in P : v.op = "ref" /\ v.branch = s.branch => v.commit \in Logged' \union Blank
    <3>1. /\ refs[s.branch] \in Logged \union Blank
          /\ \A v \in U : v.op = "ref" /\ v.branch = s.branch => v.commit \in Logged \union Blank
      BY <2>1, <2>4 DEF Unhurt, U
    <3> QED BY <1>4, <1>9, <1>10, <2>4, <3>1 DEF Kept, Blank
  <2> QED BY <1>4, <1>11, <2>2, <2>3, <2>4 DEF Unhurt
<1> QED BY <1>12, <1>14, <1>16, <1>17, <1>18, <1>19 DEF Safe

LEMMA StillSafe ==
  ASSUME Safe, UNCHANGED <<commits, refs, head, reflog, todo, next, mem, state, shelves, tags,
                           swept, tips, task, mishaps>>
  PROVE  Safe'
<1>1. Accounted' = Accounted /\ Logged' = Logged /\ Standing' = Standing /\ Named' = Named
  BY DEF Accounted, Logged, LoggedBy, Writes, Standing, Rebasings, Named, NamedBy
<1>2. Shape'
  BY DEF Safe, Shape, Ordered, IsSeq, Writes, ParentsIn, RefsOf, WellFormed
<1>3. TipsHeld' BY <1>1 DEF Safe, TipsHeld, Writes, Moves
<1>4. Settling' BY <1>1 DEF Safe, Settling, Writes, Moves
<1>5. Replaceable' BY <1>1 DEF Safe, Replaceable
<1>6. Unswept'
  <2>1. commits' = commits /\ swept' = swept OBVIOUS
  <2>2. ASSUME NEW c, Whole(c) PROVE Whole(c)' BY <2>1, <2>2, AncestorsSame DEF Whole
  <2> QED BY <1>1, <2>2 DEF Safe, Unswept
<1>7. mishaps' = 0 => Unhurt' BY <1>1 DEF Safe, Unhurt, Writes
<1> QED BY <1>2, <1>3, <1>4, <1>5, <1>6, <1>7 DEF Safe

\* A first kill loses nothing: what the command had still to log is on record.
LEMMA CrashSafe ==
  ASSUME Safe, mishaps = 0, Crash
  PROVE  Safe'
<1> DEFINE w == Head(todo)
<1>1. /\ todo' = <<>> /\ next' = "idle" /\ UNCHANGED <<commits, reflog, tags, swept, tips, task>>
      /\ UNCHANGED <<refs, head, state, shelves>> \/ (todo # <<>> /\ TornWrite(w))
      /\ mishaps' = 1
  BY DEF Crash, Die
<1>2. Unhurt BY DEF Safe
<1>3. Writes(todo)' = {} /\ Logged' = Logged /\ Accounted' = Logged
  BY <1>1, NoWrites DEF Logged, Accounted, LoggedBy, Writes
<1>4. todo # <<>> => WellFormed(w, Len(commits)) BY FirstWrite DEF Safe, Shape
<1>5. /\ refs' \in RefsOf(commits) /\ \A b \in Branches : refs'[b] \in {refs[b], Unborn}
      /\ head' \in {head, Torn} /\ DOMAIN state' = StateFiles
      /\ state'["rebase"] \in {state["rebase"], TornState}
      /\ \/ shelves' = shelves
         \/ \E n, c : c \in Nat /\ shelves' = With(shelves, n, -c)
  <2>1. refs \in RefsOf(commits) /\ DOMAIN state = StateFiles /\ Len(commits) \in Nat
    BY HowMany DEF Safe, Shape
  <2>2. CASE UNCHANGED <<refs, head, state, shelves>> BY <2>1, <2>2
  <2>3. CASE w.op = "ref" /\ WriteRef(w.branch, Unborn) /\ UNCHANGED <<head, state, shelves>>
    <3>1. refs' = [refs EXCEPT ![w.branch] = Unborn] BY <2>3 DEF WriteRef
    <3>2. /\ refs \in [Branches -> {Missing} \union 0 .. Len(commits)]
          /\ 0 \in {Missing} \union 0 .. Len(commits)
      BY <2>1 DEF RefsOf
    <3> HIDE DEF w
    <3>3. /\ refs' \in [Branches -> {Missing} \union 0 .. Len(commits)]
          /\ \A b \in Branches : refs'[b] \in {refs[b], Unborn}
      BY <3>1, <3>2 DEF Unborn
    <3>4. refs' \in RefsOf(commits) BY <1>1, <3>3 DEF RefsOf
    <3> QED BY <2>1, <2>3, <3>3, <3>4
  <2>4. CASE head' = Torn /\ UNCHANGED <<refs, state, shelves>> BY <2>1, <2>4
  <2>5. CASE state' = [state EXCEPT ![w.file] = TornState] /\ UNCHANGED <<refs, head, shelves>>
    BY <2>1, <2>5 DEF StateFiles
  <2>6. CASE todo # <<>> /\ w.op = "shelf" /\ shelves' = With(shelves, w.name, -w.commit) /\ UNCHANGED <<refs, head, state>>
    BY <1>4, <2>1, <2>6 DEF WellFormed
  <2> QED BY <1>1, <2>2, <2>3, <2>4, <2>5, <2>6 DEF TornWrite
<1>6. Standing' \subseteq Standing
  BY <1>1, <1>3, <1>5 DEF Standing, Rebasings, Loads
<1>7. /\ IsFiniteSet(DOMAIN shelves')
      /\ \A x \in DOMAIN shelves' : \/ \E y \in DOMAIN shelves : shelves'[x] = shelves[y]
                                   \/ \E c \in Nat : shelves'[x] = -c
  <2>1. IsFiniteSet(DOMAIN shelves) BY DEF Safe, Shape
  <2>2. CASE shelves' = shelves BY <2>1, <2>2
  <2>3. ASSUME NEW n, NEW c \in Nat, shelves' = With(shelves, n, -c)
        PROVE  /\ DOMAIN shelves' = DOMAIN shelves \union {n}
               /\ \A x \in DOMAIN shelves' : \/ \E y \in DOMAIN shelves : shelves'[x] = shelves[y]
                                            \/ \E k \in Nat : shelves'[x] = -k
    <3>1. DOMAIN shelves' = DOMAIN shelves \union {n} BY <2>3 DEF With
    <3>2. \A x \in DOMAIN shelves' : shelves'[x] = IF x = n THEN -c ELSE shelves[x] BY <2>3 DEF With
    <3> QED BY <3>1, <3>2
  <2>4. \A n : IsFiniteSet(DOMAIN shelves \union {n}) BY <2>1, FS_AddElement
  <2> QED BY <1>5, <2>2, <2>3, <2>4
<1>8. Shape'
  BY <1>1, <1>3, <1>5, <1>7, NoWrites DEF Safe, Shape, Ordered, IsSeq, ParentsIn
<1>9. TipsHeld' BY <1>1, <1>2, <1>3 DEF TipsHeld, Unhurt
<1>10. Settling' BY <1>3 DEF Settling
<1>11. Replaceable'
  <2> SUFFICES ASSUME NEW s \in Standing
               PROVE  /\ task = "rebase" /\ {"branch", "orig"} \subseteq DOMAIN s /\ s.branch \in Branches
                      /\ s.branch \in Kept => refs'[s.branch] \in Logged \union Blank \union {s.orig}
    BY <1>1, <1>3, <1>6 DEF Replaceable
  <2>1. task = "rebase" /\ {"branch", "orig"} \subseteq DOMAIN s /\ s.branch \in Branches
    BY DEF Safe, Replaceable
  <2>2. s.branch \in Kept => refs[s.branch] \in Logged \union Blank BY <1>2 DEF Unhurt
  <2> QED BY <1>5, <2>1, <2>2 DEF Blank
<1>12. Unswept'
  <2>1. Named' \subseteq Named \union Blank \union {-c : c \in Nat}
    <3>1. {refs[b] : b \in Branches}' \subseteq {refs[b] : b \in Branches} \union Blank
      BY <1>5 DEF Blank
    <3>2. {shelves[x] : x \in DOMAIN shelves}' \subseteq
            {shelves[x] : x \in DOMAIN shelves} \union {-c : c \in Nat}
      BY <1>7
    <3>3. {tags[k] : k \in TagNames}' = {tags[k] : k \in TagNames} /\ tips' = tips BY <1>1
    <3>4. NamedBy(Writes(todo))' = {} BY <1>3 DEF NamedBy, LoggedBy
    <3> QED BY <1>3, <3>1, <3>2, <3>3, <3>4 DEF Named
  <2>2. ASSUME NEW c \in Named PROVE Whole(c)'
    <3>1. Whole(c) BY DEF Safe, Unswept
    <3>2. commits' = commits /\ swept' = swept BY <1>1
    <3> QED BY <3>1, <3>2, AncestorsSame DEF Whole
  <2>3. \A c \in Blank \union {-k : k \in Nat} : c \notin DOMAIN commits
    BY HowMany DEF Blank, Unborn, Missing
  <2>4. \A c \in Blank \union {-k : k \in Nat} : Whole(c)' BY <1>1, <2>3 DEF Whole
  <2> QED BY <1>1, <2>1, <2>2, <2>4 DEF Safe, Unswept
<1> QED BY <1>1, <1>8, <1>9, <1>10, <1>11, <1>12 DEF Safe

LEMMA InitTInv == Init => TInv
<1> SUFFICES ASSUME Init PROVE Safe BY InitHInv DEF TInv
<1>1. PICK s \in Starts :
        /\ commits = s.commits
        /\ refs = [b \in Branches |-> IF b \in DOMAIN s.refs THEN s.refs[b] ELSE Missing]
        /\ shelves = s.shelves
        /\ reflog = UNION {{b} \X Ancestors(s.refs[b]) : b \in DOMAIN s.refs}
  BY DEF Init
<1>2. /\ todo = <<>> /\ next = "idle" /\ state = [f \in StateFiles |-> NoState] /\ head = Main
      /\ tags = [n \in TagNames |-> Unborn] /\ swept = {} /\ tips = {}
  BY DEF Init
<1>3. Writes(todo) = {} /\ IsSeq(todo) BY <1>2, NoWrites
<1>4. Ordered(commits) /\ DOMAIN commits = 1 .. Len(commits) /\ Len(commits) \in Nat
  <2>1. IsSeq(commits) BY <1>1, StartsAssumption, AnySeq
  <2>2. DOMAIN commits = 1 .. Len(commits) /\ Len(commits) \in Nat BY <2>1, DomainIs
  <2> QED BY <1>1, <2>1, <2>2, StartsAssumption DEF Ordered, ParentsIn
<1>5. \A b \in Branches : refs[b] = Missing \/ (b \in DOMAIN s.refs /\ refs[b] = s.refs[b] /\ refs[b] \in DOMAIN commits)
  BY <1>1, StartsAssumption
<1>6. \A b \in Branches : refs[b] \in Accounted \union Blank
  <2> SUFFICES ASSUME NEW b \in Branches, refs[b] # Missing PROVE refs[b] \in Logged
    BY DEF Accounted, Blank
  <2>1. b \in DOMAIN s.refs /\ refs[b] = s.refs[b] /\ refs[b] \in 1 .. Len(commits) BY <1>4, <1>5
  <2>2. refs[b] \in Ancestors(s.refs[b]) BY <1>4, <2>1, LineageIs, AncestorsAre
  <2>3. <<b, refs[b]>> \in reflog BY <1>1, <2>1, <2>2
  <2>4. <<b, refs[b]>>[2] = refs[b] OBVIOUS
  <2> QED BY <2>3, <2>4 DEF Logged
<1>7. Standing = {} BY <1>2, <1>3 DEF Standing, Rebasings, Loads, StateFiles
<1>8. Shape
  <2>1. refs \in RefsOf(commits) BY <1>1, <1>4, <1>5 DEF RefsOf
  <2>2. IsFiniteSet(DOMAIN shelves) BY <1>1, StartsAssumption
  <2> QED BY <1>2, <1>3, <1>4, <2>1, <2>2, FilesAssumption DEF Shape
<1>9. Unswept BY <1>2 DEF Unswept, Whole
<1>10. Unhurt BY <1>2, <1>6, <1>7 DEF Unhurt, Kept
<1> QED BY <1>2, <1>3, <1>7, <1>8, <1>9, <1>10 DEF Safe, TipsHeld, Settling, Replaceable

LEMMA NextTInv == TInv /\ [Next]_vars => TInv'
<1> SUFFICES ASSUME TInv, [Next]_vars PROVE TInv' OBVIOUS
<1>1. HInv /\ HInv' /\ mishaps \in Nat BY NextHInv DEF TInv, HInv
<1>2. CASE UNCHANGED vars
  <2>1. mishaps' = mishaps /\ (Safe => Safe') BY <1>2, StillSafe DEF vars, repoVars, cmdVars
  <2> QED BY <1>1, <2>1 DEF TInv
<1>3. CASE Next
  <2>1. task' = task /\ mishaps' \in {mishaps, mishaps + 1}
    BY <1>3 DEF Next, Edit, Crash, Switch, Meanwhile
  <2> SUFFICES ASSUME mishaps' <= 1 PROVE Safe' BY <1>1 DEF TInv
  <2>2. Safe /\ (mishaps' = 0 => mishaps = 0) BY <1>1, <2>1 DEF TInv
  <2>3. ASSUME NEW f, NEW v, Edit(f, v) PROVE Safe'
    <3>1. UNCHANGED <<commits, refs, head, reflog, todo, next, mem, state, shelves, tags, swept,
                      tips, task, mishaps>>
      BY <2>3 DEF Edit, cmdVars
    <3> QED BY <2>2, <3>1, StillSafe
  <2>4. ASSUME Write, Meanwhile PROVE Safe' BY <2>2, <2>4, WriteSafe
  <2>5. ASSUME Crash PROVE Safe'
    <3>1. mishaps = 0 BY <1>1, <2>5 DEF Crash
    <3> QED BY <2>2, <2>5, <3>1, CrashSafe
  <2>6. ASSUME task # "bisect", CmdCommit PROVE Safe' BY <1>1, <2>1, <2>2, <2>6, CommitSafe
  <2>7. ASSUME NEW b, Switch(b) PROVE Safe' BY <1>1, <2>1, <2>2, <2>7, CheckoutSafe DEF Switch
  <2>8. ASSUME NEW b, NEW force, DeleteBranch(b, force) PROVE Safe'
    BY <1>1, <2>1, <2>2, <2>8, DeleteSafe
  <2>9. ASSUME Rebases PROVE Safe'
    <3>1. task = "rebase" BY <2>9 DEF Rebases
    <3> QED
      BY <1>1, <2>1, <2>2, <2>9, <3>1, RebaseStartSafe, CherrySafe, ContinueSafe, AbortSafe,
         ReplaySafe, FinishSafe, Zenon DEF Rebases
  <2>10. ASSUME Bisects PROVE Safe' BY <1>1, <2>1, <2>2, <2>10, BisectsSafe
  <2>11. ASSUME Stashes PROVE Safe'
    <3>1. task = "shelves" /\ task # "bisect" BY <2>11 DEF Stashes
    <3>2. ASSUME CmdReset PROVE Safe' BY <1>1, <2>1, <2>2, <3>1, <3>2, ResetSafe DEF CmdReset
    <3>3. ASSUME CmdAmend PROVE Safe' BY <1>1, <2>1, <2>2, <3>1, <3>3, AmendSafe DEF CmdAmend
    <3> QED BY <1>1, <2>1, <2>2, <2>11, <3>1, <3>2, <3>3, StashSafe, TagSafe, GCSafe DEF Stashes
  <2> QED
    BY <1>3, <2>3, <2>4, <2>5, <2>6, <2>7, <2>8, <2>9, <2>10, <2>11, Zenon DEF Next
<1> QED BY <1>2, <1>3

\* What a branch named when a command began is never lost to a reset, an
\* amendment, a rebase, a removal of the branch or gc, whatever the user does,
\* with at most one command killed on the way: writeRef and AppendReflog, apart
\* as they are, leave no moment at which a single kill takes it.
THEOREM TipsKept == Spec => [](mishaps <= 1 => TipsSurvive)
<1>1. TInv => (mishaps <= 1 => TipsSurvive)
  <2> SUFFICES ASSUME TInv, mishaps <= 1, Idle
               PROVE  tips \intersect swept = {} /\ tips \subseteq Reachable /\ FsckMissing = {}
    BY DEF TipsSurvive
  <2>1. Safe /\ todo = <<>> BY DEF TInv, Idle
  <2>2. Named \intersect DOMAIN commits = CollectRoots BY <2>1, RootsAreNamed
  <2>3. \A c \in CollectRoots : Ancestors(c) \intersect swept = {} BY <2>1, <2>2 DEF Safe, Unswept, Whole
  <2>4. tips \subseteq CollectRoots BY <2>1, <2>2 DEF Named, Safe, Shape
  <2>5. \A t \in tips : t \in Ancestors(t) BY <2>1, AncestorsOlder DEF Safe, Shape
  <2> QED BY <2>3, <2>4, <2>5 DEF Reachable, FsckMissing
<1> QED BY <1>1, InitTInv, NextTInv, PTL DEF Spec

-----------------------------------------------------------------------------
(* Renumbering keeps the shelves (ShelvesKept).                             *)

Nums == {Num(n) : n \in Nat}

\* Write w takes the shelf's file x away.
Takes(w, x) == (w.op = "mv" /\ w.from = x) \/ (w.op = "rmshelf" /\ w.name = x)

\* The renames of q, with files D: none is onto a file, unless it is gone by
\* then; no two have the same target; a temporary name is renamed again.
Orderly(q, D) ==
  /\ \A i \in 1 .. Len(q) : q[i].op = "mv" =>
       /\ q[i].to \in D => \E j \in 1 .. i - 1 : Takes(q[j], q[i].to)
       /\ q[i].to \in Nums \/ \E j \in i + 1 .. Len(q) : q[j].op = "mv" /\ q[j].from = q[i].to
       /\ \A j \in 1 .. i - 1 : q[j].op # "shelf" /\ (q[j].op = "mv" => q[j].to # q[i].to)
  /\ \A x \in D \ Nums : \E j \in 1 .. Len(q) : q[j].op = "mv" /\ q[j].from = x

Renaming ==
  /\ \A x \in DOMAIN shelves : shelves[x] \in Int
  /\ \A i \in 1 .. Len(todo) : todo[i].op = "shelf" => todo[i].name \in Nums /\ todo[i].commit \in Int
  /\ Orderly(todo, DOMAIN shelves)


\* Every file has its place in the list.
LEMMA ListedAll ==
  ASSUME NEW F, IsFiniteSet(F), NEW R,
         \A x \in F : <<x, x>> \notin R,
         \A x, y, z \in F : <<x, y>> \in R /\ <<y, z>> \in R => <<x, z>> \in R,
         \A x, y \in F : x = y \/ <<x, y>> \in R \/ <<y, x>> \in R,
         NEW x \in F
  PROVE  \E i \in 1 .. Cardinality(F) : Listed(F, R)[i] = x
<1> DEFINE below(y) == {z \in F : <<z, y>> \in R}
<1>1. ASSUME NEW y \in F
      PROVE  IsFiniteSet(below(y)) /\ Cardinality(below(y)) \in 0 .. Cardinality(F) - 1
  <2>1. below(y) \subseteq F \ {y} OBVIOUS
  <2>2. IsFiniteSet(F \ {y}) /\ Cardinality(F \ {y}) = Cardinality(F) - 1 BY FS_RemoveElement
  <2> DEFINE B == below(y)
  <2>3. B \in SUBSET (F \ {y}) BY <2>1
  <2> HIDE DEF B
  <2>4. IsFiniteSet(B) /\ Cardinality(B) <= Cardinality(F \ {y}) BY <2>2, <2>3, FS_Subset
  <2>5. Cardinality(B) \in Nat /\ Cardinality(F) \in Nat BY <2>4, FS_CardinalityType
  <2>6. Cardinality(B) \in 0 .. Cardinality(F) - 1 BY <2>2, <2>4, <2>5
  <2> QED BY <2>4, <2>6 DEF B
<1>2. ASSUME NEW y \in F, NEW z \in F, <<y, z>> \in R
      PROVE  Cardinality(below(y)) # Cardinality(below(z))
  <2>1. below(y) \subseteq below(z) /\ y \in below(z) /\ y \notin below(y) BY <1>2
  <2> DEFINE B == below(y) C == below(z)
  <2>2. B \in SUBSET C /\ B # C BY <2>1
  <2>3. IsFiniteSet(C) BY <1>1
  <2> HIDE DEF B, C
  <2>4. Cardinality(B) # Cardinality(C) BY <2>2, <2>3, FS_Subset
  <2> QED BY <2>4 DEF B, C
<1> DEFINE n == Cardinality(F)
           k(y) == Cardinality(below(y))
<1>3. ASSUME NEW y \in F, NEW z \in F, k(y) = k(z) PROVE y = z
  <2>1. <<y, z>> \notin R /\ <<z, y>> \notin R BY <1>2, <1>3
  <2> QED BY <2>1
<1>4. Listed(F, R) = [i \in 1 .. n |-> CHOOSE y \in F : k(y) = i - 1] BY DEF Listed
<1>5. k(x) \in 0 .. n - 1 /\ n \in Nat BY <1>1, FS_CardinalityType
<1> HIDE DEF n, k
<1> DEFINE j == k(x) + 1
<1>6. j \in 1 .. n /\ j - 1 = k(x) BY <1>5
<1>7. Listed(F, R)[j] = CHOOSE y \in F : k(y) = k(x) BY <1>4, <1>6
<1>8. (CHOOSE y \in F : k(y) = k(x)) = x BY <1>3
<1> QED BY <1>6, <1>7, <1>8 DEF n

\* So has every numbered shelf.
LEMMA ByAgeAll ==
  ASSUME NEW s, IsFiniteSet(DOMAIN s), \A x \in Numeric(s) : x \in Nums /\ s[x] \in Int,
         NEW x \in Numeric(s)
  PROVE  \E i \in 1 .. Cardinality(Numeric(s)) : ByAge(s)[i] = x
<1> DEFINE F == Numeric(s)
           age(y) == IF s[y] < 0 THEN -s[y] ELSE s[y]
           older(y, z) == age(y) < age(z) \/ (age(y) = age(z) /\ y[2] < z[2])
           R == {e \in F \X F : older(e[1], e[2])}
<1>1. IsFiniteSet(F)
  <2>1. F \in SUBSET DOMAIN s BY DEF Numeric
  <2> HIDE DEF F
  <2> QED BY <2>1, FS_Subset
<1>2. ByAge(s) = Listed(F, R) BY DEF ByAge
<1>3. \A y, z \in F : <<y, z>> \in R <=> older(y, z) BY Zenon
<1>4. \A y \in F : age(y) \in Int /\ y[2] \in Nat /\ y = Num(y[2])
  <2>1. \A m : Num(m)[2] = m BY DEF Num
  <2>2. \A y \in F : \E m \in Nat : y = Num(m) BY DEF Nums
  <2>3. \A y \in F : y[2] \in Nat /\ y = Num(y[2]) BY <2>1, <2>2
  <2>4. \A y \in F : s[y] \in Int OBVIOUS
  <2> HIDE DEF F
  <2> QED BY <2>3, <2>4
<1> HIDE DEF F, age, R
<1>5. \A y \in F : <<y, y>> \notin R BY <1>3, <1>4
<1>6. ASSUME NEW y \in F, NEW z \in F, NEW u \in F, <<y, z>> \in R, <<z, u>> \in R
      PROVE  <<y, u>> \in R
  BY <1>3, <1>4, <1>6
<1>7. ASSUME NEW y \in F, NEW z \in F PROVE y = z \/ <<y, z>> \in R \/ <<z, y>> \in R
  <2>1. y[2] = z[2] => y = z BY <1>4
  <2>2. y[2] = z[2] \/ older(y, z) \/ older(z, y) BY <1>4
  <2> QED BY <1>3, <2>1, <2>2
<1>8. x \in F BY DEF F
<1>9. \A y, z, u \in F : <<y, z>> \in R /\ <<z, u>> \in R => <<y, u>> \in R BY <1>6
<1>10. \A y, z \in F : y = z \/ <<y, z>> \in R \/ <<z, y>> \in R BY <1>7
<1>11. \E i \in 1 .. Cardinality(F) : Listed(F, R)[i] = x
  BY <1>1, <1>5, <1>8, <1>9, <1>10, ListedAll
<1> QED BY <1>2, <1>11 DEF F

LEMMA Greatest ==
  ASSUME NEW T \in SUBSET Nat, IsFiniteSet(T), T # {}
  PROVE  \E n \in T : \A m \in T : m <= n
<1> DEFINE above(n) == {m \in T : n < m}
           k(n) == Cardinality(above(n))
           K == {k(n) : n \in T}
<1>1. ASSUME NEW n \in T PROVE IsFiniteSet(above(n)) /\ k(n) \in Nat
  <2> DEFINE B == above(n)
  <2>1. B \in SUBSET T OBVIOUS
  <2> HIDE DEF B
  <2>2. IsFiniteSet(B) BY <2>1, FS_Subset
  <2>3. Cardinality(B) \in Nat BY <2>2, FS_CardinalityType
  <2> QED BY <2>2, <2>3 DEF B
<1>2. ASSUME NEW n \in T, NEW m \in T, n < m PROVE k(m) < k(n)
  <2> DEFINE B == above(m) C == above(n)
  <2>1. B \in SUBSET C /\ B # C
    <3>0. n \in Int /\ m \in Int /\ \A i \in T : i \in Int OBVIOUS
    <3>1. \A i \in B : i \in C BY <1>2, <3>0
    <3>2. m \in C /\ m \notin B BY <1>2
    <3> HIDE DEF B, C
    <3> QED BY <3>1, <3>2
  <2>2. IsFiniteSet(C) /\ k(m) = Cardinality(B) /\ k(n) = Cardinality(C) BY <1>1
  <2>3. k(m) \in Nat /\ k(n) \in Nat BY <1>1
  <2> HIDE DEF B, C, k
  <2> QED BY <2>1, <2>2, <2>3, FS_Subset
<1> HIDE DEF k
<1>3. K \in SUBSET Nat /\ K # {} BY <1>1
<1>4. PICK j \in K : \A i \in K : j <= i
  <2> HIDE DEF K
  <2> QED BY <1>3, LeastNumber
<1>5. PICK n \in T : j = k(n) BY <1>4
<1>6. ASSUME NEW m \in T PROVE m <= n
  <2>1. k(n) <= k(m) BY <1>4, <1>5
  <2>2. k(n) \in Nat /\ k(m) \in Nat BY <1>1
  <2>3. ~(n < m) BY <1>2, <2>1, <2>2
  <2> QED BY <2>3
<1> QED BY <1>6

LEMMA NextIsNum ==
  ASSUME IsFiniteSet(DOMAIN shelves), DOMAIN shelves \subseteq Nums
  PROVE  NextShelfName \in Nums
<1> DEFINE F == Numeric(shelves)
           T == {x[2] : x \in F}
<1>1. CASE F = {} BY <1>1 DEF NextShelfName, Nums
<1>2. CASE F # {}
  <2>1. \A x \in F : x[2] \in Nat
    <3>1. \A m : Num(m)[2] = m BY DEF Num
    <3>2. \A x \in F : \E m \in Nat : x = Num(m) BY DEF Nums, Numeric
    <3> QED BY <3>1, <3>2
  <2>2. IsFiniteSet(T)
    <3>1. F \in SUBSET DOMAIN shelves BY DEF Numeric
    <3> HIDE DEF F
    <3>2. IsFiniteSet(F) BY <3>1, FS_Subset
    <3> DEFINE f == [x \in F |-> x[2]]
    <3>3. f \in Surjection(F, T) BY DEF Surjection
    <3> HIDE DEF f, T
    <3> QED BY <3>2, <3>3, FS_Surjection
  <2>3. T \in SUBSET Nat /\ T # {} BY <1>2, <2>1
  <2>4. \E n \in T : \A m \in T : m <= n
    <3> HIDE DEF T
    <3> QED BY <2>2, <2>3, Greatest
  <2> DEFINE n == CHOOSE n \in T : \A x \in F : x[2] <= n
  <2>5. n \in T
    <3>1. \E m \in T : \A x \in F : x[2] <= m BY <2>4
    <3> HIDE DEF T, F
    <3> QED BY <3>1
  <2>6. NextShelfName = Num(1 + n) BY <1>2 DEF NextShelfName
  <2> HIDE DEF n
  <2>7. n \in Nat BY <2>3, <2>5
  <2> QED BY <2>6, <2>7 DEF Nums
<1> QED BY <1>1, <1>2

-----------------------------------------------------------------------------
(* Orderly plans.                                                           *)

Calm(w) == w.op \notin {"mv", "shelf"}

LEMMA OrderlyCalm ==
  ASSUME NEW q, NEW D \in SUBSET Nums, \A w \in Writes(q) : w.op # "mv"
  PROVE  Orderly(q, D)
BY DEF Orderly, Writes

LEMMA CalmOrderly ==
  ASSUME NEW q, NEW D, Orderly(q, D), \A w \in Writes(q) : w.op # "mv"
  PROVE  D \subseteq Nums
BY DEF Orderly, Writes

\* The elements of a tail.
LEMMA RestIs ==
  ASSUME NEW q, IsSeq(q), q # <<>>
  PROVE  /\ Len(q) \in Nat \ {0} /\ Len(Tail(q)) = Len(q) - 1 /\ Head(q) = q[1]
         /\ \A i \in 1 .. Len(q) - 1 : Tail(q)[i] = q[i + 1]
<1>1. q \in Seq(Writes(q)) /\ Len(q) \in Nat BY DEF IsSeq
<1>2. /\ Len(Tail(q)) = Len(q) - 1 /\ Head(q) = q[1]
      /\ \A i \in 1 .. Len(q) - 1 : Tail(q)[i] = q[i + 1]
  BY <1>1, HeadTailProperties
<1>3. Len(q) # 0 BY <1>1, EmptySeq
<1> QED BY <1>1, <1>2, <1>3

\* What is left after the first write, with files E by then.
LEMMA OrderlyRest ==
  ASSUME NEW q, IsSeq(q), q # <<>>, NEW D, Orderly(q, D), NEW E,
         \A x \in E : \/ x \in D /\ ~Takes(Head(q), x)
                      \/ Head(q).op = "mv" /\ x = Head(q).to
                      \/ Head(q).op = "shelf" /\ x \in Nums
  PROVE  Orderly(Tail(q), E)
<1> DEFINE h == Head(q)
           r == Tail(q)
           n == Len(q)
<1>1. /\ n \in Nat \ {0} /\ Len(r) = n - 1 /\ h = q[1]
      /\ \A i \in 1 .. n - 1 : r[i] = q[i + 1] /\ i + 1 \in 1 .. n
  BY RestIs
<1>2. \A j \in 2 .. n : j - 1 \in 1 .. n - 1 /\ r[j - 1] = q[j] BY <1>1
<1>3. \A x \in E : \/ x \in D /\ ~Takes(h, x)
                   \/ h.op = "mv" /\ x = h.to
                   \/ h.op = "shelf" /\ x \in Nums
  OBVIOUS
<1> HIDE DEF h, r, n
<1>4. \A i \in 1 .. n : q[i].op = "mv" =>
        /\ q[i].to \in D => \E j \in 1 .. i - 1 : Takes(q[j], q[i].to)
        /\ q[i].to \in Nums \/ \E j \in i + 1 .. n : q[j].op = "mv" /\ q[j].from = q[i].to
        /\ \A j \in 1 .. i - 1 : q[j].op # "shelf" /\ (q[j].op = "mv" => q[j].to # q[i].to)
  BY DEF Orderly, n
<1>5. \A x \in D \ Nums : \E j \in 1 .. n : q[j].op = "mv" /\ q[j].from = x BY DEF Orderly, n
<1>6. ASSUME NEW i \in 1 .. n - 1, r[i].op = "mv"
      PROVE  /\ r[i].to \in E => \E j \in 1 .. i - 1 : Takes(r[j], r[i].to)
             /\ r[i].to \in Nums \/ \E j \in i + 1 .. n - 1 : r[j].op = "mv" /\ r[j].from = r[i].to
             /\ \A j \in 1 .. i - 1 : r[j].op # "shelf" /\ (r[j].op = "mv" => r[j].to # r[i].to)
  <2> DEFINE k == i + 1
  <2>1. k \in 2 .. n /\ r[i] = q[k] /\ 1 \in 1 .. k - 1 /\ k \in 1 .. n BY <1>1
  <2>2. h.op # "shelf" /\ (h.op = "mv" => h.to # q[k].to) BY <1>1, <1>4, <1>6, <2>1
  <2>3. ASSUME r[i].to \in E PROVE \E j \in 1 .. i - 1 : Takes(r[j], r[i].to)
    <3>1. r[i].to \in D /\ ~Takes(h, r[i].to) BY <1>3, <2>1, <2>2, <2>3
    <3>2. PICK j \in 1 .. k - 1 : Takes(q[j], q[k].to) BY <1>4, <1>6, <2>1, <3>1
    <3>3. j # 1 BY <1>1, <2>1, <3>1, <3>2
    <3>4. j \in 2 .. n /\ j - 1 \in 1 .. i - 1 BY <1>1, <3>3
    <3> QED BY <1>2, <2>1, <3>2, <3>4
  <2>4. ASSUME r[i].to \notin Nums
        PROVE  \E j \in i + 1 .. n - 1 : r[j].op = "mv" /\ r[j].from = r[i].to
    <3>1. PICK j \in k + 1 .. n : q[j].op = "mv" /\ q[j].from = q[k].to BY <1>4, <1>6, <2>1, <2>4
    <3>2. j \in 2 .. n /\ j - 1 \in i + 1 .. n - 1 BY <1>1
    <3> QED BY <1>2, <2>1, <3>1, <3>2
  <2>5. ASSUME NEW j \in 1 .. i - 1
        PROVE  r[j].op # "shelf" /\ (r[j].op = "mv" => r[j].to # r[i].to)
    <3>1. j \in 1 .. n - 1 /\ j + 1 \in 1 .. k - 1 BY <1>1
    <3>2. r[j] = q[j + 1] BY <1>1, <3>1
    <3> QED BY <1>4, <1>6, <2>1, <3>1, <3>2
  <2> QED BY <2>3, <2>4, <2>5
<1>7. ASSUME NEW x \in E \ Nums PROVE \E j \in 1 .. n - 1 : r[j].op = "mv" /\ r[j].from = x
  <2>1. CASE x \in D /\ ~Takes(h, x)
    <3>1. PICK j \in 1 .. n : q[j].op = "mv" /\ q[j].from = x BY <1>5, <2>1
    <3>2. j # 1 BY <1>1, <2>1, <3>1 DEF Takes
    <3>3. j \in 2 .. n BY <1>1, <3>2
    <3> QED BY <1>2, <3>1, <3>3
  <2>2. CASE h.op = "mv" /\ x = h.to
    <3>1. 1 \in 1 .. n /\ 1 + 1 = 2 BY <1>1
    <3>2. PICK j \in 2 .. n : q[j].op = "mv" /\ q[j].from = x BY <1>1, <1>4, <2>2, <3>1
    <3> QED BY <1>2, <3>2
  <2> QED BY <1>3, <2>1, <2>2
<1>8. Orderly(r, E) BY <1>1, <1>6, <1>7 DEF Orderly
<1> QED BY <1>8 DEF r

\* A write in front that is none of the shelves'.
LEMMA OrderlyMore ==
  ASSUME NEW q, IsSeq(q), NEW D, Orderly(q, D), NEW v, v.op = "files"
  PROVE  Orderly(<<v>> \o q, D) /\ IsSeq(<<v>> \o q) /\ Writes(<<v>> \o q) = {v} \union Writes(q)
<1> DEFINE r == <<v>> \o q
           n == Len(q)
<1>1. IsSeq(<<v>>) /\ Writes(<<v>>) = {v} /\ Len(<<v>>) = 1 /\ <<v>>[1] = v BY SomeWrites
<1>2. /\ IsSeq(r) /\ Len(r) = 1 + n /\ r[1] = v /\ Writes(r) = {v} \union Writes(q)
      /\ \A i \in 1 .. n : r[1 + i] = q[i]
  <2> DEFINE p == <<v>>
  <2>1. IsSeq(p) /\ Len(p) = 1 /\ p[1] = v /\ Writes(p) = {v} /\ r = p \o q BY <1>1
  <2> HIDE DEF p
  <2>2. /\ IsSeq(p \o q) /\ Len(p \o q) = Len(p) + n /\ Writes(p \o q) = Writes(p) \union Writes(q)
        /\ \A i \in 1 .. Len(p) : (p \o q)[i] = p[i]
        /\ \A i \in 1 .. n : (p \o q)[Len(p) + i] = q[i]
    BY <2>1, MoreWrites
  <2> HIDE DEF r, n
  <2>3. 1 \in 1 .. Len(p) BY <2>1
  <2> QED BY <2>1, <2>2, <2>3
<1>3. n \in Nat BY DEF IsSeq
<1> HIDE DEF r, n
<1>4. \A i \in 2 .. 1 + n : i - 1 \in 1 .. n /\ r[i] = q[i - 1]
  <2> SUFFICES ASSUME NEW i \in 2 .. 1 + n PROVE i - 1 \in 1 .. n /\ r[i] = q[i - 1] OBVIOUS
  <2>1. i - 1 \in 1 .. n /\ 1 + (i - 1) = i BY <1>3
  <2> QED BY <1>2, <2>1
<1>5. \A j \in 1 .. n : 1 + j \in 1 .. 1 + n /\ r[1 + j] = q[j] BY <1>2, <1>3
<1>6. \A i \in 1 .. n : q[i].op = "mv" =>
        /\ q[i].to \in D => \E j \in 1 .. i - 1 : Takes(q[j], q[i].to)
        /\ q[i].to \in Nums \/ \E j \in i + 1 .. n : q[j].op = "mv" /\ q[j].from = q[i].to
        /\ \A j \in 1 .. i - 1 : q[j].op # "shelf" /\ (q[j].op = "mv" => q[j].to # q[i].to)
  BY DEF Orderly, n
<1>7. ASSUME NEW i \in 1 .. 1 + n, r[i].op = "mv"
      PROVE  /\ r[i].to \in D => \E j \in 1 .. i - 1 : Takes(r[j], r[i].to)
             /\ r[i].to \in Nums \/ \E j \in i + 1 .. 1 + n : r[j].op = "mv" /\ r[j].from = r[i].to
             /\ \A j \in 1 .. i - 1 : r[j].op # "shelf" /\ (r[j].op = "mv" => r[j].to # r[i].to)
  <2> DEFINE k == i - 1
  <2>1. i # 1 BY <1>2, <1>7
  <2>2. i \in 2 .. 1 + n BY <1>3, <2>1
  <2>3. k \in 1 .. n /\ r[i] = q[k] BY <1>4, <2>2
  <2>4. ASSUME r[i].to \in D PROVE \E j \in 1 .. i - 1 : Takes(r[j], r[i].to)
    <3>1. PICK j \in 1 .. k - 1 : Takes(q[j], q[k].to) BY <1>6, <1>7, <2>3, <2>4
    <3>2. j \in 1 .. n /\ 1 + j \in 1 .. i - 1 BY <1>3, <2>2
    <3> QED BY <1>5, <2>3, <3>1, <3>2
  <2>5. ASSUME r[i].to \notin Nums
        PROVE  \E j \in i + 1 .. 1 + n : r[j].op = "mv" /\ r[j].from = r[i].to
    <3>1. PICK j \in k + 1 .. n : q[j].op = "mv" /\ q[j].from = q[k].to BY <1>6, <1>7, <2>3, <2>5
    <3>2. j \in 1 .. n /\ 1 + j \in i + 1 .. 1 + n BY <1>3, <2>2
    <3> QED BY <1>5, <2>3, <3>1, <3>2
  <2>6. ASSUME NEW j \in 1 .. i - 1
        PROVE  r[j].op # "shelf" /\ (r[j].op = "mv" => r[j].to # r[i].to)
    <3>1. CASE j = 1 BY <1>2, <3>1
    <3>2. CASE j # 1
      <4>1. j \in 2 .. 1 + n /\ j - 1 \in 1 .. k - 1 BY <1>3, <2>2, <3>2
      <4>2. r[j] = q[j - 1] BY <1>4, <4>1
      <4> QED BY <1>6, <1>7, <2>3, <4>1, <4>2
    <3> QED BY <3>1, <3>2
  <2> QED BY <2>4, <2>5, <2>6
<1>8. ASSUME NEW x \in D \ Nums PROVE \E j \in 1 .. 1 + n : r[j].op = "mv" /\ r[j].from = x
  <2>1. PICK j \in 1 .. n : q[j].op = "mv" /\ q[j].from = x BY DEF Orderly, n
  <2> QED BY <1>5, <2>1
<1>9. Orderly(r, D) BY <1>2, <1>7, <1>8 DEF Orderly
<1> QED BY <1>2, <1>9 DEF r

\* Drop(x): the renames that close the gap.
LEMMA OrderlyDrop ==
  ASSUME IsFiniteSet(DOMAIN shelves), DOMAIN shelves \subseteq Nums,
         \A y \in DOMAIN shelves : shelves[y] \in Int, NEW x
  PROVE  /\ IsSeq(Drop(x)) /\ \A w \in Writes(Drop(x)) : w.op # "shelf"
         /\ Orderly(Drop(x), DOMAIN shelves)
<1> DEFINE D == DOMAIN shelves
           s == Without(shelves, x)
           F == Numeric(s)
           old == ByAge(s)
           n == Cardinality(F)
           q1 == [i \in DOMAIN old |-> Rename(old[i], Tmp(i - 1))]
           q2 == [i \in DOMAIN old |-> Rename(Tmp(i - 1), Num(i - 1))]
           rw == <<RemoveShelf(x)>>
           q == Drop(x)
<1>1. D \subseteq Nums /\ F = D \ {x} /\ F \subseteq DOMAIN s /\ IsFiniteSet(DOMAIN s)
      /\ n \in Nat /\ \A y \in F : y \in Nums /\ s[y] \in Int
  <2>1. DOMAIN s = D \ {x} /\ \A y \in D \ {x} : s[y] = shelves[y] BY DEF Without
  <2>2. \A y \in Nums : y[1] = "n" BY DEF Nums, Num
  <2>3. F = D \ {x} BY <2>1, <2>2 DEF Numeric
  <2>4. IsFiniteSet(DOMAIN s) BY <2>1, FS_RemoveElement
  <2>5. n \in Nat BY <2>1, <2>3, <2>4, FS_CardinalityType
  <2> QED BY <2>1, <2>3, <2>4, <2>5
<1>2. DOMAIN old = 1 .. n BY DEF ByAge, Listed
<1>3. q = rw \o (q1 \o q2) BY DEF Drop, CompactShelves
<1>4. \A y \in F : \E i \in 1 .. n : old[i] = y
  <2> HIDE DEF s
  <2> QED BY <1>1, ByAgeAll
<1>5. IsSeq(rw) /\ Len(rw) = 1 /\ Writes(rw) = {RemoveShelf(x)} /\ rw[1] = RemoveShelf(x)
  BY SomeWrites
<1> HIDE DEF s, F, old, n
<1>6. /\ IsSeq(q1) /\ IsSeq(q2) /\ Len(q1) = n /\ Len(q2) = n
      /\ \A i \in 1 .. n : q1[i] = Rename(old[i], Tmp(i - 1)) /\ q2[i] = Rename(Tmp(i - 1), Num(i - 1))
  <2>1. q1 = [i \in 1 .. n |-> q1[i]] BY <1>2
  <2>2. q2 = [i \in 1 .. n |-> q2[i]] BY <1>2
  <2>3. \A i \in 1 .. n : q1[i] = Rename(old[i], Tmp(i - 1)) /\ q2[i] = Rename(Tmp(i - 1), Num(i - 1))
    BY <1>2
  <2> HIDE DEF q1, q2
  <2> QED BY <1>1, <2>1, <2>2, <2>3, ListIsSeq
<1> HIDE DEF q1, q2, rw, q
<1>7. /\ IsSeq(q1 \o q2) /\ Len(q1 \o q2) = n + n
      /\ \A i \in 1 .. n : (q1 \o q2)[i] = q1[i] /\ (q1 \o q2)[n + i] = q2[i]
  <2>1. IsSeq(q1) /\ IsSeq(q2) /\ Len(q1) = n /\ Len(q2) = n BY <1>6
  <2>2. /\ IsSeq(q1 \o q2) /\ Len(q1 \o q2) = Len(q1) + Len(q2)
        /\ \A i \in 1 .. Len(q1) : (q1 \o q2)[i] = q1[i]
        /\ \A i \in 1 .. Len(q2) : (q1 \o q2)[Len(q1) + i] = q2[i]
    BY <2>1, MoreWrites
  <2> QED BY <2>1, <2>2
<1>8. /\ IsSeq(q) /\ Len(q) = 1 + (n + n) /\ q[1] = RemoveShelf(x)
      /\ \A i \in 1 .. n + n : q[1 + i] = (q1 \o q2)[i]
  <2> DEFINE p == q1 \o q2
  <2>1. IsSeq(p) /\ Len(p) = n + n /\ q = rw \o p BY <1>3, <1>7
  <2>2. 1 \in 1 .. Len(rw) BY <1>5
  <2> HIDE DEF p
  <2>3. /\ IsSeq(rw \o p) /\ Len(rw \o p) = Len(rw) + Len(p)
        /\ \A i \in 1 .. Len(rw) : (rw \o p)[i] = rw[i]
        /\ \A i \in 1 .. Len(p) : (rw \o p)[Len(rw) + i] = p[i]
    <3>1. IsSeq(rw) /\ IsSeq(p) BY <1>5, <2>1
    <3> QED BY <3>1, MoreWrites
  <2> QED BY <1>5, <2>1, <2>2, <2>3 DEF p
<1>9. \A i \in 1 .. n : /\ q[1 + i] = Rename(old[i], Tmp(i - 1))
                        /\ q[1 + n + i] = Rename(Tmp(i - 1), Num(i - 1))
  <2> SUFFICES ASSUME NEW i \in 1 .. n
               PROVE  /\ q[1 + i] = Rename(old[i], Tmp(i - 1))
                      /\ q[1 + n + i] = Rename(Tmp(i - 1), Num(i - 1))
    OBVIOUS
  <2>1. i \in 1 .. n + n /\ n + i \in 1 .. n + n /\ 1 + (n + i) = 1 + n + i BY <1>1
  <2> QED BY <1>6, <1>7, <1>8, <2>1
<1>10. \A i \in 1 .. 1 + (n + n) :
         i = 1 \/ (\E k \in 1 .. n : i = 1 + k) \/ (\E k \in 1 .. n : i = 1 + n + k)
  <2> SUFFICES ASSUME NEW i \in 1 .. 1 + (n + n), i # 1
               PROVE  (\E k \in 1 .. n : i = 1 + k) \/ (\E k \in 1 .. n : i = 1 + n + k)
    OBVIOUS
  <2>1. CASE i <= 1 + n
    <3>1. i - 1 \in 1 .. n /\ i = 1 + (i - 1) BY <1>1, <2>1
    <3> QED BY <3>1
  <2>2. CASE ~(i <= 1 + n)
    <3>1. i - (1 + n) \in 1 .. n /\ i = 1 + n + (i - (1 + n)) BY <1>1, <2>2
    <3> QED BY <3>1
  <2> QED BY <2>1, <2>2
<1>11. /\ \A y, z : Rename(y, z).op = "mv" /\ Rename(y, z).from = y /\ Rename(y, z).to = z
       /\ RemoveShelf(x).op = "rmshelf" /\ RemoveShelf(x).name = x
  BY DEF Rename, RemoveShelf
<1>12. /\ \A i, j : Tmp(i) # Num(j)
       /\ \A i, j : (Tmp(i) = Tmp(j) => i = j) /\ (Num(i) = Num(j) => i = j)
  BY DEF Tmp, Num
<1>13. /\ \A i \in 1 .. n : Num(i - 1) \in Nums /\ Tmp(i - 1) \notin Nums
  <2>1. \A i \in 1 .. n : i - 1 \in Nat BY <1>1
  <2> QED BY <1>12, <2>1 DEF Nums
<1>14. \A w \in Writes(q) : w.op # "shelf"
  <2> SUFFICES ASSUME NEW i \in 1 .. 1 + (n + n) PROVE q[i].op # "shelf" BY <1>8 DEF Writes
  <2> QED BY <1>8, <1>9, <1>10, <1>11
<1>15. ASSUME NEW i \in 1 .. 1 + (n + n), q[i].op = "mv"
       PROVE  /\ q[i].to \in D => \E j \in 1 .. i - 1 : Takes(q[j], q[i].to)
              /\ q[i].to \in Nums \/ \E j \in i + 1 .. 1 + (n + n) : q[j].op = "mv" /\ q[j].from = q[i].to
              /\ \A j \in 1 .. i - 1 : q[j].op # "shelf" /\ (q[j].op = "mv" => q[j].to # q[i].to)
  <2>1. i # 1 BY <1>8, <1>11, <1>15
  <2>2. CASE \E k \in 1 .. n : i = 1 + k
    <3>1. PICK k \in 1 .. n : i = 1 + k BY <2>2
    <3>2. q[i].to = Tmp(k - 1) BY <1>9, <1>11, <3>1
    <3>3. q[i].to \notin D BY <1>1, <1>13, <3>2
    <3>4. 1 + n + k \in i + 1 .. 1 + (n + n) /\ q[1 + n + k].op = "mv" /\ q[1 + n + k].from = Tmp(k - 1)
      <4>1. 1 + n + k \in i + 1 .. 1 + (n + n) BY <1>1, <3>1
      <4> QED BY <1>9, <1>11, <4>1
    <3>5. ASSUME NEW j \in 1 .. i - 1
          PROVE  q[j].op # "shelf" /\ (q[j].op = "mv" => q[j].to # q[i].to)
      <4>1. j \in 1 .. 1 + (n + n) /\ j <= k BY <1>1, <3>1
      <4>2. CASE j = 1 BY <1>8, <1>11, <4>2
      <4>3. CASE j # 1
        <5> DEFINE l == j - 1
        <5>1. l \in 1 .. n /\ j = 1 + l /\ l # k BY <1>1, <3>1, <4>1, <4>3
        <5> HIDE DEF l
        <5>2. q[j].op = "mv" /\ q[j].to = Tmp(l - 1) BY <1>9, <1>11, <5>1
        <5>3. l - 1 # k - 1 BY <1>1, <5>1
        <5> QED BY <1>12, <3>2, <5>2, <5>3
      <4> QED BY <4>2, <4>3
    <3> QED BY <3>2, <3>3, <3>4, <3>5
  <2>3. CASE \E k \in 1 .. n : i = 1 + n + k
    <3>1. PICK k \in 1 .. n : i = 1 + n + k BY <2>3
    <3>2. q[i].to = Num(k - 1) /\ q[i].to \in Nums BY <1>9, <1>11, <1>13, <3>1
    <3>3. ASSUME q[i].to \in D PROVE \E j \in 1 .. i - 1 : Takes(q[j], q[i].to)
      <4>1. CASE q[i].to = x
        <5>1. 1 \in 1 .. i - 1 BY <1>1, <3>1
        <5> QED BY <1>8, <1>11, <4>1, <5>1 DEF Takes
      <4>2. CASE q[i].to # x
        <5>1. PICK l \in 1 .. n : old[l] = q[i].to BY <1>1, <1>4, <3>3, <4>2
        <5>2. 1 + l \in 1 .. i - 1 BY <1>1, <3>1
        <5>3. q[1 + l].op = "mv" /\ q[1 + l].from = q[i].to BY <1>9, <1>11, <5>1
        <5> QED BY <5>2, <5>3 DEF Takes
      <4> QED BY <4>1, <4>2
    <3>4. ASSUME NEW j \in 1 .. i - 1
          PROVE  q[j].op # "shelf" /\ (q[j].op = "mv" => q[j].to # q[i].to)
      <4>1. j \in 1 .. 1 + (n + n) /\ j < i BY <1>1, <3>1
      <4>2. CASE j = 1 BY <1>8, <1>11, <4>2
      <4>3. ASSUME NEW l \in 1 .. n, j = 1 + l
            PROVE  q[j].op # "shelf" /\ (q[j].op = "mv" => q[j].to # q[i].to)
        <5>1. q[j].op = "mv" /\ q[j].to = Tmp(l - 1) BY <1>9, <1>11, <4>3
        <5> QED BY <1>12, <3>2, <5>1
      <4>4. ASSUME NEW l \in 1 .. n, j = 1 + n + l
            PROVE  q[j].op # "shelf" /\ (q[j].op = "mv" => q[j].to # q[i].to)
        <5>1. q[j].op = "mv" /\ q[j].to = Num(l - 1) BY <1>9, <1>11, <4>4
        <5>2. l - 1 # k - 1 BY <1>1, <3>1, <4>1, <4>4
        <5> QED BY <1>12, <3>2, <5>1, <5>2
      <4> QED BY <1>10, <4>1, <4>2, <4>3, <4>4
    <3> QED BY <3>2, <3>3, <3>4
  <2> QED BY <1>10, <2>1, <2>2, <2>3
<1>16. Orderly(q, D) BY <1>1, <1>8, <1>15 DEF Orderly
<1> QED BY <1>8, <1>14, <1>16 DEF q

-----------------------------------------------------------------------------
(* The steps.                                                               *)

\* What a write does to the shelves, and to the writes behind it.
LEMMA ShelfWrite ==
  ASSUME Write, IsSeq(todo)
  PROVE  LET w == Head(todo) IN
         /\ todo # <<>>
         /\ \/ w.op \notin {"mv", "shelf", "rmshelf"} /\ shelves' = shelves
            \/ w.op = "shelf" /\ shelves' = With(shelves, w.name, w.commit)
            \/ w.op = "rmshelf" /\ shelves' = Without(shelves, w.name)
            \/ w.op = "mv" /\ shelves' = Renamed(shelves, w.from, w.to)
         /\ \/ todo' = Tail(todo)
            \/ w.op = "files" /\ \E v : v.op = "files" /\ todo' = <<v>> \o Tail(todo)
<1> DEFINE w == Head(todo)
           Left(q) == todo' = q \o Tail(todo)
<1>1. todo # <<>> /\ <<>> \o Tail(todo) = Tail(todo) BY FirstWrite DEF Write
<1>2. PerformMore(w, Left) BY DEF Write
<1>3. CASE /\ w.op = "files" /\ shelves' = shelves
           /\ \E f \in w.left : Left(IF w.left = {f} THEN <<>> ELSE <<[w EXCEPT !.left = @ \ {f}]>>)
  <2>1. PICK f \in w.left : Left(IF w.left = {f} THEN <<>> ELSE <<[w EXCEPT !.left = @ \ {f}]>>)
    BY <1>3
  <2> DEFINE v == [w EXCEPT !.left = @ \ {f}]
  <2>2. v.op = "files" BY <1>3
  <2>3. todo' = Tail(todo) \/ todo' = <<v>> \o Tail(todo) BY <1>1, <2>1
  <2> HIDE DEF v
  <2> QED BY <1>1, <1>3, <2>2, <2>3
<1>4. CASE /\ \/ w.op \notin {"mv", "shelf", "rmshelf"} /\ shelves' = shelves
              \/ w.op = "shelf" /\ shelves' = With(shelves, w.name, w.commit)
              \/ w.op = "rmshelf" /\ shelves' = Without(shelves, w.name)
              \/ w.op = "mv" /\ shelves' = Renamed(shelves, w.from, w.to)
           /\ todo' = <<>> \o Tail(todo)
  BY <1>1, <1>4
<1> QED BY <1>2, <1>3, <1>4 DEF PerformMore, Perform

\* A write keeps the rest in order, and a rename keeps every shelf.
LEMMA WriteRenames ==
  ASSUME Renaming, IsSeq(todo), Write
  PROVE  /\ Renaming'
         /\ Head(todo).op = "mv" =>
              \A x \in DOMAIN shelves : \E y \in DOMAIN shelves' : shelves'[y] = shelves[x]
<1> DEFINE w == Head(todo)
           D == DOMAIN shelves
           E == DOMAIN shelves'
<1>1. /\ todo # <<>>
      /\ \/ w.op \notin {"mv", "shelf", "rmshelf"} /\ shelves' = shelves
         \/ w.op = "shelf" /\ shelves' = With(shelves, w.name, w.commit)
         \/ w.op = "rmshelf" /\ shelves' = Without(shelves, w.name)
         \/ w.op = "mv" /\ shelves' = Renamed(shelves, w.from, w.to)
      /\ \/ todo' = Tail(todo)
         \/ w.op = "files" /\ \E v : v.op = "files" /\ todo' = <<v>> \o Tail(todo)
  BY ShelfWrite
<1>2. /\ Len(todo) \in Nat \ {0} /\ w = todo[1] /\ Len(Tail(todo)) = Len(todo) - 1
      /\ \A i \in 1 .. Len(todo) - 1 : Tail(todo)[i] = todo[i + 1]
  BY <1>1, RestIs
<1>3. 1 \in 1 .. Len(todo) /\ \A i \in 1 .. Len(todo) - 1 : i + 1 \in 1 .. Len(todo) BY <1>2
<1>4. /\ w.op = "shelf" => w.name \in Nums /\ w.commit \in Int
      /\ w.op = "mv" => w.to \notin D
  <2>1. \A j : j \notin 1 .. 1 - 1 OBVIOUS
  <2> QED BY <1>2, <1>3, <2>1 DEF Renaming, Orderly
<1> HIDE DEF w
<1>5. /\ \A x \in E : shelves'[x] \in Int
      /\ \A x \in E : \/ x \in D /\ ~Takes(w, x)
                      \/ w.op = "mv" /\ x = w.to
                      \/ w.op = "shelf" /\ x \in Nums
      /\ w.op = "mv" => \A x \in D : \E y \in E : shelves'[y] = shelves[x]
  <2>1. \A x \in D : shelves[x] \in Int BY DEF Renaming
  <2>2. CASE w.op \notin {"mv", "shelf", "rmshelf"} /\ shelves' = shelves
    BY <2>1, <2>2 DEF Takes
  <2>3. CASE w.op = "shelf" /\ shelves' = With(shelves, w.name, w.commit)
    <3>1. /\ E = D \union {w.name}
          /\ \A x \in E : shelves'[x] = IF x = w.name THEN w.commit ELSE shelves[x]
      BY <2>3 DEF With
    <3> QED BY <1>4, <2>1, <2>3, <3>1 DEF Takes
  <2>4. CASE w.op = "rmshelf" /\ shelves' = Without(shelves, w.name)
    <3>1. E = D \ {w.name} /\ \A x \in E : shelves'[x] = shelves[x] BY <2>4 DEF Without
    <3> QED BY <2>1, <2>4, <3>1 DEF Takes
  <2>5. CASE w.op = "mv" /\ shelves' = Renamed(shelves, w.from, w.to)
    <3>1. /\ E = {IF y = w.from THEN w.to ELSE y : y \in D}
          /\ \A x \in E : shelves'[x] = IF x = w.to /\ w.from \in D THEN shelves[w.from] ELSE shelves[x]
      BY <2>5 DEF Renamed
    <3>2. \A x \in E : (x \in D /\ x # w.from) \/ (x = w.to /\ w.from \in D) BY <3>1
    <3>3. \A x \in D : (x # w.from /\ x \in E) \/ (x = w.from /\ w.to \in E) BY <3>1
    <3>4. \A x \in E : shelves'[x] \in Int BY <2>1, <3>1, <3>2
    <3>5. \A x \in E : (x \in D /\ ~Takes(w, x)) \/ x = w.to BY <2>5, <3>2 DEF Takes
    <3>6. ASSUME NEW x \in D PROVE \E y \in E : shelves'[y] = shelves[x]
      <4>1. CASE x # w.from /\ x \in E
        <5>1. x # w.to BY <1>4, <2>5
        <5> QED BY <3>1, <4>1, <5>1
      <4>2. CASE x = w.from /\ w.to \in E BY <3>1, <4>2
      <4> QED BY <3>3, <4>1, <4>2
    <3> QED BY <2>5, <3>4, <3>5, <3>6
  <2> QED BY <1>1, <2>2, <2>3, <2>4, <2>5
<1>6. Orderly(Tail(todo), E) /\ IsSeq(Tail(todo))
  <2> HIDE DEF E
  <2>1. Orderly(todo, D) BY DEF Renaming
  <2>2. \A x \in E : \/ x \in D /\ ~Takes(Head(todo), x)
                     \/ Head(todo).op = "mv" /\ x = Head(todo).to
                     \/ Head(todo).op = "shelf" /\ x \in Nums
    BY <1>5 DEF w
  <2> HIDE DEF D
  <2> QED BY <1>1, <2>1, <2>2, OrderlyRest, FirstWrite
<1>7. \A x \in Writes(todo) : x.op = "shelf" => x.name \in Nums /\ x.commit \in Int
  BY DEF Renaming, Writes
<1>8. Writes(Tail(todo)) \subseteq Writes(todo) BY <1>1, FirstWrite
<1>9. Orderly(todo', E) /\ \A x \in Writes(todo') : x.op = "shelf" => x.name \in Nums /\ x.commit \in Int
  <2>1. CASE todo' = Tail(todo) BY <1>6, <1>7, <1>8, <2>1
  <2>2. ASSUME NEW v, v.op = "files", todo' = <<v>> \o Tail(todo)
        PROVE  Orderly(todo', E) /\ Writes(todo') = {v} \union Writes(Tail(todo))
    <3> DEFINE r == Tail(todo)
    <3> HIDE DEF r, E
    <3>1. IsSeq(r) /\ Orderly(r, E) BY <1>6 DEF r
    <3>2. Orderly(<<v>> \o r, E) /\ Writes(<<v>> \o r) = {v} \union Writes(r) BY <2>2, <3>1, OrderlyMore
    <3> QED BY <2>2, <3>2 DEF r
  <2> QED BY <1>1, <1>7, <1>8, <2>1, <2>2
<1>10. Renaming' BY <1>5, <1>9 DEF Renaming, Orderly, Writes, Takes
<1> QED BY <1>5, <1>10 DEF w

\* A command that neither writes a shelf's file nor renames one.
LEMMA CalmRenames ==
  ASSUME Renaming, todo = <<>>, UNCHANGED shelves, \A w \in Writes(todo') : Calm(w)
  PROVE  Renaming'
<1>1. DOMAIN shelves \subseteq Nums BY NoWrites, CalmOrderly DEF Renaming
<1>2. Orderly(todo', DOMAIN shelves) BY <1>1, OrderlyCalm DEF Calm
<1>3. \A i \in 1 .. Len(todo') : todo'[i].op # "shelf" BY DEF Calm, Writes
<1> QED BY <1>2, <1>3 DEF Renaming, Orderly, Takes

LEMMA CalmWrites ==
  /\ \A b, c : Calm(Ref(b, c)) /\ Calm(SetHead(b)) /\ Calm(RemoveRef(b))
  /\ \A b, o, c : Calm(Log(b, o, c))
  /\ \A t : Calm(Save(t)) /\ Calm(Extras(t)) /\ \A fs : Calm(Put(t, fs))
  /\ \A x : Calm(RemoveShelf(x))
BY DEF Calm, Ref, SetHead, RemoveRef, Log, Save, Extras, Put, RemoveShelf

LEMMA CalmCheckout ==
  ASSUME NEW t PROVE IsSeq(CheckoutWrites(t)) /\ \A w \in Writes(CheckoutWrites(t)) : Calm(w)
BY Checkouts DEF Calm

LEMMA RestoreCalm ==
  ASSUME NEW x
  PROVE  \/ RestoreShelfFiles(x) = <<>>
         \/ \E v : v.op = "files" /\ RestoreShelfFiles(x) = <<v>>
<1> DEFINE t == TreeOf(shelves[x])
           there == {f \in Files : t[f] # NoFile}
<1>1. RestoreShelfFiles(x) = IF there = {} THEN <<>> ELSE <<Put(t, there)>> BY DEF RestoreShelfFiles
<1>2. \A s, fs : Put(s, fs).op = "files" BY DEF Put
<1> HIDE DEF t, there
<1> QED BY <1>1, <1>2

\* A command of a user who needs shelves begins.
LEMMA CommandRenames ==
  ASSUME Renaming, IsFiniteSet(DOMAIN shelves), Len(commits) \in Nat,
         \/ CmdCommit \/ (\E b : CmdCheckout(b)) \/ (\E b, force : DeleteBranch(b, force))
         \/ CmdStash \/ CmdTag \/ CmdNotes \/ CmdReset \/ CmdAmend \/ GC
  PROVE  Renaming' /\ todo = <<>>
<1>1. ASSUME NEW ws, NEW n, NEW m, NEW made, Runs(ws, n, m, made)
      PROVE  todo = <<>> /\ todo' = ws /\ UNCHANGED shelves
  BY <1>1 DEF Runs, Begins, Proceed, Idle
<1>2. ASSUME NEW ws, NEW n, NEW m, NEW made, Runs(ws, n, m, made), \A w \in Writes(ws) : Calm(w)
      PROVE  Renaming' /\ todo = <<>>
  <2>1. todo = <<>> /\ todo' = ws /\ UNCHANGED shelves BY <1>1, <1>2
  <2> QED BY <1>2, <2>1, CalmRenames
<1>3. ASSUME todo = <<>> PROVE DOMAIN shelves \subseteq Nums /\ \A x \in DOMAIN shelves : shelves[x] \in Int
  BY <1>3, NoWrites, CalmOrderly DEF Renaming
<1>4. ASSUME CmdCommit \/ CmdAmend PROVE Renaming' /\ todo = <<>>
  <2> DEFINE ws == CommitWrites(Len(commits) + 1) \o <<Save(Scanned(work))>>
  <2>1. \E made : Runs(ws, "idle", NoState, made) BY <1>4 DEF CmdCommit, CmdAmend, Amend
  <2>2. \A w \in Writes(ws) : Calm(w)
    <3> DEFINE x == Len(commits) + 1
               t == Scanned(work)
               r == Ref(HeadBranch, x)
               l == Log(HeadBranch, HeadCommit, x)
               z == Save(t)
    <3>1. ws = <<r, l>> \o <<z>> BY DEF CommitWrites
    <3>2. Calm(r) /\ Calm(l) /\ Calm(z) BY CalmWrites
    <3> HIDE DEF x, t, r, l, z, ws
    <3>3. Writes(ws) = {r, l} \union {z} BY <3>1, SomeWrites, MoreWrites
    <3> QED BY <3>2, <3>3
  <2> HIDE DEF ws
  <2> QED BY <1>2, <2>1, <2>2
<1>5. ASSUME NEW b, CmdCheckout(b) PROVE Renaming' /\ todo = <<>>
  <2> DEFINE co == CheckoutWrites(TreeOf(refs[b]))
             cw == IF refs[b] = Unborn THEN <<>> ELSE co
             h == SetHead(b)
             ws == <<h>> \o cw
  <2>1. Runs(ws, "idle", NoState, <<>>) BY <1>5 DEF CmdCheckout
  <2>2. IsSeq(co) /\ \A w \in Writes(co) : Calm(w) BY CalmCheckout
  <2> HIDE DEF co
  <2>3. IsSeq(cw) /\ \A w \in Writes(cw) : Calm(w) BY <2>2, NoWrites
  <2>4. Calm(h) BY CalmWrites
  <2> HIDE DEF cw, h
  <2>5. Writes(ws) = {h} \union Writes(cw) BY <2>3, SomeWrites, MoreWrites
  <2> HIDE DEF ws
  <2>6. \A w \in Writes(ws) : Calm(w) BY <2>3, <2>4, <2>5
  <2> QED BY <1>2, <2>1, <2>6
<1>6. ASSUME NEW b, NEW force, DeleteBranch(b, force) PROVE Renaming' /\ todo = <<>>
  <2> DEFINE l == Log(b, refs[b], Unborn)
             r == RemoveRef(b)
             lw == IF refs[b] = Unborn THEN <<>> ELSE <<l>>
             ws == lw \o <<r>>
  <2>1. Runs(ws, "idle", NoState, <<>>) BY <1>6 DEF DeleteBranch
  <2>2. Calm(l) /\ Calm(r) BY CalmWrites
  <2> HIDE DEF l, r
  <2>3. IsSeq(lw) /\ Writes(lw) \subseteq {l} BY NoWrites, SomeWrites
  <2> HIDE DEF lw
  <2>4. Writes(ws) = Writes(lw) \union {r} BY <2>3, SomeWrites, MoreWrites
  <2> HIDE DEF ws
  <2>5. \A w \in Writes(ws) : Calm(w) BY <2>2, <2>3, <2>4
  <2> QED BY <1>2, <2>1, <2>5
<1>7. ASSUME NEW c, ResetSoft(c) PROVE Renaming' /\ todo = <<>>
  <2> DEFINE r == Ref(HeadBranch, c)
             l == Log(HeadBranch, HeadCommit, c)
             ws == <<r, l>>
  <2>1. Runs(ws, "idle", NoState, <<>>) BY <1>7 DEF ResetSoft
  <2>2. Calm(l) /\ Calm(r) BY CalmWrites
  <2> HIDE DEF l, r
  <2>3. Writes(ws) = {r, l} BY SomeWrites
  <2> HIDE DEF ws
  <2>4. \A w \in Writes(ws) : Calm(w) BY <2>2, <2>3
  <2> QED BY <1>2, <2>1, <2>4
<1>8. ASSUME CmdTag \/ CmdNotes \/ GC PROVE Renaming' /\ todo = <<>>
  <2>1. AtOnce /\ UNCHANGED shelves BY <1>8 DEF CmdTag, CmdNotes, GC, TagCreate, DeleteTag, Note
  <2>2. todo = <<>> /\ todo' = todo BY <2>1 DEF AtOnce, Begins, Idle
  <2>3. \A w \in Writes(todo') : Calm(w) BY <2>2, NoWrites
  <2> QED BY <2>1, <2>2, <2>3, CalmRenames
<1>9. ASSUME StashPush PROVE Renaming' /\ todo = <<>>
  <2> DEFINE v == WriteShelf(NextShelfName, Len(commits) + 1)
             co == CheckoutWrites(TreeOf(HeadCommit))
             ws == <<v>> \o co
  <2>1. \E made : Runs(ws, "idle", NoState, made) BY <1>9 DEF StashPush
  <2>2. todo = <<>> /\ todo' = ws /\ UNCHANGED shelves BY <1>1, <2>1
  <2>3. IsSeq(co) /\ \A w \in Writes(co) : Calm(w) BY CalmCheckout
  <2>4. v.op = "shelf" /\ v.name \in Nums /\ v.commit \in Int
    <3>1. NextShelfName \in Nums BY <1>3, <2>2, NextIsNum
    <3> QED BY <3>1 DEF WriteShelf
  <2> HIDE DEF co, v
  <2>5. Writes(ws) = {v} \union Writes(co) BY <2>3, SomeWrites, MoreWrites
  <2> HIDE DEF ws
  <2>6. \A w \in Writes(ws) : w.op # "mv" /\ (w.op = "shelf" => w.name \in Nums /\ w.commit \in Int)
    BY <2>3, <2>4, <2>5 DEF Calm
  <2>7. Orderly(ws, DOMAIN shelves) BY <1>3, <2>2, <2>6, OrderlyCalm
  <2>8. \A i \in 1 .. Len(ws) : ws[i].op = "shelf" => ws[i].name \in Nums /\ ws[i].commit \in Int
    BY <2>6 DEF Writes
  <2> QED BY <2>2, <2>7, <2>8 DEF Renaming, Orderly, Takes
<1>10. ASSUME StashClear PROVE Renaming' /\ todo = <<>>
  <2> DEFINE F == DOMAIN shelves
             first(x, y) == IF x[1] = y[1] THEN x[2] < y[2] ELSE x[1] = "tmp"
             all == Listed(F, {e \in F \X F : first(e[1], e[2])})
             n == Cardinality(F)
             ws == [i \in DOMAIN all |-> RemoveShelf(all[i])]
  <2>1. Runs(ws, "idle", NoState, <<>>) BY <1>10 DEF StashClear
  <2>2. n \in Nat BY FS_CardinalityType
  <2>3. DOMAIN all = 1 .. n BY DEF Listed
  <2> HIDE DEF all, n
  <2>4. ws = [i \in 1 .. n |-> ws[i]] BY <2>3
  <2>5. \A i \in 1 .. n : ws[i] = RemoveShelf(all[i]) BY <2>3
  <2> HIDE DEF ws
  <2>6. Len(ws) = n BY <2>2, <2>4, ListIsSeq
  <2>7. \A w \in Writes(ws) : Calm(w) BY <2>5, <2>6, CalmWrites DEF Writes
  <2> QED BY <1>2, <2>1, <2>7
<1>11. ASSUME NEW x, StashApply(x) PROVE Renaming' /\ todo = <<>>
  <2> DEFINE ws == RestoreShelfFiles(x)
  <2>1. Runs(ws, "idle", NoState, <<>>) BY <1>11 DEF StashApply
  <2>2. ws = <<>> \/ \E v : v.op = "files" /\ ws = <<v>> BY RestoreCalm
  <2> HIDE DEF ws
  <2>3. \A w \in Writes(ws) : Calm(w) BY <2>2, NoWrites, SomeWrites DEF Calm
  <2> QED BY <1>2, <2>1, <2>3
<1>12. ASSUME NEW x, NEW ws, Runs(ws, "idle", NoState, <<>>),
              ws = Drop(x) \/ ws = RestoreShelfFiles(x) \o Drop(x)
       PROVE  Renaming' /\ todo = <<>>
  <2> DEFINE dw == Drop(x)
             D == DOMAIN shelves
             rw == RestoreShelfFiles(x)
  <2>1. todo = <<>> /\ todo' = ws /\ UNCHANGED shelves BY <1>1, <1>12
  <2>2. IsSeq(dw) /\ (\A w \in Writes(dw) : w.op # "shelf") /\ Orderly(dw, D)
    BY <1>3, <2>1, OrderlyDrop
  <2>3. rw = <<>> \/ \E v : v.op = "files" /\ rw = <<v>> BY RestoreCalm
  <2>4. ws = dw \/ ws = rw \o dw BY <1>12
  <2> HIDE DEF dw, rw, D
  <2>5. <<>> \o dw = dw
    <3>1. dw \in Seq(Writes(dw)) BY <2>2 DEF IsSeq
    <3> QED BY <3>1, ConcatEmptySeq
  <2>6. ASSUME NEW v, v.op = "files"
        PROVE  Orderly(<<v>> \o dw, D) /\ Writes(<<v>> \o dw) = {v} \union Writes(dw)
    BY <2>2, <2>6, OrderlyMore
  <2>7. Orderly(ws, D) /\ \A w \in Writes(ws) : w.op # "shelf"
    <3>1. CASE ws = dw BY <2>2, <3>1
    <3>2. ASSUME NEW v, v.op = "files", ws = <<v>> \o dw
          PROVE  Orderly(ws, D) /\ \A w \in Writes(ws) : w.op # "shelf"
      BY <2>2, <2>6, <3>2
    <3> QED BY <2>3, <2>4, <2>5, <3>1, <3>2
  <2>8. \A i \in 1 .. Len(ws) : ws[i].op # "shelf" BY <2>7 DEF Writes
  <2> QED BY <2>1, <2>7, <2>8 DEF Renaming, Orderly, Takes, D
<1>13. ASSUME CmdStash PROVE Renaming' /\ todo = <<>>
  <2>1. ASSUME NEW x, StashPop(x) PROVE Renaming' /\ todo = <<>> BY <1>12, <2>1 DEF StashPop
  <2>2. ASSUME NEW x, StashDrop(x) PROVE Renaming' /\ todo = <<>> BY <1>12, <2>2 DEF StashDrop
  <2> QED BY <1>9, <1>10, <1>11, <1>13, <2>1, <2>2 DEF CmdStash
<1>14. ASSUME CmdReset PROVE Renaming' /\ todo = <<>> BY <1>7, <1>14 DEF CmdReset
<1> QED BY <1>4, <1>5, <1>6, <1>8, <1>13, <1>14

\* A rebase and a bisect leave the shelves alone.
LEMMA OthersKeep ==
  ASSUME Rebases \/ Bisects
  PROVE  todo = <<>> /\ UNCHANGED shelves
<1>1. ASSUME NEW ws, NEW n, NEW m, NEW made, Runs(ws, n, m, made)
      PROVE  todo = <<>> /\ UNCHANGED shelves
  BY <1>1 DEF Runs, Begins, Proceed, Idle
<1>2. ASSUME NEW k, NEW ws, NEW n, NEW m, NEW made, Steps(k, ws, n, m, made)
      PROVE  todo = <<>> /\ UNCHANGED shelves
  BY <1>2 DEF Steps, Proceed
<1>3. ASSUME Rebases PROVE todo = <<>> /\ UNCHANGED shelves
  <2>1. ASSUME NEW up, RebaseStart(up) PROVE todo = <<>> /\ UNCHANGED shelves
    BY <1>1, <2>1, Zenon DEF RebaseStart
  <2>2. ASSUME NEW c, CherryPick(c) PROVE todo = <<>> /\ UNCHANGED shelves
    BY <1>1, <2>2, Zenon DEF CherryPick
  <2>3. ASSUME RebaseContinue PROVE todo = <<>> /\ UNCHANGED shelves
    BY <1>1, <2>3, Zenon DEF RebaseContinue
  <2>4. ASSUME RebaseAbort PROVE todo = <<>> /\ UNCHANGED shelves
    BY <1>1, <2>4, Zenon DEF RebaseAbort
  <2>5. ASSUME Replay PROVE todo = <<>> /\ UNCHANGED shelves
    BY <1>2, <2>5, Zenon DEF Replay
  <2>6. ASSUME RebaseFinish PROVE todo = <<>> /\ UNCHANGED shelves
    BY <1>2, <2>6, Zenon DEF RebaseFinish
  <2> QED BY <1>3, <2>1, <2>2, <2>3, <2>4, <2>5, <2>6, Zenon DEF Rebases
<1>4. ASSUME Bisects PROVE todo = <<>> /\ UNCHANGED shelves
  <2>1. ASSUME NEW bad, NEW goods, BisectStart(bad, goods) PROVE todo = <<>> /\ UNCHANGED shelves
    BY <1>1, <2>1, Zenon DEF BisectStart
  <2>2. ASSUME NEW v, NEW c, BisectMark(v, c) PROVE todo = <<>> /\ UNCHANGED shelves
    BY <1>1, <2>2, Zenon DEF BisectMark
  <2>3. ASSUME BisectRun PROVE todo = <<>> /\ UNCHANGED shelves BY <1>1, <2>3, Zenon DEF BisectRun
  <2>4. ASSUME BisectReset PROVE todo = <<>> /\ UNCHANGED shelves
    BY <1>1, <2>4, Zenon DEF BisectReset
  <2>5. ASSUME Advance PROVE todo = <<>> /\ UNCHANGED shelves BY <1>2, <2>5, Zenon DEF Advance
  <2>6. ASSUME NEW v, RunOnce(v) PROVE todo = <<>> /\ UNCHANGED shelves
    BY <1>2, <2>6, Zenon DEF RunOnce
  <2> QED BY <1>4, <2>1, <2>2, <2>3, <2>4, <2>5, <2>6, Zenon DEF Bisects
<1> QED BY <1>3, <1>4

-----------------------------------------------------------------------------
(* The theorem.                                                             *)

KInv == TInv /\ (mishaps = 0 => Renaming)

\* A rename, no command having been killed, keeps every shelf.
RenameKeeps ==
  mishaps' = 0 /\ todo # <<>> /\ Head(todo).op = "mv" =>
    \A x \in DOMAIN shelves : \E y \in DOMAIN shelves' : shelves'[y] = shelves[x]

LEMMA InitKInv == Init => KInv
<1> SUFFICES ASSUME Init PROVE Renaming BY InitTInv DEF KInv
<1>1. PICK s \in Starts : commits = s.commits /\ shelves = s.shelves BY DEF Init
<1>2. todo = <<>> BY DEF Init
<1>3. DOMAIN s.commits \subseteq Int
  <2>1. IsSeq(s.commits) BY StartsAssumption, AnySeq
  <2> QED BY <2>1, DomainIs
<1>4. DOMAIN shelves \in SUBSET Nums /\ \A x \in DOMAIN shelves : shelves[x] \in Int
  BY <1>1, <1>3, StartsAssumption DEF Nums
<1>5. Orderly(todo, DOMAIN shelves) BY <1>2, <1>4, NoWrites, OrderlyCalm
<1>6. \A i \in 1 .. Len(todo) : FALSE BY <1>2, EmptySeq
<1> QED BY <1>4, <1>5, <1>6 DEF Renaming

LEMMA NextKInv == KInv /\ [Next]_vars => KInv' /\ RenameKeeps
<1> SUFFICES ASSUME KInv, [Next]_vars PROVE KInv' /\ RenameKeeps OBVIOUS
<1>1. TInv /\ TInv' /\ mishaps \in Nat BY NextTInv DEF KInv, TInv, HInv
<1>2. mishaps' = mishaps \/ mishaps' = mishaps + 1
  BY DEF vars, Next, Edit, Crash, Switch, Meanwhile
<1>3. ASSUME mishaps' = 0
      PROVE  /\ mishaps = 0 /\ Renaming /\ IsSeq(todo) /\ IsFiniteSet(DOMAIN shelves)
             /\ Len(commits) \in Nat /\ Shape'
  <2>1. mishaps = 0 BY <1>1, <1>2, <1>3
  <2>2. Safe /\ Safe' BY <1>1, <1>3, <2>1 DEF TInv
  <2> QED BY <2>1, <2>2 DEF KInv, Safe, Shape, Ordered, IsSeq
<1> SUFFICES ASSUME mishaps' = 0
             PROVE  /\ Renaming'
                    /\ todo # <<>> /\ Head(todo).op = "mv" =>
                         \A x \in DOMAIN shelves : \E y \in DOMAIN shelves' : shelves'[y] = shelves[x]
  BY <1>1 DEF KInv, RenameKeeps
<1>4. ASSUME UNCHANGED <<todo, shelves>>
      PROVE  /\ Renaming'
             /\ \A x \in DOMAIN shelves : \E y \in DOMAIN shelves' : shelves'[y] = shelves[x]
  BY <1>3, <1>4 DEF Renaming, Orderly, Takes
<1>5. CASE UNCHANGED vars BY <1>4, <1>5 DEF vars, cmdVars
<1>6. ASSUME NEW f, NEW v, Edit(f, v) PROVE UNCHANGED <<todo, shelves>> BY <1>6 DEF Edit, cmdVars
<1>7. CASE Write BY <1>3, <1>7, WriteRenames
<1>8. ASSUME Crash PROVE FALSE BY <1>3, <1>8 DEF Crash
<1>9. ASSUME \/ CmdCommit \/ (\E b : CmdCheckout(b)) \/ (\E b, force : DeleteBranch(b, force))
             \/ CmdStash \/ CmdTag \/ CmdNotes \/ CmdReset \/ CmdAmend \/ GC
      PROVE  Renaming' /\ todo = <<>>
  BY <1>3, <1>9, CommandRenames
<1>10. ASSUME Rebases \/ Bisects, task' = task PROVE Renaming' /\ todo = <<>>
  <2>1. task' # "shelves" BY <1>10 DEF Rebases, Bisects
  <2>2. \A w \in Writes(todo') : Calm(w) BY <1>3, <2>1 DEF Shape, WellFormed, Calm, Writes
  <2>3. todo = <<>> /\ UNCHANGED shelves BY <1>10, OthersKeep
  <2> QED BY <1>3, <2>2, <2>3, CalmRenames
<1>11. CASE Next
  <2>1. \/ UNCHANGED <<todo, shelves>>
        \/ Write
        \/ \/ CmdCommit \/ (\E b : CmdCheckout(b)) \/ (\E b, force : DeleteBranch(b, force))
           \/ CmdStash \/ CmdTag \/ CmdNotes \/ CmdReset \/ CmdAmend \/ GC
        \/ (Rebases \/ Bisects) /\ task' = task
    BY <1>6, <1>8, <1>11, Zenon DEF Next, Switch, Stashes, Meanwhile
  <2> QED BY <1>4, <1>7, <1>9, <1>10, <2>1
<1> QED BY <1>5, <1>11

\* compactShelves renames every shelf twice, and no rename of it is onto a file
\* another shelf still has: as long as no command is killed, renumbering after
\* a pop or a drop, of shelves of any number and age, loses none.
THEOREM ShelvesStay == Spec => ShelvesKept
<1>1. RenameKeeps =>
        \A x \in DOMAIN shelves :
          mishaps' = 0 /\ shelves[x] > 0 /\ (todo # <<>> /\ Head(todo).op = "mv")
            => \E y \in DOMAIN shelves' : shelves'[y] = shelves[x]
  BY DEF RenameKeeps
<1> QED BY <1>1, InitKInv, NextKInv, PTL DEF Spec, ShelvesKept

-----------------------------------------------------------------------------
(* A rebase replays its branch in order (RebaseInOrder). First parents, in  *)
(* any history cs.                                                          *)

First(cs, c) == IF cs[c].parents = <<>> THEN Unborn ELSE cs[c].parents[1]

\* First parents are older.
Descending(cs) == Ordered(cs) /\ \A c \in 1 .. Len(cs) : First(cs, c) \in 0 .. c - 1

Walk(cs, tip, stop) ==
  LET back[c \in 0 .. Len(cs)] ==
        IF c = Unborn \/ c \in Lineage(cs, stop) THEN <<>> ELSE Append(back[First(cs, c)], c)
  IN  back[tip]

LEMMA FirstParentsAre ==
  /\ \A c, stop : FirstParents(c, stop) = Walk(commits, c, stop)
  /\ \A c, stop : FirstParents(c, stop)' = Walk(commits', c, stop)
BY Zenon DEF FirstParents, Walk, First, FirstParent, Ancestors, Lineage

\* f is the function Walk recurs on.
WalksBack(cs, stop, f) ==
  f = [c \in 0 .. Len(cs) |->
         IF c = Unborn \/ c \in Lineage(cs, stop) THEN <<>> ELSE Append(f[First(cs, c)], c)]

\* There is one: step by step, from the oldest commit.
LEMMA WalkExists ==
  ASSUME NEW cs, Descending(cs), NEW stop
  PROVE  \E f : WalksBack(cs, stop, f)
<1> DEFINE e(f, c) ==
             IF c = Unborn \/ c \in Lineage(cs, stop) THEN <<>> ELSE Append(f[First(cs, c)], c)
           Upto(n) == \E f : f = [c \in 0 .. n |-> e(f, c)]
           Bad == {n \in 0 .. Len(cs) : ~Upto(n)}
<1>1. Len(cs) \in Nat /\ \A c \in 1 .. Len(cs) : First(cs, c) \in 0 .. c - 1
  BY DEF Descending, Ordered, IsSeq
<1>2. Upto(0)
  <2> DEFINE f == [c \in 0 .. 0 |-> <<>>]
  <2>1. \A c \in 0 .. 0 : e(f, c) = <<>> BY DEF Unborn
  <2>2. f = [c \in 0 .. 0 |-> e(f, c)] BY <2>1
  <2> QED BY <2>2
<1>3. ASSUME NEW n \in 1 .. Len(cs), Upto(n - 1) PROVE Upto(n)
  <2>1. PICK f : f = [c \in 0 .. n - 1 |-> e(f, c)] BY <1>3
  <2> DEFINE g == [c \in 0 .. n |-> IF c = n THEN e(f, n) ELSE f[c]]
  <2>2. \A c \in 0 .. n - 1 : c \in 0 .. n /\ c # n /\ g[c] = f[c] BY <1>1
  <2>3. ASSUME NEW c \in 0 .. n PROVE e(g, c) = e(f, c)
    <3>1. CASE c = Unborn BY <3>1
    <3>2. CASE c # Unborn
      <4>1. c \in 1 .. Len(cs) /\ 0 .. c - 1 \subseteq 0 .. n - 1 BY <1>1, <3>2 DEF Unborn
      <4>2. g[First(cs, c)] = f[First(cs, c)]
        <5> HIDE DEF g
        <5> QED BY <1>1, <2>2, <4>1
      <4> HIDE DEF g
      <4> QED BY <4>2
    <3> QED BY <3>1, <3>2
  <2>4. ASSUME NEW c \in 0 .. n PROVE g[c] = e(g, c)
    <3>1. CASE c = n BY <2>3, <3>1
    <3>2. CASE c # n
      <4>1. c \in 0 .. n - 1 BY <1>1, <3>2
      <4>2. f[c] = e(f, c)
        <5> HIDE DEF e
        <5> QED BY <2>1, <4>1
      <4>3. e(g, c) = e(f, c) BY <2>3
      <4> HIDE DEF e, g
      <4> QED BY <2>2, <4>1, <4>2, <4>3
    <3> QED BY <3>1, <3>2
  <2>5. g = [c \in 0 .. n |-> g[c]] OBVIOUS
  <2> HIDE DEF g, e
  <2>6. g = [c \in 0 .. n |-> e(g, c)] BY <2>4, <2>5
  <2> QED BY <2>6
<1> HIDE DEF Upto
<1>4. Bad = {}
  <2> SUFFICES ASSUME Bad # {} PROVE FALSE OBVIOUS
  <2>1. Bad \in SUBSET Nat BY <1>1
  <2>2. PICK n \in Bad : \A m \in Bad : n <= m
    <3> HIDE DEF Bad
    <3> QED BY <2>1, LeastNumber
  <2>3. n \in 1 .. Len(cs) BY <1>1, <1>2, <2>2
  <2>4. n - 1 \in 0 .. Len(cs) /\ ~(n <= n - 1) BY <1>1, <2>3
  <2>5. Upto(n - 1) BY <2>2, <2>4
  <2> QED BY <1>3, <2>2, <2>3, <2>5
<1>5. Upto(Len(cs)) BY <1>1, <1>4
<1> QED BY <1>5 DEF Upto, WalksBack

LEMMA WalkUnfolds ==
  ASSUME NEW cs, Descending(cs), NEW stop
  PROVE  /\ Walk(cs, Unborn, stop) = <<>>
         /\ \A c \in 1 .. Len(cs) :
              Walk(cs, c, stop) = IF c \in Lineage(cs, stop) THEN <<>>
                                  ELSE Append(Walk(cs, First(cs, c), stop), c)
<1> DEFINE back[c \in 0 .. Len(cs)] ==
             IF c = Unborn \/ c \in Lineage(cs, stop) THEN <<>> ELSE Append(back[First(cs, c)], c)
<1>1. back = [c \in 0 .. Len(cs) |->
                IF c = Unborn \/ c \in Lineage(cs, stop) THEN <<>> ELSE Append(back[First(cs, c)], c)]
  <2>1. PICK f : WalksBack(cs, stop, f) BY WalkExists
  <2>2. f = [c \in 0 .. Len(cs) |->
               IF c = Unborn \/ c \in Lineage(cs, stop) THEN <<>> ELSE Append(f[First(cs, c)], c)]
    BY <2>1, Zenon DEF WalksBack
  <2> QED BY <2>2, Zenon DEF back
<1>2. \A c : Walk(cs, c, stop) = back[c] BY DEF Walk, back
<1> HIDE DEF back
<1>3. Len(cs) \in Nat BY DEF Descending, Ordered, IsSeq
<1>4. back[Unborn] = <<>> BY <1>1, <1>3 DEF Unborn
<1>5. ASSUME NEW c \in 1 .. Len(cs)
      PROVE  back[c] = IF c \in Lineage(cs, stop) THEN <<>> ELSE Append(back[First(cs, c)], c)
  <2>1. c \in 0 .. Len(cs) /\ c # Unborn BY <1>3 DEF Unborn
  <2> QED BY <1>1, <2>1
<1>6. ASSUME NEW c \in 1 .. Len(cs)
      PROVE  Walk(cs, c, stop) = IF c \in Lineage(cs, stop) THEN <<>>
                                 ELSE Append(Walk(cs, First(cs, c), stop), c)
  <2> DEFINE p == First(cs, c)
  <2> HIDE DEF p
  <2>1. back[c] = IF c \in Lineage(cs, stop) THEN <<>> ELSE Append(back[p], c) BY <1>5 DEF p
  <2>2. Walk(cs, c, stop) = back[c] /\ Walk(cs, p, stop) = back[p] BY <1>2
  <2>3. Walk(cs, c, stop) = IF c \in Lineage(cs, stop) THEN <<>> ELSE Append(Walk(cs, p, stop), c)
    BY <2>1, <2>2
  <2> QED BY <2>3 DEF p
<1>7. Walk(cs, Unborn, stop) = <<>> BY <1>2, <1>4
<1> QED BY <1>6, <1>7

\* The commits of a walk, oldest first, are numbered in that order.
LEMMA WalkIs ==
  ASSUME NEW cs, Descending(cs), NEW stop, NEW c \in 0 .. Len(cs)
  PROVE  /\ Walk(cs, c, stop) \in Seq(1 .. c)
         /\ \A i, j \in 1 .. Len(Walk(cs, c, stop)) :
              i < j => Walk(cs, c, stop)[i] < Walk(cs, c, stop)[j]
<1> DEFINE Good(x) == /\ Walk(cs, x, stop) \in Seq(1 .. x)
                      /\ \A i, j \in 1 .. Len(Walk(cs, x, stop)) :
                           i < j => Walk(cs, x, stop)[i] < Walk(cs, x, stop)[j]
           Bad == {x \in 0 .. Len(cs) : ~Good(x)}
<1>1. Len(cs) \in Nat /\ \A x \in 1 .. Len(cs) : First(cs, x) \in 0 .. x - 1
  BY DEF Descending, Ordered, IsSeq
<1>2. \A x : Walk(cs, x, stop) = <<>> => Good(x) BY EmptySeq
<1>3. Good(0) BY <1>2, WalkUnfolds DEF Unborn
<1>4. ASSUME NEW x \in 1 .. Len(cs), Good(First(cs, x)), Walk(cs, x, stop) # <<>> PROVE Good(x)
  <2> DEFINE p == First(cs, x)
             s == Walk(cs, p, stop)
             w == Walk(cs, x, stop)
  <2>1. w = Append(s, x) BY <1>4, WalkUnfolds
  <2>2. s \in Seq(1 .. p) /\ p \in 0 .. x - 1 /\ \A i, j \in 1 .. Len(s) : i < j => s[i] < s[j]
    BY <1>1, <1>4
  <2> HIDE DEF s, w, p
  <2>3. s \in Seq(1 .. x) /\ Len(s) \in Nat /\ \A i \in 1 .. Len(s) : s[i] \in 1 .. p
    <3>1. 1 .. p \subseteq 1 .. x BY <1>1, <2>2
    <3> QED BY <2>2, <3>1, SeqMonotonic, LenProperties, ElementOfSeq
  <2>4. /\ w \in Seq(1 .. x) /\ Len(w) = Len(s) + 1 /\ w[Len(s) + 1] = x
        /\ \A i \in 1 .. Len(s) : w[i] = s[i]
    <3>1. x \in 1 .. x BY <1>1
    <3> QED BY <2>1, <2>3, <3>1, AppendProperties
  <2>5. ASSUME NEW i \in 1 .. Len(w), NEW j \in 1 .. Len(w), i < j PROVE w[i] < w[j]
    <3>1. i \in 1 .. Len(s) BY <2>3, <2>4, <2>5
    <3>2. CASE j \in 1 .. Len(s) BY <2>2, <2>4, <2>5, <3>1, <3>2
    <3>3. CASE j = Len(s) + 1
      <4>1. w[i] = s[i] /\ w[j] = x /\ s[i] \in 1 .. p BY <2>3, <2>4, <3>1, <3>3
      <4> QED BY <1>1, <2>2, <4>1
    <3> QED BY <2>3, <2>4, <3>2, <3>3
  <2> QED BY <2>4, <2>5 DEF w
<1> HIDE DEF Good
<1>5. Bad = {}
  <2> SUFFICES ASSUME Bad # {} PROVE FALSE OBVIOUS
  <2>1. Bad \in SUBSET Nat BY <1>1
  <2>2. PICK x \in Bad : \A y \in Bad : x <= y
    <3> HIDE DEF Bad
    <3> QED BY <2>1, LeastNumber
  <2>3. x \in 1 .. Len(cs) BY <1>1, <1>3, <2>2
  <2>4. First(cs, x) \in 0 .. Len(cs) /\ ~(x <= First(cs, x)) BY <1>1, <2>3
  <2>5. Good(First(cs, x)) BY <2>2, <2>4
  <2> QED BY <1>2, <1>4, <2>2, <2>3, <2>5
<1>6. Good(c) BY <1>5
<1> QED BY <1>6 DEF Good

\* New commits change no walk.
LEMMA WalkStays ==
  ASSUME NEW cs, Descending(cs), NEW ds, Descending(ds), Len(cs) <= Len(ds),
         \A i \in 1 .. Len(cs) : ds[i] = cs[i], NEW stop \in 1 .. Len(cs), NEW c \in 0 .. Len(cs)
  PROVE  Walk(ds, c, stop) = Walk(cs, c, stop)
<1> DEFINE Bad == {x \in 0 .. Len(cs) : Walk(ds, x, stop) # Walk(cs, x, stop)}
<1>1. Len(cs) \in Nat /\ Len(ds) \in Nat /\ \A x \in 1 .. Len(cs) : First(cs, x) \in 0 .. x - 1
  BY DEF Descending, Ordered, IsSeq
<1>2. Lineage(ds, stop) = Lineage(cs, stop) BY LineageStays DEF Descending
<1>3. Bad = {}
  <2> SUFFICES ASSUME Bad # {} PROVE FALSE OBVIOUS
  <2>1. Bad \in SUBSET Nat BY <1>1
  <2>2. PICK x \in Bad : \A y \in Bad : x <= y
    <3> HIDE DEF Bad
    <3> QED BY <2>1, LeastNumber
  <2>3. x \in 0 .. Len(cs) /\ Walk(ds, x, stop) # Walk(cs, x, stop) BY <2>2
  <2>4. Walk(ds, 0, stop) = Walk(cs, 0, stop) BY WalkUnfolds DEF Unborn
  <2>5. x \in 1 .. Len(cs) /\ x \in 1 .. Len(ds) BY <1>1, <2>3, <2>4
  <2>6. First(ds, x) = First(cs, x) BY <2>5 DEF First
  <2>7. First(cs, x) \in 0 .. Len(cs) /\ ~(x <= First(cs, x)) BY <1>1, <2>5
  <2>8. Walk(ds, First(cs, x), stop) = Walk(cs, First(cs, x), stop) BY <2>2, <2>7
  <2>9. Walk(cs, x, stop) = (IF x \in Lineage(cs, stop) THEN <<>>
                             ELSE Append(Walk(cs, First(cs, x), stop), x))
    BY <2>5, WalkUnfolds
  <2>10. Walk(ds, x, stop) = (IF x \in Lineage(ds, stop) THEN <<>>
                              ELSE Append(Walk(ds, First(ds, x), stop), x))
    BY <2>5, WalkUnfolds
  <2> QED BY <1>2, <2>3, <2>6, <2>8, <2>9, <2>10
<1> QED BY <1>3

-----------------------------------------------------------------------------
(* A rebase on its way.                                                     *)

TreeIn(cs, c) == IF c = Unborn THEN NoTree ELSE cs[c].tree
Clash(cs, target, tip) ==
  LET b == TreeIn(cs, First(cs, target)) o == TreeIn(cs, tip) t == TreeIn(cs, target)
  IN  {f \in Files : o[f] # t[f] /\ o[f] # b[f] /\ t[f] # b[f]}

StepsIn(cs, walk, done) ==
  LET copies == {i \in DOMAIN walk : cs[walk[i]].of # 0}
  IN  \E at \in [copies -> DOMAIN done] :
        /\ \A i \in copies : done[at[i]] = cs[walk[i]].of
        /\ \A i, j \in copies : i < j => at[i] < at[j]

\* d is on the way from up to t, or did not apply to what was there.
Answered(cs, d, t, up) ==
  \/ \E i \in DOMAIN Walk(cs, t, up) : cs[Walk(cs, t, up)[i]].of = d
  \/ \E c \in Lineage(cs, t) : Clash(cs, d, c) # {}

\* The rebase st, its scratch branch at t, in a repository with commits cs.
Tracks(st, t, cs) ==
  /\ {"done", "pending", "orig", "up"} \subseteq DOMAIN st
  /\ t \in 1 .. Len(cs) /\ st.up \in 1 .. Len(cs) /\ st.orig \in 1 .. Len(cs)
  /\ st.done \in Seq(1 .. Len(cs)) /\ st.pending \in Seq(1 .. Len(cs))
  /\ st.done \o st.pending = Walk(cs, st.orig, st.up)
  /\ st.up \in Lineage(cs, t)
  /\ StepsIn(cs, Walk(cs, t, st.up), st.done)
  /\ \A k \in DOMAIN st.done : Answered(cs, st.done[k], t, st.up)

\* It stopped at a commit that does not apply to what is there.
Stuck(st, t, cs) ==
  st.pending # <<>> => \E c \in Lineage(cs, t) : Clash(cs, Head(st.pending), c) # {}

\* What a rebase has done and what is pending, of the commits S.
Parted(st, S) ==
  /\ {"done", "pending", "orig", "up"} \subseteq DOMAIN st
  /\ st.done \in Seq(S) /\ st.pending \in Seq(S)

\* p is st with one more done.
OneOn(st, p, S) ==
  /\ Parted(p, S) /\ p.orig = st.orig /\ p.up = st.up
  /\ Head(st.pending) \in S /\ p.done \o p.pending = st.done \o st.pending
  /\ Len(st.done) \in Nat /\ DOMAIN st.done = 1 .. Len(st.done)
  /\ DOMAIN p.done = 1 .. Len(st.done) + 1
  /\ p.done[Len(st.done) + 1] = Head(st.pending)
  /\ \A k \in 1 .. Len(st.done) : p.done[k] = st.done[k]

LEMMA PoppedIs ==
  ASSUME NEW S, NEW st, Parted(st, S), st.pending # <<>>
  PROVE  OneOn(st, Popped(st), S)
<1> DEFINE p == Popped(st)
           d == st.done
           q == st.pending
<1>1. /\ {"done", "pending", "orig", "up"} \subseteq DOMAIN p /\ p.orig = st.orig /\ p.up = st.up
      /\ p.done = Append(d, Head(q)) /\ p.pending = Tail(q)
  BY DEF Parted, Popped
<1>2. d \in Seq(S) /\ q \in Seq(S) /\ q # <<>> BY DEF Parted
<1> HIDE DEF p, d, q
<1>3. /\ Head(q) \in S /\ Tail(q) \in Seq(S) /\ Len(Tail(q)) = Len(q) - 1 /\ Head(q) = q[1]
      /\ \A i \in 1 .. Len(Tail(q)) : Tail(q)[i] = q[i + 1]
  BY <1>2, HeadTailProperties
<1>4. /\ Append(d, Head(q)) \in Seq(S) /\ Len(Append(d, Head(q))) = Len(d) + 1
      /\ \A i \in 1 .. Len(d) : Append(d, Head(q))[i] = d[i]
      /\ Append(d, Head(q))[Len(d) + 1] = Head(q)
  BY <1>2, <1>3, AppendProperties
<1>5. /\ Len(d) \in Nat /\ DOMAIN d = 1 .. Len(d) /\ Len(q) \in Nat
      /\ DOMAIN Append(d, Head(q)) = 1 .. Len(d) + 1
  BY <1>2, <1>4, LenProperties
<1>6. Append(d, Head(q)) \o Tail(q) = d \o q
  <2> DEFINE a == Append(d, Head(q))
             r == Tail(q)
  <2>1. a \in Seq(S) /\ r \in Seq(S) /\ Len(a) = Len(d) + 1 /\ Len(r) = Len(q) - 1 BY <1>3, <1>4
  <2>2. \A i \in 1 .. Len(d) : a[i] = d[i] BY <1>4
  <2>3. a[Len(d) + 1] = q[1] BY <1>3, <1>4
  <2>4. \A i \in 1 .. Len(r) : r[i] = q[i + 1] BY <1>3
  <2> HIDE DEF a, r
  <2>5. /\ a \o r \in Seq(S) /\ Len(a \o r) = Len(a) + Len(r)
        /\ \A i \in 1 .. Len(a) + Len(r) : (a \o r)[i] = IF i <= Len(a) THEN a[i] ELSE r[i - Len(a)]
    BY <2>1, ConcatProperties
  <2>6. /\ d \o q \in Seq(S) /\ Len(d \o q) = Len(d) + Len(q)
        /\ \A i \in 1 .. Len(d) + Len(q) : (d \o q)[i] = IF i <= Len(d) THEN d[i] ELSE q[i - Len(d)]
    BY <1>2, ConcatProperties
  <2>7. Len(a \o r) = Len(d \o q) BY <1>5, <2>1, <2>5, <2>6
  <2>8. ASSUME NEW i \in 1 .. Len(a \o r) PROVE (a \o r)[i] = (d \o q)[i]
    <3>1. i \in 1 .. Len(d) + Len(q) /\ i \in 1 .. Len(a) + Len(r) BY <2>5, <2>6, <2>7
    <3>2. CASE i <= Len(d) BY <1>5, <2>1, <2>2, <2>5, <2>6, <3>1, <3>2
    <3>3. CASE i = Len(d) + 1
      <4>1. i <= Len(a) /\ ~(i <= Len(d)) /\ i - Len(d) = 1 BY <1>5, <2>1, <3>3
      <4> QED BY <2>3, <2>5, <2>6, <3>1, <3>3, <4>1
    <3>4. CASE i > Len(d) + 1
      <4>1. /\ ~(i <= Len(a)) /\ ~(i <= Len(d)) /\ i - Len(a) \in 1 .. Len(r)
            /\ (i - Len(a)) + 1 = i - Len(d)
        BY <1>5, <2>1, <3>1, <3>4
      <4> QED BY <2>4, <2>5, <2>6, <3>1, <4>1
    <3> QED BY <1>5, <3>1, <3>2, <3>3, <3>4
  <2>9. a \o r = d \o q BY <2>5, <2>6, <2>7, <2>8, SeqEqual
  <2> QED BY <2>9 DEF a, r
<1>7. OneOn(st, p, S)
  <2>1. Parted(p, S) BY <1>1, <1>3, <1>4 DEF Parted
  <2>2. /\ p.done \o p.pending = d \o q /\ DOMAIN p.done = 1 .. Len(d) + 1
        /\ p.done[Len(d) + 1] = Head(q) /\ \A k \in 1 .. Len(d) : p.done[k] = d[k]
    BY <1>1, <1>4, <1>5, <1>6
  <2> QED BY <1>1, <1>3, <1>5, <2>1, <2>2 DEF OneOn, d, q
<1> QED BY <1>7 DEF p

\* A commit n on top of t.
Grows(cs, ds, t) ==
  /\ Descending(cs) /\ Descending(ds) /\ Len(ds) = Len(cs) + 1
  /\ \A i \in 1 .. Len(cs) : ds[i] = cs[i]
  /\ t \in 1 .. Len(cs) /\ ds[Len(ds)].parents = <<t>>

\* It has t's ancestors, and what conflicts with one did so before.
LEMMA GrownLineage ==
  ASSUME NEW cs, NEW ds, NEW t, Grows(cs, ds, t)
  PROVE  /\ Lineage(ds, Len(ds)) = {Len(ds)} \union Lineage(cs, t)
         /\ \A d \in 1 .. Len(cs), c \in Lineage(cs, t) : Clash(ds, d, c) = Clash(cs, d, c)
<1> DEFINE n == Len(ds)
<1>1. /\ Descending(cs) /\ Descending(ds) /\ n = Len(cs) + 1
      /\ \A i \in 1 .. Len(cs) : ds[i] = cs[i]
      /\ t \in 1 .. Len(cs) /\ ds[n].parents = <<t>>
  BY DEF Grows
<1>2. Ordered(cs) /\ Ordered(ds) BY <1>1 DEF Descending
<1>3. Len(cs) \in Nat /\ n \in 1 .. Len(ds) /\ Len(cs) <= Len(ds)
  <2>1. Len(cs) \in Nat BY <1>2 DEF Ordered, IsSeq
  <2> QED BY <1>1, <2>1
<1>4. ParentsIn(ds, n) = {t}
  <2>1. ParentsIn(ds, n) = {<<t>>[i] : i \in DOMAIN <<t>>} BY <1>1 DEF ParentsIn
  <2> QED BY <2>1
<1> HIDE DEF n
<1>5. Lineage(ds, n) = {n} \union Lineage(cs, t)
  <2>1. Lineage(ds, n) = {n} \union UNION {Lineage(ds, p) : p \in {t}}
    BY <1>2, <1>3, <1>4, LineageUnfolds
  <2>2. Lineage(ds, t) = Lineage(cs, t) BY <1>1, <1>2, <1>3, LineageStays
  <2> QED BY <2>1, <2>2
<1>6. ASSUME NEW d \in 1 .. Len(cs), NEW c \in Lineage(cs, t) PROVE Clash(ds, d, c) = Clash(cs, d, c)
  <2>1. c \in 1 .. Len(cs)
    <3>1. c \in 1 .. t BY <1>1, <1>2, LineageIs
    <3> QED BY <1>1, <1>3, <3>1
  <2>2. \A x \in 0 .. Len(cs) : TreeIn(ds, x) = TreeIn(cs, x) BY <1>1, <1>3 DEF TreeIn, Unborn
  <2>3. First(ds, d) = First(cs, d) /\ First(cs, d) \in 0 .. Len(cs)
    <3>1. First(cs, d) \in 0 .. d - 1 BY <1>1 DEF Descending
    <3> QED BY <1>1, <1>3, <3>1 DEF First
  <2>4. d \in 0 .. Len(cs) /\ c \in 0 .. Len(cs) BY <1>3, <2>1
  <2> QED BY <2>2, <2>3, <2>4 DEF Clash
<1> QED BY <1>5, <1>6 DEF n

\* The way v is w, and then the last of ds.
Longer(cs, ds, w, v) ==
  /\ Len(w) \in Nat /\ DOMAIN w = 1 .. Len(w) /\ DOMAIN v = 1 .. Len(w) + 1
  /\ v[Len(w) + 1] = Len(ds)
  /\ \A i \in 1 .. Len(w) : v[i] = w[i] /\ ds[v[i]] = cs[w[i]]

LEMMA GrownIs ==
  ASSUME NEW cs, NEW ds, NEW t, Grows(cs, ds, t), NEW up \in 1 .. Len(cs)
  PROVE  Longer(cs, ds, Walk(cs, t, up), Walk(ds, Len(ds), up))
<1> DEFINE n == Len(ds)
           w == Walk(cs, t, up)
           v == Walk(ds, n, up)
<1>1. /\ Descending(cs) /\ Descending(ds) /\ Ordered(ds)
      /\ n = Len(cs) + 1 /\ Len(cs) \in Nat /\ n \in 1 .. Len(ds) /\ Len(cs) <= Len(ds)
      /\ \A i \in 1 .. Len(cs) : ds[i] = cs[i]
      /\ t \in 1 .. Len(cs) /\ ds[n].parents = <<t>>
  <2>1. /\ Descending(cs) /\ Descending(ds) /\ n = Len(cs) + 1
        /\ \A i \in 1 .. Len(cs) : ds[i] = cs[i]
        /\ t \in 1 .. Len(cs) /\ ds[n].parents = <<t>>
    BY DEF Grows
  <2>2. Ordered(cs) /\ Ordered(ds) BY <2>1 DEF Descending
  <2>3. Len(cs) \in Nat BY <2>2 DEF Ordered, IsSeq
  <2> QED BY <2>1, <2>2, <2>3
<1> HIDE DEF n
<1>2. First(ds, n) = t BY <1>1 DEF First
<1>3. n \notin Lineage(ds, up)
  <2>1. up \in 1 .. Len(ds) /\ n \notin 1 .. up BY <1>1
  <2> QED BY <1>1, <2>1, LineageIs
<1>4. v = Append(Walk(ds, t, up), n) BY <1>1, <1>2, <1>3, WalkUnfolds
<1>5. Walk(ds, t, up) = w
  <2>1. t \in 0 .. Len(cs) BY <1>1
  <2> QED BY <1>1, <2>1, WalkStays
<1>6. w \in Seq(1 .. t)
  <2>1. t \in 0 .. Len(cs) BY <1>1
  <2> QED BY <1>1, <2>1, WalkIs
<1> HIDE DEF w, v
<1>7. /\ w \in Seq(1 .. n) /\ Len(w) \in Nat /\ DOMAIN w = 1 .. Len(w)
      /\ \A i \in 1 .. Len(w) : w[i] \in 1 .. t
  <2>1. 1 .. t \subseteq 1 .. n BY <1>1
  <2> QED BY <1>6, <2>1, SeqMonotonic, LenProperties, ElementOfSeq
<1>8. /\ Append(w, n) \in Seq(1 .. n) /\ Len(Append(w, n)) = Len(w) + 1
       /\ \A i \in 1 .. Len(w) : Append(w, n)[i] = w[i]
       /\ Append(w, n)[Len(w) + 1] = n
  <2>1. n \in 1 .. n BY <1>1
  <2> QED BY <1>7, <2>1, AppendProperties
<1>9. v = Append(w, n) BY <1>4, <1>5
<1>10. DOMAIN v = 1 .. Len(w) + 1 BY <1>8, <1>9, LenProperties
<1>11. ASSUME NEW i \in 1 .. Len(w) PROVE v[i] = w[i] /\ ds[v[i]] = cs[w[i]]
  <2>1. w[i] \in 1 .. Len(cs)
    <3>1. w[i] \in 1 .. t BY <1>7
    <3>2. t \in 1 .. Len(cs) BY <1>1
    <3> QED BY <3>1, <3>2
  <2>2. v[i] = w[i] BY <1>8, <1>9
  <2> QED BY <1>1, <2>1, <2>2
<1>12. Longer(cs, ds, w, v) BY <1>7, <1>8, <1>9, <1>10, <1>11 DEF Longer, n
<1> QED BY <1>12 DEF n, w, v

\* It answers what t did, and what n copies.
LEMMA GrownAnswers ==
  ASSUME NEW cs, NEW ds, NEW t, Grows(cs, ds, t), NEW up \in 1 .. Len(cs), NEW d \in 1 .. Len(cs),
         Answered(cs, d, t, up) \/ ds[Len(ds)].of = d
  PROVE  Answered(ds, d, Len(ds), up)
<1> DEFINE n == Len(ds)
           w == Walk(cs, t, up)
           v == Walk(ds, n, up)
<1>1. /\ Lineage(ds, n) = {n} \union Lineage(cs, t)
      /\ Len(w) \in Nat /\ DOMAIN w = 1 .. Len(w) /\ DOMAIN v = 1 .. Len(w) + 1
      /\ v[Len(w) + 1] = n
      /\ \A i \in 1 .. Len(w) : v[i] = w[i] /\ ds[v[i]] = cs[w[i]]
      /\ \A x \in 1 .. Len(cs), c \in Lineage(cs, t) : Clash(ds, x, c) = Clash(cs, x, c)
  <2>1. Longer(cs, ds, w, v) BY GrownIs
  <2> QED BY <2>1, GrownLineage DEF Longer
<1>2. Answered(cs, d, t, up) <=> \/ \E i \in DOMAIN w : cs[w[i]].of = d
                                 \/ \E c \in Lineage(cs, t) : Clash(cs, d, c) # {}
  BY DEF Answered
<1>3. Answered(ds, d, n, up) <=> \/ \E i \in DOMAIN v : ds[v[i]].of = d
                                 \/ \E c \in Lineage(ds, n) : Clash(ds, d, c) # {}
  BY DEF Answered
<1>4. Answered(cs, d, t, up) \/ ds[n].of = d OBVIOUS
<1> HIDE DEF w, v, n
<1>5. ASSUME NEW i \in DOMAIN w, cs[w[i]].of = d PROVE \E j \in DOMAIN v : ds[v[j]].of = d
  <2>1. i \in 1 .. Len(w) /\ i \in DOMAIN v BY <1>1
  <2> QED BY <1>1, <1>5, <2>1
<1>6. ASSUME NEW c \in Lineage(cs, t), Clash(cs, d, c) # {} PROVE \E x \in Lineage(ds, n) : Clash(ds, d, x) # {}
  BY <1>1, <1>6
<1>7. ASSUME ds[n].of = d PROVE \E j \in DOMAIN v : ds[v[j]].of = d
  <2>1. Len(w) + 1 \in DOMAIN v BY <1>1
  <2> QED BY <1>1, <1>7, <2>1
<1>8. Answered(ds, d, n, up) BY <1>2, <1>3, <1>4, <1>5, <1>6, <1>7
<1> QED BY <1>8 DEF n

\* The copies keep their places, and a new one has the next.
LEMMA GrownSteps ==
  ASSUME NEW cs, NEW ds, NEW t, Grows(cs, ds, t), NEW up \in 1 .. Len(cs),
         NEW done, NEW done2, StepsIn(cs, Walk(cs, t, up), done),
         Len(done) \in Nat, DOMAIN done = 1 .. Len(done),
         \/ done2 = done /\ ds[Len(ds)].of = 0
         \/ /\ DOMAIN done2 = 1 .. Len(done) + 1 /\ \A k \in 1 .. Len(done) : done2[k] = done[k]
            /\ done2[Len(done) + 1] = ds[Len(ds)].of /\ ds[Len(ds)].of # 0
  PROVE  StepsIn(ds, Walk(ds, Len(ds), up), done2)
<1> DEFINE n == Len(ds)
           w == Walk(cs, t, up)
           v == Walk(ds, n, up)
           k == Len(done)
           l == Len(w) + 1
           A == {i \in DOMAIN w : cs[w[i]].of # 0}
           B == {i \in DOMAIN v : ds[v[i]].of # 0}
<1>1. /\ Len(w) \in Nat /\ DOMAIN w = 1 .. Len(w) /\ DOMAIN v = 1 .. l /\ v[l] = n
      /\ \A i \in 1 .. Len(w) : v[i] = w[i] /\ ds[v[i]] = cs[w[i]]
  <2>1. Longer(cs, ds, w, v) BY GrownIs
  <2> QED BY <2>1 DEF Longer
<1>2. /\ k \in Nat /\ DOMAIN done = 1 .. k
      /\ \/ done2 = done /\ ds[n].of = 0
         \/ /\ DOMAIN done2 = 1 .. k + 1 /\ \A i \in 1 .. k : done2[i] = done[i]
            /\ done2[k + 1] = ds[n].of /\ ds[n].of # 0
  OBVIOUS
<1>3. PICK at \in [A -> DOMAIN done] :
        /\ \A i \in A : done[at[i]] = cs[w[i]].of
        /\ \A i, j \in A : i < j => at[i] < at[j]
  BY DEF StepsIn
<1> HIDE DEF n, w, v, k
<1>4. /\ \A i \in A : i \in 1 .. Len(w) /\ i \in B /\ ds[v[i]].of = cs[w[i]].of
      /\ \A i \in B : i \in A \/ (i = l /\ ds[n].of # 0)
      /\ l \notin A /\ \A i \in A : i < l
  BY <1>1
<1>5. CASE done2 = done /\ ds[n].of = 0
  <2>1. A = B BY <1>4, <1>5
  <2>2. \A i \in B : done2[at[i]] = ds[v[i]].of BY <1>3, <1>4, <1>5, <2>1
  <2>3. at \in [B -> DOMAIN done2] /\ \A i, j \in B : i < j => at[i] < at[j] BY <1>3, <1>5, <2>1
  <2>4. StepsIn(ds, v, done2) BY <2>2, <2>3 DEF StepsIn
  <2> QED BY <2>4 DEF v, n
<1>6. CASE /\ DOMAIN done2 = 1 .. k + 1 /\ \A i \in 1 .. k : done2[i] = done[i]
           /\ done2[k + 1] = ds[n].of /\ ds[n].of # 0
  <2> DEFINE at2 == [i \in B |-> IF i \in A THEN at[i] ELSE k + 1]
  <2>1. \A i \in A : at[i] \in 1 .. k /\ at[i] \in 1 .. k + 1 BY <1>2, <1>3
  <2> HIDE DEF A, B, l
  <2>2. \A i \in B : at2[i] = (IF i \in A THEN at[i] ELSE k + 1) OBVIOUS
  <2>3. at2 \in [B -> DOMAIN done2]
    <3>1. k + 1 \in 1 .. k + 1 BY <1>2
    <3> QED BY <1>6, <2>1, <3>1
  <2> HIDE DEF at2
  <2>4. ASSUME NEW i \in B PROVE done2[at2[i]] = ds[v[i]].of
    <3>1. CASE i \in A BY <1>3, <1>4, <1>6, <2>1, <2>2, <3>1
    <3>2. CASE i \notin A BY <1>1, <1>4, <1>6, <2>2, <3>2
    <3> QED BY <3>1, <3>2
  <2>5. ASSUME NEW i \in B, NEW j \in B, i < j PROVE at2[i] < at2[j]
    <3>1. CASE i \in A /\ j \in A BY <1>3, <2>2, <2>5, <3>1
    <3>2. CASE i \in A /\ j \notin A
      <4>1. at2[i] \in 1 .. k /\ at2[j] = k + 1 BY <2>1, <2>2, <3>2
      <4> QED BY <1>2, <4>1
    <3>3. CASE i \notin A
      <4>1. i = l /\ j \in 1 .. l BY <1>1, <1>4, <3>3 DEF B
      <4> QED BY <1>1, <2>5, <4>1 DEF l
    <3> QED BY <3>1, <3>2, <3>3
  <2>6. StepsIn(ds, v, done2) BY <2>3, <2>4, <2>5 DEF StepsIn, B
  <2> QED BY <2>6 DEF v, n
<1> QED BY <1>2, <1>5, <1>6

\* What a rebase st has become, z, on top of t, with what n copies among what is
\* done, if it copies any.
LEMMA GrownTracks ==
  ASSUME NEW cs, NEW ds, NEW t, Grows(cs, ds, t), NEW st, Tracks(st, t, cs), NEW z,
         {"done", "pending", "orig", "up"} \subseteq DOMAIN z, z.orig = st.orig, z.up = st.up,
         z.done \in Seq(1 .. Len(cs)), z.pending \in Seq(1 .. Len(cs)),
         z.done \o z.pending = st.done \o st.pending,
         \/ z.done = st.done /\ ds[Len(ds)].of = 0
         \/ /\ DOMAIN z.done = 1 .. Len(st.done) + 1
            /\ \A k \in 1 .. Len(st.done) : z.done[k] = st.done[k]
            /\ z.done[Len(st.done) + 1] = ds[Len(ds)].of /\ ds[Len(ds)].of # 0
  PROVE  Tracks(z, Len(ds), ds)
<1> DEFINE n == Len(ds)
           k == Len(st.done)
           up == st.up
<1>1. /\ Descending(cs) /\ Descending(ds) /\ n = Len(cs) + 1 /\ Len(cs) \in Nat
      /\ \A i \in 1 .. Len(cs) : ds[i] = cs[i]
  BY DEF Grows, Descending, Ordered, IsSeq
<1>2. /\ up \in 1 .. Len(cs) /\ st.orig \in 1 .. Len(cs) /\ st.done \in Seq(1 .. Len(cs))
      /\ st.done \o st.pending = Walk(cs, st.orig, up) /\ up \in Lineage(cs, t)
      /\ StepsIn(cs, Walk(cs, t, up), st.done)
      /\ \A i \in DOMAIN st.done : Answered(cs, st.done[i], t, up)
  BY DEF Tracks
<1>3. k \in Nat /\ DOMAIN st.done = 1 .. k BY <1>2, LenProperties
<1>4. \/ z.done = st.done /\ ds[n].of = 0
      \/ /\ DOMAIN z.done = 1 .. k + 1 /\ \A i \in 1 .. k : z.done[i] = st.done[i]
         /\ z.done[k + 1] = ds[n].of /\ ds[n].of # 0
  OBVIOUS
<1>5. z.done \in Seq(1 .. n) /\ z.pending \in Seq(1 .. n)
  <2>1. 1 .. Len(cs) \subseteq 1 .. n BY <1>1
  <2> QED BY <2>1, SeqMonotonic
<1>6. \A i \in DOMAIN z.done : z.done[i] \in 1 .. Len(cs)
  <2>1. z.done \in Seq(1 .. Len(cs)) OBVIOUS
  <2> QED BY <2>1, ElementOfSeq, LenProperties
<1>7. z.done \o z.pending = Walk(ds, z.orig, z.up)
  <2>1. st.orig \in 0 .. Len(cs) /\ Len(cs) <= Len(ds) BY <1>1, <1>2
  <2>2. Walk(ds, st.orig, up) = Walk(cs, st.orig, up) BY <1>1, <1>2, <2>1, WalkStays
  <2> QED BY <1>2, <2>2
<1>8. up \in Lineage(ds, n) BY <1>2, GrownLineage
<1>9. StepsIn(ds, Walk(ds, n, up), z.done)
  BY <1>2, <1>3, <1>4, GrownSteps
<1>10. ASSUME NEW i \in DOMAIN z.done PROVE Answered(ds, z.done[i], n, up)
  <2>1. Answered(cs, z.done[i], t, up) \/ ds[n].of = z.done[i]
    <3>1. \A j \in 1 .. k : Answered(cs, st.done[j], t, up) BY <1>2, <1>3
    <3>2. CASE z.done = st.done BY <1>3, <3>1, <3>2
    <3>3. CASE /\ DOMAIN z.done = 1 .. k + 1 /\ \A j \in 1 .. k : z.done[j] = st.done[j]
               /\ z.done[k + 1] = ds[n].of
      <4>1. i \in 1 .. k \/ i = k + 1 BY <1>3, <3>3
      <4>2. CASE i \in 1 .. k BY <3>1, <3>3, <4>2
      <4>3. CASE i = k + 1 BY <3>3, <4>3
      <4> QED BY <4>1, <4>2, <4>3
    <3> QED BY <1>4, <3>2, <3>3
  <2>2. z.done[i] \in 1 .. Len(cs) BY <1>6
  <2> QED BY <1>2, <2>1, <2>2, GrownAnswers
<1>11. n \in 1 .. Len(ds) /\ up \in 1 .. Len(ds) /\ st.orig \in 1 .. Len(ds) BY <1>1, <1>2
<1> QED BY <1>5, <1>7, <1>8, <1>9, <1>10, <1>11 DEF Tracks

\* A commit that copies none leaves it where it was.
LEMMA TracksCommit ==
  ASSUME NEW cs, NEW ds, NEW t, Grows(cs, ds, t), NEW st, Tracks(st, t, cs), ds[Len(ds)].of = 0
  PROVE  Tracks(st, Len(ds), ds) /\ (Stuck(st, t, cs) => Stuck(st, Len(ds), ds))
<1>1. /\ {"done", "pending", "orig", "up"} \subseteq DOMAIN st
      /\ st.done \in Seq(1 .. Len(cs)) /\ st.pending \in Seq(1 .. Len(cs)) /\ st.up \in 1 .. Len(cs)
  BY DEF Tracks
<1>2. Tracks(st, Len(ds), ds) BY <1>1, GrownTracks
<1>3. ASSUME st.pending # <<>>, NEW c \in Lineage(cs, t), Clash(cs, Head(st.pending), c) # {}
      PROVE  \E x \in Lineage(ds, Len(ds)) : Clash(ds, Head(st.pending), x) # {}
  <2>1. Head(st.pending) \in 1 .. Len(cs) BY <1>1, <1>3, HeadTailProperties
  <2>2. /\ Clash(ds, Head(st.pending), c) = Clash(cs, Head(st.pending), c)
        /\ c \in Lineage(ds, Len(ds))
    BY <1>3, <2>1, GrownLineage
  <2> QED BY <1>3, <2>2
<1> QED BY <1>2, <1>3 DEF Stuck

\* One that copies the next to replay takes it a commit on.
LEMMA TracksPick ==
  ASSUME NEW cs, NEW ds, NEW t, Grows(cs, ds, t), NEW st, Tracks(st, t, cs),
         st.pending # <<>>, ds[Len(ds)].of = Head(st.pending)
  PROVE  Tracks(Popped(st), Len(ds), ds)
<1> DEFINE p == Popped(st)
           S == 1 .. Len(cs)
<1>1. Parted(st, S) BY DEF Tracks, Parted
<1>2. OneOn(st, p, S) BY <1>1, PoppedIs
<1> HIDE DEF p
<1>3. ds[Len(ds)].of # 0 BY <1>2 DEF OneOn
<1>4. Tracks(p, Len(ds), ds) BY <1>2, <1>3, GrownTracks DEF OneOn, Parted
<1> QED BY <1>4 DEF p

\* So does dropping a commit it is stuck at.
LEMMA TracksDrop ==
  ASSUME NEW cs, NEW t, NEW st, Tracks(st, t, cs), Stuck(st, t, cs), st.pending # <<>>
  PROVE  Tracks(Popped(st), t, cs)
<1> DEFINE p == Popped(st)
           walk == Walk(cs, t, st.up)
           S == 1 .. Len(cs)
           copies == {i \in DOMAIN walk : cs[walk[i]].of # 0}
<1>1. /\ {"done", "pending", "orig", "up"} \subseteq DOMAIN st
      /\ st.done \in Seq(1 .. Len(cs)) /\ st.pending \in Seq(1 .. Len(cs))
      /\ StepsIn(cs, walk, st.done)
      /\ \A k \in DOMAIN st.done : Answered(cs, st.done[k], t, st.up)
  BY DEF Tracks
<1>2. OneOn(st, p, S)
  <2>1. Parted(st, S) BY <1>1 DEF Parted
  <2> HIDE DEF S
  <2> QED BY <2>1, PoppedIs
<1> HIDE DEF p, walk
<1>3. StepsIn(cs, walk, p.done)
  <2>1. PICK at \in [copies -> DOMAIN st.done] :
          /\ \A i \in copies : st.done[at[i]] = cs[walk[i]].of
          /\ \A i, j \in copies : i < j => at[i] < at[j]
    BY <1>1 DEF StepsIn
  <2>2. DOMAIN st.done \subseteq DOMAIN p.done BY <1>2 DEF OneOn
  <2> HIDE DEF copies
  <2>3. at \in [copies -> DOMAIN p.done] BY <2>2
  <2>4. \A i \in copies : p.done[at[i]] = cs[walk[i]].of BY <1>2, <2>1 DEF OneOn
  <2> QED BY <2>1, <2>3, <2>4 DEF StepsIn, copies
<1>4. ASSUME NEW k \in DOMAIN p.done PROVE Answered(cs, p.done[k], t, st.up)
  <2>1. CASE k \in 1 .. Len(st.done) BY <1>1, <1>2, <2>1 DEF OneOn
  <2>2. CASE k = Len(st.done) + 1 BY <1>2, <2>2 DEF Stuck, Answered, OneOn
  <2> QED BY <1>2, <2>1, <2>2 DEF OneOn
<1>5. Tracks(p, t, cs) BY <1>2, <1>3, <1>4 DEF Tracks, OneOn, Parted, walk
<1> QED BY <1>5 DEF p

\* It begins at the upstream, with everything to replay.
LEMMA TracksStart ==
  ASSUME NEW cs, Descending(cs), NEW up \in 1 .. Len(cs), NEW tip \in 1 .. Len(cs), NEW st,
         {"done", "pending", "orig", "up"} \subseteq DOMAIN st,
         st.orig = tip, st.up = up, st.pending = Walk(cs, tip, up), st.done = <<>>
  PROVE  Tracks(st, up, cs)
<1>1. Ordered(cs) /\ Len(cs) \in Nat BY DEF Descending, Ordered, IsSeq
<1>2. up \in Lineage(cs, up) BY <1>1, LineageIs
<1>3. Walk(cs, up, up) = <<>> BY <1>2, WalkUnfolds
<1>4. Walk(cs, tip, up) \in Seq(1 .. Len(cs))
  <2>1. tip \in 0 .. Len(cs) /\ 1 .. tip \subseteq 1 .. Len(cs) BY <1>1
  <2> QED BY <2>1, WalkIs, SeqMonotonic
<1>5. st.done \in Seq(1 .. Len(cs)) /\ DOMAIN st.done = {} BY EmptySeq
<1>6. st.done \o st.pending = Walk(cs, st.orig, st.up) BY <1>4, ConcatEmptySeq
<1>7. StepsIn(cs, <<>>, st.done)
  <2>1. {i \in DOMAIN <<>> : cs[<<>>[i]].of # 0} = {} OBVIOUS
  <2>2. \E at \in [{} -> DOMAIN st.done] : TRUE
    <3>1. [i \in {} |-> 0] \in [{} -> DOMAIN st.done] OBVIOUS
    <3> QED BY <3>1
  <2> QED BY <2>1, <2>2 DEF StepsIn
<1> QED BY <1>2, <1>3, <1>4, <1>5, <1>6, <1>7 DEF Tracks

-----------------------------------------------------------------------------
(* What the writes W lead to, of the scratch branch and of the rebase saved. *)

TipTo(W, rs, t) ==
  /\ \A w \in W : Moves(w, RebaseBranch) => t = (IF w.op = "ref" THEN w.commit ELSE Missing)
  /\ rs[RebaseBranch] = t \/ \E w \in W : Moves(w, RebaseBranch)

NoteTo(W, st, s) ==
  /\ \A w \in W : w.op = "state" /\ w.file = "rebase" => w.to = s
  /\ st["rebase"] = s \/ \E w \in W : w.op = "state" /\ w.file = "rebase"

\* With cs commits: a rebase that replays is at the scratch tip, and so is one
\* that stopped.
Going(W, rs, st, n, m, cs) ==
  \E t : /\ TipTo(W, rs, t)
         /\ IF n = "replay" THEN Tracks(m, t, cs)
            ELSE \E s : NoteTo(W, st, s) /\ (s # NoState => Tracks(s, t, cs) /\ Stuck(s, t, cs))

Tidy == Going(Writes(todo), refs, state, next, mem, commits)

RInv == TInv /\ (task = "rebase" /\ mishaps = 0 => Descending(commits) /\ Tidy)

LEMMA TipKept ==
  ASSUME NEW w, NEW back, NEW rest, NEW t, OneWrite(w, back), TipTo({w} \union rest, refs, t),
         DOMAIN refs = Branches
  PROVE  TipTo(back \union rest, refs', t)
<1>0. RebaseBranch \in Branches BY ScratchAssumption
<1>1. CASE Moves(w, RebaseBranch)
  <2>1. /\ w.branch = RebaseBranch /\ w.op \in {"ref", "rmref"}
        /\ t = (IF w.op = "ref" THEN w.commit ELSE Missing)
    BY <1>1 DEF Moves, TipTo
  <2>2. back = {} /\ refs' = [refs EXCEPT ![RebaseBranch] = t] BY <2>1 DEF OneWrite
  <2>3. refs'[RebaseBranch] = t BY <1>0, <2>2
  <2> QED BY <2>2, <2>3 DEF TipTo
<1>2. CASE ~Moves(w, RebaseBranch)
  <2>1. refs'[RebaseBranch] = refs[RebaseBranch] BY <1>0, <1>2 DEF OneWrite, Moves
  <2>2. \A v \in back : ~Moves(v, RebaseBranch) BY WhatIsLeft DEF Moves
  <2> QED BY <1>2, <2>1, <2>2 DEF TipTo
<1> QED BY <1>1, <1>2

LEMMA NoteKept ==
  ASSUME NEW w, NEW back, NEW rest, NEW s, OneWrite(w, back), NoteTo({w} \union rest, state, s),
         DOMAIN state = StateFiles
  PROVE  NoteTo(back \union rest, state', s)
<1>1. CASE w.op = "state" /\ w.file = "rebase"
  <2>1. back = {} /\ state' = [state EXCEPT !["rebase"] = s] BY <1>1 DEF OneWrite, NoteTo
  <2>2. state'["rebase"] = s BY <2>1 DEF StateFiles
  <2> QED BY <2>1, <2>2 DEF NoteTo
<1>2. CASE ~(w.op = "state" /\ w.file = "rebase")
  <2>1. state'["rebase"] = state["rebase"] BY <1>2 DEF OneWrite, StateFiles
  <2>2. \A v \in back : v.op # "state" BY WhatIsLeft
  <2> QED BY <1>2, <2>1, <2>2 DEF NoteTo
<1> QED BY <1>1, <1>2

LEMMA WriteTidy ==
  ASSUME Steady, Tidy, Write
  PROVE  Tidy' /\ commits' = commits
<1>1. PICK w, back, rest :
           /\ Writes(todo) = {w} \union rest /\ Writes(todo') = back \union rest
           /\ OneWrite(w, back)
           /\ next' = next /\ commits' = commits /\ (next # "idle" => mem' = mem)
  BY WriteEffect DEF Steady
<1>2. DOMAIN refs = Branches /\ DOMAIN state = StateFiles BY DEF Steady, RefsOf
<1>3. PICK t : /\ TipTo({w} \union rest, refs, t)
               /\ IF next = "replay" THEN Tracks(mem, t, commits)
                  ELSE \E s : /\ NoteTo({w} \union rest, state, s)
                              /\ s # NoState => Tracks(s, t, commits) /\ Stuck(s, t, commits)
  BY <1>1 DEF Tidy, Going
<1>4. TipTo(back \union rest, refs', t) BY <1>1, <1>2, <1>3, TipKept
<1>5. \A s : NoteTo({w} \union rest, state, s) => NoteTo(back \union rest, state', s)
  BY <1>1, <1>2, NoteKept
<1> QED BY <1>1, <1>3, <1>4, <1>5 DEF Tidy, Going

\* When no write is to come, both are what they are.
LEMMA TidyRest ==
  ASSUME Tidy, todo = <<>>
  PROVE  IF next = "replay" THEN Tracks(mem, refs[RebaseBranch], commits)
         ELSE state["rebase"] # NoState =>
                /\ Tracks(state["rebase"], refs[RebaseBranch], commits)
                /\ Stuck(state["rebase"], refs[RebaseBranch], commits)
<1>1. Writes(todo) = {} BY NoWrites
<1> QED BY <1>1 DEF Tidy, Going, TipTo, NoteTo

LEMMA TidyGoes ==
  ASSUME NEW ws, NEW n, NEW m, NEW made, Proceed(ws, n, m, made),
         Going(Writes(ws), refs, state, n, m, commits')
  PROVE  Tidy'
<1>1. /\ todo' = ws /\ next' = n /\ UNCHANGED <<refs, state>> /\ (n # "idle" => mem' = m)
  BY DEF Proceed
<1> QED BY <1>1 DEF Tidy, Going

-----------------------------------------------------------------------------
(* The commands keep it.                                                    *)

LEMMA CommitGrows ==
  ASSUME Steady, Descending(commits), Ordered(commits'), NEW c, commits' = commits \o <<c>>,
         NEW p \in 0 .. Len(commits), c.parents = Onto(p)
  PROVE  /\ Descending(commits') /\ Len(commits') = Len(commits) + 1
         /\ commits'[Len(commits')] = c /\ (p # Unborn => Grows(commits, commits', p))
<1> DEFINE ds == commits'
           n == Len(commits) + 1
<1>1. /\ Len(commits) \in Nat /\ Len(ds) = n /\ ds[n] = c
      /\ \A i \in 1 .. Len(commits) : ds[i] = commits[i]
  BY OneMore DEF Steady
<1>2. First(ds, n) \in 0 .. n - 1
  <2>1. c.parents = <<>> \/ (c.parents = <<p>> /\ <<p>> # <<>>) BY DEF Onto
  <2> QED BY <1>1, <2>1 DEF First, Unborn
<1>3. ASSUME NEW i \in 1 .. Len(ds) PROVE First(ds, i) \in 0 .. i - 1
  <2>1. CASE i = n BY <1>2, <2>1
  <2>2. CASE i \in 1 .. Len(commits)
    <3>1. First(ds, i) = First(commits, i) BY <1>1, <2>2 DEF First
    <3> QED BY <2>2, <3>1 DEF Descending
  <2> QED BY <1>1, <2>1, <2>2
<1>4. Descending(ds) BY <1>3 DEF Descending
<1>5. p # Unborn => p \in 1 .. Len(commits) /\ ds[Len(ds)].parents = <<p>>
  BY <1>1 DEF Onto, Unborn
<1> QED BY <1>1, <1>4, <1>5 DEF Grows

\* A commit of the user's, on HEAD's branch.
LEMMA OwnTidy ==
  ASSUME Steady, Tidy, Descending(commits), Ordered(commits'), task = "rebase", todo = <<>>,
         next = "idle", NEW ws, NEW m, NEW c, Proceed(ws, "idle", m, <<c>>),
         c.parents = Onto(HeadCommit), c.of = 0,
         \A w \in Writes(ws) : \/ w = Ref(head, Len(commits) + 1)
                               \/ w.op \notin {"ref", "rmref", "state"},
         Ref(head, Len(commits) + 1) \in Writes(ws)
  PROVE  Tidy' /\ Descending(commits')
<1> DEFINE st == state["rebase"]
           n == Len(commits) + 1
           t == refs[RebaseBranch]
           W == Writes(ws)
<1>1. Settled(head, refs, index, state, commits, next, mem) /\ HeadBranch = head BY AtRest
<1>2. st # NoState => Tracks(st, t, commits) /\ Stuck(st, t, commits) /\ head = RebaseBranch
  BY <1>1, TidyRest DEF Settled, Rebased
<1>3. HeadCommit = (IF refs[head] = Missing THEN Unborn ELSE refs[head])
  BY <1>1 DEF HeadCommit, GetRef
<1>4. HeadCommit \in 0 .. Len(commits)
  BY <1>3 DEF Steady, RefsOf, IsSeq, Unborn
<1>5. commits' = commits \o <<c>> BY DEF Proceed
<1>6. /\ Descending(commits') /\ Len(commits') = n /\ commits'[n] = c
      /\ HeadCommit # Unborn => Grows(commits, commits', HeadCommit)
  BY <1>4, <1>5, CommitGrows
<1>7. Ref(head, n).op = "ref" /\ Ref(head, n).branch = head /\ Ref(head, n).commit = n BY DEF Ref
<1>8. \A w \in W : \/ w = Ref(head, n) \/ w.op \notin {"ref", "rmref", "state"}
  OBVIOUS
<1>9. Ref(head, n) \in W OBVIOUS
<1>10. c.of = 0 OBVIOUS
<1> HIDE DEF W, st, t, n
<1>11. NoteTo(W, state, st) BY <1>7, <1>8 DEF NoteTo, st
<1>12. TipTo(W, refs, IF head = RebaseBranch THEN n ELSE t)
  BY <1>7, <1>8, <1>9 DEF TipTo, Moves, t
<1>13. CASE st = NoState
  <2>1. Going(W, refs, state, "idle", m, commits') BY <1>11, <1>12, <1>13 DEF Going
  <2> QED BY <1>6, <2>1, TidyGoes DEF W
<1>14. CASE st # NoState
  <2>1. t \in 1 .. Len(commits) BY <1>2, <1>14 DEF Tracks
  <2>2. HeadCommit = t /\ t # Unborn
    BY <1>2, <1>3, <1>14, <2>1 DEF t, Missing, Unborn, Steady, IsSeq
  <2>3. Grows(commits, commits', t) BY <1>6, <2>2
  <2>4. commits'[Len(commits')].of = 0 BY <1>6, <1>10
  <2>5. Tracks(st, n, commits') /\ Stuck(st, n, commits')
    BY <1>2, <1>6, <1>14, <2>3, <2>4, TracksCommit
  <2>6. Going(W, refs, state, "idle", m, commits') BY <1>2, <1>11, <1>12, <1>14, <2>5 DEF Going
  <2> QED BY <1>6, <2>6, TidyGoes DEF W
<1> QED BY <1>13, <1>14

LEMMA CommitTidy ==
  ASSUME Steady, Tidy, Descending(commits), Ordered(commits'), task = "rebase", CmdCommit
  PROVE  Tidy' /\ Descending(commits')
<1> DEFINE new == Len(commits) + 1
           t == Scanned(work)
           c == NewCommit(t, "scan", Onto(HeadCommit), 0)
           ws == CommitWrites(new) \o <<Save(t)>>
<1>1. Proceed(ws, "idle", NoState, <<c>>) /\ todo = <<>> /\ next = "idle"
  BY DEF CmdCommit, Runs, Begins, Idle
<1>2. HeadBranch = head BY <1>1, AtRest
<1>3. Writes(ws) = {Ref(head, new), Log(head, HeadCommit, new), Save(t)}
  <2>1. CommitWrites(new) = <<Ref(head, new), Log(head, HeadCommit, new)>> BY <1>2 DEF CommitWrites
  <2> HIDE DEF t, new
  <2> QED BY <2>1, SomeWrites, MoreWrites
<1>4. c.parents = Onto(HeadCommit) /\ c.of = 0 BY DEF NewCommit
<1>5. \A w \in Writes(ws) : w = Ref(head, new) \/ w.op \notin {"ref", "rmref", "state"}
  BY <1>3 DEF Log, Save
<1>6. Ref(head, new) \in Writes(ws) BY <1>3
<1> HIDE DEF ws, c
<1> QED BY <1>1, <1>4, <1>5, <1>6, OwnTidy

\* The writes of a pick, when HEAD names a branch.
LEMMA PickWritten ==
  ASSUME Steady, todo = <<>>, NEW target
  PROVE  /\ IsSeq(PickWrites(target))
         /\ Ref(head, Len(commits) + 1) \in Writes(PickWrites(target))
         /\ \A w \in Writes(PickWrites(target)) :
              \/ w = Ref(head, Len(commits) + 1) \/ w.op \notin {"ref", "rmref", "state"}
<1> DEFINE new == Len(commits) + 1
           co == CheckoutWrites(PickTree(target, HeadCommit))
           pw == PickWrites(target)
<1>1. HeadBranch = head BY AtRest
<1>2. IsSeq(co) /\ \A w \in Writes(co) : w.op \in {"files", "extras", "index"} BY Checkouts
<1>3. pw = <<Ref(head, new), Log(head, HeadCommit, new)>> \o co
  BY <1>1 DEF PickWrites, CommitWrites
<1> HIDE DEF pw, co, new
<1>4. IsSeq(pw) /\ Writes(pw) = {Ref(head, new), Log(head, HeadCommit, new)} \union Writes(co)
  BY <1>2, <1>3, SomeWrites, MoreWrites
<1>5. Log(head, HeadCommit, new).op = "log" BY DEF Log
<1> QED BY <1>2, <1>4, <1>5 DEF pw, new

LEMMA CherryTidy ==
  ASSUME Steady, Tidy, Descending(commits), Ordered(commits'), task = "rebase",
         NEW target, CherryPick(target)
  PROVE  Tidy' /\ Descending(commits')
<1> DEFINE c == NewCommit(PickTree(target, HeadCommit), "map", Onto(HeadCommit), 0)
           ws == PickWrites(target)
<1>1. Proceed(ws, "idle", NoState, <<c>>) /\ todo = <<>> /\ next = "idle"
  BY DEF CherryPick, Picked, Runs, Begins, Idle
<1>2. c.parents = Onto(HeadCommit) /\ c.of = 0 BY DEF NewCommit
<1>3. /\ Ref(head, Len(commits) + 1) \in Writes(ws)
      /\ \A w \in Writes(ws) : \/ w = Ref(head, Len(commits) + 1)
                               \/ w.op \notin {"ref", "rmref", "state"}
  BY <1>1, PickWritten
<1> HIDE DEF ws, c
<1> QED BY <1>1, <1>2, <1>3, OwnTidy

LEMMA SwitchTidy ==
  ASSUME Steady, Tidy, NEW b, CmdCheckout(b), \A f \in StateFiles : state[f] = NoState
  PROVE  Tidy' /\ commits' = commits
<1> DEFINE co == CheckoutWrites(TreeOf(refs[b]))
           ws == <<SetHead(b)>> \o (IF refs[b] = Unborn THEN <<>> ELSE co)
<1>1. Proceed(ws, "idle", NoState, <<>>) BY DEF CmdCheckout, Runs
<1>2. commits' = commits BY <1>1, NoMore DEF Proceed, Steady
<1>3. \A w \in Writes(ws) : w.op \notin {"ref", "rmref", "state"}
  <2>1. IsSeq(co) /\ \A w \in Writes(co) : w.op \in {"files", "extras", "index"} BY Checkouts
  <2>2. IsSeq(<<SetHead(b)>>) /\ Writes(<<SetHead(b)>>) = {SetHead(b)} BY SomeWrites
  <2>3. SetHead(b).op = "head" BY DEF SetHead
  <2> HIDE DEF co
  <2> QED BY <2>1, <2>2, <2>3, NoWrites, MoreWrites
<1>4. state["rebase"] = NoState BY DEF StateFiles
<1> HIDE DEF ws
<1>5. TipTo(Writes(ws), refs, refs[RebaseBranch]) /\ NoteTo(Writes(ws), state, NoState)
  BY <1>3, <1>4 DEF TipTo, NoteTo, Moves
<1>6. Going(Writes(ws), refs, state, "idle", NoState, commits') BY <1>5 DEF Going
<1> QED BY <1>1, <1>2, <1>6, TidyGoes

LEMMA DeleteTidy ==
  ASSUME Steady, Tidy, NEW b, NEW force, DeleteBranch(b, force)
  PROVE  Tidy' /\ commits' = commits
<1> DEFINE ws == (IF refs[b] = Unborn THEN <<>> ELSE <<Log(b, refs[b], Unborn)>>) \o <<RemoveRef(b)>>
           t == IF b = RebaseBranch THEN Missing ELSE refs[RebaseBranch]
           s == state["rebase"]
<1>1. /\ Proceed(ws, "idle", NoState, <<>>) /\ todo = <<>> /\ next = "idle"
      /\ b = RebaseBranch => s = NoState
  BY DEF DeleteBranch, Runs, Begins, Idle
<1>2. commits' = commits BY <1>1, NoMore DEF Proceed, Steady
<1>3. /\ \E w \in Writes(ws) : w = RemoveRef(b)
      /\ \A w \in Writes(ws) : w = RemoveRef(b) \/ w = Log(b, refs[b], Unborn)
  BY NoWrites, SomeWrites, MoreWrites
<1>4. s # NoState => /\ Tracks(s, refs[RebaseBranch], commits)
                     /\ Stuck(s, refs[RebaseBranch], commits)
  BY <1>1, TidyRest
<1> HIDE DEF ws
<1>5. TipTo(Writes(ws), refs, t) /\ NoteTo(Writes(ws), state, s)
  BY <1>3 DEF TipTo, NoteTo, Moves, RemoveRef, Log
<1>6. s # NoState => Tracks(s, t, commits) /\ Stuck(s, t, commits) BY <1>1, <1>4
<1> HIDE DEF t, s
<1>7. Going(Writes(ws), refs, state, "idle", NoState, commits') BY <1>2, <1>5, <1>6 DEF Going
<1> QED BY <1>1, <1>2, <1>7, TidyGoes

LEMMA AbortTidy ==
  ASSUME Steady, Tidy, RebaseAbort
  PROVE  Tidy' /\ commits' = commits
<1> DEFINE st == state["rebase"]
           pw == <<SetHead(st.branch), RemoveRef(RebaseBranch), SaveRebase(NoState)>>
           co == CheckoutWrites(TreeOf(st.orig))
           lw == <<Log(st.branch, st.orig, st.orig)>>
           ws == pw \o co \o lw
<1>1. Proceed(ws, "idle", NoState, <<>>) BY DEF RebaseAbort, Runs
<1>2. commits' = commits BY <1>1, NoMore DEF Proceed, Steady
<1>3. IsSeq(co) /\ \A w \in Writes(co) : w.op \in {"files", "extras", "index"} BY Checkouts
<1> HIDE DEF st, co
<1>4. /\ {RemoveRef(RebaseBranch), SaveRebase(NoState)} \subseteq Writes(ws)
      /\ \A w \in Writes(ws) : \/ w \in {SetHead(st.branch), RemoveRef(RebaseBranch),
                                         SaveRebase(NoState), Log(st.branch, st.orig, st.orig)}
                               \/ w.op \in {"files", "extras", "index"}
  <2>1. IsSeq(pw) /\ Writes(pw) = {SetHead(st.branch), RemoveRef(RebaseBranch), SaveRebase(NoState)}
    BY SomeWrites
  <2>2. IsSeq(lw) /\ Writes(lw) = {Log(st.branch, st.orig, st.orig)} BY SomeWrites
  <2> HIDE DEF pw, lw
  <2>3. IsSeq(pw \o co) /\ Writes(pw \o co) = Writes(pw) \union Writes(co) BY <1>3, <2>1, MoreWrites
  <2>4. Writes(ws) = Writes(pw \o co) \union Writes(lw) BY <2>2, <2>3, MoreWrites
  <2> HIDE DEF ws
  <2> QED BY <1>3, <2>1, <2>2, <2>3, <2>4
<1> HIDE DEF ws
<1>5. TipTo(Writes(ws), refs, Missing)
  BY <1>4 DEF TipTo, Moves, RemoveRef, SetHead, Log, SaveRebase, SaveState
<1>6. NoteTo(Writes(ws), state, NoState)
  BY <1>4 DEF NoteTo, RemoveRef, SetHead, Log, SaveRebase, SaveState
<1>7. Going(Writes(ws), refs, state, "idle", NoState, commits') BY <1>5, <1>6 DEF Going
<1> QED BY <1>1, <1>2, <1>7, TidyGoes

LEMMA FinishTidy ==
  ASSUME Steady, Tidy, RebaseFinish
  PROVE  Tidy' /\ commits' = commits
<1> DEFINE tip == HeadCommit
           b == mem.branch
           pw == <<Ref(b, tip), Log(b, mem.orig, tip), SetHead(b), RemoveRef(RebaseBranch),
                   SaveRebase(NoState)>>
           co == CheckoutWrites(TreeOf(tip))
           cw == IF tip = Unborn THEN <<>> ELSE co
           ws == pw \o cw
<1>1. todo = <<>> /\ next = "replay" /\ Proceed(ws, "idle", mem, <<>>)
  BY DEF RebaseFinish, Steps
<1>2. b # RebaseBranch BY <1>1, AtRest DEF Settled, Rebased
<1>3. commits' = commits BY <1>1, NoMore DEF Proceed, Steady
<1>4. IsSeq(co) /\ \A w \in Writes(co) : w.op \in {"files", "extras", "index"} BY Checkouts
<1> HIDE DEF b, tip, co
<1>5. /\ {RemoveRef(RebaseBranch), SaveRebase(NoState)} \subseteq Writes(ws)
      /\ \A w \in Writes(ws) : \/ w \in {Ref(b, tip), Log(b, mem.orig, tip), SetHead(b),
                                         RemoveRef(RebaseBranch), SaveRebase(NoState)}
                               \/ w.op \in {"files", "extras", "index"}
  <2>1. IsSeq(pw) /\ Writes(pw) = {Ref(b, tip), Log(b, mem.orig, tip), SetHead(b),
                                   RemoveRef(RebaseBranch), SaveRebase(NoState)}
    BY SomeWrites
  <2>2. IsSeq(cw) /\ \A w \in Writes(cw) : w.op \in {"files", "extras", "index"} BY <1>4, NoWrites
  <2> HIDE DEF pw, cw
  <2>3. Writes(ws) = Writes(pw) \union Writes(cw) BY <2>1, <2>2, MoreWrites
  <2> HIDE DEF ws
  <2> QED BY <2>1, <2>2, <2>3
<1> HIDE DEF ws
<1>6. TipTo(Writes(ws), refs, Missing)
  BY <1>2, <1>5 DEF TipTo, Moves, Ref, RemoveRef, SetHead, Log, SaveRebase, SaveState
<1>7. NoteTo(Writes(ws), state, NoState)
  BY <1>5 DEF NoteTo, Ref, RemoveRef, SetHead, Log, SaveRebase, SaveState
<1>8. Going(Writes(ws), refs, state, "idle", mem, commits') BY <1>6, <1>7 DEF Going
<1> QED BY <1>1, <1>3, <1>8, TidyGoes

LEMMA StartTidy ==
  ASSUME Steady, Tidy, Descending(commits), NEW a \in Branches, Tip(a), RebaseStart(refs[a])
  PROVE  Tidy' /\ commits' = commits
<1> DEFINE up == refs[a]
           tip == HeadCommit
           chain == RebaseChain(tip, up)
           st == [branch |-> HeadBranch, orig |-> tip, up |-> up, pending |-> chain, done |-> <<>>]
           pw == <<Ref(RebaseBranch, up), Log(RebaseBranch, Unborn, up), SaveRebase(st),
                   SetHead(RebaseBranch)>>
           co == CheckoutWrites(TreeOf(up))
           ws == pw \o co
<1>1. Proceed(ws, "replay", st, <<>>) /\ todo = <<>> /\ tip # Unborn
  BY DEF RebaseStart, Runs, Begins, Idle
<1>2. commits' = commits BY <1>1, NoMore DEF Proceed, Steady
<1>3. up \in 1 .. Len(commits) BY DEF Steady, RefsOf, Tip, Unborn, Missing, IsSeq
<1>4. tip \in 1 .. Len(commits)
  <2>1. HeadBranch = head BY <1>1, AtRest
  <2> QED BY <1>1, <2>1 DEF HeadCommit, GetRef, Steady, RefsOf, Unborn, Missing, IsSeq
<1>5. chain = Walk(commits, tip, up) BY FirstParentsAre DEF RebaseChain
<1>6. /\ {"done", "pending", "orig", "up"} \subseteq DOMAIN st
      /\ st.orig = tip /\ st.up = up /\ st.pending = chain /\ st.done = <<>>
  OBVIOUS
<1> HIDE DEF st, chain, tip
<1>7. IsSeq(co) /\ \A w \in Writes(co) : w.op \in {"files", "extras", "index"} BY Checkouts
<1> HIDE DEF up, co
<1>8. Tracks(st, up, commits) BY <1>3, <1>4, <1>5, <1>6, TracksStart
<1>9. /\ Ref(RebaseBranch, up) \in Writes(ws)
      /\ \A w \in Writes(ws) : \/ w \in {Ref(RebaseBranch, up), Log(RebaseBranch, Unborn, up),
                                         SaveRebase(st), SetHead(RebaseBranch)}
                               \/ w.op \in {"files", "extras", "index"}
  <2>1. IsSeq(pw) /\ Writes(pw) = {Ref(RebaseBranch, up), Log(RebaseBranch, Unborn, up),
                                   SaveRebase(st), SetHead(RebaseBranch)}
    BY SomeWrites
  <2> HIDE DEF pw
  <2>2. Writes(ws) = Writes(pw) \union Writes(co) BY <1>7, <2>1, MoreWrites
  <2> HIDE DEF ws
  <2> QED BY <1>7, <2>1, <2>2
<1> HIDE DEF ws
<1>10. TipTo(Writes(ws), refs, up)
  BY <1>9 DEF TipTo, Moves, Ref, SetHead, Log, SaveRebase, SaveState
<1>11. Going(Writes(ws), refs, state, "replay", st, commits') BY <1>2, <1>8, <1>10 DEF Going
<1> QED BY <1>1, <1>2, <1>11, TidyGoes

LEMMA ContinueTidy ==
  ASSUME Steady, Tidy, Descending(commits), Ordered(commits'), RebaseContinue
  PROVE  Tidy' /\ Descending(commits')
<1> DEFINE st == state["rebase"]
           target == Head(st.pending)
           tip == GetRef(RebaseBranch)
           new == Len(commits) + 1
           p == Popped(st)
           t == Scanned(work)
           c == NewCommit(t, "scan", Onto(tip), target)
           drop == <<SetHead(RebaseBranch), SaveRebase(p)>>
           keep == <<SetHead(RebaseBranch), Ref(RebaseBranch, new), Log(RebaseBranch, tip, new),
                     Save(t), SaveRebase(p)>>
<1>1. /\ todo = <<>> /\ next = "idle" /\ Loads(st) /\ st.pending # <<>>
      /\ \/ Proceed(drop, "replay", p, <<>>)
         \/ Proceed(keep, "replay", p, <<c>>)
  BY DEF RebaseContinue, Runs, Begins, Idle
<1>2. Tracks(st, refs[RebaseBranch], commits) /\ Stuck(st, refs[RebaseBranch], commits)
  BY <1>1, TidyRest DEF Loads
<1>3. refs[RebaseBranch] = tip /\ tip \in 1 .. Len(commits)
  <2>1. refs[RebaseBranch] \in 1 .. Len(commits) BY <1>2 DEF Tracks
  <2>2. refs[RebaseBranch] # Missing BY <2>1 DEF Missing, Steady, IsSeq
  <2> QED BY <2>1, <2>2 DEF GetRef
<1>4. c.parents = Onto(tip) /\ c.of = target BY DEF NewCommit
<1> HIDE DEF st, tip, t, c, p, target
<1>5. CASE Proceed(drop, "replay", p, <<>>)
  <2>1. commits' = commits BY <1>5, NoMore DEF Proceed, Steady
  <2>2. Writes(drop) = {SetHead(RebaseBranch), SaveRebase(p)} BY SomeWrites
  <2> HIDE DEF drop
  <2>3. TipTo(Writes(drop), refs, tip)
    BY <1>3, <2>2 DEF TipTo, Moves, SetHead, SaveRebase, SaveState
  <2>4. Tracks(p, tip, commits) BY <1>1, <1>2, <1>3, TracksDrop DEF p
  <2>5. Going(Writes(drop), refs, state, "replay", p, commits') BY <2>1, <2>3, <2>4 DEF Going
  <2> QED BY <1>5, <2>1, <2>5, TidyGoes
<1>6. CASE Proceed(keep, "replay", p, <<c>>)
  <2>1. commits' = commits \o <<c>> BY <1>6 DEF Proceed
  <2>2. tip \in 0 .. Len(commits) /\ tip # Unborn BY <1>3 DEF Unborn
  <2>3. /\ Descending(commits') /\ Len(commits') = new /\ commits'[new] = c
        /\ Grows(commits, commits', tip)
    BY <1>4, <2>1, <2>2, CommitGrows
  <2>4. Writes(keep) = {SetHead(RebaseBranch), Ref(RebaseBranch, new),
                        Log(RebaseBranch, tip, new), Save(t), SaveRebase(p)}
    BY SomeWrites
  <2> HIDE DEF keep, new
  <2>5. TipTo(Writes(keep), refs, new)
    BY <2>4 DEF TipTo, Moves, SetHead, Ref, Log, Save, SaveRebase, SaveState
  <2>6. commits'[Len(commits')].of = Head(st.pending) BY <1>4, <2>3 DEF target
  <2>7. Tracks(p, new, commits') BY <1>1, <1>2, <1>3, <2>3, <2>6, TracksPick DEF p
  <2>8. Going(Writes(keep), refs, state, "replay", p, commits') BY <2>5, <2>7 DEF Going
  <2> QED BY <1>6, <2>3, <2>8, TidyGoes
<1> QED BY <1>1, <1>5, <1>6

LEMMA ConflictsAre == \A d, c : Conflicts(d, c) = Clash(commits, d, c)
BY DEF Conflicts, Clash, TreeOf, TreeIn, FirstParent, First

LEMMA ReplayTidy ==
  ASSUME Steady, Tidy, Descending(commits), Ordered(commits'), Replay
  PROVE  Tidy' /\ Descending(commits')
<1> DEFINE target == Head(mem.pending)
           p == Popped(mem)
           t == refs[RebaseBranch]
           c == NewCommit(PickTree(target, HeadCommit), "map", Onto(HeadCommit), target)
           pw == PickWrites(target)
           stop == <<SaveRebase(mem)>>
           pick == pw \o <<SaveRebase(p)>>
           new == Len(commits) + 1
<1>1. /\ todo = <<>> /\ next = "replay" /\ mem.pending # <<>>
      /\ \/ /\ HeadCommit = Unborn \/ Conflicts(target, HeadCommit) # {}
            /\ Proceed(stop, "idle", mem, <<>>)
         \/ Proceed(pick, "replay", p, <<c>>)
  BY DEF Replay, Picked, Steps
<1>2. head = RebaseBranch /\ HeadBranch = head BY <1>1, AtRest DEF Settled, Rebased
<1>3. Tracks(mem, t, commits) BY <1>1, TidyRest
<1>4. HeadCommit = t /\ t \in 1 .. Len(commits) /\ t # Unborn
  <2>1. t \in 1 .. Len(commits) BY <1>3 DEF Tracks
  <2>2. t # Missing /\ t # Unborn BY <2>1 DEF Missing, Unborn, Steady, IsSeq
  <2> QED BY <1>2, <2>1, <2>2 DEF HeadCommit, GetRef
<1>5. c.parents = Onto(HeadCommit) /\ c.of = target BY DEF NewCommit
<1>6. /\ IsSeq(pw) /\ Ref(head, new) \in Writes(pw)
      /\ \A w \in Writes(pw) : w = Ref(head, new) \/ w.op \notin {"ref", "rmref", "state"}
  BY <1>1, PickWritten
<1> HIDE DEF target, p, t, c, pw
<1>7. CASE (HeadCommit = Unborn \/ Conflicts(target, HeadCommit) # {}) /\ Proceed(stop, "idle", mem, <<>>)
  <2>1. commits' = commits BY <1>7, NoMore DEF Proceed, Steady
  <2>2. Clash(commits, target, t) # {} BY <1>4, <1>7, ConflictsAre
  <2>3. t \in Lineage(commits, t) BY <1>4, LineageIs DEF Descending
  <2>4. Stuck(mem, t, commits) BY <2>2, <2>3 DEF Stuck, target
  <2>5. Writes(stop) = {SaveRebase(mem)} BY SomeWrites
  <2> HIDE DEF stop
  <2>6. TipTo(Writes(stop), refs, t) /\ NoteTo(Writes(stop), state, mem)
    BY <2>5 DEF TipTo, NoteTo, Moves, SaveRebase, SaveState, t
  <2>7. Going(Writes(stop), refs, state, "idle", mem, commits')
    BY <1>3, <2>1, <2>4, <2>6 DEF Going
  <2> QED BY <1>7, <2>1, <2>7, TidyGoes
<1>8. CASE Proceed(pick, "replay", p, <<c>>)
  <2>1. commits' = commits \o <<c>> BY <1>8 DEF Proceed
  <2>2. HeadCommit \in 0 .. Len(commits) BY <1>4
  <2>3. /\ Descending(commits') /\ Len(commits') = new /\ commits'[new] = c
        /\ Grows(commits, commits', t)
    BY <1>4, <1>5, <2>1, <2>2, CommitGrows
  <2>4. /\ Ref(head, new) \in Writes(pick)
        /\ \A w \in Writes(pick) : \/ w = Ref(head, new) \/ w.op \notin {"ref", "rmref", "state"}
                                   \/ w = SaveRebase(p)
    <3>1. IsSeq(<<SaveRebase(p)>>) /\ Writes(<<SaveRebase(p)>>) = {SaveRebase(p)} BY SomeWrites
    <3>2. Writes(pick) = Writes(pw) \union {SaveRebase(p)} BY <1>6, <3>1, MoreWrites
    <3> QED BY <1>6, <3>2
  <2> HIDE DEF pick, new
  <2>5. TipTo(Writes(pick), refs, new)
    BY <1>2, <2>4 DEF TipTo, Moves, Ref, SaveRebase, SaveState
  <2>6. commits'[Len(commits')].of = Head(mem.pending) BY <1>5, <2>3 DEF target
  <2>7. Tracks(p, new, commits') BY <1>1, <1>3, <2>3, <2>6, TracksPick DEF p
  <2>8. Going(Writes(pick), refs, state, "replay", p, commits') BY <2>5, <2>7 DEF Going
  <2> QED BY <1>8, <2>3, <2>8, TidyGoes
<1> QED BY <1>1, <1>7, <1>8

LEMMA InitRInv == Init => RInv
<1> SUFFICES ASSUME Init PROVE RInv OBVIOUS
<1>1. TInv BY InitTInv
<1>2. todo = <<>> /\ next = "idle" /\ state = [f \in StateFiles |-> NoState] /\ mishaps = 0
  BY DEF Init
<1>3. Ordered(commits) BY <1>1, <1>2 DEF TInv, Safe, Shape
<1>4. Descending(commits)
  <2>1. PICK s \in Starts : commits = s.commits BY DEF Init
  <2>2. commits \in Seq([tree : Trees, built : STRING, parents : Seq(Nat), of : Nat])
    BY <2>1, StartsAssumption
  <2>3. DOMAIN commits = 1 .. Len(commits) BY <2>2, LenProperties
  <2>4. ASSUME NEW c \in 1 .. Len(commits) PROVE First(commits, c) \in 0 .. c - 1
    <3>1. commits[c] \in [tree : Trees, built : STRING, parents : Seq(Nat), of : Nat]
      BY <2>2, ElementOfSeq
    <3> DEFINE ps == commits[c].parents
    <3>2. ps \in Seq(Nat) BY <3>1
    <3>3. \A i \in DOMAIN ps : ps[i] \in 1 .. c - 1 BY <2>1, <2>3, StartsAssumption
    <3> HIDE DEF ps
    <3>4. CASE ps = <<>> BY <3>4 DEF First, ps, Unborn
    <3>5. CASE ps # <<>>
      <4>1. 1 \in DOMAIN ps BY <3>2, <3>5, EmptySeq, LenProperties
      <4>2. ps[1] \in 1 .. c - 1 BY <3>3, <4>1
      <4>3. First(commits, c) = ps[1] BY <3>5 DEF First, ps
      <4> QED BY <4>2, <4>3
    <3> QED BY <3>4, <3>5
  <2> QED BY <1>3, <2>4 DEF Descending
<1>5. Tidy
  <2>1. Writes(todo) = {} BY <1>2, NoWrites
  <2>2. TipTo({}, refs, refs[RebaseBranch]) /\ NoteTo({}, state, NoState)
    BY <1>2 DEF TipTo, NoteTo, StateFiles
  <2> QED BY <1>2, <2>1, <2>2 DEF Tidy, Going
<1> QED BY <1>1, <1>4, <1>5 DEF RInv

LEMMA NextRInv == RInv /\ [Next]_vars => RInv'
<1> SUFFICES ASSUME RInv, [Next]_vars PROVE RInv' OBVIOUS
<1>0. TInv /\ TInv' BY NextTInv DEF RInv
<1>1. CASE UNCHANGED vars
  BY <1>0, <1>1 DEF RInv, Tidy, vars, repoVars, cmdVars
<1>2. CASE Next
  <2>1. task' = task BY <1>2 DEF Next, Edit, Crash, Switch, Meanwhile
  <2>2. mishaps' \in Nat /\ (mishaps' = 0 => mishaps = 0)
    BY <1>0, <1>2 DEF Next, Edit, Crash, Switch, Meanwhile, TInv, HInv
  <2> SUFFICES ASSUME task = "rebase", mishaps' = 0 PROVE Descending(commits') /\ Tidy'
    BY <1>0, <2>1 DEF RInv
  <2>3. /\ Steady /\ Tidy /\ Descending(commits) /\ Ordered(commits')
    BY <1>0, <2>2 DEF RInv, TInv, HInv, Quiet, Safe, Shape
  <2>4. ASSUME commits' = commits PROVE Descending(commits') BY <2>3, <2>4
  <2>5. ASSUME NEW f, NEW v, Edit(f, v) PROVE Descending(commits') /\ Tidy'
    <3>1. UNCHANGED <<commits, refs, todo, next, mem, state>> BY <2>5 DEF Edit, cmdVars
    <3> QED BY <2>3, <3>1 DEF Tidy
  <2>6. ~Crash BY <1>0 DEF Crash, TInv, HInv
  <2>7. ASSUME NEW b, Switch(b) PROVE Descending(commits') /\ Tidy'
    <3>1. \A f \in StateFiles : state[f] = NoState BY <1>0, <2>7 DEF Switch, TInv, HInv
    <3>2. CmdCheckout(b) BY <2>7 DEF Switch
    <3> QED BY <2>3, <2>4, <3>1, <3>2, SwitchTidy
  <2>8. ~Stashes /\ ~Bisects BY DEF Stashes, Bisects
  <2>9. ASSUME Rebases PROVE Descending(commits') /\ Tidy'
    BY <2>3, <2>4, <2>9, StartTidy, CherryTidy, ContinueTidy, AbortTidy, ReplayTidy, FinishTidy
    DEF Rebases
  <2>10. ASSUME Write PROVE Descending(commits') /\ Tidy' BY <2>3, <2>4, <2>10, WriteTidy
  <2>11. ASSUME CmdCommit PROVE Descending(commits') /\ Tidy' BY <2>3, <2>11, CommitTidy
  <2>12. ASSUME NEW b, NEW force, DeleteBranch(b, force) PROVE Descending(commits') /\ Tidy'
    BY <2>3, <2>4, <2>12, DeleteTidy
  <2> QED BY <1>2, <2>5, <2>6, <2>7, <2>8, <2>9, <2>10, <2>11, <2>12 DEF Next
<1> QED BY <1>1, <1>2

\* A rebase that is not killed replays every commit of its branch once and in
\* order, and leaves out only those that conflict with what they come on:
\* rebaseReplay pops what it picked, RebaseContinue what the user resolved,
\* and the commits of the user's own that come in between stay among them.
THEOREM OrderKept == Spec => []RebaseInOrder
<1>1. RInv => RebaseInOrder
  <2> DEFINE st == IF next = "replay" THEN mem ELSE state["rebase"]
             tip == refs[RebaseBranch]
  <2> SUFFICES ASSUME RInv, task = "rebase", mishaps = 0, todo = <<>>, Loads(st)
               PROVE  /\ st.done \o st.pending = RebaseChain(st.orig, st.up)
                      /\ st.up \in Ancestors(tip)
                      /\ InStep(FirstParents(tip, st.up), st.done)
                      /\ \A k \in DOMAIN st.done :
                           \/ \E i \in DOMAIN FirstParents(tip, st.up) :
                                commits[FirstParents(tip, st.up)[i]].of = st.done[k]
                           \/ \E c \in Ancestors(tip) : Conflicts(st.done[k], c) # {}
    BY DEF RebaseInOrder
  <2>1. Tracks(st, tip, commits) BY TidyRest DEF RInv, Loads
  <2> HIDE DEF st, tip
  <2>2. /\ FirstParents(tip, st.up) = Walk(commits, tip, st.up)
        /\ RebaseChain(st.orig, st.up) = Walk(commits, st.orig, st.up)
    BY FirstParentsAre DEF RebaseChain
  <2>3. Ancestors(tip) = Lineage(commits, tip) BY AncestorsAre
  <2>4. \A walk, done : InStep(walk, done) <=> StepsIn(commits, walk, done) BY DEF InStep, StepsIn
  <2>5. \A k \in DOMAIN st.done : Answered(commits, st.done[k], tip, st.up) BY <2>1 DEF Tracks
  <2>6. /\ st.done \o st.pending = Walk(commits, st.orig, st.up) /\ st.up \in Lineage(commits, tip)
        /\ StepsIn(commits, Walk(commits, tip, st.up), st.done)
    BY <2>1 DEF Tracks
  <2> QED BY <2>2, <2>3, <2>4, <2>5, <2>6, ConflictsAre DEF Answered
<1> QED BY <1>1, InitRInv, NextRInv, PTL DEF Spec

====
