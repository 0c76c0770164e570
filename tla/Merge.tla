------------------------------- MODULE Merge -------------------------------
(***************************************************************************)
(* The three-way merge of internal/sync (tryMerge, resolveOverlaps), on    *)
(* flattened trees: a tree is a function from its paths to file versions.  *)
(* A version stands for a blob hash; a path is a sequence, its file's name *)
(* followed by one tag for each conflict copy it is a copy of.             *)
(***************************************************************************)
EXTENDS Naturals, Sequences

Absent == 0     \* what a Go map gives for a path it does not hold

At(t, p) == IF p \in DOMAIN t THEN t[p] ELSE Absent

Versions(t) == {t[p] : p \in DOMAIN t}

\* The entries of s put into t, over those of the same path.
Into(t, s) == [p \in DOMAIN s \union DOMAIN t |-> IF p \in DOMAIN s THEN s[p] ELSE t[p]]

\* Mutant of TryMerge: what both sides changed is resolved without a word.
TryMergePrefersLocal(b, l, r) ==
  LET paths == DOMAIN b \union DOMAIN l \union DOMAIN r
      pick(p) == IF At(b, p) = At(l, p) THEN At(r, p) ELSE At(l, p)
  IN  [merged |-> [p \in {q \in paths : pick(q) # Absent} |-> pick(p)], overlapping |-> {}]

\* tryMerge: a path only one side changed takes that side's version (or
\* deletion); a path both changed, differently, is left out for the caller.
TryMerge(b, l, r) ==
  LET paths == DOMAIN b \union DOMAIN l \union DOMAIN r
      overlapping == {p \in paths : /\ At(l, p) # At(r, p)
                                    /\ At(b, p) # At(l, p)
                                    /\ At(b, p) # At(r, p)}
      pick(p) == IF At(b, p) = At(l, p) THEN At(r, p) ELSE At(l, p)
      kept == {p \in paths \ overlapping : pick(p) # Absent}
  IN  [merged |-> [p \in kept |-> pick(p)], overlapping |-> overlapping]

\* conflictCopyPath: the peer and the time in the name make it a path of its
\* own; tag stands for the two.
ConflictCopy(p, tag) == Append(p, tag)

\* resolveOverlaps: the local version keeps its path, the remote one lands
\* beside it.
ResolveOverlaps(overlapping, l, r, tag) ==
  LET keep   == [p \in overlapping \intersect DOMAIN l |-> l[p]]
      copies == [q \in {ConflictCopy(p, tag) : p \in overlapping \intersect DOMAIN r} |->
                   r[SubSeq(q, 1, Len(q) - 1)]]
  IN  Into(keep, copies)

\* Mutant: the local version of an overlapping path is not put back.
MergedTreeCopiesOnly(b, l, r, tag) ==
  LET m == TryMerge(b, l, r)
      copies == ResolveOverlaps(m.overlapping, l, r, tag)
  IN  Into(m.merged, [p \in DOMAIN copies \ m.overlapping |-> copies[p]])

\* The tree integrate commits for a divergence.
MergedTree(b, l, r, tag) ==
  LET m == TryMerge(b, l, r)
  IN  Into(m.merged, ResolveOverlaps(m.overlapping, l, r, tag))
=============================================================================
