------------------------------- MODULE Bisect -------------------------------
(***************************************************************************)
(* lrm bisect (internal/gitcompat/bisect.go): the suspects are the         *)
(* ancestors of the bad commit that no verdict has cleared; the candidate  *)
(* to test is put on a scratch branch, and BISECT_STATE remembers which.   *)
(***************************************************************************)
EXTENDS Commands

Verdicts == {"good", "bad", "skip"}

SaveBisect(st) == SaveState("bisect", st)

Marked(st, v) == {c \in DOMAIN st.tested : st.tested[c] = v}

\* Mutant: a skipped commit is cleared.
SuspectsNoSkips(st) ==
  (Ancestors(st.bad) \ UNION {Ancestors(g) : g \in Marked(st, "good") \union Marked(st, "skip")})
    \intersect {c \in DOMAIN commits : \A b \in Marked(st, "bad") : c \in Ancestors(b)}

\* suspectSet
Suspects(st) ==
  (Ancestors(st.bad) \ UNION {Ancestors(g) : g \in Marked(st, "good")})
    \intersect {c \in DOMAIN commits : \A b \in Marked(st, "bad") : c \in Ancestors(b)}

\* canNarrowGood, canNarrowBad: marking a commit that is no suspect.
CanNarrow(v, set, c) ==
  \/ c \in set \/ v = "skip"
  \/ v = "good" /\ Ancestors(c) \intersect set # {}
  \/ v = "bad" /\ ~(set \subseteq Ancestors(c))

\* Mutant: a skipped suspect can be picked again.
TestableAgain(st) == Suspects(st) \ (Marked(st, "good") \union Marked(st, "bad"))

Testable(st) == Suspects(st) \ DOMAIN st.tested

\* topoOrder, oldest first, and of that the middle. A commit's number grows
\* with its timestamp.
Middle(set) == {c \in set : Cardinality({d \in set : d < c}) = Cardinality(set) \div 2}

\* checkoutScratch, and the save of the state that names the candidate after.
Candidate(c, st) ==
  <<Ref(ScratchBranch, c), SetHead(ScratchBranch)>> \o CheckoutWrites(TreeOf(c))
    \o <<SaveBisect(st)>>

\* bisectAdvance: the answer, or the middle of what is left to test. From run
\* (mem.run) it is followed by the next test, unless there is none.
Advance ==
  LET st   == mem.st
      set  == Suspects(st)
      then == IF mem.run THEN "run" ELSE "idle"
      Take(c, st2, n) == Steps("advance", Candidate(c, st2), n, mem, <<>>)
      fails == set = {} \/ ~Clean
  IN  /\ next = "advance" /\ todo = <<>>
      /\ \/ /\ ~fails /\ Cardinality(set) = 1
            /\ \E c \in set : Take(c, [st EXCEPT !.current = c, !.concluded = c], "idle")
         \/ /\ ~fails /\ Cardinality(set) > 1
            /\ \E c \in Middle(Testable(st)) : Take(c, [st EXCEPT !.current = c], then)
         \/ /\ fails \/ (Cardinality(set) > 1 /\ Testable(st) = {})
            /\ Steps("advance", <<>>, "idle", mem, <<>>)

BisectStart(bad, goods) ==
  LET st == [orig |-> HeadBranch, bad |-> bad, current |-> Unborn, concluded |-> Unborn,
             tested |-> [c \in goods \union {bad} |-> IF c = bad THEN "bad" ELSE "good"]]
  IN  /\ state["bisect"] = NoState /\ ScratchBranch \notin ListBranches
      /\ Clean
      /\ goods \subseteq Ancestors(bad) \ {bad}
      /\ Runs(<<SaveBisect(st)>>, "advance", [st |-> st, run |-> FALSE], <<>>)

\* BisectMark: the verdict on c, saved before the next candidate is looked for.
MarkedState(st, v, c) ==
  [st EXCEPT !.tested = [x \in DOMAIN @ \union {c} |-> IF x = c THEN v ELSE @[x]]]

Marks(st, v, c) ==
  Loads(st) /\ st.concluded = Unborn /\ c # Unborn /\ CanNarrow(v, Suspects(st), c)

\* lrm bisect good, bad, skip: on the commit named, or on the candidate.
BisectMark(v, c) ==
  LET st2 == MarkedState(state["bisect"], v, c)
  IN  /\ Marks(state["bisect"], v, c)
      /\ Runs(<<SaveBisect(st2)>>, "advance", [st |-> st2, run |-> FALSE], <<>>)

\* BisectRun starts; each round it loads the state again, runs the command on
\* the files, and marks the candidate with v.
BisectRun == Runs(<<>>, "run", NoState, <<>>)

RunOnce(v) ==
  LET st  == state["bisect"]
      st2 == MarkedState(st, v, st.current)
  IN  /\ next = "run" /\ todo = <<>>
      /\ IF Marks(st, v, st.current)
         THEN Steps("run", <<SaveBisect(st2)>>, "advance", [st |-> st2, run |-> TRUE], <<>>)
         ELSE Steps("run", <<>>, "idle", NoState, <<>>)

\* BisectReset: the scratch branch goes before HEAD leaves it.
BisectReset ==
  LET st == state["bisect"]
  IN  /\ Loads(st) /\ Clean
      /\ Runs(<<RemoveRef(ScratchBranch), SetHead(st.orig)>>
              \o (IF GetRef(st.orig) = Unborn THEN <<>>
                  ELSE CheckoutWrites(TreeOf(refs[st.orig])))
              \o <<SaveBisect(NoState)>>, "idle", NoState, <<>>)
=============================================================================
