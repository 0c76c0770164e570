----------------------------- MODULE MCHistory -----------------------------
(***************************************************************************)
(* History under TLC: small histories to begin with.                       *)
(***************************************************************************)
EXTENDS History, TLC

T(x, y) == "a" :> x @@ "b" :> y
C(x, y, ps) == [tree |-> T(x, y), built |-> "scan", parents |-> ps, of |-> 0]

\* Two branches: a pick that applies, then one that conflicts; and the same
\* without the conflict, onto a merge commit.
Parted ==
  [task |-> "rebase", shelves |-> <<>>, refs |-> "main" :> 3 @@ "other" :> 4,
   commits |-> <<C(1, 0, <<>>), C(1, 1, <<1>>), C(3, 1, <<2>>), C(2, 0, <<1>>)>>]
Apart ==
  [task |-> "rebase", shelves |-> <<>>, refs |-> "main" :> 3 @@ "other" :> 4,
   commits |-> <<C(1, 0, <<>>), C(1, 1, <<1>>), C(1, 2, <<2>>), C(2, 0, <<1>>)>>]

\* Two sides and their merge, and a commit on top.
Merged ==
  [task |-> "bisect", shelves |-> <<>>, refs |-> "main" :> 5 @@ "other" :> 3,
   commits |-> <<C(1, 0, <<>>), C(1, 1, <<1>>), C(2, 0, <<1>>), C(2, 1, <<2, 3>>),
                 C(3, 1, <<4>>)>>]

\* A branch and two shelves.
Shelved ==
  [task |-> "shelves", refs |-> "main" :> 2 @@ "other" :> 1,
   shelves |-> <<"n", 0>> :> 3 @@ <<"n", 1>> :> 4,
   commits |-> <<C(1, 0, <<>>), C(1, 1, <<1>>), C(2, 1, <<2>>), C(3, 1, <<2>>)>>]

MCStarts == {Parted, Apart, Merged, Shelved}
=============================================================================
