------------------------------- MODULE Install -------------------------------
(***************************************************************************)
(* The self-updater (internal/update): look for a newer release, download  *)
(* it beside the running binary, compare its hash with the release's list, *)
(* rename it into place. The command line and the panel both run it, and   *)
(* nothing keeps two of them apart. Windows does not let go of a file that *)
(* runs or is open: there the old binary is renamed aside first.           *)
(***************************************************************************)
EXTENDS Integers, Sequences, FiniteSets

CONSTANTS Updaters,     \* processes that run Apply
          MaxRelease,   \* bound: releases published
          MaxTroubles   \* bound: failed downloads, processes killed

VARIABLES os,           \* "unix" or "windows"
          release,      \* the newest release; releases are numbered in their order
          name,         \* the files by name: exe, old (exe.old), new (.asset.new)
          inode,        \* inode[i]: the blocks of file i
          update,       \* the state of each process
          shared,       \* the downloads opened while another was under way (a record)
          cut,          \* one was killed with the binary aside (a record)
          troubles

installVars == <<os, release, name, inode, update, shared, cut, troubles>>

Gone  == 0              \* the name of no file
Bad   == -1             \* a block that is not the release's
Blank == -2             \* a block nobody wrote
Release(v) == <<v, v>>

Idle == [at |-> "idle", why |-> "none", image |-> Gone, to |-> 0, fd |-> Gone, got |-> <<>>]

InstallInit(busy) ==
  /\ os \in IF busy THEN {"unix", "windows"} ELSE {"unix"}
  /\ release = 2
  /\ name = [exe |-> 1, old |-> Gone, new |-> Gone]
  /\ inode = <<Release(1)>>
  /\ update = [u \in Updaters |-> Idle]
  /\ shared = {} /\ cut = FALSE
  /\ troubles = IF busy THEN 0 ELSE MaxTroubles

Trouble == troubles < MaxTroubles /\ troubles' = troubles + 1
Go(u, at) == update' = [update EXCEPT ![u].at = at]
Same == UNCHANGED <<os, release, shared>>

\* What Windows does not delete or replace: a file that runs, or that another
\* has open.
Runs(i)     == \E u \in Updaters : update[u].image = i
Holds(u, i) == os = "windows" /\ \E w \in Updaters \ {u} : update[w].fd = i /\ update[w].at = "get"
Stuck(u, i) == (os = "windows" /\ Runs(i)) \/ Holds(u, i)

\* os.Remove, whose error nobody looks at, and os.Rename.
Remove(u, n) == IF Stuck(u, name[n]) THEN name ELSE [name EXCEPT ![n] = Gone]
CanRename(u, from, to) ==
  name[from] # Gone /\ ~Holds(u, name[from]) /\ (name[to] = Gone \/ ~Stuck(u, name[to]))
Renamed(from, to) == [name EXCEPT ![to] = name[from], ![from] = Gone]

\* A failed run removes the download, whoever's it is by now.
Fail(u) == Go(u, "failed") /\ name' = Remove(u, "new")

-----------------------------------------------------------------------------

Publish ==
  /\ release < MaxRelease /\ troubles < MaxTroubles
  /\ release' = release + 1
  /\ UNCHANGED <<os, name, inode, update, shared, cut, troubles>>

\* A process is started from the binary and looks for a release after the one
\* the binary was stamped with. The panel runs the same for its check.
Plan(u, why) ==
  /\ update[u] = Idle /\ name.exe # Gone
  /\ \E v \in 1 .. release : inode[name.exe] = Release(v) /\
       update' = [update EXCEPT ![u] =
         [Idle EXCEPT !.at = IF release > v THEN "open" ELSE "current",
                      !.why = why, !.image = name.exe, !.to = release]]
  /\ Same /\ UNCHANGED <<name, inode, cut, troubles>>

\* The download is created, or cut to nothing when it is there.
OpenNew(u) ==
  LET i == IF name.new = Gone THEN Len(inode) + 1 ELSE name.new
  IN  /\ update[u].at = "open"
      /\ inode' = [j \in 1 .. Len(inode) \union {i} |-> IF j = i THEN <<>> ELSE inode[j]]
      /\ name' = [name EXCEPT !.new = i]
      /\ update' = [update EXCEPT ![u] = [@ EXCEPT !.at = "get", !.fd = i]]
      /\ shared' = shared \union
           {j \in {i} : \E w \in Updaters \ {u} : update[w].at \in {"get", "swap", "aside", "put"}}
      /\ UNCHANGED <<os, release, cut, troubles>>

WriteAt(c, k, b) ==
  [j \in 1 .. (IF k > Len(c) THEN k ELSE Len(c)) |->
     IF j = k THEN b ELSE IF j <= Len(c) THEN c[j] ELSE Blank]

\* Each run writes where its own stream has come to, and hashes the stream.
Get(u) ==
  LET r == update[u]
  IN  /\ r.at = "get" /\ Len(r.got) < Len(Release(r.to))
      /\ \E b \in {r.to, Bad} :
           /\ update' = [update EXCEPT ![u].got = Append(@, b)]
           /\ inode' = [inode EXCEPT ![r.fd] = WriteAt(@, Len(r.got) + 1, b)]
           /\ IF b = Bad THEN Trouble ELSE UNCHANGED troubles
      /\ Same /\ UNCHANGED <<name, cut>>

GetFails(u) ==
  /\ update[u].at = "get" /\ Trouble /\ Fail(u)
  /\ Same /\ UNCHANGED <<inode, cut>>

\* Mutant: the length is compared, not the hash.
VerifyLength(u) ==
  LET r == update[u]
  IN  /\ r.at = "get" /\ Len(r.got) = Len(Release(r.to))
      /\ Go(u, "swap") /\ UNCHANGED name
      /\ Same /\ UNCHANGED <<inode, cut, troubles>>

\* The hash of the stream, with the one the release lists.
Verify(u) ==
  LET r == update[u]
  IN  /\ r.at = "get" /\ Len(r.got) = Len(Release(r.to))
      /\ IF r.got = Release(r.to) THEN Go(u, "swap") /\ UNCHANGED name ELSE Fail(u)
      /\ Same /\ UNCHANGED <<inode, cut, troubles>>

\* swap on Unix: one rename.
SwapUnix(u) ==
  /\ update[u].at = "swap" /\ os = "unix"
  /\ IF CanRename(u, "new", "exe") THEN Go(u, "installed") /\ name' = Renamed("new", "exe")
                                   ELSE Fail(u)
  /\ Same /\ UNCHANGED <<inode, cut, troubles>>

\* On Windows: what is aside is removed, if it can be,
DropOld(u) ==
  /\ update[u].at = "swap" /\ os = "windows"
  /\ Go(u, "aside") /\ name' = Remove(u, "old")
  /\ Same /\ UNCHANGED <<inode, cut, troubles>>

\* the running binary goes aside,
Aside(u) ==
  /\ update[u].at = "aside"
  /\ IF CanRename(u, "exe", "old") THEN Go(u, "put") /\ name' = Renamed("exe", "old")
                                   ELSE Fail(u)
  /\ Same /\ UNCHANGED <<inode, cut, troubles>>

\* Mutant: the old binary stays aside when the new one cannot be put there.
PutOnly(u) ==
  /\ update[u].at = "put"
  /\ IF CanRename(u, "new", "exe") THEN Go(u, "installed") /\ name' = Renamed("new", "exe")
                                   ELSE Fail(u)
  /\ Same /\ UNCHANGED <<inode, cut, troubles>>

\* and the new one takes its name; if it cannot, the old one is put back.
Put(u) ==
  /\ \/ /\ update[u].at = "put"
        /\ IF CanRename(u, "new", "exe") THEN Go(u, "drop") /\ name' = Renamed("new", "exe")
                                         ELSE Go(u, "back") /\ UNCHANGED name
     \/ /\ update[u].at = "drop" /\ Go(u, "installed") /\ name' = Remove(u, "old")
     \/ /\ update[u].at = "back" /\ Go(u, "quit")
        /\ name' = IF CanRename(u, "old", "exe") THEN Renamed("old", "exe") ELSE name
     \/ /\ update[u].at = "quit" /\ Fail(u)
  /\ Same /\ UNCHANGED <<inode, cut, troubles>>

\* The process ends, or is killed where it is: what it ran and held is free.
End(u) ==
  /\ update[u].at \notin {"idle", "gone"}
  /\ \/ update[u].at \in {"installed", "failed", "current"} /\ UNCHANGED <<cut, troubles>>
     \/ /\ update[u].at \notin {"installed", "failed", "current"} /\ Trouble
        /\ cut' = (cut \/ update[u].at \in {"put", "back"})
  /\ update' = [update EXCEPT ![u] = [Idle EXCEPT !.at = "gone"]]
  /\ Same /\ UNCHANGED <<name, inode>>

\* The panel clears away what a swap had to leave.
CleanLeftovers(u) ==
  /\ update[u] = Idle /\ name.exe # Gone
  /\ name' = Remove(u, "old")
  /\ Same /\ UNCHANGED <<inode, update, cut, troubles>>

InstallNext ==
  \/ Publish
  \/ \E u \in Updaters :
       \/ \E why \in {"install", "check"} : Plan(u, why)
       \/ OpenNew(u) \/ Get(u) \/ GetFails(u) \/ Verify(u)
       \/ SwapUnix(u) \/ DropOld(u) \/ Aside(u) \/ Put(u)
       \/ End(u) \/ CleanLeftovers(u)

-----------------------------------------------------------------------------

\* "Nothing is installed that was not hash-verified" (update.go), as far as it
\* goes: what is installed is a release from its first block to its last,
\* unless its download was opened while another run had one under way.
VerifiedOnly ==
  name.exe # Gone /\ name.exe \notin shared =>
    \E v \in 1 .. release : inode[name.exe] = Release(v)

\* "a failed update must not lose the binary" (swap): there is one, except
\* while a swap on Windows is at its two renames or was killed there, however
\* many updates, clean-ups and failures meet.
BinaryStays ==
  name.exe # Gone \/ cut \/ \E u \in Updaters : update[u].at \in {"put", "back"}

\* Without the exception: one run verifies its stream while another writes to
\* the file.
NothingUnverified ==
  name.exe # Gone => \E v \in 1 .. release : inode[name.exe] = Release(v)

\* "press Install to apply" (the panel's answer to a check): a check installs
\* nothing.
CheckOnlyReports ==
  \A u \in Updaters : update[u].why = "check" => update[u].at # "installed"
=============================================================================
