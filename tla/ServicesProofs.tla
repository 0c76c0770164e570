--------------------------- MODULE ServicesProofs ---------------------------
(***************************************************************************)
(* The invariants of Services, for any tasks and any values of the other   *)
(* constants. First, part by part, the inductive invariant and that every  *)
(* step preserves it: of the books of devices (for ServesPaired), of who   *)
(* watches a daemon (WatchersStay), of who answers at its socket           *)
(* (AloneAnswers), of the update of the binary (VerifiedOnly, BinaryStays),*)
(* of the router's ports (RouterAgrees), of a punch (OneLeft, Meets), and  *)
(* of the files in inbox/ (InboxWhole, KeptUnlessRaced). Last, each of     *)
(* these as a theorem of the specification the runs check.                 *)
(***************************************************************************)
EXTENDS Services, SequenceTheorems, FiniteSetTheorems, WellFoundedInduction, TLAPS

-----------------------------------------------------------------------------
(* Trust. Every copy of a book, in the file, in a daemon's memory, in a     *)
(* command's, on its way to the file, names devices somebody paired there.  *)

TrustTypes ==
  /\ disk \in [Machines -> SUBSET (Devices \union Torn)]
  /\ mem \in [Machines -> SUBSET (Devices \union NoBook)]
  /\ command \in [Machines -> {NoCommand} \union
                    [cmd : {"pair", "unpair"}, of : Devices, book : SUBSET Devices]]
  /\ writing \in [Machines -> SUBSET ({"cli", "daemon"} \X SUBSET Devices)]
  /\ ever \in [Machines -> SUBSET Devices]
  /\ relayed \subseteq Machines \X Devices
  /\ answered \subseteq Machines \X Machines \X Devices

BooksPaired ==
  \A m \in Machines :
    /\ disk[m] # Torn => disk[m] \subseteq ever[m]
    /\ mem[m] # NoBook => mem[m] \subseteq ever[m]
    /\ command[m] # NoCommand => command[m].book \subseteq ever[m]
    /\ \A w \in writing[m] : w[2] \subseteq ever[m]

TrustInv == TrustTypes /\ BooksPaired /\ ServesPaired

LEMMA TrustStart == ASSUME NEW busy \in BOOLEAN, TrustInit(busy) PROVE TrustInv
  BY MachinesAssumption
  DEF TrustInit, TrustInv, TrustTypes, BooksPaired, ServesPaired, NoCommand, Torn, NoBook

\* One step: the record of a machine's pairings only grows, so that what was
\* rightly served stays so, and no copy of a book is made that names more.
LEMMA TrustStep == ASSUME TrustInv, [TrustNext]_trustVars PROVE TrustInv'
<1> USE MachinesAssumption DEF TrustInv, TrustTypes, BooksPaired, ServesPaired, NoCommand
<1>1. ASSUME NEW m \in Machines, EndSave(m) PROVE TrustInv'
  BY <1>1 DEF EndSave, Users, Records
<1>2. ASSUME NEW m \in Machines, Pair(m) PROVE TrustInv'
  BY <1>2 DEF Pair, StartSave, Records
<1>3. ASSUME NEW m \in Machines, Unpair(m) PROVE TrustInv'
  BY <1>3 DEF Unpair, StartSave, Records
<1>4. ASSUME NEW m \in Machines, Restart(m) PROVE TrustInv'
  BY <1>4 DEF Restart, Users, Records, Torn, NoBook
<1>5. ASSUME NEW m \in Machines, NEW x \in Devices, NEW cmd \in {"pair", "unpair"},
             LoadBook(m, cmd, x)
      PROVE  TrustInv'
  BY <1>5 DEF LoadBook, Records
<1>6. ASSUME NEW m \in Machines, NEW x \in Devices, Touch(m, x) PROVE TrustInv'
  BY <1>6 DEF Touch, Knows, StartSave, Users, Records
<1>7. ASSUME NEW m \in Machines, NEW x \in Devices, NEW signer \in Devices, NEW fresh \in BOOLEAN,
             HandleRelay(m, x, signer, fresh)
      PROVE  TrustInv'
  BY <1>7 DEF HandleRelay, CheckAuth, Knows, Users
<1>8. ASSUME NEW m \in Machines, NEW x \in Devices, NEW signer \in Devices, NEW fresh \in BOOLEAN,
             NEW t \in Machines, HandlePunchRelay(m, t, x, signer, fresh)
      PROVE  TrustInv'
  BY <1>8 DEF HandlePunchRelay, VerifyPunchDelivery, CheckAuth, Knows, Users
<1>9. CASE UNCHANGED trustVars
  BY <1>9 DEF trustVars
<1> HIDE DEF TrustInv, TrustTypes, BooksPaired, ServesPaired
<1> QED BY <1>1, <1>2, <1>3, <1>4, <1>5, <1>6, <1>7, <1>8, <1>9 DEF TrustNext

-----------------------------------------------------------------------------
(* Watch. The slice holds nobody twice, so that whoever is still at its own *)
(* place is nowhere else, and one who leaves shifts the others by a place.  *)

WatchTypes ==
  /\ watchers \in Seq(Watchers)
  /\ place \in [Watchers -> Nat]
  /\ handler \in [Watchers -> {"none", "range", "leave", "gone"}]
  /\ reader \in [Watchers -> {"none", "read", "gone"}]
  /\ client \in [Watchers -> {"out", "in", "left"}]

Listened(w) == \E i \in 1 .. Len(watchers) : watchers[i] = w

ListedOnce ==
  /\ \A i, j \in 1 .. Len(watchers) : watchers[i] = watchers[j] => i = j
  /\ \A w \in Watchers :
       /\ client[w] = "out" => ~Listened(w) /\ handler[w] = "none" /\ reader[w] = "none"
       /\ client[w] = "in"  => Listened(w) /\ handler[w] = "range"

WatchInv == WatchTypes /\ ListedOnce

LEMMA Removed ==
  ASSUME NEW S, NEW s \in Seq(S), NEW p \in 1 .. Len(s)
  PROVE  LET r == SubSeq(s, 1, p - 1) \o SubSeq(s, p + 1, Len(s))
         IN  /\ r \in Seq(S) /\ Len(r) = Len(s) - 1
             /\ \A i \in 1 .. Len(r) : /\ i < p => r[i] = s[i]
                                       /\ ~(i < p) => r[i] = s[i + 1]
<1> DEFINE a == SubSeq(s, 1, p - 1)
           b == SubSeq(s, p + 1, Len(s))
<1>1. Len(s) \in Nat /\ p \in Nat /\ p >= 1 /\ p <= Len(s)
  BY LenProperties
<1>2. a \in Seq(S) /\ Len(a) = p - 1 /\ \A i \in 1 .. p - 1 : a[i] = s[i]
  BY <1>1, SubSeqProperties
<1>3. b \in Seq(S) /\ Len(b) = Len(s) - p /\ \A i \in 1 .. Len(s) - p : b[i] = s[p + i]
  BY <1>1, SubSeqProperties
<1>4. /\ a \o b \in Seq(S) /\ Len(a \o b) = Len(a) + Len(b)
      /\ \A i \in 1 .. Len(a) + Len(b) :
           (a \o b)[i] = IF i <= Len(a) THEN a[i] ELSE b[i - Len(a)]
  BY <1>2, <1>3, ConcatProperties
<1> HIDE DEF a, b
<1>5. ASSUME NEW i \in 1 .. Len(s) - 1, i < p PROVE (a \o b)[i] = s[i]
  BY <1>1, <1>2, <1>3, <1>4, <1>5
<1>6. ASSUME NEW i \in 1 .. Len(s) - 1, ~(i < p) PROVE (a \o b)[i] = s[i + 1]
  <2>1. i - (p - 1) \in 1 .. Len(s) - p /\ p + (i - (p - 1)) = i + 1 /\ i - Len(a) = i - (p - 1)
    BY <1>1, <1>2, <1>6
  <2>2. (a \o b)[i] = b[i - (p - 1)]
    BY <1>1, <1>2, <1>3, <1>4, <1>6, <2>1
  <2> QED BY <1>3, <2>1, <2>2
<1>7. Len(a \o b) = Len(s) - 1
  BY <1>1, <1>2, <1>3, <1>4
<1>8. a \o b \in Seq(S)
  BY <1>4
<1>9. \A i \in 1 .. Len(a \o b) : /\ i < p => (a \o b)[i] = s[i]
                                  /\ ~(i < p) => (a \o b)[i] = s[i + 1]
  BY <1>5, <1>6, <1>7
<1> QED BY <1>7, <1>8, <1>9 DEF a, b

\* Unsubscribing at the place that is one's own leaves all others in.
LEMMA UnsubscribeKeeps ==
  ASSUME WatchTypes, ListedOnce, NEW w \in Watchers, Unsubscribe(w)
  PROVE  /\ watchers' \in Seq(Watchers)
         /\ \A i, j \in 1 .. Len(watchers') : watchers'[i] = watchers'[j] => i = j
         /\ \A v \in Watchers : Listened(v)' => Listened(v)
         /\ \A v \in Watchers \ {w} : Listened(v) => Listened(v)'
<1> USE DEF WatchTypes, ListedOnce, Listened
<1>1. CASE place[w] \in 1 .. Len(watchers) /\ watchers[place[w]] = w
  <2> DEFINE p == place[w]
             n == Len(watchers)
  <2>1. watchers' = SubSeq(watchers, 1, p - 1) \o SubSeq(watchers, p + 1, n)
    BY <1>1 DEF Unsubscribe
  <2>2. /\ watchers' \in Seq(Watchers) /\ Len(watchers') = n - 1 /\ n \in Nat /\ p \in 1 .. n
        /\ \A i \in 1 .. n - 1 : /\ i < p => watchers'[i] = watchers[i]
                                 /\ ~(i < p) => watchers'[i] = watchers[i + 1]
    <3>1. n \in Nat /\ p \in 1 .. n /\ watchers \in Seq(Watchers)
      BY <1>1, LenProperties
    <3> QED BY ONLY <2>1, <3>1, Removed
  <2>3. watchers[p] = w
    BY <1>1
  <2> HIDE DEF p, n
  <2>4. ASSUME NEW i \in 1 .. n - 1, NEW j \in 1 .. n - 1, watchers'[i] = watchers'[j]
        PROVE  i = j
    <3> DEFINE up(k) == IF k < p THEN k ELSE k + 1
    <3>1. /\ up(i) \in 1 .. n /\ watchers'[i] = watchers[up(i)]
          /\ up(j) \in 1 .. n /\ watchers'[j] = watchers[up(j)]
      BY <2>2
    <3>2. ASSUME NEW k \in 1 .. n, NEW l \in 1 .. n, watchers[k] = watchers[l] PROVE k = l
      BY <3>2 DEF n
    <3> HIDE DEF ListedOnce, WatchTypes, Listened, up
    <3>3. up(i) = up(j)
      BY <2>4, <3>1, <3>2
    <3> QED BY <2>2, <3>3 DEF up
  <2>5. ASSUME NEW v \in Watchers, NEW i \in 1 .. n - 1, watchers'[i] = v PROVE Listened(v)
    <3>1. i \in 1 .. n /\ i + 1 \in 1 .. n
      BY <2>2
    <3> QED BY <3>1, <2>2, <2>5 DEF n
  <2>6. ASSUME NEW v \in Watchers \ {w}, NEW k \in 1 .. n, watchers[k] = v PROVE Listened(v)'
    <3>1. CASE k < p
      <4>1. k \in 1 .. Len(watchers') /\ watchers'[k] = v
        BY <2>2, <2>6, <3>1
      <4> QED BY <4>1
    <3>2. CASE k > p
      <4>1. k - 1 \in 1 .. n - 1 /\ ~(k - 1 < p) /\ (k - 1) + 1 = k
        BY <2>2, <3>2
      <4>2. k - 1 \in 1 .. Len(watchers') /\ watchers'[k - 1] = v
        BY <4>1, <2>2, <2>6
      <4> QED BY <4>2
    <3>3. k # p
      BY <2>3, <2>6
    <3> QED BY <2>2, <3>1, <3>2, <3>3
  <2> QED BY <2>2, <2>4, <2>5, <2>6 DEF n
<1>2. CASE ~(place[w] \in 1 .. Len(watchers) /\ watchers[place[w]] = w)
  BY <1>2 DEF Unsubscribe
<1> QED BY <1>1, <1>2

\* Listing one more, at the end.
LEMMA Listing ==
  ASSUME NEW s, NEW r, NEW w, Len(s) \in Nat, Len(r) = Len(s) + 1,
         \A i \in 1 .. Len(s) : r[i] = s[i], r[Len(s) + 1] = w,
         \A i, j \in 1 .. Len(s) : s[i] = s[j] => i = j, ~\E i \in 1 .. Len(s) : s[i] = w
  PROVE  /\ \A i, j \in 1 .. Len(r) : r[i] = r[j] => i = j
         /\ \E i \in 1 .. Len(r) : r[i] = w
         /\ \A v : v # w => ((\E i \in 1 .. Len(r) : r[i] = v) <=> (\E i \in 1 .. Len(s) : s[i] = v))
<1>1. \A i \in 1 .. Len(r) : i = Len(s) + 1 \/ i \in 1 .. Len(s)
  OBVIOUS
<1>2. Len(s) + 1 \in 1 .. Len(r) /\ \A i \in 1 .. Len(s) : i \in 1 .. Len(r)
  OBVIOUS
<1> QED BY <1>1, <1>2

LEMMA WatchStart == ASSUME NEW busy \in BOOLEAN, WatchInit(busy) PROVE WatchInv
  BY DEF WatchInit, WatchInv, WatchTypes, ListedOnce, Listened

LEMMA WatchStep == ASSUME WatchInv, [WatchNext]_watchVars PROVE WatchInv'
<1> USE DEF WatchInv, WatchTypes, ListedOnce, Listened
<1>1. CASE Event
  BY <1>1 DEF Event
<1>2. ASSUME NEW w \in Watchers, Subscribe(w) PROVE WatchInv'
  <2>1. /\ watchers' \in Seq(Watchers) /\ Len(watchers') = Len(watchers) + 1
        /\ \A i \in 1 .. Len(watchers) : watchers'[i] = watchers[i]
        /\ watchers'[Len(watchers) + 1] = w /\ Len(watchers) \in Nat
    BY <1>2, AppendProperties, LenProperties DEF Subscribe
  <2>2. ~Listened(w)
    BY <1>2 DEF Subscribe
  <2>3. /\ \A i, j \in 1 .. Len(watchers') : watchers'[i] = watchers'[j] => i = j
        /\ \E i \in 1 .. Len(watchers') : watchers'[i] = w
        /\ \A v : v # w => ((\E i \in 1 .. Len(watchers') : watchers'[i] = v)
                             <=> (\E i \in 1 .. Len(watchers) : watchers[i] = v))
    <3>1. \A i, j \in 1 .. Len(watchers) : watchers[i] = watchers[j] => i = j
      OBVIOUS
    <3>2. ~\E i \in 1 .. Len(watchers) : watchers[i] = w
      BY <2>2
    <3> HIDE DEF WatchInv, WatchTypes, ListedOnce, Listened
    <3> QED BY <2>1, <3>1, <3>2, Listing
  <2> QED BY <1>2, <2>1, <2>3 DEF Subscribe
<1>3. ASSUME NEW w \in Watchers, CloseClient(w) PROVE WatchInv'
  BY <1>3 DEF CloseClient
<1>4. ASSUME NEW w \in Watchers, HandleWatch(w) PROVE WatchInv'
  BY <1>4 DEF HandleWatch
<1>5. ASSUME NEW w \in Watchers, LeaveWatch(w) PROVE WatchInv'
  BY <1>5, UnsubscribeKeeps DEF LeaveWatch
<1>6. ASSUME NEW w \in Watchers, SeeDisconnect(w) PROVE WatchInv'
  <2>1. CASE handler[w] = "gone"
    BY <1>6, <2>1 DEF SeeDisconnect
  <2>2. CASE Unsubscribe(w)
    BY <1>6, <2>2, UnsubscribeKeeps DEF SeeDisconnect
  <2> QED BY <1>6, <2>1, <2>2 DEF SeeDisconnect
<1>7. CASE UNCHANGED watchVars
  BY <1>7 DEF watchVars
<1> HIDE DEF WatchInv, WatchTypes, ListedOnce, Listened
<1> QED BY <1>1, <1>2, <1>3, <1>4, <1>5, <1>6, <1>7 DEF WatchNext, WatchSteps

LEMMA ListedStay == WatchInv => WatchersStay
<1> SUFFICES ASSUME ListedOnce, NEW w \in Watchers, client[w] = "in"
             PROVE \E i \in 1 .. Len(watchers) :
                     /\ watchers[i] = w
                     /\ \A j \in 1 .. Len(watchers) : watchers[j] = w => i = j
  BY DEF WatchInv, WatchersStay
<1>1. PICK i \in 1 .. Len(watchers) : watchers[i] = w
  BY DEF ListedOnce, Listened
<1>2. ASSUME NEW j \in 1 .. Len(watchers), watchers[j] = w PROVE i = j
  <2>1. watchers[i] = watchers[j]
    BY <1>1, <1>2
  <2> QED BY <2>1 DEF ListedOnce
<1> QED BY <1>1, <1>2

-----------------------------------------------------------------------------
(* Daemons. One that met no other runs alone: nobody else has a control     *)
(* loop, so that what it finds at the socket is its own or nobody's.        *)

DaemonTypes ==
  /\ proc \in [Daemons -> {"off", "boot", "up", "stop", "closed", "remove", "wait"}]
  /\ ctl \in [Daemons -> {"none", "probe", "clear", "bind", "serve", "refused", "done"}]
  /\ {sock, pid, panel} \subseteq Daemons \union {Nobody}

LoopsRun == \A d \in Daemons : proc[d] \in {"off", "boot"} => ctl[d] = "none"

MetAll ==
  \A d \in Daemons : Running(d) /\ d \notin met => \A e \in Daemons \ {d} : ~Running(e)

BindsFree ==
  \A d \in Daemons : proc[d] = "up" /\ d \notin met /\ ctl[d] = "bind" => sock = Nobody

DaemonInv == DaemonTypes /\ LoopsRun /\ MetAll /\ BindsFree /\ AloneAnswers

LEMMA DaemonStart == ASSUME NEW busy \in BOOLEAN, DaemonsInit(busy) PROVE DaemonInv
  BY DEF DaemonsInit, DaemonInv, DaemonTypes, LoopsRun, MetAll, BindsFree, AloneAnswers, Running

\* A new daemon and those that run meet.
LEMMA BootStep ==
  ASSUME DaemonInv, NEW d \in Daemons, NEW p \in Ports, Boot(d, p), UNCHANGED <<ctl, sock>>,
         pid' \in {pid, d}, panel' \in {panel, d}
  PROVE  DaemonInv'
  BY DEF Boot, Goto, Running, DaemonInv, DaemonTypes, LoopsRun, MetAll, BindsFree, AloneAnswers

LEMMA DaemonStep == ASSUME DaemonInv, [DaemonsNext]_daemonVars PROVE DaemonInv'
<1> USE DEF DaemonInv, DaemonTypes, LoopsRun, MetAll, BindsFree, AloneAnswers, Running, Goto,
            Control, Kept, Panel
<1>1. ASSUME NEW d \in Daemons, NEW p \in Ports, StartByHand(d, p) PROVE DaemonInv'
  BY <1>1, BootStep DEF StartByHand
<1>2. ASSUME NEW d \in Daemons, NEW p \in Ports, StartDaemon(d, p) PROVE DaemonInv'
  BY <1>2, BootStep DEF StartDaemon
<1>3. ASSUME NEW d \in Daemons, Listen(d) PROVE DaemonInv'
  BY <1>3 DEF Listen
<1>4. ASSUME NEW d \in Daemons, ProbeSocket(d) PROVE DaemonInv'
  BY <1>4 DEF ProbeSocket, Answers
<1>5. ASSUME NEW d \in Daemons, Clear(d) PROVE DaemonInv'
  BY <1>5 DEF Clear
<1>6. ASSUME NEW d \in Daemons, Bind(d) PROVE DaemonInv'
  BY <1>6 DEF Bind
<1>7. ASSUME NEW d \in Daemons, Shutdown(d) PROVE DaemonInv'
  BY <1>7 DEF Shutdown
<1>8. ASSUME NEW d \in Daemons, Stop(d) \/ Kill(d) PROVE DaemonInv'
  BY <1>8 DEF Stop, Kill
<1>9. CASE Started
  BY <1>9 DEF Started
<1>10. CASE StopDaemon
  BY <1>10 DEF StopDaemon, DaemonInfo
<1>11. CASE UNCHANGED daemonVars
  BY <1>11 DEF daemonVars
<1> HIDE DEF DaemonInv, DaemonTypes, LoopsRun, MetAll, BindsFree, AloneAnswers
<1> QED BY <1>1, <1>2, <1>3, <1>4, <1>5, <1>6, <1>7, <1>8, <1>9, <1>10, <1>11
        DEF DaemonsNext, DaemonSteps

-----------------------------------------------------------------------------
(* Install. The file that is called the download, unless it was opened      *)
(* while another run was under way, is the only run's own and holds its      *)
(* stream; what was given the binary's name nobody writes to any more. On    *)
(* Windows a binary that runs is where it was or aside.                      *)

UnderWay == {"get", "swap", "aside", "put"}
Swapping == {"aside", "put", "drop", "back", "quit"}

Names == [exe : Nat, old : Nat, new : Nat]
RunStates == [at : {"idle", "open", "current", "installed", "failed", "gone"}
                \union UnderWay \union Swapping,
          why : {"none", "install", "check"}, image : Nat, to : Nat, fd : Nat, got : Seq(Int)]

InstallTypes ==
  /\ os \in {"unix", "windows"} /\ release \in Nat /\ cut \in BOOLEAN
  /\ inode \in Seq(Seq(Int))
  /\ name \in Names
  /\ update \in [Updaters -> RunStates]

\* Three names of three files; a run looks for a release there is, and writes
\* to a file there is.
NamesApart(n) ==
  /\ n \in Names /\ n.exe <= Len(inode) /\ n.old <= Len(inode) /\ n.new <= Len(inode)
  /\ n.exe # Gone => n.exe \notin {n.old, n.new}
  /\ n.old # Gone => n.old # n.new

FilesApart ==
  /\ NamesApart(name)
  /\ \A u \in Updaters :
       /\ update[u].at \notin {"idle", "gone"} => update[u].to \in 1 .. release
       /\ update[u].at \in UnderWay => update[u].fd \in 1 .. Len(inode)
       /\ update[u].at = "open" => update[u].got = <<>>

OneDownload ==
  name.new # Gone /\ name.new \notin shared =>
    \A u \in Updaters : update[u].at \in UnderWay =>
      /\ update[u].fd = name.new
      /\ \A w \in Updaters \ {u} : update[w].at \notin UnderWay
      /\ inode[name.new] = IF update[u].at = "get" THEN update[u].got ELSE Release(update[u].to)

Whole(i) ==
  i # Gone /\ i \notin shared =>
    /\ \E v \in 1 .. release : inode[i] = Release(v)
    /\ \A u \in Updaters : update[u].at = "get" => update[u].fd # i

Verified == OneDownload /\ Whole(name.exe) /\ Whole(name.old)

VerifyInv == InstallTypes /\ FilesApart /\ Verified

WindowsInv ==
  \A u \in Updaters :
    /\ update[u].at \in Swapping => os = "windows"
    /\ update[u].at \notin {"idle", "gone"} => update[u].image # Gone
    /\ os = "windows" /\ update[u].image # Gone => update[u].image \in {name.exe, name.old}
    /\ os = "windows" /\ update[u].at = "get" => update[u].fd \notin {name.exe, name.old}

BinaryInv == WindowsInv /\ BinaryStays

LEMMA RenamedTo ==
  ASSUME name \in Names
  PROVE  /\ LET n == Renamed("new", "exe")
            IN  n \in Names /\ n.exe = name.new /\ n.old = name.old /\ n.new = Gone
         /\ LET n == Renamed("exe", "old")
            IN  n \in Names /\ n.exe = Gone /\ n.old = name.exe /\ n.new = name.new
         /\ LET n == Renamed("old", "exe")
            IN  n \in Names /\ n.exe = name.old /\ n.old = Gone /\ n.new = name.new
  BY DEF Names, Renamed, Gone

LEMMA Removes ==
  ASSUME name \in Names, NEW u \in Updaters
  PROVE  /\ LET n == Remove(u, "new")
            IN  n \in Names /\ n.exe = name.exe /\ n.old = name.old /\ n.new \in {name.new, Gone}
         /\ LET n == Remove(u, "old")
            IN  /\ n \in Names /\ n.exe = name.exe /\ n.new = name.new /\ n.old \in {name.old, Gone}
                /\ \A w \in Updaters :
                     os = "windows" /\ update[w].image = name.old => n.old = name.old
  BY DEF Names, Remove, Gone, Stuck, Runs

\* A run that writes where its stream has come to, and to a file of its own,
\* adds to the file what it adds to the stream.
LEMMA Written ==
  ASSUME NEW c \in Seq(Int), NEW k \in Nat \ {0}, NEW b \in Int
  PROVE  /\ WriteAt(c, k, b) \in Seq(Int)
         /\ k = Len(c) + 1 => WriteAt(c, k, b) = Append(c, b)
<1>1. Len(c) \in Nat /\ \A j \in 1 .. Len(c) : c[j] \in Int
  BY LenProperties, ElementOfSeq
<1>2. WriteAt(c, k, b) \in Seq(Int)
  <2> DEFINE n == IF k > Len(c) THEN k ELSE Len(c)
  <2>1. n \in Nat
    BY <1>1
  <2>2. WriteAt(c, k, b) \in [1 .. n -> Int]
    BY <1>1 DEF WriteAt, Blank
  <2> HIDE DEF n
  <2> QED BY <2>1, <2>2
<1>3. ASSUME k = Len(c) + 1 PROVE WriteAt(c, k, b) = Append(c, b)
  <2>1. WriteAt(c, k, b) = [j \in 1 .. k |-> IF j = k THEN b ELSE c[j]]
    BY <1>1, <1>3 DEF WriteAt
  <2>2. /\ Append(c, b) \in Seq(Int) /\ Len(Append(c, b)) = k
        /\ \A j \in 1 .. Len(c) : Append(c, b)[j] = c[j]
        /\ Append(c, b)[Len(c) + 1] = b
    BY <1>3, AppendProperties
  <2>3. WriteAt(c, k, b) \in [1 .. k -> Int] /\ Append(c, b) \in [1 .. k -> Int]
    <3>1. k >= 1 /\ Len(c) = k - 1
      BY <1>1, <1>3
    <3>2. WriteAt(c, k, b) \in [1 .. k -> Int]
      BY <2>1, <3>1
    <3> QED BY <2>2, <3>2, LenProperties
  <2>4. ASSUME NEW j \in 1 .. k PROVE WriteAt(c, k, b)[j] = Append(c, b)[j]
    <3>1. j = k \/ j \in 1 .. Len(c)
      BY <1>1, <1>3
    <3> QED BY <1>3, <2>1, <2>2, <3>1
  <2> QED BY <2>3, <2>4
<1> QED BY <1>2, <1>3

LEMMA FileSet ==
  ASSUME NEW s \in Seq(Seq(Int)), NEW i \in 1 .. Len(s), NEW c \in Seq(Int)
  PROVE  LET r == [s EXCEPT ![i] = c]
         IN  /\ r \in Seq(Seq(Int)) /\ Len(r) = Len(s) /\ r[i] = c
             /\ \A j \in 1 .. Len(s) : j # i => r[j] = s[j]
  OBVIOUS

LEMMA FileOpened ==
  ASSUME NEW s \in Seq(Seq(Int)), NEW i \in 1 .. Len(s) + 1
  PROVE  LET r == [j \in 1 .. Len(s) \union {i} |-> IF j = i THEN <<>> ELSE s[j]]
         IN  /\ r \in Seq(Seq(Int)) /\ Len(r) \in {Len(s), Len(s) + 1} /\ i <= Len(r) /\ r[i] = <<>>
             /\ \A j \in 1 .. Len(s) : j # i => r[j] = s[j]
<1> DEFINE n == IF i = Len(s) + 1 THEN Len(s) + 1 ELSE Len(s)
           r == [j \in 1 .. Len(s) \union {i} |-> IF j = i THEN <<>> ELSE s[j]]
<1>1. Len(s) \in Nat /\ \A j \in 1 .. Len(s) : s[j] \in Seq(Int)
  BY LenProperties, ElementOfSeq
<1>2. n \in Nat /\ 1 .. Len(s) \union {i} = 1 .. n
  BY <1>1
<1>3. r \in [1 .. n -> Seq(Int)]
  BY <1>1, <1>2
<1>4. r[i] = <<>> /\ \A j \in 1 .. Len(s) : j # i => r[j] = s[j]
  BY <1>1
<1>5. n \in {Len(s), Len(s) + 1} /\ i <= n
  BY <1>1
<1> HIDE DEF n, r
<1>6. r \in Seq(Seq(Int)) /\ Len(r) = n
  BY <1>2, <1>3
<1> QED BY <1>4, <1>5, <1>6 DEF r

LEMMA IdleState == Idle \in RunStates /\ Idle.at = "idle" /\ Idle.got = <<>> /\ Idle.image = Gone
  BY DEF Idle, Gone, RunStates

LEMMA InstallStart == ASSUME NEW busy \in BOOLEAN, InstallInit(busy) PROVE VerifyInv /\ BinaryInv
<1>1. /\ os \in {"unix", "windows"} /\ release = 2 /\ cut = FALSE
      /\ name.exe = 1 /\ name.old = Gone /\ name.new = Gone /\ name \in Names
  BY DEF InstallInit, Gone, Names
<1>2. inode = << <<1, 1>> >> /\ inode \in Seq(Seq(Int)) /\ Len(inode) = 1
  BY DEF InstallInit, Release
<1>3. /\ update \in [Updaters -> {Idle}] /\ \A u \in Updaters : update[u] = Idle
      /\ Idle.at = "idle" /\ Idle.why = "none" /\ Idle.image = Gone /\ Idle.to = 0 /\ Idle.fd = Gone
      /\ Idle.got = <<>>
  BY DEF InstallInit, Idle
<1>4. InstallTypes
  BY <1>1, <1>2, <1>3, IdleState DEF InstallTypes
<1>5. FilesApart /\ OneDownload
  BY <1>1, <1>2, <1>3 DEF FilesApart, NamesApart, OneDownload, UnderWay, Gone
<1>6. Whole(name.exe) /\ Whole(name.old)
  BY <1>1, <1>2, <1>3 DEF Whole, Release
<1>7. BinaryInv
  BY <1>1, <1>3 DEF BinaryInv, WindowsInv, BinaryStays, Swapping, Gone
<1> QED BY <1>4, <1>5, <1>6, <1>7 DEF VerifyInv, Verified

\* A step of a run from one place to another.
LEMMA Went ==
  ASSUME InstallTypes, NEW u \in Updaters, NEW at \in UnderWay \union Swapping \union {"installed", "failed"},
         Go(u, at)
  PROVE  /\ \A w \in Updaters \ {u} : update'[w] = update[w]
         /\ update' \in [Updaters -> RunStates]
         /\ update'[u].at = at
         /\ update'[u].image = update[u].image /\ update'[u].to = update[u].to
         /\ update'[u].fd = update[u].fd /\ update'[u].got = update[u].got
  BY DEF InstallTypes, Go, RunStates

LEMMA NamesMoved ==
  ASSUME NamesApart(name), Len(inode) \in Nat, NEW u \in Updaters
  PROVE  /\ NamesApart(Remove(u, "new")) /\ NamesApart(Remove(u, "old"))
         /\ name.new # Gone => NamesApart(Renamed("new", "exe"))
         /\ name.exe # Gone => NamesApart(Renamed("exe", "old"))
         /\ name.old # Gone => NamesApart(Renamed("old", "exe"))
<1>1. name \in Names
  BY DEF NamesApart
<1>2. NamesApart(Remove(u, "new")) /\ NamesApart(Remove(u, "old"))
  BY <1>1, Removes DEF NamesApart, Gone
<1>3. ASSUME name.new # Gone PROVE NamesApart(Renamed("new", "exe"))
  BY <1>1, <1>3, RenamedTo DEF NamesApart, Gone
<1>4. ASSUME name.exe # Gone PROVE NamesApart(Renamed("exe", "old"))
  BY <1>1, <1>4, RenamedTo DEF NamesApart, Gone
<1>5. ASSUME name.old # Gone PROVE NamesApart(Renamed("old", "exe"))
  BY <1>1, <1>5, RenamedTo DEF NamesApart, Gone
<1> QED BY <1>2, <1>3, <1>4, <1>5

\* The steps that move names and nothing else on the disk.
LEMMA MoveStep ==
  ASSUME InstallTypes, FilesApart, NEW u \in Updaters,
         NEW at \in UnderWay \union Swapping \union {"installed", "failed"}, Go(u, at),
         update[u].at \in UnderWay \union Swapping, at \in UnderWay => update[u].at \in UnderWay,
         UNCHANGED <<os, release, inode, cut>>,
         NamesApart(name')
  PROVE  InstallTypes' /\ FilesApart'
<1>1. Len(inode) = Len(inode') /\ name' \in Names /\ NamesApart(name)'
  BY DEF NamesApart
<1>2. InstallTypes'
  BY <1>1, Went DEF InstallTypes
<1>3. ASSUME NEW w \in Updaters
      PROVE  /\ update'[w].at \notin {"idle", "gone"} => update'[w].to \in 1 .. release
             /\ update'[w].at \in UnderWay => update'[w].fd \in 1 .. Len(inode)
             /\ update'[w].at = "open" => update'[w].got = <<>>
  BY <1>3, Went DEF FilesApart, UnderWay, Swapping
<1> QED BY <1>1, <1>2, <1>3 DEF FilesApart

LEMMA FileStep ==
  ASSUME InstallTypes, FilesApart, [InstallNext]_installVars PROVE InstallTypes' /\ FilesApart'
<1>0. name \in Names /\ Len(inode) \in Nat /\ NamesApart(name)
  BY LenProperties DEF InstallTypes, FilesApart
<1>1. CASE Publish
  BY <1>1 DEF Publish, InstallTypes, FilesApart, NamesApart
<1>2. ASSUME NEW u \in Updaters, NEW why \in {"install", "check"}, Plan(u, why)
      PROVE  InstallTypes' /\ FilesApart'
  <2>1. PICK v \in 1 .. release :
          update' = [update EXCEPT ![u] =
            [Idle EXCEPT !.at = IF release > v THEN "open" ELSE "current",
                         !.why = why, !.image = name.exe, !.to = release]]
    BY <1>2 DEF Plan
  <2> DEFINE at == IF release > v THEN "open" ELSE "current"
             r == [Idle EXCEPT !.at = at, !.why = why, !.image = name.exe, !.to = release]
  <2>2. at \in {"open", "current"} /\ release \in Nat /\ name.exe \in Nat
    BY <1>0 DEF InstallTypes, Names
  <2> HIDE DEF at
  <2>3. r \in RunStates /\ r.at = at /\ r.to = release /\ r.got = <<>>
    BY <2>2, IdleState DEF RunStates
  <2>4. release \in 1 .. release
    BY <2>1, <2>2
  <2>5. update' = [update EXCEPT ![u] = r]
    BY <2>1 DEF at
  <2> HIDE DEF r
  <2>6. InstallTypes'
    BY <1>2, <2>3, <2>5 DEF Plan, Same, InstallTypes
  <2>7. NamesApart(name)'
    BY <1>0, <1>2 DEF Plan, Same, NamesApart
  <2>8. ASSUME NEW w \in Updaters
        PROVE  /\ update'[w].at \notin {"idle", "gone"} => update'[w].to \in 1 .. release'
               /\ update'[w].at \in UnderWay => update'[w].fd \in 1 .. Len(inode')
               /\ update'[w].at = "open" => update'[w].got = <<>>
    BY <1>2, <2>2, <2>3, <2>4, <2>5 DEF Plan, Same, InstallTypes, FilesApart, UnderWay
  <2> QED BY <2>6, <2>7, <2>8 DEF FilesApart
<1>3. ASSUME NEW u \in Updaters, OpenNew(u) PROVE InstallTypes' /\ FilesApart'
  <2> DEFINE i == IF name.new = Gone THEN Len(inode) + 1 ELSE name.new
  <2>1. i \in 1 .. Len(inode) + 1 /\ i \in Nat
        /\ (i = name.new \/ i = Len(inode) + 1)
    BY <1>0 DEF NamesApart, Names, Gone
  <2>2. /\ name' = [name EXCEPT !.new = i]
        /\ update' = [update EXCEPT ![u] = [@ EXCEPT !.at = "get", !.fd = i]]
        /\ inode' = [j \in 1 .. Len(inode) \union {i} |-> IF j = i THEN <<>> ELSE inode[j]]
        /\ UNCHANGED <<os, release, cut>> /\ update[u].at = "open"
    BY <1>3 DEF OpenNew
  <2>3. name' \in Names /\ name'.new = i /\ name'.exe = name.exe /\ name'.old = name.old
    BY <1>0, <2>1, <2>2 DEF Names
  <2>4. inode' \in Seq(Seq(Int)) /\ Len(inode') \in Nat /\ Len(inode') >= Len(inode) /\ i <= Len(inode')
    <3>1. inode \in Seq(Seq(Int)) /\ i \in 1 .. Len(inode) + 1
      BY <2>1 DEF InstallTypes
    <3> HIDE DEF i
    <3>2. inode' \in Seq(Seq(Int)) /\ Len(inode') \in {Len(inode), Len(inode) + 1} /\ i <= Len(inode')
      BY <2>2, <3>1, FileOpened
    <3> QED BY <1>0, <3>2
  <2> HIDE DEF i
  <2>5. /\ update' \in [Updaters -> RunStates] /\ update'[u].at = "get" /\ update'[u].fd = i
        /\ update'[u].to = update[u].to
        /\ \A w \in Updaters \ {u} : update'[w] = update[w]
    BY <2>1, <2>2 DEF InstallTypes, RunStates, UnderWay
  <2>6. InstallTypes'
    BY <2>2, <2>3, <2>4, <2>5 DEF InstallTypes
  <2>7. NamesApart(name)'
    BY <1>0, <2>1, <2>3, <2>4 DEF NamesApart, Names, Gone
  <2>8. ASSUME NEW w \in Updaters
        PROVE  /\ update'[w].at \notin {"idle", "gone"} => update'[w].to \in 1 .. release'
               /\ update'[w].at \in UnderWay => update'[w].fd \in 1 .. Len(inode')
               /\ update'[w].at = "open" => update'[w].got = <<>>
    BY <1>0, <2>1, <2>2, <2>4, <2>5 DEF FilesApart, UnderWay
  <2> QED BY <2>6, <2>7, <2>8 DEF FilesApart
<1>4. ASSUME NEW u \in Updaters, Get(u) PROVE InstallTypes' /\ FilesApart'
  <2>1. PICK b \in {update[u].to, Bad} :
          /\ update' = [update EXCEPT ![u].got = Append(@, b)]
          /\ inode' = [inode EXCEPT ![update[u].fd] = WriteAt(@, Len(update[u].got) + 1, b)]
    BY <1>4 DEF Get
  <2>2. update[u].at = "get" /\ UNCHANGED <<os, release, name, cut>>
    BY <1>4 DEF Get, Same
  <2>3. b \in Int /\ update[u] \in RunStates /\ update[u].got \in Seq(Int)
    BY <2>1 DEF InstallTypes, RunStates, Bad
  <2>4. update[u].fd \in 1 .. Len(inode) /\ inode[update[u].fd] \in Seq(Int)
    BY <2>2, ElementOfSeq DEF FilesApart, InstallTypes, UnderWay
  <2>5. /\ Append(update[u].got, b) \in Seq(Int)
        /\ WriteAt(inode[update[u].fd], Len(update[u].got) + 1, b) \in Seq(Int)
    <3>1. Len(update[u].got) + 1 \in Nat \ {0}
      BY <2>3, LenProperties
    <3> QED BY <2>3, <2>4, <3>1, Written, AppendProperties
  <2>6. inode' \in Seq(Seq(Int)) /\ Len(inode') = Len(inode)
    BY <2>1, <2>4, <2>5, FileSet DEF InstallTypes
  <2>7. /\ update' \in [Updaters -> RunStates]
        /\ update'[u].at = "get" /\ update'[u].to = update[u].to /\ update'[u].fd = update[u].fd
        /\ \A w \in Updaters \ {u} : update'[w] = update[w]
    BY <2>1, <2>2, <2>3, <2>5 DEF InstallTypes, RunStates
  <2>8. InstallTypes'
    BY <2>2, <2>6, <2>7 DEF InstallTypes
  <2> QED BY <1>0, <2>2, <2>6, <2>7, <2>8 DEF FilesApart, NamesApart, UnderWay
<1>5. ASSUME NEW u \in Updaters, GetFails(u) PROVE InstallTypes' /\ FilesApart'
  BY <1>5, <1>0, MoveStep, NamesMoved DEF GetFails, Fail, Same, UnderWay, Swapping
<1>6. ASSUME NEW u \in Updaters, Verify(u) PROVE InstallTypes' /\ FilesApart'
  BY <1>6, <1>0, MoveStep, NamesMoved DEF Verify, Fail, Same, UnderWay, Swapping
<1>7. ASSUME NEW u \in Updaters, SwapUnix(u) PROVE InstallTypes' /\ FilesApart'
  BY <1>7, <1>0, MoveStep, NamesMoved DEF SwapUnix, Fail, CanRename, Same, UnderWay, Swapping
<1>8. ASSUME NEW u \in Updaters, DropOld(u) PROVE InstallTypes' /\ FilesApart'
  BY <1>8, <1>0, MoveStep, NamesMoved DEF DropOld, Same, UnderWay, Swapping
<1>9. ASSUME NEW u \in Updaters, Aside(u) PROVE InstallTypes' /\ FilesApart'
  BY <1>9, <1>0, MoveStep, NamesMoved DEF Aside, Fail, CanRename, Same, UnderWay, Swapping
<1>10. ASSUME NEW u \in Updaters, Put(u) PROVE InstallTypes' /\ FilesApart'
  BY <1>10, <1>0, MoveStep, NamesMoved DEF Put, Fail, CanRename, Same, UnderWay, Swapping
<1>11. ASSUME NEW u \in Updaters, End(u) PROVE InstallTypes' /\ FilesApart'
  <2>1. /\ update' = [update EXCEPT ![u] = [Idle EXCEPT !.at = "gone"]]
        /\ UNCHANGED <<os, release, name, inode>> /\ cut' \in BOOLEAN
    BY <1>11 DEF End, Same, Trouble, InstallTypes
  <2>2. LET r == [Idle EXCEPT !.at = "gone"] IN r \in RunStates /\ r.at = "gone"
    BY IdleState DEF RunStates
  <2> QED BY <1>0, <2>1, <2>2 DEF InstallTypes, FilesApart, NamesApart, UnderWay
<1>12. ASSUME NEW u \in Updaters, CleanLeftovers(u) PROVE InstallTypes' /\ FilesApart'
  BY <1>12, <1>0, NamesMoved DEF CleanLeftovers, Same, InstallTypes, FilesApart, NamesApart
<1>13. CASE UNCHANGED installVars
  BY <1>13 DEF installVars, InstallTypes, FilesApart, NamesApart
<1> QED BY <1>1, <1>2, <1>3, <1>4, <1>5, <1>6, <1>7, <1>8, <1>9, <1>10, <1>11, <1>12, <1>13
        DEF InstallNext

\* What takes the binary's name, or the old one's, is what had one of them, or
\* the download of a run that has verified it.
LEMMA VerifiedMove ==
  ASSUME InstallTypes, FilesApart, Verified, NEW u \in Updaters,
         NEW at \in (UnderWay \ {"get"}) \union Swapping \union {"installed", "failed"}, Go(u, at),
         at \in UnderWay => update[u].at \in UnderWay,
         at \in UnderWay /\ update[u].at = "get" => update[u].got = Release(update[u].to),
         UNCHANGED <<release, inode, shared>>,
         name'.new \in {name.new, Gone},
         name'.old \in {name.exe, name.old, Gone},
         \/ name'.exe \in {name.exe, name.old, Gone}
         \/ name'.exe = name.new /\ update[u].at \in {"swap", "put"} /\ at \notin UnderWay
  PROVE  Verified'
<1>1. /\ \A w \in Updaters \ {u} : update'[w] = update[w]
      /\ update'[u].at = at /\ at # "get"
      /\ update'[u].fd = update[u].fd /\ update'[u].to = update[u].to
  BY Went DEF UnderWay, Swapping
<1>2. ASSUME NEW w \in Updaters, update'[w].at \in UnderWay
      PROVE  update[w].at \in UnderWay /\ update'[w].fd = update[w].fd /\ update'[w].to = update[w].to
  BY <1>1, <1>2
<1>3. OneDownload'
  BY <1>1, <1>2 DEF OneDownload, Verified
<1>4. ASSUME NEW n, Whole(n), n = Gone \/ n \in {name.exe, name.old} PROVE Whole(n)'
  BY <1>1, <1>4 DEF Whole
<1>5. Whole(Gone)
  BY DEF Whole
<1>6. CASE name'.exe = name.new /\ update[u].at \in {"swap", "put"} /\ at \notin UnderWay
  <2>1. ASSUME name.new # Gone, name.new \notin shared
        PROVE  /\ inode[name.new] = Release(update[u].to) /\ update[u].to \in 1 .. release
               /\ \A w \in Updaters : update'[w].at # "get"
    BY <1>1, <1>6, <2>1 DEF OneDownload, Verified, UnderWay, FilesApart
  <2>2. Whole(name.exe)'
    BY <1>6, <2>1 DEF Whole
  <2> QED BY <1>3, <1>4, <1>5, <2>2 DEF Verified
<1>7. CASE name'.exe \in {name.exe, name.old, Gone}
  BY <1>3, <1>4, <1>5, <1>7 DEF Verified
<1> QED BY <1>6, <1>7

LEMMA VerifyStep ==
  ASSUME InstallTypes, FilesApart, Verified, [InstallNext]_installVars PROVE Verified'
<1>0. name \in Names /\ Len(inode) \in Nat /\ NamesApart(name) /\ InstallTypes' /\ FilesApart'
  BY LenProperties, FileStep DEF InstallTypes, FilesApart
<1>1. CASE Publish
  BY <1>1 DEF Publish, Verified, OneDownload, Whole, InstallTypes
<1>2. ASSUME NEW u \in Updaters, NEW why \in {"install", "check"}, Plan(u, why)
      PROVE  Verified'
  <2>1. /\ UNCHANGED <<release, name, inode, shared>> /\ update'[u].at \in {"open", "current"}
        /\ \A w \in Updaters \ {u} : update'[w] = update[w]
    BY <1>2 DEF Plan, Same, InstallTypes, Idle
  <2> QED BY <2>1 DEF Verified, OneDownload, Whole, UnderWay
<1>3. ASSUME NEW u \in Updaters, OpenNew(u) PROVE Verified'
  <2> DEFINE i == IF name.new = Gone THEN Len(inode) + 1 ELSE name.new
  <2>1. /\ i \in 1 .. Len(inode) + 1 /\ i \notin {name.exe, name.old}
        /\ name.exe # Gone => name.exe \in 1 .. Len(inode)
        /\ name.old # Gone => name.old \in 1 .. Len(inode)
    BY <1>0 DEF NamesApart, Names, Gone
  <2>2. /\ name' = [name EXCEPT !.new = i]
        /\ update' = [update EXCEPT ![u] = [@ EXCEPT !.at = "get", !.fd = i]]
        /\ inode' = [j \in 1 .. Len(inode) \union {i} |-> IF j = i THEN <<>> ELSE inode[j]]
        /\ shared' = shared \union
             {j \in {i} : \E w \in Updaters \ {u} : update[w].at \in {"get", "swap", "aside", "put"}}
        /\ release' = release /\ update[u].at = "open"
    BY <1>3 DEF OpenNew
  <2>3. inode \in Seq(Seq(Int)) /\ i \in 1 .. Len(inode) + 1
    BY <2>1 DEF InstallTypes
  <2> HIDE DEF i
  <2>4. inode'[i] = <<>> /\ \A j \in 1 .. Len(inode) : j # i => inode'[j] = inode[j]
    BY <2>2, <2>3, FileOpened
  <2>5. name'.new = i /\ name'.exe = name.exe /\ name'.old = name.old
    BY <1>0, <2>2 DEF Names
  <2>6. /\ update'[u].at = "get" /\ update'[u].fd = i /\ update'[u].got = <<>>
        /\ \A w \in Updaters \ {u} : update'[w] = update[w]
    BY <2>2 DEF InstallTypes, RunStates, FilesApart
  <2>7. OneDownload'
    BY <2>2, <2>4, <2>5, <2>6 DEF OneDownload, UnderWay
  <2>8. ASSUME NEW n \in {name.exe, name.old}, Whole(n) PROVE Whole(n)'
    BY <2>1, <2>2, <2>4, <2>6, <2>8 DEF Whole
  <2> QED BY <2>5, <2>7, <2>8 DEF Verified
<1>4. ASSUME NEW u \in Updaters, Get(u) PROVE Verified'
  <2>1. PICK b \in {update[u].to, Bad} :
          /\ update' = [update EXCEPT ![u].got = Append(@, b)]
          /\ inode' = [inode EXCEPT ![update[u].fd] = WriteAt(@, Len(update[u].got) + 1, b)]
    BY <1>4 DEF Get
  <2>2. update[u].at = "get" /\ UNCHANGED <<release, name, shared>>
    BY <1>4 DEF Get, Same
  <2>3. b \in Int /\ update[u].got \in Seq(Int) /\ Len(update[u].got) + 1 \in Nat \ {0}
    BY <2>1, LenProperties DEF InstallTypes, RunStates, Bad
  <2> DEFINE fd == update[u].fd
             c  == WriteAt(inode[fd], Len(update[u].got) + 1, b)
  <2>4. fd \in 1 .. Len(inode) /\ inode[fd] \in Seq(Int) /\ inode \in Seq(Seq(Int))
    BY <2>2, ElementOfSeq DEF FilesApart, InstallTypes, UnderWay
  <2>5. c \in Seq(Int) /\ (inode[fd] = update[u].got => c = Append(update[u].got, b))
    BY <2>3, <2>4, Written
  <2>6. inode' = [inode EXCEPT ![fd] = c]
    BY <2>1
  <2>7. /\ update'[u].at = "get" /\ update'[u].fd = fd /\ update'[u].got = Append(update[u].got, b)
        /\ \A w \in Updaters \ {u} : update'[w] = update[w]
    BY <2>1, <2>2 DEF InstallTypes, RunStates
  <2> HIDE DEF fd, c
  <2>8. inode'[fd] = c /\ \A j \in 1 .. Len(inode) : j # fd => inode'[j] = inode[j]
    BY <2>4, <2>5, <2>6, FileSet
  <2>9. OneDownload'
    BY <2>2, <2>5, <2>7, <2>8 DEF OneDownload, Verified, UnderWay, fd
  <2>10. ASSUME NEW n \in {name.exe, name.old}, Whole(n) PROVE Whole(n)'
    <3>1. n # Gone => n \in 1 .. Len(inode)
      BY <1>0 DEF NamesApart, Names, Gone
    <3>2. n # Gone /\ n \notin shared => n # fd
      BY <2>2, <2>10 DEF Whole, fd
    <3> QED BY <2>2, <2>7, <2>8, <2>10, <3>1, <3>2 DEF Whole, fd
  <2> QED BY <2>2, <2>9, <2>10 DEF Verified
<1>5. ASSUME NEW u \in Updaters, GetFails(u) PROVE Verified'
  BY <1>5, <1>0, VerifiedMove, Removes DEF GetFails, Fail, Same, UnderWay
<1>6. ASSUME NEW u \in Updaters, Verify(u) PROVE Verified'
  BY <1>6, <1>0, VerifiedMove, Removes DEF Verify, Fail, Same, UnderWay
<1>7. ASSUME NEW u \in Updaters, SwapUnix(u) PROVE Verified'
  BY <1>7, <1>0, VerifiedMove, Removes, RenamedTo DEF SwapUnix, Fail, Same, UnderWay
<1>8. ASSUME NEW u \in Updaters, DropOld(u) PROVE Verified'
  BY <1>8, <1>0, VerifiedMove, Removes DEF DropOld, Same, UnderWay
<1>9. ASSUME NEW u \in Updaters, Aside(u) PROVE Verified'
  BY <1>9, <1>0, VerifiedMove, Removes, RenamedTo DEF Aside, Fail, Same, UnderWay
<1>10. ASSUME NEW u \in Updaters, Put(u) PROVE Verified'
  BY <1>10, <1>0, VerifiedMove, Removes, RenamedTo DEF Put, Fail, Same, UnderWay, Swapping
<1>11. ASSUME NEW u \in Updaters, End(u) PROVE Verified'
  <2>1. /\ UNCHANGED <<release, name, inode, shared>> /\ update'[u].at = "gone"
        /\ \A w \in Updaters \ {u} : update'[w] = update[w]
    BY <1>11 DEF End, Same, InstallTypes, Idle
  <2> QED BY <2>1 DEF Verified, OneDownload, Whole, UnderWay
<1>12. ASSUME NEW u \in Updaters, CleanLeftovers(u) PROVE Verified'
  BY <1>12, <1>0, Removes DEF CleanLeftovers, Same, Verified, OneDownload, Whole
<1>13. CASE UNCHANGED installVars
  BY <1>13 DEF installVars, Verified, OneDownload, Whole
<1> QED BY <1>1, <1>2, <1>3, <1>4, <1>5, <1>6, <1>7, <1>8, <1>9, <1>10, <1>11, <1>12, <1>13
        DEF InstallNext

\* The old binary is there to be put back as long as the run that took it
\* aside runs, because that is the binary it runs.
LEMMA BinaryStep ==
  ASSUME InstallTypes, FilesApart, BinaryInv, [InstallNext]_installVars PROVE BinaryInv'
<1>0. /\ name \in Names /\ Len(inode) \in Nat /\ NamesApart(name)
      /\ \A u \in Updaters : update[u].at = "get" => update[u].fd # Gone
  BY LenProperties DEF InstallTypes, FilesApart, UnderWay, Gone
<1>1. CASE Publish
  BY <1>1 DEF Publish, BinaryInv, WindowsInv, BinaryStays
<1>2. ASSUME NEW u \in Updaters, NEW why \in {"install", "check"}, Plan(u, why)
      PROVE  BinaryInv'
  <2>1. /\ UNCHANGED <<os, name, cut>> /\ update'[u].at \in {"open", "current"}
        /\ update'[u].image = name.exe /\ name.exe # Gone
        /\ \A w \in Updaters \ {u} : update'[w] = update[w]
    BY <1>2 DEF Plan, Same, InstallTypes, Idle
  <2> QED BY <2>1 DEF BinaryInv, WindowsInv, BinaryStays, Swapping
<1>3. ASSUME NEW u \in Updaters, OpenNew(u) PROVE BinaryInv'
  <2> DEFINE i == IF name.new = Gone THEN Len(inode) + 1 ELSE name.new
  <2>1. i \in 1 .. Len(inode) + 1 /\ i \notin {name.exe, name.old}
    BY <1>0 DEF NamesApart, Names, Gone
  <2>2. /\ name' = [name EXCEPT !.new = i]
        /\ update' = [update EXCEPT ![u] = [@ EXCEPT !.at = "get", !.fd = i]]
        /\ UNCHANGED <<os, cut>> /\ update[u].at = "open"
    BY <1>3 DEF OpenNew
  <2> HIDE DEF i
  <2>3. name'.exe = name.exe /\ name'.old = name.old
    BY <1>0, <2>2 DEF Names
  <2>4. /\ update'[u].at = "get" /\ update'[u].fd = i /\ update'[u].image = update[u].image
        /\ \A w \in Updaters \ {u} : update'[w] = update[w]
    BY <2>2 DEF InstallTypes, RunStates
  <2> QED BY <2>1, <2>2, <2>3, <2>4 DEF BinaryInv, WindowsInv, BinaryStays, Swapping
<1>4. ASSUME NEW u \in Updaters, Get(u) PROVE BinaryInv'
  <2>1. /\ UNCHANGED <<os, name, cut>>
        /\ \A w \in Updaters : /\ update'[w].at = update[w].at /\ update'[w].image = update[w].image
                               /\ update'[w].fd = update[w].fd
    BY <1>4 DEF Get, Same, InstallTypes, RunStates
  <2> QED BY <2>1 DEF BinaryInv, WindowsInv, BinaryStays
<1>5. ASSUME NEW u \in Updaters, GetFails(u) PROVE BinaryInv'
  BY <1>5, <1>0, Went, Removes
  DEF GetFails, Fail, Same, BinaryInv, WindowsInv, BinaryStays, UnderWay, Swapping
<1>6. ASSUME NEW u \in Updaters, Verify(u) PROVE BinaryInv'
  BY <1>6, <1>0, Went, Removes
  DEF Verify, Fail, Same, BinaryInv, WindowsInv, BinaryStays, UnderWay, Swapping
<1>7. ASSUME NEW u \in Updaters, SwapUnix(u) PROVE BinaryInv'
  BY <1>7, <1>0, Went, Removes, RenamedTo
  DEF SwapUnix, CanRename, Fail, Same, BinaryInv, WindowsInv, BinaryStays, UnderWay, Swapping
<1>8. ASSUME NEW u \in Updaters, DropOld(u) PROVE BinaryInv'
  BY <1>8, <1>0, Went, Removes
  DEF DropOld, Same, BinaryInv, WindowsInv, BinaryStays, UnderWay, Swapping
<1>9. ASSUME NEW u \in Updaters, Aside(u) PROVE BinaryInv'
  <2>1. CASE CanRename(u, "exe", "old") /\ Go(u, "put") /\ name' = Renamed("exe", "old")
    <3>1. name'.exe = Gone /\ name'.old = name.exe /\ UNCHANGED <<os, cut>> /\ update[u].at = "aside"
      BY <1>0, <1>9, <2>1, RenamedTo DEF Aside, Same
    <3>2. \A w \in Updaters : os = "windows" /\ update[w].image # Gone => update[w].image # name.old
      BY <2>1 DEF CanRename, Stuck, Runs, Gone
    <3> QED BY <1>0, <2>1, <3>1, <3>2, Went
            DEF BinaryInv, WindowsInv, BinaryStays, UnderWay, Swapping
  <2>2. CASE Fail(u)
    BY <1>9, <2>2, <1>0, Went, Removes
    DEF Aside, Fail, Same, BinaryInv, WindowsInv, BinaryStays, UnderWay, Swapping
  <2> QED BY <1>9, <2>1, <2>2 DEF Aside
<1>10. ASSUME NEW u \in Updaters, Put(u) PROVE BinaryInv'
  <2>0. UNCHANGED <<os, cut>> /\ (update[u].at \in Swapping => os = "windows")
    BY <1>10 DEF Put, Same, BinaryInv, WindowsInv
  <2>1. CASE update[u].at = "put" /\ CanRename(u, "new", "exe") /\ Go(u, "drop")
             /\ name' = Renamed("new", "exe")
    <3>1. name'.exe = name.new /\ name'.old = name.old /\ name.new # Gone
      BY <1>0, <2>1, RenamedTo DEF CanRename
    <3>2. \A w \in Updaters : update[w].image # Gone => update[w].image # name.exe
      BY <2>0, <2>1 DEF CanRename, Stuck, Runs, Gone, Swapping
    <3>3. \A w \in Updaters \ {u} : update[w].at = "get" => update[w].fd # name.new
      BY <2>0, <2>1 DEF CanRename, Holds, Swapping
    <3> QED BY <1>0, <2>0, <2>1, <3>1, <3>2, <3>3, Went
            DEF BinaryInv, WindowsInv, BinaryStays, UnderWay, Swapping
  <2>2. CASE update[u].at = "put" /\ Go(u, "back") /\ UNCHANGED name
    BY <2>0, <2>2, Went DEF BinaryInv, WindowsInv, BinaryStays, UnderWay, Swapping
  <2>3. CASE update[u].at = "drop" /\ Go(u, "installed") /\ name' = Remove(u, "old")
    BY <1>0, <2>0, <2>3, Went, Removes DEF BinaryInv, WindowsInv, BinaryStays, UnderWay, Swapping
  <2>4. CASE update[u].at = "back" /\ Go(u, "quit") /\ CanRename(u, "old", "exe")
             /\ name' = Renamed("old", "exe")
    <3>1. name'.exe = name.old /\ name'.old = Gone /\ name.old # Gone
      BY <1>0, <2>4, RenamedTo DEF CanRename
    <3>2. \A w \in Updaters : update[w].image # Gone => update[w].image # name.exe
      BY <2>0, <2>4 DEF CanRename, Stuck, Runs, Gone, Swapping
    <3> QED BY <1>0, <2>0, <2>4, <3>1, <3>2, Went
            DEF BinaryInv, WindowsInv, BinaryStays, UnderWay, Swapping
  <2>5. CASE update[u].at = "back" /\ Go(u, "quit") /\ ~CanRename(u, "old", "exe") /\ UNCHANGED name
    <3>1. name.exe # Gone
      <4> SUFFICES ASSUME name.exe = Gone PROVE FALSE
        OBVIOUS
      <4>1. update[u].image # Gone /\ update[u].image = name.old /\ os = "windows"
        BY <2>0, <2>5 DEF BinaryInv, WindowsInv, Swapping
      <4>2. ~Holds(u, name.old)
        BY <4>1 DEF Holds, BinaryInv, WindowsInv
      <4> QED BY <2>5, <4>1, <4>2 DEF CanRename
    <3> QED BY <2>0, <2>5, <3>1, Went DEF BinaryInv, WindowsInv, BinaryStays, UnderWay, Swapping
  <2>6. CASE update[u].at = "quit" /\ Fail(u)
    BY <1>0, <2>0, <2>6, Went, Removes
    DEF Fail, BinaryInv, WindowsInv, BinaryStays, UnderWay, Swapping
  <2> QED BY <1>10, <2>1, <2>2, <2>3, <2>4, <2>5, <2>6 DEF Put
<1>11. ASSUME NEW u \in Updaters, End(u) PROVE BinaryInv'
  <2>1. /\ UNCHANGED <<os, name>> /\ update'[u].at = "gone" /\ update'[u].image = Gone
        /\ \A w \in Updaters \ {u} : update'[w] = update[w]
    BY <1>11, IdleState DEF End, Same, InstallTypes, RunStates
  <2>2. cut \/ update[u].at \in {"put", "back"} => cut'
    BY <1>11 DEF End
  <2> QED BY <2>1, <2>2 DEF BinaryInv, WindowsInv, BinaryStays, Swapping
<1>12. ASSUME NEW u \in Updaters, CleanLeftovers(u) PROVE BinaryInv'
  BY <1>12, <1>0, Removes DEF CleanLeftovers, Same, BinaryInv, WindowsInv, BinaryStays
<1>13. CASE UNCHANGED installVars
  BY <1>13 DEF installVars, BinaryInv, WindowsInv, BinaryStays
<1> QED BY <1>1, <1>2, <1>3, <1>4, <1>5, <1>6, <1>7, <1>8, <1>9, <1>10, <1>11, <1>12, <1>13
        DEF InstallNext

-----------------------------------------------------------------------------
(* Mapping. What a daemon was told of it remembers: the local port as got   *)
(* by UPnP, or the one port NAT-PMP gave it, which is the same at every     *)
(* renewal. What a try got lasts an hour, and there is a try every half.    *)

Entries == [to : Hosts \union {"nobody"}, by : {"none", "upnp", "pmp"}, left : Int, known : BOOLEAN]

MappingTypes ==
  /\ forwards \in [WanPorts -> Entries]
  /\ life \in [Hosts -> {"off", "start", "up", "stop", "closed"}]
  /\ mapper \in [Hosts -> {"none", "upnp", "pmp"}]
  /\ refresher \in [Hosts -> {"gone", "wait", "fired", "busy"}]
  /\ upnpMapped \in [Hosts -> BOOLEAN]
  /\ natMappedPort \in [Hosts -> WanPorts \union {0}]
  /\ last \in [Hosts -> WanPorts \union {0}]

\* Who maps ports has just started or renews; who runs renews.
LoopsInv ==
  \A h \in Hosts :
    /\ mapper[h] # "none" => life[h] = "start" \/ refresher[h] = "busy"
    /\ refresher[h] = "busy" => mapper[h] # "none"
    /\ life[h] \in {"start", "up"} => refresher[h] # "gone"
    /\ life[h] = "off" => refresher[h] = "gone"

Known(h, p) == Own(h, p) /\ forwards[p].known
ByPMP(h, p) == Own(h, p) /\ forwards[p].by = "pmp"
ByUPnP(h, p) == p = LocalPort /\ upnpMapped[h]

TableInv ==
  /\ \A p \in WanPorts : /\ forwards[p].by = "upnp" => p = LocalPort
                         /\ forwards[p].by = "none" => ~forwards[p].known
  /\ \A h \in Hosts, p \in WanPorts :
       /\ Known(h, p) => life[h] \in {"start", "up", "stop"}
       /\ Known(h, p) => ByUPnP(h, p) \/ p = natMappedPort[h]
       /\ \A q \in WanPorts : ByPMP(h, q) /\ (ByPMP(h, p) \/ (Known(h, p) /\ ~ByUPnP(h, p))) => p = q

LeaseInv ==
  \A h \in Hosts : life[h] = "up" /\ last[h] # 0 =>
    /\ Own(h, last[h]) /\ forwards[last[h]].left >= 1
    /\ forwards[last[h]].left >= Lease \/ refresher[h] \in {"fired", "busy"}

MappingInv == MappingTypes /\ LoopsInv /\ TableInv /\ LeaseInv

LEMMA RouterAgreed == MappingInv => RouterAgrees
  BY DEF MappingInv, TableInv, LeaseInv, RouterAgrees, TornDown, LeaseKept, Known, MappingTypes

LEMMA MappingStart == ASSUME NEW busy \in BOOLEAN, MappingInit(busy) PROVE MappingInv
<1>1. Closed \in Entries /\ Closed.by = "none" /\ Closed.known = FALSE
  BY DEF Closed, Entries
<1> QED BY <1>1 DEF MappingInit, MappingInv, MappingTypes, LoopsInv, TableInv, LeaseInv, Known, ByPMP

\* An entry made or renewed: what its daemon knew of it, it still knows.
LEMMA NewEntry ==
  ASSUME MappingTypes, NEW h \in Hosts, NEW p \in WanPorts, NEW by \in {"upnp", "pmp"},
         NEW known \in BOOLEAN
  PROVE  LET e == Entry(h, p, by, known)
         IN  /\ e \in Entries /\ e.to = h /\ e.by = by /\ e.left = Lease
             /\ e.known <=> known \/ Known(h, p)
  BY DEF Entry, Entries, Known, Own, MappingTypes, Lease

\* What a port may be got by h: nobody's or its own; the local one, or, by
\* NAT-PMP, the one port it has there already, and with it the one it knows of.
Got(h, p, by) ==
  /\ p \in WanPorts /\ (forwards[p] = Closed \/ Own(h, p))
  /\ by \in {"upnp", "pmp"} /\ (by = "upnp" => p = LocalPort)
  /\ by = "pmp" => \A q \in WanPorts \ {p} : ~ByPMP(h, q) /\ (Known(h, q) => ByUPnP(h, q))

LEMMA Grants ==
  ASSUME MappingInv, NEW h \in Hosts
  PROVE  /\ \A p \in Grantable(h) : Got(h, p, "upnp")
         /\ \A p \in Offers(h) : Got(h, p, "pmp")
<1> USE LocalPortAssumption
<1>1. \A p \in Grantable(h) : Got(h, p, "upnp")
  BY DEF Grantable, Got
<1>2. ASSUME NEW p \in Offers(h) PROVE Got(h, p, "pmp")
  <2> DEFINE pmp == {q \in WanPorts : Own(h, q) /\ forwards[q].by = "pmp"}
  <2>1. CASE pmp # {}
    <3>1. p \in WanPorts /\ Own(h, p) /\ ByPMP(h, p)
      BY <1>2, <2>1 DEF Offers, ByPMP
    <3>2. ASSUME NEW q \in WanPorts \ {p} PROVE ~ByPMP(h, q) /\ (Known(h, q) => ByUPnP(h, q))
      BY <3>1 DEF MappingInv, TableInv
    <3> QED BY <3>1, <3>2 DEF Got
  <2>2. CASE pmp = {}
    <3>1. p \in WanPorts /\ (forwards[p] = Closed \/ Own(h, p)) /\ (Grantable(h) # {} => p = LocalPort)
      BY <1>2, <2>2 DEF Offers, Grantable
    <3>2. ASSUME NEW q \in WanPorts \ {p} PROVE ~ByPMP(h, q) /\ (Known(h, q) => ByUPnP(h, q))
      <4>1. ~ByPMP(h, q)
        BY <2>2 DEF ByPMP
      <4>2. Known(h, q) => q = LocalPort /\ Own(h, q)
        BY <4>1 DEF MappingInv, TableInv, MappingTypes, Entries, Known, ByPMP
      <4> QED BY <3>1, <4>1, <4>2 DEF Grantable
    <3> QED BY <3>1, <3>2 DEF Got
  <2> QED BY <2>1, <2>2
<1> QED BY <1>1, <1>2

\* How the table stands when h got the port p: nobody else lost it.
Entered(h, p, by, known) ==
  /\ forwards' \in [WanPorts -> Entries]
  /\ \A q \in WanPorts \ {p} : forwards'[q] = forwards[q]
  /\ forwards'[p].to = h /\ forwards'[p].by = by /\ forwards'[p].left = Lease
  /\ forwards'[p].known <=> known \/ Known(h, p)
  /\ \A g \in Hosts \ {h} : ~Known(g, p) /\ (Own(g, p) => forwards[p] = Closed)

LEMMA Gets ==
  ASSUME MappingInv, NEW h \in Hosts, NEW p, NEW by, Got(h, p, by), NEW known \in BOOLEAN,
         forwards' = [forwards EXCEPT ![p] = Entry(h, p, by, known)]
  PROVE  Entered(h, p, by, known)
  BY NewEntry DEF Got, MappingInv, MappingTypes, TableInv, Known, Own, Closed, Entered

\* h got a port, or the router gave it one without its being told.
LEMMA TableGot ==
  ASSUME MappingInv, NEW h \in Hosts, NEW p, NEW by, Got(h, p, by), NEW known \in BOOLEAN,
         forwards' = [forwards EXCEPT ![p] = Entry(h, p, by, known)],
         \A g \in Hosts \ {h} : /\ life'[g] = life[g] /\ upnpMapped'[g] = upnpMapped[g]
                                /\ natMappedPort'[g] = natMappedPort[g],
         known \/ life[h] \in {"start", "up", "stop"} => life'[h] \in {"start", "up", "stop"},
         upnpMapped[h] => upnpMapped'[h],
         known => IF by = "upnp" THEN upnpMapped'[h] ELSE natMappedPort'[h] = p,
         natMappedPort'[h] = natMappedPort[h] \/ (by = "pmp" /\ natMappedPort'[h] = p)
  PROVE  TableInv'
<1>0. MappingTypes /\ TableInv /\ p \in WanPorts /\ by \in {"upnp", "pmp"}
  BY DEF MappingInv, Got
<1>1. Entered(h, p, by, known)
  BY Gets
<1> USE DEF TableInv, ByUPnP
<1>2. ASSUME NEW g \in Hosts \ {h}, NEW q \in WanPorts
      PROVE  (Known(g, q)' => Known(g, q)) /\ (ByPMP(g, q)' => ByPMP(g, q))
  BY <1>0, <1>1 DEF Entered, Known, ByPMP, Own
<1>3. ASSUME NEW q \in WanPorts \ {p}
      PROVE  (Known(h, q)' <=> Known(h, q)) /\ (ByPMP(h, q)' <=> ByPMP(h, q))
  BY <1>1 DEF Entered, Known, ByPMP, Own
<1>4. (Known(h, p)' <=> known \/ Known(h, p)) /\ (ByPMP(h, p)' <=> by = "pmp")
  BY <1>1 DEF Entered, Known, ByPMP, Own
<1>5. \A q \in WanPorts : /\ forwards'[q].by = "upnp" => q = LocalPort
                          /\ forwards'[q].by = "none" => ~forwards'[q].known
  BY <1>0, <1>1 DEF Entered, Got
<1>6. ASSUME NEW g \in Hosts, NEW q \in WanPorts, Known(g, q)'
      PROVE  life'[g] \in {"start", "up", "stop"} /\ (ByUPnP(g, q)' \/ q = natMappedPort'[g])
  <2>1. CASE g # h
    BY <1>0, <1>2, <1>6, <2>1
  <2>2. CASE g = h /\ q # p
    BY <1>0, <1>3, <1>6, <2>2 DEF Got
  <2>3. CASE g = h /\ q = p
    BY <1>0, <1>4, <1>6, <2>3 DEF Got
  <2> QED BY <2>1, <2>2, <2>3
<1>7. ASSUME NEW g \in Hosts, NEW r \in WanPorts, NEW q \in WanPorts, ByPMP(g, q)',
             ByPMP(g, r)' \/ (Known(g, r)' /\ ~ByUPnP(g, r)')
      PROVE  r = q
  <2>1. CASE g # h
    BY <1>0, <1>2, <1>7, <2>1
  <2>2. CASE g = h /\ by = "pmp"
    BY <1>0, <1>3, <1>4, <1>7, <2>2 DEF Got
  <2>3. CASE g = h /\ by = "upnp"
    BY <1>0, <1>3, <1>4, <1>7, <2>3 DEF Got
  <2> QED BY <1>0, <2>1, <2>2, <2>3
<1> QED BY <1>5, <1>6, <1>7

LEMMA LeaseGot ==
  ASSUME MappingInv, NEW h \in Hosts, NEW p, NEW by, Got(h, p, by), NEW known \in BOOLEAN,
         forwards' = [forwards EXCEPT ![p] = Entry(h, p, by, known)],
         \A g \in Hosts \ {h} : /\ life'[g] = life[g] /\ refresher'[g] = refresher[g]
                                /\ last'[g] = last[g],
         \/ last'[h] \in {p, 0}
         \/ last'[h] = last[h] /\ life'[h] = life[h] /\ refresher'[h] = refresher[h]
  PROVE  LeaseInv'
<1>0. Entered(h, p, by, known)
  BY Gets
<1>1. /\ MappingTypes /\ LeaseInv /\ p \in WanPorts
      /\ \A q \in WanPorts \ {p} : forwards'[q] = forwards[q]
      /\ forwards'[p].to = h /\ forwards'[p].left = Lease
      /\ \A g \in Hosts \ {h} : Own(g, p) => forwards[p].left = 0
  BY <1>0 DEF MappingInv, Got, Entered, Closed
<1> SUFFICES ASSUME NEW g \in Hosts, life'[g] = "up", last'[g] # 0
             PROVE  /\ Own(g, last[g])' /\ forwards'[last'[g]].left >= 1
                    /\ forwards'[last'[g]].left >= Lease \/ refresher'[g] \in {"fired", "busy"}
  BY DEF LeaseInv
<1>2. CASE g = h /\ last'[g] = p
  BY <1>1, <1>2 DEF Own, Lease
<1>3. CASE last'[g] = last[g] /\ life'[g] = life[g] /\ refresher'[g] = refresher[g]
  <2>1. Own(g, last[g]) /\ forwards[last[g]].left >= 1 /\ last[g] \in WanPorts
    BY <1>1, <1>3 DEF LeaseInv, MappingTypes
  <2>2. last[g] = p => g = h
    BY <1>1, <2>1
  <2> QED BY <1>1, <1>3, <2>1, <2>2 DEF LeaseInv, Own, Lease
<1> QED BY <1>2, <1>3

\* Where what the table says of a port, and of its owner, is no more than before.
LEMMA TableLost ==
  ASSUME TableInv, forwards' \in [WanPorts -> Entries],
         \A p \in WanPorts :
           \/ forwards'[p] = Closed
           \/ /\ forwards'[p].to = forwards[p].to /\ forwards'[p].by = forwards[p].by
              /\ forwards'[p].known => forwards[p].known,
         \A h \in Hosts :
           \/ /\ life[h] \in {"start", "up", "stop"} => life'[h] \in {"start", "up", "stop"}
              /\ upnpMapped'[h] = upnpMapped[h] /\ natMappedPort'[h] = natMappedPort[h]
           \/ \A p \in WanPorts : ~Known(h, p)'
  PROVE  TableInv'
  BY DEF TableInv, Known, ByPMP, ByUPnP, Own, Closed, Entries

\* One try of tryMapPorts, whatever the router does.
LEMMA TryUPnP ==
  ASSUME MappingInv, NEW h \in Hosts, MapUPnP(h) PROVE MappingInv'
<1>1. MappingTypes /\ LoopsInv /\ TableInv /\ LeaseInv /\ mapper[h] = "upnp" /\ life[h] # "off"
  BY DEF MappingInv, LoopsInv, MapUPnP
<1>2. UNCHANGED natMappedPort
  BY DEF MapUPnP
<1>3. ASSUME NEW p \in Grantable(h),
             forwards' = [forwards EXCEPT ![p] = Entry(h, p, "upnp", life[h] # "closed")],
             upnpMapped' = [upnpMapped EXCEPT ![h] = TRUE],
             last' = [last EXCEPT ![h] = p],
             MapDone(h)
      PROVE  MappingInv'
  <2>1. Got(h, p, "upnp") /\ (life[h] # "closed") \in BOOLEAN /\ p \in WanPorts
    BY Grants DEF Got
  <2>2. forwards' \in [WanPorts -> Entries]
    BY <1>3, <2>1, Gets DEF Entered
  <2>3. /\ life' = [life EXCEPT ![h] = IF @ = "start" THEN "up" ELSE @]
        /\ \A g \in Hosts \ {h} : /\ life'[g] = life[g] /\ refresher'[g] = refresher[g]
                                  /\ last'[g] = last[g] /\ upnpMapped'[g] = upnpMapped[g]
        /\ last'[h] = p /\ upnpMapped'[h] = TRUE
    BY <1>1, <1>3 DEF MapDone, MappingTypes
  <2>4. life[h] # "closed" => life'[h] \in {"start", "up", "stop"}
    BY <1>1, <2>3 DEF MappingTypes
  <2>5. MappingTypes' /\ LoopsInv'
    BY <1>1, <1>2, <1>3, <2>1, <2>2 DEF MapDone, MappingTypes, LoopsInv
  <2>6. TableInv'
    BY <1>2, <1>3, <2>1, <2>3, <2>4, TableGot
  <2>7. LeaseInv'
    BY <1>3, <2>1, <2>3, LeaseGot
  <2> QED BY <2>5, <2>6, <2>7 DEF MappingInv
<1>4. ASSUME mapper' = [mapper EXCEPT ![h] = "pmp"], UNCHANGED <<upnpMapped, last, life, refresher>>,
             forwards' \in [WanPorts -> Entries], TableInv', LeaseInv'
      PROVE  MappingInv'
  BY <1>1, <1>2, <1>4 DEF MappingInv, MappingTypes, LoopsInv
<1>5. ASSUME NEW p \in Grantable(h), forwards' = [forwards EXCEPT ![p] = Entry(h, p, "upnp", FALSE)],
             mapper' = [mapper EXCEPT ![h] = "pmp"], UNCHANGED <<upnpMapped, last, life, refresher>>
      PROVE  MappingInv'
  <2>1. Got(h, p, "upnp")
    BY Grants
  <2>2. forwards' \in [WanPorts -> Entries]
    BY <1>5, <2>1, Gets DEF Entered
  <2>3. TableInv' /\ LeaseInv'
    BY <1>2, <1>5, <2>1, TableGot, LeaseGot
  <2> QED BY <1>4, <1>5, <2>2, <2>3
<1>6. ASSUME UNCHANGED forwards,
             mapper' = [mapper EXCEPT ![h] = "pmp"], UNCHANGED <<upnpMapped, last, life, refresher>>
      PROVE  MappingInv'
  BY <1>1, <1>2, <1>4, <1>6 DEF MappingTypes, TableInv, LeaseInv, Known, ByPMP, ByUPnP, Own
<1> QED BY <1>3, <1>5, <1>6 DEF MapUPnP

LEMMA TryPMP ==
  ASSUME MappingInv, NEW h \in Hosts, MapTCP(h) PROVE MappingInv'
<1>1. MappingTypes /\ LoopsInv /\ TableInv /\ LeaseInv /\ mapper[h] = "pmp" /\ life[h] # "off"
  BY DEF MappingInv, LoopsInv, MapTCP
<1>2. UNCHANGED upnpMapped /\ MapDone(h)
  BY DEF MapTCP
<1>3. /\ life' \in [Hosts -> {"off", "start", "up", "stop", "closed"}]
      /\ mapper' \in [Hosts -> {"none", "upnp", "pmp"}]
      /\ refresher' \in [Hosts -> {"gone", "wait", "fired", "busy"}] /\ LoopsInv'
      /\ \A g \in Hosts \ {h} : life'[g] = life[g] /\ refresher'[g] = refresher[g]
      /\ life[h] # "closed" => life'[h] \in {"start", "up", "stop"}
  BY <1>1, <1>2 DEF MapDone, MappingTypes, LoopsInv
<1>4. ASSUME NEW p \in Offers(h),
             forwards' = [forwards EXCEPT ![p] = Entry(h, p, "pmp", life[h] # "closed")],
             natMappedPort' = [natMappedPort EXCEPT ![h] = p],
             last' = [last EXCEPT ![h] = p]
      PROVE  MappingInv'
  <2>1. Got(h, p, "pmp") /\ (life[h] # "closed") \in BOOLEAN /\ p \in WanPorts
    BY Grants DEF Got
  <2>2. forwards' \in [WanPorts -> Entries]
    BY <1>4, <2>1, Gets DEF Entered
  <2>3. /\ \A g \in Hosts \ {h} : last'[g] = last[g] /\ natMappedPort'[g] = natMappedPort[g]
        /\ last'[h] = p /\ natMappedPort'[h] = p
    BY <1>1, <1>4 DEF MappingTypes
  <2>4. MappingTypes'
    BY <1>1, <1>2, <1>3, <1>4, <2>1, <2>2 DEF MappingTypes
  <2>5. TableInv'
    BY <1>2, <1>3, <1>4, <2>1, <2>3, TableGot
  <2>6. LeaseInv'
    BY <1>3, <1>4, <2>1, <2>3, LeaseGot
  <2> QED BY <1>3, <2>4, <2>5, <2>6 DEF MappingInv
<1>5. ASSUME NEW p \in Offers(h), forwards' = [forwards EXCEPT ![p] = Entry(h, p, "pmp", FALSE)],
             last' = [last EXCEPT ![h] = 0], UNCHANGED natMappedPort
      PROVE  MappingInv'
  <2>1. Got(h, p, "pmp")
    BY Grants
  <2>2. forwards' \in [WanPorts -> Entries]
    BY <1>5, <2>1, Gets DEF Entered
  <2>3. (\A g \in Hosts \ {h} : last'[g] = last[g]) /\ last'[h] = 0
    BY <1>1, <1>5 DEF MappingTypes
  <2>4. MappingTypes'
    BY <1>1, <1>2, <1>3, <1>5, <2>2 DEF MappingTypes
  <2>5. TableInv'
    BY <1>1, <1>2, <1>3, <1>5, <2>1, TableGot DEF MappingTypes
  <2>6. LeaseInv'
    BY <1>3, <1>5, <2>1, <2>3, LeaseGot
  <2> QED BY <1>3, <2>4, <2>5, <2>6 DEF MappingInv
<1>6. ASSUME UNCHANGED forwards, last' = [last EXCEPT ![h] = 0], UNCHANGED natMappedPort
      PROVE  MappingInv'
  <2>1. MappingTypes'
    BY <1>1, <1>2, <1>3, <1>6 DEF MappingTypes
  <2>2. TableInv'
    BY <1>1, <1>2, <1>3, <1>6 DEF MappingTypes, TableInv, Known, ByPMP, ByUPnP, Own
  <2>3. LeaseInv'
    BY <1>1, <1>2, <1>3, <1>6 DEF MappingTypes, LeaseInv, Own
  <2> QED BY <1>3, <2>1, <2>2, <2>3 DEF MappingInv
<1> QED BY <1>4, <1>5, <1>6 DEF MapTCP

\* The daemon forgets an entry of the router's table.
LEMMA Forgotten ==
  ASSUME NEW e \in Entries
  PROVE  /\ [e EXCEPT !.known = FALSE] \in Entries
         /\ [e EXCEPT !.known = FALSE].to = e.to /\ [e EXCEPT !.known = FALSE].by = e.by
         /\ [e EXCEPT !.known = FALSE].left = e.left /\ ~[e EXCEPT !.known = FALSE].known
  BY DEF Entries

\* unmapPorts: the daemon knows of no other ports than it asks to be closed.
LEMMA UnmapStep ==
  ASSUME MappingInv, NEW h \in Hosts, UnmapPorts(h) PROVE MappingInv'
<1> DEFINE all == UPnPDeletes(h) \union PMPDeletes(h)
<1>1. /\ MappingTypes /\ LoopsInv /\ TableInv /\ LeaseInv
      /\ life[h] = "stop" /\ mapper[h] = "none"
  BY DEF MappingInv, UnmapPorts
<1>2. PICK gone \in SUBSET all : Takes(h, all, gone)
  BY DEF UnmapPorts
<1>3. \A p \in WanPorts : Known(h, p) => p \in all
  BY <1>1, WanPortsAssumption
  DEF TableInv, Known, ByUPnP, UPnPDeletes, PMPDeletes, Closed, MappingTypes
<1> HIDE DEF all
<1>4. /\ forwards' = [p \in WanPorts |->
           IF p \in gone THEN Closed
           ELSE IF p \in all THEN [forwards[p] EXCEPT !.known = FALSE] ELSE forwards[p]]
      /\ last' = [g \in Hosts |-> IF g = h \/ last[g] \in gone THEN 0 ELSE last[g]]
      /\ life' = [life EXCEPT ![h] = "closed"]
      /\ upnpMapped' = [upnpMapped EXCEPT ![h] = FALSE]
      /\ natMappedPort' = [natMappedPort EXCEPT ![h] = 0]
      /\ UNCHANGED <<mapper, refresher>>
  BY <1>2 DEF Takes
<1>5. Closed \in Entries
  BY DEF Closed, Entries
<1>6. forwards' \in [WanPorts -> Entries]
      /\ \A p \in WanPorts :
           \/ forwards'[p] = Closed
           \/ /\ forwards'[p].to = forwards[p].to /\ forwards'[p].by = forwards[p].by
              /\ forwards'[p].left = forwards[p].left
              /\ forwards'[p].known => forwards[p].known /\ p \notin all
  <2>1. \A p \in WanPorts :
          /\ [forwards[p] EXCEPT !.known = FALSE] \in Entries
          /\ [forwards[p] EXCEPT !.known = FALSE].to = forwards[p].to
          /\ [forwards[p] EXCEPT !.known = FALSE].by = forwards[p].by
          /\ [forwards[p] EXCEPT !.known = FALSE].left = forwards[p].left
          /\ ~[forwards[p] EXCEPT !.known = FALSE].known
          /\ forwards[p] \in Entries
    BY <1>1, Forgotten DEF MappingTypes
  <2>2. \A p \in WanPorts :
          forwards'[p] = IF p \in gone THEN Closed
                         ELSE IF p \in all THEN [forwards[p] EXCEPT !.known = FALSE] ELSE forwards[p]
    BY <1>4
  <2>3. forwards' \in [WanPorts -> Entries]
    BY <1>4, <1>5, <2>1
  <2> QED BY <2>1, <2>2, <2>3
<1>7. MappingTypes' /\ LoopsInv'
  BY <1>1, <1>4, <1>6 DEF MappingTypes, LoopsInv
<1>8. TableInv'
  <2>1. \A p \in WanPorts : ~Known(h, p)'
    BY <1>3, <1>6 DEF Known, Own, Closed
  <2>2. \A g \in Hosts \ {h} : life'[g] = life[g] /\ upnpMapped'[g] = upnpMapped[g]
                               /\ natMappedPort'[g] = natMappedPort[g]
    BY <1>1, <1>4 DEF MappingTypes
  <2> QED BY <1>1, <1>6, <2>1, <2>2, TableLost
<1>9. LeaseInv'
  <2> SUFFICES ASSUME NEW g \in Hosts, life'[g] = "up", last'[g] # 0
               PROVE  /\ Own(g, last[g])' /\ forwards'[last'[g]].left >= 1
                      /\ forwards'[last'[g]].left >= Lease \/ refresher'[g] \in {"fired", "busy"}
    BY DEF LeaseInv
  <2>1. g # h /\ life[g] = "up" /\ last'[g] = last[g] /\ last[g] \notin gone /\ last[g] \in WanPorts
    BY <1>1, <1>4 DEF MappingTypes
  <2>2. forwards'[last[g]].to = forwards[last[g]].to /\ forwards'[last[g]].left = forwards[last[g]].left
    BY <1>1, <1>4, <2>1 DEF MappingTypes, Entries
  <2> QED BY <1>1, <1>4, <2>1, <2>2 DEF LeaseInv, Own
<1> QED BY <1>7, <1>8, <1>9 DEF MappingInv

LEMMA ShareStep ==
  ASSUME MappingInv, NEW h \in Hosts, Share(h) PROVE MappingInv'
<1>1. /\ MappingTypes /\ LoopsInv /\ TableInv /\ LeaseInv
      /\ UNCHANGED <<life, mapper, refresher, upnpMapped, natMappedPort, last>>
  BY DEF MappingInv, Share
<1>2. ASSUME NEW p, NEW by, Got(h, p, by), forwards' = [forwards EXCEPT ![p] = Entry(h, p, by, FALSE)]
      PROVE  MappingInv'
  <2>1. forwards' \in [WanPorts -> Entries]
    BY <1>2, Gets DEF Entered
  <2>2. TableInv' /\ LeaseInv'
    BY <1>1, <1>2, TableGot, LeaseGot
  <2> QED BY <1>1, <2>1, <2>2 DEF MappingInv, MappingTypes, LoopsInv
<1>3. CASE UNCHANGED forwards
  BY <1>1, <1>3 DEF MappingInv, MappingTypes, LoopsInv, TableInv, LeaseInv, Known, ByPMP, ByUPnP, Own
<1> QED BY <1>2, <1>3, Grants DEF Share

LEMMA KilledStep ==
  ASSUME MappingInv, NEW h \in Hosts, Killed(h) PROVE MappingInv'
<1>1. /\ MappingTypes /\ LoopsInv /\ TableInv /\ LeaseInv
      /\ forwards' = [p \in WanPorts |-> IF Own(h, p) THEN [forwards[p] EXCEPT !.known = FALSE]
                                                    ELSE forwards[p]]
      /\ life' = [life EXCEPT ![h] = "off"] /\ mapper' = [mapper EXCEPT ![h] = "none"]
      /\ refresher' = [refresher EXCEPT ![h] = "gone"] /\ last' = [last EXCEPT ![h] = 0]
      /\ UNCHANGED <<upnpMapped, natMappedPort>>
  BY DEF MappingInv, Killed
<1>2. /\ forwards' \in [WanPorts -> Entries]
      /\ \A p \in WanPorts :
           /\ forwards'[p].to = forwards[p].to /\ forwards'[p].by = forwards[p].by
           /\ forwards'[p].left = forwards[p].left
           /\ forwards'[p].known => forwards[p].known /\ ~Own(h, p)
  <2>1. \A p \in WanPorts :
          /\ [forwards[p] EXCEPT !.known = FALSE] \in Entries
          /\ [forwards[p] EXCEPT !.known = FALSE].to = forwards[p].to
          /\ [forwards[p] EXCEPT !.known = FALSE].by = forwards[p].by
          /\ [forwards[p] EXCEPT !.known = FALSE].left = forwards[p].left
          /\ ~[forwards[p] EXCEPT !.known = FALSE].known
          /\ forwards[p] \in Entries
    BY <1>1, Forgotten DEF MappingTypes
  <2>2. \A p \in WanPorts : forwards'[p] = IF Own(h, p) THEN [forwards[p] EXCEPT !.known = FALSE]
                                                       ELSE forwards[p]
    BY <1>1
  <2>3. forwards' \in [WanPorts -> Entries]
    BY <1>1, <2>1
  <2> QED BY <2>1, <2>2, <2>3
<1>3. MappingTypes' /\ LoopsInv'
  BY <1>1, <1>2 DEF MappingTypes, LoopsInv
<1>4. TableInv'
  <2>1. \A p \in WanPorts : ~Known(h, p)'
    BY <1>2 DEF Known, Own
  <2> QED BY <1>1, <1>2, <2>1, TableLost DEF MappingTypes
<1>5. LeaseInv'
  BY <1>1, <1>2 DEF MappingTypes, LeaseInv, Own
<1> QED BY <1>3, <1>4, <1>5 DEF MappingInv

\* Every half hour all leases are shorter by one half, and whoever runs is due
\* for a renewal, which is over before the next.
LEMMA HalfHourStep ==
  ASSUME MappingInv, HalfHour PROVE MappingInv'
<1>1. /\ MappingTypes /\ LoopsInv /\ TableInv /\ LeaseInv
      /\ \A h \in Hosts : mapper[h] = "none" /\ refresher[h] \in {"wait", "gone"}
                          /\ life[h] \in {"off", "up", "stop"}
      /\ forwards' = [p \in WanPorts |->
           IF forwards[p].left <= 1 THEN Closed ELSE [forwards[p] EXCEPT !.left = @ - 1]]
      /\ refresher' = [h \in Hosts |-> IF refresher[h] = "wait" THEN "fired" ELSE "gone"]
      /\ UNCHANGED <<life, mapper, upnpMapped, natMappedPort, last>>
  BY DEF MappingInv, HalfHour
<1>2. Closed \in Entries
  BY DEF Closed, Entries
<1>3. ASSUME NEW p \in WanPorts, ~(forwards[p].left <= 1)
      PROVE  /\ forwards'[p] \in Entries
             /\ forwards'[p].to = forwards[p].to /\ forwards'[p].by = forwards[p].by
             /\ forwards'[p].left = forwards[p].left - 1 /\ forwards'[p].known = forwards[p].known
  BY <1>1, <1>3 DEF MappingTypes, Entries
<1>4. forwards' \in [WanPorts -> Entries]
  BY <1>1, <1>2, <1>3
<1>5. MappingTypes' /\ LoopsInv'
  BY <1>1, <1>4 DEF MappingTypes, LoopsInv
<1>6. TableInv'
  BY <1>1, <1>3, <1>4, TableLost
<1>7. ASSUME NEW h \in Hosts, life'[h] = "up", last'[h] # 0
      PROVE  /\ Own(h, last[h])' /\ forwards'[last'[h]].left >= 1 /\ refresher'[h] = "fired"
  <2>1. refresher[h] = "wait" /\ last[h] \in WanPorts /\ Own(h, last[h])
        /\ forwards[last[h]].left >= Lease /\ forwards[last[h]].left \in Int
    BY <1>1, <1>7 DEF LeaseInv, LoopsInv, MappingTypes, Entries
  <2> QED BY <1>1, <1>3, <2>1 DEF Own, Lease
<1> QED BY <1>5, <1>6, <1>7 DEF MappingInv, LeaseInv

LEMMA MappingStep == ASSUME MappingInv, [MappingNext]_mappingVars PROVE MappingInv'
<1> USE DEF MappingTypes, LoopsInv, TableInv, LeaseInv, Known, ByPMP, ByUPnP, Own, MappingInv
<1>1. ASSUME NEW h \in Hosts, RunDaemon(h) PROVE MappingInv'
  BY <1>1 DEF RunDaemon
<1>2. ASSUME NEW h \in Hosts, Refresh(h) PROVE MappingInv'
  BY <1>2 DEF Refresh
<1>3. ASSUME NEW h \in Hosts, RefreshEnds(h) PROVE MappingInv'
  BY <1>3 DEF RefreshEnds
<1>4. ASSUME NEW h \in Hosts, Interrupt(h) PROVE MappingInv'
  BY <1>4 DEF Interrupt
<1>5. ASSUME NEW h \in Hosts, Exit(h) PROVE MappingInv'
  BY <1>5 DEF Exit
<1>6. CASE Reboot
  <2>1. Closed \in Entries /\ Closed.by = "none" /\ Closed.known = FALSE
    BY DEF Closed, Entries
  <2> QED BY <1>6, <2>1 DEF Reboot
<1>7. CASE UNCHANGED mappingVars
  BY <1>7 DEF mappingVars
<1> HIDE DEF MappingInv
<1> QED BY <1>1, <1>2, <1>3, <1>4, <1>5, <1>6, <1>7, TryUPnP, TryPMP, UnmapStep, ShareStep,
           KilledStep, HalfHourStep
        DEF MappingNext

-----------------------------------------------------------------------------
(* Punch, for every set of pairs and every number of rounds. PunchDial      *)
(* hands over the only connection it holds (OneLeft), and a punch is a      *)
(* rendezvous: the acceptor serves what the dialer committed to (Meets).    *)

\* A pair, or none yet.
Held == Pairs \union {None}

PunchTypes ==
  /\ dial \in [Pairs -> {"none", "dialing", "up", "won", "reported", "over"}]
  /\ land \in [Pairs -> {"none", "probe", "offer", "queued", "listen", "answered", "valid",
                         "delivered", "kept", "over"}]
  /\ said \in [Pairs -> {0, 1, 2, 3}]
  /\ dialer \in [at : {"spray", "join", "quit", "hello", "wait", "up", "failed"},
                 won : Held, keep : Held, round : Int]
  /\ acceptor \in [at : {"open", "wait", "quit", "up", "failed"},
                   keep : Held, winner : Held]

\* One goroutine wins the compare and swap, and the loop joins all of them
\* before it speaks on the winner's connection.
HasWon(p) == dial[p] \in {"won", "reported"}

DialInv ==
  /\ \A p \in Pairs : HasWon(p) => dialer.won = p
  /\ dialer.at \in {"join", "hello", "wait", "up"} =>
       dialer.keep \in Pairs /\ dial[dialer.keep] = "reported"
  /\ dialer.at \in {"hello", "wait", "up"} =>
       \A p \in Pairs : dial[p] \notin {"dialing", "up", "won"}

\* The handshake runs on the connection that was kept, and what the acceptor
\* found valid has heard the last word of it, which the dialer says when it
\* has committed itself.
ShakeInv ==
  /\ \A p \in Pairs : said[p] # 0 => p = dialer.keep /\ dialer.at \in {"wait", "up", "failed"}
  /\ \A p \in Pairs : said[p] = 3 => dialer.at = "up"
  /\ \A p \in Pairs : land[p] \in {"valid", "delivered", "kept"} =>
                        said[p] = 3 /\ acceptor.winner # None
  /\ acceptor.winner # None => said[acceptor.winner] = 3
  /\ acceptor.at \in {"wait", "up"} => acceptor.winner # None

PunchInv == PunchTypes /\ DialInv /\ ShakeInv

-----------------------------------------------------------------------------

LEMMA HeldFact == \A k : k \in Held <=> k \in Pairs \/ k = None
  BY DEF Held

LEMMA PunchStart == ASSUME NEW busy \in BOOLEAN, PunchInit(busy) PROVE PunchInv
  BY PairsAssumption, HeldFact
  DEF PunchInit, PunchInv, PunchTypes, DialInv, HasWon, ShakeInv

LEMMA PunchTypesStep ==
  ASSUME PunchTypes, [PunchNext]_punchVars PROVE PunchTypes'
<1> USE DEF PunchTypes
<1>1. ASSUME NEW p \in Pairs, Spray(p) PROVE PunchTypes'
  BY <1>1, PairsAssumption, HeldFact DEF Spray, Dial
<1>2. ASSUME NEW p \in Pairs, DialOnce(p) PROVE PunchTypes'
  BY <1>2, PairsAssumption, HeldFact DEF DialOnce, Dial, Land
<1>3. ASSUME NEW p \in Pairs, Win(p) PROVE PunchTypes'
  BY <1>3, PairsAssumption, HeldFact DEF Win, Dial
<1>4. ASSUME NEW p \in Pairs, TakeWinner(p) PROVE PunchTypes'
  BY <1>4, PairsAssumption, HeldFact DEF TakeWinner
<1>5. CASE Round
  <2>1. CASE dialer.won = None /\ dialer' = [dialer EXCEPT !.round = @ + 1]
    BY <1>5, <2>1, PairsAssumption, HeldFact DEF Round
  <2>2. CASE dialer' = [dialer EXCEPT !.at = "quit"]
    BY <1>5, <2>2, PairsAssumption, HeldFact DEF Round
  <2> QED BY <1>5, <2>1, <2>2 DEF Round
<1>6. CASE Join
  BY <1>6, PairsAssumption, HeldFact DEF Join
<1>7. CASE InitiatorHandshake
  <2>1. CASE dialer.at = "hello"
    BY <1>7, <2>1, PairsAssumption, HeldFact DEF InitiatorHandshake, Say
  <2>2. CASE dialer.at = "wait" /\ dialer'.at = "up"
    BY <1>7, <2>2, PairsAssumption, HeldFact DEF InitiatorHandshake, Say
  <2>3. CASE dialer.at = "wait" /\ dialer' = [dialer EXCEPT !.at = "failed"] /\ UNCHANGED said
    BY <1>7, <2>3, PairsAssumption, HeldFact DEF InitiatorHandshake, Say
  <2> QED BY <1>7, <2>1, <2>2, <2>3 DEF InitiatorHandshake
<1>8. ASSUME NEW p \in Pairs, HoleCloses(p) PROVE PunchTypes'
  BY <1>8, PairsAssumption, HeldFact DEF HoleCloses
<1>9. ASSUME NEW p \in Pairs, Probe(p) PROVE PunchTypes'
  BY <1>9, PairsAssumption, HeldFact DEF Probe, Land
<1>10. ASSUME NEW p \in Pairs, Offer(p) PROVE PunchTypes'
  BY <1>10, PairsAssumption, HeldFact DEF Offer, Land
<1>11. ASSUME NEW p \in Pairs, Accept(p) PROVE PunchTypes'
  BY <1>11, PairsAssumption, HeldFact DEF Accept, Land
<1>12. ASSUME NEW p \in Pairs, Validate(p) PROVE PunchTypes'
  <2>1. CASE land[p] = "listen"
    BY <1>12, <2>1, PairsAssumption, HeldFact DEF Validate, Land, Say
  <2>2. CASE land[p] = "answered"
    BY <1>12, <2>2, PairsAssumption, HeldFact DEF Validate, Land, Say
  <2> QED BY <1>12, <2>1, <2>2 DEF Validate
<1>13. ASSUME NEW p \in Pairs, Reject(p) PROVE PunchTypes'
  BY <1>13, PairsAssumption, HeldFact DEF Reject, Land
<1>14. ASSUME NEW p \in Pairs, Deliver(p) PROVE PunchTypes'
  BY <1>14, PairsAssumption, HeldFact DEF Deliver, Land
<1>15. ASSUME NEW p \in Pairs, TakeValid(p) PROVE PunchTypes'
  BY <1>15, PairsAssumption, HeldFact DEF TakeValid, Land
<1>16. ASSUME NEW p \in Pairs, Drain(p) PROVE PunchTypes'
  BY <1>16, PairsAssumption, HeldFact DEF Drain, Land
<1>17. CASE Window
  BY <1>17, PairsAssumption, HeldFact DEF Window
<1>18. CASE WaitDone
  BY <1>18, PairsAssumption, HeldFact DEF WaitDone
<1>19. CASE UNCHANGED punchVars
  BY <1>19 DEF punchVars
<1> QED BY <1>1, <1>2, <1>3, <1>4, <1>5, <1>6, <1>7, <1>8, <1>9, <1>10, <1>11, <1>12, <1>13, <1>14, <1>15, <1>16, <1>17, <1>18, <1>19 DEF PunchNext

LEMMA DialStep ==
  ASSUME PunchTypes, DialInv, [PunchNext]_punchVars PROVE DialInv'
<1> USE DEF PunchTypes, DialInv, HasWon
<1>1. ASSUME NEW p \in Pairs, Spray(p) PROVE DialInv'
  BY <1>1, PairsAssumption, HeldFact DEF Spray, Dial
<1>2. ASSUME NEW p \in Pairs, DialOnce(p) PROVE DialInv'
  <2>1. CASE Dial(p, "up") /\ acceptor.at = "open" /\ Land(p, "offer") /\ UNCHANGED hole
    BY <1>2, <2>1, PairsAssumption, HeldFact DEF DialOnce, Dial, Land
  <2>2. CASE Dial(p, "up") /\ p \in hole /\ Land(p, "probe")
    BY <1>2, <2>2, PairsAssumption, HeldFact DEF DialOnce, Dial, Land
  <2>3. CASE Dial(p, "over") /\ UNCHANGED <<land, hole>>
    BY <1>2, <2>3, PairsAssumption, HeldFact DEF DialOnce, Dial, Land
  <2> QED BY <1>2, <2>1, <2>2, <2>3 DEF DialOnce
<1>3. ASSUME NEW p \in Pairs, Win(p) PROVE DialInv'
  <2>1. CASE dial[p] = "up" /\ dialer.won = None
    BY <1>3, <2>1, PairsAssumption, HeldFact DEF Win, Dial
  <2>2. CASE dial[p] = "up" /\ dialer.won # None
    BY <1>3, <2>2, PairsAssumption, HeldFact DEF Win, Dial
  <2>3. CASE dial[p] = "won"
    BY <1>3, <2>3, PairsAssumption, HeldFact DEF Win, Dial
  <2> QED BY <1>3, <2>1, <2>2, <2>3 DEF Win
<1>4. ASSUME NEW p \in Pairs, TakeWinner(p) PROVE DialInv'
  BY <1>4, PairsAssumption, HeldFact DEF TakeWinner
<1>5. CASE Round
  <2>1. CASE dialer.won = None /\ dialer' = [dialer EXCEPT !.round = @ + 1]
    BY <1>5, <2>1, PairsAssumption, HeldFact DEF Round
  <2>2. CASE dialer' = [dialer EXCEPT !.at = "quit"]
    BY <1>5, <2>2, PairsAssumption, HeldFact DEF Round
  <2> QED BY <1>5, <2>1, <2>2 DEF Round
<1>6. CASE Join
  BY <1>6, PairsAssumption, HeldFact DEF Join
<1>7. CASE InitiatorHandshake
  BY <1>7, PairsAssumption, HeldFact DEF InitiatorHandshake, Say
<1>8. ASSUME NEW p \in Pairs, HoleCloses(p) PROVE DialInv'
  BY <1>8, PairsAssumption, HeldFact DEF HoleCloses
<1>9. ASSUME NEW p \in Pairs, Probe(p) PROVE DialInv'
  BY <1>9, PairsAssumption, HeldFact DEF Probe, Land
<1>10. ASSUME NEW p \in Pairs, Offer(p) PROVE DialInv'
  BY <1>10, PairsAssumption, HeldFact DEF Offer, Land
<1>11. ASSUME NEW p \in Pairs, Accept(p) PROVE DialInv'
  BY <1>11, PairsAssumption, HeldFact DEF Accept, Land
<1>12. ASSUME NEW p \in Pairs, Validate(p) PROVE DialInv'
  BY <1>12, PairsAssumption, HeldFact DEF Validate, Land, Say
<1>13. ASSUME NEW p \in Pairs, Reject(p) PROVE DialInv'
  BY <1>13, PairsAssumption, HeldFact DEF Reject, Land
<1>14. ASSUME NEW p \in Pairs, Deliver(p) PROVE DialInv'
  BY <1>14, PairsAssumption, HeldFact DEF Deliver, Land
<1>15. ASSUME NEW p \in Pairs, TakeValid(p) PROVE DialInv'
  BY <1>15, PairsAssumption, HeldFact DEF TakeValid, Land
<1>16. ASSUME NEW p \in Pairs, Drain(p) PROVE DialInv'
  BY <1>16, PairsAssumption, HeldFact DEF Drain, Land
<1>17. CASE Window
  BY <1>17, PairsAssumption, HeldFact DEF Window
<1>18. CASE WaitDone
  BY <1>18, PairsAssumption, HeldFact DEF WaitDone
<1>19. CASE UNCHANGED punchVars
  BY <1>19 DEF punchVars
<1> QED BY <1>1, <1>2, <1>3, <1>4, <1>5, <1>6, <1>7, <1>8, <1>9, <1>10, <1>11, <1>12, <1>13, <1>14, <1>15, <1>16, <1>17, <1>18, <1>19 DEF PunchNext

LEMMA ShakeStep ==
  ASSUME PunchTypes, DialInv, ShakeInv, [PunchNext]_punchVars PROVE ShakeInv'
<1> USE DEF PunchTypes, DialInv, HasWon, ShakeInv
<1>1. ASSUME NEW p \in Pairs, Spray(p) PROVE ShakeInv'
  BY <1>1, PairsAssumption, HeldFact DEF Spray, Dial
<1>2. ASSUME NEW p \in Pairs, DialOnce(p) PROVE ShakeInv'
  BY <1>2, PairsAssumption, HeldFact DEF DialOnce, Dial, Land
<1>3. ASSUME NEW p \in Pairs, Win(p) PROVE ShakeInv'
  <2>1. CASE dial[p] = "up" /\ dialer.won = None
    BY <1>3, <2>1, PairsAssumption, HeldFact DEF Win, Dial
  <2>2. CASE dial[p] = "up" /\ dialer.won # None
    BY <1>3, <2>2, PairsAssumption, HeldFact DEF Win, Dial
  <2>3. CASE dial[p] = "won"
    BY <1>3, <2>3, PairsAssumption, HeldFact DEF Win, Dial
  <2> QED BY <1>3, <2>1, <2>2, <2>3 DEF Win
<1>4. ASSUME NEW p \in Pairs, TakeWinner(p) PROVE ShakeInv'
  BY <1>4, PairsAssumption, HeldFact DEF TakeWinner
<1>5. CASE Round
  BY <1>5, PairsAssumption, HeldFact DEF Round
<1>6. CASE Join
  BY <1>6, PairsAssumption, HeldFact DEF Join
<1>7. CASE InitiatorHandshake
  <2>1. CASE dialer.at = "hello"
    <3>1. /\ said' = [said EXCEPT ![dialer.keep] = 1] /\ UNCHANGED <<land, acceptor>>
          /\ dialer'.at = "wait" /\ dialer'.keep = dialer.keep
      BY <1>7, <2>1 DEF InitiatorHandshake, Say
    <3>2. \A p \in Pairs : said[p] = 0
      BY <2>1
    <3>3. acceptor.winner = None
      BY <3>2, HeldFact
    <3> QED BY <3>1, <3>2, <3>3, HeldFact
  <2>2. CASE dialer.at = "wait" /\ dialer'.at = "up"
    <3>1. /\ said' = [said EXCEPT ![dialer.keep] = 3] /\ UNCHANGED <<land, acceptor>>
          /\ dialer'.at = "up" /\ dialer'.keep = dialer.keep
      BY <1>7, <2>2 DEF InitiatorHandshake, Say
    <3>2. \A p \in Pairs : said[p] # 3
      BY <2>2
    <3>3. acceptor.winner = None /\ \A p \in Pairs : said[p] # 0 => p = dialer.keep
      BY <3>2, HeldFact
    <3> QED BY <3>1, <3>2, <3>3, <2>2, HeldFact
  <2>3. CASE dialer.at = "wait" /\ dialer' = [dialer EXCEPT !.at = "failed"] /\ UNCHANGED said
    BY <1>7, <2>3, PairsAssumption, HeldFact DEF InitiatorHandshake, Say
  <2> QED BY <1>7, <2>1, <2>2, <2>3 DEF InitiatorHandshake
<1>8. ASSUME NEW p \in Pairs, HoleCloses(p) PROVE ShakeInv'
  BY <1>8, PairsAssumption, HeldFact DEF HoleCloses
<1>9. ASSUME NEW p \in Pairs, Probe(p) PROVE ShakeInv'
  <2>1. CASE said[p] > 0
    BY <1>9, <2>1, PairsAssumption, HeldFact DEF Probe, Land
  <2>2. CASE ~ (said[p] > 0)
    BY <1>9, <2>2, PairsAssumption, HeldFact DEF Probe, Land
  <2> QED BY <1>9, <2>1, <2>2 DEF Probe
<1>10. ASSUME NEW p \in Pairs, Offer(p) PROVE ShakeInv'
  BY <1>10, PairsAssumption, HeldFact DEF Offer, Land
<1>11. ASSUME NEW p \in Pairs, Accept(p) PROVE ShakeInv'
  BY <1>11, PairsAssumption, HeldFact DEF Accept, Land
<1>12. ASSUME NEW p \in Pairs, Validate(p) PROVE ShakeInv'
  <2>1. CASE land[p] = "listen"
    <3>1. /\ said[p] = 1 /\ said' = [said EXCEPT ![p] = 2]
          /\ land' = [land EXCEPT ![p] = "answered"] /\ UNCHANGED <<dialer, acceptor>>
      BY <1>12, <2>1 DEF Validate, Land, Say
    <3>2. acceptor.winner # p
      BY <1>12, <3>1, HeldFact, PairsAssumption
    <3> QED BY <3>1, <3>2, HeldFact
  <2>2. CASE land[p] = "answered"
    <3>1. /\ said[p] = 3 /\ UNCHANGED <<said, dialer>>
          /\ land' = [land EXCEPT ![p] = "valid"]
          /\ acceptor'.winner = p /\ acceptor'.at = acceptor.at
      BY <1>12, <2>2 DEF Validate, Land, Say
    <3>2. p # None
      BY <1>12, PairsAssumption
    <3> QED BY <3>1, <3>2, HeldFact
  <2> QED BY <1>12, <2>1, <2>2 DEF Validate
<1>13. ASSUME NEW p \in Pairs, Reject(p) PROVE ShakeInv'
  BY <1>13, PairsAssumption, HeldFact DEF Reject, Land
<1>14. ASSUME NEW p \in Pairs, Deliver(p) PROVE ShakeInv'
  <2>1. CASE Land(p, "delivered")
    BY <1>14, <2>1, PairsAssumption, HeldFact DEF Deliver, Land
  <2>2. CASE Land(p, "over")
    BY <1>14, <2>2, PairsAssumption, HeldFact DEF Deliver, Land
  <2> QED BY <1>14, <2>1, <2>2 DEF Deliver
<1>15. ASSUME NEW p \in Pairs, TakeValid(p) PROVE ShakeInv'
  BY <1>15, PairsAssumption, HeldFact DEF TakeValid, Land
<1>16. ASSUME NEW p \in Pairs, Drain(p) PROVE ShakeInv'
  BY <1>16, PairsAssumption, HeldFact DEF Drain, Land
<1>17. CASE Window
  BY <1>17, PairsAssumption, HeldFact DEF Window
<1>18. CASE WaitDone
  BY <1>18, PairsAssumption, HeldFact DEF WaitDone
<1>19. CASE UNCHANGED punchVars
  BY <1>19 DEF punchVars
<1> QED BY <1>1, <1>2, <1>3, <1>4, <1>5, <1>6, <1>7, <1>8, <1>9, <1>10, <1>11, <1>12, <1>13, <1>14, <1>15, <1>16, <1>17, <1>18, <1>19 DEF PunchNext

LEMMA PunchInvStep == PunchInv /\ [PunchNext]_punchVars => PunchInv'
  BY PunchTypesStep, DialStep, ShakeStep DEF PunchInv

LEMMA PunchInvHolds == PunchSpec => []PunchInv
<1>1. PunchInit(TRUE) => PunchInv BY PunchStart
<1> QED BY <1>1, PunchInvStep, PTL DEF PunchSpec

-----------------------------------------------------------------------------

LEMMA InvOneLeft == PunchInv => OneLeft
  BY DEF PunchInv, PunchTypes, DialInv, HasWon, OneLeft, OpenEnd

\* When PunchDial hands a connection over, it holds no other
\* (punch.go, PunchDial: the compare and swap, the closing losers, wg.Wait).
THEOREM DialerKeepsOne == PunchSpec => []OneLeft
  BY PunchInvHolds, InvOneLeft, PTL

LEMMA MeetsInit == ASSUME NEW busy \in BOOLEAN, PunchInit(busy) PROVE Meeting!Init
  BY DEF PunchInit, Meeting!Init

LEMMA MeetsNext ==
  PunchInv /\ [PunchNext]_punchVars => [Meeting!Next]_(Meeting!meeting)
<1> SUFFICES ASSUME PunchInv, [PunchNext]_punchVars
             PROVE  Meeting!Commit \/ Meeting!Serve \/ UNCHANGED Meeting!meeting
  BY DEF Meeting!Next
<1> USE DEF Meeting!Commit, Meeting!Serve, Meeting!meeting
<1>1. CASE UNCHANGED punchVars
  BY <1>1 DEF punchVars
<1>2. ASSUME NEW p \in Pairs, Spray(p) \/ DialOnce(p) \/ Win(p) \/ HoleCloses(p) \/ Probe(p)
             \/ Offer(p) \/ Accept(p) \/ Reject(p) \/ Deliver(p) \/ Drain(p)
      PROVE  UNCHANGED Meeting!meeting
  BY <1>2 DEF Spray, DialOnce, Win, HoleCloses, Probe, Offer, Accept, Reject, Deliver, Drain,
              PunchInv, PunchTypes
<1>3. ASSUME NEW p \in Pairs, TakeWinner(p) \/ TakeValid(p)
      PROVE  UNCHANGED Meeting!meeting
  BY <1>3 DEF TakeWinner, TakeValid, PunchInv, PunchTypes
<1>4. ASSUME NEW p \in Pairs, Validate(p) PROVE UNCHANGED Meeting!meeting
  BY <1>4, PairsAssumption, HeldFact DEF Validate, PunchInv, PunchTypes, ShakeInv
<1>5. CASE Round \/ Join \/ Window
  BY <1>5 DEF Round, Join, Window, PunchInv, PunchTypes
<1>6. CASE InitiatorHandshake
  BY <1>6, PairsAssumption, HeldFact DEF InitiatorHandshake, PunchInv, PunchTypes, DialInv
<1>7. CASE WaitDone
  BY <1>7, PairsAssumption, HeldFact DEF WaitDone, PunchInv, PunchTypes, DialInv, ShakeInv
<1> QED BY <1>1, <1>2, <1>3, <1>4, <1>5, <1>6, <1>7 DEF PunchNext

\* A punch implements a rendezvous: the acceptor's session is on the one
\* connection the dialer committed to (PunchDial, PunchAccept and the
\* handshake that PunchAccept's callback runs).
THEOREM PunchMeets == PunchSpec => Meets
<1>1. PunchInit(TRUE) => Meeting!Init
  BY MeetsInit
<1>2. PunchInv /\ [PunchNext]_punchVars => [Meeting!Next]_(Meeting!meeting)
  BY MeetsNext
<1> QED BY <1>1, <1>2, PunchInvHolds, PTL DEF PunchSpec, Meets, Meeting!Spec

-----------------------------------------------------------------------------
(* Names in inbox/.                                                         *)

\* A set of natural numbers has a least one.
LEMMA LeastOne == ASSUME NEW T \in SUBSET Nat, T # {} PROVE \E x \in T : \A y \in T : x <= y
<1> DEFINE Below == {ss \in Nat \X Nat : ss[1] < ss[2]}
<1>1. IsWellFoundedOn(Below, Nat) BY NatLessThanWellFounded DEF OpToRel
<1> HIDE DEF Below
<1>2. PICK x \in T : \A y \in T : <<y, x>> \notin Below
  BY <1>1, WFMin, Zenon
<1>3. ASSUME NEW y \in T, y < x PROVE FALSE
  <2>1. <<y, x>> \in Below BY <1>3 DEF Below
  <2> QED BY <2>1, <1>2
<1> QED BY <1>3

\* Among one name more than there are files one is free.
LEMMA SomeFree ==
  ASSUME NEW base, IsFiniteSet(DOMAIN inbox)
  PROVE  \E i \in 0 .. Cardinality(DOMAIN inbox) : <<base, i>> \notin DOMAIN inbox
<1> DEFINE n == Cardinality(DOMAIN inbox)
           f == [i \in 0 .. n |-> <<base, i>>]
<1>1. n \in Nat BY FS_CardinalityType
<1> HIDE DEF n
<1> SUFFICES ASSUME \A i \in 0 .. n : <<base, i>> \in DOMAIN inbox PROVE FALSE BY DEF n
<1>2. f \in [0 .. n -> DOMAIN inbox] OBVIOUS
<1>3. IsFiniteSet(0 .. n) /\ Cardinality(0 .. n) = n + 1 BY <1>1, FS_Interval
<1>4. Cardinality(DOMAIN inbox) < Cardinality(0 .. n) BY <1>1, <1>3 DEF n
<1> HIDE DEF f
<1>5. \E i, j \in 0 .. n : i # j /\ f[i] = f[j] BY <1>2, <1>3, <1>4, FS_PigeonHole, Zenon
<1> QED BY <1>5 DEF f

LEMMA FreeNameFree ==
  ASSUME NEW base, IsFiniteSet(DOMAIN inbox)
  PROVE  FreeName(base) \notin DOMAIN inbox
<1> DEFINE n == Cardinality(DOMAIN inbox)
           T == {i \in 0 .. n : <<base, i>> \notin DOMAIN inbox}
<1>1. n \in Nat BY FS_CardinalityType
<1>2. T \in SUBSET Nat /\ T # {} BY <1>1, SomeFree
<1>3. PICK i \in T : \A j \in T : i <= j 
  <2> HIDE DEF T, n
  <2> QED BY <1>2, LeastOne
<1>4. \A j \in 0 .. i - 1 : <<base, j>> \in DOMAIN inbox BY <1>1, <1>3
<1> QED BY <1>3, <1>4 DEF FreeName

SendFields == {"at", "handler", "up", "offer", "bytes", "reply", "name"}
UploadFields == {"at", "left", "saved", "name"}
Blocks == Seq(Nat) \ {<<>>}

TransferTypes ==
  /\ file \in [Sends -> Blocks]
  /\ send = [s \in Sends |-> send[s]] /\ \A s \in Sends : DOMAIN send[s] = SendFields
  /\ upload = [u \in Uploads |-> upload[u]] /\ \A u \in Uploads : DOMAIN upload[u] = UploadFields
  /\ hashed = [s \in Sends |-> hashed[s]]
  /\ mishaps \in Nat

\* What a handler takes for the offered file is one that was hashed: while the
\* offer is out nothing is sent, and no file is empty.
SendInv(s) ==
  /\ send[s].at = "new" => send[s].handler = "none"
  /\ send[s].at \in {"new", "offered"} => send[s].bytes = <<>>
  /\ send[s].at = "offered" \/ send[s].handler \in {"serve", "receive"} =>
       send[s].offer \in hashed[s] \intersect Blocks
  /\ send[s].handler \in {"look", "rename"} =>
       send[s].at # "offered" /\ send[s].bytes \in hashed[s]

InboxHashed ==
  \A n \in DOMAIN inbox : \/ Head(inbox[n].content) \in Uploads
                          \/ \E t \in Sends : inbox[n].content \in hashed[t]

HashedInv == TransferTypes /\ (\A s \in Sends : SendInv(s)) /\ InboxHashed

LEMMA HashedStart == ASSUME NEW busy \in BOOLEAN, TransferInit(busy) PROVE HashedInv
<1> USE DEF TransferInit, NewSend, NewUpload, Nothing
<1>1. PICK who : /\ send = [s \in Sends |-> [NewSend EXCEPT !.at = IF s \in who THEN @ ELSE "none"]]
                 /\ upload = [u \in Uploads |-> [NewUpload(u) EXCEPT !.at = IF u \in who THEN @ ELSE "none"]]
  OBVIOUS
<1>2. <<0, 0>> \in Blocks BY DEF Blocks
<1>3. TransferTypes BY <1>1, <1>2 DEF TransferTypes, SendFields, UploadFields
<1>4. \A s \in Sends : SendInv(s) BY <1>1 DEF SendInv
<1>5. InboxHashed BY DEF InboxHashed
<1> QED BY <1>3, <1>4, <1>5 DEF HashedInv

\* A step of one send that writes nothing to inbox/ and hashes nothing.
LEMMA OneSend ==
  ASSUME HashedInv, NEW s \in Sends, NEW r, Set(s, r), DOMAIN r = SendFields,
         SendInv(s)',
         mishaps' \in Nat, UNCHANGED <<file, upload, hashed, inbox>>
  PROVE  HashedInv'
<1>1. TransferTypes' BY DEF HashedInv, TransferTypes, Set
<1>2. ASSUME NEW t \in Sends PROVE SendInv(t)'
  <2>1. CASE t = s BY <2>1
  <2>2. CASE t # s BY <2>2 DEF HashedInv, TransferTypes, Set, SendInv
  <2> QED BY <2>1, <2>2
<1>3. InboxHashed' BY DEF HashedInv, InboxHashed
<1> QED BY <1>1, <1>2, <1>3 DEF HashedInv

LEMMA HashedSend ==
  ASSUME HashedInv, NEW s \in Sends, SendSteps(s)
  PROVE  HashedInv'
<1> USE DEF SameElse
<1>0. DOMAIN send[s] = SendFields /\ SendInv(s) /\ mishaps \in Nat /\ file[s] \in Blocks
      /\ send = [t \in Sends |-> send[t]]
  BY DEF HashedInv, TransferTypes
<1>1. CASE HandleInbound(s)
  <2>1. PICK r \in {[send[s] EXCEPT !.up = FALSE, !.handler = "gone"], [send[s] EXCEPT !.handler = "serve"]} :
          Set(s, r) 
    BY <1>1 DEF HandleInbound
  <2>2. DOMAIN r = SendFields BY <1>0
  <2>3. r.at = send[s].at /\ r.bytes = send[s].bytes /\ r.offer = send[s].offer /\ r.handler \in {"gone", "serve"}
    BY <1>0 DEF SendFields
  <2>4. SendInv(s)' BY <1>0, <1>1, <2>1, <2>3 DEF SendInv, Set, HandleInbound
  <2> QED BY <1>0, <1>1, <2>1, <2>2, <2>4, OneSend DEF HandleInbound
<1>2. CASE Serve(s)
  <2>1. PICK r \in {[send[s] EXCEPT !.reply = "error", !.handler = "gone"],
                    [send[s] EXCEPT !.reply = "ready", !.handler = "receive"]} :
          Set(s, r)
    BY <1>2 DEF Serve
  <2>2. DOMAIN r = SendFields BY <1>0
  <2>3. r.at = send[s].at /\ r.bytes = send[s].bytes /\ r.offer = send[s].offer /\ r.handler \in {"gone", "receive"}
    BY <1>0 DEF SendFields
  <2>4. SendInv(s)' BY <1>0, <1>2, <2>1, <2>3 DEF SendInv, Set, Serve
  <2> QED BY <1>0, <1>2, <2>1, <2>2, <2>4, OneSend DEF Serve
<1>3. CASE Stream(s)
  <2>1. PICK r \in {[send[s] EXCEPT !.at = "sent", !.reply = "none", !.bytes = file[s]],
                    [send[s] EXCEPT !.at = "failed"]} :
          Set(s, r)
    BY <1>3 DEF Stream
  <2>2. DOMAIN r = SendFields BY <1>0
  <2>3. r.at \in {"sent", "failed"} /\ r.offer = send[s].offer /\ r.handler = send[s].handler
    BY <1>0 DEF SendFields
  <2>4. SendInv(s)' BY <1>0, <1>3, <2>1, <2>3 DEF SendInv, Set, Stream
  <2> QED BY <1>0, <1>3, <2>1, <2>2, <2>4, OneSend DEF Stream
<1>4. CASE Receive(s)
  <2> DEFINE read == SubSeq(send[s].bytes, 1, Len(send[s].offer))
             r == [send[s] EXCEPT !.bytes = read,
                                  !.handler = IF read = send[s].offer THEN "look" ELSE "gone"]
  <2>1. Set(s, r) BY <1>4 DEF Receive
  <2>2. DOMAIN r = SendFields BY <1>0
  <2>3. r.at = send[s].at /\ r.bytes = read /\ r.offer = send[s].offer
        /\ r.handler = (IF read = send[s].offer THEN "look" ELSE "gone")
    BY <1>0 DEF SendFields
  <2>4. send[s].offer \in hashed[s] \intersect Blocks BY <1>0, <1>4 DEF Receive, SendInv
  <2>5. send[s].at \notin {"new", "offered"}
    <3> SUFFICES ASSUME send[s].at \in {"new", "offered"} PROVE FALSE OBVIOUS
    <3>1. send[s].bytes = <<>> BY <1>0 DEF SendInv
    <3>2. Len(send[s].offer) \in Nat \ {0} BY <2>4, LenProperties, EmptySeq DEF Blocks
    <3> QED BY <3>1, <3>2, <1>4 DEF Receive
  <2> HIDE DEF r, read
  <2>6. send'[s] = r /\ hashed' = hashed BY <1>0, <1>4, <2>1 DEF Set, Receive
  <2>7. SendInv(s)' BY <2>3, <2>4, <2>5, <2>6 DEF SendInv
  <2> QED BY <1>0, <1>4, <2>1, <2>2, <2>7, OneSend DEF Receive
<1>5. CASE Look(s)
  <2> DEFINE r == [send[s] EXCEPT !.handler = "rename", !.name = FreeName(Wanted[s])]
  <2>1. Set(s, r) BY <1>5 DEF Look
  <2>2. DOMAIN r = SendFields BY <1>0
  <2>3. r.at = send[s].at /\ r.bytes = send[s].bytes /\ r.offer = send[s].offer /\ r.handler = "rename"
    BY <1>0 DEF SendFields
  <2> HIDE DEF r
  <2>4. send'[s] = r /\ hashed' = hashed BY <1>0, <1>5, <2>1 DEF Set, Look
  <2>5. SendInv(s)' BY <1>0, <1>5, <2>3, <2>4 DEF SendInv, Look
  <2> QED BY <1>0, <1>5, <2>1, <2>2, <2>5, OneSend DEF Look
<1>6. CASE Place(s)
  <2> DEFINE r == [send[s] EXCEPT !.handler = "gone",
                                  !.reply = IF send[s].up THEN "done" ELSE "none"]
  <2>1. Set(s, r) BY <1>6 DEF Place
  <2>2. DOMAIN r = SendFields BY <1>0
  <2>3. r.at = send[s].at /\ r.bytes = send[s].bytes /\ r.offer = send[s].offer /\ r.handler = "gone"
    BY <1>0 DEF SendFields
  <2> HIDE DEF r
  <2>4. send'[s] = r /\ hashed' = hashed BY <1>0, <1>6, <2>1 DEF Set, Place
  <2>5. SendInv(s)' BY <1>0, <1>6, <2>3, <2>4 DEF SendInv, Place
  <2>6. \A t \in Sends : SendInv(t)'
    BY <1>0, <1>6, <2>1, <2>5 DEF HashedInv, Set, SendInv, Place
  <2>7. TransferTypes' BY <1>6, <2>1, <2>2 DEF HashedInv, TransferTypes, Set, Place
  <2>8. send[s].bytes \in hashed[s] BY <1>0, <1>6 DEF SendInv, Place
  <2>9. InboxHashed'
    BY <1>6, <2>8 DEF HashedInv, InboxHashed, Place, RenameTo
  <2> QED BY <2>6, <2>7, <2>9 DEF HashedInv
<1>7. CASE Finish(s)
  <2> DEFINE r == [send[s] EXCEPT !.at = "done"]
  <2>1. Set(s, r) BY <1>7 DEF Finish
  <2>2. DOMAIN r = SendFields BY <1>0
  <2>3. r.at = "done" /\ r.bytes = send[s].bytes /\ r.offer = send[s].offer /\ r.handler = send[s].handler
    BY <1>0 DEF SendFields
  <2> HIDE DEF r
  <2>4. send'[s] = r /\ hashed' = hashed BY <1>0, <1>7, <2>1 DEF Set, Finish
  <2>5. SendInv(s)' BY <1>0, <1>7, <2>3, <2>4 DEF SendInv, Finish
  <2> QED BY <1>0, <1>7, <2>1, <2>2, <2>5, OneSend DEF Finish
<1>8. CASE ReadFails(s)
  <2>1. PICK r \in {[send[s] EXCEPT !.at = "failed"], [send[s] EXCEPT !.handler = "gone"]} : Set(s, r)
    BY <1>8 DEF ReadFails
  <2>2. DOMAIN r = SendFields BY <1>0
  <2>3. /\ r.bytes = send[s].bytes /\ r.offer = send[s].offer
        /\ \/ r.at = "failed" /\ r.handler = send[s].handler
           \/ r.at = send[s].at /\ r.handler = "gone" /\ send[s].at # "new"
    BY <1>0 , <1>8 DEF SendFields, ReadFails, SendInv
  <2>4. send'[s] = r /\ hashed' = hashed BY <1>0, <1>8, <2>1 DEF Set, ReadFails
  <2>5. SendInv(s)' BY <1>0, <2>3, <2>4 DEF SendInv
  <2> QED BY <1>0, <1>8, <2>1, <2>2, <2>5, OneSend DEF ReadFails
<1> QED BY <1>1, <1>2, <1>3, <1>4, <1>5, <1>6, <1>7, <1>8 DEF SendSteps

\* A step that is no send's: the sends, what they hashed and their files stay.
LEMMA HashedRest ==
  ASSUME HashedInv, TransferTypes', InboxHashed', UNCHANGED <<send, hashed>>
  PROVE  HashedInv'
  BY DEF HashedInv, SendInv

LEMMA HashedUpload ==
  ASSUME HashedInv, NEW u \in Uploads,
         HandleUpload(u) \/ LookUp(u) \/ SaveOne(u) \/ UploadBreaks(u)
  PROVE  HashedInv'
<1>0. DOMAIN upload[u] = UploadFields BY DEF HashedInv, TransferTypes
<1>1. UNCHANGED <<file, send, hashed>>
  BY DEF HandleUpload, LookUp, SaveOne, UploadBreaks, SameSends
<1>2. mishaps' \in Nat
  BY DEF HashedInv, TransferTypes, HandleUpload, LookUp, SaveOne, UploadBreaks, Mishap
<1>3. PICK r : SetUp(u, r) /\ DOMAIN r = UploadFields
  <2>1. CASE HandleUpload(u) BY <1>0, <2>1 DEF HandleUpload
  <2>2. CASE LookUp(u)
    <3> DEFINE r == [upload[u] EXCEPT !.at = "rename", !.name = FreeName(Head(upload[u].left))]
    <3>1. SetUp(u, r) BY <2>2 DEF LookUp
    <3>2. DOMAIN r = UploadFields BY <1>0
    <3> HIDE DEF r
    <3> QED BY <3>1, <3>2
  <2>3. CASE SaveOne(u)
    <3> DEFINE r == [upload[u] EXCEPT !.at = "part", !.left = Tail(@), !.saved = @ + 1]
    <3>1. SetUp(u, r) BY <2>3 DEF SaveOne
    <3>2. DOMAIN r = UploadFields BY <1>0
    <3> HIDE DEF r
    <3> QED BY <3>1, <3>2
  <2>4. CASE UploadBreaks(u) BY <1>0, <2>4 DEF UploadBreaks
  <2> QED BY <2>1, <2>2, <2>3, <2>4
<1>4. TransferTypes' BY <1>1, <1>2, <1>3 DEF HashedInv, TransferTypes, SetUp
<1>5. InboxHashed'
  <2>1. CASE SaveOne(u)
    <3>1. Head(<<u, Len(upload[u].left)>>) = u OBVIOUS
    <3> QED BY <3>1, <2>1, <1>1 DEF HashedInv, InboxHashed, SaveOne, RenameTo
  <2>2. CASE inbox' = inbox BY <2>2, <1>1 DEF HashedInv, InboxHashed
  <2> QED BY <2>1, <2>2 DEF HandleUpload, LookUp, UploadBreaks
<1> QED BY <1>1, <1>4, <1>5, HashedRest

LEMMA HashedStep == ASSUME HashedInv, [TransferNext]_transferVars PROVE HashedInv'
<1>0. /\ file \in [Sends -> Blocks] /\ mishaps \in Nat
      /\ send = [t \in Sends |-> send[t]]
      /\ \A s \in Sends : DOMAIN send[s] = SendFields /\ SendInv(s)
  BY DEF HashedInv, TransferTypes
<1>1. ASSUME NEW s \in Sends, SendFile(s) PROVE HashedInv'
  <2> DEFINE r == [send[s] EXCEPT !.at = "offered", !.offer = file[s]]
  <2>1. DOMAIN r = SendFields BY <1>0
  <2>2. r.at = "offered" /\ r.bytes = send[s].bytes /\ r.offer = file[s] /\ r.handler = send[s].handler
    BY <1>0 DEF SendFields
  <2>3. Set(s, r) BY <1>1 DEF SendFile
  <2> HIDE DEF r
  <2>4. send'[s] = r /\ hashed'[s] = hashed[s] \union {file[s]}
    BY <1>0, <1>1, <2>3 DEF Set, SendFile, HashedInv, TransferTypes
  <2>5. \A t \in Sends \ {s} : send'[t] = send[t] /\ hashed'[t] = hashed[t]
    BY <1>0, <1>1, <2>3 DEF Set, SendFile, HashedInv, TransferTypes
  <2>6. file[s] \in Blocks BY <1>0
  <2>7. SendInv(s)' BY <1>0, <1>1, <2>2, <2>4, <2>6 DEF SendInv, SendFile
  <2>8. \A t \in Sends \ {s} : SendInv(t)' BY <1>0, <2>5 DEF SendInv
  <2>9. TransferTypes' BY <1>1, <2>1, <2>3 DEF Set, SendFile, HashedInv, TransferTypes
  <2>10. InboxHashed' BY <1>1, <2>4, <2>5 DEF SendFile, HashedInv, InboxHashed
  <2> QED BY <2>7, <2>8, <2>9, <2>10 DEF HashedInv
<1>2. ASSUME NEW s \in Sends, SendSteps(s) PROVE HashedInv' BY <1>2, HashedSend
<1>3. ASSUME NEW s \in Sends, LoseConnection(s) PROVE HashedInv'
  <2>1. PICK left : Set(s, [send[s] EXCEPT !.up = FALSE, !.reply = left])
    BY <1>3 DEF LoseConnection
  <2> DEFINE r == [send[s] EXCEPT !.up = FALSE, !.reply = left]
  <2>2. DOMAIN r = SendFields BY <1>0
  <2>3. r.at = send[s].at /\ r.bytes = send[s].bytes /\ r.offer = send[s].offer /\ r.handler = send[s].handler
    BY <1>0 DEF SendFields
  <2>4. Set(s, r) BY <2>1
  <2> HIDE DEF r
  <2>5. send'[s] = r /\ hashed' = hashed BY <1>0, <1>3, <2>4 DEF Set, LoseConnection
  <2>6. SendInv(s)' BY <1>0, <2>3, <2>5 DEF SendInv
  <2> QED BY <1>0, <1>3, <2>2, <2>4, <2>6, OneSend DEF LoseConnection, Mishap
<1>10. ASSUME NEW s \in Sends, DiskFails(s) PROVE HashedInv'
  <2>1. PICK h \in {"broken", "stuck"} : Set(s, [send[s] EXCEPT !.handler = h])
    BY <1>10 DEF DiskFails
  <2> DEFINE r == [send[s] EXCEPT !.handler = h]
  <2>2. DOMAIN r = SendFields BY <1>0
  <2>3. r.at = send[s].at /\ r.bytes = send[s].bytes /\ r.offer = send[s].offer /\ r.handler = h
    BY <1>0 DEF SendFields
  <2>4. Set(s, r) BY <2>1
  <2> HIDE DEF r
  <2>5. send'[s] = r /\ hashed' = hashed BY <1>0, <1>10, <2>4 DEF Set, DiskFails
  <2>6. SendInv(s)' BY <1>0, <1>10, <2>3, <2>5 DEF SendInv, DiskFails
  <2> QED BY <1>0, <1>10, <2>2, <2>4, <2>6, OneSend DEF DiskFails, Mishap
<1>4. ASSUME NEW s \in Sends, SendAgain(s) PROVE HashedInv'
  <2>1. Set(s, NewSend) BY <1>4 DEF SendAgain
  <2>2. DOMAIN NewSend = SendFields BY DEF NewSend, SendFields
  <2>3. send'[s] = NewSend BY <1>0, <2>1 DEF Set
  <2>4. SendInv(s)' BY <2>3 DEF SendInv, NewSend, Nothing
  <2> QED BY <1>0, <1>4, <2>1, <2>2, <2>4, OneSend DEF SendAgain, Mishap
<1>5. ASSUME NEW s \in Sends, Rewrite(s) PROVE HashedInv'
  <2> DEFINE v == mishaps + 1
  <2>1. v \in Nat BY <1>0
  <2>2. <<v>> \in Blocks /\ <<v, v>> \in Blocks BY <2>1 DEF Blocks
  <2>3. Append(file[s], v) \in Blocks
    <3>1. file[s] \in Seq(Nat) BY <1>0 DEF Blocks
    <3> QED BY <2>1, <3>1, AppendProperties DEF Blocks
  <2>4. file' \in [Sends -> Blocks] BY <1>0, <1>5, <2>2, <2>3 DEF Rewrite
  <2>5. TransferTypes' BY <1>5, <2>4 DEF Rewrite, HashedInv, TransferTypes, Mishap
  <2>6. InboxHashed' BY <1>5 DEF Rewrite, HashedInv, InboxHashed
  <2> QED BY <1>5, <2>5, <2>6, HashedRest DEF Rewrite
<1>6. ASSUME RestartDaemon PROVE HashedInv'
  <2>1. send' = [s \in Sends |-> send'[s]]
    <3> DEFINE f(s) == IF send[s].at = "new" THEN send[s]
                       ELSE [send[s] EXCEPT !.up = FALSE, !.handler = "gone"]
    <3>1. send' = [s \in Sends |-> f(s)] BY <1>6 DEF RestartDaemon
    <3> HIDE DEF f
    <3> QED BY <3>1
  <2>2. mishaps' \in Nat
    <3>1. Mishap BY <1>6 DEF RestartDaemon
    <3> QED BY <1>0, <3>1 DEF Mishap
  <2>3. ASSUME NEW s \in Sends PROVE DOMAIN send'[s] = SendFields
    <3>1. DOMAIN [send[s] EXCEPT !.up = FALSE, !.handler = "gone"] = SendFields BY <1>0
    <3> QED BY <1>0, <1>6, <3>1 DEF RestartDaemon
  <2>4. TransferTypes' BY <2>1, <2>2, <2>3, <1>6 DEF RestartDaemon, HashedInv, TransferTypes
  <2>5. InboxHashed' BY <1>6 DEF RestartDaemon, HashedInv, InboxHashed
  <2>6. ASSUME NEW s \in Sends PROVE SendInv(s)'
    <3>1. CASE send[s].at = "new" BY <1>0, <1>6, <3>1 DEF RestartDaemon, SendInv
    <3>2. CASE send[s].at # "new"
      <4> DEFINE r == [send[s] EXCEPT !.up = FALSE, !.handler = "gone"]
      <4>1. r.at = send[s].at /\ r.bytes = send[s].bytes /\ r.offer = send[s].offer /\ r.handler = "gone"
        BY <1>0 DEF SendFields
      <4>2. send'[s] = r BY <1>6, <3>2 DEF RestartDaemon
      <4> HIDE DEF r
      <4> QED BY <1>0, <1>6, <3>2, <4>1, <4>2 DEF SendInv, RestartDaemon
    <3> QED BY <3>1, <3>2
  <2> QED BY <2>4, <2>5, <2>6 DEF HashedInv
<1>7. ASSUME NEW u \in Uploads, HandleUpload(u) \/ LookUp(u) \/ SaveOne(u) \/ UploadBreaks(u)
      PROVE  HashedInv'
  BY <1>7, HashedUpload
<1>8. ASSUME CloseDoor PROVE HashedInv'
  <2>1. TransferTypes' BY <1>8 DEF CloseDoor, HashedInv, TransferTypes, SameSends
  <2>2. InboxHashed' BY <1>8 DEF CloseDoor, HashedInv, InboxHashed, SameSends
  <2> QED BY <1>8, <2>1, <2>2, HashedRest DEF CloseDoor, SameSends
<1>9. ASSUME UNCHANGED transferVars PROVE HashedInv'
  BY <1>9 DEF transferVars, HashedInv, TransferTypes, SendInv, InboxHashed
<1> QED BY <1>1, <1>2, <1>3, <1>4, <1>5, <1>6, <1>7, <1>8, <1>9, <1>10 DEF TransferNext

LEMMA HashedWhole == HashedInv => InboxWhole
  BY DEF HashedInv, InboxHashed, InboxWhole

-----------------------------------------------------------------------------

\* Whoever is about to take the name of a file that is there had looked for it
\* before the file took it, and is among its rivals.
RivalsInv ==
  /\ IsFiniteSet(DOMAIN inbox)
  /\ \A n \in DOMAIN inbox : Claims(n) \subseteq inbox[n].rivals

\* What KeptUnlessRaced says of one step.
KeptStep ==
  \A n \in DOMAIN inbox :
    n \in DOMAIN inbox' /\ (inbox'[n] # inbox[n] => inbox[n].rivals # {})

LEMMA RivalsStart == ASSUME NEW busy \in BOOLEAN, TransferInit(busy) PROVE RivalsInv
<1>1. DOMAIN inbox = {} BY DEF TransferInit
<1> QED BY <1>1, FS_EmptySet DEF RivalsInv

\* No file comes, and nobody claims the name of one who did not before.
LEMMA NoNewClaim ==
  ASSUME RivalsInv, UNCHANGED inbox,
         \A s \in Sends : send'[s].handler = "rename" /\ send'[s].name \in DOMAIN inbox =>
                            send[s].handler = "rename" /\ send[s].name = send'[s].name,
         \A u \in Uploads : upload'[u].at = "rename" /\ upload'[u].name \in DOMAIN inbox =>
                              upload[u].at = "rename" /\ upload[u].name = upload'[u].name
  PROVE  RivalsInv' /\ KeptStep
  BY DEF RivalsInv, KeptStep, Claims

\* A rename: what is lost had a rival, and the rivals of what comes are known.
LEMMA Renames ==
  ASSUME RivalsInv, NEW t, NEW n, NEW content, t \in Claims(n), RenameTo(t, n, content),
         \A s \in Sends : send'[s].handler = "rename" =>
                            s # t /\ send[s].handler = "rename" /\ send[s].name = send'[s].name,
         \A u \in Uploads : upload'[u].at = "rename" =>
                              u # t /\ upload[u].at = "rename" /\ upload[u].name = upload'[u].name
  PROVE  RivalsInv' /\ KeptStep
<1>1. DOMAIN inbox' = DOMAIN inbox \union {n} BY DEF RenameTo
<1>2. IsFiniteSet(DOMAIN inbox)' BY <1>1, FS_AddElement DEF RivalsInv
<1>3. inbox'[n].rivals = Claims(n) \ {t} BY DEF RenameTo
<1>4. \A m \in DOMAIN inbox \ {n} : inbox'[m] = inbox[m] BY DEF RenameTo
<1>5. \A m : Claims(m)' \subseteq Claims(m) \ {t} BY DEF Claims
<1>6. \A m \in DOMAIN inbox' : Claims(m)' \subseteq inbox'[m].rivals
  BY <1>1, <1>3, <1>4, <1>5 DEF RivalsInv
<1>7. KeptStep BY <1>1, <1>4 DEF KeptStep, RivalsInv
<1> QED BY <1>2, <1>6, <1>7 DEF RivalsInv

\* A step of one send that leaves inbox/ alone.
LEMMA OneClaim ==
  ASSUME TransferTypes, RivalsInv, NEW s \in Sends, NEW r, Set(s, r), UNCHANGED <<upload, inbox>>,
         r.handler = "rename" /\ r.name \in DOMAIN inbox =>
           send[s].handler = "rename" /\ send[s].name = r.name
  PROVE  RivalsInv' /\ KeptStep
<1>1. \A t \in Sends : send'[t] = IF t = s THEN r ELSE send[t] BY DEF TransferTypes, Set
<1> QED BY <1>1, NoNewClaim

LEMMA RivalsSend ==
  ASSUME TransferTypes, RivalsInv, NEW s \in Sends, SendSteps(s)
  PROVE  RivalsInv' /\ KeptStep
<1> USE DEF SameElse
<1>0. DOMAIN send[s] = SendFields BY DEF TransferTypes
<1>1. CASE HandleInbound(s)
  <2>1. PICK r \in {[send[s] EXCEPT !.up = FALSE, !.handler = "gone"],
                    [send[s] EXCEPT !.handler = "serve"]} : Set(s, r)
    BY <1>1 DEF HandleInbound
  <2>2. r.handler \in {"gone", "serve"} BY <1>0 DEF SendFields
  <2> QED BY <1>1, <2>1, <2>2, OneClaim DEF HandleInbound
<1>2. CASE Serve(s)
  <2>1. PICK r \in {[send[s] EXCEPT !.reply = "error", !.handler = "gone"],
                    [send[s] EXCEPT !.reply = "ready", !.handler = "receive"]} : Set(s, r)
    BY <1>2 DEF Serve
  <2>2. r.handler \in {"gone", "receive"} BY <1>0 DEF SendFields
  <2> QED BY <1>2, <2>1, <2>2, OneClaim DEF Serve
<1>3. CASE Stream(s)
  <2>1. PICK r \in {[send[s] EXCEPT !.at = "sent", !.reply = "none", !.bytes = file[s]],
                    [send[s] EXCEPT !.at = "failed"]} : Set(s, r)
    BY <1>3 DEF Stream
  <2>2. r.handler = send[s].handler /\ r.name = send[s].name BY <1>0 DEF SendFields
  <2> QED BY <1>3, <2>1, <2>2, OneClaim DEF Stream
<1>4. CASE Receive(s)
  <2> DEFINE read == SubSeq(send[s].bytes, 1, Len(send[s].offer))
             r == [send[s] EXCEPT !.bytes = read,
                                  !.handler = IF read = send[s].offer THEN "look" ELSE "gone"]
  <2>1. Set(s, r) BY <1>4 DEF Receive
  <2>2. r.handler # "rename" BY <1>0 DEF SendFields
  <2> HIDE DEF r
  <2> QED BY <1>4, <2>1, <2>2, OneClaim DEF Receive
<1>5. CASE Look(s)
  <2> DEFINE r == [send[s] EXCEPT !.handler = "rename", !.name = FreeName(Wanted[s])]
  <2>1. Set(s, r) BY <1>5 DEF Look
  <2>2. r.name = FreeName(Wanted[s]) BY <1>0 DEF SendFields
  <2>3. r.name \notin DOMAIN inbox BY <2>2, FreeNameFree DEF RivalsInv
  <2> HIDE DEF r
  <2> QED BY <1>5, <2>1, <2>3, OneClaim DEF Look
<1>6. CASE Place(s)
  <2> DEFINE r == [send[s] EXCEPT !.handler = "gone",
                                  !.reply = IF send[s].up THEN "done" ELSE "none"]
  <2>1. Set(s, r) BY <1>6 DEF Place
  <2>2. r.handler = "gone" BY <1>0 DEF SendFields
  <2> HIDE DEF r
  <2>3. \A t \in Sends : send'[t] = IF t = s THEN r ELSE send[t] BY <2>1 DEF TransferTypes, Set
  <2>4. s \in Claims(send[s].name) BY <1>6 DEF Claims, Place
  <2>5. RenameTo(s, send[s].name, send[s].bytes) /\ upload' = upload BY <1>6 DEF Place
  <2>6. \A u \in Uploads : u # s BY TransfersAssumption
  <2> QED BY <2>2, <2>3, <2>4, <2>5, <2>6, Renames
<1>7. CASE Finish(s)
  <2> DEFINE r == [send[s] EXCEPT !.at = "done"]
  <2>1. Set(s, r) BY <1>7 DEF Finish
  <2>2. r.handler = send[s].handler /\ r.name = send[s].name BY <1>0 DEF SendFields
  <2> HIDE DEF r
  <2> QED BY <1>7, <2>1, <2>2, OneClaim DEF Finish
<1>8. CASE ReadFails(s)
  <2>1. PICK r \in {[send[s] EXCEPT !.at = "failed"], [send[s] EXCEPT !.handler = "gone"]} : Set(s, r)
    BY <1>8 DEF ReadFails
  <2>2. r.handler \in {"gone", send[s].handler} /\ r.name = send[s].name BY <1>0 DEF SendFields
  <2> QED BY <1>8, <2>1, <2>2, OneClaim DEF ReadFails
<1> QED BY <1>1, <1>2, <1>3, <1>4, <1>5, <1>6, <1>7, <1>8 DEF SendSteps

LEMMA RivalsUpload ==
  ASSUME TransferTypes, RivalsInv, NEW u \in Uploads,
         HandleUpload(u) \/ LookUp(u) \/ SaveOne(u) \/ UploadBreaks(u)
  PROVE  RivalsInv' /\ KeptStep
<1> USE DEF SameSends
<1>0. DOMAIN upload[u] = UploadFields BY DEF TransferTypes
<1>1. send' = send BY DEF HandleUpload, LookUp, SaveOne, UploadBreaks
<1>2. ASSUME NEW r, SetUp(u, r)
      PROVE  \A v \in Uploads : upload'[v] = IF v = u THEN r ELSE upload[v]
  BY <1>2 DEF TransferTypes, SetUp
<1>3. CASE HandleUpload(u) \/ UploadBreaks(u)
  <2>1. PICK at \in {"refused", "look", "saved", "broken"} : SetUp(u, [upload[u] EXCEPT !.at = at])
    BY <1>3 DEF HandleUpload, UploadBreaks
  <2>2. [upload[u] EXCEPT !.at = at].at = at BY <1>0 DEF UploadFields
  <2>3. upload'[u].at # "rename" /\ \A v \in Uploads \ {u} : upload'[v] = upload[v]
    BY <1>2, <2>1, <2>2
  <2> QED BY <1>1, <1>3, <2>3, NoNewClaim DEF HandleUpload, UploadBreaks
<1>4. CASE LookUp(u)
  <2> DEFINE r == [upload[u] EXCEPT !.at = "rename", !.name = FreeName(Head(upload[u].left))]
  <2>1. SetUp(u, r) BY <1>4 DEF LookUp
  <2>2. r.name = FreeName(Head(upload[u].left)) BY <1>0 DEF UploadFields
  <2>3. r.name \notin DOMAIN inbox BY <2>2, FreeNameFree DEF RivalsInv
  <2> HIDE DEF r
  <2>4. \A v \in Uploads : upload'[v] = IF v = u THEN r ELSE upload[v] BY <1>2, <2>1
  <2> QED BY <1>1, <1>4, <2>3, <2>4, NoNewClaim DEF LookUp
<1>5. CASE SaveOne(u)
  <2> DEFINE r == [upload[u] EXCEPT !.at = "part", !.left = Tail(@), !.saved = @ + 1]
  <2>1. SetUp(u, r) BY <1>5 DEF SaveOne
  <2>2. r.at = "part" BY <1>0 DEF UploadFields
  <2> HIDE DEF r
  <2>3. \A v \in Uploads : upload'[v] = IF v = u THEN r ELSE upload[v] BY <1>2, <2>1
  <2>4. u \in Claims(upload[u].name) BY <1>5 DEF Claims, SaveOne
  <2>5. RenameTo(u, upload[u].name, <<u, Len(upload[u].left)>>) BY <1>5 DEF SaveOne
  <2>6. \A s \in Sends : u # s BY TransfersAssumption
  <2> QED BY <1>1, <2>2, <2>3, <2>4, <2>5, <2>6, Renames
<1> QED BY <1>3, <1>4, <1>5

LEMMA RivalsStep ==
  ASSUME TransferTypes, RivalsInv, [TransferNext]_transferVars
  PROVE  RivalsInv' /\ KeptStep
<1>1. ASSUME NEW s \in Sends, SendFile(s) \/ LoseConnection(s) PROVE RivalsInv' /\ KeptStep
  <2>1. DOMAIN send[s] = SendFields BY DEF TransferTypes
  <2>2. PICK r : Set(s, r) /\ r.handler = send[s].handler /\ r.name = send[s].name
    <3>1. CASE SendFile(s)
      <4> DEFINE r == [send[s] EXCEPT !.at = "offered", !.offer = file[s]]
      <4>1. Set(s, r) BY <3>1 DEF SendFile
      <4>2. r.handler = send[s].handler /\ r.name = send[s].name BY <2>1 DEF SendFields
      <4> HIDE DEF r
      <4> QED BY <4>1, <4>2
    <3>2. CASE LoseConnection(s)
      <4>1. PICK left : Set(s, [send[s] EXCEPT !.up = FALSE, !.reply = left])
        BY <3>2 DEF LoseConnection
      <4> DEFINE r == [send[s] EXCEPT !.up = FALSE, !.reply = left]
      <4>2. r.handler = send[s].handler /\ r.name = send[s].name BY <2>1 DEF SendFields
      <4>3. Set(s, r) BY <4>1
      <4> HIDE DEF r
      <4> QED BY <4>2, <4>3
    <3> QED BY <1>1, <3>1, <3>2
  <2> QED BY <1>1, <2>2, OneClaim DEF SendFile, LoseConnection
<1>2. ASSUME NEW s \in Sends, SendSteps(s) PROVE RivalsInv' /\ KeptStep BY <1>2, RivalsSend
<1>9. ASSUME NEW s \in Sends, DiskFails(s) PROVE RivalsInv' /\ KeptStep
  <2>1. PICK h \in {"broken", "stuck"} : Set(s, [send[s] EXCEPT !.handler = h])
    BY <1>9 DEF DiskFails
  <2> DEFINE r == [send[s] EXCEPT !.handler = h]
  <2>2. r.handler = h /\ r.name = send[s].name BY DEF TransferTypes, SendFields
  <2>3. Set(s, r) BY <2>1
  <2> HIDE DEF r
  <2> QED BY <1>9, <2>2, <2>3, OneClaim DEF DiskFails
<1>3. ASSUME NEW s \in Sends, SendAgain(s) PROVE RivalsInv' /\ KeptStep
  BY <1>3, OneClaim DEF SendAgain, NewSend
<1>4. ASSUME NEW s \in Sends, Rewrite(s) PROVE RivalsInv' /\ KeptStep
  BY <1>4, NoNewClaim DEF Rewrite
<1>5. ASSUME RestartDaemon PROVE RivalsInv' /\ KeptStep
  <2>1. \A s \in Sends : send'[s].handler # "gone" => send'[s] = send[s]
    <3> SUFFICES ASSUME NEW s \in Sends, send[s].at # "new" PROVE send'[s].handler = "gone"
      BY <1>5 DEF RestartDaemon
    <3>1. DOMAIN send[s] = SendFields BY DEF TransferTypes
    <3>2. [send[s] EXCEPT !.up = FALSE, !.handler = "gone"].handler = "gone"
      BY <3>1 DEF SendFields
    <3> QED BY <1>5, <3>2 DEF RestartDaemon
  <2> QED BY <1>5, <2>1, NoNewClaim DEF RestartDaemon
<1>6. ASSUME NEW u \in Uploads, HandleUpload(u) \/ LookUp(u) \/ SaveOne(u) \/ UploadBreaks(u)
      PROVE  RivalsInv' /\ KeptStep
  BY <1>6, RivalsUpload
<1>7. ASSUME CloseDoor PROVE RivalsInv' /\ KeptStep
  <2>1. \A u \in Uploads : upload'[u].at # "rename"
    <3> SUFFICES ASSUME NEW u \in Uploads PROVE upload'[u].at # "rename" OBVIOUS
    <3>1. [upload[u] EXCEPT !.at = "broken"].at = "broken" BY DEF TransferTypes, UploadFields
    <3> QED BY <1>7, <3>1 DEF CloseDoor
  <2> QED BY <1>7, <2>1, NoNewClaim DEF CloseDoor, SameSends
<1>8. ASSUME UNCHANGED transferVars PROVE RivalsInv' /\ KeptStep
  BY <1>8, NoNewClaim DEF transferVars
<1> QED BY <1>1, <1>2, <1>3, <1>4, <1>5, <1>6, <1>7, <1>8, <1>9 DEF TransferNext

-----------------------------------------------------------------------------
(* A behaviour of Services is one of its parts' at most, while the others   *)
(* stay as they began.                                                      *)

LEMMA PartsStart ==
  Init => /\ HashedInv /\ RivalsInv /\ PunchInv /\ TrustInv /\ DaemonInv /\ WatchInv
          /\ VerifyInv /\ BinaryInv /\ MappingInv
<1> SUFFICES ASSUME Init
             PROVE  /\ HashedInv /\ RivalsInv /\ PunchInv /\ TrustInv /\ DaemonInv /\ WatchInv
                    /\ VerifyInv /\ BinaryInv /\ MappingInv
  OBVIOUS
<1>1. \A t : (task = t) \in BOOLEAN OBVIOUS
<1>2. HashedInv /\ RivalsInv BY <1>1, HashedStart, RivalsStart DEF Init
<1>3. PunchInv BY <1>1, PunchStart DEF Init
<1>4. TrustInv BY <1>1, TrustStart DEF Init
<1>5. DaemonInv BY <1>1, DaemonStart DEF Init
<1>6. WatchInv BY <1>1, WatchStart DEF Init
<1>7. VerifyInv /\ BinaryInv BY <1>1, InstallStart DEF Init
<1>8. MappingInv BY <1>1, MappingStart DEF Init
<1> QED BY <1>2, <1>3, <1>4, <1>5, <1>6, <1>7, <1>8

LEMMA PartsStep ==
  [Next]_vars =>
    /\ [TransferNext]_transferVars /\ [PunchNext]_punchVars /\ [TrustNext]_trustVars
    /\ [DaemonsNext]_daemonVars /\ [WatchNext]_watchVars /\ [InstallNext]_installVars
    /\ [MappingNext]_mappingVars
  BY DEF Next, vars, Transferring, Punching, Trusting, StartingAndStopping, Watching, Installing,
         OpeningPorts

LEMMA Steps == Spec => Init /\ [][Next]_vars
  BY PTL DEF Spec

LEMMA AlwaysHashed == Spec => []HashedInv
<1>1. HashedInv /\ [Next]_vars => HashedInv' BY PartsStep, HashedStep
<1> QED BY <1>1, PartsStart, Steps, PTL

\* What lrm send and the daemon's handler put into inbox/ is, block for block,
\* a file its sender hashed (send.go, Serve: the read of as many bytes as were
\* offered and the comparison of the hash before the rename).
THEOREM InboxFilesWhole == Spec => []InboxWhole
  BY AlwaysHashed, HashedWhole, PTL

\* A file in inbox/ is lost only to a transfer that had found its name free
\* before it came (send.go, Serve: the look for a free name, then the rename;
\* drop.go, saveOne, the same).
THEOREM InboxFilesKept == Spec => KeptUnlessRaced
<1>1. RivalsInv /\ HashedInv /\ [Next]_vars => RivalsInv' /\ KeptStep
  BY PartsStep, RivalsStep DEF HashedInv
<1>2. KeptStep => [KeptStep]_transferVars OBVIOUS
<1> QED BY <1>1, PartsStart, Steps, AlwaysHashed, PTL DEF KeptUnlessRaced, KeptStep

LEMMA AlwaysPunch == Spec => []PunchInv
<1>1. PunchInv /\ [Next]_vars => PunchInv' BY PartsStep, PunchInvStep
<1> QED BY <1>1, PartsStart, Steps, PTL

\* When PunchDial hands a connection over, it holds no other, in whatever
\* Services are about (punch.go, PunchDial).
THEOREM OneConnectionLeft == Spec => []OneLeft
  BY AlwaysPunch, InvOneLeft, PTL

\* A punch is a rendezvous (punch.go, PunchDial and PunchAccept).
THEOREM ServicesMeet == Spec => Meets
<1>1. Init => Meeting!Init
  <2>1. (task = "punch") \in BOOLEAN OBVIOUS
  <2> QED BY <2>1, MeetsInit DEF Init
<1>2. PunchInv /\ [Next]_vars => [Meeting!Next]_(Meeting!meeting)
  BY PartsStep, MeetsNext
<1> QED BY <1>1, <1>2, AlwaysPunch, Steps, PTL DEF Meets, Meeting!Spec

\* Whoever gets a relay was paired at that machine, and a punch offer is
\* answered at the end of a chain of two pairings, in whatever order books are
\* loaded and written (daemon.go, handleRelay and handlePunchRelay; node.go,
\* Pair, Unpair, Touch and their saves).
THEOREM ServedWerePaired == Spec => []ServesPaired
<1>1. TrustInv /\ [Next]_vars => TrustInv' BY PartsStep, TrustStep
<1>2. TrustInv => ServesPaired BY DEF TrustInv
<1> QED BY <1>1, <1>2, PartsStart, Steps, PTL

\* Who watches a daemon and reads on is in its slice of watchers, once, however
\* the others come and go while it is rebuilt (daemon.go, subscribeWatch and the
\* function it returns).
THEOREM WatchersRemain == Spec => []WatchersStay
<1>1. WatchInv /\ [Next]_vars => WatchInv' BY PartsStep, WatchStep
<1> QED BY <1>1, ListedStay, PartsStart, Steps, PTL

\* A daemon that met no other is not refused its control socket, and is found
\* there once it serves, whatever crashed ones left (daemon.go, controlLoop;
\* desktop/service.go, StartDaemon).
THEOREM AloneIsFound == Spec => []AloneAnswers
<1>1. DaemonInv /\ [Next]_vars => DaemonInv' BY PartsStep, DaemonStep
<1>2. DaemonInv => AloneAnswers BY DEF DaemonInv
<1> QED BY <1>1, <1>2, PartsStart, Steps, PTL

LEMMA AlwaysVerify == Spec => []VerifyInv
<1>1. VerifyInv /\ [Next]_vars => VerifyInv'
  BY PartsStep, FileStep, VerifyStep DEF VerifyInv
<1> QED BY <1>1, PartsStart, Steps, PTL

\* The binary that is run is a release whose checksum was compared, unless two
\* updates wrote to one download (update.go, Apply and swap).
THEOREM BinaryVerified == Spec => []VerifiedOnly
<1>1. VerifyInv => VerifiedOnly BY DEF VerifyInv, Verified, Whole, VerifiedOnly
<1> QED BY <1>1, AlwaysVerify, PTL

\* There is a binary, except while a swap on Windows is between its two renames
\* or was killed there (update.go, swap and CleanLeftovers).
THEOREM BinaryRemains == Spec => []BinaryStays
<1>1. VerifyInv /\ BinaryInv /\ [Next]_vars => BinaryInv'
  BY PartsStep, BinaryStep DEF VerifyInv
<1>2. BinaryInv => BinaryStays BY DEF BinaryInv
<1> QED BY <1>1, <1>2, AlwaysVerify, PartsStart, Steps, PTL

\* A daemon that stopped left no port open that it knew of, and the port the
\* last try got is open while the daemon runs (daemon.go, tryMapPorts,
\* refreshMappingsLoop and unmapPorts).
THEOREM RouterInAgreement == Spec => []RouterAgrees
<1>1. MappingInv /\ [Next]_vars => MappingInv' BY PartsStep, MappingStep
<1> QED BY <1>1, RouterAgreed, PartsStart, Steps, PTL
=============================================================================
