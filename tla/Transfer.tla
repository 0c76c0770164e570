------------------------------ MODULE Transfer ------------------------------
(***************************************************************************)
(* Files handed over beside the history: lrm send (internal/send, served   *)
(* by the daemon's handleSend) and the upload page of lrm receive          *)
(* (internal/drop). Both stage what comes in outside the working tree,     *)
(* look for a name that is free in inbox/, and rename the file to it. They *)
(* are two processes and share nothing but the directory.                  *)
(***************************************************************************)
EXTENDS Integers, Sequences, FiniteSets

CONSTANTS Sends,        \* runs of lrm send, one file each
          Sender,       \* Sender[s]: the repository that sends
          Strangers,    \* the sends from another workspace
          Uploads,      \* uploads to the page
          Parts,        \* Parts[u]: the names of the files of upload u
          BadName,      \* a name the page refuses
          Wanted,       \* Wanted[s]: the name of the file sent
          MaxTransfers, \* bound: how many of the two take place
          MaxMishaps    \* bound: files rewritten while they are sent, connections
                        \* lost, failures of a disk, restarts, sends run again

\* A send and an upload are different things.
ASSUME TransfersAssumption == Sends \intersect Uploads = {}

VARIABLES file,     \* file[s]: the blocks of the file on the sender's disk
          send,     \* the two ends of each send and what is between them
          upload,   \* each upload and its handler
          inbox,    \* name -> [content, rivals]: rivals, the transfers that had
                    \* found the name free too when the file took it
          hashed,   \* hashed[s]: what the sender ever hashed (a record of the past)
          door,     \* the page: "open", "closing" or "closed"
          once,     \* lrm receive --once
          sync,     \* the sync session of each sender with this daemon
          mishaps

transferVars == <<file, send, upload, inbox, hashed, door, once, sync,
                  mishaps>>

Nothing == <<>>
Senders == {Sender[s] : s \in Sends}

NewSend == [at |-> "new", handler |-> "none", up |-> TRUE, offer |-> Nothing,
            bytes |-> Nothing, reply |-> "none", name |-> <<>>]
NewUpload(u) == [at |-> "part", left |-> Parts[u], saved |-> 0, name |-> <<>>]

TransferInit(busy) ==
  /\ file = [s \in Sends |-> <<0, 0>>]
  /\ \E who \in {w \in SUBSET (Sends \union Uploads) : busy /\ Cardinality(w) = MaxTransfers}
                 \union {{}} :
       /\ send = [s \in Sends |-> [NewSend EXCEPT !.at = IF s \in who THEN @ ELSE "none"]]
       /\ upload = [u \in Uploads |-> [NewUpload(u) EXCEPT !.at = IF u \in who THEN @ ELSE "none"]]
  /\ inbox = <<>> /\ hashed = [s \in Sends |-> {}] /\ door = "open"
  \* A live session is kept or retired as shouldReplace compares the PeerIDs;
  \* --once is tried where there is none.
  /\ \E live \in IF busy THEN {"none", "stays", "yields"} ELSE {"none"} :
       sync = [p \in Senders |-> live] /\ once = (live = "none")
  /\ mishaps = 0

Mishap == mishaps < MaxMishaps /\ mishaps' = mishaps + 1
Set(s, r) == send' = [send EXCEPT ![s] = r]
SameElse == UNCHANGED <<file, upload, inbox, hashed, door, once, sync, mishaps>>

-----------------------------------------------------------------------------
(* Places: the name that is looked for, then taken.                         *)

\* Mutant: what is there already is written over.
NameAlways(base) == <<base, 0>>

\* name, name-1, name-2, ...: the first that is not there.
FreeName(base) ==
  <<base, CHOOSE i \in 0 .. Cardinality(DOMAIN inbox) :
            /\ <<base, i>> \notin DOMAIN inbox
            /\ \A j \in 0 .. i - 1 : <<base, j>> \in DOMAIN inbox>>

\* The transfers that are about to rename their file to the name.
Claims(name) == {s \in Sends : send[s].handler = "rename" /\ send[s].name = name}
                \union {u \in Uploads : upload[u].at = "rename" /\ upload[u].name = name}

\* os.Rename: what has the name by now is gone.
RenameTo(t, name, content) ==
  LET entry == [content |-> content, rivals |-> Claims(name) \ {t}]
  IN  inbox' = [n \in DOMAIN inbox \union {name} |-> IF n = name THEN entry ELSE inbox[n]]

-----------------------------------------------------------------------------
(* lrm send, and the daemon's handler of its session.                       *)

\* The file is hashed and offered; it is read again when it is streamed.
SendFile(s) ==
  /\ send[s].at = "new"
  /\ Set(s, [send[s] EXCEPT !.at = "offered", !.offer = file[s]])
  /\ hashed' = [hashed EXCEPT ![s] = @ \union {file[s]}]
  /\ UNCHANGED <<file, upload, inbox, door, once, sync, mishaps>>

\* Somebody shortens the file, writes it over or appends to it.
Rewrite(s) ==
  LET v == mishaps + 1
  IN  /\ Mishap /\ send[s].at \in {"new", "offered"}
      /\ \E c \in {<<v>>, <<v, v>>, Append(file[s], v)} : file' = [file EXCEPT ![s] = c]
      /\ UNCHANGED <<send, upload, inbox, hashed, door, once, sync>>

\* A session of the same repository that is listed already.
Listed(s) == \E r \in Sends \ {s} :
               Sender[r] = Sender[s] /\ send[r].handler \notin {"none", "gone", "broken"}

\* handleInbound looks for a session of the peer before it knows the family:
\* a second one is closed, unless its PeerID makes it replace the first.
HandleInbound(s) ==
  LET me == Sender[s]
  IN  /\ send[s].at = "offered" /\ send[s].handler = "none" /\ send[s].up
      /\ IF Listed(s) \/ sync[me] = "stays"
         THEN Set(s, [send[s] EXCEPT !.up = FALSE, !.handler = "gone"]) /\ UNCHANGED sync
         ELSE /\ Set(s, [send[s] EXCEPT !.handler = "serve"])
              /\ sync' = [sync EXCEPT ![me] = IF @ = "yields" THEN "none" ELSE @]
      /\ UNCHANGED <<file, upload, inbox, hashed, door, once, mishaps>>

\* Mutant: a stranger's offer is dropped without an answer.
ServeInSilence(s) ==
  /\ send[s].handler = "serve"
  /\ Set(s, IF s \in Strangers
            THEN [send[s] EXCEPT !.handler = "gone"]
            ELSE [send[s] EXCEPT !.reply = "ready", !.handler = "receive"])
  /\ SameElse

\* Serve: the workspace gate.
Serve(s) ==
  /\ send[s].handler = "serve"
  /\ Set(s, IF s \in Strangers
            THEN [send[s] EXCEPT !.reply = "error", !.handler = "gone"]
            ELSE [send[s] EXCEPT !.reply = "ready", !.handler = "receive"])
  /\ SameElse

\* What the sender does with the answer to its offer.
Stream(s) ==
  /\ send[s].at = "offered" /\ send[s].reply # "none"
  /\ Set(s, IF send[s].reply = "ready"
            THEN [send[s] EXCEPT !.at = "sent", !.reply = "none", !.bytes = file[s]]
            ELSE [send[s] EXCEPT !.at = "failed"])
  /\ SameElse

\* Mutant: the hash is not compared.
ReceiveUnchecked(s) ==
  LET r == send[s]
  IN  /\ r.handler = "receive" /\ Len(r.bytes) >= Len(r.offer)
      /\ Set(s, [r EXCEPT !.bytes = SubSeq(@, 1, Len(r.offer)), !.handler = "look"])
      /\ SameElse

\* It reads as many bytes as were offered, and waits for those that do not
\* come. When their hash is not the one offered it is gone without an answer,
\* and leaves the connection open.
Receive(s) ==
  LET r    == send[s]
      read == SubSeq(r.bytes, 1, Len(r.offer))
  IN  /\ r.handler = "receive" /\ Len(r.bytes) >= Len(r.offer)
      /\ Set(s, [r EXCEPT !.bytes = read,
                          !.handler = IF read = r.offer THEN "look" ELSE "gone"])
      /\ SameElse

Look(s) ==
  /\ send[s].handler = "look"
  /\ Set(s, [send[s] EXCEPT !.handler = "rename", !.name = FreeName(Wanted[s])])
  /\ SameElse

Place(s) ==
  /\ send[s].handler = "rename"
  /\ RenameTo(s, send[s].name, send[s].bytes)
  /\ Set(s, [send[s] EXCEPT !.handler = "gone",
                            !.reply = IF send[s].up THEN "done" ELSE "none"])
  /\ UNCHANGED <<file, upload, hashed, door, once, sync, mishaps>>

Finish(s) ==
  /\ send[s].at = "sent" /\ send[s].reply = "done"
  /\ Set(s, [send[s] EXCEPT !.at = "done"])
  /\ SameElse

\* A failure of the receiver's disk: the directories, the staged file or the
\* rename. Serve returns an error that nobody is told, and the connection is
\* left open. A look that fails, but not for want of the file, is tried under
\* the next name, for ever.
DiskFails(s) ==
  LET r == send[s]
  IN  /\ Mishap
      /\ \/ r.handler = "receive" /\ r.bytes # Nothing /\ Set(s, [r EXCEPT !.handler = "broken"])
         \/ r.handler = "rename" /\ Set(s, [r EXCEPT !.handler = "broken"])
         \/ r.handler = "look" /\ Set(s, [r EXCEPT !.handler = "stuck"])
      /\ UNCHANGED <<file, upload, inbox, hashed, door, once, sync>>

\* Either end reads from a connection that is down.
ReadFails(s) ==
  /\ ~send[s].up
  /\ \/ send[s].at \in {"offered", "sent"} /\ send[s].reply = "none"
        /\ Set(s, [send[s] EXCEPT !.at = "failed"])
     \/ send[s].handler \in {"serve", "receive"}
        /\ Set(s, [send[s] EXCEPT !.handler = "gone"])
  /\ SameElse

\* The connection is lost, perhaps with an answer that was on its way.
LoseConnection(s) ==
  /\ Mishap /\ send[s].up /\ send[s].at \in {"offered", "sent"}
  /\ \E left \in {send[s].reply, "none"} : Set(s, [send[s] EXCEPT !.up = FALSE, !.reply = left])
  /\ UNCHANGED <<file, upload, inbox, hashed, door, once, sync>>

\* The daemon is restarted: its handlers and sessions are gone.
RestartDaemon ==
  /\ Mishap
  /\ send' = [s \in Sends |->
       IF send[s].at = "new" THEN send[s]
       ELSE [send[s] EXCEPT !.up = FALSE, !.handler = "gone"]]
  /\ sync' = [p \in Senders |-> "none"]
  /\ UNCHANGED <<file, upload, inbox, hashed, door, once>>

\* The user runs it again.
SendAgain(s) ==
  /\ Mishap /\ send[s].at = "failed" /\ send[s].handler \in {"none", "gone", "broken"}
  /\ Set(s, NewSend)
  /\ UNCHANGED <<file, upload, inbox, hashed, door, once, sync>>

-----------------------------------------------------------------------------
(* The upload page: one handler for each request.                           *)

SetUp(u, r) == upload' = [upload EXCEPT ![u] = r]
SameSends == UNCHANGED <<file, send, hashed, once, sync>>

\* The next part: staged, or refused with an answer, what was saved before it
\* staying; after the last one the answer, which starts to close the door.
HandleUpload(u) ==
  LET r == upload[u]
  IN  /\ r.at = "part"
      /\ \/ /\ r.left # <<>>
            /\ SetUp(u, [r EXCEPT !.at = IF Head(r.left) = BadName THEN "refused" ELSE "look"])
            /\ UNCHANGED door
         \/ /\ r.left = <<>>
            /\ SetUp(u, [r EXCEPT !.at = IF r.saved = 0 THEN "refused" ELSE "saved"])
            /\ door' = IF r.saved > 0 /\ once /\ door = "open" THEN "closing" ELSE door
      /\ SameSends /\ UNCHANGED <<inbox, mishaps>>

LookUp(u) ==
  /\ upload[u].at = "look"
  /\ SetUp(u, [upload[u] EXCEPT !.at = "rename", !.name = FreeName(Head(upload[u].left))])
  /\ SameSends /\ UNCHANGED <<inbox, door, mishaps>>

SaveOne(u) ==
  LET r == upload[u]
  IN  /\ r.at = "rename"
      /\ RenameTo(u, r.name, <<u, Len(r.left)>>)
      /\ SetUp(u, [r EXCEPT !.at = "part", !.left = Tail(@), !.saved = @ + 1])
      /\ SameSends /\ UNCHANGED <<door, mishaps>>

\* The body breaks off while it is staged, or the disk fails: the page says so.
UploadBreaks(u) ==
  /\ Mishap /\ upload[u].at \in {"part", "look", "rename"}
  /\ SetUp(u, [upload[u] EXCEPT !.at = "broken"])
  /\ SameSends /\ UNCHANGED <<inbox, door>>

\* A quarter of a second after the answer the process ends, with whatever
\* other uploads it was at, and takes no more.
CloseDoor ==
  /\ door = "closing"
  /\ door' = "closed"
  /\ upload' = [u \in Uploads |-> IF upload[u].at \in {"part", "look", "rename"}
                                  THEN [upload[u] EXCEPT !.at = "broken"] ELSE upload[u]]
  /\ SameSends /\ UNCHANGED <<inbox, mishaps>>

-----------------------------------------------------------------------------

SendSteps(s) ==
  \/ HandleInbound(s) \/ Serve(s) \/ Stream(s) \/ Receive(s) \/ Look(s) \/ Place(s)
  \/ Finish(s) \/ ReadFails(s)

TransferNext ==
  \/ \E s \in Sends : \/ SendFile(s) \/ SendSteps(s) \/ LoseConnection(s) \/ SendAgain(s)
                      \/ Rewrite(s) \/ DiskFails(s)
  \/ RestartDaemon
  \/ \E u \in Uploads : \/ HandleUpload(u) \/ LookUp(u) \/ SaveOne(u)
                        \/ UploadBreaks(u)
  \/ CloseDoor

-----------------------------------------------------------------------------

\* What a send put into inbox/ is, block for block, a file its sender hashed,
\* though files are rewritten while they are sent and connections break off.
InboxWhole ==
  \A n \in DOMAIN inbox :
    \A s \in Sends : n[1] = Wanted[s] /\ Head(inbox[n].content) \notin Uploads =>
                       \E t \in Sends : inbox[n].content \in hashed[t]

\* A file in inbox/ stays as it is, unless another transfer had already found
\* its name free when it took it: collisions get a name of their own, but for
\* the moment between the look for the name and the rename.
KeptUnlessRaced ==
  [][\A n \in DOMAIN inbox :
       n \in DOMAIN inbox' /\ (inbox'[n] # inbox[n] => inbox[n].rivals # {})]_transferVars

\* Whoever offers a file is told how it went, or finds the connection down,
\* but for two cases, in which the code says nothing and leaves the connection
\* open: the file was rewritten since it was hashed, or the receiver's disk
\* failed (send.go:145-195).
SendsEnd ==
  \A s \in Sends : send[s].at = "offered" ~>
                    \/ send[s].at \in {"done", "failed"}
                    \/ file[s] # send[s].offer
                    \/ send[s].handler \in {"broken", "stuck"}
=============================================================================
