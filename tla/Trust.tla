------------------------------- MODULE Trust -------------------------------
(***************************************************************************)
(* Which devices a machine trusts (internal/node) and what a daemon does   *)
(* for them (internal/relay, and the daemon's relay and punch handlers).   *)
(* A machine has one address book, a file; its daemon loads it once and    *)
(* rewrites it from memory, lrm pair and lrm unpair load and rewrite it    *)
(* with a copy of their own. A device is named by the hash of its key.     *)
(***************************************************************************)
EXTENDS Integers, FiniteSets

CONSTANTS Machines,    \* each runs a daemon, and is a device itself
          Devices,     \* all devices, Machines among them
          MaxRequests  \* bound: commands, contacts, requests and restarts

ASSUME MachinesAssumption == Machines \subseteq Devices

VARIABLES disk,        \* disk[m]: the book file, or Torn
          mem,         \* mem[m]: the daemon's book, or NoBook
          command,     \* command[m]: the pair or unpair under way at m
          writing,     \* writing[m]: who writes the file: a set of <<who, book>>
          ever,        \* ever[m]: the devices somebody paired at m (a record)
          wanted,      \* wanted[m]: those not unpaired since (a record)
          relayed,     \* <<m, x>>: m's daemon opened a relay for x (a record)
          answered,    \* <<t, m, x>>: t's daemon answered a punch offer that m
                       \* passed on for x (a record)
          requests

trustVars == <<disk, mem, command, writing, ever, wanted, relayed, answered, requests>>

Torn   == {"torn"}
NoBook == {"no book"}
NoCommand == [cmd |-> "none"]

TrustInit(busy) ==
  LET first == [m \in Machines |-> IF busy THEN Machines \ {m} ELSE {}]
  IN  /\ disk = first /\ mem = first
      /\ command = [m \in Machines |-> NoCommand]
      /\ writing = [m \in Machines |-> {}]
      /\ ever = first /\ wanted = first
      /\ relayed = {} /\ answered = {}
      /\ requests = IF busy THEN 0 ELSE MaxRequests

Request == requests < MaxRequests /\ requests' = requests + 1
Records == UNCHANGED <<relayed, answered>>
Users   == UNCHANGED <<command, ever, wanted>>

\* os.WriteFile: the file is cut to nothing, then written. Over what another
\* has written since, the end of the other's may stick out.
StartSave(m, who, book) ==
  /\ disk' = [disk EXCEPT ![m] = Torn]
  /\ writing' = [writing EXCEPT ![m] = @ \union {<<who, book>>}]

EndSave(m) ==
  /\ \E w \in writing[m] :
       /\ \E file \in {w[2], Torn} :
            /\ file = Torn => disk[m] # Torn
            /\ disk' = [disk EXCEPT ![m] = file]
       /\ writing' = [writing EXCEPT ![m] = @ \ {w}]
  /\ UNCHANGED <<mem, requests>> /\ Users /\ Records

-----------------------------------------------------------------------------
(* lrm pair and lrm unpair.                                                 *)

\* A file that cannot be read ends the command; so does a device to unpair
\* that is not in it.
LoadBook(m, cmd, x) ==
  /\ Request /\ command[m] = NoCommand /\ x # m
  /\ disk[m] # Torn
  /\ cmd = "unpair" => x \in disk[m]
  /\ command' = [command EXCEPT ![m] = [cmd |-> cmd, of |-> x, book |-> disk[m]]]
  /\ UNCHANGED <<disk, mem, writing, ever, wanted>> /\ Records

Pair(m) ==
  LET c == command[m]
  IN  /\ c.cmd = "pair"
      /\ StartSave(m, "cli", c.book \union {c.of})
      /\ ever' = [ever EXCEPT ![m] = @ \union {c.of}]
      /\ wanted' = [wanted EXCEPT ![m] = @ \union {c.of}]
      /\ command' = [command EXCEPT ![m] = NoCommand]
      /\ UNCHANGED <<mem, requests>> /\ Records

Unpair(m) ==
  LET c == command[m]
  IN  /\ c.cmd = "unpair"
      /\ StartSave(m, "cli", c.book \ {c.of})
      /\ wanted' = [wanted EXCEPT ![m] = @ \ {c.of}]
      /\ command' = [command EXCEPT ![m] = NoCommand]
      /\ UNCHANGED <<mem, ever, requests>> /\ Records

-----------------------------------------------------------------------------
(* The daemon.                                                              *)

\* New loads the book, if it can; without one it serves nobody.
Restart(m) ==
  /\ Request
  /\ mem' = [mem EXCEPT ![m] = IF disk[m] = Torn THEN NoBook ELSE disk[m]]
  /\ writing' = [writing EXCEPT ![m] = {w \in @ : w[1] # "daemon"}]
  /\ UNCHANGED disk /\ Users /\ Records

Knows(m, x) == mem[m] # NoBook /\ x \in mem[m]

\* Mutant: a device that was seen becomes an entry.
TouchAny(m, x) ==
  /\ Request /\ mem[m] # NoBook /\ x # m
  /\ mem' = [mem EXCEPT ![m] = @ \union {x}]
  /\ StartSave(m, "daemon", mem[m] \union {x})
  /\ Users /\ Records

\* learnPeer after a sync: the entry of a known device is refreshed, and the
\* whole book is written as this daemon remembers it.
Touch(m, x) ==
  /\ Request /\ Knows(m, x)
  /\ StartSave(m, "daemon", mem[m])
  /\ UNCHANGED mem /\ Users /\ Records

\* The device named in the request is in the book, the key that is pinned
\* there signed the request, and not long ago.
CheckAuth(m, x, signer, fresh) == fresh /\ Knows(m, x) /\ signer = x

HandleRelay(m, x, signer, fresh) ==
  /\ Request /\ x # m /\ CheckAuth(m, x, signer, fresh)
  /\ relayed' = relayed \union {<<m, x>>}
  /\ UNCHANGED <<disk, mem, writing, answered>> /\ Users

\* The target answers an offer only for a device in its own book, which
\* stamped it.
VerifyPunchDelivery(t, m, fresh) == fresh /\ Knows(t, m)

\* handlePunchRelay at m, then handlePunchSignal at t.
HandlePunchRelay(m, t, x, signer, fresh) ==
  /\ Request /\ x # m /\ t # m
  /\ CheckAuth(m, x, signer, fresh) /\ VerifyPunchDelivery(t, m, TRUE)
  /\ answered' = answered \union {<<t, m, x>>}
  /\ UNCHANGED <<disk, mem, writing, relayed>> /\ Users

-----------------------------------------------------------------------------

TrustNext ==
  \/ \E m \in Machines :
       \/ EndSave(m) \/ Pair(m) \/ Unpair(m) \/ Restart(m)
       \/ \E x \in Devices :
            \/ \E cmd \in {"pair", "unpair"} : LoadBook(m, cmd, x)
            \/ Touch(m, x)
            \/ \E signer \in Devices, fresh \in BOOLEAN :
                 \/ HandleRelay(m, x, signer, fresh)
                 \/ \E t \in Machines : HandlePunchRelay(m, t, x, signer, fresh)

\* Whoever gets a relay was paired at that machine by somebody; a punch offer
\* is answered at the end of a chain of two pairings. Nothing the daemons
\* learn, and no order in which books are loaded and written, adds to this.
ServesPaired ==
  /\ \A r \in relayed : r[2] \in ever[r[1]]
  /\ \A a \in answered : a[2] \in ever[a[1]] /\ a[3] \in ever[a[2]]

\* "learning never creates trust" (Touch, node.go): a device that was
\* unpaired is not in the book.
LearningCreatesNoTrust ==
  \A m \in Machines :
    command[m] = NoCommand /\ writing[m] = {} /\ disk[m] # Torn => disk[m] \subseteq wanted[m]
=============================================================================
