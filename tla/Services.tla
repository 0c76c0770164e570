------------------------------ MODULE Services ------------------------------
(***************************************************************************)
(* What runs beside the syncing of histories: files that are sent          *)
(* (Transfer), connections punched through two NATs (Punch), relays and    *)
(* punch offers for paired devices (Trust), the daemons of one repository  *)
(* and who finds them (Daemons), those who watch one (Watch), the update   *)
(* of the binary (Install), ports opened in the router (Mapping). They     *)
(* share no state: a behaviour is about one of the seven, and the          *)
(* variables of the others stay as they are.                               *)
(***************************************************************************)
EXTENDS Transfer, Punch, Trust, Daemons, Watch, Install, Mapping

CONSTANT Tasks    \* which of the seven

VARIABLE task

vars == <<transferVars, punchVars, trustVars, daemonVars, watchVars, installVars, mappingVars, task>>

Init ==
  /\ task \in Tasks
  /\ TransferInit(task = "transfer")
  /\ PunchInit(task = "punch")
  /\ TrustInit(task = "trust")
  /\ DaemonsInit(task = "daemons")
  /\ WatchInit(task = "watch")
  /\ InstallInit(task = "install")
  /\ MappingInit(task = "mapping")

Transferring ==
  /\ task = "transfer" /\ TransferNext
  /\ UNCHANGED <<punchVars, trustVars, daemonVars, watchVars, installVars, mappingVars, task>>
Punching ==
  /\ task = "punch" /\ PunchNext
  /\ UNCHANGED <<transferVars, trustVars, daemonVars, watchVars, installVars, mappingVars, task>>
Trusting ==
  /\ task = "trust" /\ TrustNext
  /\ UNCHANGED <<transferVars, punchVars, daemonVars, watchVars, installVars, mappingVars, task>>
StartingAndStopping ==
  /\ task = "daemons" /\ DaemonsNext
  /\ UNCHANGED <<transferVars, punchVars, trustVars, watchVars, installVars, mappingVars, task>>
Watching ==
  /\ task = "watch" /\ WatchNext
  /\ UNCHANGED <<transferVars, punchVars, trustVars, daemonVars, installVars, mappingVars, task>>
Installing ==
  /\ task = "install" /\ InstallNext
  /\ UNCHANGED <<transferVars, punchVars, trustVars, daemonVars, watchVars, mappingVars, task>>

OpeningPorts ==
  /\ task = "mapping" /\ MappingNext
  /\ UNCHANGED <<transferVars, punchVars, trustVars, daemonVars, watchVars, installVars, task>>

Next == Transferring \/ Punching \/ Trusting \/ StartingAndStopping \/ Watching \/ Installing
        \/ OpeningPorts

\* The two ends of a send run on; nobody has to send, upload, punch, start,
\* watch or update.
Sending(s) ==
  /\ task = "transfer" /\ SendSteps(s)
  /\ UNCHANGED <<punchVars, trustVars, daemonVars, watchVars, installVars, mappingVars, task>>

Spec == Init /\ [][Next]_vars /\ \A s \in Sends : WF_vars(Sending(s))
=============================================================================
