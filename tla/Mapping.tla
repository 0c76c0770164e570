------------------------------- MODULE Mapping -------------------------------
(***************************************************************************)
(* Ports that a router forwards to machines of its network: lrm share asks *)
(* for one and puts it into a key, a daemon asks, renews the lease every   *)
(* half hour and takes the mapping away when it stops (daemon.go, upnp,    *)
(* natpmp). All of them listen on the same default port. The router keeps  *)
(* one table for UPnP, where a port is asked for and anybody may delete    *)
(* it, and for NAT-PMP, where the router may choose another port.          *)
(***************************************************************************)
EXTENDS Integers, FiniteSets

CONSTANTS Hosts,         \* machines, each with a daemon
          WanPorts,      \* external ports
          LocalPort,     \* the port everybody listens on, and asks for
          MaxHalfHours,  \* bound: time that passes
          MaxFaults      \* bound: answers lost, crashes, reboots of the router

ASSUME LocalPortAssumption == LocalPort \in WanPorts
ASSUME WanPortsAssumption == WanPorts \subseteq Nat \ {0}

VARIABLES forwards,      \* forwards[p]: Closed, or whose, how, for how long, and
                         \* whether its daemon was told (a record)
          life,          \* life[h]: the daemon
          mapper,        \* mapper[h]: where tryMapPorts is; it holds mapMu
          refresher,     \* refresher[h]: the loop that renews
          upnpMapped, natMappedPort,
          last,          \* last[h]: the port the last try got, until somebody
                         \* else takes it away (a record); 0 for none
          key,           \* key[h]: the port in the key of lrm share, or 0
          halfHours, faults

mappingVars == <<forwards, life, mapper, refresher, upnpMapped, natMappedPort,
                 last, key, halfHours, faults>>

Lease  == 2              \* an hour, in half hours
Closed == [to |-> "nobody", by |-> "none", left |-> 0, known |-> FALSE]

MappingInit(busy) ==
  /\ forwards = [p \in WanPorts |-> Closed]
  /\ life = [h \in Hosts |-> "off"] /\ mapper = [h \in Hosts |-> "none"]
  /\ refresher = [h \in Hosts |-> "gone"]
  /\ upnpMapped = [h \in Hosts |-> FALSE] /\ natMappedPort = [h \in Hosts |-> 0]
  /\ last = [h \in Hosts |-> 0] /\ key = [h \in Hosts |-> 0]
  /\ halfHours = IF busy THEN 0 ELSE MaxHalfHours
  /\ faults = IF busy THEN 0 ELSE MaxFaults

Fault == faults < MaxFaults /\ faults' = faults + 1
NoFault == UNCHANGED faults
Time == <<halfHours>>

-----------------------------------------------------------------------------
(* The router.                                                              *)

Own(h, p)  == forwards[p].to = h
Entry(h, p, by, known) ==
  [to |-> h, by |-> by, left |-> Lease, known |-> known \/ (Own(h, p) /\ forwards[p].known)]

\* AddPortMapping: the port that is asked for, unless another has it.
Grantable(h) == {LocalPort} \cap {p \in WanPorts : forwards[p] = Closed \/ Own(h, p)}

\* NAT-PMP: the port this client has, or the one it asks for, or any.
Offers(h) ==
  LET pmp  == {p \in WanPorts : Own(h, p) /\ forwards[p].by = "pmp"}
      free == {p \in WanPorts : forwards[p] = Closed}
  IN  IF pmp # {} THEN pmp ELSE IF Grantable(h) # {} THEN Grantable(h) ELSE free

-----------------------------------------------------------------------------
(* The daemon's tryMapPorts.                                                *)

MapDone(h) ==
  /\ mapper' = [mapper EXCEPT ![h] = "none"]
  /\ life' = [life EXCEPT ![h] = IF @ = "start" THEN "up" ELSE @]
  /\ refresher' = [refresher EXCEPT ![h] = IF @ = "busy" THEN "wait" ELSE @]

\* What is opened once the daemon has taken its mappings away is not known to
\* it any more.
MapUPnP(h) ==
  /\ mapper[h] = "upnp"
  /\ \/ \E p \in Grantable(h) :
          /\ forwards' = [forwards EXCEPT ![p] = Entry(h, p, "upnp", life[h] # "closed")]
          /\ upnpMapped' = [upnpMapped EXCEPT ![h] = TRUE]
          /\ last' = [last EXCEPT ![h] = p]
          /\ MapDone(h) /\ NoFault
     \/ /\ IF Grantable(h) = {} THEN NoFault ELSE Fault
        /\ forwards' \in {forwards} \union
             {[forwards EXCEPT ![p] = Entry(h, p, "upnp", FALSE)] : p \in Grantable(h)}
        /\ mapper' = [mapper EXCEPT ![h] = "pmp"]
        /\ UNCHANGED <<upnpMapped, last, life, refresher>>
  /\ UNCHANGED <<natMappedPort, key, Time>>

MapTCP(h) ==
  /\ mapper[h] = "pmp"
  /\ \/ \E p \in Offers(h) :
          /\ forwards' = [forwards EXCEPT ![p] = Entry(h, p, "pmp", life[h] # "closed")]
          /\ natMappedPort' = [natMappedPort EXCEPT ![h] = p]
          /\ last' = [last EXCEPT ![h] = p] /\ NoFault
     \/ /\ IF Offers(h) = {} THEN NoFault ELSE Fault
        /\ forwards' \in {forwards} \union
             {[forwards EXCEPT ![p] = Entry(h, p, "pmp", FALSE)] : p \in Offers(h)}
        /\ last' = [last EXCEPT ![h] = 0] /\ UNCHANGED natMappedPort
  /\ MapDone(h)
  /\ UNCHANGED <<upnpMapped, key, Time>>

\* Run: the loops first, then the router.
RunDaemon(h) ==
  /\ life[h] = "off" /\ halfHours < MaxHalfHours
  /\ life' = [life EXCEPT ![h] = "start"]
  /\ mapper' = [mapper EXCEPT ![h] = "upnp"]
  /\ refresher' = [refresher EXCEPT ![h] = "wait"]
  /\ upnpMapped' = [upnpMapped EXCEPT ![h] = FALSE]
  /\ natMappedPort' = [natMappedPort EXCEPT ![h] = 0]
  /\ UNCHANGED <<forwards, last, key, Time>> /\ NoFault

Refresh(h) ==
  /\ refresher[h] = "fired" /\ mapper[h] = "none"
  /\ mapper' = [mapper EXCEPT ![h] = "upnp"]
  /\ refresher' = [refresher EXCEPT ![h] = "busy"]
  /\ UNCHANGED <<forwards, life, upnpMapped, natMappedPort, last, key, Time>> /\ NoFault

\* The loop sees that the context is done; with a tick waiting too, Go picks
\* either.
RefreshEnds(h) ==
  /\ life[h] \in {"stop", "closed"} /\ refresher[h] = "wait"
  /\ refresher' = [refresher EXCEPT ![h] = "gone"]
  /\ UNCHANGED <<forwards, life, mapper, upnpMapped, natMappedPort, last, key, Time>> /\ NoFault

Interrupt(h) ==
  /\ life[h] = "up" /\ life' = [life EXCEPT ![h] = "stop"]
  /\ UNCHANGED <<forwards, mapper, refresher, upnpMapped, natMappedPort, last, key, Time>>
  /\ NoFault

\* What the two deletions ask for: whatever the local port forwards to, and
\* this machine's own mapping.
UPnPDeletes(h) == {p \in {LocalPort} : upnpMapped[h] /\ forwards[p] # Closed}
PMPDeletes(h)  == {p \in {natMappedPort[h]} \ {0} : Own(h, p)}
Takes(h, asked, gone) ==
  /\ forwards' = [p \in WanPorts |->
       IF p \in gone THEN Closed
       ELSE IF p \in asked THEN [forwards[p] EXCEPT !.known = FALSE] ELSE forwards[p]]
  /\ last' = [g \in Hosts |-> IF g = h \/ last[g] \in gone THEN 0 ELSE last[g]]
  /\ life' = [life EXCEPT ![h] = "closed"]
  /\ upnpMapped' = [upnpMapped EXCEPT ![h] = FALSE]
  /\ natMappedPort' = [natMappedPort EXCEPT ![h] = 0]
  /\ UNCHANGED <<mapper, refresher, key, Time>>

\* Mutant: one mapping is taken away, the one of the kind that was tried first.
UnmapOne(h) ==
  LET all == IF UPnPDeletes(h) # {} THEN UPnPDeletes(h) ELSE PMPDeletes(h)
  IN  life[h] = "stop" /\ mapper[h] = "none" /\ Takes(h, all, all) /\ NoFault

\* unmapPorts, in Shutdown. Nobody looks whether the router did it.
UnmapPorts(h) ==
  LET all == UPnPDeletes(h) \union PMPDeletes(h)
  IN  /\ life[h] = "stop" /\ mapper[h] = "none"
      /\ \/ Takes(h, all, all) /\ NoFault
         \/ \E some \in (SUBSET all) \ {all} : Takes(h, all, some) /\ Fault

Exit(h) ==
  /\ life[h] = "closed" /\ refresher[h] = "gone"
  /\ life' = [life EXCEPT ![h] = "off"]
  /\ UNCHANGED <<forwards, mapper, refresher, upnpMapped, natMappedPort, last, key, Time>>
  /\ NoFault

\* The process is killed: its mappings stay until the leases end.
Killed(h) ==
  /\ life[h] \in {"start", "up", "stop"} /\ Fault
  /\ forwards' = [p \in WanPorts |-> IF Own(h, p) THEN [forwards[p] EXCEPT !.known = FALSE]
                                                 ELSE forwards[p]]
  /\ life' = [life EXCEPT ![h] = "off"] /\ mapper' = [mapper EXCEPT ![h] = "none"]
  /\ refresher' = [refresher EXCEPT ![h] = "gone"] /\ last' = [last EXCEPT ![h] = 0]
  /\ UNCHANGED <<upnpMapped, natMappedPort, key, Time>>

-----------------------------------------------------------------------------
(* lrm share, the router, time.                                             *)

\* The same two questions; the port that was got goes into the key, the local
\* one when there is none, and the process ends. Bound: one key is made.
Share(h) ==
  /\ \A g \in Hosts : key[g] = 0
  /\ halfHours < MaxHalfHours
  /\ \/ \E p \in Grantable(h) :
          /\ forwards' = [forwards EXCEPT ![p] = Entry(h, p, "upnp", FALSE)]
          /\ key' = [key EXCEPT ![h] = p] /\ NoFault
     \/ /\ IF Grantable(h) = {} THEN NoFault ELSE Fault
        /\ \E p \in Offers(h) :
             /\ forwards' = [forwards EXCEPT ![p] = Entry(h, p, "pmp", FALSE)]
             /\ key' = [key EXCEPT ![h] = p]
     \/ /\ Grantable(h) = {} /\ Offers(h) = {} /\ NoFault
        /\ key' = [key EXCEPT ![h] = LocalPort] /\ UNCHANGED forwards
  /\ UNCHANGED <<life, mapper, refresher, upnpMapped, natMappedPort, last, Time>>

Reboot ==
  /\ Fault
  /\ forwards' = [p \in WanPorts |-> Closed] /\ last' = [h \in Hosts |-> 0]
  /\ UNCHANGED <<life, mapper, refresher, upnpMapped, natMappedPort, key, Time>>

\* Half an hour is long: what is under way ends before, and every daemon's
\* ticker fires once.
HalfHour ==
  /\ halfHours < MaxHalfHours /\ halfHours' = halfHours + 1
  /\ \A h \in Hosts : mapper[h] = "none" /\ refresher[h] \in {"wait", "gone"}
                                       /\ life[h] \in {"off", "up", "stop"}
  /\ forwards' = [p \in WanPorts |->
       IF forwards[p].left <= 1 THEN Closed ELSE [forwards[p] EXCEPT !.left = @ - 1]]
  /\ refresher' = [h \in Hosts |-> IF refresher[h] = "wait" THEN "fired" ELSE "gone"]
  /\ UNCHANGED <<life, mapper, upnpMapped, natMappedPort, last, key>> /\ NoFault

MappingNext ==
  \/ \E h \in Hosts : \/ RunDaemon(h) \/ MapUPnP(h) \/ MapTCP(h) \/ Refresh(h)
                       \/ RefreshEnds(h) \/ Interrupt(h) \/ UnmapPorts(h) \/ Exit(h)
                       \/ Killed(h) \/ Share(h)
  \/ Reboot \/ HalfHour

-----------------------------------------------------------------------------

\* "tear down opened ports" (WAN_PORTKEY_SPEC.md, unmapPorts): a daemon that
\* stopped leaves no port open that it was told of before it took its mappings
\* away, whichever of the two protocols gave it, at whichever renewal, and
\* unless the router did not do as it was asked.
TornDown ==
  \A h \in Hosts, p \in WanPorts : life[h] = "off" => ~(Own(h, p) /\ forwards[p].known)

\* "Leases are also renewed every 30 min while the daemon runs": the port the
\* last try got stays open as long as nobody else takes it away.
LeaseKept ==
  \A h \in Hosts : life[h] = "up" /\ last[h] # 0 => Own(h, last[h])

RouterAgrees == TornDown /\ LeaseKept

\* "Mappings auto-expire; run `lrm daemon` to keep them renewed" (lrm share): a
\* key that was good while the machine's daemon runs stays good, at least when
\* nothing fails.
KeyKept ==
  [][\A h \in Hosts :
       key[h] # 0 /\ Own(h, key[h]) /\ life[h] = "up" /\ life'[h] = "up" /\ faults' = 0
         => Own(h, key[h])']_mappingVars

\* "tear down opened ports": those that were opened by this daemon, no other's.
OwnOnly ==
  [][\A g, h \in Hosts, p \in WanPorts :
       g # h /\ Own(g, p) /\ life[h] = "stop" /\ life'[h] = "closed" => Own(g, p)']_mappingVars
=============================================================================
