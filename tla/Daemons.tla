------------------------------- MODULE Daemons -------------------------------
(***************************************************************************)
(* The daemons somebody starts in one repository (daemon.go: Run,          *)
(* controlLoop, Shutdown) and the panel that starts and stops them         *)
(* (internal/desktop). They have to share a port, a socket file that other *)
(* commands find the daemon by, and the panel's pid file.                  *)
(***************************************************************************)
EXTENDS Integers, FiniteSets

CONSTANTS Daemons,     \* processes that run lrm daemon
          Ports,       \* the ports they may be given
          MaxStarts    \* bound: daemons started and killed

VARIABLES proc,        \* proc[d]: where the process is
          port,        \* port[d]: the port it was given
          ctl,         \* ctl[d]: where its control loop is
          sock,        \* whose socket file there is; its owner may be gone
          pid,         \* the pid file
          panel,       \* what the panel waits for
          told,        \* the daemons the panel reported stopped
          met,         \* the daemons that ran while another did (a record)
          starts

daemonVars == <<proc, port, ctl, sock, pid, panel, told, met, starts>>

Nobody == "nobody"

DaemonsInit(busy) ==
  /\ proc = [d \in Daemons |-> "off"] /\ port \in [Daemons -> {CHOOSE p \in Ports : TRUE}]
  /\ ctl = [d \in Daemons |-> "none"]
  /\ sock = Nobody /\ pid = Nobody /\ panel = Nobody
  /\ told = {} /\ met = {}
  /\ starts = IF busy THEN 0 ELSE MaxStarts

Bounded    == starts < MaxStarts /\ starts' = starts + 1
Running(d) == proc[d] # "off"
Goto(d, p) == proc' = [proc EXCEPT ![d] = p]
Control(d, c) == ctl' = [ctl EXCEPT ![d] = c]
Panel   == <<pid, panel, told>>
Kept == <<port, met, starts>>

\* A connection to the socket file is taken.
Answers == sock # Nobody /\ ctl[sock] = "serve"

-----------------------------------------------------------------------------
(* A daemon.                                                                *)

Boot(d, p) ==
  LET others == {e \in Daemons \ {d} : Running(e)}
  IN  /\ Bounded /\ ~Running(d)
      /\ Goto(d, "boot") /\ port' = [port EXCEPT ![d] = p]
      /\ met' = (met \ {d}) \union (IF others = {} THEN {} ELSE others \union {d})

StartByHand(d, p) ==
  /\ Boot(d, p) /\ told' = told \ {d}
  /\ UNCHANGED <<ctl, sock, pid, panel>>

\* Run ends at once when the port is taken.
Listen(d) ==
  /\ proc[d] = "boot"
  /\ IF \E e \in Daemons : proc[e] \in {"up", "stop"} /\ port[e] = port[d]
     THEN Goto(d, "off") /\ UNCHANGED ctl
     ELSE Goto(d, "up") /\ Control(d, "probe")
  /\ UNCHANGED <<sock, Panel, Kept>>

\* controlLoop: a daemon that answers is not shadowed,
ProbeSocket(d) ==
  /\ ctl[d] = "probe" /\ Control(d, IF Answers THEN "refused" ELSE "clear")
  /\ UNCHANGED <<proc, sock, Panel, Kept>>

\* Mutant: the file a crashed daemon left is not removed.
ClearNothing(d) ==
  /\ ctl[d] = "clear" /\ Control(d, "bind")
  /\ UNCHANGED <<proc, sock, Panel, Kept>>

\* a file that nobody answers at is removed,
Clear(d) ==
  /\ ctl[d] = "clear" /\ Control(d, "bind") /\ sock' = Nobody
  /\ UNCHANGED <<proc, Panel, Kept>>

\* and the socket made, unless there is one again.
Bind(d) ==
  /\ ctl[d] = "bind"
  /\ IF sock = Nobody THEN Control(d, "serve") /\ sock' = d
                      ELSE Control(d, "refused") /\ UNCHANGED sock
  /\ UNCHANGED <<proc, Panel, Kept>>

\* Interrupted, or told so over the socket: the context is cancelled.
Stop(d) ==
  /\ proc[d] = "up" /\ Goto(d, "stop")
  /\ UNCHANGED <<ctl, sock, Panel, Kept>>

\* Shutdown closes the listener, then the control listener, which removes the
\* file, then removes the file. The control loop does its own closing.
Shutdown(d) ==
  /\ \/ proc[d] = "stop" /\ Goto(d, "closed") /\ UNCHANGED <<ctl, sock>>
     \/ /\ proc[d] = "closed" /\ Goto(d, "remove")
        /\ IF ctl[d] = "serve" THEN Control(d, "done") /\ sock' = Nobody
                               ELSE UNCHANGED <<ctl, sock>>
     \/ proc[d] = "remove" /\ Goto(d, "wait") /\ sock' = Nobody /\ UNCHANGED ctl
     \/ /\ proc[d] \in {"stop", "closed", "remove", "wait"} /\ ctl[d] = "serve"
        /\ Control(d, "done") /\ sock' = Nobody /\ UNCHANGED proc
     \/ /\ proc[d] = "wait" /\ ctl[d] \in {"done", "refused"}
        /\ Goto(d, "off") /\ Control(d, "none") /\ UNCHANGED sock
  /\ UNCHANGED <<Panel, Kept>>

Kill(d) ==
  /\ Bounded /\ Running(d)
  /\ Goto(d, "off") /\ Control(d, "none")
  /\ UNCHANGED <<port, sock, Panel, met>>

-----------------------------------------------------------------------------
(* The panel. It holds a lock while it starts or stops a daemon.            *)

\* daemonInfo: a pid file, and a process of that number.
DaemonInfo == pid # Nobody /\ Running(pid)

StartDaemon(d, p) ==
  /\ panel = Nobody /\ ~DaemonInfo
  /\ Boot(d, p) /\ told' = told \ {d}
  /\ pid' = d /\ panel' = d
  /\ UNCHANGED <<ctl, sock>>

\* The process has ended, or a little over a second has.
Started ==
  /\ panel # Nobody /\ panel' = Nobody
  /\ pid' = IF Running(panel) THEN pid ELSE Nobody
  /\ UNCHANGED <<proc, ctl, sock, told, Kept>>

\* The signal is sent and the pid file removed; what is then waited for is
\* that there be no pid file of a running process. A process that has not come
\* to catch signals is ended by it; one that is gone makes it fail.
StopDaemon ==
  /\ panel = Nobody /\ DaemonInfo
  /\ Goto(pid, CASE proc[pid] = "boot" -> "off" [] proc[pid] = "up" -> "stop"
                 [] OTHER -> proc[pid])
  /\ told' = told \union {pid} /\ pid' = Nobody
  /\ UNCHANGED <<ctl, sock, panel, Kept>>

-----------------------------------------------------------------------------

DaemonSteps(d) == Listen(d) \/ ProbeSocket(d) \/ Clear(d) \/ Bind(d) \/ Shutdown(d)

DaemonsNext ==
  \/ \E d \in Daemons :
       \/ \E p \in Ports : StartByHand(d, p) \/ StartDaemon(d, p)
       \/ DaemonSteps(d) \/ Stop(d) \/ Kill(d)
  \/ Started \/ StopDaemon

\* A daemon that never met another is not refused its socket, whatever crashed
\* ones left there, and once it serves there it is found there until it stops.
AloneAnswers ==
  \A d \in Daemons : proc[d] = "up" /\ d \notin met =>
    ctl[d] # "refused" /\ (ctl[d] = "serve" => sock = d)

\* "Refuse to shadow a live daemon" (controlLoop): who answers at the socket
\* is not made unreachable by another that starts or stops.
NotShadowed ==
  \A d \in Daemons : proc[d] = "up" /\ ctl[d] = "serve" => sock = d

\* "Wait for the port to actually close, not just for the signal to land"
\* (StopDaemon): a daemon that was reported stopped holds no port.
StoppedMeansStopped ==
  \A d \in told : proc[d] \notin {"up", "stop"}
=============================================================================
