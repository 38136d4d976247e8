----------------------------- MODULE Lifecycle -----------------------------
(***************************************************************************)
(* How a running server is replaced.  /restart and SIGHUP call             *)
(* RestartSystem, each on a goroutine of its own and without a lock: the   *)
(* current server builds its successor, hands it the listener or frees the *)
(* port for it, and the successor becomes the current one.  SIGTERM closes *)
(* the current server and ends the process.                                *)
(*                                                                         *)
(* Servers are numbered in the order they are built.  A caller goes        *)
(* through a list of steps, at[p] is the one it is at (0: none); a step    *)
(* that fails ends the job.  The helper, the desync server and the very    *)
(* first start are left out.  A definition named Mutant... is the one      *)
(* after it with a plausible fault in it; the specification does not use   *)
(* it.                                                                     *)
(***************************************************************************)
EXTENDS Naturals, Sequences, FiniteSets

CONSTANTS
    MaxServers,  \* bound: servers built
    MaxConns,    \* bound: connections (or packets) that arrive
    Callers,     \* goroutines that call RestartSystem
    Main,        \* the one that handles signals
    ServerModes  \* cfg.ServerMode: it never changes while the process runs

ASSUME BoundsAssumption  == MaxServers \in Nat \ {0} /\ MaxConns \in Nat
ASSUME CallersAssumption == Main \in Callers
ASSUME ModesAssumption   ==
    ServerModes \subseteq {"SOCKS5", "HTTP", "TPROXY", "REDIRECT", "NFQUEUE"}

VARIABLES
    mode,
    built,       \* servers built so far
    current,     \* APIServer.Server
    lsn,         \* the listener a server has: the number of the server that opened it
    open,        \* listeners that are open
    done,        \* servers whose done channel is closed, or that were shut down
    acc,         \* the accept loop of each server
    rules,       \* the firewall redirects traffic to UA3F
    job, at,     \* what each caller is doing, and at which step it is
    old, new,    \* of each caller: s and newServer
    saw,         \* of each caller: what its select has found
    waiting,     \* connections in the backlog of the listener
    arrived,
    stale,       \* connections a server accepted after it had been replaced
    overlapped,  \* two callers have been at work at once
    failed,      \* the last restart to end has failed
    process

servers == <<built, current, lsn, open, done, acc>>
callers == <<job, at, old, new, saw>>
conns   == <<waiting, arrived, stale>>
vars == <<mode, servers, rules, callers, conns, overlapped, failed, process>>

Servers    == 1..MaxServers
None       == 0
Inherits   == mode \in {"SOCKS5", "TPROXY", "REDIRECT"}   \* newServer.listener = s.listener
Firewalled == mode \in {"TPROXY", "REDIRECT", "NFQUEUE"}
AccStates  == {"none", "check", "accept", "gone"}
Steps      == {"build", "rule", "unrule", "start", "look", "shut", "hangup", "down",
               "assign", "exit"}

(* Restart of each server, down to the assignment in RestartSystem.  REDIRECT
   and NFQUEUE begin with Close, HTTP calls it when its successor is built. *)
MutantSOCKS5Restart == <<"build", "start", "assign">>
MutantTPROXYRestart == <<"build", "look", "shut", "rule", "start", "assign">>

SOCKS5Restart == <<"build", "start", "look", "shut", "assign">>
TPROXYRestart == <<"build", "rule", "start", "look", "shut", "assign">>
REDIRECTRestart == <<"unrule", "look", "shut", "hangup", "build", "rule", "start", "look", "shut",
                     "assign">>
HTTPRestart == <<"build", "down", "start", "assign">>
NFQUEUERestart == <<"unrule", "down", "build", "rule", "start", "assign">>

RestartSteps ==
    CASE mode = "SOCKS5"   -> SOCKS5Restart
      [] mode = "TPROXY"   -> TPROXYRestart
      [] mode = "REDIRECT" -> REDIRECTRestart
      [] mode = "HTTP"     -> HTTPRestart
      [] mode = "NFQUEUE"  -> NFQUEUERestart

(* Close of each server, and the end of the process. *)
SOCKS5Stop == <<"look", "shut", "hangup", "exit">>
TPROXYStop == <<"unrule", "look", "shut", "hangup", "exit">>
REDIRECTStop == <<"unrule", "look", "shut", "hangup", "exit">>
HTTPStop == <<"down", "exit">>
NFQUEUEStop == <<"unrule", "down", "exit">>

StopSteps ==
    CASE mode = "SOCKS5"   -> SOCKS5Stop
      [] mode = "TPROXY"   -> TPROXYStop
      [] mode = "REDIRECT" -> REDIRECTStop
      [] mode = "HTTP"     -> HTTPStop
      [] mode = "NFQUEUE"  -> NFQUEUEStop

Plan(p) == IF job[p] = "stop" THEN StopSteps ELSE RestartSteps

Idle == \A p \in Callers : at[p] = 0
Up   == process = "up"

(* runRoot has started the first server. *)
Init ==
    /\ mode \in ServerModes
    /\ built = 1 /\ current = 1
    /\ lsn = [s \in Servers |-> IF s = 1 THEN 1 ELSE None]
    /\ open = {1} /\ done = {}
    /\ acc = [s \in Servers |-> IF s # 1 THEN "none"
                                ELSE IF mode = "NFQUEUE" THEN "accept" ELSE "check"]
    /\ rules = Firewalled
    /\ job = [p \in Callers |-> "restart"] /\ at = [p \in Callers |-> 0]
    /\ old = [p \in Callers |-> 1] /\ new = [p \in Callers |-> 1]
    /\ saw = [p \in Callers |-> FALSE]
    /\ waiting = 0 /\ arrived = 0 /\ stale = [s \in Servers |-> 0]
    /\ overlapped = FALSE /\ failed = FALSE /\ process = "up"

-----------------------------------------------------------------------------
(* RestartSystem and CloseSystem. *)

Begin(p, task) ==
    /\ Up /\ at[p] = 0
    /\ job' = [job EXCEPT ![p] = task] /\ at' = [at EXCEPT ![p] = 1]
    /\ old' = [old EXCEPT ![p] = current]
    /\ overlapped' = (overlapped \/ ~Idle)
    /\ UNCHANGED <<mode, servers, rules, new, saw, conns, failed, process>>

Restart(p) == built < MaxServers /\ Begin(p, "restart")
Stop       == Begin(Main, "stop")

Doing(p, step) == Up /\ at[p] # 0 /\ Plan(p)[at[p]] = step
Proceed(p) == at' = [at EXCEPT ![p] = @ + 1] /\ UNCHANGED failed
Abort(p)   == at' = [at EXCEPT ![p] = 0] /\ failed' = TRUE

(* A panic ends the process, unless it is in the handler of /restart, where
   the Recoverer of the API catches it.                                    *)
Panic(p) ==
    /\ Abort(p)
    /\ process' = IF p = Main THEN "crashed" ELSE process

(* rewrite.New, mitm.NewMiddleMan and New. *)
Build(p) ==
    /\ Doing(p, "build")
    /\ \/ /\ built < MaxServers
          /\ built' = built + 1 /\ new' = [new EXCEPT ![p] = built + 1]
          /\ lsn' = [lsn EXCEPT ![built + 1] = IF Inherits THEN lsn[old[p]] ELSE None]
          /\ Proceed(p)
       \/ Abort(p) /\ UNCHANGED <<built, new, lsn>>
    /\ UNCHANGED <<mode, current, open, done, acc, rules, job, old, saw, conns, overlapped, process>>

(* Firewall.Setup cleans up when it fails; Firewall.Cleanup. *)
Rule(p) ==
    /\ Doing(p, "rule")
    /\ \/ rules' = TRUE /\ Proceed(p)
       \/ rules' = FALSE /\ Abort(p)
    /\ UNCHANGED <<mode, servers, job, old, new, saw, conns, overlapped, process>>
Unrule(p) ==
    /\ Doing(p, "unrule") /\ rules' = FALSE /\ Proceed(p)
    /\ UNCHANGED <<mode, servers, job, old, new, saw, conns, overlapped, process>>

(* Start of the new server, whose port must be free if it has to listen. *)
Start(p) ==
    /\ Doing(p, "start")
    /\ \/ /\ Inherits \/ open = {}
          /\ acc' = [acc EXCEPT ![new[p]] = IF mode = "NFQUEUE" THEN "accept" ELSE "check"]
          /\ IF Inherits THEN UNCHANGED <<lsn, open>>
             ELSE lsn' = [lsn EXCEPT ![new[p]] = new[p]] /\ open' = {new[p]}
          /\ Proceed(p)
       \/ ~Inherits /\ Abort(p) /\ UNCHANGED <<lsn, open, acc>>
    /\ UNCHANGED <<mode, built, current, done, rules, job, old, new, saw, conns, overlapped, process>>

(* Closing done: a select finds it open, then it is closed. *)
Look(p) ==
    /\ Doing(p, "look")
    /\ saw' = [saw EXCEPT ![p] = old[p] \in done]
    /\ Proceed(p)
    /\ UNCHANGED <<mode, servers, rules, job, old, new, conns, overlapped, process>>
MutantShut(p) ==
    /\ Doing(p, "shut")
    /\ IF old[p] \in done THEN Panic(p) /\ UNCHANGED done
       ELSE done' = done \cup {old[p]} /\ Proceed(p) /\ UNCHANGED process
    /\ UNCHANGED <<mode, built, current, lsn, open, acc, rules, job, old, new, saw, conns, overlapped>>
Shut(p) ==
    /\ Doing(p, "shut")
    /\ IF saw[p] THEN Proceed(p) /\ UNCHANGED <<done, process>>
       ELSE IF old[p] \in done THEN Panic(p) /\ UNCHANGED done
       ELSE done' = done \cup {old[p]} /\ Proceed(p) /\ UNCHANGED process
    /\ UNCHANGED <<mode, built, current, lsn, open, acc, rules, job, old, new, saw, conns, overlapped>>

Closing(l) == open' = open \ {l} /\ waiting' = IF l \in open THEN 0 ELSE waiting

(* listener.Close, at the end of Close.  CloseSystem ignores its error. *)
Hangup(p) ==
    /\ Doing(p, "hangup")
    /\ Closing(lsn[old[p]])
    /\ IF job[p] = "stop" \/ lsn[old[p]] \in open THEN Proceed(p) ELSE Abort(p)
    /\ UNCHANGED <<mode, built, current, lsn, done, acc, rules, job, old, new, saw, arrived, stale,
                   overlapped, process>>

(* http.Server.Shutdown closes the listeners that Serve has registered;
   NfqueueServer.Close closes channels, which works once.                  *)
Down(p) ==
    /\ Doing(p, "down")
    /\ IF mode = "NFQUEUE" /\ old[p] \in done
       THEN Panic(p) /\ UNCHANGED <<done, acc, open, waiting>>
       ELSE /\ done' = done \cup {old[p]}
            /\ IF acc[old[p]] = "accept" THEN Closing(lsn[old[p]]) ELSE UNCHANGED <<open, waiting>>
            /\ acc' = IF mode = "NFQUEUE" THEN [acc EXCEPT ![old[p]] = "gone"] ELSE acc
            /\ Proceed(p) /\ UNCHANGED process
    /\ UNCHANGED <<mode, built, current, lsn, rules, job, old, new, saw, arrived, stale, overlapped>>

Assign(p) ==
    /\ Doing(p, "assign")
    /\ current' = new[p]
    /\ at' = [at EXCEPT ![p] = 0] /\ failed' = FALSE
    /\ UNCHANGED <<mode, built, lsn, open, done, acc, rules, job, old, new, saw, conns,
                   overlapped, process>>

Exit ==
    /\ Doing(Main, "exit")
    /\ process' = "exited"
    /\ UNCHANGED <<mode, servers, rules, callers, conns, overlapped, failed>>

-----------------------------------------------------------------------------
(* The accept loops, one goroutine per server, and the clients. *)

(* Is done closed?  Serve asks this only once, before it registers its
   listener, which it closes itself if it has been shut down.              *)
MutantAcceptCheck(s) ==
    /\ Up /\ acc[s] = "check"
    /\ acc' = [acc EXCEPT ![s] = "accept"]
    /\ UNCHANGED <<mode, built, current, lsn, open, done, rules, callers, conns,
                   overlapped, failed, process>>
AcceptCheck(s) ==
    /\ Up /\ acc[s] = "check"
    /\ acc' = [acc EXCEPT ![s] = IF s \in done THEN "gone" ELSE "accept"]
    /\ IF s \in done /\ ~Inherits THEN Closing(lsn[s]) ELSE UNCHANGED <<open, waiting>>
    /\ UNCHANGED <<mode, built, current, lsn, done, rules, callers, arrived, stale,
                   overlapped, failed, process>>

Loops(s) == acc' = [acc EXCEPT ![s] = IF Inherits THEN "check" ELSE "accept"]

Accept(s) ==
    /\ Up /\ acc[s] = "accept" /\ lsn[s] \in open /\ waiting > 0
    /\ waiting' = waiting - 1
    /\ stale' = IF s \in done THEN [stale EXCEPT ![s] = @ + 1] ELSE stale
    /\ Loops(s)
    /\ UNCHANGED <<mode, built, current, lsn, open, done, rules, callers, arrived,
                   overlapped, failed, process>>

(* EMFILE, or another error that passes. *)
AcceptFails(s) ==
    /\ Up /\ acc[s] = "accept" /\ lsn[s] \in open /\ waiting > 0
    /\ Loops(s)
    /\ UNCHANGED <<mode, built, current, lsn, open, done, rules, callers, conns,
                   overlapped, failed, process>>

MutantAcceptClosed(s) ==
    /\ Up /\ acc[s] = "accept"
    /\ acc' = [acc EXCEPT ![s] = "gone"]
    /\ UNCHANGED <<mode, built, current, lsn, open, done, rules, callers, conns,
                   overlapped, failed, process>>
AcceptClosed(s) ==
    /\ Up /\ acc[s] = "accept" /\ lsn[s] \notin open
    /\ acc' = [acc EXCEPT ![s] = "gone"]
    /\ UNCHANGED <<mode, built, current, lsn, open, done, rules, callers, conns,
                   overlapped, failed, process>>

Arrive ==
    /\ Up /\ open # {} /\ arrived < MaxConns
    /\ arrived' = arrived + 1 /\ waiting' = waiting + 1
    /\ UNCHANGED <<mode, servers, rules, callers, stale, overlapped, failed, process>>

-----------------------------------------------------------------------------
Step(p) == \/ Build(p) \/ Rule(p) \/ Unrule(p) \/ Start(p) \/ Look(p) \/ Shut(p)
           \/ Hangup(p) \/ Down(p) \/ Assign(p)
Loop(s) == AcceptCheck(s) \/ Accept(s) \/ AcceptClosed(s)
Next ==
    \/ Stop \/ Exit \/ Arrive
    \/ \E p \in Callers : Restart(p) \/ Step(p)
    \/ \E s \in Servers : Loop(s) \/ AcceptFails(s)

Spec == Init /\ [][Next]_vars

(* A goroutine that can run does, and errors of Accept do not go on for ever.
   Nobody has to restart or stop the process.                              *)
FairSpec ==
    /\ Spec /\ WF_vars(Exit)
    /\ \A p \in Callers : WF_vars(Step(p))
    /\ \A s \in Servers : WF_vars(Loop(s)) /\ SF_vars(Accept(s))

-----------------------------------------------------------------------------
(* The types; a server whose accept loop was started has a listener. *)
TypeOK ==
    /\ mode \in ServerModes
    /\ built \in Servers /\ current \in 1..built
    /\ lsn \in [Servers -> 0..MaxServers] /\ open \subseteq Servers
    /\ done \subseteq 1..built
    /\ acc \in [Servers -> AccStates]
    /\ rules \in BOOLEAN
    /\ job \in [Callers -> {"restart", "stop"}]
    /\ at \in [Callers -> Nat] /\ \A p \in Callers : at[p] <= Len(Plan(p))
    /\ old \in [Callers -> 1..built] /\ new \in [Callers -> 1..built]
    /\ saw \in [Callers -> BOOLEAN]
    /\ waiting \in 0..MaxConns /\ arrived \in 0..MaxConns
    /\ stale \in [Servers -> 0..MaxConns]
    /\ \A s \in Servers : acc[s] # "none" => lsn[s] # None
    /\ overlapped \in BOOLEAN /\ failed \in BOOLEAN
    /\ process \in {"up", "exited", "crashed"}

(* A replaced server, still blocked in Accept, serves at most one connection
   with its old configuration, however restarts and connections interleave. *)
StaleServesOne == \A s \in Servers : stale[s] <= 1

(* The server accepts connections, and was not told to stop. *)
Live(s) == acc[s] \in {"check", "accept"} /\ s \notin done /\ lsn[s] \in open

Stopping == at[Main] # 0 /\ job[Main] = "stop"

(* SOCKS5 and TPROXY hand the listener over without a gap: whatever step of
   a restart fails and however restarts overlap, a server accepts.         *)
NeverUnserved ==
    mode \in {"SOCKS5", "TPROXY"} /\ Up /\ ~Stopping => \E s \in Servers : Live(s)

(* After restarts that did not overlap, if the last one was successful, the
   current server serves and no other; the traffic is redirected to it.    *)
Served == {s \in Servers : Live(s)} = {current} /\ rules = Firewalled
AtRest == Up /\ Idle /\ ~overlapped /\ ~failed
ServedByCurrent == mode # "REDIRECT" /\ AtRest => Served

(* A restart that succeeds leaves a server that serves. *)
RestartServes == AtRest => Served

(* The process dies of a panic only when a restart overlaps with another, or
   after a failed restart has left NFQUEUE with a closed server.           *)
PanicHasCause ==
    [][process' = "crashed" => overlapped \/ (mode = "NFQUEUE" /\ failed)]_vars

(* A connection in the backlog is accepted, or reset by a close. *)
ConnectionsServed == waiting > 0 ~> waiting = 0 \/ ~Up
=============================================================================
