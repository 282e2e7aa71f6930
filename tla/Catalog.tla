------------------------------- MODULE Catalog -------------------------------
(* The MCP manager and one server (mcp/mcp.go): the session, the tools it has  *)
(* registered, the server's list-change notifications, the refresh that        *)
(* follows them and the user's commands.  Manager.mu is held for a whole       *)
(* startLocked, and released while a refresh or a ping waits for the server.   *)
EXTENDS Integers, FiniteSets

CONSTANTS
    MaxCatalog,    \* bound: changes of the server's tool list
    MaxCommands,   \* bound: commands of the user
    MaxFailures,   \* bound: requests to the server that fail
    Commands       \* the commands the user gives, "reenable" when a ping had failed,
                   \* "readd" when the name was in use before

ASSUME BoundsAssumption == {MaxCatalog, MaxCommands, MaxFailures} \subseteq Nat

VARIABLES
    srv,      \* serverState and the server's entries in the tool registry
    remote,   \* the server: its tool list, numbered, and the connections open to it
    notices,  \* notifications handed to a goroutine, by the generation they carry
    workers,  \* runToolRefresh goroutines
    cmd,      \* the user's command under way
    used      \* what the bounds count
vars == <<srv, remote, notices, workers, cmd, used>>

None == 0                        \* no session, and no tools registered
Generation == 1..(2 * MaxCommands)   \* a command counts at most two
Slot == 1..(MaxCatalog + 1)      \* bound: goroutines at once; never reached, as a
                                 \* change makes one at most

Absent == [known |-> FALSE, gen |-> 0, session |-> None, status |-> "removed",
           tools |-> None, pending |-> FALSE, version |-> 0, error |-> FALSE,
           running |-> FALSE, again |-> FALSE]
NoCommand == [op |-> "none", step |-> "none", session |-> None, version |-> 0,
              gen |-> 0, got |-> None]
Idle == [step |-> "idle", gen |-> 0, session |-> None, version |-> 0, got |-> None]

Init ==
    /\ srv \in {Absent, [Absent EXCEPT !.known = TRUE, !.status = "disabled"]}
    /\ remote = [catalog |-> 1, links |-> {}, dialed |-> 0]
    /\ notices = [g \in Generation |-> 0]
    /\ workers = [s \in Slot |-> Idle]
    /\ cmd = NoCommand /\ used = [commands |-> 0, failures |-> 0]

Locked == cmd.op = "start"
Fails == used.failures < MaxFailures /\ used' = [used EXCEPT !.failures = @ + 1]

(*                                 The server                                *)
(* A change notifies every open connection; the handler of each starts a       *)
(* goroutine that carries the generation its connection was dialed in.         *)
Told(gen) == Cardinality({l \in remote.links : l.gen = gen})
Change ==
    /\ remote.catalog <= MaxCatalog
    /\ remote' = [remote EXCEPT !.catalog = @ + 1]
    /\ notices' = [g \in Generation |-> notices[g] + Told(g)]
    /\ UNCHANGED <<srv, workers, cmd, used>>

Open(session) == \E l \in remote.links : l.id = session
Closed(session) == {l \in remote.links : l.id # session}

(*                            The user's commands                            *)
Given(op) ==
    /\ op \in Commands /\ cmd = NoCommand /\ used.commands < MaxCommands
    /\ used' = [used EXCEPT !.commands = @ + 1]

Stopped(s) ==
    [Absent EXCEPT !.known = s.known, !.gen = s.gen + 1, !.status = s.status]
Resetting(s) ==
    [s EXCEPT !.gen = @ + 1, !.pending = FALSE, !.version = 0, !.error = FALSE,
              !.running = FALSE, !.again = FALSE]

(* startLocked from a state that stopLocked prepared, or that it did not: dial *)
(* and take the lock to the end.                                               *)
Start(s) ==
    /\ srv' = Resetting(s)
    /\ cmd' = [NoCommand EXCEPT !.op = "start", !.step = "dial"]
    /\ UNCHANGED <<notices, workers>>

Reconnect ==
    /\ Given("reconnect") /\ srv.known /\ srv.status # "disabled"
    /\ remote' = [remote EXCEPT !.links = Closed(srv.session)]
    /\ Start(Stopped(srv))
Enable ==
    /\ srv.known /\ srv.status # "connected"
    /\ Given(IF srv.session = None THEN "enable" ELSE "reenable")
    /\ UNCHANGED remote /\ Start(srv)
Disable ==
    /\ Given("disable") /\ srv.known
    /\ srv' = [Stopped(srv) EXCEPT !.status = "disabled"]
    /\ remote' = [remote EXCEPT !.links = Closed(srv.session)]
    /\ UNCHANGED <<notices, workers, cmd>>
Remove ==
    /\ Given("remove") /\ srv.known
    /\ srv' = Absent /\ remote' = [remote EXCEPT !.links = Closed(srv.session)]
    /\ UNCHANGED <<notices, workers, cmd>>
Add ==
    /\ Given(IF remote.dialed = 0 THEN "add" ELSE "readd") /\ ~srv.known
    /\ UNCHANGED remote /\ Start([Absent EXCEPT !.known = TRUE, !.status = "added"])

(* A failed start keeps what startLocked did not touch; a failed Add forgets   *)
(* the server.                                                                 *)
StartFailed ==
    IF srv.status = "added" THEN Absent ELSE [srv EXCEPT !.status = "error"]
Dial ==
    /\ Locked /\ cmd.step = "dial"
    /\ \/ /\ remote' = [remote EXCEPT !.dialed = @ + 1,
                           !.links = @ \cup {[id |-> remote.dialed + 1, gen |-> srv.gen]}]
          /\ cmd' = [cmd EXCEPT !.step = "list", !.session = remote.dialed + 1]
          /\ UNCHANGED <<srv, used>>
       \/ /\ Fails /\ srv' = StartFailed /\ cmd' = NoCommand /\ UNCHANGED remote
    /\ UNCHANGED <<notices, workers>>
\* mutant of FirstList
FirstListLeaks ==
    /\ Locked /\ cmd.step = "list"
    /\ \/ /\ cmd' = [cmd EXCEPT !.step = "register", !.got = remote.catalog]
          /\ UNCHANGED <<srv, used>>
       \/ Fails /\ srv' = StartFailed /\ cmd' = NoCommand
    /\ UNCHANGED <<remote, notices, workers>>
FirstList ==
    /\ Locked /\ cmd.step = "list"
    /\ \/ /\ cmd' = [cmd EXCEPT !.step = "register", !.got = remote.catalog]
          /\ UNCHANGED <<srv, remote, used>>
       \/ /\ Fails /\ srv' = StartFailed /\ cmd' = NoCommand
          /\ remote' = [remote EXCEPT !.links = Closed(cmd.session)]
    /\ UNCHANGED <<notices, workers>>
Register ==
    /\ Locked /\ cmd.step = "register"
    /\ srv' = [srv EXCEPT !.session = cmd.session, !.status = "connected", !.tools = cmd.got]
    /\ cmd' = NoCommand
    /\ UNCHANGED <<remote, notices, workers, used>>

(* Ping: any answer heals the status, a failure keeps the session and its      *)
(* tools.                                                                      *)
Ping ==
    /\ Given("ping") /\ srv.session # None
    /\ cmd' = [NoCommand EXCEPT !.op = "ping", !.session = srv.session]
    /\ UNCHANGED <<srv, remote, notices, workers>>
Pinged ==
    /\ cmd.op = "ping" /\ cmd' = NoCommand
    /\ \/ /\ srv' = IF srv.session = cmd.session THEN [srv EXCEPT !.status = "connected"] ELSE srv
          /\ UNCHANGED used
       \/ Fails /\ srv' = [srv EXCEPT !.status = "error"]
    /\ UNCHANGED <<remote, notices, workers>>

(*                                The refresh                                *)
(* catalogChanged: a notification of the current connection marks the list     *)
(* pending and starts a refresh, or asks the running one to go round again.    *)
Heading(gen) == [Idle EXCEPT !.step = "head", !.gen = gen]
Room == \E s \in Slot : workers[s] = Idle
Launched(gen) ==
    LET slot == CHOOSE s \in Slot : workers[s] = Idle
    IN  [workers EXCEPT ![slot] = Heading(gen)]
\* mutant of CatalogChanged
CatalogChangedOnce(g) ==
    /\ ~Locked /\ notices[g] > 0
    /\ notices' = [notices EXCEPT ![g] = @ - 1]
    /\ IF ~srv.known \/ srv.gen # g \/ srv.session = None
       THEN UNCHANGED <<srv, workers>>
       ELSE /\ srv' = [srv EXCEPT !.pending = TRUE, !.version = @ + 1, !.running = TRUE]
            /\ workers' = IF srv.running THEN workers ELSE Launched(g)
    /\ UNCHANGED <<remote, cmd, used>>
CatalogChanged(g) ==
    /\ ~Locked /\ notices[g] > 0
    /\ notices' = [notices EXCEPT ![g] = @ - 1]
    /\ IF ~srv.known \/ srv.gen # g \/ srv.session = None
       THEN UNCHANGED <<srv, workers>>
       ELSE LET marked == [srv EXCEPT !.pending = TRUE, !.version = @ + 1]
            IN  IF srv.running
                THEN srv' = [marked EXCEPT !.again = TRUE] /\ UNCHANGED workers
                ELSE /\ Room /\ workers' = Launched(g)
                     /\ srv' = [marked EXCEPT !.running = TRUE]
    /\ UNCHANGED <<remote, cmd, used>>

(* What a listing that ended makes of the state it finds.                      *)
Refreshed(s, w) ==
    LET listed == [s EXCEPT !.tools = w.got, !.error = FALSE,
                            !.pending = @ /\ s.version # w.version]
    IN  [(IF w.got = None THEN [s EXCEPT !.error = TRUE] ELSE listed)
            EXCEPT !.again = FALSE, !.running = s.again]
\* mutant of Current
CurrentByName(w) == srv.known
Current(w) == srv.known /\ srv.gen = w.gen /\ srv.session = w.session

RefreshHead(s) ==
    /\ ~Locked /\ workers[s].step = "head"
    /\ workers' = [workers EXCEPT ![s] =
                      IF srv.known /\ srv.gen = @.gen /\ srv.session # None
                      THEN [@ EXCEPT !.step = "list", !.session = srv.session,
                                     !.version = srv.version]
                      ELSE Idle]
    /\ UNCHANGED <<srv, remote, notices, cmd, used>>
RefreshList(s) ==
    /\ workers[s].step = "list"
    /\ \/ /\ Open(workers[s].session) /\ UNCHANGED used
          /\ workers' = [workers EXCEPT ![s].step = "got", ![s].got = remote.catalog]
       \/ /\ IF Open(workers[s].session) THEN Fails ELSE UNCHANGED used
          /\ workers' = [workers EXCEPT ![s].step = "got", ![s].got = None]
    /\ UNCHANGED <<srv, remote, notices, cmd>>
RefreshDone(s) ==
    /\ ~Locked /\ workers[s].step = "got"
    /\ IF Current(workers[s])
       THEN /\ srv' = Refreshed(srv, workers[s])
            /\ workers' = [workers EXCEPT ![s] =
                  IF srv.again THEN Heading(@.gen) ELSE Idle]
       ELSE UNCHANGED srv /\ workers' = [workers EXCEPT ![s] = Idle]
    /\ UNCHANGED <<remote, notices, cmd, used>>

(* The user's own refresh, which leaves another round to a goroutine.          *)
\* mutant of Refresh
RefreshMeanwhile ==
    /\ Given("refresh") /\ srv.session # None
    /\ srv' = [srv EXCEPT !.running = TRUE]
    /\ cmd' = [NoCommand EXCEPT !.op = "refresh", !.step = "list", !.gen = srv.gen,
                                !.session = srv.session, !.version = srv.version]
    /\ UNCHANGED <<remote, notices, workers>>
Refresh ==
    /\ Given("refresh") /\ srv.session # None /\ ~srv.running
    /\ srv' = [srv EXCEPT !.running = TRUE]
    /\ cmd' = [NoCommand EXCEPT !.op = "refresh", !.step = "list", !.gen = srv.gen,
                                !.session = srv.session, !.version = srv.version]
    /\ UNCHANGED <<remote, notices, workers>>
UserList ==
    /\ cmd.op = "refresh" /\ cmd.step = "list"
    /\ \/ cmd' = [cmd EXCEPT !.step = "got", !.got = remote.catalog] /\ UNCHANGED used
       \/ cmd' = [cmd EXCEPT !.step = "got"] /\ Fails
    /\ UNCHANGED <<srv, remote, notices, workers>>
\* mutant of UserDone
UserDoneAlone ==
    /\ cmd.op = "refresh" /\ cmd.step = "got" /\ cmd' = NoCommand
    /\ srv' = IF Current(cmd) THEN Refreshed(srv, cmd) ELSE srv
    /\ UNCHANGED <<remote, notices, workers, used>>
UserDone ==
    /\ cmd.op = "refresh" /\ cmd.step = "got" /\ cmd' = NoCommand
    /\ IF Current(cmd)
       THEN /\ srv' = Refreshed(srv, cmd)
            /\ IF srv.again THEN Room /\ workers' = Launched(cmd.gen) ELSE UNCHANGED workers
       ELSE UNCHANGED <<srv, workers>>
    /\ UNCHANGED <<remote, notices, used>>

Manager ==
    \/ Dial \/ FirstList \/ Register \/ Pinged \/ UserList \/ UserDone
    \/ \E g \in Generation : CatalogChanged(g)
    \/ \E s \in Slot : RefreshHead(s) \/ RefreshList(s) \/ RefreshDone(s)

Next ==
    \/ Change \/ Reconnect \/ Enable \/ Disable \/ Remove \/ Add \/ Ping \/ Refresh
    \/ Manager

(* Goroutines are scheduled, and every request has a timeout.                  *)
Spec == Init /\ [][Next]_vars
FairSpec == Spec /\ WF_vars(Manager)

(*                                Properties                                 *)
Statuses == {"removed", "disabled", "added", "error", "connected"}

Servers ==
    [known : BOOLEAN, gen : Nat, session : Nat, status : Statuses, tools : Nat,
     pending : BOOLEAN, version : Nat, error : BOOLEAN, running : BOOLEAN, again : BOOLEAN]
Remotes == [catalog : Nat \ {0}, links : SUBSET [id : Nat, gen : Nat], dialed : Nat]
Workers ==
    [step : {"idle", "head", "list", "got"}, gen : Nat, session : Nat, version : Nat, got : Nat]
Cmds ==
    [op : {"none", "start", "ping", "refresh"},
     step : {"none", "dial", "list", "register", "got"},
     session : Nat, version : Nat, gen : Nat, got : Nat]

(* Every part of the state keeps its kind.                                     *)
TypeOK ==
    /\ srv \in Servers /\ remote \in Remotes
    /\ notices \in [Generation -> Nat] /\ workers \in [Slot -> Workers] /\ cmd \in Cmds
    /\ used \in [commands : 0..MaxCommands, failures : 0..MaxFailures]

Busy == {s \in Slot : workers[s] # Idle}
Quiet == cmd = NoCommand /\ Busy = {} /\ \A g \in Generation : notices[g] = 0

(* CAPABILITIES.md, "tool catalogs hot-refresh atomically": once nothing is    *)
(* under way, a connected server's registered tools are the ones it now has,   *)
(* or the failed refresh shows in its status.                                  *)
ConnectedIsCurrent ==
    Quiet /\ srv.status = "connected" => srv.error \/ (srv.tools = remote.catalog /\ ~srv.pending)

(* A refresh of one connection never puts back an older list over a newer one. *)
NeverOlder == [][srv'.session = srv.session => srv'.tools >= srv.tools]_vars

(* CAPABILITIES.md, "disabled/failed servers withdraw their tools": without a  *)
(* session no tool stays registered, whatever refresh was in flight.           *)
WithdrawnStays == srv.session = None => srv.tools = None

(* mcp.go, "Manager owns every MCP server session": a connection is the        *)
(* server's session or the one being set up.                                   *)
NoOrphan == \A l \in remote.links : l.id \in {srv.session, cmd.session}

(* A pending change is read at last, or an error or the end of the session     *)
(* shows why not.                                                              *)
PendingSettles == srv.pending ~> ~srv.pending \/ srv.error
=============================================================================
