---------------------------- MODULE CatalogProofs ----------------------------
(* Proofs about Catalog, for any number of changes, commands and failures.     *)
(* Two commands break some of the properties, and a theorem names those that   *)
(* no step may be: what it states holds until the first of them.               *)
EXTENDS Catalog, FiniteSetTheorems, TLAPS

(* Enabling a server whose ping had failed dials beside the session it has and *)
(* drops that session unclosed (mcp.go SetEnabled, startLocked).               *)
Reenables == Enable /\ srv.session # None
(* A name added again counts generations from one, as its earlier connections  *)
(* did, so that a goroutine of one of them goes on beside the new one's.       *)
Readds == Add /\ remote.dialed # 0
Usual == ~Reenables /\ ~Readds

(*                          The inductive invariant                          *)
(* A start holds the lock over a server that was stopped before.               *)
Starting ==
    /\ srv.known /\ srv.session = None /\ ~srv.running /\ ~srv.pending
    /\ srv.gen \in Generation /\ ~srv.error
    /\ cmd.step \in {"dial", "list", "register"}
    /\ cmd.step # "dial" => cmd.session # None /\ cmd.session = remote.dialed
    /\ cmd.step = "register" =>
          /\ cmd.got <= remote.catalog
          /\ cmd.got # remote.catalog => notices[srv.gen] > 0

(* What the command under way knows.                                           *)
CommandShaped ==
    /\ cmd.op = "none" => cmd = NoCommand
    /\ cmd.op = "start" => Starting
    /\ cmd.op = "ping" => cmd.session = srv.session /\ srv.session # None
    /\ cmd.op = "refresh" =>
          /\ srv.running /\ srv.session # None
          /\ cmd.session = srv.session /\ cmd.gen = srv.gen /\ cmd.step \in {"list", "got"}
          /\ cmd.step = "list" => cmd.got = None

(* The connections open are the server's session, or the one being set up.     *)
Link(session) == [id |-> session, gen |-> srv.gen]
LinksOwned ==
    remote.links =
        IF Locked THEN IF cmd.step = "dial" THEN {} ELSE {Link(cmd.session)}
        ELSE IF srv.session = None THEN {} ELSE {Link(srv.session)}

SessionShaped ==
    /\ srv.gen <= 2 * used.commands
    /\ ~srv.known => srv = Absent
    /\ srv.session = None => srv.tools = None /\ ~srv.running /\ ~srv.pending
    /\ srv.session # None => srv.gen \in Generation
    /\ srv.session <= remote.dialed /\ srv.tools <= remote.catalog
    /\ srv.status = "connected" /\ ~Locked => srv.session # None

(* The goroutines of the present connection: at most one, and none beside the  *)
(* user's refresh.                                                             *)
Live(s) == workers[s].step # "idle" /\ workers[s].gen = srv.gen
Listing == cmd.op = "refresh" \/ \E s \in Slot : Live(s)
WorkersShaped ==
    \A s \in Slot :
        /\ workers[s].step = "idle" => workers[s] = Idle
        /\ workers[s].step # "idle" => remote.dialed # 0
        /\ workers[s].step \in {"list", "got"} => workers[s].session # None
        /\ srv.known /\ workers[s].step # "idle" => workers[s].gen <= srv.gen
OneLister ==
    srv.known =>
        /\ \A s \in Slot : Live(s) => srv.running /\ cmd.op # "refresh"
        /\ \A s, t \in Slot : Live(s) /\ Live(t) => s = t

(* A listing that is behind the server, or behind the announcements read since *)
(* it began, will be followed by another.                                      *)
Sound(w) ==
    w.step \in {"list", "got"} =>
        /\ w.session = srv.session
        /\ w.version # srv.version => srv.again
        /\ w.step = "got" /\ w.got # None =>
              /\ srv.tools <= w.got /\ w.got <= remote.catalog
              /\ w.got # remote.catalog => notices[srv.gen] > 0 \/ srv.again
ListersSound ==
    srv.known =>
        /\ \A s \in Slot : Live(s) => Sound(workers[s])
        /\ cmd.op = "refresh" => Sound(cmd)

(* Nothing announced is lost: it waits, it is being read, or an error shows.   *)
NothingLost ==
    srv.session # None =>
        /\ srv.running => Listing
        /\ srv.pending => srv.error \/ Listing
        /\ srv.tools # remote.catalog => srv.error \/ Listing \/ notices[srv.gen] > 0

IInv ==
    /\ TypeOK /\ CommandShaped /\ LinksOwned /\ SessionShaped /\ WorkersShaped
    /\ OneLister /\ ListersSound /\ NothingLost

-----------------------------------------------------------------------------
(*                          What the helpers return                          *)
LEMMA Kinds == Absent \in Servers /\ Idle \in Workers /\ NoCommand \in Cmds
BY DEF Absent, Servers, Statuses, Idle, Workers, NoCommand, Cmds, None

LEMMA StoppedKind == ASSUME NEW s \in Servers PROVE Stopped(s) \in Servers
<1>1. s.gen + 1 \in Nat /\ s.known \in BOOLEAN /\ s.status \in Statuses
  BY DEF Servers
<1> QED
  BY <1>1, Kinds DEF Stopped, Servers

LEMMA ResettingKind == ASSUME NEW s \in Servers PROVE Resetting(s) \in Servers
<1>1. s.gen + 1 \in Nat
  BY DEF Servers
<1> QED
  BY <1>1 DEF Resetting, Servers

LEMMA HeadingIs ==
    ASSUME NEW g \in Nat
    PROVE  /\ Heading(g) \in Workers /\ Heading(g) # Idle
           /\ Heading(g).step = "head" /\ Heading(g).gen = g
BY DEF Heading, Idle, Workers, None

(* A launch gives one idle slot to a new goroutine.                            *)
LaunchedAt(s, g) ==
    /\ workers[s].step = "idle"
    /\ \A t \in Slot : t # s => workers'[t] = workers[t]
    /\ workers'[s].step = "head" /\ workers'[s].gen = g
LEMMA LaunchedIs ==
    ASSUME workers \in [Slot -> Workers], Room, NEW g \in Nat, workers' = Launched(g)
    PROVE  workers' \in [Slot -> Workers] /\ \E s \in Slot : LaunchedAt(s, g)
<1> DEFINE z == CHOOSE s \in Slot : workers[s] = Idle
<1>1. z \in Slot /\ workers[z] = Idle
  BY DEF Room
<1>2. workers' = [workers EXCEPT ![z] = Heading(g)]
  BY DEF Launched
<1> HIDE DEF z
<1>3. workers[z].step = "idle"
  BY <1>1 DEF Idle
<1>4. workers'[z] = Heading(g) /\ \A t \in Slot : t # z => workers'[t] = workers[t]
  BY <1>1, <1>2
<1>5. LaunchedAt(z, g)
  BY <1>3, <1>4, HeadingIs DEF LaunchedAt
<1>6. workers' \in [Slot -> Workers]
  BY <1>1, <1>2, HeadingIs
<1> QED
  BY <1>1, <1>5, <1>6

(* What a listing that ended leaves in a server that still has its connection. *)
Took(s, t, w) ==
    /\ t.known = s.known /\ t.gen = s.gen /\ t.session = s.session
    /\ t.status = s.status /\ t.version = s.version
    /\ t.running = s.again /\ t.again = FALSE
    /\ w.got = None => t.error /\ t.tools = s.tools /\ t.pending = s.pending
    /\ w.got # None => /\ ~t.error /\ t.tools = w.got
                       /\ t.pending = (s.pending /\ s.version # w.version)
LEMMA RefreshedIs ==
    ASSUME NEW s \in Servers, NEW w, w.got \in Nat
    PROVE  Refreshed(s, w) \in Servers /\ Took(s, Refreshed(s, w), w)
<1> DEFINE listed == [s EXCEPT !.tools = w.got, !.error = FALSE,
                               !.pending = @ /\ s.version # w.version]
           failed == [s EXCEPT !.error = TRUE]
<1>1. CASE w.got = None
  <2>1. Refreshed(s, w) = [failed EXCEPT !.again = FALSE, !.running = s.again]
    BY <1>1 DEF Refreshed
  <2> QED
    BY <1>1, <2>1 DEF Servers, Took
<1>2. CASE w.got # None
  <2>1. Refreshed(s, w) = [listed EXCEPT !.again = FALSE, !.running = s.again]
    BY <1>2 DEF Refreshed
  <2>2. (s.pending /\ s.version # w.version) \in BOOLEAN
    OBVIOUS
  <2> QED
    BY <1>2, <2>1, <2>2 DEF Servers, Took
<1> QED
  BY <1>1, <1>2

(* A change announces itself at most once, and to the session if there is one. *)
LEMMA AnnouncedIs ==
    ASSUME LinksOwned, NEW g
    PROVE  /\ Told(g) \in {0, 1}
           /\ (\E l \in remote.links : l.gen = g) => Told(g) = 1
<1> DEFINE told == {l \in remote.links : l.gen = g}
<1>1. told = {} \/ \E l : told = {l}
  BY DEF LinksOwned
<1>2. told # {} <=> \E l \in remote.links : l.gen = g
  OBVIOUS
<1> HIDE DEF told
<1>3. Cardinality(told) \in {0, 1} /\ (told # {} => Cardinality(told) = 1)
  BY <1>1, FS_EmptySet, FS_Singleton
<1> QED
  BY <1>2, <1>3 DEF told, Told

-----------------------------------------------------------------------------
(*                               Type correctness                            *)
Typed == TypeOK /\ IsFiniteSet(remote.links)
LEMMA InitTypes == Init => Typed
<1> SUFFICES ASSUME Init PROVE Typed
  OBVIOUS
<1>1. srv \in Servers
  BY Kinds DEF Init, Servers, Statuses
<1>2. workers \in [Slot -> Workers] /\ cmd \in Cmds
  BY Kinds DEF Init
<1>3. remote \in Remotes /\ notices \in [Generation -> Nat]
  BY DEF Init, Remotes
<1>4. used \in [commands : 0..MaxCommands, failures : 0..MaxFailures]
  BY BoundsAssumption DEF Init
<1>5. IsFiniteSet(remote.links)
  BY FS_EmptySet DEF Init
<1> QED
  BY <1>1, <1>2, <1>3, <1>4, <1>5 DEF TypeOK, Typed

LEMMA FewLinks == Typed /\ [Next]_vars => IsFiniteSet(remote'.links)
<1> SUFFICES ASSUME TypeOK, IsFiniteSet(remote.links), [Next]_vars
             PROVE  IsFiniteSet(remote'.links)
  BY DEF Typed
<1>1. \A n : IsFiniteSet(Closed(n)) /\ [remote EXCEPT !.links = Closed(n)].links = Closed(n)
  BY FS_Subset DEF Closed, TypeOK, Remotes
<1>2. IsFiniteSet(remote.links \cup {[id |-> remote.dialed + 1, gen |-> srv.gen]})
  BY FS_AddElement
<1>3. CASE Reconnect \/ Disable \/ Remove
  BY <1>1, <1>3 DEF Reconnect, Disable, Remove
<1>4. CASE Dial
  BY <1>2, <1>4 DEF Dial, TypeOK, Remotes
<1>5. CASE FirstList
  BY <1>1, <1>5 DEF FirstList
<1>6. CASE Change
  BY <1>6 DEF Change, TypeOK, Remotes
<1> QED
  BY <1>3, <1>4, <1>5, <1>6
     DEF Next, Manager, Enable, Add, Ping, Refresh, Register, Pinged, UserList, UserDone,
         CatalogChanged, RefreshHead, RefreshList, RefreshDone, vars

LEMMA NextTypes == Typed /\ [Next]_vars => TypeOK'
<1> SUFFICES ASSUME TypeOK, IsFiniteSet(remote.links), [Next]_vars PROVE TypeOK'
  BY DEF Typed
<1> USE DEF TypeOK
<1>1. \A op : Given(op) => used' \in [commands : 0..MaxCommands, failures : 0..MaxFailures]
  BY BoundsAssumption DEF Given
<1>2. Fails => used' \in [commands : 0..MaxCommands, failures : 0..MaxFailures]
  BY BoundsAssumption DEF Fails
<1>3. \A n : [remote EXCEPT !.links = Closed(n)] \in Remotes
  BY DEF Closed, Remotes
<1>4. StartFailed \in Servers
  BY Kinds DEF StartFailed, Servers, Statuses
<1>5. \A s \in Servers : Start(s) => /\ srv' \in Servers /\ cmd' \in Cmds
                                     /\ UNCHANGED <<notices, workers>>
  <2>1. [NoCommand EXCEPT !.op = "start", !.step = "dial"] \in Cmds
    BY Kinds DEF Cmds
  <2> QED
    BY <2>1, ResettingKind DEF Start
<1>6. CASE Change
  <2>1. \A g : Told(g) \in Nat
    <3> SUFFICES ASSUME NEW g PROVE Told(g) \in Nat
      OBVIOUS
    <3>1. IsFiniteSet({l \in remote.links : l.gen = g})
      BY FS_Subset
    <3> QED
      BY <3>1, FS_CardinalityType DEF Told
  <2> QED
    BY <1>6, <2>1 DEF Change, Remotes
<1>7. CASE Reconnect
  BY <1>1, <1>3, <1>5, <1>7, StoppedKind DEF Reconnect
<1>8. CASE Enable
  BY <1>1, <1>5, <1>8 DEF Enable
<1>9. CASE Disable
  <2>1. [Stopped(srv) EXCEPT !.status = "disabled"] \in Servers
    BY StoppedKind DEF Servers, Statuses
  <2> QED
    BY <1>1, <1>3, <1>9, <2>1 DEF Disable
<1>10. CASE Remove
  BY <1>1, <1>3, <1>10, Kinds DEF Remove
<1>11. CASE Add
  <2>1. [Absent EXCEPT !.known = TRUE, !.status = "added"] \in Servers
    BY Kinds DEF Servers, Statuses
  <2> QED
    BY <1>1, <1>5, <1>11, <2>1 DEF Add
<1>12. CASE Dial
  <2>1. remote.dialed + 1 \in Nat /\ srv.gen \in Nat
    BY DEF Remotes, Servers
  <2>2. [cmd EXCEPT !.step = "list", !.session = remote.dialed + 1] \in Cmds
    BY <2>1 DEF Cmds
  <2>3. remote.links \cup {[id |-> remote.dialed + 1, gen |-> srv.gen]}
           \in SUBSET [id : Nat, gen : Nat]
    BY <2>1 DEF Remotes
  <2>4. [remote EXCEPT !.dialed = @ + 1,
            !.links = @ \cup {[id |-> remote.dialed + 1, gen |-> srv.gen]}] \in Remotes
    BY <2>1, <2>3 DEF Remotes
  <2> QED
    BY <1>2, <1>4, <1>12, <2>2, <2>4, Kinds DEF Dial
<1>13. CASE FirstList
  <2>1. [cmd EXCEPT !.step = "register", !.got = remote.catalog] \in Cmds
    BY DEF Cmds, Remotes
  <2> QED
    BY <1>2, <1>3, <1>4, <1>13, <2>1, Kinds DEF FirstList
<1>14. CASE Register
  BY <1>14, Kinds DEF Register, Servers, Statuses, Cmds
<1>15. CASE Ping
  BY <1>1, <1>15, Kinds DEF Ping, Cmds, Servers
<1>16. CASE Pinged
  <2>1. /\ [srv EXCEPT !.status = "connected"] \in Servers
        /\ [srv EXCEPT !.status = "error"] \in Servers
    BY DEF Servers, Statuses
  <2> QED
    BY <1>2, <1>16, <2>1, Kinds DEF Pinged
<1>17. CASE Refresh
  BY <1>1, <1>17, Kinds DEF Refresh, Cmds, Servers
<1>18. CASE UserList
  BY <1>2, <1>18 DEF UserList, Cmds, Remotes
<1>19. CASE UserDone
  <2>1. cmd.got \in Nat /\ cmd.gen \in Nat
    BY DEF Cmds
  <2>2. Launched(cmd.gen) = workers' /\ Room => workers' \in [Slot -> Workers]
    BY <2>1, LaunchedIs
  <2> QED
    BY <1>19, <2>1, <2>2, RefreshedIs, Kinds DEF UserDone
<1>20. CASE \E g \in Generation : CatalogChanged(g)
  <2>1. PICK g \in Generation : CatalogChanged(g)
    BY <1>20
  <2>2. g \in Nat /\ srv.version + 1 \in Nat
    BY DEF Generation, Servers
  <2>3. srv' \in Servers
    BY <2>1, <2>2 DEF CatalogChanged, Servers
  <2>4. workers' \in [Slot -> Workers]
    BY <2>1, <2>2, LaunchedIs DEF CatalogChanged
  <2>5. notices' \in [Generation -> Nat]
    BY <2>1 DEF CatalogChanged
  <2> QED
    BY <2>1, <2>3, <2>4, <2>5 DEF CatalogChanged
<1>21. CASE \E s \in Slot : RefreshHead(s) \/ RefreshList(s) \/ RefreshDone(s)
  <2>1. PICK s \in Slot : RefreshHead(s) \/ RefreshList(s) \/ RefreshDone(s)
    BY <1>21
  <2>2. CASE RefreshHead(s)
    BY <2>2, Kinds DEF RefreshHead, Workers, Servers
  <2>3. CASE RefreshList(s)
    <3>1. remote.catalog \in Nat /\ None \in Nat
      BY DEF Remotes, None
    <3>2. /\ [workers EXCEPT ![s].step = "got", ![s].got = remote.catalog] \in [Slot -> Workers]
          /\ [workers EXCEPT ![s].step = "got", ![s].got = None] \in [Slot -> Workers]
      BY <3>1 DEF Workers
    <3> QED
      BY <1>2, <2>3, <3>2 DEF RefreshList
  <2>4. CASE RefreshDone(s)
    <3>1. workers[s].got \in Nat /\ workers[s].gen \in Nat
      BY DEF Workers
    <3>2. workers' \in [Slot -> Workers]
      BY <2>4, <3>1, HeadingIs, Kinds DEF RefreshDone
    <3> QED
      BY <2>4, <3>1, <3>2, RefreshedIs DEF RefreshDone
  <2> QED
    BY <2>1, <2>2, <2>3, <2>4
<1>22. CASE UNCHANGED vars
  BY <1>22 DEF vars
<1> QED
  BY <1>6, <1>7, <1>8, <1>9, <1>10, <1>11, <1>12, <1>13, <1>14, <1>15, <1>16, <1>17, <1>18,
     <1>19, <1>20, <1>21, <1>22 DEF Next, Manager
(* What every lemma below concludes, besides TypeOK.                           *)
Rest ==
    /\ CommandShaped /\ LinksOwned /\ SessionShaped /\ WorkersShaped
    /\ OneLister /\ ListersSound /\ NothingLost

LEMMA ChangeKeeps ==
    ASSUME IInv, Change
    PROVE  Rest'
<1>1. /\ UNCHANGED <<srv, workers, cmd, used>> /\ remote.catalog \in Nat
      /\ remote'.catalog = remote.catalog + 1
      /\ remote'.links = remote.links /\ remote'.dialed = remote.dialed
  BY DEF Change, IInv, TypeOK, Remotes
<1>2. \A g \in Generation : /\ notices[g] \in Nat /\ notices'[g] \in Nat
                            /\ notices[g] <= notices'[g]
                            /\ (\E l \in remote.links : l.gen = g) => notices'[g] > 0
  <2>1. \A g \in Generation :
           /\ notices[g] \in Nat
           /\ notices'[g] = notices[g] + Told(g)
    BY DEF Change, IInv, TypeOK
  <2> QED
    BY <2>1, AnnouncedIs DEF IInv
<1>3. /\ srv.tools \in Nat /\ cmd.got \in Nat /\ \A s \in Slot : workers[s].got \in Nat
  BY DEF IInv, TypeOK, Servers, Cmds, Workers
<1>4. \/ cmd.op = "start" /\ cmd.step # "dial"
      \/ cmd.op # "start" /\ srv.session # None
      => srv.gen \in Generation /\ notices'[srv.gen] > 0
  <2>1. SUFFICES ASSUME \/ cmd.op = "start" /\ cmd.step # "dial"
                        \/ cmd.op # "start" /\ srv.session # None
                 PROVE  srv.gen \in Generation /\ \E l \in remote.links : l.gen = srv.gen
    BY <1>2
  <2>2. srv.gen \in Generation
    BY <2>1 DEF IInv, CommandShaped, Starting, SessionShaped
  <2>3. \E n : remote.links = {Link(n)}
    BY <2>1 DEF IInv, LinksOwned, Locked
  <2> QED
    BY <2>2, <2>3 DEF Link
<1>5. srv.gen \in Generation /\ notices[srv.gen] > 0 => notices'[srv.gen] > 0
  BY <1>2
<1>6. srv.session # None /\ srv.known => cmd.op # "start"
  BY DEF IInv, CommandShaped, Starting
<1>7. srv.known /\ (cmd.op = "refresh" \/ \E s \in Slot : Live(s) /\ workers[s].step \in {"list", "got"})
         => srv.running
  BY DEF IInv, CommandShaped, OneLister, Live
<1>8. srv.running => srv.session # None
  BY DEF IInv, SessionShaped
<1> USE DEF IInv, CommandShaped, Starting, LinksOwned, Link, SessionShaped, WorkersShaped,
            OneLister, ListersSound, Sound, NothingLost, Live, Listing, Locked, None
<1>11. CommandShaped'
  BY <1>1, <1>2, <1>3, <1>4, <1>5, <1>6, <1>7, <1>8
<1>12. LinksOwned'
  BY <1>1, <1>2, <1>3, <1>4, <1>5, <1>6, <1>7, <1>8
<1>13. SessionShaped'
  BY <1>1, <1>2, <1>3, <1>4, <1>5, <1>6, <1>7, <1>8
<1>14. WorkersShaped'
  BY <1>1, <1>2, <1>3, <1>4, <1>5, <1>6, <1>7, <1>8
<1>15. OneLister'
  BY <1>1, <1>2, <1>3, <1>4, <1>5, <1>6, <1>7, <1>8
<1>16. ListersSound'
  BY <1>1, <1>2, <1>3, <1>4, <1>5, <1>6, <1>7, <1>8
<1>17. NothingLost'
  BY <1>1, <1>2, <1>3, <1>4, <1>5, <1>6, <1>7, <1>8
<1> QED
  BY <1>11, <1>12, <1>13, <1>14, <1>15, <1>16, <1>17 DEF Rest

LEMMA ReconnectKeeps ==
    ASSUME IInv, Reconnect
    PROVE  Rest'
<1>1. srv \in Servers /\ Stopped(srv) \in Servers
  BY StoppedKind DEF IInv, TypeOK
<1>2. /\ srv'.known = srv.known /\ srv.known /\ srv'.gen = srv.gen + 2 /\ srv'.session = None
      /\ srv'.tools = None /\ ~srv'.running /\ ~srv'.pending /\ ~srv'.error
      /\ srv.gen \in Nat
  BY <1>1 DEF Reconnect, Start, Stopped, Resetting, Absent, Servers
<1>3. /\ cmd = NoCommand /\ cmd'.op = "start" /\ cmd'.step = "dial"
      /\ UNCHANGED <<notices, workers>>
      /\ used'.commands = used.commands + 1 /\ used.commands < MaxCommands
      /\ used.commands \in Nat
  BY DEF Reconnect, Given, Start, NoCommand, IInv, TypeOK
<1>4. /\ remote'.catalog = remote.catalog /\ remote'.dialed = remote.dialed
      /\ remote'.links = {l \in remote.links : l.id # srv.session}
      /\ remote.catalog \in Nat /\ remote.dialed \in Nat
  BY DEF Reconnect, Closed, IInv, TypeOK, Remotes
<1>5. workers \in [Slot -> Workers]
  BY DEF IInv, TypeOK
<1> USE DEF IInv, CommandShaped, Starting, LinksOwned, Link, SessionShaped, WorkersShaped,
            OneLister, ListersSound, Sound, NothingLost, Live, Listing, Locked, None, NoCommand, Generation, Workers
<1>11. CommandShaped'
  BY <1>1, <1>2, <1>3, <1>4, <1>5, BoundsAssumption
<1>12. LinksOwned'
  BY <1>1, <1>2, <1>3, <1>4, <1>5, BoundsAssumption
<1>13. SessionShaped'
  BY <1>1, <1>2, <1>3, <1>4, <1>5, BoundsAssumption
<1>14. WorkersShaped'
  BY <1>1, <1>2, <1>3, <1>4, <1>5, BoundsAssumption
<1>15. OneLister'
  BY <1>1, <1>2, <1>3, <1>4, <1>5, BoundsAssumption
<1>16. ListersSound'
  BY <1>1, <1>2, <1>3, <1>4, <1>5, BoundsAssumption
<1>17. NothingLost'
  BY <1>1, <1>2, <1>3, <1>4, <1>5, BoundsAssumption
<1> QED
  BY <1>11, <1>12, <1>13, <1>14, <1>15, <1>16, <1>17 DEF Rest

LEMMA EnableKeeps ==
    ASSUME IInv, Enable, ~Reenables
    PROVE  Rest'
<1>1. srv \in Servers /\ srv.gen \in Nat
  BY DEF IInv, TypeOK, Servers
<1>2. cmd = NoCommand /\ srv.known /\ srv.session = None
  BY DEF Enable, Given, Reenables
<1>3. /\ srv'.known = srv.known /\ srv'.gen = srv.gen + 1 /\ srv'.session = None
      /\ srv'.tools = srv.tools /\ ~srv'.running /\ ~srv'.pending /\ ~srv'.error
  BY <1>1, <1>2 DEF Enable, Start, Resetting, Servers
<1>4. /\ cmd'.op = "start" /\ cmd'.step = "dial" /\ UNCHANGED <<remote, notices, workers>>
      /\ used'.commands = used.commands + 1 /\ used.commands < MaxCommands
      /\ used.commands \in Nat
  BY DEF Enable, Given, Start, NoCommand, IInv, TypeOK
<1>5. workers \in [Slot -> Workers]
  BY DEF IInv, TypeOK
<1> USE DEF IInv, CommandShaped, Starting, LinksOwned, Link, SessionShaped, WorkersShaped,
            OneLister, ListersSound, Sound, NothingLost, Live, Listing, Locked, None, NoCommand, Generation, Workers
<1>11. CommandShaped'
  BY <1>1, <1>2, <1>3, <1>4, <1>5, BoundsAssumption
<1>12. LinksOwned'
  BY <1>1, <1>2, <1>3, <1>4, <1>5, BoundsAssumption
<1>13. SessionShaped'
  BY <1>1, <1>2, <1>3, <1>4, <1>5, BoundsAssumption
<1>14. WorkersShaped'
  BY <1>1, <1>2, <1>3, <1>4, <1>5, BoundsAssumption
<1>15. OneLister'
  BY <1>1, <1>2, <1>3, <1>4, <1>5, BoundsAssumption
<1>16. ListersSound'
  BY <1>1, <1>2, <1>3, <1>4, <1>5, BoundsAssumption
<1>17. NothingLost'
  BY <1>1, <1>2, <1>3, <1>4, <1>5, BoundsAssumption
<1> QED
  BY <1>11, <1>12, <1>13, <1>14, <1>15, <1>16, <1>17 DEF Rest

LEMMA DisableKeeps ==
    ASSUME IInv, Disable
    PROVE  Rest'
<1>1. srv \in Servers /\ srv.gen \in Nat
  BY DEF IInv, TypeOK, Servers
<1>2. /\ srv'.known = srv.known /\ srv.known /\ srv'.gen = srv.gen + 1 /\ srv'.session = None
      /\ srv'.tools = None /\ ~srv'.running /\ ~srv'.pending /\ srv'.status = "disabled"
  BY <1>1 DEF Disable, Stopped, Absent
<1>3. /\ cmd = NoCommand /\ UNCHANGED <<notices, workers, cmd>>
      /\ used'.commands = used.commands + 1 /\ used.commands \in Nat
  BY DEF Disable, Given, IInv, TypeOK
<1>4. /\ remote'.catalog = remote.catalog /\ remote'.dialed = remote.dialed
      /\ remote'.links = {l \in remote.links : l.id # srv.session}
      /\ remote.catalog \in Nat /\ remote.dialed \in Nat
  BY DEF Disable, Closed, IInv, TypeOK, Remotes
<1>5. workers \in [Slot -> Workers]
  BY DEF IInv, TypeOK
<1> USE DEF IInv, CommandShaped, Starting, LinksOwned, Link, SessionShaped, WorkersShaped,
            OneLister, ListersSound, Sound, NothingLost, Live, Listing, Locked, None, NoCommand, Workers
<1>11. CommandShaped'
  BY <1>1, <1>2, <1>3, <1>4, <1>5
<1>12. LinksOwned'
  BY <1>1, <1>2, <1>3, <1>4, <1>5
<1>13. SessionShaped'
  BY <1>1, <1>2, <1>3, <1>4, <1>5
<1>14. WorkersShaped'
  BY <1>1, <1>2, <1>3, <1>4, <1>5
<1>15. OneLister'
  BY <1>1, <1>2, <1>3, <1>4, <1>5
<1>16. ListersSound'
  BY <1>1, <1>2, <1>3, <1>4, <1>5
<1>17. NothingLost'
  BY <1>1, <1>2, <1>3, <1>4, <1>5
<1> QED
  BY <1>11, <1>12, <1>13, <1>14, <1>15, <1>16, <1>17 DEF Rest

LEMMA RemoveKeeps ==
    ASSUME IInv, Remove
    PROVE  Rest'
<1>1. /\ cmd = NoCommand /\ UNCHANGED <<notices, workers, cmd>> /\ srv' = Absent
      /\ used'.commands = used.commands + 1 /\ used.commands \in Nat
  BY DEF Remove, Given, IInv, TypeOK
<1>2. /\ remote'.catalog = remote.catalog /\ remote'.dialed = remote.dialed
      /\ remote'.links = {l \in remote.links : l.id # srv.session}
      /\ remote.catalog \in Nat /\ remote.dialed \in Nat
  BY DEF Remove, Closed, IInv, TypeOK, Remotes
<1> USE DEF IInv, CommandShaped, Starting, LinksOwned, Link, SessionShaped, WorkersShaped,
            OneLister, ListersSound, Sound, NothingLost, Live, Listing, Locked, None, NoCommand, Absent
<1>11. CommandShaped'
  BY <1>1, <1>2
<1>12. LinksOwned'
  BY <1>1, <1>2
<1>13. SessionShaped'
  BY <1>1, <1>2
<1>14. WorkersShaped'
  BY <1>1, <1>2
<1>15. OneLister'
  BY <1>1, <1>2
<1>16. ListersSound'
  BY <1>1, <1>2
<1>17. NothingLost'
  BY <1>1, <1>2
<1> QED
  BY <1>11, <1>12, <1>13, <1>14, <1>15, <1>16, <1>17 DEF Rest

LEMMA AddKeeps ==
    ASSUME IInv, Add, ~Readds
    PROVE  Rest'
<1>1. /\ cmd = NoCommand /\ ~srv.known /\ remote.dialed = 0
      /\ used'.commands = used.commands + 1 /\ used.commands < MaxCommands
      /\ used.commands \in Nat
  BY DEF Add, Given, Readds, IInv, TypeOK
<1>2. srv = Absent
  BY <1>1 DEF IInv, SessionShaped
<1>3. /\ srv'.known /\ srv'.gen = 1 /\ srv'.session = None /\ srv'.tools = None
      /\ ~srv'.running /\ ~srv'.pending /\ ~srv'.error
  BY DEF Add, Start, Resetting, Absent
<1>4. /\ cmd'.op = "start" /\ cmd'.step = "dial" /\ UNCHANGED <<remote, notices, workers>>
  BY DEF Add, Start, NoCommand
<1>5. remote.catalog \in Nat
  BY DEF IInv, TypeOK, Remotes
<1> USE DEF IInv, CommandShaped, Starting, LinksOwned, Link, SessionShaped, WorkersShaped,
            OneLister, ListersSound, Sound, NothingLost, Live, Listing, Locked, None, NoCommand, Generation, Absent
<1>11. CommandShaped'
  BY <1>1, <1>2, <1>3, <1>4, <1>5, BoundsAssumption
<1>12. LinksOwned'
  BY <1>1, <1>2, <1>3, <1>4, <1>5, BoundsAssumption
<1>13. SessionShaped'
  BY <1>1, <1>2, <1>3, <1>4, <1>5, BoundsAssumption
<1>14. WorkersShaped'
  BY <1>1, <1>2, <1>3, <1>4, <1>5, BoundsAssumption
<1>15. OneLister'
  BY <1>1, <1>2, <1>3, <1>4, <1>5, BoundsAssumption
<1>16. ListersSound'
  BY <1>1, <1>2, <1>3, <1>4, <1>5, BoundsAssumption
<1>17. NothingLost'
  BY <1>1, <1>2, <1>3, <1>4, <1>5, BoundsAssumption
<1> QED
  BY <1>11, <1>12, <1>13, <1>14, <1>15, <1>16, <1>17 DEF Rest
LEMMA DialKeeps ==
    ASSUME IInv, Dial, cmd' # NoCommand
    PROVE  Rest'
<1>1. /\ remote' = [remote EXCEPT !.dialed = @ + 1,
                       !.links = @ \cup {[id |-> remote.dialed + 1, gen |-> srv.gen]}]
      /\ cmd' = [cmd EXCEPT !.step = "list", !.session = remote.dialed + 1]
      /\ UNCHANGED <<srv, notices, workers, used>> /\ cmd.op = "start" /\ cmd.step = "dial"
  BY DEF Dial, Locked
<1>2. remote.links = {} /\ remote.dialed \in Nat /\ remote \in Remotes /\ cmd \in Cmds
  BY <1>1 DEF IInv, LinksOwned, Locked, TypeOK, Remotes
<1>3. /\ cmd'.op = "start" /\ cmd'.step = "list" /\ cmd'.session = remote.dialed + 1
      /\ remote'.dialed = remote.dialed + 1 /\ remote'.catalog = remote.catalog
      /\ remote'.links = {[id |-> remote.dialed + 1, gen |-> srv.gen]}
  BY <1>1, <1>2 DEF Remotes, Cmds
<1>4. /\ srv.session \in Nat /\ \A s \in Slot : workers[s].session \in Nat
      /\ remote.dialed + 1 # 0 /\ srv.session <= remote.dialed + 1
  BY <1>2 DEF IInv, TypeOK, Servers, Workers, SessionShaped
<1> USE DEF IInv, CommandShaped, Starting, LinksOwned, Link, SessionShaped, WorkersShaped,
            OneLister, ListersSound, Sound, NothingLost, Live, Listing, Locked, None
<1>11. CommandShaped'
  BY <1>1, <1>2, <1>3, <1>4
<1>12. LinksOwned'
  BY <1>1, <1>2, <1>3, <1>4
<1>13. SessionShaped'
  BY <1>1, <1>2, <1>3, <1>4
<1>14. WorkersShaped'
  BY <1>1, <1>2, <1>3, <1>4
<1>15. OneLister'
  BY <1>1, <1>2, <1>3, <1>4
<1>16. ListersSound'
  BY <1>1, <1>2, <1>3, <1>4
<1>17. NothingLost'
  BY <1>1, <1>2, <1>3, <1>4
<1> QED
  BY <1>11, <1>12, <1>13, <1>14, <1>15, <1>16, <1>17 DEF Rest

LEMMA FirstListKeeps ==
    ASSUME IInv, FirstList, cmd' # NoCommand
    PROVE  Rest'
<1>1. /\ cmd' = [cmd EXCEPT !.step = "register", !.got = remote.catalog]
      /\ UNCHANGED <<srv, remote, notices, workers, used>>
      /\ cmd.op = "start" /\ cmd.step = "list"
  BY DEF FirstList, Locked
<1>2. remote.catalog \in Nat /\ cmd \in Cmds
  BY DEF IInv, TypeOK, Remotes
<1>3. /\ cmd'.op = "start" /\ cmd'.step = "register" /\ cmd'.session = cmd.session
      /\ cmd'.got = remote.catalog
  BY <1>1, <1>2 DEF Cmds
<1> USE DEF IInv, CommandShaped, Starting, LinksOwned, Link, SessionShaped, WorkersShaped,
            OneLister, ListersSound, Sound, NothingLost, Live, Listing, Locked, None
<1>11. CommandShaped'
  BY <1>1, <1>2, <1>3
<1>12. LinksOwned'
  BY <1>1, <1>2, <1>3
<1>13. SessionShaped'
  BY <1>1, <1>2, <1>3
<1>14. WorkersShaped'
  BY <1>1, <1>2, <1>3
<1>15. OneLister'
  BY <1>1, <1>2, <1>3
<1>16. ListersSound'
  BY <1>1, <1>2, <1>3
<1>17. NothingLost'
  BY <1>1, <1>2, <1>3
<1> QED
  BY <1>11, <1>12, <1>13, <1>14, <1>15, <1>16, <1>17 DEF Rest

(* A start that fails, at the dial or at the first list.                       *)
LEMMA StartFails ==
    ASSUME IInv, Dial \/ FirstList, cmd' = NoCommand
    PROVE  Rest'
<1>1. Locked /\ cmd # NoCommand
  BY DEF Dial, FirstList, Locked, NoCommand
<1>2. /\ srv' = StartFailed /\ UNCHANGED <<notices, workers>> /\ used'.commands = used.commands
      /\ used.commands \in Nat
  <2>1. cmd.step = "dial" \/ cmd.step = "list"
    BY DEF Dial, FirstList
  <2>2. /\ [cmd EXCEPT !.step = "list", !.session = remote.dialed + 1] # NoCommand
        /\ [cmd EXCEPT !.step = "register", !.got = remote.catalog] # NoCommand
    BY <1>1 DEF NoCommand, Locked, IInv, TypeOK, Cmds
  <2>3. Fails /\ srv' = StartFailed
    BY <2>2 DEF Dial, FirstList
  <2> QED
    BY <2>3 DEF Fails, IInv, TypeOK, Dial, FirstList
<1>3. /\ remote'.links = {} /\ remote'.catalog = remote.catalog
      /\ remote'.dialed = remote.dialed
  <2>1. CASE Dial
    <3>1. [cmd EXCEPT !.step = "list", !.session = remote.dialed + 1] # NoCommand
      BY <1>1 DEF NoCommand, Locked, IInv, TypeOK, Cmds
    <3>2. remote' = remote /\ cmd.step = "dial"
      BY <2>1, <3>1 DEF Dial
    <3> QED
      BY <1>1, <3>2 DEF IInv, LinksOwned
  <2>2. CASE FirstList
    <3>1. [cmd EXCEPT !.step = "register", !.got = remote.catalog] # NoCommand
      BY <1>1 DEF NoCommand, Locked, IInv, TypeOK, Cmds
    <3>2. remote' = [remote EXCEPT !.links = Closed(cmd.session)] /\ cmd.step = "list"
      BY <2>2, <3>1 DEF FirstList
    <3>3. remote.links = {Link(cmd.session)}
      BY <1>1, <3>2 DEF IInv, LinksOwned
    <3> QED
      BY <3>2, <3>3 DEF Closed, Link, IInv, TypeOK, Remotes
  <2> QED
    BY <2>1, <2>2
<1>4. /\ srv'.session = None /\ srv'.tools = None /\ ~srv'.running /\ ~srv'.pending
      /\ srv'.known => srv'.gen = srv.gen /\ srv.known
      /\ ~srv'.known => srv' = Absent
      /\ srv'.status # "connected" /\ srv'.gen <= srv.gen /\ srv'.gen \in Nat /\ srv.gen \in Nat
  <2>1. /\ srv \in Servers /\ srv.known /\ srv.session = None /\ srv.tools = None
        /\ ~srv.running /\ ~srv.pending
    BY <1>1 DEF IInv, TypeOK, CommandShaped, Starting, SessionShaped, Locked
  <2>2. srv' = Absent \/ srv' = [srv EXCEPT !.status = "error"]
    BY <1>2 DEF StartFailed
  <2> QED
    BY <2>1, <2>2 DEF Servers, Absent, None
<1>5. remote.catalog \in Nat /\ remote.dialed \in Nat /\ ~Locked' /\ cmd'.op = "none"
  BY DEF IInv, TypeOK, Remotes, Locked, NoCommand
<1>6. srv'.gen <= 2 * used'.commands
  BY <1>2, <1>4 DEF IInv, SessionShaped
<1>7. /\ srv'.known => \A s \in Slot : ~(workers'[s].step # "idle" /\ workers'[s].gen = srv'.gen)
      /\ ~srv'.running /\ cmd'.op # "refresh"
  BY <1>1, <1>2, <1>4, <1>5 DEF IInv, CommandShaped, Starting, OneLister, Live, Locked
<1> USE DEF IInv, CommandShaped, Starting, LinksOwned, Link, SessionShaped, WorkersShaped,
            OneLister, ListersSound, Sound, NothingLost, Live, Listing, Locked, None
<1>11. CommandShaped'
  BY <1>2, <1>3, <1>4, <1>5, <1>6, <1>7
<1>12. LinksOwned'
  BY <1>2, <1>3, <1>4, <1>5, <1>6, <1>7
<1>13. SessionShaped'
  BY <1>2, <1>3, <1>4, <1>5, <1>6, <1>7
<1>14. WorkersShaped'
  BY <1>2, <1>3, <1>4, <1>5, <1>6, <1>7
<1>15. OneLister'
  BY <1>2, <1>3, <1>4, <1>5, <1>6, <1>7
<1>16. ListersSound'
  BY <1>2, <1>3, <1>4, <1>5, <1>6, <1>7
<1>17. NothingLost'
  BY <1>2, <1>3, <1>4, <1>5, <1>6, <1>7
<1> QED
  BY <1>11, <1>12, <1>13, <1>14, <1>15, <1>16, <1>17 DEF Rest

LEMMA RegisterKeeps ==
    ASSUME IInv, Register
    PROVE  Rest'
<1>1. /\ cmd.op = "start" /\ cmd.step = "register" /\ cmd' = NoCommand
      /\ UNCHANGED <<remote, notices, workers, used>>
      /\ srv' = [srv EXCEPT !.session = cmd.session, !.status = "connected", !.tools = cmd.got]
  BY DEF Register, Locked
<1>2. srv \in Servers /\ cmd \in Cmds /\ remote \in Remotes
  BY DEF IInv, TypeOK
<1>3. /\ srv'.session = cmd.session /\ srv'.tools = cmd.got /\ srv'.gen = srv.gen
      /\ srv'.known = srv.known /\ srv'.running = srv.running /\ srv'.pending = srv.pending
      /\ srv'.again = srv.again /\ srv'.version = srv.version /\ srv'.error = srv.error
  BY <1>1, <1>2 DEF Servers
<1> USE DEF IInv, CommandShaped, Starting, LinksOwned, Link, SessionShaped, WorkersShaped,
            OneLister, ListersSound, Sound, NothingLost, Live, Listing, Locked, None, NoCommand, Servers, Cmds, Remotes
<1>11. CommandShaped'
  BY <1>1, <1>2, <1>3
<1>12. LinksOwned'
  BY <1>1, <1>2, <1>3
<1>13. SessionShaped'
  BY <1>1, <1>2, <1>3
<1>14. WorkersShaped'
  BY <1>1, <1>2, <1>3
<1>15. OneLister'
  BY <1>1, <1>2, <1>3
<1>16. ListersSound'
  BY <1>1, <1>2, <1>3
<1>17. NothingLost'
  BY <1>1, <1>2, <1>3
<1> QED
  BY <1>11, <1>12, <1>13, <1>14, <1>15, <1>16, <1>17 DEF Rest

LEMMA PingKeeps ==
    ASSUME IInv, Ping
    PROVE  Rest'
<1>1. /\ cmd = NoCommand /\ srv.session # None /\ UNCHANGED <<srv, remote, notices, workers>>
      /\ cmd'.op = "ping" /\ cmd'.session = srv.session
      /\ used'.commands = used.commands + 1 /\ used.commands \in Nat
  BY DEF Ping, Given, NoCommand, IInv, TypeOK
<1>2. srv.gen \in Nat
  BY DEF IInv, TypeOK, Servers
<1> USE DEF IInv, CommandShaped, Starting, LinksOwned, Link, SessionShaped, WorkersShaped,
            OneLister, ListersSound, Sound, NothingLost, Live, Listing, Locked, None, NoCommand
<1>11. CommandShaped'
  BY <1>1, <1>2
<1>12. LinksOwned'
  BY <1>1, <1>2
<1>13. SessionShaped'
  BY <1>1, <1>2
<1>14. WorkersShaped'
  BY <1>1, <1>2
<1>15. OneLister'
  BY <1>1, <1>2
<1>16. ListersSound'
  BY <1>1, <1>2
<1>17. NothingLost'
  BY <1>1, <1>2
<1> QED
  BY <1>11, <1>12, <1>13, <1>14, <1>15, <1>16, <1>17 DEF Rest

LEMMA PingedKeeps ==
    ASSUME IInv, Pinged
    PROVE  Rest'
<1>1. /\ cmd.op = "ping" /\ cmd' = NoCommand /\ UNCHANGED <<remote, notices, workers>>
      /\ used'.commands = used.commands
  BY DEF Pinged, Fails, IInv, TypeOK
<1>2. srv.session # None /\ srv.known /\ srv \in Servers
  BY <1>1 DEF IInv, TypeOK, CommandShaped, SessionShaped, Absent
<1>3. /\ srv'.session = srv.session /\ srv'.tools = srv.tools /\ srv'.running = srv.running
      /\ srv'.again = srv.again /\ srv'.pending = srv.pending /\ srv'.gen = srv.gen
      /\ srv'.known = srv.known /\ srv'.version = srv.version /\ srv'.error = srv.error
  BY <1>2 DEF Pinged, Servers
<1> USE DEF IInv, CommandShaped, Starting, LinksOwned, Link, SessionShaped, WorkersShaped,
            OneLister, ListersSound, Sound, NothingLost, Live, Listing, Locked, None, NoCommand
<1>11. CommandShaped'
  BY <1>1, <1>2, <1>3
<1>12. LinksOwned'
  BY <1>1, <1>2, <1>3
<1>13. SessionShaped'
  BY <1>1, <1>2, <1>3
<1>14. WorkersShaped'
  BY <1>1, <1>2, <1>3
<1>15. OneLister'
  BY <1>1, <1>2, <1>3
<1>16. ListersSound'
  BY <1>1, <1>2, <1>3
<1>17. NothingLost'
  BY <1>1, <1>2, <1>3
<1> QED
  BY <1>11, <1>12, <1>13, <1>14, <1>15, <1>16, <1>17 DEF Rest

LEMMA RefreshKeeps ==
    ASSUME IInv, Refresh
    PROVE  Rest'
<1>1. srv.session # None /\ srv.known /\ srv \in Servers
  BY DEF Refresh, IInv, TypeOK, SessionShaped, Absent
<1>2. /\ cmd = NoCommand /\ ~srv.running /\ UNCHANGED <<remote, notices, workers>>
      /\ cmd'.op = "refresh" /\ cmd'.step = "list" /\ cmd'.gen = srv.gen
      /\ cmd'.session = srv.session /\ cmd'.version = srv.version /\ cmd'.got = None
      /\ used'.commands = used.commands + 1 /\ used.commands \in Nat
  BY DEF Refresh, Given, NoCommand, IInv, TypeOK
<1>3. /\ srv'.session = srv.session /\ srv'.tools = srv.tools /\ srv'.running
      /\ srv'.again = srv.again /\ srv'.pending = srv.pending /\ srv'.gen = srv.gen
      /\ srv'.known = srv.known /\ srv'.version = srv.version /\ srv'.error = srv.error
      /\ srv'.status = srv.status /\ srv.gen \in Nat
  BY <1>1 DEF Refresh, Servers
<1> USE DEF IInv, CommandShaped, Starting, LinksOwned, Link, SessionShaped, WorkersShaped,
            OneLister, ListersSound, Sound, NothingLost, Live, Listing, Locked, None, NoCommand
<1>11. CommandShaped'
  BY <1>1, <1>2, <1>3
<1>12. LinksOwned'
  BY <1>1, <1>2, <1>3
<1>13. SessionShaped'
  BY <1>1, <1>2, <1>3
<1>14. WorkersShaped'
  BY <1>1, <1>2, <1>3
<1>15. OneLister'
  BY <1>1, <1>2, <1>3
<1>16. ListersSound'
  BY <1>1, <1>2, <1>3
<1>17. NothingLost'
  BY <1>1, <1>2, <1>3
<1> QED
  BY <1>11, <1>12, <1>13, <1>14, <1>15, <1>16, <1>17 DEF Rest

LEMMA UserListKeeps ==
    ASSUME IInv, UserList
    PROVE  Rest'
<1>1. /\ cmd.op = "refresh" /\ cmd.step = "list" /\ cmd \in Cmds /\ remote.catalog \in Nat
      /\ UNCHANGED <<srv, remote, notices, workers>> /\ used'.commands = used.commands
  BY DEF UserList, Fails, IInv, TypeOK, Remotes
<1>2. cmd.got = None
  BY <1>1 DEF IInv, CommandShaped
<1>3. /\ cmd'.op = "refresh" /\ cmd'.step = "got" /\ cmd'.session = cmd.session
      /\ cmd'.version = cmd.version /\ cmd'.gen = cmd.gen
      /\ cmd'.got \in {None, remote.catalog}
  BY <1>1, <1>2 DEF UserList, Cmds
<1> USE DEF IInv, CommandShaped, Starting, LinksOwned, Link, SessionShaped, WorkersShaped,
            OneLister, ListersSound, Sound, NothingLost, Live, Listing, Locked, None
<1>11. CommandShaped'
  BY <1>1, <1>2, <1>3
<1>12. LinksOwned'
  BY <1>1, <1>2, <1>3
<1>13. SessionShaped'
  BY <1>1, <1>2, <1>3
<1>14. WorkersShaped'
  BY <1>1, <1>2, <1>3
<1>15. OneLister'
  BY <1>1, <1>2, <1>3
<1>16. ListersSound'
  BY <1>1, <1>2, <1>3
<1>17. NothingLost'
  BY <1>1, <1>2, <1>3
<1> QED
  BY <1>11, <1>12, <1>13, <1>14, <1>15, <1>16, <1>17 DEF Rest

(* A notification of another connection, or of none.                           *)
LEMMA StaleNoticeKeeps ==
    ASSUME IInv, NEW g \in Generation, CatalogChanged(g),
           ~srv.known \/ srv.gen # g \/ srv.session = None
    PROVE  Rest'
<1>1. /\ UNCHANGED <<srv, remote, workers, cmd, used>> /\ cmd.op # "start"
      /\ notices' = [notices EXCEPT ![g] = @ - 1]
  BY DEF CatalogChanged, Locked
<1>2. srv.session # None => srv.known /\ notices'[srv.gen] = notices[srv.gen]
  BY <1>1 DEF IInv, SessionShaped, Absent, TypeOK
<1> USE DEF IInv, CommandShaped, Starting, LinksOwned, Link, SessionShaped, WorkersShaped,
            OneLister, ListersSound, Sound, NothingLost, Live, Listing, Locked, None
<1>11. CommandShaped'
  BY <1>1, <1>2
<1>12. LinksOwned'
  BY <1>1, <1>2
<1>13. SessionShaped'
  BY <1>1, <1>2
<1>14. WorkersShaped'
  BY <1>1, <1>2
<1>15. OneLister'
  BY <1>1, <1>2
<1>16. ListersSound'
  BY <1>1, <1>2
<1>17. NothingLost'
  BY <1>1, <1>2
<1> QED
  BY <1>11, <1>12, <1>13, <1>14, <1>15, <1>16, <1>17 DEF Rest

LEMMA NoticeKeeps ==
    ASSUME IInv, NEW g \in Generation, CatalogChanged(g),
           srv.known, srv.gen = g, srv.session # None
    PROVE  Rest'
<1>1. srv.version + 1 \in Nat /\ g \in Nat /\ srv \in Servers
  BY DEF IInv, TypeOK, Servers, Generation
<1>2. UNCHANGED <<remote, cmd, used>> /\ cmd.op # "start" /\ remote.dialed # 0
  BY DEF CatalogChanged, Locked, IInv, TypeOK, SessionShaped, Servers, Remotes, None
<1>3. /\ srv'.session = srv.session /\ srv'.tools = srv.tools /\ srv'.running /\ srv'.pending
      /\ srv'.gen = srv.gen /\ srv'.known = srv.known /\ srv'.status = srv.status
      /\ srv'.error = srv.error
      /\ srv.again => srv'.again
      /\ srv.running => srv'.again /\ workers' = workers
      /\ ~srv.running => \E s \in Slot : LaunchedAt(s, g)
  <2> DEFINE marked == [srv EXCEPT !.pending = TRUE, !.version = @ + 1]
  <2>1. CASE srv.running
    <3>1. srv' = [marked EXCEPT !.again = TRUE] /\ workers' = workers
      BY <2>1 DEF CatalogChanged
    <3> QED
      BY <1>1, <2>1, <3>1 DEF Servers
  <2>2. CASE ~srv.running
    <3>1. srv' = [marked EXCEPT !.running = TRUE] /\ Room /\ workers' = Launched(g)
      BY <2>2 DEF CatalogChanged
    <3>2. \E s \in Slot : LaunchedAt(s, g)
      BY <1>1, <3>1, LaunchedIs DEF IInv, TypeOK
    <3> QED
      BY <1>1, <2>2, <3>1, <3>2 DEF Servers
  <2> QED
    BY <2>1, <2>2
<1> USE DEF IInv, CommandShaped, Starting, LinksOwned, Link, SessionShaped, WorkersShaped,
            OneLister, ListersSound, Sound, NothingLost, Live, Listing, Locked, None, LaunchedAt
<1>11. CommandShaped'
  BY <1>1, <1>2, <1>3
<1>12. LinksOwned'
  BY <1>1, <1>2, <1>3
<1>13. SessionShaped'
  BY <1>1, <1>2, <1>3
<1>14. WorkersShaped'
  BY <1>1, <1>2, <1>3
<1>15. OneLister'
  BY <1>1, <1>2, <1>3
<1>16. ListersSound'
  BY <1>1, <1>2, <1>3
<1>17. NothingLost'
  BY <1>1, <1>2, <1>3
<1> QED
  BY <1>11, <1>12, <1>13, <1>14, <1>15, <1>16, <1>17 DEF Rest

LEMMA RefreshHeadKeeps ==
    ASSUME IInv, NEW z \in Slot, RefreshHead(z)
    PROVE  Rest'
<1>1. /\ UNCHANGED <<srv, remote, notices, cmd, used>> /\ workers \in [Slot -> Workers]
      /\ workers[z].step = "head" /\ cmd.op # "start"
      /\ \A s \in Slot : s # z => workers'[s] = workers[s]
  BY DEF RefreshHead, Locked, IInv, TypeOK
<1>2. \/ /\ srv.known /\ srv.gen = workers[z].gen /\ srv.session # None
         /\ workers'[z] = [workers[z] EXCEPT !.step = "list", !.session = srv.session,
                                             !.version = srv.version]
      \/ /\ ~(srv.known /\ srv.gen = workers[z].gen /\ srv.session # None)
         /\ workers'[z] = Idle
  BY <1>1 DEF RefreshHead
<1>3. srv.session # None => srv.known
  BY DEF IInv, SessionShaped, Absent
<1>4. \/ /\ srv.known /\ srv.gen = workers[z].gen /\ srv.session # None
         /\ workers'[z].step = "list" /\ workers'[z].gen = workers[z].gen
         /\ workers'[z].session = srv.session /\ workers'[z].version = srv.version
      \/ /\ ~(srv.known /\ srv.gen = workers[z].gen /\ srv.session # None)
         /\ workers'[z] = Idle /\ workers'[z].step = "idle"
  <2>1. workers[z] \in Workers /\ Idle.step = "idle"
    BY <1>1 DEF Idle
  <2> QED
    BY <1>2, <2>1 DEF Workers
<1> USE DEF IInv, CommandShaped, Starting, LinksOwned, Link, SessionShaped, WorkersShaped,
            OneLister, ListersSound, Sound, NothingLost, Live, Listing, Locked, None
<1>11. CommandShaped'
  BY <1>1, <1>3, <1>4
<1>12. LinksOwned'
  BY <1>1, <1>3, <1>4
<1>13. SessionShaped'
  BY <1>1, <1>3, <1>4
<1>14. WorkersShaped'
  BY <1>1, <1>3, <1>4
<1>15. OneLister'
  BY <1>1, <1>3, <1>4
<1>16. ListersSound'
  BY <1>1, <1>3, <1>4
<1>17. NothingLost'
  BY <1>1, <1>3, <1>4
<1> QED
  BY <1>11, <1>12, <1>13, <1>14, <1>15, <1>16, <1>17 DEF Rest

LEMMA RefreshListKeeps ==
    ASSUME IInv, NEW z \in Slot, RefreshList(z)
    PROVE  Rest'
<1>1. /\ UNCHANGED <<srv, remote, notices, cmd>> /\ workers \in [Slot -> Workers]
      /\ workers[z].step = "list" /\ remote.catalog \in Nat
      /\ \A s \in Slot : s # z => workers'[s] = workers[s]
      /\ used'.commands = used.commands
  BY DEF RefreshList, Fails, IInv, TypeOK, Remotes
<1>2. /\ workers'[z].step = "got" /\ workers'[z].gen = workers[z].gen
      /\ workers'[z].session = workers[z].session
      /\ workers'[z].version = workers[z].version
      /\ workers'[z].got \in {None, remote.catalog}
  BY <1>1 DEF RefreshList, Workers
<1> USE DEF IInv, CommandShaped, Starting, LinksOwned, Link, SessionShaped, WorkersShaped,
            OneLister, ListersSound, Sound, NothingLost, Live, Listing, Locked, None
<1>11. CommandShaped'
  BY <1>1, <1>2
<1>12. LinksOwned'
  BY <1>1, <1>2
<1>13. SessionShaped'
  BY <1>1, <1>2
<1>14. WorkersShaped'
  BY <1>1, <1>2
<1>15. OneLister'
  BY <1>1, <1>2
<1>16. ListersSound'
  BY <1>1, <1>2
<1>17. NothingLost'
  BY <1>1, <1>2
<1> QED
  BY <1>11, <1>12, <1>13, <1>14, <1>15, <1>16, <1>17 DEF Rest

LEMMA RefreshDoneKeeps ==
    ASSUME IInv, NEW z \in Slot, RefreshDone(z), Current(workers[z])
    PROVE  Rest'
<1>1. srv \in Servers /\ workers \in [Slot -> Workers] /\ workers[z] \in Workers
  BY DEF IInv, TypeOK
<1>2. /\ workers[z].got \in Nat /\ workers[z].gen \in Nat
      /\ srv.known /\ workers[z].gen = srv.gen /\ workers[z].session = srv.session
  BY <1>1 DEF Workers, Current
<1>3. /\ UNCHANGED <<remote, notices, cmd, used>> /\ cmd.op # "start"
      /\ workers[z].step = "got" /\ \A t \in Slot : t # z => workers'[t] = workers[t]
      /\ srv' = Refreshed(srv, workers[z])
      /\ workers'[z] = IF srv.again THEN Heading(workers[z].gen) ELSE Idle
  BY <1>1 DEF RefreshDone, Locked
<1>4. Took(srv, srv', workers[z])
  BY <1>1, <1>2, <1>3, RefreshedIs
<1>5. /\ srv.again => workers'[z].step = "head" /\ workers'[z].gen = srv.gen
      /\ ~srv.again => workers'[z] = Idle /\ workers'[z].step = "idle"
  BY <1>2, <1>3, HeadingIs DEF Idle
<1>6. /\ UNCHANGED <<remote, notices, cmd, used>> /\ cmd.op # "start"
      /\ workers[z].step = "got" /\ \A t \in Slot : t # z => workers'[t] = workers[t]
  BY <1>3
<1> USE DEF IInv, CommandShaped, Starting, LinksOwned, Link, SessionShaped, WorkersShaped,
            OneLister, ListersSound, Sound, NothingLost, Live, Listing, Locked, None, Took
<1>11. CommandShaped'
  BY <1>2, <1>4, <1>5, <1>6
<1>12. LinksOwned'
  BY <1>2, <1>4, <1>5, <1>6
<1>13. SessionShaped'
  BY <1>2, <1>4, <1>5, <1>6
<1>14. WorkersShaped'
  BY <1>2, <1>4, <1>5, <1>6
<1>15. OneLister'
  BY <1>2, <1>4, <1>5, <1>6
<1>16. ListersSound'
  BY <1>2, <1>4, <1>5, <1>6
<1>17. NothingLost'
  BY <1>2, <1>4, <1>5, <1>6
<1> QED
  BY <1>11, <1>12, <1>13, <1>14, <1>15, <1>16, <1>17 DEF Rest

(* A goroutine of a connection that was replaced ends.                         *)
LEMMA StaleRefreshKeeps ==
    ASSUME IInv, NEW z \in Slot, RefreshDone(z), ~Current(workers[z])
    PROVE  Rest'
<1>1. /\ UNCHANGED <<srv, remote, notices, cmd, used>> /\ cmd.op # "start"
      /\ workers[z].step = "got" /\ workers'[z] = Idle
      /\ \A s \in Slot : s # z => workers'[s] = workers[s]
  BY DEF RefreshDone, Locked, IInv, TypeOK
<1>2. srv.session # None => srv.known /\ ~Live(z)
  BY <1>1 DEF IInv, SessionShaped, Absent, ListersSound, Sound, Live, Current
<1>3. workers'[z].step = "idle"
  BY <1>1 DEF Idle
<1> USE DEF IInv, CommandShaped, Starting, LinksOwned, Link, SessionShaped, WorkersShaped,
            OneLister, ListersSound, Sound, NothingLost, Live, Listing, Locked, None
<1>11. CommandShaped'
  BY <1>1, <1>2, <1>3
<1>12. LinksOwned'
  BY <1>1, <1>2, <1>3
<1>13. SessionShaped'
  BY <1>1, <1>2, <1>3
<1>14. WorkersShaped'
  BY <1>1, <1>2, <1>3
<1>15. OneLister'
  BY <1>1, <1>2, <1>3
<1>16. ListersSound'
  BY <1>1, <1>2, <1>3
<1>17. NothingLost'
  BY <1>1, <1>2, <1>3
<1> QED
  BY <1>11, <1>12, <1>13, <1>14, <1>15, <1>16, <1>17 DEF Rest

LEMMA UserDoneKeeps ==
    ASSUME IInv, UserDone
    PROVE  Rest'
<1>1. /\ srv \in Servers /\ cmd.got \in Nat /\ cmd.gen \in Nat
      /\ cmd.op = "refresh" /\ cmd.step = "got" /\ cmd' = NoCommand
      /\ UNCHANGED <<remote, notices, used>>
  BY DEF IInv, TypeOK, Cmds, UserDone
<1>2. srv.session # None /\ cmd.gen = srv.gen /\ cmd.session = srv.session /\ srv.known
  BY <1>1 DEF IInv, CommandShaped, SessionShaped, Absent
<1>3. Current(cmd)
  BY <1>2 DEF Current
<1>4. Took(srv, srv', cmd)
  BY <1>1, <1>3, RefreshedIs DEF UserDone
<1>5. /\ srv.again => \E s \in Slot : LaunchedAt(s, srv.gen)
      /\ ~srv.again => workers' = workers
  BY <1>1, <1>2, <1>3, LaunchedIs DEF UserDone, IInv, TypeOK
<1>6. remote.dialed # 0
  BY <1>2 DEF IInv, TypeOK, SessionShaped, Servers, Remotes, None
<1> USE DEF IInv, CommandShaped, Starting, LinksOwned, Link, SessionShaped, WorkersShaped,
            OneLister, ListersSound, Sound, NothingLost, Live, Listing, Locked, None, Took, LaunchedAt, NoCommand
<1>11. CommandShaped'
  BY <1>1, <1>2, <1>4, <1>5, <1>6
<1>12. LinksOwned'
  BY <1>1, <1>2, <1>4, <1>5, <1>6
<1>13. SessionShaped'
  BY <1>1, <1>2, <1>4, <1>5, <1>6
<1>14. WorkersShaped'
  BY <1>1, <1>2, <1>4, <1>5, <1>6
<1>15. OneLister'
  BY <1>1, <1>2, <1>4, <1>5, <1>6
<1>16. ListersSound'
  BY <1>1, <1>2, <1>4, <1>5, <1>6
<1>17. NothingLost'
  BY <1>1, <1>2, <1>4, <1>5, <1>6
<1> QED
  BY <1>11, <1>12, <1>13, <1>14, <1>15, <1>16, <1>17 DEF Rest

-----------------------------------------------------------------------------
(*                               The theorems                                *)
LEMMA InitIInv == Init => IInv
<1> SUFFICES ASSUME Init PROVE IInv
  OBVIOUS
<1>1. TypeOK
  BY InitTypes DEF Typed
<1>2. /\ srv.known \in BOOLEAN /\ srv.gen = 0 /\ srv.session = None /\ srv.tools = None
      /\ ~srv.running /\ ~srv.pending /\ srv.status # "connected"
      /\ ~srv.known => srv = Absent
  <2>1. CASE srv = Absent
    BY <2>1 DEF Absent, None
  <2>2. CASE srv = [Absent EXCEPT !.known = TRUE, !.status = "disabled"]
    BY <2>2 DEF Absent, None
  <2> QED
    BY <2>1, <2>2 DEF Init
<1>3. /\ remote.catalog = 1 /\ remote.links = {} /\ remote.dialed = 0 /\ cmd = NoCommand
      /\ \A s \in Slot : workers[s] = Idle /\ workers[s].step = "idle"
      /\ used.commands = 0
  BY DEF Init, Idle
<1> USE DEF IInv, CommandShaped, Starting, LinksOwned, Link, SessionShaped, WorkersShaped,
            OneLister, ListersSound, Sound, NothingLost, Live, Listing, Locked, None, NoCommand
<1>11. CommandShaped
  BY <1>2, <1>3
<1>12. LinksOwned
  BY <1>2, <1>3
<1>13. SessionShaped
  BY <1>2, <1>3
<1>14. WorkersShaped
  BY <1>2, <1>3
<1>15. OneLister
  BY <1>2, <1>3
<1>16. ListersSound
  BY <1>2, <1>3
<1>17. NothingLost
  BY <1>2, <1>3
<1> QED
  BY <1>1, <1>11, <1>12, <1>13, <1>14, <1>15, <1>16, <1>17

LEMMA StutterKeeps ==
    ASSUME IInv, UNCHANGED vars
    PROVE  Rest'
<1>1. UNCHANGED <<srv, remote, notices, workers, cmd, used>>
  BY DEF vars
<1> USE DEF IInv, CommandShaped, Starting, LinksOwned, Link, SessionShaped, WorkersShaped,
            OneLister, ListersSound, Sound, NothingLost, Live, Listing, Locked, None
<1>11. CommandShaped'
  BY <1>1
<1>12. LinksOwned'
  BY <1>1
<1>13. SessionShaped'
  BY <1>1
<1>14. WorkersShaped'
  BY <1>1
<1>15. OneLister'
  BY <1>1
<1>16. ListersSound'
  BY <1>1
<1>17. NothingLost'
  BY <1>1
<1> QED
  BY <1>11, <1>12, <1>13, <1>14, <1>15, <1>16, <1>17 DEF Rest

LEMMA NextIInv == IInv /\ [Next]_vars /\ [Usual]_vars => IInv'
<1> SUFFICES ASSUME IInv, [Next]_vars, [Usual]_vars PROVE IInv'
  OBVIOUS
<1>1. TypeOK'
  <2>1. IsFiniteSet(remote.links)
    BY FS_EmptySet, FS_Singleton DEF IInv, LinksOwned
  <2> QED
    BY <2>1, NextTypes DEF IInv, Typed
<1>2. Dial \/ FirstList => Rest'
  BY DialKeeps, FirstListKeeps, StartFails
<1>3. \A g \in Generation : CatalogChanged(g) => Rest'
  BY StaleNoticeKeeps, NoticeKeeps
<1>4. \A s \in Slot : RefreshHead(s) \/ RefreshList(s) \/ RefreshDone(s) => Rest'
  BY RefreshHeadKeeps, RefreshListKeeps, RefreshDoneKeeps, StaleRefreshKeeps
<1>5. Next /\ Usual => Rest'
  BY <1>2, <1>3, <1>4, ChangeKeeps, ReconnectKeeps, EnableKeeps, DisableKeeps,
     RemoveKeeps, AddKeeps, PingKeeps, RefreshKeeps, RegisterKeeps, PingedKeeps, UserListKeeps,
     UserDoneKeeps
     DEF Next, Manager, Usual
<1>6. UNCHANGED vars => Rest'
  BY StutterKeeps
<1> QED
  BY <1>1, <1>5, <1>6 DEF IInv, Rest

(* The invariant holds as long as no server is enabled with a session at hand  *)
(* and no name is added again.                                                 *)
THEOREM CatalogSound == Spec /\ [][Usual]_vars => []IInv
<1> QED
  BY InitIInv, NextIInv, PTL DEF Spec

(* Every part of the state keeps its kind, whatever the commands.              *)
THEOREM CatalogTypes == Spec => []TypeOK
<1>1. Typed /\ [Next]_vars => Typed'
  BY FewLinks, NextTypes DEF Typed
<1>2. Typed => TypeOK
  BY DEF Typed
<1> QED
  BY InitTypes, <1>1, <1>2, PTL DEF Spec

(* Once nothing is under way, a connected server's registered tools are the    *)
(* ones it now has, or the error of a failed refresh shows; as long as no      *)
(* server is enabled with a session at hand, whose goroutines and notices the  *)
(* new generation disowns, and no name is added again, which gives the session *)
(* two listings at once.                                                       *)
THEOREM ConnectedCurrent == Spec /\ [][Usual]_vars => []ConnectedIsCurrent
<1>1. IInv => ConnectedIsCurrent
  <2> SUFFICES ASSUME IInv, Quiet, srv.status = "connected"
               PROVE  srv.error \/ (srv.tools = remote.catalog /\ ~srv.pending)
    BY DEF ConnectedIsCurrent
  <2>1. cmd.op = "none" /\ \A s \in Slot : workers[s] = Idle
    BY DEF Quiet, Busy, NoCommand
  <2>2. srv.session # None
    BY <2>1 DEF IInv, SessionShaped, Locked
  <2>3. ~Listing
    BY <2>1 DEF Listing, Live, Idle
  <2>4. ~(notices[srv.gen] > 0)
    BY <2>2 DEF Quiet, IInv, SessionShaped
  <2> QED
    BY <2>2, <2>3, <2>4 DEF IInv, NothingLost
<1> QED
  BY <1>1, CatalogSound, PTL

-----------------------------------------------------------------------------
(* What holds whatever the commands, or all but one                            *)

(* Who lists or registers has a session of its own.                            *)
OfSession ==
    /\ Typed
    /\ srv.session = None => srv.tools = None
    /\ ~srv.known => srv = Absent
    /\ \A s \in Slot : workers[s].step \in {"list", "got"} => workers[s].session # None
    /\ cmd.op = "refresh" => cmd.session # None
    /\ cmd.op = "start" /\ cmd.step # "dial" => cmd.session # None
    /\ cmd.op \in {"start", "ping"} => srv.known
LEMMA InitOfSession == Init => OfSession
<1> SUFFICES ASSUME Init PROVE OfSession
  OBVIOUS
<1>1. srv.session = None /\ srv.tools = None /\ (~srv.known => srv = Absent)
  <2>1. CASE srv = Absent
    BY <2>1 DEF Absent
  <2>2. CASE srv = [Absent EXCEPT !.known = TRUE, !.status = "disabled"]
    BY <2>2 DEF Absent
  <2> QED
    BY <2>1, <2>2 DEF Init
<1>2. cmd.op = "none" /\ \A s \in Slot : workers[s].step = "idle"
  BY DEF Init, Idle, NoCommand
<1> QED
  BY <1>1, <1>2, InitTypes DEF OfSession

LEMMA NextOfSession == OfSession /\ [Next]_vars => OfSession'
<1> SUFFICES ASSUME OfSession, [Next]_vars PROVE OfSession'
  OBVIOUS
<1>1. Typed' /\ Typed
  BY FewLinks, NextTypes DEF Typed, OfSession
<1>2. /\ srv \in Servers /\ remote.dialed \in Nat /\ workers \in [Slot -> Workers] /\ cmd \in Cmds
  BY DEF OfSession, Typed, TypeOK, Remotes
<1> USE DEF OfSession, None
<1>3. Stopped(srv) \in Servers /\ Stopped(srv).session = None /\ Stopped(srv).tools = None
      /\ Stopped(srv).known = srv.known
  <2>1. Stopped(srv) \in Servers
    BY <1>2, StoppedKind
  <2>2. Stopped(srv).session = 0 /\ Stopped(srv).tools = 0 /\ Stopped(srv).known = srv.known
    BY DEF Stopped, Absent
  <2> QED
    BY <2>1, <2>2
<1>4. ASSUME NEW s \in Servers, s.session = None => s.tools = None, s.known, Start(s)
      PROVE  OfSession'
  <2>1. srv'.session = s.session /\ srv'.tools = s.tools /\ srv'.known
    BY <1>4 DEF Start, Resetting, Servers
  <2>2. cmd'.op = "start" /\ cmd'.step = "dial" /\ workers' = workers
    BY <1>4 DEF Start, NoCommand
  <2> QED
    BY <1>1, <1>4, <2>1, <2>2
<1>5. CASE Reconnect
  BY <1>3, <1>4, <1>5 DEF Reconnect
<1>6. CASE Enable
  BY <1>2, <1>4, <1>6 DEF Enable
<1>7. CASE Add
  <2>1. LET s == [Absent EXCEPT !.known = TRUE, !.status = "added"]
        IN  s \in Servers /\ s.session = None /\ s.tools = None /\ s.known
    BY Kinds DEF Servers, Statuses, Absent
  <2> QED
    BY <1>4, <1>7, <2>1 DEF Add
<1>8. CASE Disable \/ Remove
  <2>1. srv'.session = None /\ srv'.tools = None /\ workers' = workers /\ cmd' = cmd
        /\ (~srv'.known => srv' = Absent)
    <3>1. CASE Disable
      BY <1>3, <3>1 DEF Disable, Servers
    <3>2. CASE Remove
      BY <3>2 DEF Remove, Absent
    <3> QED
      BY <1>8, <3>1, <3>2
  <2> QED
    BY <1>1, <1>8, <2>1 DEF Disable, Remove, Given, NoCommand
<1>9. CASE Dial \/ FirstList
  <2>1. cmd.op = "start" /\ srv.known /\ workers' = workers
    BY <1>9 DEF Dial, FirstList, Locked
  <2>2. CASE srv' = srv
    <3>1. cmd' = NoCommand \/ (cmd'.op = "start" /\ cmd'.session # None)
      <4>1. CASE Dial
        <5>1. cmd' = NoCommand \/ cmd' = [cmd EXCEPT !.step = "list", !.session = remote.dialed + 1]
          BY <4>1 DEF Dial
        <5>2. remote.dialed + 1 # 0
          BY <1>2
        <5> QED
          BY <1>2, <2>1, <5>1, <5>2 DEF Cmds
      <4>2. CASE FirstList
        <5>1. cmd' = NoCommand \/ cmd' = [cmd EXCEPT !.step = "register", !.got = remote.catalog]
          BY <4>2 DEF FirstList
        <5>2. cmd.session # 0
          BY <2>1, <4>2 DEF FirstList
        <5> QED
          BY <1>2, <2>1, <5>1, <5>2 DEF Cmds
      <4> QED
        BY <1>9, <4>1, <4>2
    <3> QED
      BY <1>1, <2>1, <2>2, <3>1 DEF NoCommand
  <2>3. CASE srv' = StartFailed /\ cmd' = NoCommand
    <3>1. CASE srv.status = "added"
      BY <1>1, <2>1, <2>3, <3>1 DEF StartFailed, Absent, NoCommand
    <3>2. CASE srv.status # "added"
      <4>1. srv'.session = srv.session /\ srv'.tools = srv.tools /\ srv'.known
        BY <1>2, <2>1, <2>3, <3>2 DEF StartFailed, Servers
      <4> QED
        BY <1>1, <2>1, <2>3, <4>1 DEF NoCommand
    <3> QED
      BY <3>1, <3>2
  <2> QED
    BY <1>9, <2>2, <2>3 DEF Dial, FirstList
<1>10. CASE Register
  <2>1. srv'.session = cmd.session /\ cmd.session # None /\ srv'.known
    BY <1>2, <1>10 DEF Register, Locked, Servers
  <2>2. cmd'.op = "none" /\ workers' = workers
    BY <1>10 DEF Register, NoCommand
  <2> QED
    BY <1>1, <2>1, <2>2
<1>11. CASE Change \/ Ping \/ Refresh
  <2>1. /\ srv'.session = srv.session /\ srv'.tools = srv.tools /\ workers' = workers
        /\ srv'.known = srv.known /\ (~srv.known => srv' = srv)
    BY <1>2, <1>11 DEF Change, Ping, Refresh, Servers, Absent
  <2>2. cmd' = cmd \/ (cmd'.op \in {"ping", "refresh"} /\ cmd'.session = srv.session
                      /\ srv.session # None)
    BY <1>2, <1>11 DEF Change, Ping, Refresh, NoCommand
  <2>3. srv.session # None => srv.known
    BY DEF Absent
  <2> QED
    BY <1>1, <2>1, <2>2, <2>3
<1>12. CASE Pinged
  <2>1. /\ srv'.session = srv.session /\ srv'.tools = srv.tools
        /\ srv'.known /\ workers' = workers
    BY <1>2, <1>12 DEF Pinged, Servers
  <2>2. cmd'.op = "none"
    BY <1>12 DEF Pinged, NoCommand
  <2> QED
    BY <1>1, <2>1, <2>2
<1>13. CASE UserList
  BY <1>1, <1>2, <1>13 DEF UserList, Cmds
<1>14. CASE UserDone
  <2>1. srv' = srv \/ (Current(cmd) /\ cmd.session # None /\ Took(srv, srv', cmd))
    BY <1>2, <1>14, RefreshedIs DEF UserDone, Cmds
  <2>2. (srv'.session = None => srv'.tools = None) /\ (~srv'.known => srv' = Absent)
    BY <2>1 DEF Took, Current
  <2>3. workers' = workers \/ \E s \in Slot : LaunchedAt(s, cmd.gen)
    BY <1>2, <1>14, LaunchedIs DEF UserDone, Cmds
  <2>4. cmd' = NoCommand
    BY <1>14 DEF UserDone
  <2> QED
    BY <1>1, <2>2, <2>3, <2>4 DEF LaunchedAt, NoCommand
<1>15. CASE \E g \in Generation : CatalogChanged(g)
  <2>1. PICK g \in Generation : CatalogChanged(g)
    BY <1>15
  <2>2. /\ srv'.session = srv.session /\ srv'.tools = srv.tools
        /\ srv'.known = srv.known /\ (~srv.known => srv' = srv) /\ cmd' = cmd
    BY <1>2, <2>1 DEF CatalogChanged, Servers
  <2>3. workers' = workers \/ \E s \in Slot : LaunchedAt(s, g)
    BY <1>2, <2>1, LaunchedIs DEF CatalogChanged, Generation
  <2> QED
    BY <1>1, <2>2, <2>3 DEF LaunchedAt
<1>16. CASE \E s \in Slot : RefreshHead(s) \/ RefreshList(s) \/ RefreshDone(s)
  <2>1. PICK s \in Slot : RefreshHead(s) \/ RefreshList(s) \/ RefreshDone(s)
    BY <1>16
  <2>2. cmd' = cmd /\ \A t \in Slot : t # s => workers'[t] = workers[t]
    BY <1>2, <2>1 DEF RefreshHead, RefreshList, RefreshDone
  <2>5. workers'[s].step \in {"list", "got"} => workers'[s].session # None
    <3>1. CASE RefreshHead(s)
      BY <1>2, <3>1 DEF RefreshHead, Workers, Idle
    <3>2. CASE RefreshList(s)
      BY <1>2, <3>2 DEF RefreshList, Workers
    <3>3. CASE RefreshDone(s)
      <4>1. workers'[s] \in {Idle, Heading(workers[s].gen)}
        <5>1. CASE Current(workers[s]) /\ srv.again
          BY <1>2, <3>3, <5>1 DEF RefreshDone
        <5>2. CASE ~(Current(workers[s]) /\ srv.again)
          BY <1>2, <3>3, <5>2 DEF RefreshDone
        <5> QED
          BY <5>1, <5>2
      <4>2. workers[s].gen \in Nat
        BY <1>2 DEF Workers
      <4>3. Heading(workers[s].gen).step = "head" /\ Idle.step = "idle"
        BY <4>2, HeadingIs DEF Idle
      <4> QED
        BY <4>1, <4>3
    <3> QED
      BY <2>1, <3>1, <3>2, <3>3
  <2>3. srv' = srv \/ (/\ Current(workers[s]) /\ workers[s].session # None
                       /\ Took(srv, srv', workers[s]))
    BY <1>2, <2>1, RefreshedIs DEF RefreshHead, RefreshList, RefreshDone, Workers
  <2>4. (srv'.session = None => srv'.tools = None) /\ (~srv'.known => srv' = Absent)
    BY <2>3 DEF Took, Current
  <2>6. srv.known => srv'.known
    BY <2>3 DEF Took
  <2> QED
    BY <1>1, <2>2, <2>4, <2>5, <2>6
<1>17. CASE UNCHANGED vars
  BY <1>1, <1>17 DEF vars
<1> QED
  BY <1>5, <1>6, <1>7, <1>8, <1>9, <1>10, <1>11, <1>12, <1>13, <1>14, <1>15, <1>16, <1>17
     DEF Next, Manager

(* Without a session no tool stays registered, whatever the commands.          *)
THEOREM Withdrawn == Spec => []WithdrawnStays
<1>1. OfSession => WithdrawnStays
  BY DEF OfSession, WithdrawnStays
<1> QED
  BY <1>1, InitOfSession, NextOfSession, PTL DEF Spec

(* A start holds the lock over a server without a session, and a connection    *)
(* is the session's or the start's.                                            *)
Linked ==
    /\ OfSession
    /\ \A l \in remote.links : l.id # None
    /\ Locked => srv.session = None /\ cmd.step \in {"dial", "list", "register"}
    /\ \A l \in remote.links :
          IF Locked THEN cmd.step # "dial" /\ l.id = cmd.session ELSE l.id = srv.session
LEMMA NextLinked == Linked /\ [Next]_vars /\ [~Reenables]_vars => Linked'
<1> SUFFICES ASSUME Linked, [Next]_vars, [~Reenables]_vars PROVE Linked'
  OBVIOUS
<1>1. OfSession /\ OfSession'
  BY NextOfSession DEF Linked
<1>2. srv \in Servers /\ remote \in Remotes /\ workers \in [Slot -> Workers] /\ cmd \in Cmds
  BY <1>1 DEF OfSession, Typed, TypeOK
<1>3. remote.dialed \in Nat /\ remote.links \subseteq [id : Nat, gen : Nat]
  BY <1>2 DEF Remotes
<1> USE DEF Linked, Locked, None
<1>4. ASSUME NEW s \in Servers, s.session = None, remote'.links = {}, Start(s)
      PROVE  Linked'
  BY <1>1, <1>4 DEF Start, Resetting, Servers, NoCommand
<1>5. CASE Reconnect
  <2>1. Stopped(srv) \in Servers /\ Stopped(srv).session = None
    <3>1. Stopped(srv).session = 0
      BY DEF Stopped, Absent
    <3> QED
      BY <1>2, <3>1, StoppedKind
  <2>2. ~Locked
    BY <1>5 DEF Reconnect, Given, NoCommand
  <2>3. remote'.links = {}
    BY <1>2, <1>5, <2>2 DEF Reconnect, Closed, Remotes
  <2> QED
    BY <1>4, <1>5, <2>1, <2>3 DEF Reconnect
<1>6. CASE Enable /\ ~Reenables
  <2>1. srv.session = None /\ ~Locked /\ remote' = remote /\ Start(srv)
    BY <1>6 DEF Enable, Reenables, Given, NoCommand
  <2>2. remote'.links = {}
    BY <2>1
  <2> QED
    BY <1>2, <1>4, <2>1, <2>2
<1>7. CASE Add
  <2>1. LET s == [Absent EXCEPT !.known = TRUE, !.status = "added"]
        IN  s \in Servers /\ s.session = None
    BY Kinds DEF Servers, Statuses, Absent
  <2>2. srv = Absent /\ ~Locked /\ remote' = remote
    BY <1>1, <1>7 DEF Add, OfSession, Given, NoCommand
  <2>3. remote'.links = {}
    BY <2>2 DEF Absent
  <2> QED
    BY <1>4, <1>7, <2>1, <2>3 DEF Add
<1>8. CASE Disable \/ Remove
  <2>1. ~Locked /\ cmd' = cmd
    BY <1>8 DEF Disable, Remove, Given, NoCommand
  <2>2. remote'.links = {}
    BY <1>2, <1>8, <2>1 DEF Disable, Remove, Closed, Remotes
  <2> QED
    BY <1>1, <2>1, <2>2
<1>9. CASE Dial
  <2>1. CASE cmd' = NoCommand
    <3>1. remote'.links = {}
      BY <1>9, <2>1 DEF Dial, NoCommand
    <3> QED
      BY <1>1, <2>1, <3>1 DEF NoCommand
  <2>2. CASE cmd' # NoCommand
    <3>1. /\ cmd.step = "dial" /\ cmd'.op = "start" /\ cmd'.step = "list" /\ srv' = srv
          /\ remote'.links = remote.links \cup {[id |-> remote.dialed + 1, gen |-> srv.gen]}
          /\ cmd'.session = remote.dialed + 1 /\ cmd.op = "start"
      BY <1>2, <1>9, <2>2 DEF Dial, Remotes, Cmds
    <3>2. remote.links = {}
      BY <3>1
    <3> QED
      BY <1>1, <1>3, <3>1, <3>2
  <2> QED
    BY <2>1, <2>2
<1>10. CASE FirstList
  <2>1. CASE cmd' = NoCommand
    <3>1. remote'.links = {}
      <4>1. cmd.step = "list" /\ cmd.op = "start"
        BY <1>10 DEF FirstList
      <4>2. remote'.links = Closed(cmd.session)
        BY <1>2, <1>10, <2>1, <4>1 DEF FirstList, NoCommand, Remotes, Cmds
      <4> QED
        BY <4>1, <4>2 DEF Closed
    <3> QED
      BY <1>1, <2>1, <3>1 DEF NoCommand
  <2>2. CASE cmd' # NoCommand
    BY <1>1, <1>2, <1>10, <2>2 DEF FirstList, Cmds
  <2> QED
    BY <2>1, <2>2
<1>11. CASE Register
  BY <1>1, <1>2, <1>11 DEF Register, Servers, NoCommand
<1>12. CASE Change \/ Ping \/ Refresh
  BY <1>1, <1>2, <1>12 DEF Change, Ping, Refresh, Given, NoCommand, Servers, Remotes
<1>13. CASE Pinged
  BY <1>1, <1>2, <1>13 DEF Pinged, NoCommand, Servers
<1>14. CASE UserList
  BY <1>1, <1>2, <1>14 DEF UserList, Cmds
<1>15. CASE UserDone
  <2>1. srv' = srv \/ Took(srv, srv', cmd)
    BY <1>2, <1>15, RefreshedIs DEF UserDone, Cmds
  <2> QED
    BY <1>1, <1>15, <2>1 DEF UserDone, NoCommand, Took
<1>16. CASE \E g \in Generation : CatalogChanged(g)
  <2>1. srv'.session = srv.session /\ cmd' = cmd /\ remote' = remote
    BY <1>2, <1>16 DEF CatalogChanged, Servers
  <2> QED
    BY <1>1, <2>1
<1>17. CASE \E s \in Slot : RefreshHead(s) \/ RefreshList(s) \/ RefreshDone(s)
  <2>1. PICK s \in Slot : RefreshHead(s) \/ RefreshList(s) \/ RefreshDone(s)
    BY <1>17
  <2>2. srv' = srv \/ Took(srv, srv', workers[s])
    BY <1>2, <2>1, RefreshedIs DEF RefreshHead, RefreshList, RefreshDone, Workers
  <2>3. cmd' = cmd /\ remote' = remote
    BY <2>1 DEF RefreshHead, RefreshList, RefreshDone
  <2> QED
    BY <1>1, <2>2, <2>3 DEF Took
<1>18. CASE UNCHANGED vars
  BY <1>1, <1>18 DEF vars
<1> QED
  BY <1>5, <1>6, <1>7, <1>8, <1>9, <1>10, <1>11, <1>12, <1>13, <1>14, <1>15, <1>16, <1>17, <1>18
     DEF Next, Manager, Reenables

(* Every connection to the server is its session, or the one being set up, as  *)
(* long as no server is enabled with a session at hand: that session's         *)
(* connection would stay open for ever.                                        *)
THEOREM Owned == Spec /\ [][~Reenables]_vars => []NoOrphan
<1>1. Init => Linked
  BY InitOfSession DEF Init, Linked, Locked, NoCommand
<1>2. Linked => NoOrphan
  BY DEF Linked, NoOrphan
<1> QED
  BY <1>1, <1>2, NextLinked, PTL DEF Spec

(* What a listing that ended is about to register is no older than what is     *)
(* registered; but for the goroutines of earlier generations, which will not.  *)
UpToDate(w) ==
    w.step = "got" /\ w.got # None => srv.tools <= w.got /\ w.got <= remote.catalog
Ordered ==
    /\ OfSession /\ OneLister
    /\ srv.tools <= remote.catalog /\ srv.session <= remote.dialed
    /\ Locked =>
          /\ cmd.step \in {"dial", "list", "register"}
          /\ \A s \in Slot : ~Live(s)
          /\ cmd.step # "dial" => cmd.session = remote.dialed /\ srv.session < remote.dialed
          /\ cmd.step = "register" => cmd.got <= remote.catalog
    /\ cmd.op = "refresh" =>
          /\ srv.known /\ srv.running /\ cmd.gen = srv.gen /\ cmd.step \in {"list", "got"}
          /\ (cmd.step = "list" => cmd.got = None) /\ UpToDate(cmd)
    /\ \A s \in Slot :
          /\ workers[s].step # "idle" =>
                remote.dialed # 0 /\ (srv.known => workers[s].gen <= srv.gen)
          /\ srv.known /\ Live(s) => UpToDate(workers[s])

LEMMA InitOrdered == Init => Ordered
<1> SUFFICES ASSUME Init PROVE Ordered
  OBVIOUS
<1>1. srv.session = 0 /\ srv.tools = 0
  <2>1. CASE srv = Absent
    BY <2>1 DEF Absent, None
  <2>2. CASE srv = [Absent EXCEPT !.known = TRUE, !.status = "disabled"]
    BY <2>2 DEF Absent, None
  <2> QED
    BY <2>1, <2>2 DEF Init
<1>2. cmd.op = "none" /\ \A s \in Slot : workers[s].step = "idle"
  BY DEF Init, Idle, NoCommand
<1>3. remote.catalog = 1 /\ remote.dialed = 0
  BY DEF Init
<1> QED
  BY <1>1, <1>2, <1>3, InitOfSession DEF Ordered, OneLister, Live, Locked

LEMMA NextOrdered ==
    Ordered /\ [Next]_vars /\ [~Readds]_vars => Ordered' /\ [srv'.session = srv.session => srv'.tools >= srv.tools]_vars
<1> SUFFICES ASSUME Ordered, [Next]_vars, [~Readds]_vars
             PROVE  Ordered' /\ (srv'.session = srv.session => srv'.tools >= srv.tools)
  OBVIOUS
<1>1. OfSession /\ OfSession'
  BY NextOfSession DEF Ordered
<1>2. /\ srv \in Servers /\ remote \in Remotes /\ workers \in [Slot -> Workers] /\ cmd \in Cmds
      /\ srv' \in Servers /\ remote' \in Remotes /\ workers' \in [Slot -> Workers] /\ cmd' \in Cmds
  BY <1>1 DEF OfSession, Typed, TypeOK
<1>3. /\ srv.gen \in Nat /\ srv.tools \in Nat /\ srv.session \in Nat
      /\ remote.dialed \in Nat /\ remote.catalog \in Nat /\ cmd.got \in Nat /\ cmd.gen \in Nat
      /\ srv'.tools \in Nat /\ srv'.gen \in Nat
      /\ \A s \in Slot : workers[s] \in Workers /\ workers[s].gen \in Nat /\ workers[s].got \in Nat
  BY <1>2 DEF Servers, Remotes, Workers, Cmds
<1>4. srv.session = 0 => srv.tools = 0
  BY <1>1 DEF OfSession, None
<1> USE DEF Locked, None
(* A new generation leaves every goroutine behind.                             *)
<1>5. ASSUME srv'.gen > srv.gen, workers' = workers, remote'.dialed = remote.dialed,
             remote'.catalog = remote.catalog, srv.known,
             srv'.tools = 0 \/ srv'.tools = srv.tools, srv'.session = 0 \/ srv'.session = srv.session,
             cmd' = NoCommand \/ (cmd'.op = "start" /\ cmd'.step = "dial")
      PROVE  Ordered'
  <2>1. \A s \in Slot : workers'[s].step # "idle" => workers'[s].gen < srv'.gen
    BY <1>3, <1>5 DEF Ordered
  <2>2. \A s \in Slot : ~Live(s)'
    BY <1>2, <1>3, <1>5, <2>1 DEF Live, Servers
  <2>3. srv'.tools <= remote'.catalog /\ srv'.session <= remote'.dialed
    BY <1>3, <1>5 DEF Ordered
  <2>4. \A s \in Slot : workers'[s].step # "idle" => workers'[s].gen <= srv'.gen
    BY <1>2, <1>3, <1>5, <2>1 DEF Servers
  <2>5. cmd'.op # "refresh" /\ (cmd'.op = "start" => cmd'.step = "dial")
    BY <1>5 DEF NoCommand
  <2> QED
    BY <1>1, <1>5, <2>2, <2>3, <2>4, <2>5 DEF Ordered, OneLister
<1>6. Stopped(srv).gen = srv.gen + 1 /\ Stopped(srv).session = 0 /\ Stopped(srv).tools = 0
      /\ Stopped(srv) \in Servers
  <2>1. Stopped(srv).gen = srv.gen + 1 /\ Stopped(srv).session = 0 /\ Stopped(srv).tools = 0
    BY DEF Stopped, Absent
  <2> QED
    BY <1>2, <2>1, StoppedKind
<1>7. CASE Reconnect \/ Disable
  <2>1. remote'.dialed = remote.dialed /\ remote'.catalog = remote.catalog /\ srv.known
        /\ workers' = workers
    BY <1>2, <1>7 DEF Reconnect, Disable, Start, Remotes
  <2>2. srv'.gen > srv.gen /\ srv'.session = 0 /\ srv'.tools = 0
    <3>1. CASE Reconnect
      BY <1>3, <1>6, <3>1 DEF Reconnect, Start, Resetting, Servers
    <3>2. CASE Disable
      BY <1>3, <1>6, <3>2 DEF Disable, Servers
    <3> QED
      BY <1>7, <3>1, <3>2
  <2>3. cmd' = NoCommand \/ (cmd'.op = "start" /\ cmd'.step = "dial")
    BY <1>7 DEF Reconnect, Disable, Start, Given, NoCommand
  <2> QED
    BY <1>3, <1>4, <1>5, <2>1, <2>2, <2>3
<1>8. CASE Enable
  <2>1. srv'.gen = srv.gen + 1 /\ srv'.session = srv.session /\ srv'.tools = srv.tools
        /\ workers' = workers /\ cmd'.op = "start" /\ cmd'.step = "dial" /\ remote' = remote
        /\ srv.known
    BY <1>2, <1>3, <1>8 DEF Enable, Start, Resetting, Servers, NoCommand
  <2> QED
    BY <1>3, <1>5, <2>1
<1>9. CASE Remove
  <2>1. /\ ~srv'.known /\ srv'.session = 0 /\ srv'.tools = 0 /\ workers' = workers
        /\ remote'.dialed = remote.dialed /\ remote'.catalog = remote.catalog
        /\ cmd'.op = "none"
    BY <1>2, <1>9 DEF Remove, Absent, Remotes, Given, NoCommand
  <2> QED
    BY <1>1, <1>3, <1>4, <2>1 DEF Ordered, OneLister
<1>10. CASE Add
  <2>1. remote.dialed = 0
    BY <1>10 DEF Readds, vars, Add, Start, NoCommand, Given
  <2>2. \A s \in Slot : workers'[s].step = "idle"
    BY <1>10, <2>1 DEF Ordered, Add, Start
  <2>3. srv'.session = 0 /\ srv'.tools = 0
    BY <1>10 DEF Add, Start, Resetting, Absent
  <2>4. cmd'.op = "start" /\ cmd'.step = "dial" /\ remote' = remote /\ srv = Absent
    BY <1>1, <1>10 DEF Add, Start, NoCommand, OfSession
  <2> QED
    BY <1>1, <1>3, <2>2, <2>3, <2>4 DEF Ordered, OneLister, Live, Absent
<1>11. ASSUME srv' = StartFailed, cmd' = NoCommand, workers' = workers, Locked, srv.known,
              remote'.dialed = remote.dialed, remote'.catalog = remote.catalog
       PROVE  Ordered' /\ (srv'.session = srv.session => srv'.tools >= srv.tools)
  <2>1. cmd'.op = "none"
    BY <1>11 DEF NoCommand
  <2>2. CASE srv.status = "added"
    <3>1. ~srv'.known /\ srv'.session = 0 /\ srv'.tools = 0
      BY <1>11, <2>2 DEF StartFailed, Absent
    <3> QED
      BY <1>1, <1>3, <1>4, <1>11, <2>1, <3>1 DEF Ordered, OneLister
  <2>3. CASE srv.status # "added"
    <3>1. srv'.known /\ srv'.session = srv.session /\ srv'.tools = srv.tools /\ srv'.gen = srv.gen
      BY <1>2, <1>11, <2>3 DEF StartFailed, Servers
    <3> QED
      BY <1>1, <1>3, <1>11, <2>1, <3>1 DEF Ordered, OneLister, Live
  <2> QED
    BY <2>2, <2>3
<1>12. CASE Dial \/ FirstList
  <2>1. Locked /\ srv.known /\ workers' = workers
    BY <1>1, <1>12 DEF Dial, FirstList, OfSession
  <2>2. CASE srv' = StartFailed /\ cmd' = NoCommand
    <3>1. remote'.dialed = remote.dialed /\ remote'.catalog = remote.catalog
      <4>1. CASE Dial
        BY <2>1, <2>2, <4>1 DEF Dial, NoCommand
      <4>2. CASE FirstList
        BY <1>2, <4>2 DEF FirstList, Remotes
      <4> QED
        BY <1>12, <4>1, <4>2
    <3> QED
      BY <1>11, <2>1, <2>2, <3>1
  <2>3. CASE Dial /\ ~(srv' = StartFailed /\ cmd' = NoCommand)
    <3>1. /\ srv' = srv /\ cmd'.op = "start" /\ cmd'.step = "list"
          /\ cmd'.session = remote.dialed + 1 /\ remote'.dialed = remote.dialed + 1
          /\ remote'.catalog = remote.catalog
      BY <1>2, <2>1, <2>3 DEF Dial, Remotes, Cmds
    <3>2. /\ srv'.session < remote'.dialed /\ srv'.session <= remote'.dialed
          /\ remote'.dialed # 0
      BY <1>3, <3>1 DEF Ordered
    <3> QED
      BY <1>1, <1>3, <2>1, <3>1, <3>2 DEF Ordered, OneLister, Live, UpToDate
  <2>4. CASE FirstList /\ ~(srv' = StartFailed /\ cmd' = NoCommand)
    <3>1. /\ srv' = srv /\ cmd'.op = "start" /\ cmd'.step = "register" /\ cmd.step = "list"
          /\ cmd'.session = cmd.session /\ remote' = remote /\ cmd'.got = remote.catalog
      BY <1>2, <2>1, <2>4 DEF FirstList, Cmds
    <3> QED
      BY <1>1, <1>3, <2>1, <3>1 DEF Ordered, OneLister, Live, UpToDate
  <2> QED
    BY <1>12, <2>2, <2>3, <2>4
<1>13. CASE Register
  <2>1. /\ Locked /\ cmd.step = "register" /\ cmd'.op = "none" /\ workers' = workers
        /\ remote' = remote
    BY <1>13 DEF Register, NoCommand
  <2>2. /\ srv'.session = cmd.session /\ srv'.tools = cmd.got /\ srv'.gen = srv.gen
        /\ srv'.known = srv.known
    BY <1>2, <1>13 DEF Register, Servers
  <2>3. cmd.session = remote.dialed /\ srv.session < remote.dialed /\ cmd.got <= remote.catalog
    BY <2>1 DEF Ordered
  <2>4. srv'.session # srv.session /\ srv'.session <= remote'.dialed
    BY <1>3, <2>1, <2>2, <2>3
  <2> QED
    BY <1>1, <1>3, <2>1, <2>2, <2>3, <2>4 DEF Ordered, OneLister, Live
<1>14. CASE Change
  <2>1. /\ srv' = srv /\ workers' = workers /\ cmd' = cmd /\ remote'.dialed = remote.dialed
        /\ remote'.catalog = remote.catalog + 1
    BY <1>2, <1>14 DEF Change, Remotes
  <2> QED
    BY <1>1, <1>3, <2>1 DEF Ordered, OneLister, Live, UpToDate
<1>15. CASE Ping \/ Pinged
  <2>1. /\ srv'.session = srv.session /\ srv'.tools = srv.tools /\ srv'.gen = srv.gen
        /\ srv'.known = srv.known /\ srv'.running = srv.running /\ workers' = workers
        /\ remote' = remote /\ cmd'.op \notin {"start", "refresh"}
    <3>1. CASE Ping
      BY <3>1 DEF Ping, NoCommand
    <3>2. CASE Pinged
      <4>1. /\ workers' = workers /\ remote' = remote /\ cmd'.op = "none"
            /\ srv' = srv \/ \E st \in Statuses : srv' = [srv EXCEPT !.status = st]
        BY <3>2 DEF Pinged, NoCommand, Statuses
      <4> QED
        BY <1>2, <4>1 DEF Servers
    <3> QED
      BY <1>15, <3>1, <3>2
  <2> QED
    BY <1>1, <1>3, <2>1 DEF Ordered, OneLister, Live, UpToDate
<1>16. CASE Refresh
  <2>1. /\ srv'.session = srv.session /\ srv'.tools = srv.tools /\ srv'.gen = srv.gen
        /\ srv'.known = srv.known /\ srv'.running /\ workers' = workers /\ ~srv.running
        /\ remote' = remote /\ cmd'.op = "refresh" /\ cmd'.step = "list" /\ cmd'.gen = srv.gen
        /\ cmd'.got = 0
    BY <1>2, <1>16 DEF Refresh, Servers, NoCommand
  <2>2. srv.known
    BY <1>1, <1>16 DEF Refresh, OfSession, Absent
  <2>3. \A s \in Slot : ~Live(s)
    BY <2>1, <2>2 DEF Ordered, OneLister
  <2>4. \A s \in Slot : ~Live(s)'
    BY <2>1, <2>3 DEF Live
  <2> QED
    BY <1>1, <1>3, <2>1, <2>2, <2>4 DEF Ordered, OneLister, UpToDate
<1>17. CASE UserList
  <2>1. /\ cmd.op = "refresh" /\ cmd.step = "list" /\ cmd'.op = "refresh" /\ cmd'.step = "got"
        /\ cmd'.gen = cmd.gen /\ cmd'.got \in {cmd.got, remote.catalog}
        /\ srv' = srv /\ workers' = workers /\ remote' = remote
    BY <1>2, <1>17 DEF UserList, Cmds
  <2> QED
    BY <1>1, <1>3, <2>1 DEF Ordered, OneLister, Live, UpToDate
(* Whoever registers is the only one who lists.                                *)
<1>18. ASSUME NEW w, w.got \in Nat, w.step = "got", UpToDate(w), Took(srv, srv', w)
       PROVE  /\ srv'.known = srv.known /\ srv'.gen = srv.gen /\ srv'.session = srv.session
              /\ srv'.running = srv.again
              /\ srv.tools <= srv'.tools /\ srv'.tools <= remote.catalog
  BY <1>3, <1>18 DEF Took, UpToDate, Ordered
<1>19. CASE UserDone
  <2>1. /\ cmd.op = "refresh" /\ cmd.step = "got" /\ cmd'.op = "none" /\ remote' = remote
        /\ srv.known /\ cmd.gen = srv.gen /\ UpToDate(cmd)
    BY <1>19 DEF UserDone, NoCommand, Ordered
  <2>2. \A s \in Slot : ~Live(s)
    BY <2>1 DEF Ordered, OneLister
  <2>3. CASE Current(cmd)
    <3>1. Took(srv, srv', cmd)
      BY <1>2, <1>3, <1>19, <2>3, RefreshedIs DEF UserDone
    <3>2. /\ srv'.known = srv.known /\ srv'.gen = srv.gen /\ srv'.session = srv.session
          /\ srv'.running = srv.again
          /\ srv.tools <= srv'.tools /\ srv'.tools <= remote.catalog
      BY <1>3, <1>18, <2>1, <3>1
    <3>3. CASE ~srv.again
      <4>1. workers' = workers
        BY <1>19, <2>3, <3>3 DEF UserDone
      <4> QED
        BY <1>1, <1>3, <2>1, <2>2, <3>2, <4>1 DEF Ordered, OneLister, Live
    <3>4. CASE srv.again
      <4>1. PICK z \in Slot : LaunchedAt(z, cmd.gen)
        BY <1>2, <1>3, <1>19, <2>3, <3>4, LaunchedIs DEF UserDone
      <4>2. \A s \in Slot : s # z => ~Live(s)'
        BY <2>2, <3>2, <4>1 DEF Live, LaunchedAt
      <4>3. remote.dialed # 0
        BY <1>1, <1>3, <2>1, <2>3 DEF OfSession, Current, Ordered
      <4> QED
        BY <1>1, <1>3, <2>1, <3>2, <3>4, <4>1, <4>2, <4>3
           DEF Ordered, OneLister, LaunchedAt, UpToDate
    <3> QED
      BY <3>3, <3>4
  <2>4. CASE ~Current(cmd)
    <3>1. srv' = srv /\ workers' = workers
      BY <1>19, <2>4 DEF UserDone
    <3> QED
      BY <1>1, <1>3, <2>1, <2>2, <3>1 DEF Ordered, OneLister, Live
  <2> QED
    BY <2>3, <2>4
<1>20. CASE \E g \in Generation : CatalogChanged(g)
  <2>1. PICK g \in Generation : CatalogChanged(g)
    BY <1>20
  <2>2. ~Locked /\ remote' = remote /\ cmd' = cmd /\ g \in Nat
    BY <2>1 DEF CatalogChanged, Generation
  <2>3. CASE UNCHANGED <<srv, workers>>
    BY <1>1, <1>3, <2>2, <2>3 DEF Ordered, OneLister, Live, UpToDate
  <2>4. CASE ~UNCHANGED <<srv, workers>>
    <3>1. srv.known /\ srv.gen = g /\ srv.session # 0
      BY <2>1, <2>4 DEF CatalogChanged
    <3>2. /\ srv'.known /\ srv'.gen = srv.gen /\ srv'.session = srv.session
          /\ srv'.tools = srv.tools /\ srv'.running
      BY <1>2, <2>1, <3>1 DEF CatalogChanged, Servers
    <3>3. CASE srv.running
      <4>1. workers' = workers
        BY <2>1, <3>1, <3>3 DEF CatalogChanged
      <4> QED
        BY <1>1, <1>3, <2>2, <3>1, <3>2, <4>1 DEF Ordered, OneLister, Live, UpToDate
    <3>4. CASE ~srv.running
      <4>1. PICK z \in Slot : LaunchedAt(z, g)
        BY <1>2, <2>1, <2>2, <3>1, <3>4, LaunchedIs DEF CatalogChanged
      <4>2. \A s \in Slot : ~Live(s)
        BY <3>1, <3>4 DEF Ordered, OneLister
      <4>3. \A s \in Slot : s # z => ~Live(s)'
        BY <3>2, <4>1, <4>2 DEF Live, LaunchedAt
      <4>4. remote.dialed # 0 /\ cmd.op # "refresh"
        BY <1>3, <3>1, <3>4 DEF Ordered
      <4> QED
        BY <1>1, <1>3, <2>2, <3>1, <3>2, <4>1, <4>3, <4>4
           DEF Ordered, OneLister, LaunchedAt, UpToDate
    <3> QED
      BY <3>3, <3>4
  <2> QED
    BY <2>3, <2>4
<1>21. CASE \E s \in Slot : RefreshHead(s) \/ RefreshList(s) \/ RefreshDone(s)
  <2>1. PICK z \in Slot : RefreshHead(z) \/ RefreshList(z) \/ RefreshDone(z)
    BY <1>21
  <2>2. /\ cmd' = cmd /\ remote' = remote /\ workers[z].step # "idle"
        /\ \A t \in Slot : t # z => workers'[t] = workers[t]
    BY <1>2, <2>1 DEF RefreshHead, RefreshList, RefreshDone
  <2>3. workers'[z].step = "idle" \/ workers'[z].gen = workers[z].gen
    <3>1. CASE RefreshHead(z)
      BY <1>2, <3>1 DEF RefreshHead, Workers, Idle
    <3>2. CASE RefreshList(z)
      BY <1>2, <3>2 DEF RefreshList, Workers
    <3>3. CASE RefreshDone(z)
      <4>1. workers'[z] \in {Idle, Heading(workers[z].gen)}
        <5>1. CASE Current(workers[z]) /\ srv.again
          BY <1>2, <3>3, <5>1 DEF RefreshDone
        <5>2. CASE ~(Current(workers[z]) /\ srv.again)
          BY <1>2, <3>3, <5>2 DEF RefreshDone
        <5> QED
          BY <5>1, <5>2
      <4>2. Heading(workers[z].gen).gen = workers[z].gen /\ Idle.step = "idle"
        BY <1>3, HeadingIs DEF Idle
      <4> QED
        BY <4>1, <4>2
    <3> QED
      BY <2>1, <3>1, <3>2, <3>3
  <2>4. CASE srv' = srv
    <3>1. workers'[z].step = "got" => workers'[z].got \in {0, remote.catalog}
      <4>1. CASE RefreshHead(z)
        BY <1>2, <4>1 DEF RefreshHead, Workers, Idle
      <4>2. CASE RefreshList(z)
        BY <1>2, <4>2 DEF RefreshList, Workers
      <4>3. CASE RefreshDone(z)
        <5>1. workers'[z] \in {Idle, Heading(workers[z].gen)}
          <6>1. CASE Current(workers[z]) /\ srv.again
            BY <1>2, <4>3, <6>1 DEF RefreshDone
          <6>2. CASE ~(Current(workers[z]) /\ srv.again)
            BY <1>2, <4>3, <6>2 DEF RefreshDone
          <6> QED
            BY <6>1, <6>2
        <5>2. Heading(workers[z].gen).step = "head" /\ Idle.step = "idle"
          BY <1>3, HeadingIs DEF Idle
        <5> QED
          BY <5>1, <5>2
      <4> QED
        BY <2>1, <4>1, <4>2, <4>3
    <3>2. \A s \in Slot : Live(s)' => Live(s)
      BY <2>2, <2>3, <2>4 DEF Live
    <3>3. \A s \in Slot : srv.known /\ Live(s)' => UpToDate(workers[s])'
      BY <1>3, <2>2, <2>4, <3>1, <3>2 DEF Ordered, UpToDate
    <3>4. \A s \in Slot : workers'[s].step # "idle" =>
              remote.dialed # 0 /\ (srv.known => workers'[s].gen <= srv.gen)
      BY <2>2, <2>3 DEF Ordered
    <3> QED
      BY <1>1, <1>3, <2>2, <2>4, <3>2, <3>3, <3>4 DEF Ordered, OneLister, UpToDate
  <2>5. CASE srv' # srv
    <3>1. /\ RefreshDone(z) /\ workers[z].step = "got" /\ Current(workers[z])
          /\ srv' = Refreshed(srv, workers[z])
      BY <2>1, <2>5 DEF RefreshHead, RefreshList, RefreshDone
    <3>2. Live(z) /\ srv.known /\ ~Locked /\ UpToDate(workers[z])
      BY <2>1, <3>1 DEF Live, Current, RefreshDone, Ordered
    <3>3. cmd.op # "refresh" /\ \A s \in Slot : s # z => ~Live(s)
      BY <3>2 DEF Ordered, OneLister
    <3>4. Took(srv, srv', workers[z])
      BY <1>2, <1>3, <3>1, RefreshedIs
    <3>5. /\ srv'.known = srv.known /\ srv'.gen = srv.gen /\ srv'.session = srv.session
          /\ srv'.running = srv.again
          /\ srv.tools <= srv'.tools /\ srv'.tools <= remote.catalog
      BY <1>3, <1>18, <3>1, <3>2, <3>4
    <3>6. \A s \in Slot : s # z => ~Live(s)'
      BY <2>2, <3>3, <3>5 DEF Live
    <3>7. workers'[z] = IF srv.again THEN Heading(workers[z].gen) ELSE Idle
      BY <1>2, <3>1 DEF RefreshDone
    <3>8. workers'[z].step # "got" /\ (workers'[z].step # "idle" => srv.again)
      BY <1>3, <3>7, HeadingIs DEF Idle
    <3>9. \A s \in Slot : workers'[s].step # "idle" =>
              remote.dialed # 0 /\ (srv.known => workers'[s].gen <= srv.gen)
      BY <2>2, <2>3 DEF Ordered
    <3>10. OneLister'
      BY <2>2, <3>3, <3>5, <3>6, <3>8 DEF OneLister, Live
    <3>11. \A s \in Slot : srv'.known /\ Live(s)' => UpToDate(workers[s])'
      BY <3>6, <3>8 DEF UpToDate
    <3> QED
      BY <1>1, <1>3, <2>2, <3>2, <3>3, <3>5, <3>9, <3>10, <3>11 DEF Ordered
  <2> QED
    BY <2>4, <2>5
<1>22. CASE UNCHANGED vars
  BY <1>1, <1>3, <1>22 DEF vars, Ordered, OneLister, Live, UpToDate
<1> QED
  BY <1>7, <1>8, <1>9, <1>10, <1>12, <1>13, <1>14, <1>15, <1>16, <1>17, <1>19, <1>20, <1>21, <1>22
     DEF Next, Manager

(* A refresh of one connection never puts back an older list, as long as no    *)
(* name is added again: a goroutine of the name's earlier connections may then *)
(* list beside the new one's and be the last to register.                      *)
THEOREM Newer == Spec /\ [][~Readds]_vars => NeverOlder
<1> QED
  BY InitOrdered, NextOrdered, PTL DEF Spec, NeverOlder
=============================================================================
