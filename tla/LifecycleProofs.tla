-------------------------- MODULE LifecycleProofs --------------------------
(***************************************************************************)
(* Theorems about Lifecycle, for any number of managers, servers,          *)
(* connections and senders.                                                *)
(***************************************************************************)
EXTENDS Lifecycle, TLAPS

-----------------------------------------------------------------------------
(***************************************************************************)
(* The invariant of the objects and what they own, at whatever time the    *)
(* application stops a server.                                             *)
(***************************************************************************)
\* The manager of a connection, and where a connection is when it is with one.
Manager(c) == CurrCellManager(conn[c].fd)
InManager == {"stored", "queued", "refused", "announced", "closing"}

Deletes == {"managers", "joinmanager", "closemanager", "deletemanager", "destroy"}
InLoop == {"loop", "body", "adding", "erase", "wait", "spin"}

\* The server the application holds is the last one it made; later ones do not exist yet,
\* and nothing is left of earlier ones.
ServersInv ==
    /\ server # NoServer => server = starts
    /\ pc # "idle" => server # NoServer
    /\ \A s \in Servers : s > starts =>
          \A p \in Parts : thread[s][p] = "none" /\ ~ Deleted(s, p)
    /\ \A s \in Servers : s <= starts /\ s # server => \A p \in Parts : Deleted(s, p)

\* Where stop is among the managers.
TurnInv ==
    /\ pc \in Deletes => \A m \in Managers : m < turn => Deleted(server, m)
    /\ pc = "join" => turn = 1
    /\ pc \in {"joinmanager", "closemanager", "deletemanager"} => turn \in Managers
    /\ pc = "destroy" => turn = Last + 1

\* An acceptor in its loop is the current server's, and is_running_ says so until stop
\* waits for it; the threads are made in order, the acceptor's last.
AcceptorInv ==
    /\ \A s \in Servers :
          thread[s][Acceptor] \in InLoop => s = server /\ (running[s][Acceptor] \/ pc = "join")
    /\ pc = "start" =>
          \A p \in Parts : p = Acceptor \/ p >= turn => thread[server][p] = "none"

\* What is open belongs to a part of the current server that has not closed it yet.
OpenInv ==
    \A s \in Servers, p \in Parts : <<s, p>> \in open =>
        /\ s = server
        /\ p = Acceptor => pc # "destroy"
        /\ p \in Managers => ~ Deleted(s, p) /\ ~ (p = turn /\ pc = "deletemanager")

\* A connection that is not closed is with an open acceptor, with the acceptor's thread, or
\* in a manager that exists.
ConnInv ==
    \A c \in Conns :
        /\ conn[c].state = "pending" => <<conn[c].server, Acceptor>> \in open
        /\ conn[c].state = "accepted" =>
              /\ conn[c].server \in Servers
              /\ thread[conn[c].server][Acceptor] = "adding"
              /\ \A d \in Conns : Is(d, "accepted", conn[c].server) => d = c
        /\ conn[c].state \in InManager =>
              /\ conn[c].server = server /\ server # NoServer
              /\ ~ Deleted(server, Manager(c))

\* A connection whose descriptor is closed and whose cell is still to be erased is the one
\* its manager's thread is about to erase.
ClosingInv ==
    \A c \in Conns : conn[c].state = "closing" =>
        /\ thread[server][Manager(c)] = "erase"
        /\ \A d \in Conns : conn[d].state = "closing" /\ Manager(d) = Manager(c) => d = c

IInv ==
    /\ TypeOK
    /\ ServersInv
    /\ TurnInv
    /\ AcceptorInv
    /\ OpenInv
    /\ ConnInv
    /\ ClosingInv

(***************************************************************************)
(* What holds besides when a server is stopped only once its threads run.  *)
(***************************************************************************)
Ended == {"none", "end"}

ThreadsInv ==
    /\ \A s \in Servers : s # server => \A p \in Parts : thread[s][p] \in Ended
    /\ pc \notin {"idle", "start"} => \A p \in Parts : thread[server][p] # "born"
    /\ \A s \in Servers, m \in Managers :
          thread[s][m] \in InLoop => running[s][m] \/ (pc = "joinmanager" /\ m = turn)

\* A part whose deletion has got past its thread has no thread any more; only such parts
\* are deleted.
JoinInv ==
    server # NoServer =>
        /\ pc \in Deletes \cup {"join"} => ~ running[server][Acceptor]
        /\ pc \in Deletes => thread[server][Acceptor] \in Ended
        /\ pc \in Deletes =>
              \A m \in Managers : m < turn => thread[server][m] \in Ended
        /\ pc \in {"closemanager", "deletemanager"} =>
              turn \in Parts /\ thread[server][turn] \in Ended
        /\ \A p \in Parts : Deleted(server, p) => p \in Managers /\ pc \in Deletes /\ p < turn

StopInv == "stop" \notin broken => ThreadsInv /\ JoinInv

(***************************************************************************)
(* And when nobody is in senddata while there is no server or one is being *)
(* stopped.                                                                *)
(***************************************************************************)
SendInv ==
    broken = {} =>
        /\ \A x \in Senders : sending[x] # NoServer => pc = "idle" /\ sending[x] = server
        /\ wild = {}

SInv == IInv /\ StopInv /\ SendInv

-----------------------------------------------------------------------------
(* Facts about functions of functions and about the connections. *)

\* One entry of one part of one server is changed.
LEMMA Entry ==
    ASSUME NEW X, NEW f \in [Servers -> [Parts -> X]], NEW g,
           NEW s \in Servers, NEW p \in Parts, NEW v \in X,
           g = [f EXCEPT ![s][p] = v]
    PROVE  /\ g \in [Servers -> [Parts -> X]]
           /\ g[s][p] = v
           /\ \A t \in Servers, q \in Parts : t # s \/ q # p => g[t][q] = f[t][q]
<1>1. g = [f EXCEPT ![s] = [f[s] EXCEPT ![p] = v]]
  OBVIOUS
<1>2. [f[s] EXCEPT ![p] = v] \in [Parts -> X]
  OBVIOUS
<1>3. g[s] = [f[s] EXCEPT ![p] = v]
  BY <1>1
<1>4. \A t \in Servers : t # s => g[t] = f[t]
  BY <1>1
<1>5. g \in [Servers -> [Parts -> X]]
  BY <1>1, <1>2
<1>6. g[s][p] = v
  BY <1>3
<1>7. \A q \in Parts : q # p => g[s][q] = f[s][q]
  BY <1>3
<1> QED
  BY <1>4, <1>5, <1>6, <1>7

\* The same for a flag.
LEMMA FlagEntry ==
    ASSUME NEW f \in [Servers -> [Parts -> BOOLEAN]], NEW g,
           NEW s \in Servers, NEW p \in Parts, NEW v \in BOOLEAN,
           g = [f EXCEPT ![s][p] = v]
    PROVE  /\ g \in [Servers -> [Parts -> BOOLEAN]]
           /\ g[s][p] = v
           /\ \A t \in Servers, q \in Parts : t # s \/ q # p => g[t][q] = f[t][q]
<1> DEFINE B == BOOLEAN
<1>1. f \in [Servers -> [Parts -> B]] /\ v \in B
  OBVIOUS
<1> HIDE DEF B
<1>2. /\ g \in [Servers -> [Parts -> B]]
      /\ g[s][p] = v
      /\ \A t \in Servers, q \in Parts : t # s \/ q # p => g[t][q] = f[t][q]
  BY <1>1, Entry
<1> USE DEF B
<1> QED
  BY <1>2, Zenon

ConnRecord == [state : ConnStates, server : Servers \cup {NoServer}, fd : Fds \cup {0}]
ConnType == [Conns -> ConnRecord]

\* Every descriptor has a manager, and so has every connection.
LEMMA ManagerOf == \A f \in Fds \cup {0} : CurrCellManager(f) \in Managers
BY LastAssumption, FdsAssumption, Z3 DEF Managers, CurrCellManager

LEMMA HasManager ==
    ASSUME conn \in ConnType, NEW c \in Conns
    PROVE  Manager(c) \in Managers
<1>1. conn[c].fd \in Fds \cup {0}
  BY DEF ConnType, ConnRecord
<1> QED
  BY <1>1, ManagerOf DEF Manager

\* One connection gets another state.
LEMMA BecomeStep ==
    ASSUME conn \in ConnType, NEW c \in Conns, NEW state \in ConnStates, Become(c, state)
    PROVE  /\ conn' \in ConnType
           /\ conn'[c].state = state
           /\ \A d \in Conns : d # c => conn'[d] = conn[d]
           /\ \A d \in Conns : conn'[d].server = conn[d].server /\ conn'[d].fd = conn[d].fd
<1>1. conn' = [conn EXCEPT ![c] = [conn[c] EXCEPT !.state = state]]
  BY DEF Become
<1>2. conn[c] \in ConnRecord
  BY DEF ConnType
<1>3. conn'[c] = [conn[c] EXCEPT !.state = state]
  BY <1>1 DEF ConnType
<1>4. /\ conn'[c].state = state /\ conn'[c].server = conn[c].server
      /\ conn'[c].fd = conn[c].fd /\ conn'[c] \in ConnRecord
  BY <1>2, <1>3 DEF ConnRecord
<1>5. \A d \in Conns : d # c => conn'[d] = conn[d]
  BY <1>1 DEF ConnType
<1>6. conn' \in ConnType
  BY <1>1, <1>3, <1>4 DEF ConnType
<1> QED
  BY <1>4, <1>5, <1>6

\* Some connections are closed.
LEMMA CloseStep ==
    ASSUME conn \in ConnType, NEW closing \in [Conns -> BOOLEAN], Close(closing)
    PROVE  /\ conn' \in ConnType
           /\ \A d \in Conns : closing[d] => conn'[d].state = "closed"
           /\ \A d \in Conns : ~ closing[d] => conn'[d] = conn[d]
<1>1. \A d \in Conns : conn'[d] = IF closing[d] THEN [conn[d] EXCEPT !.state = "closed"] ELSE conn[d]
  BY DEF Close
<1>2. \A d \in Conns : conn[d] \in ConnRecord
  BY DEF ConnType
<1>3. \A d \in Conns : conn'[d] \in ConnRecord
  BY <1>1, <1>2 DEF ConnRecord, ConnStates
<1>4. conn' \in ConnType
  BY <1>3 DEF ConnType, Close
<1>5. \A d \in Conns : closing[d] => conn'[d].state = "closed"
  BY <1>1, <1>2 DEF ConnRecord
<1> QED
  BY <1>1, <1>4, <1>5

\* What the numbers are.
LEMMA Numbers ==
    /\ Last \in Nat \ {0} /\ MaxServers \in Nat
    /\ Servers = 1 .. MaxServers /\ Managers = 1 .. Last
    /\ Parts = {0} \cup 1 .. Last /\ Acceptor = 0 /\ NoServer = 0
    /\ NoServer \notin Servers /\ Acceptor \notin Managers /\ Managers \subseteq Parts
    /\ Acceptor \in Parts
BY LastAssumption, MaxServersAssumption DEF Servers, Managers, Parts, Acceptor, NoServer

\* Outside "idle" the application holds a server.
LEMMA Held ==
    ASSUME IInv, pc # "idle"
    PROVE  server \in Servers /\ server = starts
BY DEF IInv, ServersInv, TypeOK

-----------------------------------------------------------------------------
(* The steps of the application. *)

\* Whatever leaves the objects, the connections and the application's place alone.
LEMMA QuietStep ==
    ASSUME IInv, UNCHANGED <<app, parts, open, conn>>,
           sending' \in [Senders -> Servers \cup {NoServer}],
           broken' \subseteq {"stop", "send"}, wild' \subseteq {"use", "delete"}
    PROVE  IInv'
<1> USE DEF app, parts
<1>1. TypeOK'
  BY DEF IInv, TypeOK
<1>2. ServersInv' /\ TurnInv'
  BY DEF IInv, ServersInv, TurnInv, Deleted
<1>3. AcceptorInv' /\ OpenInv'
  BY DEF IInv, AcceptorInv, OpenInv, Deleted
<1>4. ConnInv' /\ ClosingInv'
  BY DEF IInv, ConnInv, ClosingInv, Manager, Deleted, Is
<1> QED
  BY <1>1, <1>2, <1>3, <1>4 DEF IInv

\* The steps of stop that only move on.
LEMMA MoveStep ==
    ASSUME IInv, Stop \/ StopTest \/ Nap \/ DestroyAgain
    PROVE  IInv'
<1> USE DEF Goto, parts, rest
<1>1. /\ UNCHANGED <<server, starts, turn, parts, open, conn, sending, wild>>
      /\ pc' \in {"test", "nap", "claim"}
      /\ broken' \subseteq {"stop", "send"}
      /\ server \in Servers
      /\ pc # "join" /\ pc' # "start"
  BY DEF IInv, TypeOK, ServersInv, Stop, StopTest, Nap, DestroyAgain, Breaks
<1>2. TypeOK'
  BY <1>1 DEF IInv, TypeOK
<1>3. ServersInv'
  BY <1>1, Numbers DEF IInv, ServersInv, Deleted
<1>4. TurnInv'
  BY <1>1 DEF TurnInv, Deletes
<1>5. AcceptorInv'
  BY <1>1 DEF IInv, AcceptorInv
<1>6. OpenInv'
  BY <1>1 DEF IInv, OpenInv, Deleted
<1>7. ConnInv' /\ ClosingInv'
  BY <1>1 DEF IInv, ConnInv, ClosingInv, Manager, Deleted, Is
<1> QED
  BY <1>2, <1>3, <1>4, <1>5, <1>6, <1>7 DEF IInv

\* Without a server nothing is open, no acceptor is at work and no connection is left.
LEMMA NothingLeft ==
    ASSUME IInv, server = NoServer
    PROVE  /\ open = {}
           /\ \A s \in Servers : thread[s][Acceptor] \notin InLoop
           /\ \A c \in Conns : conn[c].state \in {"none", "closed", "lost"}
<1>1. \A s \in Servers : s # server
  BY Numbers
<1>2. open = {}
  <2>1. \A x \in open : \E s \in Servers, p \in Parts : x = <<s, p>>
    BY DEF IInv, TypeOK
  <2> QED
    BY <1>1, <2>1 DEF IInv, OpenInv
<1>3. \A s \in Servers : thread[s][Acceptor] \notin InLoop
  BY <1>1 DEF IInv, AcceptorInv
<1>4. ASSUME NEW c \in Conns
      PROVE  conn[c].state \in {"none", "closed", "lost"}
  <2>1. conn[c].state \in ConnStates
    BY DEF IInv, TypeOK
  <2>2. conn[c].state # "pending"
    BY <1>2 DEF IInv, ConnInv
  <2>3. conn[c].state # "accepted"
    BY <1>3 DEF IInv, ConnInv, InLoop
  <2>4. conn[c].state \notin InManager
    BY DEF IInv, ConnInv
  <2> QED
    BY <2>1, <2>2, <2>3, <2>4 DEF ConnStates, InManager
<1> QED
  BY <1>2, <1>3, <1>4

LEMMA StartStep ==
    ASSUME IInv, Start
    PROVE  IInv'
<1> USE DEF Goto, rest, parts
<1> DEFINE s == starts + 1
<1>1. /\ s \in Servers /\ s # server /\ s > starts /\ starts' = s /\ server' = s
      /\ starts \in 0 .. MaxServers
  BY Numbers DEF Start, IInv, TypeOK
<1>2. /\ object' \in [Servers -> [Parts -> {"none", "live", "deleted"}]]
      /\ \A p \in Parts : object'[s][p] = "live"
      /\ \A t \in Servers : t # s => object'[t] = object[t]
  BY <1>1 DEF Start, IInv, TypeOK
<1>3. /\ pc' = "start" /\ turn' = 1
      /\ UNCHANGED <<running, handle, thread, conn, sending, broken, wild>>
      /\ open' = open \cup {<<s, p>> : p \in Parts}
  BY DEF Start
<1>4. /\ open = {} /\ server = NoServer
      /\ \A t \in Servers : thread[t][Acceptor] \notin InLoop
      /\ \A c \in Conns : conn[c].state \in {"none", "closed", "lost"}
  BY NothingLeft DEF Start
<1>5. TypeOK'
  <2>1. open' \subseteq Servers \X Parts
    BY <1>1, <1>3, <1>4
  <2>2. turn' \in 1 .. Last + 1
    BY <1>3, Numbers
  <2>3. starts' \in 0 .. MaxServers /\ server' \in Servers
    BY <1>1, Numbers
  <2> QED
    BY <1>2, <1>3, <2>1, <2>2, <2>3 DEF IInv, TypeOK
<1>6. ServersInv'
  <2>1. ASSUME NEW t \in Servers, t > s, NEW p \in Parts
        PROVE  thread[t][p] = "none" /\ object'[t][p] # "deleted"
    BY <1>1, <1>2, <2>1, Numbers DEF IInv, ServersInv, Deleted
  <2>2. ASSUME NEW t \in Servers, t <= s, t # s, NEW p \in Parts
        PROVE  object'[t][p] = "deleted"
    <3>1. t <= starts /\ t # server
      BY <1>1, <1>4, <2>2, Numbers
    <3> QED
      BY <1>2, <2>2, <3>1 DEF IInv, ServersInv, Deleted
  <2>3. starts' = s /\ server' = s /\ thread' = thread /\ s # NoServer
    BY <1>1, <1>3, Numbers
  <2> QED
    BY <2>1, <2>2, <2>3 DEF ServersInv, Deleted
<1>7. TurnInv'
  BY <1>3 DEF TurnInv, Deletes
<1>8. AcceptorInv'
  <2>1. \A p \in Parts : thread[s][p] = "none"
    BY <1>1 DEF IInv, ServersInv
  <2> QED
    BY <1>1, <1>3, <1>4, <2>1 DEF AcceptorInv
<1>9. OpenInv'
  BY <1>1, <1>2, <1>3, <1>4 DEF OpenInv, Deleted
<1>10. ConnInv' /\ ClosingInv'
  BY <1>3, <1>4 DEF ConnInv, ClosingInv, InManager
<1> QED
  BY <1>5, <1>6, <1>7, <1>8, <1>9, <1>10 DEF IInv

\* A thread is made for a part of the server, or not.
LEMMA CreateStep ==
    ASSUME IInv, StartManager \/ StartAcceptor
    PROVE  IInv'
<1> USE DEF Goto, rest
<1>1. PICK p \in Parts : /\ Create(p) \/ UNCHANGED <<handle, thread>>
                         /\ p = Acceptor \/ p = turn
                         /\ pc' = "start" => p # Acceptor /\ turn' = turn + 1
  BY Numbers DEF StartManager, StartAcceptor
<1>2. /\ server \in Servers /\ server = starts /\ starts \in Nat
      /\ pc = "start" /\ pc' \in {"start", "idle"}
      /\ UNCHANGED <<server, starts, object, running, open, conn, sending, broken, wild>>
      /\ turn' \in 1 .. Last + 1
  <2>1. pc = "start" /\ pc' \in {"start", "idle"}
    BY DEF StartManager, StartAcceptor, app
  <2>2. server \in Servers /\ server = starts /\ starts \in Nat
    <3>1. server \in Servers /\ server = starts
      BY <2>1, Held
    <3> QED
      BY <3>1, Numbers
  <2>3. UNCHANGED <<server, starts, object, running, open, conn, sending, broken, wild>>
    BY DEF StartManager, StartAcceptor
  <2>4. turn \in 1 .. Last + 1
    BY DEF IInv, TypeOK
  <2>5. turn' = turn \/ (turn \in 1 .. Last /\ turn' = turn + 1)
    BY Numbers DEF StartManager, StartAcceptor
  <2>6. turn' \in 1 .. Last + 1
    <3>1. CASE turn' = turn
      BY <2>4, <3>1
    <3>2. CASE turn \in 1 .. Last /\ turn' = turn + 1
      BY <3>2, Numbers
    <3> QED
      BY <2>5, <3>1, <3>2
  <2> QED
    BY <2>1, <2>2, <2>3, <2>6
<1>3. /\ handle' \in [Servers -> [Parts -> BOOLEAN]]
      /\ thread' \in [Servers -> [Parts -> ThreadStates]]
      /\ \A t \in Servers, q \in Parts :
            thread'[t][q] = thread[t][q] \/ (t = server /\ q = p /\ thread'[t][q] = "born")
  <2>1. CASE UNCHANGED <<handle, thread>>
    BY <2>1 DEF IInv, TypeOK
  <2> "born" \in ThreadStates
    BY DEF ThreadStates
  <2>2. CASE /\ handle' = [handle EXCEPT ![server][p] = TRUE]
             /\ thread' = [thread EXCEPT ![server][p] = "born"]
    <3>1. handle' \in [Servers -> [Parts -> BOOLEAN]]
      BY <1>1, <1>2, <2>2, Entry DEF IInv, TypeOK
    <3>2. thread \in [Servers -> [Parts -> ThreadStates]]
      BY DEF IInv, TypeOK
    <3>3. /\ thread' \in [Servers -> [Parts -> ThreadStates]]
          /\ thread'[server][p] = "born"
          /\ \A t \in Servers, q \in Parts : t # server \/ q # p => thread'[t][q] = thread[t][q]
      BY <1>1, <1>2, <2>2, <3>2, Entry
    <3> QED
      BY <3>1, <3>3
  <2> QED
    BY <1>1, <2>1, <2>2 DEF Create, Move
<1>4. TypeOK'
  BY <1>2, <1>3 DEF IInv, TypeOK
<1>5. ServersInv'
  <2>1. \A t \in Servers : t > starts => t # server
    BY <1>2, Numbers
  <2>2. \A t \in Servers : t > starts => \A q \in Parts : thread'[t][q] = "none"
    BY <1>3, <2>1 DEF IInv, ServersInv
  <2>3. server # NoServer
    BY <1>2, Numbers
  <2> QED
    BY <1>2, <2>2, <2>3 DEF IInv, ServersInv, Deleted
<1>6. TurnInv'
  BY <1>2 DEF TurnInv, Deletes
<1>7. AcceptorInv'
  <2>1. \A t \in Servers : thread'[t][Acceptor] \in InLoop => thread[t][Acceptor] \in InLoop
    BY <1>3, Numbers DEF InLoop
  <2>2. ASSUME pc' = "start", NEW q \in Parts, q = Acceptor \/ q >= turn'
        PROVE  thread'[server][q] = "none"
    <3>1. turn \in 1 .. Last + 1 /\ q \in Int
      BY Numbers DEF IInv, TypeOK
    <3>2. q # p /\ (q = Acceptor \/ q >= turn)
      BY <1>1, <2>2, <3>1, Numbers
    <3>3. thread[server][q] = "none"
      BY <1>2, <3>2 DEF IInv, AcceptorInv
    <3> QED
      BY <1>2, <1>3, <3>2, <3>3
  <2>3. \A t \in Servers : thread'[t][Acceptor] \in InLoop => t = server /\ running[t][Acceptor]
    BY <1>2, <2>1 DEF IInv, AcceptorInv
  <2> QED
    BY <1>2, <2>2, <2>3 DEF IInv, AcceptorInv
<1>8. OpenInv'
  BY <1>2 DEF IInv, OpenInv, Deleted
<1>9. ConnInv'
  <2>1. \A t \in Servers : thread[t][Acceptor] = "adding" => thread'[t][Acceptor] = "adding"
    <3>1. thread[server][Acceptor] = "none"
      BY <1>2, Numbers DEF IInv, AcceptorInv
    <3> QED
      BY <1>3, <3>1, Numbers DEF IInv, AcceptorInv, InLoop
  <2> QED
    BY <1>2, <2>1 DEF IInv, ConnInv, Manager, Deleted, Is
<1>10. ClosingInv'
  <2>1. thread[server][p] = "none"
    <3>1. turn \in 1 .. Last + 1
      BY DEF IInv, TypeOK
    <3> QED
      BY <1>1, <1>2, <3>1 DEF IInv, AcceptorInv
  <2>2. ASSUME NEW c \in Conns, conn[c].state = "closing"
        PROVE  thread'[server][Manager(c)] = "erase"
    <3>1. Manager(c) \in Parts
      BY HasManager, Numbers DEF IInv, TypeOK, ConnType, ConnRecord
    <3>2. thread[server][Manager(c)] = "erase"
      BY <2>2 DEF IInv, ClosingInv
    <3> QED
      BY <1>2, <1>3, <2>1, <3>1, <3>2
  <2> QED
    BY <1>2, <2>2 DEF IInv, ClosingInv, Manager
<1> QED
  BY <1>4, <1>5, <1>6, <1>7, <1>8, <1>9, <1>10 DEF IInv

LEMMA StopClaimStep ==
    ASSUME IInv, StopClaim
    PROVE  IInv'
<1> USE DEF Goto, rest
<1>1. /\ UNCHANGED <<server, starts, object, handle, thread, open, conn, sending, broken, wild>>
      /\ pc = "claim" /\ turn' = 1 /\ server \in Servers /\ server # NoServer
      /\ pc' \in {"join", "managers"}
      /\ running[server][Acceptor] => pc' = "join"
  BY Held, Numbers DEF StopClaim
<1>2. /\ running' \in [Servers -> [Parts -> BOOLEAN]]
      /\ \A t \in Servers, q \in Parts : t # server \/ q # Acceptor => running'[t][q] = running[t][q]
      /\ running' = running \/ pc' = "join"
  <2>1. running \in [Servers -> [Parts -> BOOLEAN]]
    BY DEF IInv, TypeOK
  <2>2. CASE running' = running
    BY <2>1, <2>2
  <2>3. CASE running' = [running EXCEPT ![server][Acceptor] = FALSE] /\ pc' = "join"
    <3>1. Acceptor \in Parts /\ server \in Servers
      BY <1>1, Numbers
    <3>2. /\ running' \in [Servers -> [Parts -> BOOLEAN]]
          /\ \A t \in Servers, q \in Parts :
                t # server \/ q # Acceptor => running'[t][q] = running[t][q]
      BY <2>1, <2>3, <3>1, FlagEntry
    <3> QED
      BY <2>3, <3>2
  <2> QED
    BY <2>2, <2>3 DEF StopClaim
<1>3. TypeOK'
  <2>1. turn' \in 1 .. Last + 1
    BY <1>1, Numbers
  <2> QED
    BY <1>1, <1>2, <2>1 DEF IInv, TypeOK
<1>4. ServersInv'
  BY <1>1 DEF IInv, ServersInv, Deleted
<1>5. TurnInv'
  <2>1. \A m \in Managers : ~ (m < 1)
    BY Numbers
  <2> QED
    BY <1>1, <2>1 DEF TurnInv
<1>6. AcceptorInv'
  BY <1>1, <1>2, Numbers DEF IInv, AcceptorInv
<1>7. OpenInv'
  BY <1>1 DEF IInv, OpenInv, Deleted
<1>8. ConnInv' /\ ClosingInv'
  BY <1>1 DEF IInv, ConnInv, ClosingInv, Manager, Deleted, Is
<1> QED
  BY <1>3, <1>4, <1>5, <1>6, <1>7, <1>8 DEF IInv

\* The steps around the two joins.
LEMMA JoinStep ==
    ASSUME IInv, JoinAcceptor \/ StopManager \/ JoinManager \/ CloseManager
    PROVE  IInv'
<1> USE DEF Goto, rest
<1>1. /\ UNCHANGED <<server, starts, turn, object, thread, conn, sending, broken, wild>>
      /\ pc \in {"join", "managers", "joinmanager", "closemanager"}
      /\ pc' \in {"managers", "joinmanager", "closemanager", "deletemanager"}
      /\ server \in Servers /\ server # NoServer
      /\ pc = "join" => pc' = "managers"
  <2>1. /\ pc \in {"join", "managers", "joinmanager", "closemanager"}
        /\ pc' \in {"managers", "joinmanager", "closemanager", "deletemanager"}
        /\ pc = "join" => pc' = "managers"
    BY DEF JoinAcceptor, StopManager, JoinManager, CloseManager
  <2>2. server \in Servers /\ server # NoServer
    BY <2>1, Held, Numbers
  <2>3. UNCHANGED <<server, starts, turn, object, thread, conn, sending, broken, wild>>
    BY DEF JoinAcceptor, StopManager, JoinManager, CloseManager, parts
  <2> QED
    BY <2>1, <2>2, <2>3
<1>2. /\ pc' # "managers" => turn \in Managers
      /\ pc' = "managers" => pc = "join" /\ thread[server][Acceptor] = "end"
  BY DEF JoinAcceptor, StopManager, JoinManager, CloseManager, IInv, TurnInv
<1>3. /\ open' \subseteq open
      /\ <<server, turn>> \in open' => pc' # "deletemanager"
      /\ <<server, Acceptor>> \in open => <<server, Acceptor>> \in open'
  <2>1. CASE open' = open /\ pc' # "deletemanager"
    BY <2>1
  <2>2. CASE CloseManager
    <3>1. turn # Acceptor
      BY <2>2, Numbers DEF CloseManager, IInv, TurnInv
    <3>2. open' = open \ {<<server, turn>>}
      BY <2>2 DEF CloseManager
    <3> QED
      BY <3>1, <3>2
  <2> QED
    BY <2>1, <2>2 DEF JoinAcceptor, StopManager, JoinManager
<1>4. /\ running' \in [Servers -> [Parts -> BOOLEAN]]
      /\ \A t \in Servers : running'[t][Acceptor] = running[t][Acceptor]
  <2>1. running \in [Servers -> [Parts -> BOOLEAN]]
    BY DEF IInv, TypeOK
  <2>2. CASE running' = running
    BY <2>1, <2>2, Numbers
  <2>3. CASE turn \in Managers /\ running' = [running EXCEPT ![server][turn] = FALSE]
    <3>1. turn \in Parts /\ turn # Acceptor /\ Acceptor \in Parts /\ server \in Servers
      BY <1>1, <2>3, Numbers
    <3>2. /\ running' \in [Servers -> [Parts -> BOOLEAN]]
          /\ \A t \in Servers, q \in Parts :
                t # server \/ q # turn => running'[t][q] = running[t][q]
      BY <2>1, <2>3, <3>1, FlagEntry
    <3> QED
      BY <3>1, <3>2
  <2> QED
    BY <2>2, <2>3 DEF JoinAcceptor, StopManager, JoinManager, CloseManager, parts
<1>5. handle' \in [Servers -> [Parts -> BOOLEAN]]
  <2>1. handle \in [Servers -> [Parts -> BOOLEAN]]
    BY DEF IInv, TypeOK
  <2>2. CASE handle' = handle
    BY <2>1, <2>2
  <2>3. CASE handle' = [handle EXCEPT ![server][Acceptor] = FALSE]
    BY <1>1, <2>1, <2>3, Entry, Numbers
  <2>4. CASE turn \in Managers /\ handle' = [handle EXCEPT ![server][turn] = FALSE]
    <3>1. turn \in Parts
      BY <2>4, Numbers
    <3> QED
      BY <1>1, <2>1, <2>4, <3>1, Entry
  <2> QED
    BY <2>2, <2>3, <2>4 DEF JoinAcceptor, StopManager, JoinManager, CloseManager, parts, IInv, TurnInv
<1>6. TypeOK'
  <2>1. open' \subseteq Servers \X Parts
    BY <1>3 DEF IInv, TypeOK
  <2>2. pc' \in {"idle", "start", "test", "nap", "claim", "join", "managers", "joinmanager",
                "closemanager", "deletemanager", "destroy"}
    BY <1>1
  <2> QED
    BY <1>1, <1>4, <1>5, <2>1, <2>2 DEF IInv, TypeOK
<1>7. ServersInv'
  BY <1>1 DEF IInv, ServersInv, Deleted
<1>8. TurnInv'
  <2>1. pc = "join" \/ pc \in Deletes
    BY <1>1 DEF Deletes
  <2>2. pc = "join" => \A m \in Managers : ~ (m < turn)
    BY Numbers DEF IInv, TurnInv
  <2> QED
    BY <1>1, <1>2, <2>1, <2>2 DEF IInv, TurnInv, Deleted
<1>9. AcceptorInv'
  BY <1>1, <1>2, <1>4 DEF IInv, AcceptorInv, InLoop
<1>10. OpenInv'
  <2>1. ASSUME NEW s \in Servers, NEW p \in Parts, <<s, p>> \in open'
        PROVE  /\ s = server
               /\ p \in Managers => ~ Deleted(s, p) /\ ~ (p = turn /\ pc' = "deletemanager")
    <3>1. <<s, p>> \in open
      BY <1>3, <2>1
    <3>2. s = server /\ (p \in Managers => ~ Deleted(s, p))
      BY <3>1 DEF IInv, OpenInv
    <3> QED
      BY <1>3, <2>1, <3>2
  <2>2. pc' # "destroy" /\ object' = object /\ server' = server /\ turn' = turn
    BY <1>1
  <2> QED
    BY <2>1, <2>2 DEF OpenInv, Deleted
<1>11. ConnInv'
  <2>1. ASSUME NEW c \in Conns, conn[c].state = "pending"
        PROVE  <<conn[c].server, Acceptor>> \in open'
    <3>1. <<conn[c].server, Acceptor>> \in open
      BY <2>1 DEF IInv, ConnInv
    <3>2. conn[c].server \in Servers
      BY <3>1 DEF IInv, TypeOK
    <3>3. conn[c].server = server
      BY <3>1, <3>2, Numbers DEF IInv, OpenInv
    <3> QED
      BY <1>3, <3>1, <3>3
  <2> QED
    BY <1>1, <2>1 DEF IInv, ConnInv, Manager, Deleted, Is
<1>12. ClosingInv'
  BY <1>1 DEF IInv, ClosingInv, Manager
<1> QED
  BY <1>6, <1>7, <1>8, <1>9, <1>10, <1>11, <1>12 DEF IInv

\* The connection the acceptor's thread holds stays the only one.
LEMMA KeepsAccepted ==
    ASSUME ConnInv, \A e \in Conns : conn'[e].state = "accepted" => conn'[e] = conn[e],
           NEW c \in Conns, conn'[c].state = "accepted"
    PROVE  /\ conn'[c].server \in Servers
           /\ thread[conn'[c].server][Acceptor] = "adding"
           /\ \A d \in Conns : conn'[d].state = "accepted" /\ conn'[d].server = conn'[c].server
                                  => d = c
<1>1. conn'[c] = conn[c]
  OBVIOUS
<1>2. conn[c].server \in Servers /\ thread[conn[c].server][Acceptor] = "adding"
  BY <1>1 DEF ConnInv
<1>3. \A d \in Conns : conn[d].state = "accepted" /\ conn[d].server = conn[c].server => d = c
  BY <1>1 DEF ConnInv, Is
<1> QED
  BY <1>1, <1>2, <1>3

\* What ConnInv and ClosingInv say is kept where no connection comes to a manager.
LEMMA ConnKept ==
    ASSUME ConnInv, UNCHANGED <<server, object>>,
           \A s \in Servers : thread[s][Acceptor] = "adding" => thread'[s][Acceptor] = "adding",
           \A d \in Conns : conn'[d].state \in {"pending", "accepted"} => conn'[d] = conn[d],
           \A d \in Conns : conn'[d].state = "pending" => <<conn'[d].server, Acceptor>> \in open',
           \A d \in Conns : conn'[d].state \in InManager =>
               /\ conn[d].state \in InManager
               /\ conn'[d].server = conn[d].server /\ conn'[d].fd = conn[d].fd
    PROVE  ConnInv'
<1>1. ASSUME NEW c \in Conns, conn'[c].state = "accepted"
      PROVE  /\ conn'[c].server \in Servers
             /\ thread'[conn'[c].server][Acceptor] = "adding"
             /\ \A d \in Conns : conn'[d].state = "accepted" /\ conn'[d].server = conn'[c].server
                                    => d = c
  BY <1>1, KeepsAccepted
<1>2. ASSUME NEW c \in Conns, conn'[c].state \in InManager
      PROVE  /\ conn'[c].server = server /\ server # NoServer
             /\ ~ Deleted(server, CurrCellManager(conn'[c].fd))
  <2>1. conn'[c].server = conn[c].server /\ conn'[c].fd = conn[c].fd
    BY <1>2
  <2>2. conn[c].server = server /\ server # NoServer /\ ~ Deleted(server, Manager(c))
    BY <1>2 DEF ConnInv
  <2> QED
    BY <2>1, <2>2 DEF Manager
<1> QED
  BY <1>1, <1>2 DEF ConnInv, Manager, Deleted, Is

LEMMA ClosingKept ==
    ASSUME ClosingInv, conn \in ConnType, UNCHANGED server,
           \A d \in Conns : conn'[d].state = "closing" => conn'[d] = conn[d],
           \A m \in Managers : thread[server][m] = "erase" => thread'[server][m] = "erase"
    PROVE  ClosingInv'
<1>1. ASSUME NEW c \in Conns, conn'[c].state = "closing"
      PROVE  /\ thread'[server][CurrCellManager(conn'[c].fd)] = "erase"
             /\ \A d \in Conns : conn'[d].state = "closing"
                                      /\ CurrCellManager(conn'[d].fd) = CurrCellManager(conn'[c].fd)
                                    => d = c
  <2>1. conn'[c] = conn[c] /\ conn[c].state = "closing" /\ Manager(c) \in Managers
    BY <1>1, HasManager
  <2>2. thread[server][Manager(c)] = "erase"
    BY <2>1 DEF ClosingInv
  <2>3. \A d \in Conns : conn[d].state = "closing" /\ Manager(d) = Manager(c) => d = c
    BY <2>1 DEF ClosingInv
  <2> QED
    BY <2>1, <2>2, <2>3 DEF Manager
<1> QED
  BY <1>1 DEF ClosingInv, Manager

\* What is left of ~cellManager: its cells are closed, and it is gone.
LEMMA DeleteStep ==
    ASSUME IInv, DeleteManager
    PROVE  IInv'
<1> USE DEF Goto, rest
<1>1. /\ UNCHANGED <<server, starts, running, handle, thread, open, sending, broken, wild>>
      /\ pc = "deletemanager" /\ pc' = "managers" /\ turn' = turn + 1
      /\ server \in Servers /\ server # NoServer /\ server = starts
      /\ turn \in Managers /\ turn \in Parts /\ turn # Acceptor
  <2>1. /\ UNCHANGED <<server, starts, running, handle, thread, open, sending, broken, wild>>
        /\ pc = "deletemanager" /\ pc' = "managers" /\ turn' = turn + 1
    BY DEF DeleteManager
  <2>2. server \in Servers /\ server # NoServer /\ server = starts
    BY <2>1, Held, Numbers
  <2>3. turn \in Managers
    BY <2>1 DEF IInv, TurnInv
  <2> QED
    BY <2>1, <2>2, <2>3, Numbers
<1>2. /\ object' \in [Servers -> [Parts -> {"none", "live", "deleted"}]]
      /\ object'[server][turn] = "deleted"
      /\ \A t \in Servers, q \in Parts : t # server \/ q # turn => object'[t][q] = object[t][q]
  <2>1. object \in [Servers -> [Parts -> {"none", "live", "deleted"}]]
    BY DEF IInv, TypeOK
  <2>2. object' = [object EXCEPT ![server][turn] = "deleted"]
    BY DEF DeleteManager
  <2> QED
    BY <1>1, <2>1, <2>2, Entry
<1>3. /\ conn \in ConnType /\ conn' \in ConnType
      /\ \A d \in Conns : d \in Cells(server, turn) => conn'[d].state = "closed"
      /\ \A d \in Conns : d \notin Cells(server, turn) => conn'[d] = conn[d]
  <2> DEFINE closing == [c \in Conns |-> c \in Cells(server, turn)]
  <2>1. conn \in ConnType
    BY DEF IInv, TypeOK, ConnType, ConnRecord
  <2>2. closing \in [Conns -> BOOLEAN]
    <3>1. \A c \in Conns : (c \in Cells(server, turn)) \in BOOLEAN
      OBVIOUS
    <3> QED
      BY <3>1
  <2>4. \A d \in Conns : closing[d] <=> d \in Cells(server, turn)
    BY Zenon
  <2>3. Close(closing)
    BY DEF DeleteManager
  <2> HIDE DEF closing
  <2>5. /\ conn' \in ConnType
        /\ \A d \in Conns : closing[d] => conn'[d].state = "closed"
        /\ \A d \in Conns : ~ closing[d] => conn'[d] = conn[d]
    BY <2>1, <2>2, <2>3, CloseStep
  <2> QED
    BY <2>1, <2>4, <2>5
<1>4. TypeOK'
  <2>1. turn' \in 1 .. Last + 1
    BY <1>1, Numbers
  <2> QED
    BY <1>1, <1>2, <1>3, <2>1 DEF IInv, TypeOK, ConnType, ConnRecord
<1>5. ServersInv'
  <2>1. ASSUME NEW t \in Servers, t # server, NEW q \in Parts
        PROVE  object'[t][q] = object[t][q]
    BY <1>2, <2>1
  <2>2. \A t \in Servers : t > starts => t # server
    BY <1>1, Numbers
  <2> QED
    BY <1>1, <2>1, <2>2 DEF IInv, ServersInv, Deleted
<1>6. TurnInv'
  <2>1. ASSUME NEW m \in Managers, m < turn + 1
        PROVE  object'[server][m] = "deleted"
    <3>1. CASE m = turn
      BY <1>2, <3>1
    <3>2. CASE m # turn
      <4>1. m < turn /\ m \in Parts
        BY <1>1, <2>1, <3>2, Numbers
      <4>2. object[server][m] = "deleted"
        BY <1>1, <4>1 DEF IInv, TurnInv, Deletes, Deleted
      <4> QED
        BY <1>1, <1>2, <3>2, <4>1, <4>2
    <3> QED
      BY <3>1, <3>2
  <2> QED
    BY <1>1, <2>1 DEF TurnInv, Deleted
<1>7. AcceptorInv'
  BY <1>1 DEF IInv, AcceptorInv
<1>8. OpenInv'
  <2>1. ASSUME NEW s \in Servers, NEW p \in Parts, <<s, p>> \in open
        PROVE  s = server /\ (p \in Managers => object'[s][p] # "deleted")
    <3>1. s = server /\ (p \in Managers => object[s][p] # "deleted" /\ p # turn)
      BY <1>1, <2>1 DEF IInv, OpenInv, Deleted
    <3> QED
      BY <1>1, <1>2, <3>1
  <2> QED
    BY <1>1, <2>1 DEF OpenInv, Deleted
<1>9. ConnInv'
  <2>1. ASSUME NEW c \in Conns, conn'[c].state # "closed"
        PROVE  conn'[c] = conn[c] /\ c \notin Cells(server, turn)
    BY <1>3, <2>1
  <2>2. ASSUME NEW c \in Conns, conn'[c].state \in InManager
        PROVE  /\ conn'[c].server = server
               /\ object'[server][CurrCellManager(conn'[c].fd)] # "deleted"
    <3>1. conn'[c] = conn[c] /\ c \notin Cells(server, turn)
      BY <2>1, <2>2 DEF InManager
    <3>2. conn[c].server = server /\ ~ Deleted(server, Manager(c))
      BY <2>2, <3>1 DEF IInv, ConnInv
    <3>3. c \notin Closing(server, turn)
      BY DEF DeleteManager
    <3>4. Manager(c) # turn
      BY <2>2, <3>1, <3>2, <3>3 DEF Cells, Closing, At, Manager, InManager
    <3>5. Manager(c) \in Parts
      BY <1>3, HasManager, Numbers
    <3> QED
      BY <1>1, <1>2, <3>1, <3>2, <3>4, <3>5 DEF Deleted, Manager
  <2>3. ASSUME NEW c \in Conns, conn'[c].state = "accepted"
        PROVE  /\ conn'[c].server \in Servers
               /\ thread[conn'[c].server][Acceptor] = "adding"
               /\ \A d \in Conns : conn'[d].state = "accepted" /\ conn'[d].server = conn'[c].server
                                      => d = c
    <3>1. \A d \in Conns : conn'[d].state = "accepted" => conn'[d] = conn[d]
      BY <2>1
    <3> QED
      BY <2>3, <3>1, KeepsAccepted DEF IInv
  <2>4. ASSUME NEW c \in Conns, conn'[c].state = "pending"
        PROVE  <<conn'[c].server, Acceptor>> \in open
    BY <2>1, <2>4 DEF IInv, ConnInv
  <2> QED
    BY <1>1, <2>2, <2>3, <2>4 DEF ConnInv, Manager, Deleted, Is
<1>10. ClosingInv'
  <2>1. \A d \in Conns : conn'[d].state = "closing" => conn'[d] = conn[d]
    BY <1>3
  <2> QED
    BY <1>1, <1>3, <2>1, ClosingKept DEF IInv
<1> QED
  BY <1>4, <1>5, <1>6, <1>7, <1>8, <1>9, <1>10 DEF IInv

\* The acceptor's descriptors are closed; nothing is open any more.
LEMMA CloseServerStep ==
    ASSUME IInv, CloseServer
    PROVE  IInv'
<1> USE DEF Goto, rest, parts
<1>1. /\ UNCHANGED <<server, starts, turn, object, running, handle, thread, sending, broken, wild>>
      /\ pc = "managers" /\ pc' = "destroy" /\ open' = open \ {<<server, Acceptor>>}
      /\ turn \notin Managers
  BY DEF CloseServer
<1>2. server \in Servers /\ server # NoServer
  BY <1>1, Held, Numbers
<1>3. turn = Last + 1
  <2>1. turn \in 1 .. Last + 1
    BY DEF IInv, TypeOK
  <2> QED
    BY <1>1, <2>1, Numbers
<1>4. /\ conn' \in ConnType
      /\ \A d \in Conns : Is(d, "pending", server) => conn'[d].state = "closed"
      /\ \A d \in Conns : ~ Is(d, "pending", server) => conn'[d] = conn[d]
  <2> DEFINE closing == [c \in Conns |-> Is(c, "pending", server)]
  <2>1. conn \in ConnType
    BY DEF IInv, TypeOK, ConnType, ConnRecord
  <2>2. closing \in [Conns -> BOOLEAN]
    BY DEF Is
  <2>3. Close(closing)
    BY DEF CloseServer
  <2>4. \A d \in Conns : closing[d] <=> Is(d, "pending", server)
    BY DEF Is
  <2> HIDE DEF closing
  <2>5. /\ conn' \in ConnType
        /\ \A d \in Conns : closing[d] => conn'[d].state = "closed"
        /\ \A d \in Conns : ~ closing[d] => conn'[d] = conn[d]
    BY <2>1, <2>2, <2>3, CloseStep
  <2> QED
    BY <2>4, <2>5
<1>5. TypeOK'
  BY <1>1, <1>4 DEF IInv, TypeOK, ConnType, ConnRecord
<1>6. ServersInv'
  BY <1>1, <1>2 DEF IInv, ServersInv, Deleted
<1>7. TurnInv'
  BY <1>1, <1>3 DEF IInv, TurnInv, Deletes, Deleted
<1>8. AcceptorInv'
  BY <1>1 DEF IInv, AcceptorInv
<1>9. OpenInv'
  BY <1>1, Numbers DEF IInv, OpenInv, Deleted
<1>10. ConnInv'
  <2>1. ASSUME NEW c \in Conns, conn'[c].state # "closed"
        PROVE  conn'[c] = conn[c] /\ ~ Is(c, "pending", server)
    BY <1>4, <2>1
  <2>2. ASSUME NEW c \in Conns
        PROVE  conn'[c].state # "pending"
    <3>1. SUFFICES ASSUME conn'[c].state = "pending" PROVE FALSE
      OBVIOUS
    <3>2. conn[c].state = "pending" /\ conn[c].server # server
      BY <2>1, <3>1 DEF Is
    <3>3. <<conn[c].server, Acceptor>> \in open
      BY <3>2 DEF IInv, ConnInv
    <3>4. conn[c].server \in Servers
      BY <3>3 DEF IInv, TypeOK
    <3> QED
      BY <3>2, <3>3, <3>4, Numbers DEF IInv, OpenInv
  <2>3. \A d \in Conns : conn'[d].state \in InManager \cup {"accepted"} => conn'[d] = conn[d]
    BY <2>1 DEF InManager
  <2> QED
    BY <1>1, <2>2, <2>3, ConnKept DEF IInv, InManager
<1>11. ClosingInv'
  <2>1. \A d \in Conns : conn'[d].state = "closing" => conn'[d] = conn[d]
    BY <1>4
  <2>2. conn \in ConnType
    BY DEF IInv, TypeOK, ConnType, ConnRecord
  <2> QED
    BY <1>1, <2>1, <2>2, ClosingKept DEF IInv
<1> QED
  BY <1>5, <1>6, <1>7, <1>8, <1>9, <1>10, <1>11 DEF IInv

\* At the end of stop nothing is open, and no connection is left.
LEMMA NothingLeftAtEnd ==
    ASSUME IInv, pc = "destroy", ~ running[server][Acceptor]
    PROVE  /\ open = {}
           /\ \A s \in Servers : thread[s][Acceptor] \notin InLoop
           /\ \A c \in Conns : conn[c].state \in {"none", "closed", "lost"}
           /\ \A m \in Managers : Deleted(server, m)
<1>1. server \in Servers
  BY Held
<1>2. \A m \in Managers : Deleted(server, m)
  <2>1. \A m \in Managers : m < turn
    BY Numbers DEF IInv, TurnInv
  <2> QED
    BY <2>1 DEF IInv, TurnInv, Deletes
<1>3. open = {}
  <2>1. ASSUME NEW s \in Servers, NEW p \in Parts, <<s, p>> \in open PROVE FALSE
    <3>1. s = server /\ p # Acceptor /\ (p \in Managers => ~ Deleted(s, p))
      BY <2>1 DEF IInv, OpenInv
    <3>2. p \in Managers
      BY <3>1, Numbers
    <3> QED
      BY <1>2, <3>1, <3>2
  <2>2. open \subseteq Servers \X Parts
    BY DEF IInv, TypeOK
  <2> QED
    BY <2>1, <2>2
<1>4. \A s \in Servers : thread[s][Acceptor] \notin InLoop
  BY DEF IInv, AcceptorInv
<1>5. ASSUME NEW c \in Conns
      PROVE  conn[c].state \in {"none", "closed", "lost"}
  <2>1. conn[c].state \in ConnStates /\ Manager(c) \in Managers
    BY HasManager DEF IInv, TypeOK, ConnType, ConnRecord
  <2>2. conn[c].state # "pending"
    BY <1>3 DEF IInv, ConnInv
  <2>3. conn[c].state # "accepted"
    BY <1>4 DEF IInv, ConnInv, InLoop
  <2>4. conn[c].state \notin InManager
    BY <1>2, <2>1 DEF IInv, ConnInv
  <2> QED
    BY <2>1, <2>2, <2>3, <2>4 DEF ConnStates, InManager
<1> QED
  BY <1>2, <1>3, <1>4, <1>5

LEMMA DestroyStep ==
    ASSUME IInv, Destroy
    PROVE  IInv'
<1> USE DEF Goto, rest
<1>1. /\ UNCHANGED <<starts, turn, running, handle, thread, open, conn, sending, broken, wild>>
      /\ pc = "destroy" /\ pc' = "idle" /\ server' = NoServer /\ ~ running[server][Acceptor]
  BY DEF Destroy
<1>2. server \in Servers /\ server = starts
  BY <1>1, Held
<1>3. /\ open = {}
      /\ \A s \in Servers : thread[s][Acceptor] \notin InLoop
      /\ \A c \in Conns : conn[c].state \in {"none", "closed", "lost"}
      /\ \A m \in Managers : Deleted(server, m)
  BY <1>1, NothingLeftAtEnd
<1>4. /\ object' \in [Servers -> [Parts -> {"none", "live", "deleted"}]]
      /\ object'[server][Acceptor] = "deleted"
      /\ \A t \in Servers, q \in Parts : t # server \/ q # Acceptor => object'[t][q] = object[t][q]
  <2>1. object \in [Servers -> [Parts -> {"none", "live", "deleted"}]] /\ Acceptor \in Parts
    BY Numbers DEF IInv, TypeOK
  <2>2. object' = [object EXCEPT ![server][Acceptor] = "deleted"]
    BY DEF Destroy
  <2> QED
    BY <1>2, <2>1, <2>2, Entry
<1>5. TypeOK'
  BY <1>1, <1>4 DEF IInv, TypeOK
<1>6. ServersInv'
  <2>1. ASSUME NEW t \in Servers, t > starts, NEW p \in Parts
        PROVE  thread[t][p] = "none" /\ object'[t][p] # "deleted"
    <3>1. t # server
      BY <1>2, <2>1, Numbers
    <3> QED
      BY <1>4, <2>1, <3>1 DEF IInv, ServersInv, Deleted
  <2>2. ASSUME NEW t \in Servers, t <= starts, NEW p \in Parts
        PROVE  object'[t][p] = "deleted"
    <3>1. CASE t # server
      BY <1>4, <2>2, <3>1 DEF IInv, ServersInv, Deleted
    <3>2. CASE t = server /\ p = Acceptor
      BY <1>4, <3>2
    <3>3. CASE t = server /\ p # Acceptor
      <4>1. p \in Managers
        BY <3>3, Numbers
      <4> QED
        BY <1>2, <1>3, <1>4, <3>3, <4>1 DEF Deleted
    <3> QED
      BY <3>1, <3>2, <3>3
  <2> QED
    BY <1>1, <2>1, <2>2 DEF ServersInv, Deleted
<1>7. TurnInv'
  BY <1>1 DEF TurnInv, Deletes
<1>8. AcceptorInv'
  BY <1>1, <1>3 DEF AcceptorInv
<1>9. OpenInv'
  BY <1>1, <1>3 DEF OpenInv
<1>10. ConnInv' /\ ClosingInv'
  BY <1>1, <1>3 DEF ConnInv, ClosingInv, InManager
<1> QED
  BY <1>5, <1>6, <1>7, <1>8, <1>9, <1>10 DEF IInv

-----------------------------------------------------------------------------
(* The steps of the server's threads, of peers and of senders. *)

\* A part that is not deleted, and whose thread exists, is the current server's.
LEMMA Current ==
    ASSUME IInv, NEW s \in Servers, NEW p \in Parts, ~ Deleted(s, p), thread[s][p] # "none"
    PROVE  s = server
<1>1. s <= starts
  BY Numbers DEF IInv, ServersInv, TypeOK
<1> QED
  BY <1>1 DEF IInv, ServersInv

\* A part of the current server, which has a thread, goes on in its loop or ends.
LEMMA PartStep ==
    ASSUME IInv, NEW s \in Servers, NEW p \in Parts, NEW label \in ThreadStates,
           UNCHANGED <<server, starts, pc, turn, object, handle, open, sending, broken, wild>>,
           s = server, thread[s][p] # "none",
           thread' = [thread EXCEPT ![s][p] = label],
           running' \in [Servers -> [Parts -> BOOLEAN]],
           \A t \in Servers, q \in Parts : running[t][q] => running'[t][q],
           label \in InLoop => thread[s][p] \in InLoop \/ running'[s][p],
           conn' \in ConnType, ConnInv', ClosingInv'
    PROVE  IInv'
<1>1. /\ thread' \in [Servers -> [Parts -> ThreadStates]]
      /\ thread'[s][p] = label
      /\ \A t \in Servers, q \in Parts : t # s \/ q # p => thread'[t][q] = thread[t][q]
  <2>1. thread \in [Servers -> [Parts -> ThreadStates]]
    BY DEF IInv, TypeOK
  <2> QED
    BY <2>1, Entry
<1>2. TypeOK'
  BY <1>1 DEF IInv, TypeOK, ConnType, ConnRecord
<1>3. ServersInv'
  <2>1. ~ (s > starts)
    BY DEF IInv, ServersInv
  <2>2. \A t \in Servers : t > starts => t # s
    BY <2>1
  <2> QED
    BY <1>1, <2>2 DEF IInv, ServersInv, Deleted
<1>4. TurnInv'
  BY DEF IInv, TurnInv, Deleted
<1>5. AcceptorInv'
  <2>1. ASSUME NEW t \in Servers, thread'[t][Acceptor] \in InLoop
        PROVE  t = server /\ (running'[t][Acceptor] \/ pc = "join")
    <3>1. CASE t = s /\ p = Acceptor
      <4>1. thread[s][p] \in InLoop => running'[s][p] \/ pc = "join"
        BY <3>1 DEF IInv, AcceptorInv
      <4> QED
        BY <1>1, <2>1, <3>1, <4>1
    <3>2. CASE t # s \/ p # Acceptor
      <4>1. thread[t][Acceptor] \in InLoop
        BY <1>1, <2>1, <3>2, Numbers
      <4> QED
        BY <4>1, Numbers DEF IInv, AcceptorInv
    <3> QED
      BY <3>1, <3>2
  <2>2. ASSUME pc = "start", NEW q \in Parts, q = Acceptor \/ q >= turn
        PROVE  thread'[server][q] = "none"
    <3>1. thread[server][q] = "none"
      BY <2>2 DEF IInv, AcceptorInv
    <3> QED
      BY <1>1, <3>1
  <2> QED
    BY <2>1, <2>2 DEF AcceptorInv
<1>6. OpenInv'
  BY DEF IInv, OpenInv, Deleted
<1> QED
  BY <1>2, <1>3, <1>4, <1>5, <1>6 DEF IInv

\* What ends a pass of a loop.
Passes(s, p) ==
    \/ p = Acceptor /\ AcceptorPass(s)
    \/ p \in Managers /\ (TasksDone(s, p) \/ ManagerPass(s, p) \/ Spin(s, p) \/ SpinEnds(s, p))

\* The steps of a loop that leave the connections alone.
LEMMA LoopMove ==
    ASSUME IInv, NEW s \in Servers, NEW p \in Parts,
           SetRunning(s, p) \/ LoopTest(s, p) \/ Passes(s, p)
    PROVE  /\ UNCHANGED <<server, starts, pc, turn, object, handle, open, conn, sending, broken, wild>>
           /\ thread[s][p] \in {"born", "loop", "body", "wait", "spin"} /\ ~ Deleted(s, p)
           /\ \E label \in {"loop", "body", "wait", "spin", "end"} :
                 /\ thread' = [thread EXCEPT ![s][p] = label]
                 /\ thread'[s][p] = label
                 /\ label \in InLoop => thread[s][p] \in InLoop \/ running'[s][p]
           /\ \A t \in Servers, q \in Parts : t # s \/ q # p => thread'[t][q] = thread[t][q]
           /\ running' \in [Servers -> [Parts -> BOOLEAN]]
           /\ \A t \in Servers, q \in Parts : running[t][q] => running'[t][q]
           /\ running'[s][Acceptor] => running[s][Acceptor] \/ thread[s][Acceptor] = "born"
<1> USE DEF rest, app
<1>1. /\ UNCHANGED <<server, starts, pc, turn, object, handle, open, conn, sending, broken, wild>>
      /\ thread[s][p] \in {"born", "loop", "body", "wait", "spin"} /\ ~ Deleted(s, p)
  BY DEF SetRunning, LoopTest, Passes, AcceptorPass, TasksDone, ManagerPass, Spin, SpinEnds
<1>2. /\ running \in [Servers -> [Parts -> BOOLEAN]]
      /\ thread \in [Servers -> [Parts -> ThreadStates]]
      /\ Acceptor \in Parts
  BY Numbers DEF IInv, TypeOK
<1>3. PICK label \in {"loop", "body", "wait", "spin", "end"} :
          thread' = [thread EXCEPT ![s][p] = label]
  BY DEF SetRunning, LoopTest, Passes, AcceptorPass, TasksDone, ManagerPass, Spin, SpinEnds, Move
<1>4. /\ thread'[s][p] = label
      /\ \A t \in Servers, q \in Parts : t # s \/ q # p => thread'[t][q] = thread[t][q]
  <2>1. label \in ThreadStates
    BY DEF ThreadStates
  <2> QED
    BY <1>2, <1>3, <2>1, Entry
<1>5. CASE SetRunning(s, p)
  <2>1. thread[s][p] = "born" /\ running' = [running EXCEPT ![s][p] = TRUE]
    BY <1>5 DEF SetRunning
  <2>2. /\ running' \in [Servers -> [Parts -> BOOLEAN]]
        /\ running'[s][p] = TRUE
        /\ \A t \in Servers, q \in Parts : t # s \/ q # p => running'[t][q] = running[t][q]
    BY <1>2, <2>1, FlagEntry
  <2>3. \A t \in Servers, q \in Parts : running[t][q] => running'[t][q]
    BY <2>2
  <2>4. running'[s][Acceptor] => running[s][Acceptor] \/ thread[s][Acceptor] = "born"
    BY <1>2, <2>1, <2>2
  <2> QED
    BY <1>1, <1>3, <1>4, <2>2, <2>3, <2>4
<1>6. CASE LoopTest(s, p) \/ Passes(s, p)
  <2>1. running' = running
    BY <1>6 DEF LoopTest, Passes, AcceptorPass, TasksDone, ManagerPass, Spin, SpinEnds
  <2>2. thread[s][p] \in InLoop
    BY <1>6 DEF LoopTest, Passes, AcceptorPass, TasksDone, ManagerPass, Spin, SpinEnds, InLoop
  <2> QED
    BY <1>1, <1>2, <1>3, <1>4, <2>1, <2>2
<1> QED
  BY <1>5, <1>6

LEMMA LoopStep ==
    ASSUME IInv, NEW s \in Servers, NEW p \in Parts,
           SetRunning(s, p) \/ LoopTest(s, p) \/ Passes(s, p)
    PROVE  IInv'
<1>1. /\ UNCHANGED <<server, starts, pc, turn, object, handle, open, conn, sending, broken, wild>>
      /\ thread[s][p] \in {"born", "loop", "body", "wait", "spin"} /\ ~ Deleted(s, p)
      /\ running' \in [Servers -> [Parts -> BOOLEAN]]
      /\ \A t \in Servers, q \in Parts : running[t][q] => running'[t][q]
      /\ \A t \in Servers, q \in Parts : t # s \/ q # p => thread'[t][q] = thread[t][q]
  BY LoopMove
<1>2. PICK label \in {"loop", "body", "wait", "spin", "end"} :
          /\ thread' = [thread EXCEPT ![s][p] = label]
          /\ label \in InLoop => thread[s][p] \in InLoop \/ running'[s][p]
  BY LoopMove
<1>3. s = server
  BY <1>1, Current
<1>4. conn \in ConnType /\ conn' \in ConnType
  BY <1>1 DEF IInv, TypeOK, ConnType, ConnRecord
<1>5. ConnInv'
  <2>1. \A t \in Servers : thread[t][Acceptor] = "adding" => thread'[t][Acceptor] = "adding"
    BY <1>1, Numbers
  <2> QED
    BY <1>1, <2>1 DEF IInv, ConnInv, Manager, Deleted, Is
<1>6. ClosingInv'
  <2>1. \A m \in Managers : thread[server][m] = "erase" => thread'[server][m] = "erase"
    BY <1>1, <1>3, Numbers
  <2> QED
    BY <1>1, <1>4, <2>1, ClosingKept DEF IInv
<1>7. label \in ThreadStates
  BY DEF ThreadStates
<1> QED
  BY <1>1, <1>2, <1>3, <1>4, <1>5, <1>6, <1>7, PartStep

\* A step that only changes connections.
LEMMA ConnOnlyStep ==
    ASSUME IInv, UNCHANGED <<app, parts, open, rest>>, conn' \in ConnType, ConnInv', ClosingInv'
    PROVE  IInv'
<1> USE DEF rest, app, parts
<1>1. TypeOK'
  BY DEF IInv, TypeOK, ConnType, ConnRecord
<1>2. ServersInv' /\ TurnInv'
  BY DEF IInv, ServersInv, TurnInv, Deleted
<1>3. AcceptorInv' /\ OpenInv'
  BY DEF IInv, AcceptorInv, OpenInv, Deleted
<1> QED
  BY <1>1, <1>2, <1>3 DEF IInv

\* A step of the acceptor's thread that takes the connection c out of where it was.
LEMMA AcceptorStep ==
    ASSUME IInv, NEW s \in Servers, NEW label \in InLoop, NEW c \in Conns,
           UNCHANGED <<app, object, running, handle, open, rest>>,
           thread[s][Acceptor] \in InLoop,
           thread' = [thread EXCEPT ![s][Acceptor] = label],
           conn' \in ConnType, conn'[c].state # "closing",
           \A d \in Conns : d # c => conn'[d] = conn[d],
           ConnInv'
    PROVE  IInv'
<1>1. s = server /\ Acceptor \in Parts /\ label \in ThreadStates /\ thread[s][Acceptor] # "none"
  BY Numbers DEF IInv, AcceptorInv, InLoop, ThreadStates
<1>2. conn \in ConnType /\ running \in [Servers -> [Parts -> BOOLEAN]]
      /\ thread \in [Servers -> [Parts -> ThreadStates]]
  BY DEF IInv, TypeOK, ConnType, ConnRecord
<1>3. \A t \in Servers, q \in Parts : t # s \/ q # Acceptor => thread'[t][q] = thread[t][q]
  BY <1>1, <1>2, Entry
<1>4. \A m \in Managers : thread[server][m] = "erase" => thread'[server][m] = "erase"
  BY <1>1, <1>3, Numbers
<1>5. UNCHANGED <<server, starts, pc, turn, object, handle, open, sending, broken, wild>>
      /\ running' = running
  BY DEF app, rest
<1>6. ClosingInv'
  <2>1. \A d \in Conns : conn'[d].state = "closing" => conn'[d] = conn[d]
    OBVIOUS
  <2> QED
    BY <1>2, <1>4, <1>5, <2>1, ClosingKept DEF IInv
<1> QED
  BY <1>1, <1>2, <1>5, <1>6, PartStep

LEMMA AcceptStep ==
    ASSUME IInv, NEW s \in Servers, NEW c \in Conns, Accept(s, c)
    PROVE  IInv'
<1>1. /\ thread[s][Acceptor] = "body" /\ conn[c].state = "pending" /\ conn[c].server = s
      /\ thread' = [thread EXCEPT ![s][Acceptor] = "adding"]
      /\ UNCHANGED <<app, object, running, handle, open, rest>>
  BY DEF Accept, Move, Is
<1>2. PICK f \in Fds : conn' = [conn EXCEPT ![c].state = "accepted", ![c].fd = f]
  BY DEF Accept, FreeFds
<1>3. /\ conn' \in ConnType
      /\ conn'[c].state = "accepted" /\ conn'[c].server = s
      /\ \A d \in Conns : d # c => conn'[d] = conn[d]
  <2>1. conn \in ConnType
    BY DEF IInv, TypeOK, ConnType, ConnRecord
  <2>2. conn[c] \in ConnRecord
    BY <2>1 DEF ConnType
  <2>3. conn' = [conn EXCEPT ![c] = [conn[c] EXCEPT !.state = "accepted", !.fd = f]]
    BY <1>2, <2>1 DEF ConnType
  <2>4. conn'[c] = [conn[c] EXCEPT !.state = "accepted", !.fd = f]
    BY <2>1, <2>3 DEF ConnType
  <2>5. conn'[c].state = "accepted" /\ conn'[c].server = s /\ conn'[c] \in ConnRecord
    BY <1>1, <2>2, <2>4 DEF ConnRecord, ConnStates
  <2>6. \A d \in Conns : d # c => conn'[d] = conn[d]
    BY <2>1, <2>3 DEF ConnType
  <2>7. conn' \in ConnType
    BY <2>1, <2>3, <2>4, <2>5 DEF ConnType
  <2> QED
    BY <2>5, <2>6, <2>7
<1>4. /\ thread'[s][Acceptor] = "adding"
      /\ \A t \in Servers : t # s => thread'[t][Acceptor] = thread[t][Acceptor]
  <2>1. thread \in [Servers -> [Parts -> ThreadStates]] /\ Acceptor \in Parts
        /\ "adding" \in ThreadStates
    BY Numbers DEF IInv, TypeOK, ThreadStates
  <2> QED
    BY <1>1, <2>1, Entry
<1>5. ConnInv'
  <2>1. ASSUME NEW d \in Conns, conn[d].state = "accepted"
        PROVE  conn[d].server # s
    BY <1>1, <2>1 DEF IInv, ConnInv
  <2>2. ASSUME NEW d \in Conns, d # c, conn'[d].state = "accepted"
        PROVE  /\ conn'[d].server \in Servers
               /\ thread'[conn'[d].server][Acceptor] = "adding"
               /\ \A e \in Conns : conn'[e].state = "accepted" /\ conn'[e].server = conn'[d].server
                                      => e = d
    <3>1. conn'[d] = conn[d] /\ conn[d].server # s
      BY <1>3, <2>1, <2>2
    <3>2. \A e \in Conns : conn'[e].server = conn[d].server => conn'[e] = conn[e]
      BY <1>3, <3>1
    <3>3. conn[d].server \in Servers /\ thread[conn[d].server][Acceptor] = "adding"
      BY <2>2, <3>1 DEF IInv, ConnInv
    <3>4. \A e \in Conns : Is(e, "accepted", conn[d].server) => e = d
      BY <2>2, <3>1 DEF IInv, ConnInv
    <3>5. thread'[conn[d].server][Acceptor] = "adding"
      BY <1>4, <3>1, <3>3
    <3>6. \A e \in Conns : conn'[e].state = "accepted" /\ conn'[e].server = conn[d].server
                              => e = d
      BY <3>2, <3>4 DEF Is
    <3> QED
      BY <3>1, <3>3, <3>5, <3>6
  <2>3. \A e \in Conns : conn'[e].state = "accepted" /\ conn'[e].server = s => e = c
    BY <1>3, <2>1
  <2>4. \A d \in Conns : conn'[d].state = "pending" => <<conn'[d].server, Acceptor>> \in open
    BY <1>3 DEF IInv, ConnInv
  <2>5. \A d \in Conns : conn'[d].state \in InManager =>
            /\ conn'[d].server = server /\ server # NoServer
            /\ ~ Deleted(server, CurrCellManager(conn'[d].fd))
    BY <1>3 DEF IInv, ConnInv, Manager, InManager
  <2>6. UNCHANGED <<server, open, object>>
    BY <1>1 DEF app
  <2> QED
    BY <1>3, <1>4, <2>2, <2>3, <2>4, <2>5, <2>6 DEF ConnInv, Manager, Is, Deleted
<1> QED
  BY <1>1, <1>3, <1>5, AcceptorStep DEF InLoop

LEMMA AddTaskStep ==
    ASSUME IInv, NEW s \in Servers, NEW c \in Conns, AddTask(s, c)
    PROVE  IInv'
<1>1. /\ thread[s][Acceptor] = "adding" /\ conn[c].state = "accepted" /\ conn[c].server = s
  BY DEF AddTask, Is
<1>2. CASE Deleted(s, Manager(c))
  <2>1. /\ UNCHANGED <<app, parts, open, conn, sending, broken>> /\ wild' = wild \cup {"use"}
    BY <1>2 DEF AddTask, Wild, Manager
  <2> QED
    BY <2>1, QuietStep DEF IInv, TypeOK
<1>3. CASE ~ Deleted(s, Manager(c))
  <2>1. PICK state \in {"stored", "refused"} : Become(c, state)
    BY <1>3 DEF AddTask, Manager
  <2>2. /\ thread' = [thread EXCEPT ![s][Acceptor] = "loop"]
        /\ UNCHANGED <<app, object, running, handle, open, rest>>
    BY <1>3 DEF AddTask, Manager, Move
  <2>3. /\ conn' \in ConnType
        /\ conn'[c].state = state /\ conn'[c].server = s /\ conn'[c].fd = conn[c].fd
        /\ \A d \in Conns : d # c => conn'[d] = conn[d]
    <3>1. conn \in ConnType /\ state \in ConnStates
      BY DEF IInv, TypeOK, ConnType, ConnRecord, ConnStates
    <3> QED
      BY <1>1, <2>1, <3>1, BecomeStep
  <2>4. \A t \in Servers : t # s => thread'[t][Acceptor] = thread[t][Acceptor]
    <3>1. thread \in [Servers -> [Parts -> ThreadStates]] /\ Acceptor \in Parts
          /\ "loop" \in ThreadStates
      BY Numbers DEF IInv, TypeOK, ThreadStates
    <3> QED
      BY <2>2, <3>1, Entry
  <2>5. s = server /\ server # NoServer
    BY <1>1, Numbers DEF IInv, AcceptorInv, InLoop
  <2>6. ConnInv'
    <3>1. ASSUME NEW d \in Conns, d # c, conn[d].state = "accepted"
          PROVE  conn[d].server # s
      BY <1>1, <3>1 DEF IInv, ConnInv, Is
    <3>2. ASSUME NEW d \in Conns, conn'[d].state = "accepted"
          PROVE  /\ conn'[d].server \in Servers
                 /\ thread'[conn'[d].server][Acceptor] = "adding"
                 /\ \A e \in Conns : conn'[e].state = "accepted" /\ conn'[e].server = conn'[d].server
                                        => e = d
      <4>1. d # c /\ conn'[d] = conn[d] /\ conn[d].server # s
        BY <2>3, <3>1, <3>2
      <4>2. \A e \in Conns : conn'[e].state = "accepted" => conn'[e] = conn[e]
        BY <2>3
      <4>3. conn[d].server \in Servers /\ thread[conn[d].server][Acceptor] = "adding"
        BY <3>2, <4>1 DEF IInv, ConnInv
      <4>4. \A e \in Conns : Is(e, "accepted", conn[d].server) => e = d
        BY <3>2, <4>1 DEF IInv, ConnInv
      <4>5. thread'[conn[d].server][Acceptor] = "adding"
        BY <2>4, <4>1, <4>3
      <4>6. \A e \in Conns : conn'[e].state = "accepted" /\ conn'[e].server = conn[d].server
                                => e = d
        BY <4>2, <4>4 DEF Is
      <4> QED
        BY <4>1, <4>3, <4>5, <4>6
    <3>3. \A d \in Conns : conn'[d].state = "pending" => <<conn'[d].server, Acceptor>> \in open
      BY <2>3 DEF IInv, ConnInv
    <3>4. \A d \in Conns : conn'[d].state \in InManager =>
              conn'[d].server = server /\ ~ Deleted(server, CurrCellManager(conn'[d].fd))
      BY <1>3, <2>3, <2>5 DEF IInv, ConnInv, Manager
    <3>5. UNCHANGED <<server, open, object>>
      BY <2>2 DEF app
    <3> QED
      BY <2>5, <3>2, <3>3, <3>4, <3>5 DEF ConnInv, Manager, Is, Deleted
  <2> QED
    BY <1>1, <2>2, <2>3, <2>6, AcceptorStep DEF InLoop
<1> QED
  BY <1>2, <1>3

\* A connection that is with its manager moves on there; no thread does.
LEMMA AnnounceStep ==
    ASSUME IInv, NEW c \in Conns,
           Publish(c) \/ \E s \in Servers, m \in Managers : Announce(s, m, c)
    PROVE  IInv'
<1>1. /\ conn[c].state \in {"stored", "queued", "refused"}
      /\ Become(c, "queued") \/ Become(c, "announced")
      /\ UNCHANGED <<app, parts, open, rest>>
  BY DEF Publish, Announce
<1>2. PICK state \in {"queued", "announced"} : Become(c, state)
  BY <1>1
<1>3. conn \in ConnType /\ state \in ConnStates
  BY DEF IInv, TypeOK, ConnType, ConnRecord, ConnStates
<1>4. /\ conn' \in ConnType /\ conn'[c].state = state
      /\ \A d \in Conns : d # c => conn'[d] = conn[d]
      /\ \A d \in Conns : conn'[d].server = conn[d].server /\ conn'[d].fd = conn[d].fd
  BY <1>2, <1>3, BecomeStep
<1>5. UNCHANGED <<server, open, object, thread>>
  BY <1>1 DEF app, parts
<1>6. ConnInv'
  <2>1. \A d \in Conns : conn'[d].state \in {"pending", "accepted"} => conn'[d] = conn[d]
    BY <1>4
  <2>2. \A d \in Conns : conn'[d].state = "pending" => <<conn'[d].server, Acceptor>> \in open'
    BY <1>5, <2>1 DEF IInv, ConnInv
  <2>3. \A d \in Conns : conn'[d].state \in InManager => conn[d].state \in InManager
    BY <1>1, <1>4 DEF InManager
  <2> QED
    BY <1>4, <1>5, <2>1, <2>2, <2>3, ConnKept DEF IInv
<1>7. ClosingInv'
  <2>1. \A d \in Conns : conn'[d].state = "closing" => conn'[d] = conn[d]
    BY <1>4
  <2> QED
    BY <1>3, <1>5, <2>1, ClosingKept DEF IInv
<1> QED
  BY <1>1, <1>4, <1>6, <1>7, ConnOnlyStep

\* handleDel, up to the erase: no other connection of the manager is being closed.
LEMMA EndStep ==
    ASSUME IInv, NEW s \in Servers, NEW m \in Managers, NEW c \in Conns, End(s, m, c)
    PROVE  IInv'
<1>1. /\ thread[s][m] = "body" /\ ~ Deleted(s, m)
      /\ conn[c].state \in {"stored", "queued", "refused", "announced"}
      /\ conn[c].server = s /\ Manager(c) = m
      /\ Become(c, "closing")
      /\ thread' = [thread EXCEPT ![s][m] = "erase"]
      /\ UNCHANGED <<app, object, running, handle, open, rest>>
  BY DEF End, Cells, At, Manager, Move
<1>2. m \in Parts /\ m # Acceptor /\ "erase" \in ThreadStates /\ "body" \in InLoop
  BY Numbers DEF ThreadStates, InLoop
<1>3. s = server
  BY <1>1, <1>2, Current
<1>4. conn \in ConnType /\ "closing" \in ConnStates
      /\ thread \in [Servers -> [Parts -> ThreadStates]]
      /\ running \in [Servers -> [Parts -> BOOLEAN]]
  BY DEF IInv, TypeOK, ConnType, ConnRecord, ConnStates
<1>5. /\ conn' \in ConnType /\ conn'[c].state = "closing"
      /\ \A d \in Conns : d # c => conn'[d] = conn[d]
      /\ \A d \in Conns : conn'[d].server = conn[d].server /\ conn'[d].fd = conn[d].fd
  BY <1>1, <1>4, BecomeStep
<1>6. /\ thread'[s][m] = "erase"
      /\ \A t \in Servers, q \in Parts : t # s \/ q # m => thread'[t][q] = thread[t][q]
  BY <1>1, <1>2, <1>4, Entry
<1>7. UNCHANGED <<server, starts, pc, turn, object, handle, open, sending, broken, wild>>
      /\ running' = running
  BY <1>1 DEF app, rest
<1>8. ConnInv'
  <2>1. \A d \in Conns : conn'[d].state \in {"pending", "accepted"} => conn'[d] = conn[d]
    BY <1>5
  <2>2. \A d \in Conns : conn'[d].state = "pending" => <<conn'[d].server, Acceptor>> \in open'
    BY <1>7, <2>1 DEF IInv, ConnInv
  <2>3. \A d \in Conns : conn'[d].state \in InManager => conn[d].state \in InManager
    BY <1>1, <1>5 DEF InManager
  <2>4. \A t \in Servers : thread[t][Acceptor] = "adding" => thread'[t][Acceptor] = "adding"
    BY <1>2, <1>6, Numbers
  <2> QED
    BY <1>5, <1>7, <2>1, <2>2, <2>3, <2>4, ConnKept DEF IInv
<1>9. ClosingInv'
  <2>1. ASSUME NEW d \in Conns, d # c, conn'[d].state = "closing"
        PROVE  /\ conn[d].state = "closing" /\ Manager(d) # m /\ Manager(d) \in Parts
               /\ thread[s][Manager(d)] = "erase"
    <3>1. conn[d].state = "closing"
      BY <1>5, <2>1
    <3>2. thread[s][Manager(d)] = "erase"
      BY <1>3, <3>1 DEF IInv, ClosingInv
    <3>3. Manager(d) \in Parts
      BY <1>4, HasManager, Numbers
    <3> QED
      BY <1>1, <3>1, <3>2, <3>3
  <2>2. ASSUME NEW d \in Conns, conn'[d].state = "closing"
        PROVE  thread'[s][CurrCellManager(conn'[d].fd)] = "erase"
    <3>1. CurrCellManager(conn'[d].fd) = Manager(d)
      BY <1>5 DEF Manager
    <3>2. CASE d = c
      BY <1>1, <1>6, <3>1, <3>2
    <3>3. CASE d # c
      BY <1>6, <2>1, <2>2, <3>1, <3>3
    <3> QED
      BY <3>2, <3>3
  <2>3. ASSUME NEW d \in Conns, conn'[d].state = "closing",
               NEW e \in Conns, conn'[e].state = "closing",
               CurrCellManager(conn'[e].fd) = CurrCellManager(conn'[d].fd)
        PROVE  e = d
    <3>1. Manager(e) = Manager(d)
      BY <1>5, <2>3 DEF Manager
    <3>2. CASE d = c
      BY <1>1, <2>1, <2>3, <3>1, <3>2
    <3>3. CASE e = c
      BY <1>1, <2>1, <2>3, <3>1, <3>3
    <3>4. CASE d # c /\ e # c
      <4>1. conn[d].state = "closing" /\ conn[e].state = "closing"
        BY <2>1, <2>3, <3>4
      <4> QED
        BY <3>1, <4>1 DEF IInv, ClosingInv
    <3> QED
      BY <3>2, <3>3, <3>4
  <2> QED
    BY <1>3, <1>7, <2>2, <2>3 DEF ClosingInv, Manager
<1> QED
  BY <1>1, <1>2, <1>3, <1>4, <1>5, <1>7, <1>8, <1>9, PartStep

\* The erase: the manager closes no other connection, and those it loses are forgotten.
LEMMA EraseStep ==
    ASSUME IInv, NEW s \in Servers, NEW m \in Managers, Erase(s, m)
    PROVE  IInv'
<1>1. /\ thread[s][m] = "erase" /\ ~ Deleted(s, m)
      /\ thread' = [thread EXCEPT ![s][m] = "body"]
      /\ UNCHANGED <<app, object, running, handle, open, rest>>
  BY DEF Erase, Move
<1>2. PICK c \in Closing(s, m) :
          conn' = [d \in Conns |->
                     CASE d = c -> [conn[d] EXCEPT !.state = "closed"]
                       [] d \in Cells(s, m) /\ conn[d].fd = conn[c].fd ->
                            [conn[d] EXCEPT !.state = "lost"]
                       [] OTHER -> conn[d]]
  BY DEF Erase
<1>3. c \in Conns /\ conn[c].state = "closing" /\ Manager(c) = m /\ c \notin Cells(s, m)
  BY DEF Closing, Cells, At, Manager
<1>4. m \in Parts /\ m # Acceptor /\ "body" \in ThreadStates /\ "erase" \in InLoop
  BY Numbers DEF ThreadStates, InLoop
<1>5. s = server
  BY <1>1, <1>4, Current
<1>6. conn \in ConnType
      /\ thread \in [Servers -> [Parts -> ThreadStates]]
      /\ running \in [Servers -> [Parts -> BOOLEAN]]
  BY DEF IInv, TypeOK, ConnType, ConnRecord
<1>7. /\ conn' \in ConnType
      /\ \A d \in Conns : (conn'[d] = conn[d] /\ d # c) \/ conn'[d].state \in {"closed", "lost"}
  <2>1. \A d \in Conns : conn[d] \in ConnRecord
    BY <1>6 DEF ConnType
  <2>2. ASSUME NEW d \in Conns
        PROVE  /\ conn'[d] \in ConnRecord
               /\ (conn'[d] = conn[d] /\ d # c) \/ conn'[d].state \in {"closed", "lost"}
    <3>1. CASE d = c
      <4>1. conn'[d] = [conn[d] EXCEPT !.state = "closed"]
        BY <1>2, <1>3, <3>1
      <4> QED
        BY <2>1, <4>1 DEF ConnRecord, ConnStates
    <3>2. CASE d # c /\ d \in Cells(s, m) /\ conn[d].fd = conn[c].fd
      <4>1. conn'[d] = [conn[d] EXCEPT !.state = "lost"]
        BY <1>2, <3>2
      <4> QED
        BY <2>1, <4>1 DEF ConnRecord, ConnStates
    <3>3. CASE d # c /\ ~ (d \in Cells(s, m) /\ conn[d].fd = conn[c].fd)
      <4>1. conn'[d] = conn[d]
        BY <1>2, <3>3
      <4> QED
        BY <2>1, <3>3, <4>1
    <3> QED
      BY <3>1, <3>2, <3>3
  <2>3. conn' \in ConnType
    BY <1>2, <2>2 DEF ConnType
  <2> QED
    BY <2>2, <2>3
<1>8. \A t \in Servers, q \in Parts : t # s \/ q # m => thread'[t][q] = thread[t][q]
  BY <1>1, <1>4, <1>6, Entry
<1>9. UNCHANGED <<server, starts, pc, turn, object, handle, open, sending, broken, wild>>
      /\ running' = running
  BY <1>1 DEF app, rest
<1>10. ConnInv'
  <2>1. \A d \in Conns : conn'[d].state \in InManager \cup {"pending", "accepted"} => conn'[d] = conn[d]
    BY <1>7 DEF InManager
  <2>2. \A d \in Conns : conn'[d].state = "pending" => <<conn'[d].server, Acceptor>> \in open'
    BY <1>9, <2>1 DEF IInv, ConnInv
  <2>3. \A t \in Servers : thread[t][Acceptor] = "adding" => thread'[t][Acceptor] = "adding"
    BY <1>4, <1>8, Numbers
  <2> QED
    BY <1>9, <2>1, <2>2, <2>3, ConnKept DEF IInv
<1>11. ClosingInv'
  <2>1. ASSUME NEW d \in Conns, conn'[d].state = "closing"
        PROVE  /\ conn'[d] = conn[d] /\ conn[d].state = "closing" /\ Manager(d) # m
               /\ Manager(d) \in Parts
    <3>1. conn'[d] = conn[d] /\ d # c /\ conn[d].state = "closing"
      BY <1>7, <2>1
    <3>2. Manager(d) # Manager(c)
      BY <1>3, <3>1 DEF IInv, ClosingInv
    <3>3. Manager(d) \in Parts
      BY <1>6, HasManager, Numbers
    <3> QED
      BY <1>3, <3>1, <3>2, <3>3
  <2>2. ASSUME NEW d \in Conns, conn'[d].state = "closing"
        PROVE  thread'[s][CurrCellManager(conn'[d].fd)] = "erase"
    <3>1. thread[s][Manager(d)] = "erase"
      BY <1>5, <2>1, <2>2 DEF IInv, ClosingInv
    <3> QED
      BY <1>8, <2>1, <2>2, <3>1 DEF Manager
  <2>3. ASSUME NEW d \in Conns, conn'[d].state = "closing",
               NEW e \in Conns, conn'[e].state = "closing",
               CurrCellManager(conn'[e].fd) = CurrCellManager(conn'[d].fd)
        PROVE  e = d
    <3>1. conn[d].state = "closing" /\ conn[e].state = "closing" /\ Manager(e) = Manager(d)
      BY <2>1, <2>3 DEF Manager
    <3> QED
      BY <3>1 DEF IInv, ClosingInv
  <2> QED
    BY <1>5, <1>9, <2>2, <2>3 DEF ClosingInv, Manager
<1> QED
  BY <1>1, <1>4, <1>5, <1>6, <1>7, <1>9, <1>10, <1>11, PartStep

LEMMA PeerStep ==
    ASSUME IInv, NEW c \in Conns, PeerConnect(c)
    PROVE  IInv'
<1>1. PICK s \in Servers :
          /\ <<s, Acceptor>> \in open
          /\ conn' = [conn EXCEPT ![c].state = "pending", ![c].server = s]
  BY DEF PeerConnect
<1>2. conn[c].state = "none" /\ UNCHANGED <<app, parts, open, rest>>
  BY DEF PeerConnect
<1>3. /\ conn' \in ConnType
      /\ conn'[c].state = "pending" /\ conn'[c].server = s
      /\ \A d \in Conns : d # c => conn'[d] = conn[d]
  <2>1. conn \in ConnType
    BY DEF IInv, TypeOK, ConnType, ConnRecord
  <2>2. conn[c] \in ConnRecord
    BY <2>1 DEF ConnType
  <2>3. conn' = [conn EXCEPT ![c] = [conn[c] EXCEPT !.state = "pending", !.server = s]]
    BY <1>1, <2>1 DEF ConnType
  <2>4. conn'[c] = [conn[c] EXCEPT !.state = "pending", !.server = s]
    BY <2>1, <2>3 DEF ConnType
  <2>5. conn'[c].state = "pending" /\ conn'[c].server = s /\ conn'[c] \in ConnRecord
    BY <2>2, <2>4 DEF ConnRecord, ConnStates
  <2>6. \A d \in Conns : d # c => conn'[d] = conn[d]
    BY <2>1, <2>3 DEF ConnType
  <2>7. conn' \in ConnType
    BY <2>1, <2>3, <2>4, <2>5 DEF ConnType
  <2> QED
    BY <2>5, <2>6, <2>7
<1>4. UNCHANGED <<server, open, object, thread>>
  BY <1>2 DEF app, parts
<1>5. ConnInv'
  <2>1. \A d \in Conns : conn'[d].state \in InManager \cup {"accepted"} => conn'[d] = conn[d]
    BY <1>3 DEF InManager
  <2>2. ASSUME NEW d \in Conns, conn'[d].state = "accepted"
        PROVE  /\ conn'[d].server \in Servers
               /\ thread[conn'[d].server][Acceptor] = "adding"
               /\ \A e \in Conns : conn'[e].state = "accepted" /\ conn'[e].server = conn'[d].server
                                      => e = d
    BY <2>1, <2>2, KeepsAccepted DEF IInv
  <2>3. \A d \in Conns : conn'[d].state = "pending" => <<conn'[d].server, Acceptor>> \in open
    BY <1>1, <1>3 DEF IInv, ConnInv
  <2>4. \A d \in Conns : conn'[d].state \in InManager =>
            /\ conn'[d].server = server /\ server # NoServer
            /\ ~ Deleted(server, CurrCellManager(conn'[d].fd))
    BY <2>1 DEF IInv, ConnInv, Manager
  <2> QED
    BY <1>4, <2>2, <2>3, <2>4 DEF ConnInv, Manager, Is, Deleted
<1>6. ClosingInv'
  <2>1. \A d \in Conns : conn'[d].state = "closing" => conn'[d] = conn[d]
    BY <1>3
  <2>2. conn \in ConnType
    BY DEF IInv, TypeOK, ConnType, ConnRecord
  <2> QED
    BY <1>4, <2>1, <2>2, ClosingKept DEF IInv
<1> QED
  BY <1>2, <1>3, <1>5, <1>6, ConnOnlyStep

\* Senders, and the use of what has been deleted.
LEMMA SendStep ==
    ASSUME IInv,
           \/ \E x \in Senders : SendLook(x) \/ SendData(x)
           \/ \E s \in Servers, m \in Managers : Relay(s, m)
           \/ \E s \in Servers, p \in Parts : Outlives(s, p)
           \/ DeleteTwice
    PROVE  IInv'
<1>1. UNCHANGED <<app, parts, open, conn>>
  BY DEF SendLook, SendData, Relay, Outlives, DeleteTwice, Wild
<1>2. broken' \subseteq {"stop", "send"}
  BY DEF SendLook, SendData, Relay, Outlives, DeleteTwice, Wild, BreaksSend, Breaks, IInv, TypeOK
<1>3. wild' \subseteq {"use", "delete"}
  BY DEF SendLook, SendData, Relay, Outlives, DeleteTwice, Wild, IInv, TypeOK
<1>4. sending' \in [Senders -> Servers \cup {NoServer}]
  BY Numbers DEF SendLook, SendData, Relay, Outlives, DeleteTwice, Wild, IInv, TypeOK
<1> QED
  BY <1>1, <1>2, <1>3, <1>4, QuietStep

-----------------------------------------------------------------------------
LEMMA InitIInv == Init => IInv
<1> SUFFICES ASSUME Init PROVE IInv
  OBVIOUS
<1>1. TypeOK
  BY Numbers DEF Init, TypeOK, Each, ThreadStates, ConnStates
<1>2. ServersInv
  BY Numbers DEF Init, ServersInv, Each, Deleted
<1>3. TurnInv
  BY DEF Init, TurnInv, Deletes
<1>4. AcceptorInv
  BY Numbers DEF Init, AcceptorInv, Each, InLoop
<1>5. OpenInv /\ ConnInv /\ ClosingInv
  BY DEF Init, OpenInv, ConnInv, ClosingInv, InManager
<1> QED
  BY <1>1, <1>2, <1>3, <1>4, <1>5 DEF IInv

\* The steps of the server's threads, sorted by what they change.
LEMMA RunSteps ==
    ASSUME NEW s \in Servers,
           \/ AcceptorRun(s) \/ \E c \in Conns : Accept(s, c)
           \/ \E m \in Managers :
                 \/ ManagerRun(s, m) \/ \E c \in Conns : End(s, m, c)
                 \/ Spin(s, m) \/ SpinEnds(s, m) \/ Relay(s, m)
    PROVE  \/ \E p \in Parts : Loop(s, p) \/ Passes(s, p)
           \/ \E c \in Conns : Accept(s, c) \/ AddTask(s, c)
           \/ \E m \in Managers :
                 \/ Erase(s, m) \/ Relay(s, m)
                 \/ \E c \in Conns : Announce(s, m, c) \/ End(s, m, c)
<1>1. CASE AcceptorRun(s)
  BY <1>1, Numbers DEF AcceptorRun, Passes
<1>2. ASSUME NEW m \in Managers, ManagerRun(s, m) \/ Spin(s, m) \/ SpinEnds(s, m)
      PROVE  \/ Loop(s, m) \/ Passes(s, m) \/ Erase(s, m)
             \/ \E c \in Conns : Announce(s, m, c)
  BY <1>2 DEF ManagerRun, Passes
<1> QED
  BY <1>1, <1>2, Numbers

LEMMA NextIInv == IInv /\ [Next]_vars => IInv'
<1> SUFFICES ASSUME IInv, [Next]_vars PROVE IInv'
  OBVIOUS
<1>1. CASE Starting
  BY <1>1, StartStep, CreateStep DEF Starting
<1>2. CASE Stop
  BY <1>2, MoveStep
<1>3. CASE Stopping
  BY <1>3, MoveStep, StopClaimStep, JoinStep, SendStep, DeleteStep, CloseServerStep, DestroyStep
     DEF Stopping
<1>4. ASSUME NEW s \in Servers, NEW p \in Parts, Loop(s, p) \/ Passes(s, p)
      PROVE  IInv'
  BY <1>4, LoopStep, SendStep DEF Loop
<1>5. ASSUME NEW s \in Servers, NEW c \in Conns, Accept(s, c) \/ AddTask(s, c)
      PROVE  IInv'
  BY <1>5, AcceptStep, AddTaskStep
<1>6. ASSUME NEW s \in Servers, NEW m \in Managers,
             \/ Erase(s, m) \/ Relay(s, m)
             \/ \E c \in Conns : Announce(s, m, c) \/ End(s, m, c)
      PROVE  IInv'
  BY <1>6, EraseStep, SendStep, AnnounceStep, EndStep
<1>7. ASSUME NEW c \in Conns, PeerConnect(c) \/ Publish(c)
      PROVE  IInv'
  BY <1>7, PeerStep, AnnounceStep
<1>8. ASSUME NEW x \in Senders, SendLook(x) \/ SendData(x)
      PROVE  IInv'
  BY <1>8, SendStep
<1>9. CASE UNCHANGED vars
  <2>1. UNCHANGED <<app, parts, open, conn>> /\ UNCHANGED <<sending, broken, wild>>
    BY <1>9 DEF vars, rest
  <2> QED
    BY <2>1, QuietStep DEF IInv, TypeOK
<1> QED
  BY <1>1, <1>2, <1>3, <1>4, <1>5, <1>6, <1>7, <1>8, <1>9, RunSteps DEF Next

-----------------------------------------------------------------------------
(* What is kept besides while the servers are stopped only once their threads run. *)

\* Steps that leave the objects, their threads and the application's place alone.
LEMMA QuietThreads ==
    ASSUME ThreadsInv, JoinInv, UNCHANGED <<server, pc, turn, object, running, thread>>
    PROVE  ThreadsInv' /\ JoinInv'
BY DEF ThreadsInv, JoinInv, Deleted

\* One thread of the current server, which has not ended, takes a step.
LEMMA ThreadMoves ==
    ASSUME ThreadsInv, JoinInv, NEW s \in Servers, NEW p \in Parts,
           UNCHANGED <<server, pc, turn, object>>,
           s = server, thread[s][p] \notin Ended, thread'[s][p] # "born",
           \A t \in Servers, q \in Parts : t # s \/ q # p => thread'[t][q] = thread[t][q],
           \A t \in Servers, q \in Parts : running[t][q] => running'[t][q],
           running'[s][Acceptor] => running[s][Acceptor] \/ thread[s][Acceptor] = "born",
           p \in Managers /\ thread'[s][p] \in InLoop =>
               running'[s][p] \/ thread[s][p] \in InLoop
    PROVE  ThreadsInv' /\ JoinInv'
<1>1. \A t \in Servers : t # server => \A q \in Parts : thread'[t][q] \in Ended
  BY DEF ThreadsInv
<1>2. pc \notin {"idle", "start"} => \A q \in Parts : thread'[server][q] # "born"
  BY DEF ThreadsInv
<1>3. ASSUME NEW t \in Servers, NEW m \in Managers, thread'[t][m] \in InLoop
      PROVE  running'[t][m] \/ (pc = "joinmanager" /\ m = turn)
  <2>1. m \in Parts
    BY Numbers
  <2>2. CASE t = s /\ m = p
    <3>1. running'[s][p] \/ thread[s][p] \in InLoop
      BY <1>3, <2>2
    <3>2. thread[s][p] \in InLoop => running[s][p] \/ (pc = "joinmanager" /\ p = turn)
      BY <2>2 DEF ThreadsInv
    <3> QED
      BY <2>2, <3>1, <3>2
  <2>3. CASE t # s \/ m # p
    <3>1. thread[t][m] \in InLoop
      BY <1>3, <2>1, <2>3
    <3>2. running[t][m] \/ (pc = "joinmanager" /\ m = turn)
      BY <3>1 DEF ThreadsInv
    <3> QED
      BY <2>1, <3>2
  <2> QED
    BY <2>2, <2>3
<1>4. ThreadsInv'
  BY <1>1, <1>2, <1>3 DEF ThreadsInv
<1>5. \A q \in Parts : thread[server][q] \in Ended => thread'[server][q] \in Ended
  BY DEF Ended
<1>6. server # NoServer
  BY Numbers
<1>7. pc \in Deletes \cup {"join"} => ~ running'[server][Acceptor]
  <2>1. SUFFICES ASSUME pc \in Deletes \cup {"join"} PROVE ~ running'[server][Acceptor]
    OBVIOUS
  <2>2. ~ running[server][Acceptor]
    BY <1>6, <2>1 DEF JoinInv
  <2>3. thread[server][Acceptor] # "born"
    BY <2>1, Numbers DEF ThreadsInv, Deletes
  <2> QED
    BY <2>2, <2>3
<1>8. pc \in Deletes => thread'[server][Acceptor] \in Ended
  BY <1>5, <1>6, Numbers DEF JoinInv
<1>9. pc \in Deletes => \A m \in Managers : m < turn => thread'[server][m] \in Ended
  BY <1>5, <1>6, Numbers DEF JoinInv
<1>10. pc \in {"closemanager", "deletemanager"} =>
           turn \in Parts /\ thread'[server][turn] \in Ended
  BY <1>5, <1>6 DEF JoinInv
<1>11. JoinInv'
  BY <1>6, <1>7, <1>8, <1>9, <1>10 DEF JoinInv, Deleted
<1> QED
  BY <1>4, <1>11

LEMMA LoopThreads ==
    ASSUME IInv, ThreadsInv, JoinInv, NEW s \in Servers, NEW p \in Parts,
           SetRunning(s, p) \/ LoopTest(s, p) \/ Passes(s, p)
    PROVE  ThreadsInv' /\ JoinInv'
<1>1. /\ UNCHANGED <<server, pc, turn, object>>
      /\ thread[s][p] \in {"born", "loop", "body", "wait", "spin"} /\ ~ Deleted(s, p)
      /\ \A t \in Servers, q \in Parts : t # s \/ q # p => thread'[t][q] = thread[t][q]
      /\ \A t \in Servers, q \in Parts : running[t][q] => running'[t][q]
      /\ running'[s][Acceptor] => running[s][Acceptor] \/ thread[s][Acceptor] = "born"
  BY LoopMove
<1>2. /\ thread'[s][p] # "born"
      /\ thread'[s][p] \in InLoop => running'[s][p] \/ thread[s][p] \in InLoop
  BY LoopMove
<1>3. s = server
  BY <1>1, Current
<1>4. thread[s][p] \notin Ended
  BY <1>1 DEF Ended
<1> QED
  BY <1>1, <1>2, <1>3, <1>4, ThreadMoves

\* A manager closes a connection, and erases its cell.
LEMMA EndThreads ==
    ASSUME IInv, ThreadsInv, JoinInv, NEW s \in Servers, NEW m \in Managers,
           Erase(s, m) \/ \E c \in Conns : End(s, m, c)
    PROVE  ThreadsInv' /\ JoinInv'
<1>1. PICK label \in {"body", "erase"} : thread' = [thread EXCEPT ![s][m] = label]
  BY DEF Erase, End, Move
<1>2. /\ UNCHANGED <<server, pc, turn, object, running>>
      /\ thread[s][m] \in {"body", "erase"} /\ ~ Deleted(s, m)
  BY DEF Erase, End, app
<1>3. m \in Parts /\ label \in ThreadStates /\ label \in InLoop
      /\ thread[s][m] \in InLoop /\ thread[s][m] \notin Ended /\ label # "born"
  BY <1>2, Numbers DEF ThreadStates, InLoop, Ended
<1>4. s = server
  BY <1>2, <1>3, Current DEF Ended
<1>5. /\ thread'[s][m] = label
      /\ \A t \in Servers, q \in Parts : t # s \/ q # m => thread'[t][q] = thread[t][q]
  <2>1. thread \in [Servers -> [Parts -> ThreadStates]]
    BY DEF IInv, TypeOK
  <2> QED
    BY <1>1, <1>3, <2>1, Entry
<1> QED
  BY <1>2, <1>3, <1>4, <1>5, ThreadMoves

\* The acceptor takes a connection, and stores it.
LEMMA AcceptorThreads ==
    ASSUME IInv, ThreadsInv, JoinInv, NEW s \in Servers, NEW c \in Conns,
           Accept(s, c) \/ AddTask(s, c)
    PROVE  ThreadsInv' /\ JoinInv'
<1>1. /\ UNCHANGED <<server, pc, turn, object, running>>
      /\ thread[s][Acceptor] \in InLoop
  BY DEF Accept, AddTask, Wild, app, parts, InLoop
<1>2. CASE thread' = thread
  BY <1>1, <1>2, QuietThreads
<1>3. ASSUME NEW label \in {"adding", "loop"}, thread' = [thread EXCEPT ![s][Acceptor] = label]
      PROVE  ThreadsInv' /\ JoinInv'
  <2>1. thread \in [Servers -> [Parts -> ThreadStates]]
        /\ Acceptor \in Parts /\ Acceptor \notin Managers /\ label \in ThreadStates
    BY Numbers DEF IInv, TypeOK, ThreadStates
  <2>2. /\ thread'[s][Acceptor] = label
        /\ \A t \in Servers, q \in Parts : t # s \/ q # Acceptor => thread'[t][q] = thread[t][q]
    BY <1>3, <2>1, Entry
  <2>3. s = server
    BY <1>1 DEF IInv, AcceptorInv
  <2>4. thread[s][Acceptor] \notin Ended /\ thread'[s][Acceptor] # "born"
    BY <1>1, <2>2 DEF Ended, InLoop
  <2> QED
    BY <1>1, <2>1, <2>2, <2>3, <2>4, ThreadMoves
<1> QED
  BY <1>2, <1>3 DEF Accept, AddTask, Wild, parts, Move

\* stop up to the managers.  The application keeps to its rule: no thread is about to run.
LEMMA StopThreads ==
    ASSUME IInv, ThreadsInv, JoinInv,
           \/ Stop /\ \A p \in Parts : thread[server][p] # "born"
           \/ StopTest \/ Nap \/ DestroyAgain
    PROVE  ThreadsInv' /\ JoinInv'
<1>1. /\ UNCHANGED <<server, turn, object, running, thread>>
      /\ pc \in {"idle", "test", "nap"} /\ pc' \in {"test", "nap", "claim"}
      /\ \A p \in Parts : thread[server][p] # "born"
  <2>1. ~ DestroyAgain
    <3>1. pc = "destroy" => server # NoServer
      BY DEF IInv, ServersInv
    <3> QED
      BY <3>1 DEF DestroyAgain, JoinInv, Deletes
  <2>2. /\ UNCHANGED <<server, turn, object, running, thread>>
        /\ pc \in {"idle", "test", "nap"} /\ pc' \in {"test", "nap", "claim"}
    BY <2>1 DEF Stop, StopTest, Nap, Goto, parts
  <2>3. \A p \in Parts : thread[server][p] # "born"
    BY <2>1 DEF StopTest, Nap, ThreadsInv
  <2> QED
    BY <2>2, <2>3
<1>2. ThreadsInv'
  BY <1>1 DEF ThreadsInv
<1>3. JoinInv'
  BY <1>1 DEF JoinInv, Deletes, Deleted
<1> QED
  BY <1>2, <1>3

LEMMA ClaimThreads ==
    ASSUME IInv, ThreadsInv, JoinInv, StopClaim \/ JoinAcceptor
    PROVE  ThreadsInv' /\ JoinInv'
<1> USE DEF Goto
<1>1. /\ UNCHANGED <<server, object, thread>>
      /\ pc \in {"claim", "join"} /\ pc' \in {"join", "managers"}
      /\ turn' = 1
      /\ server \in Servers /\ server # NoServer
  <2>1. pc \in {"claim", "join"} /\ pc' \in {"join", "managers"} /\ turn' = 1
    BY DEF StopClaim, JoinAcceptor, IInv, TurnInv
  <2> QED
    BY <2>1, Held, Numbers DEF StopClaim, JoinAcceptor
<1>2. /\ ~ running'[server][Acceptor]
      /\ \A t \in Servers, m \in Managers : running'[t][m] = running[t][m]
  <2>1. running \in [Servers -> [Parts -> BOOLEAN]] /\ Acceptor \in Parts
    BY Numbers DEF IInv, TypeOK
  <2>2. CASE running' = running
    BY <1>1, <2>1, <2>2 DEF StopClaim, JoinAcceptor, JoinInv
  <2>3. CASE running' = [running EXCEPT ![server][Acceptor] = FALSE]
    <3>1. /\ running'[server][Acceptor] = FALSE
          /\ \A t \in Servers, q \in Parts :
                t # server \/ q # Acceptor => running'[t][q] = running[t][q]
      BY <1>1, <2>1, <2>3, FlagEntry
    <3> QED
      BY <3>1, Numbers
  <2> QED
    BY <2>2, <2>3 DEF StopClaim, JoinAcceptor
<1>3. pc' = "managers" => thread[server][Acceptor] \in Ended
  <2>1. CASE JoinAcceptor
    BY <2>1 DEF JoinAcceptor, Ended
  <2>2. CASE StopClaim /\ pc' = "managers"
    <3>1. pc = "claim" /\ ~ running[server][Acceptor]
      BY <2>2 DEF StopClaim
    <3>2. thread[server][Acceptor] \notin InLoop
      BY <1>1, <3>1 DEF IInv, AcceptorInv
    <3>3. thread[server][Acceptor] # "born"
      BY <3>1, Numbers DEF ThreadsInv
    <3>4. thread[server][Acceptor] \in ThreadStates
      BY <1>1, Numbers DEF IInv, TypeOK
    <3> QED
      BY <3>2, <3>3, <3>4 DEF Ended, InLoop, ThreadStates
  <2> QED
    BY <2>1, <2>2
<1>4. ThreadsInv'
  BY <1>1, <1>2 DEF ThreadsInv
<1>5. \A p \in Parts : ~ Deleted(server, p)
  BY <1>1 DEF JoinInv, Deletes
<1>6. \A m \in Managers : ~ (m < 1)
  BY Numbers
<1>7. JoinInv'
  BY <1>1, <1>2, <1>3, <1>5, <1>6 DEF JoinInv, Deletes, Deleted
<1> QED
  BY <1>4, <1>7

\* A manager is stopped, joined and closed.
LEMMA ManagerThreads ==
    ASSUME IInv, ThreadsInv, JoinInv, StopManager \/ JoinManager \/ CloseManager \/ CloseServer
    PROVE  ThreadsInv' /\ JoinInv'
<1> USE DEF Goto
<1>1. /\ UNCHANGED <<server, turn, object, thread>>
      /\ pc \in {"managers", "joinmanager", "closemanager"}
      /\ pc' \in {"joinmanager", "closemanager", "deletemanager", "destroy"}
      /\ server \in Servers /\ server # NoServer
      /\ pc' # "destroy" => turn \in Managers
  <2>1. /\ pc \in {"managers", "joinmanager", "closemanager"}
        /\ pc' \in {"joinmanager", "closemanager", "deletemanager", "destroy"}
        /\ pc' # "destroy" => turn \in Managers
    BY DEF StopManager, JoinManager, CloseManager, CloseServer, IInv, TurnInv
  <2>2. UNCHANGED <<server, turn, object, thread>>
    BY DEF StopManager, JoinManager, CloseManager, CloseServer, parts
  <2> QED
    BY <2>1, <2>2, Held, Numbers
<1>2. /\ running'[server][Acceptor] = running[server][Acceptor]
      /\ \A t \in Servers, m \in Managers :
            \/ running'[t][m] = running[t][m]
            \/ t = server /\ m = turn /\ pc' = "joinmanager"
  <2>1. CASE running' = running
    BY <2>1
  <2>2. CASE StopManager /\ running' = [running EXCEPT ![server][turn] = FALSE]
    <3>1. turn \in Managers /\ turn \in Parts /\ turn # Acceptor /\ Acceptor \in Parts
      BY <2>2, Numbers DEF StopManager
    <3>2. running \in [Servers -> [Parts -> BOOLEAN]]
      BY DEF IInv, TypeOK
    <3>3. /\ running'[server][turn] = FALSE
          /\ \A t \in Servers, q \in Parts :
                t # server \/ q # turn => running'[t][q] = running[t][q]
      BY <1>1, <2>2, <3>1, <3>2, FlagEntry
    <3>4. pc' = "joinmanager" \/ running' = running
      BY <2>2 DEF StopManager
    <3> QED
      BY <1>1, <3>1, <3>3, <3>4, Numbers
  <2> QED
    BY <2>1, <2>2 DEF StopManager, JoinManager, CloseManager, CloseServer, parts
<1>3. pc' \in {"closemanager", "deletemanager"} => thread[server][turn] \in Ended
  <2>1. CASE StopManager /\ pc' = "closemanager"
    <3>1. pc = "managers" /\ ~ running[server][turn] /\ turn \in Managers /\ turn \in Parts
      BY <2>1, Numbers DEF StopManager
    <3>2. thread[server][turn] \notin InLoop
      BY <1>1, <3>1 DEF ThreadsInv
    <3>3. thread[server][turn] # "born"
      BY <3>1 DEF ThreadsInv
    <3>4. thread[server][turn] \in ThreadStates
      BY <1>1, <3>1 DEF IInv, TypeOK
    <3> QED
      BY <3>2, <3>3, <3>4 DEF Ended, InLoop, ThreadStates
  <2>2. CASE JoinManager
    BY <2>2 DEF JoinManager, Ended
  <2>3. CASE CloseManager
    BY <1>1, <2>3 DEF CloseManager, JoinInv
  <2>4. CASE StopManager /\ pc' = "joinmanager"
    BY <2>4
  <2>5. CASE CloseServer
    BY <2>5 DEF CloseServer
  <2> QED
    BY <2>1, <2>2, <2>3, <2>4, <2>5 DEF StopManager
<1>4. ThreadsInv'
  <2>1. ASSUME NEW t \in Servers, NEW m \in Managers, thread[t][m] \in InLoop
        PROVE  running'[t][m] \/ (pc' = "joinmanager" /\ m = turn)
    <3>1. m \in Parts
      BY Numbers
    <3>2. t = server
      BY <2>1, <3>1 DEF ThreadsInv, Ended, InLoop
    <3>3. running[t][m] \/ (pc = "joinmanager" /\ m = turn)
      BY <2>1 DEF ThreadsInv
    <3>4. ~ (pc = "joinmanager" /\ m = turn)
      <4>1. pc = "joinmanager" => thread[server][turn] = "end"
        BY DEF StopManager, JoinManager, CloseManager, CloseServer
      <4> QED
        BY <2>1, <3>2, <4>1 DEF InLoop
    <3> QED
      BY <1>2, <3>3, <3>4
  <2> QED
    BY <1>1, <2>1 DEF ThreadsInv
<1>5. JoinInv'
  <2>1. pc \in Deletes /\ pc' \in Deletes
    BY <1>1 DEF Deletes
  <2>2. pc' \in {"closemanager", "deletemanager"} => turn \in Parts
    BY <1>1, Numbers
  <2> QED
    BY <1>1, <1>2, <1>3, <2>1, <2>2 DEF JoinInv, Deleted
<1> QED
  BY <1>4, <1>5

LEMMA StartThreads ==
    ASSUME IInv, ThreadsInv, JoinInv, Start
    PROVE  ThreadsInv' /\ JoinInv'
<1>1. /\ server = NoServer /\ server' = starts + 1 /\ pc' = "start" /\ thread' = thread
      /\ object' = [object EXCEPT ![starts + 1] = [p \in Parts |-> "live"]]
  BY DEF Start, Goto
<1>2. starts + 1 \in Servers
  BY Numbers DEF Start, IInv, TypeOK
<1>3. \A t \in Servers : \A p \in Parts : thread[t][p] \in Ended
  BY <1>1, Numbers DEF ThreadsInv
<1>4. ThreadsInv'
  BY <1>1, <1>3, Numbers DEF ThreadsInv, Ended, InLoop
<1>5. \A p \in Parts : object'[starts + 1][p] = "live"
  BY <1>1, <1>2 DEF IInv, TypeOK
<1>6. JoinInv'
  BY <1>1, <1>5 DEF JoinInv, Deletes, Deleted
<1> QED
  BY <1>4, <1>6

LEMMA CreateThreads ==
    ASSUME IInv, ThreadsInv, JoinInv, StartManager \/ StartAcceptor
    PROVE  ThreadsInv' /\ JoinInv'
<1>1. PICK p \in Parts : Create(p) \/ thread' = thread
  BY Numbers DEF StartManager, StartAcceptor
<1>2. /\ pc = "start" /\ pc' \in {"start", "idle"}
      /\ UNCHANGED <<server, object, running>>
  BY DEF StartManager, StartAcceptor, Goto
<1>3. server \in Servers /\ server # NoServer
  BY <1>2, Held, Numbers
<1>4. \A t \in Servers, q \in Parts :
          \/ thread'[t][q] = thread[t][q]
          \/ t = server /\ thread'[t][q] = "born"
  <2>1. CASE thread' = thread
    BY <2>1
  <2>2. CASE thread' = [thread EXCEPT ![server][p] = "born"]
    <3>1. thread \in [Servers -> [Parts -> ThreadStates]] /\ "born" \in ThreadStates
      BY DEF IInv, TypeOK, ThreadStates
    <3>2. /\ thread'[server][p] = "born"
          /\ \A t \in Servers, q \in Parts : t # server \/ q # p => thread'[t][q] = thread[t][q]
      BY <1>3, <2>2, <3>1, Entry
    <3> QED
      BY <3>2
  <2> QED
    BY <1>1, <2>1, <2>2 DEF Create, Move
<1>5. ThreadsInv'
  <2>1. \A t \in Servers : t # server => \A q \in Parts : thread'[t][q] \in Ended
    BY <1>4 DEF ThreadsInv
  <2>2. ASSUME NEW t \in Servers, NEW m \in Managers, thread'[t][m] \in InLoop
        PROVE  running[t][m]
    <3>1. thread[t][m] \in InLoop
      BY <1>4, <2>2, Numbers DEF InLoop
    <3> QED
      BY <1>2, <3>1 DEF ThreadsInv
  <2> QED
    BY <1>2, <2>1, <2>2 DEF ThreadsInv
<1>6. JoinInv'
  BY <1>2, <1>3 DEF JoinInv, Deletes, Deleted
<1> QED
  BY <1>5, <1>6

LEMMA DeleteThreads ==
    ASSUME IInv, ThreadsInv, JoinInv, DeleteManager
    PROVE  ThreadsInv' /\ JoinInv'
<1>1. /\ UNCHANGED <<server, running, thread>>
      /\ pc = "deletemanager" /\ pc' = "managers" /\ turn' = turn + 1
      /\ object' = [object EXCEPT ![server][turn] = "deleted"]
  BY DEF DeleteManager, Goto
<1>2. server \in Servers /\ server # NoServer
  BY <1>1, Held, Numbers
<1>3. turn \in Managers /\ turn \in Parts
  BY <1>1, Numbers DEF IInv, TurnInv
<1>4. \A q \in Parts : q # turn => object'[server][q] = object[server][q]
  <2>1. object \in [Servers -> [Parts -> {"none", "live", "deleted"}]]
    BY DEF IInv, TypeOK
  <2> QED
    BY <1>1, <1>2, <1>3, <2>1, Entry
<1>5. ThreadsInv'
  BY <1>1 DEF ThreadsInv
<1>6. ASSUME NEW m \in Managers, m < turn + 1
      PROVE  thread[server][m] \in Ended
  <2>1. m = turn \/ m < turn
    BY <1>3, <1>6, Numbers
  <2> QED
    BY <1>1, <1>2, <2>1 DEF JoinInv, Deletes
<1>7. ASSUME NEW q \in Parts, object'[server][q] = "deleted"
      PROVE  q \in Managers /\ q < turn + 1
  <2>1. CASE q = turn
    BY <1>3, <2>1, Numbers
  <2>2. CASE q # turn
    <3>1. Deleted(server, q)
      BY <1>4, <1>7, <2>2 DEF Deleted
    <3>2. q \in Managers /\ q < turn
      BY <1>2, <3>1 DEF JoinInv
    <3> QED
      BY <1>3, <3>2, Numbers
  <2> QED
    BY <2>1, <2>2
<1>8. JoinInv'
  BY <1>1, <1>2, <1>6, <1>7 DEF JoinInv, Deletes, Deleted
<1> QED
  BY <1>5, <1>8

LEMMA DestroyThreads ==
    ASSUME IInv, ThreadsInv, JoinInv, Destroy
    PROVE  ThreadsInv' /\ JoinInv'
<1>1. /\ UNCHANGED <<running, thread>>
      /\ pc = "destroy" /\ pc' = "idle" /\ server' = NoServer
  BY DEF Destroy, Goto
<1>2. server \in Servers /\ server # NoServer
  BY <1>1, Held, Numbers
<1>3. \A p \in Parts : thread[server][p] \in Ended
  <2>1. \A m \in Managers : m < turn
    BY <1>1, Numbers DEF IInv, TurnInv
  <2>2. \A m \in Managers : thread[server][m] \in Ended
    BY <1>1, <1>2, <2>1 DEF JoinInv, Deletes
  <2>3. thread[server][Acceptor] \in Ended
    BY <1>1, <1>2 DEF JoinInv, Deletes
  <2> QED
    BY <2>2, <2>3, Numbers
<1>4. ThreadsInv'
  <2>1. \A t \in Servers : \A p \in Parts : thread[t][p] \in Ended
    BY <1>3 DEF ThreadsInv
  <2> QED
    BY <1>1, <2>1, Numbers DEF ThreadsInv, Ended, InLoop
<1>5. JoinInv'
  BY <1>1 DEF JoinInv
<1> QED
  BY <1>4, <1>5

\* A rule that is broken stays broken.
LEMMA BrokenGrows ==
    ASSUME [Next]_vars
    PROVE  broken \subseteq broken'
<1> USE DEF Wild, rest
<1>1. CASE Starting \/ Stop \/ Stopping
  BY <1>1 DEF Starting, Stop, Stopping, Start, StartManager, StartAcceptor, StopTest, Nap, StopClaim,
              JoinAcceptor, StopManager, DeleteTwice, JoinManager, CloseManager, DeleteManager,
              CloseServer, DestroyAgain, Destroy, Breaks
<1>2. ASSUME NEW s \in Servers, NEW p \in Parts, Loop(s, p) \/ Passes(s, p)
      PROVE  broken \subseteq broken'
  BY <1>2 DEF Loop, SetRunning, LoopTest, Outlives, Passes, AcceptorPass, TasksDone, ManagerPass,
              Spin, SpinEnds
<1>3. ASSUME NEW s \in Servers, NEW c \in Conns, Accept(s, c) \/ AddTask(s, c)
      PROVE  broken \subseteq broken'
  BY <1>3 DEF Accept, AddTask
<1>4. ASSUME NEW s \in Servers, NEW m \in Managers,
             \/ Erase(s, m) \/ Relay(s, m)
             \/ \E c \in Conns : Announce(s, m, c) \/ End(s, m, c)
      PROVE  broken \subseteq broken'
  BY <1>4 DEF Erase, Relay, Announce, End, BreaksSend, Breaks
<1>5. CASE \/ \E c \in Conns : PeerConnect(c) \/ Publish(c)
           \/ \E x \in Senders : SendLook(x) \/ SendData(x)
           \/ UNCHANGED vars
  BY <1>5 DEF PeerConnect, Publish, SendLook, SendData, BreaksSend, Breaks, vars
<1> QED
  BY <1>1, <1>2, <1>3, <1>4, <1>5, RunSteps DEF Next

LEMMA NextStopInv == IInv /\ StopInv /\ [Next]_vars => StopInv'
<1> SUFFICES ASSUME IInv, StopInv, [Next]_vars, "stop" \notin broken'
             PROVE  ThreadsInv' /\ JoinInv'
  BY DEF StopInv
<1>1. "stop" \notin broken
  BY BrokenGrows
<1>2. ThreadsInv /\ JoinInv
  BY <1>1 DEF StopInv
<1>3. CASE Starting
  BY <1>2, <1>3, StartThreads, CreateThreads DEF Starting
<1>4. CASE Stop
  <2>1. \A p \in Parts : thread[server][p] # "born"
    <3>1. broken' = broken \cup ({r \in {"stop"} : \E p \in Parts : thread[server][p] = "born"}
                                    \cup {r \in {"send"} : \E x \in Senders : sending[x] # NoServer})
      BY <1>4 DEF Stop, Breaks
    <3> QED
      BY <3>1
  <2> QED
    BY <1>2, <1>4, <2>1, StopThreads
<1>5. CASE Stopping
  <2>1. CASE DeleteTwice
    <3>1. UNCHANGED <<server, pc, turn, object, running, thread>>
      BY <2>1 DEF DeleteTwice, Wild, app, parts
    <3> QED
      BY <1>2, <3>1, QuietThreads
  <2> QED
    BY <1>2, <1>5, <2>1, StopThreads, ClaimThreads, ManagerThreads, DeleteThreads, DestroyThreads
       DEF Stopping
<1>6. ASSUME NEW s \in Servers, NEW p \in Parts, Loop(s, p) \/ Passes(s, p)
      PROVE  ThreadsInv' /\ JoinInv'
  <2>1. CASE Outlives(s, p)
    <3>1. UNCHANGED <<server, pc, turn, object, running, thread>>
      BY <2>1 DEF Outlives, Wild, app, parts
    <3> QED
      BY <1>2, <3>1, QuietThreads
  <2> QED
    BY <1>2, <1>6, <2>1, LoopThreads DEF Loop
<1>7. ASSUME NEW s \in Servers, NEW c \in Conns, Accept(s, c) \/ AddTask(s, c)
      PROVE  ThreadsInv' /\ JoinInv'
  BY <1>2, <1>7, AcceptorThreads
<1>8. ASSUME NEW s \in Servers, NEW m \in Managers, Erase(s, m) \/ \E c \in Conns : End(s, m, c)
      PROVE  ThreadsInv' /\ JoinInv'
  BY <1>2, <1>8, EndThreads
<1>9. ASSUME \/ \E s \in Servers, m \in Managers :
                   Relay(s, m) \/ \E c \in Conns : Announce(s, m, c)
             \/ \E c \in Conns : PeerConnect(c) \/ Publish(c)
             \/ \E x \in Senders : SendLook(x) \/ SendData(x)
             \/ UNCHANGED vars
      PROVE  ThreadsInv' /\ JoinInv'
  <2>1. UNCHANGED <<server, pc, turn, object, running, thread>>
    BY <1>9 DEF Announce, Relay, PeerConnect, Publish, SendLook, SendData, Wild, app, parts, vars
  <2> QED
    BY <1>2, <2>1, QuietThreads
<1> QED
  BY <1>3, <1>4, <1>5, <1>6, <1>7, <1>8, <1>9, RunSteps DEF Next

\* What has been deleted has no thread.
LEMMA DeletedHasEnded ==
    ASSUME IInv, ThreadsInv, JoinInv, NEW s \in Servers, NEW p \in Parts, Deleted(s, p)
    PROVE  thread[s][p] \in Ended
<1>1. CASE s # server
  BY <1>1 DEF ThreadsInv
<1>2. CASE s = server
  <2>1. server # NoServer
    BY <1>2, Numbers
  <2> QED
    BY <1>2, <2>1 DEF JoinInv
<1> QED
  BY <1>1, <1>2

(***************************************************************************)
(* And while nobody sends when there is no server, or one being stopped.   *)
(***************************************************************************)

\* Nothing is deleted as long as the server is not being stopped, and its acceptor not
\* before the end.
LEMMA DeletedLate ==
    ASSUME IInv, JoinInv, NEW p \in Parts, server # NoServer, Deleted(server, p)
    PROVE  pc # "idle" /\ thread[server][Acceptor] \in Ended
BY DEF JoinInv, Deletes

LEMMA NextSendInv == SInv /\ [Next]_vars => SendInv'
<1> SUFFICES ASSUME SInv, [Next]_vars, broken' = {}
             PROVE  /\ \A x \in Senders : sending'[x] # NoServer => pc' = "idle" /\ sending'[x] = server'
                    /\ wild' = {}
  BY DEF SendInv
<1> DEFINE Fine == /\ \A x \in Senders : sending'[x] # NoServer => pc' = "idle" /\ sending'[x] = server'
                   /\ wild' = {}
<1>1. broken = {}
  BY BrokenGrows
<1>2. /\ IInv /\ ThreadsInv /\ JoinInv /\ wild = {}
      /\ \A x \in Senders : sending[x] # NoServer => pc = "idle" /\ sending[x] = server
  BY <1>1 DEF SInv, StopInv, SendInv
<1>3. ASSUME UNCHANGED <<sending, wild>>, pc # "idle" \/ server = NoServer
                                            \/ UNCHANGED <<server, pc>>
      PROVE  Fine
  BY <1>2, <1>3
<1>4. CASE Starting
  <2>1. UNCHANGED <<sending, wild>> /\ (pc # "idle" \/ server = NoServer)
    BY <1>4 DEF Starting, Start, StartManager, StartAcceptor, rest
  <2> QED
    BY <1>3, <2>1
<1>5. CASE Stop
  <2>1. /\ UNCHANGED <<sending, wild>>
        /\ broken' = broken \cup ({r \in {"stop"} : \E p \in Parts : thread[server][p] = "born"}
                                    \cup {r \in {"send"} : \E x \in Senders : sending[x] # NoServer})
    BY <1>5 DEF Stop, Breaks
  <2>2. \A x \in Senders : sending[x] = NoServer
    BY <2>1
  <2> QED
    BY <1>2, <2>1, <2>2
<1>6. CASE Stopping
  <2>1. ~ DeleteTwice
    <3>1. SUFFICES ASSUME DeleteTwice PROVE FALSE
      OBVIOUS
    <3>2. pc \in {"managers", "deletemanager"} /\ server # NoServer
      BY <1>2, <3>1, Held, Numbers DEF DeleteTwice
    <3>3. CASE turn \in Managers /\ Deleted(server, turn)
      <4>1. turn < turn
        BY <1>2, <3>2, <3>3, Numbers DEF JoinInv
      <4> QED
        BY <3>3, <4>1, Numbers
    <3>4. CASE pc = "deletemanager" /\ Closing(server, turn) # {}
      <4>1. PICK c \in Conns : conn[c].state = "closing" /\ Manager(c) = turn
        BY <3>4 DEF Closing, At, Manager
      <4>2. thread[server][turn] = "erase"
        BY <1>2, <4>1 DEF IInv, ClosingInv
      <4> QED
        BY <1>2, <3>2, <3>4, <4>2 DEF JoinInv, Ended
    <3> QED
      BY <3>1, <3>3, <3>4 DEF DeleteTwice
  <2>2. UNCHANGED <<sending, wild>> /\ pc # "idle"
    BY <1>6, <2>1 DEF Stopping, StopTest, Nap, StopClaim, JoinAcceptor, StopManager, JoinManager,
                      CloseManager, DeleteManager, CloseServer, DestroyAgain, Destroy, rest
  <2> QED
    BY <1>3, <2>2
<1>7. ASSUME NEW s \in Servers, NEW p \in Parts, Loop(s, p) \/ Passes(s, p)
      PROVE  Fine
  <2>1. ~ Outlives(s, p)
    BY <1>2, DeletedHasEnded DEF Outlives, Ended
  <2>2. UNCHANGED <<server, pc, sending, wild>>
    BY <1>7, <2>1 DEF Loop, SetRunning, LoopTest, Passes, AcceptorPass, TasksDone, ManagerPass, Spin,
                      SpinEnds, app, rest
  <2> QED
    BY <1>3, <2>2
<1>8. ASSUME NEW s \in Servers, NEW c \in Conns, Accept(s, c) \/ AddTask(s, c)
      PROVE  Fine
  <2>1. CASE AddTask(s, c)
    <3>1. thread[s][Acceptor] = "adding" /\ Manager(c) \in Parts
      BY <1>2, <2>1, HasManager, Numbers DEF AddTask, IInv, TypeOK, ConnType, ConnRecord
    <3>2. s = server /\ server # NoServer
      BY <1>2, <3>1, Numbers DEF IInv, AcceptorInv, InLoop
    <3>3. ~ Deleted(s, Manager(c))
      BY <1>2, <3>1, <3>2, DeletedLate DEF Ended
    <3>4. UNCHANGED <<server, pc, sending, wild>>
      BY <2>1, <3>3 DEF AddTask, Manager, app, rest
    <3> QED
      BY <1>3, <3>4
  <2>2. CASE Accept(s, c)
    <3>1. UNCHANGED <<server, pc, sending, wild>>
      BY <2>2 DEF Accept, app, rest
    <3> QED
      BY <1>3, <3>1
  <2> QED
    BY <1>8, <2>1, <2>2
<1>9. ASSUME NEW s \in Servers, NEW m \in Managers,
             \/ Erase(s, m) \/ Relay(s, m)
             \/ \E c \in Conns : Announce(s, m, c) \/ End(s, m, c)
      PROVE  Fine
  <2>1. ~ Relay(s, m)
    <3>1. SUFFICES ASSUME Relay(s, m) PROVE FALSE
      OBVIOUS
    <3>2. /\ thread[s][m] \in {"body", "wait"} /\ ~ Deleted(s, m) /\ m \in Parts
          /\ \E n \in Managers : Deleted(s, n)
      BY <3>1, ManagerOf, Numbers DEF Relay
    <3>3. broken' = broken \cup {r \in {"send"} : pc # "idle" \/ server = NoServer}
      BY <3>1 DEF Relay, BreaksSend, Breaks
    <3>4. pc = "idle" /\ server # NoServer
      BY <3>3
    <3>5. s = server
      BY <1>2, <3>2, Current
    <3> QED
      BY <1>2, <3>2, <3>4, <3>5, DeletedLate, Numbers
  <2>2. UNCHANGED <<server, pc, sending, wild>>
    BY <1>9, <2>1 DEF Erase, Announce, End, app, rest
  <2> QED
    BY <1>3, <2>2
<1>10. ASSUME NEW c \in Conns, PeerConnect(c) \/ Publish(c)
       PROVE  Fine
  <2>1. UNCHANGED <<server, pc, sending, wild>>
    BY <1>10 DEF PeerConnect, Publish, app, rest
  <2> QED
    BY <1>3, <2>1
<1>11. ASSUME NEW y \in Senders, SendLook(y)
       PROVE  Fine
  <2>1. broken' = broken \cup {r \in {"send"} : pc # "idle" \/ server = NoServer}
    BY <1>11 DEF SendLook, BreaksSend, Breaks
  <2>2. pc = "idle" /\ server # NoServer
    BY <2>1
  <2>3. /\ sending' = [sending EXCEPT ![y] = server] /\ UNCHANGED <<server, pc, wild>>
    BY <1>11, <2>2 DEF SendLook, app
  <2>4. sending \in [Senders -> Servers \cup {NoServer}]
    BY <1>2 DEF IInv, TypeOK
  <2> QED
    BY <1>2, <2>2, <2>3, <2>4
<1>12. ASSUME NEW y \in Senders, SendData(y)
       PROVE  Fine
  <2>1. sending[y] = server /\ server # NoServer /\ pc = "idle"
    BY <1>2, <1>12 DEF SendData
  <2>2. \A p \in Parts : ~ Deleted(server, p)
    BY <1>2, <2>1, DeletedLate
  <2>3. /\ sending' = [sending EXCEPT ![y] = NoServer] /\ UNCHANGED <<server, pc, wild>>
    BY <1>12, <2>1, <2>2, ManagerOf, Numbers DEF SendData, app
  <2>4. sending \in [Senders -> Servers \cup {NoServer}]
    BY <1>2 DEF IInv, TypeOK
  <2> QED
    BY <1>2, <2>1, <2>3, <2>4
<1>13. CASE UNCHANGED vars
  <2>1. UNCHANGED <<server, pc, sending, wild>>
    BY <1>13 DEF vars, app, rest
  <2> QED
    BY <1>3, <2>1
<1> QED
  BY <1>4, <1>5, <1>6, <1>7, <1>8, <1>9, <1>10, <1>11, <1>12, <1>13, RunSteps DEF Next

-----------------------------------------------------------------------------
(* The theorems. *)

LEMMA InvariantIInv == Spec => []IInv
BY InitIInv, NextIInv, PTL DEF Spec

LEMMA InvariantSInv == Spec => []SInv
<1>1. Init => SInv
  <2> SUFFICES ASSUME Init PROVE SInv
    OBVIOUS
  <2>1. ThreadsInv
    BY Numbers DEF Init, ThreadsInv, Each, Ended, InLoop
  <2>2. JoinInv /\ SendInv
    BY DEF Init, JoinInv, SendInv
  <2> QED
    BY <2>1, <2>2, InitIInv DEF SInv, StopInv
<1>2. SInv /\ [Next]_vars => SInv'
  BY NextIInv, NextStopInv, NextSendInv DEF SInv
<1> QED
  BY <1>1, <1>2, PTL DEF Spec

\* Every variable has its type, for any number of managers, servers, connections and
\* senders, whenever the application starts, stops and sends.
THEOREM TypeCorrect == Spec => []TypeOK
<1>1. IInv => TypeOK
  BY DEF IInv
<1> QED
  BY <1>1, InvariantIInv, PTL

\* When tcp_server::stop has returned, nothing the server had is open, and no connection
\* is left, but one whose cell handleDel erased with an earlier owner's of its descriptor;
\* also when the server was stopped before its threads ran, and while doRecv does not return.
THEOREM ClosedTheorem == Spec => []StopClosesAll
<1>1. IInv => StopClosesAll
  BY NothingLeft DEF StopClosesAll
<1> QED
  BY <1>1, InvariantIInv, PTL

\* A manager, or the acceptor, is deleted only when its thread has ended, or there never
\* was one, if no server is stopped before the threads made for it run: ~cellManager and
\* tcpServer::stop wait for exactly the threads that are there.
THEOREM JoinedTheorem == Spec => []JoinedBeforeDeleted
<1>1. SInv => JoinedBeforeDeleted
  <2> SUFFICES ASSUME SInv, "stop" \notin broken, NEW s \in Servers, NEW p \in Parts, Deleted(s, p)
               PROVE  thread[s][p] \in {"none", "end"}
    BY DEF JoinedBeforeDeleted
  <2>1. IInv /\ ThreadsInv /\ JoinInv
    BY DEF SInv, StopInv
  <2> QED
    BY <2>1, DeletedHasEnded DEF Ended
<1> QED
  BY <1>1, InvariantSInv, PTL

\* No thread of a server, no callback and no sender uses a deleted manager or acceptor, and
\* stop deletes none twice, if the application stops a server only once its threads run
\* and does not send while there is no server or one is being stopped.
THEOREM UsedTheorem == Spec => []NothingDeletedIsUsed
<1>1. SInv => NothingDeletedIsUsed
  BY DEF SInv, SendInv, NothingDeletedIsUsed
<1> QED
  BY <1>1, InvariantSInv, PTL

=============================================================================
