----------------------------- MODULE TcpClient -----------------------------
(***************************************************************************)
(* easyTcpClient (base/src/tcp_client): one client object used by an       *)
(* application thread (App), by the reader threads that Start creates and  *)
(* by the threads that call SendData (Senders).  All of them run Close,    *)
(* without a lock, on the two fields _sock and _isConnect.  A step below   *)
(* is the code between two accesses to a shared field or two system calls. *)
(*                                                                         *)
(* What is received and sent is left out: a call that succeeds moves bytes *)
(* (ClientBuffer models them).  Descriptors are kept, because the kernel   *)
(* hands a number that was closed to whoever asks next.                    *)
(***************************************************************************)
EXTENDS Integers, FiniteSets

CONSTANTS
    Readers,     \* the threads Start may create, in any order
    Senders,     \* the threads of the application that call SendData
    Fds,         \* descriptor numbers
    Others,      \* how many descriptors the rest of the process may hold
    MaxCalls,    \* bound: InitSocket, Connect, Start and Stop calls of the application
    Patient      \* the application stops a connection, and its senders, before it makes
                 \* the next one, and starts one reader at a time

App == "app"
None == "none"
Invalid == -1                      \* INVALID_SOCKET
Threads == {App} \cup Readers \cup Senders

ASSUME ThreadsAssumption ==
    /\ App \notin Readers /\ App \notin Senders /\ Readers \cap Senders = {}
    /\ None \notin Threads /\ IsFiniteSet(Readers) /\ IsFiniteSet(Senders)
ASSUME FdsAssumption == Fds \subseteq Nat
ASSUME BoundsAssumption == Others \in Nat /\ MaxCalls \in Nat /\ Patient \in BOOLEAN

VARIABLES
    fds,         \* the descriptor table of the process
    sock,        \* _sock
    isConnect,   \* _isConnect
    t1,          \* the reader the object knows of (t1), or None
    pc,          \* where each thread is
    after,       \* what App does once the code it called returns
    mark,        \* the descriptor a reader's select reported, or Invalid
    calls,       \* calls of the application so far
    used,        \* it has had a connection since Stop last returned
    connects, disconnects,   \* calls of OnConnect and OnDisconnect
    strayed      \* the system calls that reached a descriptor of another owner

object == <<sock, isConnect, t1>>
told == <<connects, disconnects>>
local == <<after, mark, calls, used>>
vars == <<fds, object, pc, local, told, strayed>>

\* "new": a socket of the client, not connected; "linked": connected.
Owned == {f \in Fds : fds[f] \in {"new", "linked"}}
Free == {f \in Fds : fds[f] = "free"}
Lowest(f) == f \in Free /\ \A g \in Free : f <= g

State(f) == IF f \in Fds THEN fds[f] ELSE "free"
isRun == sock # Invalid /\ isConnect

Goto(t, label) == pc' = [pc EXCEPT ![t] = label]
Call(t, label, continue) ==
    /\ Goto(t, label)
    /\ after' = continue

Init ==
    /\ fds = [f \in Fds |-> "free"]
    /\ sock = Invalid /\ isConnect = FALSE /\ t1 = None
    /\ pc = [t \in Threads |-> IF t \in Readers THEN "unborn" ELSE "idle"]
    /\ after = "idle" /\ mark = [r \in Readers |-> Invalid] /\ calls = 0 /\ used = FALSE
    /\ connects = 0 /\ disconnects = 0 /\ strayed = {}

Stray(call, f) == strayed' = IF State(f) = "other" THEN strayed \cup {call} ELSE strayed

-----------------------------------------------------------------------------
(* Close, run by any thread: five steps between which the others may run. *)

\* Where a thread goes when Close returns.
Return(t) ==
    CASE t = App     -> after
      [] t \in Readers -> "done"
      [] OTHER       -> "idle"

CloseTest(t) ==
    /\ pc[t] = "close"
    /\ Goto(t, IF sock # Invalid THEN "shut" ELSE "unmark")
    /\ UNCHANGED <<fds, object, local, told, strayed>>

\* close(_sock): _sock is read again; on Invalid the call fails and does nothing.
CloseFd(t) ==
    /\ pc[t] = "shut"
    /\ fds' = [f \in Fds |-> IF f = sock THEN "free" ELSE fds[f]]
    /\ Stray("close", sock)
    /\ Goto(t, "unset")
    /\ UNCHANGED <<object, local, told>>

\* FAULT: the field is not reset.
CloseUnsetNot(t) ==
    /\ pc[t] = "unset"
    /\ Goto(t, "unmark")
    /\ UNCHANGED <<fds, object, local, told, strayed>>

CloseUnset(t) ==
    /\ pc[t] = "unset"
    /\ sock' = Invalid
    /\ Goto(t, "unmark")
    /\ UNCHANGED <<fds, isConnect, t1, local, told, strayed>>

CloseUnmark(t) ==
    /\ pc[t] = "unmark"
    /\ isConnect' = FALSE
    /\ Goto(t, "tell")
    /\ UNCHANGED <<fds, sock, t1, local, told, strayed>>

\* FAULT: OnDisconnect is called if the object is connected, which it is no more.
CloseTellTested(t) ==
    /\ pc[t] = "tell"
    /\ disconnects' = IF isConnect THEN disconnects + 1 ELSE disconnects
    /\ Goto(t, Return(t))
    /\ UNCHANGED <<fds, object, local, connects, strayed>>

\* OnDisconnect, whether or not the object had a connection.
CloseTell(t) ==
    /\ pc[t] = "tell"
    /\ disconnects' = disconnects + 1
    /\ Goto(t, Return(t))
    /\ UNCHANGED <<fds, object, local, connects, strayed>>

Close(t) == CloseTest(t) \/ CloseFd(t) \/ CloseUnset(t) \/ CloseUnmark(t) \/ CloseTell(t)

-----------------------------------------------------------------------------
(* The application thread. *)

Begins ==
    /\ pc[App] = "idle" /\ calls < MaxCalls
    /\ calls' = calls + 1

\* The application that uses the object the way the tests do: it sets up a connection when
\* the last one is stopped and none of its threads is in SendData.
InOrder == Patient => ~ used /\ \A s \in Senders : pc[s] = "idle"

\* FAULT: the old socket is not closed.
InitSocketOnly ==
    /\ Begins /\ InOrder
    /\ Call(App, "socket", "idle")
    /\ UNCHANGED <<fds, object, mark, used, told, strayed>>

InitSocket ==
    /\ Begins /\ InOrder
    /\ IF sock # Invalid THEN Call(App, "close", "socket") ELSE Call(App, "socket", "idle")
    /\ UNCHANGED <<fds, object, mark, used, told, strayed>>

\* After Close has run inside InitSocket the continuation of Socket is the caller's.
Socket ==
    /\ pc[App] = "socket"
    /\ \/ \E f \in Fds :
             /\ Lowest(f)
             /\ fds' = [fds EXCEPT ![f] = "new"]
             /\ sock' = f
       \/ /\ Free = {}
          /\ sock' = Invalid
          /\ UNCHANGED fds
    /\ Call(App, IF after = "connect" THEN "connect" ELSE "idle", "idle")
    /\ UNCHANGED <<isConnect, t1, mark, calls, used, told, strayed>>

\* Connect runs InitSocket first when there is no socket, which then has nothing to close.
Connect ==
    /\ Begins /\ InOrder
    /\ IF sock = Invalid THEN Call(App, "socket", "connect") ELSE Call(App, "connect", "idle")
    /\ UNCHANGED <<fds, object, mark, used, told, strayed>>

\* connect(_sock): on success the object is marked connected in a later step.
ConnectLink ==
    /\ pc[App] = "connect"
    /\ \/ /\ State(sock) = "new"
          /\ fds' = [fds EXCEPT ![sock] = "linked"]
          /\ used' = TRUE
          /\ Goto(App, "mark")
       \/ /\ UNCHANGED <<fds, used>>
          /\ Goto(App, "idle")
    /\ UNCHANGED <<object, after, mark, calls, told, strayed>>

ConnectMark ==
    /\ pc[App] = "mark"
    /\ isConnect' = TRUE
    /\ Goto(App, "greet")
    /\ UNCHANGED <<fds, sock, t1, local, told, strayed>>

ConnectTell ==
    /\ pc[App] = "greet"
    /\ connects' = connects + 1
    /\ Goto(App, "idle")
    /\ UNCHANGED <<fds, object, local, disconnects, strayed>>

\* Start makes a thread without looking at t1 or at the connection.
Start ==
    /\ Begins
    /\ Patient => t1 = None
    /\ \E r \in Readers :
          /\ pc[r] = "unborn"
          /\ t1' = r
          /\ Goto(r, "run")
    /\ UNCHANGED <<fds, sock, isConnect, after, mark, used, told, strayed>>

\* Stop, which the destructor runs once more.
Stop ==
    /\ Begins
    /\ Call(App, "close", "join")
    /\ UNCHANGED <<fds, object, mark, used, told, strayed>>

Join ==
    /\ pc[App] = "join"
    /\ t1 # None => pc[t1] = "done"
    /\ t1' = None /\ used' = FALSE
    /\ Call(App, "idle", "idle")
    /\ UNCHANGED <<fds, sock, isConnect, mark, calls, told, strayed>>

-----------------------------------------------------------------------------
(* A reader: OnRun and RecvData. *)

\* FAULT: the loop does not look whether the client still runs.
RunAlways(r) ==
    /\ pc[r] = "run"
    /\ Goto(r, "select")
    /\ UNCHANGED <<fds, object, local, told, strayed>>

RunTest(r) ==
    /\ pc[r] = "run"
    /\ Goto(r, IF isRun THEN "select" ELSE "done")
    /\ UNCHANGED <<fds, object, local, told, strayed>>

\* FD_SET(_sock) and select(_sock + 1): fails on a descriptor that is closed; otherwise
\* it returns because of the descriptor or after a second.  With Invalid, FD_SET writes
\* outside the set and select watches nothing.
Select(r) ==
    /\ pc[r] = "select"
    /\ \/ /\ sock # Invalid /\ State(sock) = "free"
          /\ Goto(r, "close")
          /\ UNCHANGED mark
       \/ /\ sock # Invalid => State(sock) # "free"
          /\ \E f \in {sock, Invalid} : mark' = [mark EXCEPT ![r] = f]
          /\ Goto(r, "isset")
    /\ UNCHANGED <<fds, object, after, calls, used, told, strayed>>

\* FD_ISSET(_sock): true of the descriptor select reported; of Invalid the bit read is
\* outside the set, and may be anything.
IsSet(r) ==
    /\ pc[r] = "isset"
    /\ \/ sock # Invalid /\ mark[r] # sock /\ Goto(r, "run") /\ UNCHANGED mark
       \/ sock # Invalid /\ mark[r] = sock /\ Goto(r, "recv") /\ UNCHANGED mark
       \/ sock = Invalid /\ Goto(r, "run") /\ UNCHANGED mark
       \/ /\ sock = Invalid /\ Goto(r, "recv")
          /\ mark' = [mark EXCEPT ![r] = Invalid]
    /\ UNCHANGED <<fds, object, after, calls, used, told, strayed>>

\* RecvData(cliesock) on a descriptor that is the client's or nobody's: it returns 0 when
\* a message was handled, and -1 when the peer is gone, the descriptor is closed or not
\* connected, or OnRecvData handled nothing.
Recv(r) ==
    /\ pc[r] = "recv" /\ State(mark[r]) # "other"
    /\ \/ State(mark[r]) = "linked" /\ Goto(r, "run")
       \/ Goto(r, "close")
    /\ UNCHANGED <<fds, object, local, told, strayed>>

\* The descriptor has become somebody else's: recv may wait forever, or take its bytes.
RecvStray(r) ==
    /\ pc[r] = "recv" /\ State(mark[r]) = "other"
    /\ Stray("recv", mark[r])
    /\ Goto(r, "run") \/ Goto(r, "close")
    /\ UNCHANGED <<fds, object, local, told>>

Read(r) == RunTest(r) \/ Select(r) \/ IsSet(r) \/ Recv(r) \/ Close(r)

-----------------------------------------------------------------------------
(* A sender: SendData.  The call that finds the client not running changes nothing. *)

SendTest(s) ==
    /\ pc[s] = "idle" /\ isRun
    /\ Goto(s, "send")
    /\ UNCHANGED <<fds, object, local, told, strayed>>

\* send(_sock) may succeed on a connected socket, its own or not; the client closes
\* itself when it fails.
Send(s) ==
    /\ pc[s] = "send"
    /\ \/ State(sock) \in {"linked", "other"} /\ Goto(s, "idle")
       \/ Goto(s, "close")
    /\ Stray("send", sock)
    /\ UNCHANGED <<fds, object, local, told>>

-----------------------------------------------------------------------------
(* The rest of the process opens and closes descriptors of its own. *)

OtherOpen ==
    /\ Cardinality({f \in Fds : fds[f] = "other"}) < Others
    /\ \E f \in Fds : Lowest(f) /\ fds' = [fds EXCEPT ![f] = "other"]
    /\ UNCHANGED <<object, pc, local, told, strayed>>

OtherClose ==
    /\ \E f \in Fds : fds[f] = "other" /\ fds' = [fds EXCEPT ![f] = "free"]
    /\ UNCHANGED <<object, pc, local, told, strayed>>

-----------------------------------------------------------------------------
Working == Socket \/ ConnectLink \/ ConnectMark \/ ConnectTell \/ Join \/ Close(App)

Next ==
    \/ InitSocket \/ Connect \/ Start \/ Stop \/ Working
    \/ \E r \in Readers : Read(r) \/ RecvStray(r)
    \/ \E s \in Senders : SendTest(s) \/ Send(s) \/ Close(s)
    \/ OtherOpen \/ OtherClose

\* Threads are scheduled, and select returns within a second: every thread that can take
\* a step takes one.  Nothing says when the application calls, nor what the rest does.
Fairness ==
    /\ WF_vars(Working)
    /\ \A r \in Readers : WF_vars(Read(r))

Spec == Init /\ [][Next]_vars
FairSpec == Spec /\ Fairness

-----------------------------------------------------------------------------
(* Properties. *)

TypeOK ==
    /\ fds \in [Fds -> {"free", "new", "linked", "other"}]
    /\ sock \in Fds \cup {Invalid} /\ isConnect \in BOOLEAN
    /\ t1 \in Readers \cup {None}
    /\ pc \in [Threads -> {"unborn", "idle", "close", "shut", "unset", "unmark", "tell",
                           "socket", "connect", "mark", "greet", "join",
                           "run", "select", "isset", "recv", "send", "done"}]
    /\ after \in {"idle", "socket", "connect", "join"}
    /\ mark \in [Readers -> Fds \cup {Invalid}]
    /\ calls \in 0 .. MaxCalls /\ used \in BOOLEAN
    /\ connects \in Nat /\ disconnects \in Nat
    /\ strayed \subseteq {"close", "send", "recv"}

\* Every variable has its type, and no connection ends in silence: each one OnConnect has announced, or is about to,
\* is still marked, or has been matched by an OnDisconnect, or a thread in Close is about
\* to call it.  (It relies on the order of the steps of Close and on the application's.)
Telling == {t \in Threads : pc[t] = "tell"}
One(condition) == IF condition THEN 1 ELSE 0
NoSilentEnd ==
    /\ TypeOK
    /\ connects + One(pc[App] = "greet")
          <= disconnects + Cardinality(Telling) + One(isConnect)

\* Stop leaves nothing behind: when it returns the object has no socket and is not
\* connected, no descriptor of the client is open, not even one the object has lost, and no
\* reader runs.
Returns == pc[App] = "join" /\ pc'[App] = "idle"
StopIsClean ==
    [][Returns => /\ sock' = Invalid /\ ~ isConnect' /\ Owned' = {}
                  /\ \A r \in Readers : pc'[r] \in {"unborn", "done"}]_vars

\* Stop returns: the reader it waits for sees the closed socket, in select, in recv or in
\* its loop condition; unless it reads from a descriptor that has become somebody else's.
Stopping == pc[App] # "idle" /\ after = "join"
Astray == \E r \in Readers : pc[r] = "recv" /\ State(mark[r]) = "other"
StopReturns == Stopping ~> pc[App] = "idle" \/ Astray

\* "//关闭socket": Close closes the socket of the client; somebody else's at most between
\* the close of another thread in Close and the moment that one forgets the descriptor.
ClosesItsSocket ==
    [][\A t \in Threads :
          CloseFd(t) /\ State(sock) = "other" => \E u \in Threads \ {t} : pc[u] = "unset"]_vars
=============================================================================
