-------------------------- MODULE TcpClientProofs --------------------------
(***************************************************************************)
(* Theorems about TcpClient, for any readers, senders and descriptors and  *)
(* any number of calls.                                                    *)
(***************************************************************************)
EXTENDS TcpClient, FiniteSetTheorems, TLAPS

Labels == {"unborn", "idle", "close", "shut", "unset", "unmark", "tell",
           "socket", "connect", "mark", "greet", "join",
           "run", "select", "isset", "recv", "send", "done"}
Closing == {"close", "shut", "unset", "unmark", "tell"}

(***************************************************************************)
(* A descriptor the object names is the client's own, unless a thread in   *)
(* Close has closed it and is about to forget it.                          *)
(***************************************************************************)
SocketInv ==
    sock # Invalid /\ fds[sock] \in {"free", "other"} => \E u \in Threads : pc[u] = "unset"

(***************************************************************************)
(* An application that keeps its order connects an object only when it is  *)
(* not connected: between Stop and the next connect(2), nothing marks it.  *)
(***************************************************************************)
OrderInv ==
    /\ isConnect => used /\ pc[App] \notin {"tell", "join", "mark"}
    /\ pc[App] = "mark" => used
    /\ pc[App] \in {"socket", "connect"} => ~ used
    /\ pc[App] \in Closing => after = "join" \/ (after = "socket" /\ ~ used)

IInv == TypeOK /\ SocketInv

-----------------------------------------------------------------------------
\* The threads, and what the application's thread is not.
LEMMA ThreadFacts ==
    /\ App \in Threads /\ App \notin Readers /\ App \notin Senders
    /\ Readers \subseteq Threads /\ Senders \subseteq Threads
    /\ IsFiniteSet(Threads)
<1>1. IsFiniteSet({App})
  BY FS_Singleton
<1>2. IsFiniteSet({App} \cup Readers)
  BY <1>1, FS_Union, ThreadsAssumption
<1>3. IsFiniteSet({App} \cup Readers \cup Senders)
  BY <1>2, FS_Union, ThreadsAssumption
<1> QED
  BY <1>3, ThreadsAssumption DEF Threads

LEMMA SocketFacts ==
    /\ Invalid \notin Fds
    /\ TypeOK /\ sock # Invalid => sock \in Fds
BY FdsAssumption DEF Invalid, TypeOK

\* A thread goes somewhere.
LEMMA Moves ==
    ASSUME TypeOK, NEW t \in Threads, NEW label \in Labels, Goto(t, label)
    PROVE  /\ pc' \in [Threads -> Labels] /\ pc'[t] = label
           /\ \A u \in Threads : u # t => pc'[u] = pc[u]
BY DEF TypeOK, Goto, Labels

\* Where Close returns to.
LEMMA Returned ==
    ASSUME TypeOK, NEW t \in Threads
    PROVE  /\ Return(t) \in {"idle", "socket", "connect", "join", "done"}
           /\ Return(App) = after
           /\ t # App => Return(t) \in {"idle", "done"}
BY ThreadFacts DEF Return, TypeOK

-----------------------------------------------------------------------------
(* The types, and the socket. *)

\* A step of one thread that leaves the descriptors alone.
LEMMA QuietStep ==
    ASSUME IInv, NEW t \in Threads, NEW label \in Labels, Goto(t, label), pc[t] # "unset",
           UNCHANGED <<fds, sock>>, isConnect' \in BOOLEAN, t1' \in Readers \cup {None},
           after' \in {"idle", "socket", "connect", "join"},
           mark' \in [Readers -> Fds \cup {Invalid}],
           calls' \in 0 .. MaxCalls, used' \in BOOLEAN,
           connects' \in Nat, disconnects' \in Nat,
           strayed' \subseteq {"close", "send", "recv"}
    PROVE  IInv'
<1>1. /\ pc' \in [Threads -> Labels] /\ pc'[t] = label
      /\ \A u \in Threads : u # t => pc'[u] = pc[u]
  BY Moves DEF IInv
<1>2. TypeOK'
  BY <1>1 DEF IInv, TypeOK, Labels
<1>3. \A u \in Threads : pc[u] = "unset" => pc'[u] = "unset"
  BY <1>1
<1>4. SocketInv'
  BY <1>3 DEF IInv, SocketInv
<1> QED
  BY <1>2, <1>4 DEF IInv

\* The calls and system calls recorded.
LEMMA Strays ==
    ASSUME TypeOK, NEW call \in {"close", "send", "recv"}, NEW f, Stray(call, f)
    PROVE  strayed' \subseteq {"close", "send", "recv"}
BY DEF TypeOK, Stray

LEMMA CloseStep ==
    ASSUME IInv, NEW t \in Threads, Close(t)
    PROVE  IInv'
<1> USE DEF object, local
<1>0. TypeOK
  BY DEF IInv
<1>1. CASE CloseTest(t)
  <2>1. PICK label \in {"shut", "unmark"} : Goto(t, label)
    BY <1>1 DEF CloseTest
  <2>2. label \in Labels /\ pc[t] # "unset"
    BY <1>1 DEF Labels, CloseTest
  <2> QED
    BY <1>1, <2>1, <2>2, QuietStep DEF CloseTest, told, IInv, TypeOK
<1>2. CASE CloseFd(t)
  <2>1. /\ Goto(t, "unset") /\ UNCHANGED <<sock, isConnect, t1, after, mark, calls, used, told>>
        /\ fds' = [f \in Fds |-> IF f = sock THEN "free" ELSE fds[f]]
        /\ strayed' \subseteq {"close", "send", "recv"}
    BY <1>0, <1>2, Strays DEF CloseFd
  <2>2. pc' \in [Threads -> Labels] /\ pc'[t] = "unset"
    BY <1>0, <2>1, Moves DEF Labels
  <2>3. fds' \in [Fds -> {"free", "new", "linked", "other"}]
    BY <1>0, <2>1 DEF TypeOK
  <2>4. TypeOK'
    BY <1>0, <2>1, <2>2, <2>3 DEF TypeOK, told, Labels
  <2>5. SocketInv'
    BY <2>2 DEF SocketInv
  <2> QED
    BY <2>4, <2>5 DEF IInv
<1>3. CASE CloseUnset(t)
  <2>1. Goto(t, "unmark") /\ sock' = Invalid
        /\ UNCHANGED <<fds, isConnect, t1, after, mark, calls, used, told, strayed>>
    BY <1>3 DEF CloseUnset
  <2>2. pc' \in [Threads -> Labels]
    BY <1>0, <2>1, Moves DEF Labels
  <2>3. TypeOK'
    BY <1>0, <2>1, <2>2 DEF TypeOK, told, Labels
  <2>4. SocketInv'
    BY <2>1 DEF SocketInv
  <2> QED
    BY <2>3, <2>4 DEF IInv
<1>4. CASE CloseUnmark(t)
  <2>1. /\ Goto(t, "unmark") \/ Goto(t, "tell")
        /\ pc[t] # "unset" /\ isConnect' = FALSE
        /\ UNCHANGED <<fds, sock, t1, after, mark, calls, used, told, strayed>>
    BY <1>4 DEF CloseUnmark
  <2> QED
    BY <1>0, <2>1, QuietStep DEF told, TypeOK, Labels
<1>5. CASE CloseTell(t)
  <2>1. /\ Goto(t, Return(t)) /\ Return(t) \in Labels /\ pc[t] # "unset"
        /\ disconnects' = disconnects + 1
        /\ UNCHANGED <<fds, sock, isConnect, t1, after, mark, calls, used, connects, strayed>>
    BY <1>0, <1>5, Returned DEF CloseTell, Labels
  <2>2. disconnects' \in Nat
    BY <1>0, <2>1 DEF TypeOK
  <2> QED
    BY <1>0, <2>1, <2>2, QuietStep DEF TypeOK
<1> QED
  BY <1>1, <1>2, <1>3, <1>4, <1>5 DEF Close

\* The application calls InitSocket, Connect, Start or Stop, connects, or joins the reader.
LEMMA CallStep ==
    ASSUME IInv, InitSocket \/ Connect \/ Start \/ Stop
    PROVE  IInv'
<1> USE DEF object
<1>0. TypeOK
  BY DEF IInv
<1>1. PICK t \in Threads, label \in {"close", "socket", "connect", "run"} :
          Goto(t, label) /\ pc[t] # "unset"
  BY ThreadFacts DEF InitSocket, Connect, Start, Stop, Begins, Call
<1>2. calls' \in 0 .. MaxCalls
  BY <1>0, BoundsAssumption DEF TypeOK, InitSocket, Connect, Start, Stop, Begins
<1>3. after' \in {"idle", "socket", "connect", "join"} /\ t1' \in Readers \cup {None}
  BY <1>0 DEF InitSocket, Connect, Start, Stop, Call, TypeOK
<1>4. UNCHANGED <<fds, sock, isConnect, mark, used, connects, disconnects, strayed>>
  BY DEF InitSocket, Connect, Start, Stop, told
<1>5. label \in Labels
  BY DEF Labels
<1> QED
  BY <1>0, <1>1, <1>2, <1>3, <1>4, <1>5, QuietStep DEF TypeOK

LEMMA SocketStep ==
    ASSUME IInv, Socket
    PROVE  IInv'
<1>0. TypeOK
  BY DEF IInv
<1>1. PICK label \in {"connect", "idle"} : Goto(App, label)
  BY DEF Socket, Call
<1>2. pc' \in [Threads -> Labels]
  BY <1>0, <1>1, Moves, ThreadFacts DEF Labels
<1>3. /\ fds' \in [Fds -> {"free", "new", "linked", "other"}]
      /\ sock' \in Fds \cup {Invalid}
      /\ sock' # Invalid => fds'[sock'] = "new"
  <2>1. CASE \E f \in Fds : fds' = [fds EXCEPT ![f] = "new"] /\ sock' = f
    BY <1>0, <2>1 DEF TypeOK
  <2>2. CASE sock' = Invalid /\ fds' = fds
    BY <1>0, <2>2 DEF TypeOK
  <2> QED
    BY <2>1, <2>2 DEF Socket
<1>4. /\ after' = "idle"
      /\ UNCHANGED <<isConnect, t1, mark, calls, used, connects, disconnects, strayed>>
  BY DEF Socket, Call, told
<1>5. TypeOK'
  BY <1>0, <1>2, <1>3, <1>4 DEF TypeOK, Labels
<1>6. SocketInv'
  BY <1>3 DEF SocketInv
<1> QED
  BY <1>5, <1>6 DEF IInv

LEMMA ConnectStep ==
    ASSUME IInv, ConnectLink \/ ConnectMark \/ ConnectTell \/ Join
    PROVE  IInv'
<1> USE DEF object, local, told
<1>0. TypeOK /\ App \in Threads
  BY ThreadFacts DEF IInv
<1>1. CASE ConnectLink
  <2>1. PICK label \in {"mark", "idle"} : Goto(App, label)
    BY <1>1 DEF ConnectLink
  <2>2. pc[App] = "connect" /\ label \in Labels
    BY <1>1 DEF ConnectLink, Labels
  <2>3. CASE UNCHANGED <<fds, used>>
    BY <1>0, <1>1, <2>1, <2>2, <2>3, QuietStep DEF ConnectLink, TypeOK
  <2>4. CASE State(sock) = "new" /\ fds' = [fds EXCEPT ![sock] = "linked"] /\ used' = TRUE
    <3>1. sock \in Fds
      BY <2>4 DEF State
    <3>2. fds' \in [Fds -> {"free", "new", "linked", "other"}] /\ fds'[sock] = "linked"
      BY <1>0, <2>4, <3>1 DEF TypeOK
    <3>3. pc' \in [Threads -> Labels]
      BY <1>0, <2>1, <2>2, Moves
    <3>4. UNCHANGED <<sock, isConnect, t1, after, mark, calls, told, strayed>>
      BY <1>1 DEF ConnectLink
    <3>5. TypeOK'
      BY <1>0, <2>4, <3>2, <3>3, <3>4 DEF TypeOK, Labels
    <3>6. SocketInv'
      BY <3>2, <3>4 DEF SocketInv
    <3> QED
      BY <3>5, <3>6 DEF IInv
  <2> QED
    BY <1>1, <2>3, <2>4 DEF ConnectLink
<1>2. CASE ConnectMark
  <2>1. Goto(App, "greet") /\ pc[App] = "mark" /\ "greet" \in Labels
    BY <1>2 DEF ConnectMark, Labels
  <2> QED
    BY <1>0, <1>2, <2>1, QuietStep DEF ConnectMark, TypeOK
<1>3. CASE ConnectTell
  <2>1. Goto(App, "idle") /\ pc[App] = "greet" /\ "idle" \in Labels
    BY <1>3 DEF ConnectTell, Labels
  <2>2. connects' \in Nat
    BY <1>0, <1>3 DEF ConnectTell, TypeOK
  <2> QED
    BY <1>0, <1>3, <2>1, <2>2, QuietStep DEF ConnectTell, TypeOK
<1>4. CASE Join
  <2>1. Goto(App, "idle") /\ pc[App] = "join" /\ "idle" \in Labels /\ after' = "idle"
    BY <1>4 DEF Join, Call, Labels
  <2> QED
    BY <1>0, <1>4, <2>1, QuietStep DEF Join, TypeOK
<1> QED
  BY <1>1, <1>2, <1>3, <1>4

\* Readers and senders.
LEMMA ReadStep ==
    ASSUME IInv, NEW t \in Threads,
           \/ t \in Readers /\ (RunTest(t) \/ Select(t) \/ IsSet(t) \/ Recv(t) \/ RecvStray(t))
           \/ t \in Senders /\ (SendTest(t) \/ Send(t))
    PROVE  IInv'
<1> USE DEF object, local, told
<1>0. TypeOK
  BY DEF IInv
<1>1. PICK label \in {"select", "done", "close", "isset", "run", "recv", "send", "idle"} :
          Goto(t, label)
  BY DEF RunTest, Select, IsSet, Recv, RecvStray, SendTest, Send
<1>2. pc[t] # "unset" /\ label \in Labels
  BY DEF RunTest, Select, IsSet, Recv, RecvStray, SendTest, Send, Labels
<1>3. mark' \in [Readers -> Fds \cup {Invalid}]
  BY <1>0 DEF RunTest, Select, IsSet, Recv, RecvStray, SendTest, Send, TypeOK
<1>4. strayed' \subseteq {"close", "send", "recv"}
  BY <1>0, Strays DEF RunTest, Select, IsSet, Recv, RecvStray, SendTest, Send, TypeOK
<1>5. UNCHANGED <<fds, sock, isConnect, t1, after, calls, used, connects, disconnects>>
  BY DEF RunTest, Select, IsSet, Recv, RecvStray, SendTest, Send
<1> QED
  BY <1>0, <1>1, <1>2, <1>3, <1>4, <1>5, QuietStep DEF TypeOK

LEMMA OtherStep ==
    ASSUME IInv, OtherOpen \/ OtherClose
    PROVE  IInv'
<1> USE DEF object, local, told
<1>1. PICK f \in Fds, label \in {"free", "other"} :
          fds[f] \in {"free", "other"} /\ fds' = [fds EXCEPT ![f] = label]
  BY DEF OtherOpen, OtherClose, Lowest, Free
<1>2. UNCHANGED <<object, pc, local, told, strayed>>
  BY DEF OtherOpen, OtherClose
<1>3. TypeOK'
  BY <1>1, <1>2 DEF IInv, TypeOK
<1>4. sock # Invalid /\ fds'[sock] \in {"free", "other"} => fds[sock] \in {"free", "other"}
  BY <1>1, SocketFacts DEF IInv, TypeOK
<1>5. SocketInv'
  BY <1>2, <1>4 DEF IInv, SocketInv
<1> QED
  BY <1>3, <1>5 DEF IInv

LEMMA InitIInv == Init => IInv
<1> SUFFICES ASSUME Init PROVE IInv
  OBVIOUS
<1>1. TypeOK
  <2>1. fds \in [Fds -> {"free", "new", "linked", "other"}]
    BY DEF Init
  <2>2. pc \in [Threads -> Labels]
    <3>1. \A t \in Threads : (IF t \in Readers THEN "unborn" ELSE "idle") \in Labels
      BY DEF Labels
    <3>2. pc = [t \in Threads |-> IF t \in Readers THEN "unborn" ELSE "idle"]
      BY DEF Init
    <3> QED
      BY <3>1, <3>2
  <2>3. mark \in [Readers -> Fds \cup {Invalid}]
    BY DEF Init
  <2>4. calls \in 0 .. MaxCalls /\ connects \in Nat /\ disconnects \in Nat
    BY BoundsAssumption DEF Init
  <2>5. /\ sock \in Fds \cup {Invalid} /\ isConnect \in BOOLEAN
        /\ t1 \in Readers \cup {None} /\ after \in {"idle", "socket", "connect", "join"}
        /\ used \in BOOLEAN /\ strayed \subseteq {"close", "send", "recv"}
    BY DEF Init
  <2> QED
    BY <2>1, <2>2, <2>3, <2>4, <2>5 DEF TypeOK, Labels
<1>2. SocketInv
  BY DEF Init, SocketInv
<1> QED
  BY <1>1, <1>2 DEF IInv

LEMMA NextIInv == IInv /\ [Next]_vars => IInv'
<1> SUFFICES ASSUME IInv, [Next]_vars PROVE IInv'
  OBVIOUS
<1>1. CASE InitSocket \/ Connect \/ Start \/ Stop
  BY <1>1, CallStep
<1>2. CASE Working
  BY <1>2, SocketStep, ConnectStep, CloseStep, ThreadFacts DEF Working
<1>3. ASSUME NEW r \in Readers, Read(r) \/ RecvStray(r)
      PROVE  IInv'
  BY <1>3, ReadStep, CloseStep, ThreadFacts DEF Read
<1>4. ASSUME NEW s \in Senders, SendTest(s) \/ Send(s) \/ Close(s)
      PROVE  IInv'
  BY <1>4, ReadStep, CloseStep, ThreadFacts
<1>5. CASE OtherOpen \/ OtherClose
  BY <1>5, OtherStep
<1>6. CASE UNCHANGED vars
  <2>1. TypeOK'
    BY <1>6 DEF vars, object, local, told, IInv, TypeOK
  <2>2. SocketInv'
    BY <1>6 DEF vars, object, IInv, SocketInv
  <2> QED
    BY <2>1, <2>2 DEF IInv
<1> QED
  BY <1>1, <1>2, <1>3, <1>4, <1>5, <1>6 DEF Next

-----------------------------------------------------------------------------
(* The application's order. *)

LEMMA NextOrderInv ==
    ASSUME Patient, IInv, OrderInv, [Next]_vars
    PROVE  OrderInv'
<1> USE DEF object, local
<1>0. TypeOK /\ App \in Threads
  BY ThreadFacts DEF IInv
<1>1. ASSUME isConnect' => isConnect, UNCHANGED <<used, after>>, pc'[App] = pc[App]
      PROVE  OrderInv'
  BY <1>1 DEF OrderInv
<1>2. ASSUME NEW label \in Labels, Goto(App, label)
      PROVE  pc'[App] = label
  BY <1>0, <1>2, Moves
<1>3. CASE InitSocket \/ Connect
  <2>1. ~ used /\ pc[App] = "idle" /\ UNCHANGED <<isConnect, used>>
    BY <1>3 DEF InitSocket, Connect, InOrder, Begins
  <2>2. pc'[App] \in {"socket", "connect"} \/ (pc'[App] = "close" /\ after' = "socket")
    BY <1>2, <1>3 DEF InitSocket, Connect, Call, Labels
  <2> QED
    BY <2>1, <2>2 DEF OrderInv, Closing
<1>4. CASE Start
  <2>1. PICK r \in Readers : Goto(r, "run")
    BY <1>4 DEF Start
  <2>2. pc'[App] = pc[App]
    BY <1>0, <2>1, Moves, ThreadFacts DEF Labels
  <2> QED
    BY <1>1, <1>4, <2>2 DEF Start
<1>5. CASE Stop
  <2>1. pc'[App] = "close" /\ after' = "join" /\ UNCHANGED <<isConnect, used>>
    BY <1>2, <1>5 DEF Stop, Call, Labels
  <2> QED
    BY <2>1 DEF OrderInv, Closing
<1>6. CASE Socket
  <2>1. pc[App] = "socket" /\ pc'[App] \in {"connect", "idle"} /\ UNCHANGED <<isConnect, used>>
    BY <1>2, <1>6 DEF Socket, Call, Labels
  <2> QED
    BY <2>1 DEF OrderInv, Closing
<1>7. CASE ConnectLink
  <2>1. pc[App] = "connect" /\ UNCHANGED isConnect
    BY <1>7 DEF ConnectLink
  <2>2. \/ pc'[App] = "mark" /\ used' = TRUE
        \/ pc'[App] = "idle" /\ used' = used
    BY <1>2, <1>7 DEF ConnectLink, Labels
  <2>3. ~ used /\ ~ isConnect
    BY <2>1 DEF OrderInv, Closing
  <2> QED
    BY <2>1, <2>2, <2>3 DEF OrderInv, Closing
<1>8. CASE ConnectMark
  <2>1. pc[App] = "mark" /\ pc'[App] = "greet" /\ used' = used
    BY <1>2, <1>8 DEF ConnectMark, Labels
  <2> QED
    BY <2>1 DEF OrderInv, Closing
<1>9. CASE ConnectTell
  <2>1. pc'[App] = "idle" /\ UNCHANGED <<used, isConnect>>
    BY <1>2, <1>9 DEF ConnectTell, Labels
  <2> QED
    BY <2>1 DEF OrderInv, Closing
<1>10. CASE Join
  <2>1. pc[App] = "join" /\ pc'[App] = "idle" /\ UNCHANGED isConnect
    BY <1>2, <1>10 DEF Join, Call, Labels
  <2> QED
    BY <2>1 DEF OrderInv, Closing
<1>11. ASSUME NEW t \in Threads, t # App,
              Close(t) \/ RunTest(t) \/ Select(t) \/ IsSet(t) \/ Recv(t) \/ RecvStray(t)
                       \/ SendTest(t) \/ Send(t)
       PROVE  OrderInv'
  <2>1. PICK label \in Labels : Goto(t, label)
    <3>1. Return(t) \in Labels
      BY <1>0, Returned DEF Labels
    <3> QED
      BY <1>11, <3>1 DEF Close, CloseTest, CloseFd, CloseUnset, CloseUnmark, CloseTell,
                         RunTest, Select, IsSet, Recv, RecvStray, SendTest, Send, Labels
  <2>2. pc'[App] = pc[App]
    BY <1>0, <1>11, <2>1, Moves
  <2>3. (isConnect' => isConnect) /\ UNCHANGED <<used, after>>
    BY <1>11 DEF Close, CloseTest, CloseFd, CloseUnset, CloseUnmark, CloseTell,
                 RunTest, Select, IsSet, Recv, RecvStray, SendTest, Send
  <2> QED
    BY <1>1, <2>2, <2>3
<1>12. CASE Close(App)
  <2>1. UNCHANGED <<used, after>>
    BY <1>12 DEF Close, CloseTest, CloseFd, CloseUnset, CloseUnmark, CloseTell
  <2>2. pc[App] \in Closing
    BY <1>12 DEF Close, CloseTest, CloseFd, CloseUnset, CloseUnmark, CloseTell, Closing
  <2>3. CASE CloseTell(App)
    <3>1. Return(App) = after /\ after \in {"join", "socket"} /\ after \in Labels
      BY <1>0, <2>2, Returned DEF OrderInv, Labels
    <3>2. pc'[App] = after /\ ~ isConnect' /\ (after = "socket" => ~ used)
      BY <1>2, <2>2, <2>3, <3>1 DEF CloseTell, OrderInv
    <3> QED
      BY <2>1, <3>1, <3>2 DEF OrderInv, Closing
  <2>4. CASE CloseUnmark(App)
    <3>1. pc'[App] = "tell" /\ ~ isConnect'
      BY <1>2, <2>4 DEF CloseUnmark, Labels
    <3> QED
      BY <2>1, <2>2, <3>1 DEF OrderInv, Closing
  <2>5. CASE CloseTest(App) \/ CloseFd(App) \/ CloseUnset(App)
    <3>1. pc'[App] \in {"shut", "unset", "unmark"} /\ isConnect' = isConnect
      BY <1>2, <2>5 DEF CloseTest, CloseFd, CloseUnset, Labels
    <3> QED
      BY <2>1, <2>2, <3>1 DEF OrderInv, Closing
  <2> QED
    BY <1>12, <2>3, <2>4, <2>5 DEF Close
<1>13. CASE OtherOpen \/ OtherClose \/ UNCHANGED vars
  BY <1>1, <1>13 DEF OtherOpen, OtherClose, vars
<1>14. CASE Working
  BY <1>6, <1>7, <1>8, <1>9, <1>10, <1>12, <1>14 DEF Working
<1>15. ASSUME NEW r \in Readers, Read(r) \/ RecvStray(r)
       PROVE  OrderInv'
  BY <1>11, <1>15, ThreadFacts DEF Read
<1>16. ASSUME NEW s \in Senders, SendTest(s) \/ Send(s) \/ Close(s)
       PROVE  OrderInv'
  BY <1>11, <1>16, ThreadFacts
<1> QED
  BY <1>3, <1>4, <1>5, <1>13, <1>14, <1>15, <1>16 DEF Next

-----------------------------------------------------------------------------
(* The balance of OnConnect and OnDisconnect. *)

Balance ==
    connects + One(pc[App] = "greet")
        <= disconnects + Cardinality(Telling) + One(isConnect)

\* How a step changes the set of the threads about to call OnDisconnect.
LEMMA TellingChanges ==
    ASSUME TypeOK, NEW t \in Threads, NEW label \in Labels, Goto(t, label)
    PROVE  /\ Cardinality(Telling) \in Nat /\ Cardinality(Telling') \in Nat
           /\ label # "tell" /\ pc[t] # "tell" => Cardinality(Telling') = Cardinality(Telling)
           /\ label = "tell" /\ pc[t] # "tell" => Cardinality(Telling') = Cardinality(Telling) + 1
           /\ label # "tell" /\ pc[t] = "tell" => Cardinality(Telling') = Cardinality(Telling) - 1
<1>1. pc'[t] = label /\ \A u \in Threads : u # t => pc'[u] = pc[u]
  BY Moves
<1>2. IsFiniteSet(Telling) /\ IsFiniteSet(Telling')
  <2>1. Telling \in SUBSET Threads /\ Telling' \in SUBSET Threads
    BY DEF Telling
  <2> QED
    BY <2>1, ThreadFacts, FS_Subset
<1>3. label # "tell" /\ pc[t] # "tell" => Telling' = Telling
  BY <1>1 DEF Telling
<1>4. label = "tell" /\ pc[t] # "tell" => Telling' = Telling \cup {t} /\ t \notin Telling
  BY <1>1 DEF Telling
<1>5. label # "tell" /\ pc[t] = "tell" => Telling' = Telling \ {t} /\ t \in Telling
  BY <1>1 DEF Telling
<1> QED
  BY <1>2, <1>3, <1>4, <1>5, FS_CardinalityType, FS_AddElement, FS_RemoveElement

LEMMA NextBalance ==
    ASSUME IInv, OrderInv, Balance, [Next]_vars
    PROVE  Balance'
<1> USE DEF object, local, told
<1>0. TypeOK /\ App \in Threads /\ connects \in Nat /\ disconnects \in Nat /\ isConnect \in BOOLEAN
  BY ThreadFacts DEF IInv, TypeOK
<1>1. ASSUME UNCHANGED <<pc, connects, disconnects, isConnect>>
      PROVE  Balance'
  BY <1>1 DEF Balance, Telling
<1>2. ASSUME NEW t \in Threads, NEW label \in Labels \ {"tell", "greet"}, Goto(t, label),
             pc[t] \notin {"tell", "greet"}, UNCHANGED <<connects, disconnects, isConnect>>
      PROVE  Balance'
  <2>1. Cardinality(Telling') = Cardinality(Telling)
    BY <1>0, <1>2, TellingChanges
  <2>2. (pc'[App] = "greet") = (pc[App] = "greet")
    BY <1>0, <1>2, Moves
  <2> QED
    BY <1>2, <2>1, <2>2 DEF Balance
<1>3. CASE InitSocket \/ Connect \/ Start \/ Stop \/ Socket \/ ConnectLink \/ Join
  <2>1. PICK t \in Threads, label \in Labels \ {"tell", "greet"} :
            Goto(t, label) /\ pc[t] \notin {"tell", "greet"}
    BY <1>3, ThreadFacts DEF InitSocket, Connect, Start, Stop, Socket, ConnectLink, Join,
                             Begins, Call, Labels
  <2>2. UNCHANGED <<connects, disconnects, isConnect>>
    BY <1>3 DEF InitSocket, Connect, Start, Stop, Socket, ConnectLink, Join
  <2> QED
    BY <1>2, <2>1, <2>2
<1>4. CASE ConnectMark
  <2>1. /\ Goto(App, "greet") /\ pc[App] = "mark" /\ isConnect' = TRUE
        /\ UNCHANGED <<connects, disconnects>>
    BY <1>4 DEF ConnectMark
  <2>2. ~ isConnect
    BY <2>1 DEF OrderInv
  <2>3. Cardinality(Telling') = Cardinality(Telling) /\ Cardinality(Telling) \in Nat
        /\ pc'[App] = "greet"
    BY <1>0, <2>1, TellingChanges, Moves DEF Labels
  <2> QED
    BY <1>0, <2>1, <2>2, <2>3 DEF Balance, One
<1>5. CASE ConnectTell
  <2>1. /\ Goto(App, "idle") /\ pc[App] = "greet" /\ connects' = connects + 1
        /\ UNCHANGED <<isConnect, disconnects>>
    BY <1>5 DEF ConnectTell
  <2>2. Cardinality(Telling') = Cardinality(Telling) /\ Cardinality(Telling) \in Nat
        /\ pc'[App] = "idle"
    BY <1>0, <2>1, TellingChanges, Moves DEF Labels
  <2> QED
    BY <1>0, <2>1, <2>2 DEF Balance, One
<1>6. ASSUME NEW t \in Threads, Close(t)
      PROVE  Balance'
  <2>1. CASE CloseTest(t) \/ CloseFd(t) \/ CloseUnset(t)
    <3>1. PICK label \in {"shut", "unset", "unmark"} : Goto(t, label)
      BY <2>1 DEF CloseTest, CloseFd, CloseUnset
    <3>2. pc[t] \notin {"tell", "greet"} /\ label \in Labels \ {"tell", "greet"}
      BY <2>1 DEF CloseTest, CloseFd, CloseUnset, Labels
    <3>3. UNCHANGED <<connects, disconnects, isConnect>>
      BY <2>1 DEF CloseTest, CloseFd, CloseUnset
    <3> QED
      BY <1>2, <3>1, <3>2, <3>3
  <2>2. CASE CloseUnmark(t)
    <3>1. /\ Goto(t, "tell") /\ pc[t] = "unmark" /\ isConnect' = FALSE
          /\ UNCHANGED <<connects, disconnects>>
      BY <2>2 DEF CloseUnmark
    <3>2. Cardinality(Telling') = Cardinality(Telling) + 1 /\ Cardinality(Telling) \in Nat
      BY <1>0, <3>1, TellingChanges DEF Labels
    <3>3. (pc'[App] = "greet") = (pc[App] = "greet")
      BY <1>0, <3>1, Moves DEF Labels
    <3> QED
      BY <1>0, <3>1, <3>2, <3>3 DEF Balance, One
  <2>3. CASE CloseTell(t)
    <3>1. /\ Goto(t, Return(t)) /\ pc[t] = "tell" /\ disconnects' = disconnects + 1
          /\ UNCHANGED <<connects, isConnect>>
      BY <2>3 DEF CloseTell
    <3>2. Return(t) \in Labels \ {"tell", "greet"}
      BY <1>0, Returned DEF Labels
    <3>3. Cardinality(Telling') = Cardinality(Telling) - 1 /\ Cardinality(Telling) \in Nat
          /\ Cardinality(Telling') \in Nat
      BY <1>0, <3>1, <3>2, TellingChanges
    <3>4. (pc'[App] = "greet") = (pc[App] = "greet")
      BY <1>0, <3>1, <3>2, Moves
    <3> QED
      BY <1>0, <3>1, <3>3, <3>4 DEF Balance, One
  <2> QED
    BY <1>6, <2>1, <2>2, <2>3 DEF Close
<1>7. ASSUME NEW t \in Threads,
             RunTest(t) \/ Select(t) \/ IsSet(t) \/ Recv(t) \/ RecvStray(t) \/ SendTest(t) \/ Send(t)
      PROVE  Balance'
  <2>1. PICK label \in {"select", "done", "close", "isset", "run", "recv", "send", "idle"} :
            Goto(t, label)
    BY <1>7 DEF RunTest, Select, IsSet, Recv, RecvStray, SendTest, Send
  <2>2. pc[t] \notin {"tell", "greet"} /\ label \in Labels \ {"tell", "greet"}
    BY <1>7 DEF RunTest, Select, IsSet, Recv, RecvStray, SendTest, Send, Labels
  <2>3. UNCHANGED <<connects, disconnects, isConnect>>
    BY <1>7 DEF RunTest, Select, IsSet, Recv, RecvStray, SendTest, Send
  <2> QED
    BY <1>2, <2>1, <2>2, <2>3
<1>8. CASE OtherOpen \/ OtherClose \/ UNCHANGED vars
  BY <1>1, <1>8 DEF OtherOpen, OtherClose, vars
<1>9. CASE Working
  BY <1>0, <1>3, <1>4, <1>5, <1>6, <1>9 DEF Working
<1>10. ASSUME NEW r \in Readers, Read(r) \/ RecvStray(r)
       PROVE  Balance'
  BY <1>6, <1>7, <1>10, ThreadFacts DEF Read
<1>11. ASSUME NEW s \in Senders, SendTest(s) \/ Send(s) \/ Close(s)
       PROVE  Balance'
  BY <1>6, <1>7, <1>11, ThreadFacts
<1> QED
  BY <1>3, <1>8, <1>9, <1>10, <1>11 DEF Next

-----------------------------------------------------------------------------
(***************************************************************************)
(* What Stop leaves behind.  Between two uses nothing but a new reader in  *)
(* its loop condition runs, so that the socket InitSocket makes is not one *)
(* a thread in Close is about to forget; a descriptor is closed before it  *)
(* is forgotten, so that every open one is the one the object names; and   *)
(* past its test of _sock, the application's own Close has no socket left. *)
(***************************************************************************)
SettingUp == pc[App] \in {"socket", "connect"} \/ (pc[App] \in Closing /\ after = "socket")
ReaderInv ==
    \A r \in Readers : /\ pc[r] \notin {"unborn", "done"} => r = t1
                       /\ pc[r] \notin {"unborn", "run", "done"} => used
QuietInv == SettingUp => \A s \in Senders : pc[s] = "idle"
UnsetInv == (\E t \in Threads : pc[t] = "unset") => sock \notin Owned
LostInv == Owned \subseteq {sock}
EndInv == pc[App] \in {"unmark", "tell", "socket", "join"} => sock = Invalid

StopInv == ReaderInv /\ QuietInv /\ UnsetInv /\ LostInv /\ EndInv

\* The steps, by who takes them.
LEMMA NextCases ==
    ASSUME [Next]_vars
    PROVE  \/ InitSocket \/ Connect \/ Start \/ Stop \/ Socket \/ ConnectLink \/ ConnectMark
           \/ ConnectTell \/ Join \/ OtherOpen \/ OtherClose \/ UNCHANGED vars
           \/ \E t \in Threads : Close(t)
           \/ \E r \in Readers : RunTest(r) \/ Select(r) \/ IsSet(r) \/ Recv(r) \/ RecvStray(r)
           \/ \E s \in Senders : SendTest(s) \/ Send(s)
BY ThreadFacts DEF Next, Working, Read

\* The application's calls and what follows them, but for Close: only the application moves.
LEMMA AppMoves ==
    ASSUME IInv, InitSocket \/ Connect \/ Stop \/ Socket \/ ConnectLink \/ ConnectMark \/ ConnectTell \/ Join
    PROVE  /\ pc[App] \in {"idle", "socket", "connect", "mark", "greet", "join"}
           /\ Goto(App, pc'[App]) /\ pc'[App] \notin {"unset", "unmark", "tell", "join"}
           /\ \A u \in Threads : u # App => pc'[u] = pc[u]
<1>1. PICK label \in {"close", "socket", "connect", "idle", "mark", "greet"} : Goto(App, label)
  BY DEF InitSocket, Connect, Stop, Socket, ConnectLink, ConnectMark, ConnectTell, Join, Call
<1>2. pc'[App] = label /\ \A u \in Threads : u # App => pc'[u] = pc[u]
  BY <1>1, Moves, ThreadFacts DEF IInv, Labels
<1>3. pc[App] \in {"idle", "socket", "connect", "mark", "greet", "join"}
  BY DEF InitSocket, Connect, Stop, Socket, ConnectLink, ConnectMark, ConnectTell, Join, Begins
<1> QED
  BY <1>1, <1>2, <1>3

\* A step of Close: one thread moves, and leaves the calls and the readers alone.
LEMMA CloseMoves ==
    ASSUME IInv, NEW t \in Threads, Close(t)
    PROVE  /\ pc[t] \in Closing
           /\ pc'[t] \in {"shut", "unset", "unmark", "tell"} \/ (pc[t] = "tell" /\ pc'[t] = Return(t))
           /\ \A u \in Threads : u # t => pc'[u] = pc[u]
           /\ UNCHANGED <<t1, after, mark, calls, used>> /\ (isConnect' => isConnect)
<1>1. TypeOK
  BY DEF IInv
<1>2. PICK label \in Labels :
          /\ Goto(t, label)
          /\ label \in {"shut", "unset", "unmark", "tell"} \/ (pc[t] = "tell" /\ label = Return(t))
  <2>1. Return(t) \in Labels
    BY <1>1, Returned DEF Labels
  <2> QED
    BY <2>1 DEF Close, CloseTest, CloseFd, CloseUnset, CloseUnmark, CloseTell, Labels
<1>3. pc'[t] = label /\ \A u \in Threads : u # t => pc'[u] = pc[u]
  BY <1>1, <1>2, Moves
<1>4. pc[t] \in Closing
  BY DEF Close, CloseTest, CloseFd, CloseUnset, CloseUnmark, CloseTell, Closing
<1>5. UNCHANGED <<t1, after, mark, calls, used>> /\ (isConnect' => isConnect)
  BY DEF Close, CloseTest, CloseFd, CloseUnset, CloseUnmark, CloseTell, object, local
<1> QED
  BY <1>2, <1>3, <1>4, <1>5

\* A step of a reader or a sender outside Close: it moves, and touches no descriptor.
LEMMA WorkMoves ==
    ASSUME IInv, NEW t \in Threads,
           \/ t \in Readers /\ (RunTest(t) \/ Select(t) \/ IsSet(t) \/ Recv(t) \/ RecvStray(t))
           \/ t \in Senders /\ (SendTest(t) \/ Send(t))
    PROVE  /\ t # App /\ pc[t] \notin {"unborn", "done"}
           /\ pc'[t] \in {"select", "done", "close", "isset", "run", "recv", "send", "idle"}
           /\ \A u \in Threads : u # t => pc'[u] = pc[u]
           /\ UNCHANGED <<fds, sock, isConnect, t1, after, used>>
           /\ t \in Readers /\ pc[t] = "run" /\ pc'[t] # "done" => isConnect
           /\ t \in Senders /\ pc[t] = "idle" => isConnect
<1>1. PICK label \in {"select", "done", "close", "isset", "run", "recv", "send", "idle"} : Goto(t, label)
  BY DEF RunTest, Select, IsSet, Recv, RecvStray, SendTest, Send
<1>2. pc'[t] = label /\ \A u \in Threads : u # t => pc'[u] = pc[u]
  BY <1>1, Moves DEF IInv, Labels
<1>3. t # App /\ pc[t] \notin {"unborn", "done"}
  BY ThreadFacts DEF RunTest, Select, IsSet, Recv, RecvStray, SendTest, Send
<1>4. UNCHANGED <<fds, sock, isConnect, t1, after, used>>
  BY DEF RunTest, Select, IsSet, Recv, RecvStray, SendTest, Send, object, local
<1>5. ASSUME t \in Readers, pc[t] = "run", pc'[t] # "done"
      PROVE  isConnect
  <2>1. RunTest(t)
    BY <1>5, ThreadsAssumption DEF Select, IsSet, Recv, RecvStray
  <2>2. Goto(t, "done") => pc'[t] = "done"
    BY Moves DEF IInv, Labels
  <2> QED
    BY <1>5, <2>1, <2>2 DEF RunTest, isRun
<1>6. ASSUME t \in Senders, pc[t] = "idle"
      PROVE  isConnect
  BY <1>6, ThreadsAssumption DEF SendTest, Send, isRun
<1> QED
  BY <1>1, <1>2, <1>3, <1>4, <1>5, <1>6

\* Start makes one thread run.
LEMMA StartMoves ==
    ASSUME IInv, Start
    PROVE  /\ \E r \in Readers : /\ pc'[r] = "run" /\ t1' = r
                                 /\ \A u \in Threads : u # r => pc'[u] = pc[u]
           /\ UNCHANGED <<fds, sock, isConnect, after, used>>
           /\ pc'[App] = pc[App] /\ (Patient => t1 = None)
<1>1. PICK r \in Readers : Goto(r, "run") /\ t1' = r
  BY DEF Start
<1>2. pc'[r] = "run" /\ \A u \in Threads : u # r => pc'[u] = pc[u]
  BY <1>1, Moves, ThreadFacts DEF IInv, Labels
<1>3. UNCHANGED <<fds, sock, isConnect, after, used>> /\ (Patient => t1 = None)
  BY DEF Start
<1> QED
  BY <1>1, <1>2, <1>3, ThreadFacts

LEMMA NextReaderInv ==
    ASSUME Patient, IInv, OrderInv, StopInv, [Next]_vars
    PROVE  ReaderInv'
<1>0. ReaderInv
  BY DEF StopInv
<1>1. ASSUME \A r \in Readers : pc'[r] = pc[r], t1' = t1, used => used'
      PROVE  ReaderInv'
  BY <1>0, <1>1 DEF ReaderInv
<1>2. CASE InitSocket \/ Connect \/ Stop \/ Socket \/ ConnectLink \/ ConnectMark \/ ConnectTell
  <2>1. \A r \in Readers : pc'[r] = pc[r]
    BY <1>2, AppMoves, ThreadFacts
  <2>2. t1' = t1 /\ (used => used')
    BY <1>2 DEF InitSocket, Connect, Stop, Socket, ConnectLink, ConnectMark, ConnectTell, object, local
  <2> QED
    BY <1>1, <2>1, <2>2
<1>3. CASE Join
  <2>1. \A r \in Readers : pc'[r] = pc[r]
    BY <1>3, AppMoves, ThreadFacts
  <2>2. t1 # None => pc[t1] = "done"
    BY <1>3 DEF Join
  <2>3. \A r \in Readers : pc[r] \in {"unborn", "done"}
    BY <1>0, <2>2, ThreadsAssumption DEF ReaderInv, Threads
  <2> QED
    BY <2>1, <2>3 DEF ReaderInv
<1>4. CASE Start
  <2>1. PICK r \in Readers : /\ pc'[r] = "run" /\ t1' = r
                             /\ \A u \in Threads : u # r => pc'[u] = pc[u]
    BY <1>4, StartMoves
  <2>2. t1 = None
    BY <1>4, StartMoves
  <2>3. \A u \in Readers : pc[u] \in {"unborn", "done"}
    BY <1>0, <2>2, ThreadsAssumption DEF ReaderInv, Threads
  <2> QED
    BY <2>1, <2>3, ThreadFacts DEF ReaderInv
<1>5. ASSUME NEW t \in Threads, Close(t)
      PROVE  ReaderInv'
  <2>1. t1' = t1 /\ used' = used /\ pc[t] \notin {"unborn", "run", "done"}
    BY <1>5, CloseMoves DEF Closing
  <2> QED
    BY <1>0, <1>5, <2>1, CloseMoves, ThreadFacts DEF ReaderInv
<1>6. ASSUME NEW t \in Threads,
             \/ t \in Readers /\ (RunTest(t) \/ Select(t) \/ IsSet(t) \/ Recv(t) \/ RecvStray(t))
             \/ t \in Senders /\ (SendTest(t) \/ Send(t))
      PROVE  ReaderInv'
  <2>1. isConnect => used
    BY DEF OrderInv
  <2>2. t1' = t1 /\ used' = used /\ \A u \in Threads : u # t => pc'[u] = pc[u]
    BY <1>6, WorkMoves
  <2>3. ASSUME t \in Readers
        PROVE  t = t1 /\ (pc'[t] \notin {"unborn", "run", "done"} => used)
    <3>1. pc[t] \notin {"unborn", "done"}
      BY <1>6, WorkMoves
    <3>2. pc[t] = "run" /\ pc'[t] # "done" => isConnect
      BY <1>6, <2>3, WorkMoves
    <3> QED
      BY <1>0, <2>1, <2>3, <3>1, <3>2 DEF ReaderInv
  <2> QED
    BY <1>0, <2>2, <2>3, ThreadFacts DEF ReaderInv
<1>7. CASE OtherOpen \/ OtherClose \/ UNCHANGED vars
  BY <1>1, <1>7 DEF OtherOpen, OtherClose, vars, object, local
<1> QED
  BY <1>2, <1>3, <1>4, <1>5, <1>6, <1>7, NextCases, ThreadFacts

LEMMA NextQuietInv ==
    ASSUME Patient, IInv, OrderInv, StopInv, [Next]_vars
    PROVE  QuietInv'
<1>0. QuietInv /\ TypeOK
  BY DEF StopInv, IInv
<1>1. ASSUME \A s \in Senders : pc'[s] = pc[s], SettingUp' => SettingUp
      PROVE  QuietInv'
  BY <1>0, <1>1 DEF QuietInv
<1>2. CASE InitSocket \/ Connect
  <2>1. \A s \in Senders : pc[s] = "idle"
    BY <1>2 DEF InitSocket, Connect, InOrder
  <2>2. \A s \in Senders : pc'[s] = pc[s]
    BY <1>2, AppMoves, ThreadFacts
  <2> QED
    BY <2>1, <2>2 DEF QuietInv
<1>3. CASE Stop \/ ConnectLink \/ ConnectMark \/ ConnectTell \/ Join
  <2>1. PICK label \in {"close", "mark", "idle", "greet"} :
            Goto(App, label) /\ (label = "close" => after' = "join")
    BY <1>3 DEF Stop, ConnectLink, ConnectMark, ConnectTell, Join, Call
  <2>2. pc'[App] = label
    BY <1>0, <2>1, Moves, ThreadFacts DEF Labels
  <2>3. ~ SettingUp'
    BY <2>1, <2>2 DEF SettingUp, Closing
  <2> QED
    BY <2>3 DEF QuietInv
<1>4. CASE Socket
  <2>1. SettingUp
    BY <1>4 DEF Socket, SettingUp
  <2> QED
    BY <1>1, <1>4, <2>1, AppMoves, ThreadFacts
<1>5. CASE Start
  BY <1>1, <1>5, StartMoves, ThreadFacts, ThreadsAssumption DEF SettingUp
<1>6. CASE Close(App)
  <2>1. after \in {"join", "socket"} /\ Return(App) = after
    BY <1>0, <1>6, CloseMoves, Returned, ThreadFacts DEF OrderInv
  <2>2. pc[App] \in Closing /\ after' = after
    BY <1>6, CloseMoves, ThreadFacts
  <2>3. pc'[App] \in {"shut", "unset", "unmark", "tell"} \/ pc'[App] = after
    BY <1>6, <2>1, CloseMoves, ThreadFacts
  <2>4. SettingUp' => SettingUp
    BY <2>1, <2>2, <2>3 DEF SettingUp, Closing
  <2> QED
    BY <1>1, <1>6, <2>4, CloseMoves, ThreadFacts
<1>7. ASSUME NEW t \in Threads, t # App, Close(t)
      PROVE  QuietInv'
  <2>1. pc'[App] = pc[App] /\ after' = after /\ pc[t] # "idle"
    BY <1>7, CloseMoves, ThreadFacts DEF Closing
  <2>2. SettingUp' => SettingUp /\ t \notin Senders
    BY <1>0, <2>1 DEF SettingUp, QuietInv
  <2> QED
    BY <1>0, <1>7, <2>2, CloseMoves, ThreadFacts DEF QuietInv
<1>8. ASSUME NEW t \in Threads,
             \/ t \in Readers /\ (RunTest(t) \/ Select(t) \/ IsSet(t) \/ Recv(t) \/ RecvStray(t))
             \/ t \in Senders /\ (SendTest(t) \/ Send(t))
      PROVE  QuietInv'
  <2>1. /\ pc'[App] = pc[App] /\ after' = after /\ t # App
        /\ \A u \in Threads : u # t => pc'[u] = pc[u]
    BY <1>8, WorkMoves, ThreadFacts
  <2>2. SettingUp => ~ isConnect
    BY DEF SettingUp, OrderInv, Closing
  <2>3. ASSUME SettingUp'
        PROVE  SettingUp /\ t \notin Senders
    <3>1. SettingUp
      BY <2>1, <2>3 DEF SettingUp
    <3>2. t \in Senders => pc[t] # "idle"
      BY <1>8, <2>2, <3>1, WorkMoves
    <3> QED
      BY <1>0, <3>1, <3>2 DEF QuietInv
  <2> QED
    BY <1>0, <2>1, <2>3, ThreadFacts DEF QuietInv
<1>9. CASE OtherOpen \/ OtherClose \/ UNCHANGED vars
  BY <1>1, <1>9 DEF OtherOpen, OtherClose, vars, local, SettingUp
<1> QED
  BY <1>2, <1>3, <1>4, <1>5, <1>6, <1>7, <1>8, <1>9, NextCases, ThreadFacts

\* While the object is set up no thread is in Close: a reader is at most in its loop condition.
LEMMA NobodyCloses ==
    ASSUME IInv, OrderInv, StopInv, pc[App] \in {"socket", "connect"}, NEW t \in Threads
    PROVE  pc[t] \notin Closing
<1>1. ~ used /\ SettingUp
  BY DEF OrderInv, SettingUp
<1>2. CASE t = App
  BY <1>2 DEF Closing
<1>3. CASE t \in Senders
  BY <1>1, <1>3 DEF StopInv, QuietInv, Closing
<1>4. CASE t \in Readers
  BY <1>1, <1>4 DEF StopInv, ReaderInv, Closing
<1> QED
  BY <1>2, <1>3, <1>4 DEF Threads

\* What a step does to the socket of the object and the open descriptors of the client.
LEMMA OwnedStep ==
    ASSUME IInv, OrderInv, StopInv, [Next]_vars
    PROVE  \/ Socket
           \/ /\ sock' = sock /\ Owned' \subseteq Owned
              /\ (\E t \in Threads : pc'[t] = "unset")
                    => (\E t \in Threads : pc[t] = "unset") \/ sock \notin Owned'
           \/ \E t \in Threads : pc[t] = "unset" /\ sock' = Invalid /\ Owned' = Owned
<1> USE DEF object
<1>0. TypeOK
  BY DEF IInv
<1>1. ASSUME UNCHANGED <<fds, sock>>,
             \A t \in Threads : pc'[t] = "unset" => pc[t] = "unset"
      PROVE  /\ sock' = sock /\ Owned' \subseteq Owned
             /\ (\E t \in Threads : pc'[t] = "unset") => (\E t \in Threads : pc[t] = "unset")
  BY <1>1 DEF Owned
<1>2. CASE InitSocket \/ Connect \/ Stop \/ ConnectMark \/ ConnectTell \/ Join
  <2>1. UNCHANGED <<fds, sock>>
    BY <1>2 DEF InitSocket, Connect, Stop, ConnectMark, ConnectTell, Join
  <2>2. \A t \in Threads : pc'[t] = "unset" => pc[t] = "unset"
    BY <1>2, AppMoves
  <2> QED
    BY <1>1, <2>1, <2>2
<1>3. CASE ConnectLink
  <2>1. \A t \in Threads : pc'[t] = "unset" => pc[t] = "unset"
    BY <1>3, AppMoves
  <2>2. sock' = sock
    BY <1>3 DEF ConnectLink
  <2>3. Owned' \subseteq Owned
    <3>1. CASE fds' = fds
      BY <3>1 DEF Owned
    <3>2. CASE State(sock) = "new" /\ fds' = [fds EXCEPT ![sock] = "linked"]
      BY <1>0, <3>2 DEF Owned, State, TypeOK
    <3> QED
      BY <1>3, <3>1, <3>2 DEF ConnectLink
  <2> QED
    BY <2>1, <2>2, <2>3
<1>4. CASE Start
  <2>1. \A t \in Threads : pc'[t] = "unset" => pc[t] = "unset"
    BY <1>4, StartMoves
  <2> QED
    BY <1>1, <1>4, <2>1, StartMoves
<1>5. ASSUME NEW t \in Threads,
             \/ t \in Readers /\ (RunTest(t) \/ Select(t) \/ IsSet(t) \/ Recv(t) \/ RecvStray(t))
             \/ t \in Senders /\ (SendTest(t) \/ Send(t))
      PROVE  /\ sock' = sock /\ Owned' \subseteq Owned
             /\ (\E u \in Threads : pc'[u] = "unset") => (\E u \in Threads : pc[u] = "unset")
  <2>1. pc'[t] # "unset" /\ \A u \in Threads : u # t => pc'[u] = pc[u]
    BY <1>5, WorkMoves
  <2> QED
    BY <1>1, <1>5, <2>1, WorkMoves
<1>6. ASSUME NEW t \in Threads, CloseTest(t) \/ CloseUnmark(t) \/ CloseTell(t)
      PROVE  /\ sock' = sock /\ Owned' \subseteq Owned
             /\ (\E u \in Threads : pc'[u] = "unset") => (\E u \in Threads : pc[u] = "unset")
  <2>1. UNCHANGED <<fds, sock>>
    BY <1>6 DEF CloseTest, CloseUnmark, CloseTell
  <2>2. PICK label \in Labels \ {"unset"} : Goto(t, label)
    <3>1. Return(t) \in Labels \ {"unset"}
      BY <1>0, Returned DEF Labels
    <3> QED
      BY <1>6, <3>1 DEF CloseTest, CloseUnmark, CloseTell, Labels
  <2>3. \A u \in Threads : pc'[u] = "unset" => pc[u] = "unset"
    BY <1>0, <2>2, Moves
  <2> QED
    BY <1>1, <2>1, <2>3
<1>7. ASSUME NEW t \in Threads, CloseFd(t)
      PROVE  sock' = sock /\ Owned' \subseteq Owned /\ sock \notin Owned'
  BY <1>7 DEF CloseFd, Owned
<1>8. ASSUME NEW t \in Threads, CloseUnset(t)
      PROVE  pc[t] = "unset" /\ sock' = Invalid /\ Owned' = Owned
  BY <1>8 DEF CloseUnset, Owned
<1>9. CASE OtherOpen \/ OtherClose
  <2>1. PICK f \in Fds, state \in {"other", "free"} : fds' = [fds EXCEPT ![f] = state]
    BY <1>9 DEF OtherOpen, OtherClose
  <2>2. Owned' \subseteq Owned
    BY <1>0, <2>1 DEF Owned, TypeOK
  <2>3. UNCHANGED <<sock, pc>>
    BY <1>9 DEF OtherOpen, OtherClose
  <2> QED
    BY <2>2, <2>3
<1>10. CASE UNCHANGED vars
  BY <1>1, <1>10 DEF vars
<1>11. ASSUME NEW t \in Threads, Close(t)
       PROVE  \/ /\ sock' = sock /\ Owned' \subseteq Owned
                 /\ (\E u \in Threads : pc'[u] = "unset")
                       => (\E u \in Threads : pc[u] = "unset") \/ sock \notin Owned'
              \/ \E u \in Threads : pc[u] = "unset" /\ sock' = Invalid /\ Owned' = Owned
  BY <1>6, <1>7, <1>8, <1>11 DEF Close
<1> QED
  BY <1>2, <1>3, <1>4, <1>5, <1>9, <1>10, <1>11, NextCases, ThreadFacts

\* The socket InitSocket makes is the client's only one, and nobody is about to forget it.
LEMMA SocketMakes ==
    ASSUME IInv, OrderInv, StopInv, Socket
    PROVE  /\ \A t \in Threads : pc'[t] # "unset"
           /\ Owned' \subseteq {sock'}
<1>0. TypeOK /\ pc[App] = "socket"
  BY DEF IInv, Socket
<1>1. \A t \in Threads : pc[t] # "unset"
  BY <1>0, NobodyCloses DEF Closing
<1>2. \A t \in Threads : pc'[t] # "unset"
  BY <1>1, AppMoves
<1>3. Owned = {}
  <2>1. Owned \subseteq {Invalid}
    BY <1>0 DEF StopInv, LostInv, EndInv
  <2> QED
    BY <2>1, SocketFacts DEF Owned
<1>4. CASE fds' = fds
  BY <1>2, <1>3, <1>4 DEF Owned
<1>5. ASSUME NEW f \in Fds, fds' = [fds EXCEPT ![f] = "new"], sock' = f
      PROVE  Owned' \subseteq {sock'}
  <2>1. \A g \in Fds : g # f => fds'[g] = fds[g]
    BY <1>0, <1>5 DEF TypeOK
  <2> QED
    BY <1>3, <1>5, <2>1 DEF Owned
<1> QED
  BY <1>2, <1>4, <1>5 DEF Socket

LEMMA NextOwnedInv ==
    ASSUME IInv, OrderInv, StopInv, [Next]_vars
    PROVE  UnsetInv' /\ LostInv'
<1>1. CASE Socket
  BY <1>1, SocketMakes DEF UnsetInv, LostInv
<1>2. ASSUME sock' = sock, Owned' \subseteq Owned,
             (\E t \in Threads : pc'[t] = "unset")
                 => (\E t \in Threads : pc[t] = "unset") \/ sock \notin Owned'
      PROVE  UnsetInv' /\ LostInv'
  BY <1>2 DEF StopInv, UnsetInv, LostInv
<1>3. ASSUME NEW t \in Threads, pc[t] = "unset", sock' = Invalid, Owned' = Owned
      PROVE  UnsetInv' /\ LostInv'
  <2>1. Owned = {}
    BY <1>3 DEF StopInv, UnsetInv, LostInv
  <2> QED
    BY <1>3, <2>1 DEF UnsetInv, LostInv
<1> QED
  BY <1>1, <1>2, <1>3, OwnedStep

LEMMA NextEndInv ==
    ASSUME IInv, OrderInv, StopInv, [Next]_vars
    PROVE  EndInv'
<1>0. TypeOK /\ EndInv
  BY DEF IInv, StopInv
<1> USE DEF object
<1>1. ASSUME pc'[App] = pc[App], sock' \in {sock, Invalid}
      PROVE  EndInv'
  BY <1>0, <1>1 DEF EndInv
<1>2. CASE InitSocket \/ Connect
  <2>1. sock' = sock /\ (Goto(App, "socket") => sock = Invalid)
    <3>1. pc' # [pc EXCEPT ![App] = "socket"] \/ sock = Invalid
      <4>1. ASSUME sock # Invalid
            PROVE  Goto(App, "close") \/ Goto(App, "connect")
        BY <1>2, <4>1 DEF InitSocket, Connect, Call
      <4> QED
        BY <1>0, <4>1, Moves, ThreadFacts DEF Labels, Goto, TypeOK
    <3> QED
      BY <1>2, <3>1 DEF InitSocket, Connect, Goto
  <2>2. Goto(App, pc'[App]) /\ pc'[App] \notin {"unmark", "tell", "join"}
    BY <1>2, AppMoves
  <2> QED
    BY <2>1, <2>2 DEF EndInv
<1>3. CASE Stop \/ Socket \/ ConnectLink \/ ConnectMark \/ ConnectTell \/ Join
  <2>1. PICK label \in {"close", "connect", "mark", "idle", "greet"} : Goto(App, label)
    BY <1>3 DEF Stop, Socket, ConnectLink, ConnectMark, ConnectTell, Join, Call
  <2>2. pc'[App] = label
    BY <1>0, <2>1, Moves, ThreadFacts DEF Labels
  <2> QED
    BY <2>2 DEF EndInv
<1>4. CASE Start
  BY <1>1, <1>4, StartMoves
<1>5. ASSUME NEW t \in Threads, t # App, Close(t)
      PROVE  EndInv'
  <2>1. pc'[App] = pc[App]
    BY <1>5, CloseMoves, ThreadFacts
  <2>2. sock' \in {sock, Invalid}
    BY <1>5 DEF Close, CloseTest, CloseFd, CloseUnset, CloseUnmark, CloseTell
  <2> QED
    BY <1>1, <2>1, <2>2
<1>6. CASE Close(App)
  <2>1. CASE CloseTest(App)
    <3>1. sock' = sock /\ (sock # Invalid => pc'[App] = "shut")
      BY <1>0, <2>1, Moves, ThreadFacts DEF CloseTest, Labels
    <3> QED
      BY <3>1 DEF EndInv
  <2>2. CASE CloseFd(App)
    <3>1. pc'[App] = "unset"
      BY <1>0, <2>2, Moves, ThreadFacts DEF CloseFd, Labels
    <3> QED
      BY <3>1 DEF EndInv
  <2>3. CASE CloseUnset(App)
    BY <2>3 DEF CloseUnset, EndInv
  <2>4. CASE CloseUnmark(App) \/ CloseTell(App)
    <3>1. pc[App] \in {"unmark", "tell"} /\ sock' = sock
      BY <2>4 DEF CloseUnmark, CloseTell
    <3> QED
      BY <1>0, <3>1 DEF EndInv
  <2> QED
    BY <1>6, <2>1, <2>2, <2>3, <2>4 DEF Close
<1>7. ASSUME NEW t \in Threads,
             \/ t \in Readers /\ (RunTest(t) \/ Select(t) \/ IsSet(t) \/ Recv(t) \/ RecvStray(t))
             \/ t \in Senders /\ (SendTest(t) \/ Send(t))
      PROVE  EndInv'
  BY <1>1, <1>7, WorkMoves, ThreadFacts
<1>8. CASE OtherOpen \/ OtherClose \/ UNCHANGED vars
  BY <1>1, <1>8 DEF OtherOpen, OtherClose, vars
<1> QED
  BY <1>2, <1>3, <1>4, <1>5, <1>6, <1>7, <1>8, NextCases, ThreadFacts

\* The step in which Stop returns is Join, and nothing is left then.
LEMMA JoinIsClean ==
    ASSUME Patient, IInv, OrderInv, StopInv, [Next]_vars, Returns
    PROVE  /\ sock' = Invalid /\ ~ isConnect' /\ Owned' = {}
           /\ \A r \in Readers : pc'[r] \in {"unborn", "done"}
<1>0. pc[App] = "join" /\ pc'[App] = "idle"
  BY DEF Returns
<1>1. Join
  <2>1. ~ (InitSocket \/ Connect \/ Stop \/ Socket \/ ConnectLink \/ ConnectMark \/ ConnectTell)
    BY <1>0 DEF InitSocket, Connect, Stop, Begins, Socket, ConnectLink, ConnectMark, ConnectTell
  <2>2. ~ (Start \/ OtherOpen \/ OtherClose \/ UNCHANGED vars)
    BY <1>0 DEF Start, Begins, OtherOpen, OtherClose, vars
  <2>3. ASSUME NEW t \in Threads, Close(t)
        PROVE  FALSE
    <3>1. pc[t] \in Closing /\ \A u \in Threads : u # t => pc'[u] = pc[u]
      BY <2>3, CloseMoves
    <3> QED
      BY <1>0, <3>1, ThreadFacts DEF Closing
  <2>4. ASSUME NEW t \in Threads,
               \/ t \in Readers /\ (RunTest(t) \/ Select(t) \/ IsSet(t) \/ Recv(t) \/ RecvStray(t))
               \/ t \in Senders /\ (SendTest(t) \/ Send(t))
        PROVE  FALSE
    BY <1>0, <2>4, WorkMoves, ThreadFacts
  <2> QED
    BY <2>1, <2>2, <2>3, <2>4, NextCases, ThreadFacts
<1>2. sock = Invalid /\ UNCHANGED <<fds, sock, isConnect>> /\ ~ isConnect
  BY <1>0, <1>1 DEF StopInv, EndInv, OrderInv, Join
<1>3. Owned' = {}
  <2>1. Owned' = Owned /\ Owned \subseteq {Invalid}
    BY <1>2 DEF Owned, StopInv, LostInv
  <2> QED
    BY <2>1, SocketFacts DEF Owned
<1>4. \A r \in Readers : pc'[r] \in {"unborn", "done"}
  <2>1. t1 # None => pc[t1] = "done"
    BY <1>1 DEF Join
  <2>2. \A r \in Readers : pc'[r] = pc[r]
    BY <1>1, AppMoves, ThreadFacts
  <2> QED
    BY <2>1, <2>2, ThreadsAssumption DEF StopInv, ReaderInv, Threads
<1> QED
  BY <1>2, <1>3, <1>4

-----------------------------------------------------------------------------
(* The theorems. *)

LEMMA InvariantIInv == Spec => []IInv
BY InitIInv, NextIInv, PTL DEF Spec

\* Close closes the client's own socket, whatever the application, its readers and its
\* senders do at the same time and in whatever order the application calls; somebody else's
\* only after another thread in Close has closed it and before that one forgets it.
THEOREM SocketTheorem == Spec => ClosesItsSocket
<1>1. IInv /\ [Next]_vars =>
          [\A t \in Threads :
              CloseFd(t) /\ State(sock) = "other" => \E u \in Threads \ {t} : pc[u] = "unset"]_vars
  <2> SUFFICES ASSUME IInv, NEW t \in Threads, CloseFd(t), State(sock) = "other"
               PROVE  \E u \in Threads \ {t} : pc[u] = "unset"
    OBVIOUS
  <2>1. sock # Invalid /\ fds[sock] = "other"
    BY SocketFacts DEF State
  <2>2. PICK u \in Threads : pc[u] = "unset"
    BY <2>1 DEF IInv, SocketInv
  <2>3. u # t
    BY <2>2 DEF CloseFd
  <2> QED
    BY <2>2, <2>3
<1> QED
  BY <1>1, InvariantIInv, PTL DEF Spec, ClosesItsSocket

\* With an application that stops a connection before it makes the next one, every
\* connection OnConnect has announced is still there or has been followed by an
\* OnDisconnect, or will be: Close calls it in whatever thread it runs, and however many
\* threads run it at once.
THEOREM SilentTheorem == Patient => (Spec => []NoSilentEnd)
<1> SUFFICES ASSUME Patient PROVE Spec => []NoSilentEnd
  OBVIOUS
<1>1. Init => IInv /\ OrderInv /\ Balance
  <2> SUFFICES ASSUME Init PROVE OrderInv /\ Balance
    BY InitIInv
  <2>1. pc[App] = "idle"
    BY ThreadFacts DEF Init
  <2>2. OrderInv
    BY <2>1 DEF Init, OrderInv, Closing
  <2>3. Telling = {}
    BY DEF Init, Telling
  <2>4. Balance
    BY <2>1, <2>3, FS_EmptySet DEF Init, Balance, One
  <2> QED
    BY <2>2, <2>4
<1>2. (IInv /\ OrderInv /\ Balance) /\ [Next]_vars => (IInv /\ OrderInv /\ Balance)'
  BY NextIInv, NextOrderInv, NextBalance
<1>3. IInv /\ OrderInv /\ Balance => NoSilentEnd
  BY DEF IInv, NoSilentEnd, Balance
<1> QED
  BY <1>1, <1>2, <1>3, PTL DEF Spec

\* When Stop returns to an application that keeps its order nothing is left: no socket in the
\* object, no descriptor of the client open anywhere, no reader running; however its Close
\* has interleaved with those of the reader and of the senders.
THEOREM StopTheorem == Patient => (Spec => StopIsClean)
<1> SUFFICES ASSUME Patient PROVE Spec => StopIsClean
  OBVIOUS
<1>1. Init => IInv /\ OrderInv /\ StopInv
  <2> SUFFICES ASSUME Init PROVE OrderInv /\ StopInv
    BY InitIInv
  <2>1. pc[App] = "idle" /\ \A t \in Threads : pc[t] \in {"idle", "unborn"}
    BY ThreadFacts DEF Init
  <2>2. OrderInv /\ QuietInv /\ UnsetInv /\ EndInv
    BY <2>1 DEF Init, OrderInv, QuietInv, SettingUp, UnsetInv, EndInv, Closing
  <2>3. ReaderInv
    BY ThreadFacts DEF Init, ReaderInv
  <2>4. LostInv
    BY DEF Init, LostInv, Owned
  <2> QED
    BY <2>2, <2>3, <2>4 DEF StopInv
<1>2. (IInv /\ OrderInv /\ StopInv) /\ [Next]_vars => (IInv /\ OrderInv /\ StopInv)'
  BY NextIInv, NextOrderInv, NextReaderInv, NextQuietInv, NextOwnedInv, NextEndInv DEF StopInv
<1>3. (IInv /\ OrderInv /\ StopInv) /\ [Next]_vars =>
          [Returns => /\ sock' = Invalid /\ ~ isConnect' /\ Owned' = {}
                      /\ \A r \in Readers : pc'[r] \in {"unborn", "done"}]_vars
  BY JoinIsClean
<1> QED
  BY <1>1, <1>2, <1>3, PTL DEF Spec, StopIsClean
=============================================================================
