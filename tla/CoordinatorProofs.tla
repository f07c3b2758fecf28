--------------------------- MODULE CoordinatorProofs ---------------------------
(****************************************************************************)
(* Proofs about Coordinator, for any number of clients, slots, descriptors, *)
(* reports, classes and loads, and whatever may be interrupted, fail or be  *)
(* reset.                                                                   *)
(****************************************************************************)
EXTENDS Coordinator, FiniteSetTheorems, TLAPS

(* While a report is handled, `slot` is the slot of a client's socket;        *)
(* `newfd` is set exactly while a node is being added.                        *)
Handling == mainPc \in {"updLock", "infoLock", "update", "notify"}

TypeInv ==
  /\ TypeOK
  /\ Handling => slot \in Slots /\ temp[slot] \in ClientFds
  /\ mainPc \in {"addLock", "adding"} <=> newfd # 0

(* The listening socket and no socket are different from every client's. *)
LEMMA FdsAreDistinct == 0 \notin ClientFds /\ ServerFd \notin ClientFds /\ ServerFd # 0
BY DEF ClientFds, ServerFd

(* The coordinator starts with the types of its state. *)
LEMMA TypeInit == Init => TypeInv
<1> SUFFICES ASSUME Init PROVE TypeInv
  OBVIOUS
<1> USE ConstantsAssumption DEF Init, ConnStates
<1>1. ~Handling
  BY DEF Handling
<1>2. process \in {"running", "exited", "killed"} /\ mainPc \in MainPcs
      /\ handlerPc \in {"off", "lock", "join"} /\ migPc \in MigPcs
  BY DEF MainPcs, MigPcs
<1>3. /\ sockfds \in [Slots -> {0, ServerFd} \cup ClientFds]
      /\ temp \in [Slots -> {0, ServerFd} \cup ClientFds]
      /\ slot \in 1..(NumSlots + 1)
  BY DEF Slots
<1>4. nodes \in Seq(NodeInfos) /\ backlog \in Seq(Clients) /\ net \in [Clients -> Seq(Messages)]
  OBVIOUS
<1>5. /\ conn \in [Clients -> ConnStates]
      /\ reports \in [Clients -> 0..MaxReports]
      /\ owner \in [ClientFds -> Clients \cup {Nobody}]
  OBVIOUS
<1>6. QED
  BY <1>1, <1>2, <1>3, <1>4, <1>5 DEF TypeInv, TypeOK

(* What select() reports are sockets of the table.                           *)
LEMMA ReadableType ==
  ASSUME TypeOK PROVE ReadableFds \subseteq ({ServerFd} \cup ClientFds)
BY FdsAreDistinct DEF TypeOK, ReadableFds, IsReadable

(* The least slot that is due is not behind the scan, and holds a client's socket. *)
LEMMA DueType ==
  ASSUME TypeOK, NEW i \in Slots, Least(Due, i)
  PROVE  i >= slot /\ temp[i] \in ClientFds
BY DEF TypeOK, Due, Least


(* A node that reported nothing uses nothing in any class. *)
LEMMA NoUsageType == NoUsage \in Usages
BY ConstantsAssumption DEF NoUsage, Usages

(* Reports, the average and the record they update.                          *)
LEMMA MessageType ==
  ASSUME NEW c \in Clients, NEW u \in Usages
  PROVE  PortMsg(c) \in Messages /\ LoadMsg(c, u) \in Messages
BY DEF Messages

(* A node record that is updated stays a record of the same descriptor. *)
LEMMA UpdatedType ==
  ASSUME NEW n \in NodeInfos, NEW m \in Messages \cup {Garbage}, NEW x \in Updated(n, m)
  PROVE  x \in NodeInfos /\ x.id = n.id
<1> USE DEF Updated, NodeInfos
<1>1. CASE m = Garbage
  BY <1>1 DEF Garbage
<1>2. ASSUME NEW c \in Clients, m = PortMsg(c) PROVE x \in NodeInfos /\ x.id = n.id
  BY <1>2 DEF PortMsg
<1>3. ASSUME NEW c \in Clients, NEW u \in Usages, m = LoadMsg(c, u)
      PROVE  x \in NodeInfos /\ x.id = n.id
  <2>1. Smoothed(n.usages, u) \subseteq Usages
    BY DEF Smoothed
  <2>2. x \in {[n EXCEPT !.usages = v] : v \in Smoothed(n.usages, u)}
    BY <1>3 DEF LoadMsg
  <2>3. QED
    BY <2>1, <2>2
<1>4. \/ m = Garbage
      \/ \E c \in Clients : m = PortMsg(c)
      \/ \E c \in Clients, u \in Usages : m = LoadMsg(c, u)
  BY DEF Messages
<1>5. QED
  BY <1>1, <1>2, <1>3, <1>4

(* Every step of a thread, node or the network keeps the types. *)
LEMMA TypeNext == TypeInv /\ [Next]_vars => TypeInv'
<1> SUFFICES ASSUME TypeInv, [Next]_vars PROVE TypeInv'
  OBVIOUS
<1> USE ConstantsAssumption, FdsAreDistinct
        DEF TypeInv, TypeOK, Handling, MainPcs, MigPcs, ConnStates, locks, locals, migVars, netVars
<1>1. ASSUME NEW c \in Clients, Connect(c), Environment PROVE TypeInv'
  BY <1>1 DEF Connect, Environment
<1>2. ASSUME NEW c \in Clients, Report(c), Environment PROVE TypeInv'
  <2>1. reports[c] + 1 \in 0..MaxReports
    BY <1>2 DEF Report
  <2>2. \E m \in Messages : net' = [net EXCEPT ![c] = Append(@, m)]
    <3>1. CASE net' = [net EXCEPT ![c] = Append(@, PortMsg(c))]
      BY <3>1, MessageType, NoUsageType
    <3>2. ASSUME NEW u \in Usages, net' = [net EXCEPT ![c] = Append(@, LoadMsg(c, u))]
          PROVE  \E m \in Messages : net' = [net EXCEPT ![c] = Append(@, m)]
      BY <3>2, MessageType
    <3>3. QED
      BY <1>2, <3>1, <3>2 DEF Report
  <2>3. net' \in [Clients -> Seq(Messages)]
    BY <2>2
  <2>4. reports' \in [Clients -> 0..MaxReports] /\ UNCHANGED <<owner, backlog, conn>>
    BY <1>2, <2>1 DEF Report
  <2>5. QED
    BY <1>2, <2>3, <2>4 DEF Environment
<1>3. ASSUME NEW c \in Clients, Leave(c), Environment PROVE TypeInv'
  BY <1>3 DEF Leave, Environment
<1>4. ASSUME NEW c \in Clients, Reset(c), Environment PROVE TypeInv'
  BY <1>4 DEF Reset, Environment
<1>5. CASE CopySockets
  BY <1>5 DEF CopySockets
<1>6. CASE Select
  BY <1>6, ReadableType DEF Select
<1>7. CASE AcceptConn
  <2>1. Head(backlog) \in Clients /\ Tail(backlog) \in Seq(Clients)
    BY <1>7 DEF AcceptConn
  <2>2. PICK fd \in ClientFds :
          /\ owner' = [owner EXCEPT ![fd] = Head(backlog)]
          /\ newfd' = fd
          /\ StoreSocket(fd)
    BY <1>7 DEF AcceptConn
  <2>3. sockfds' \in [Slots -> {0, ServerFd} \cup ClientFds]
    BY <2>2 DEF StoreSocket
  <2>4. owner' \in [ClientFds -> Clients \cup {Nobody}]
    BY <2>1, <2>2
  <2>5. QED
    BY <1>7, <2>1, <2>2, <2>3, <2>4 DEF AcceptConn
<1>8. CASE AcceptError
  <2>1. CASE UNCHANGED <<backlog, conn>>
    BY <1>8, <2>1 DEF AcceptError
  <2>2. CASE /\ backlog # <<>>
             /\ conn' = [conn EXCEPT ![Head(backlog)] = "closed"]
             /\ backlog' = Tail(backlog)
    <3>1. Tail(backlog) \in Seq(Clients)
      BY <2>2
    <3>2. conn' \in [Clients -> ConnStates]
      BY <2>2
    <3>3. QED
      BY <1>8, <2>2, <3>1, <3>2 DEF AcceptError
  <2>3. QED
    BY <1>8, <2>1, <2>2 DEF AcceptError
<1>9. CASE AddNodeLock
  BY <1>9 DEF AddNodeLock
<1>10. CASE AddNode
  <2>1. newfd \in ClientFds
    BY <1>10 DEF AddNode
  <2>2. [id |-> newfd, usages |-> NoUsage, port |-> Nobody] \in NodeInfos
    BY <2>1, NoUsageType DEF NodeInfos
  <2>3. nodes' \in Seq(NodeInfos)
    BY <1>10, <2>2 DEF AddNode
  <2>4. QED
    BY <1>10, <2>3 DEF AddNode
<1>11. CASE EndScan
  BY <1>11 DEF EndScan, Slots
<1>12. CASE ReadReport
  <2>1. PICK i \in Slots, c \in Clients :
          /\ Least(Due, i) /\ owner[temp[i]] = c
          /\ net[c] # <<>>
          /\ msg' = Head(net[c])
          /\ \E k \in 1..Len(net[c]) : net' = [net EXCEPT ![c] = SubSeq(@, k + 1, Len(@))]
          /\ slot' = i
    BY <1>12 DEF ReadReport
  <2>2. temp[i] \in ClientFds
    BY <2>1, DueType
  <2>3. net[c] \in Seq(Messages) /\ msg' \in Messages
    BY <2>1
  <2>4. \A k \in 1..Len(net[c]) : SubSeq(net[c], k + 1, Len(net[c])) \in Seq(Messages)
    BY <2>3
  <2>5. net' \in [Clients -> Seq(Messages)]
    BY <2>1, <2>4
  <2>6. /\ mainPc = "scan" /\ mainPc' = "updLock"
        /\ UNCHANGED <<process, handlerPc, migPc, locks, isUpdateReady, bStop, sockfds,
                       temp, ready, newfd, nodes, migVars, owner, backlog, conn, reports>>
    BY <1>12 DEF ReadReport
  <2>7. slot' \in Slots /\ temp'[slot'] \in ClientFds
    BY <2>1, <2>2, <2>6
  <2>8. slot' \in 1..(NumSlots + 1)
    BY <2>7 DEF Slots
  <2>9. TypeOK'
    BY <2>3, <2>5, <2>6, <2>8
  <2>10. QED
    BY <2>6, <2>7, <2>9
<1>13. CASE ReadError
  <2>1. PICK i \in Slots, c \in Clients :
          /\ Least(Due, i)
          /\ conn' = [conn EXCEPT ![c] = "dead"]
          /\ slot' = i
    BY <1>13 DEF ReadError
  <2>2. temp[i] \in ClientFds
    BY <2>1, DueType
  <2>3. QED
    <3>1. slot' \in 1..(NumSlots + 1) /\ slot' \in Slots
      BY <2>1 DEF Slots
    <3>2. QED
      BY <1>13, <2>1, <2>2, <3>1 DEF ReadError
<1>14. CASE ReadEnd
  <2>1. PICK i \in Slots, c \in Clients :
          /\ Least(Due, i) /\ owner[temp[i]] = c
          /\ slot' = i + 1
          /\ \/ /\ sockfds' = WithoutSocket(i)
                /\ owner' = [owner EXCEPT ![temp[i]] = Nobody]
                /\ conn' = [conn EXCEPT ![c] = "closed"]
             \/ UNCHANGED <<sockfds, owner, conn>>
    BY <1>14 DEF ReadEnd
  <2>2. slot' \in 1..(NumSlots + 1)
    BY <2>1 DEF Slots
  <2>3. /\ sockfds' \in [Slots -> {0, ServerFd} \cup ClientFds]
        /\ owner' \in [ClientFds -> Clients \cup {Nobody}]
        /\ conn' \in [Clients -> ConnStates]
    BY <2>1 DEF WithoutSocket
  <2>4. QED
    BY <1>14, <2>2, <2>3 DEF ReadEnd
<1>15. CASE UpdateLock
  BY <1>15 DEF UpdateLock
<1>16. CASE InfoLock
  BY <1>16 DEF InfoLock
<1>17. CASE UpdateNodeInfo
  <2>1. ASSUME NEW i \in DOMAIN nodes, NEW n \in Updated(nodes[i], msg),
               nodes' = [nodes EXCEPT ![i] = n]
        PROVE  nodes' \in Seq(NodeInfos)
    BY <2>1, UpdatedType
  <2>2. nodes' \in Seq(NodeInfos)
    <3>1. UNCHANGED nodes \/ \E i \in DOMAIN nodes : \E n \in Updated(nodes[i], msg) :
                                nodes' = [nodes EXCEPT ![i] = n]
      BY <1>17 DEF UpdateNodeInfo
    <3>2. QED
      BY <2>1, <3>1
  <2>3. QED
    BY <1>17, <2>2 DEF UpdateNodeInfo
<1>18. CASE NotifyUpdate
  BY <1>18 DEF NotifyUpdate, Signalled, Slots
<1>19. CASE StopLock
  BY <1>19 DEF StopLock
<1>20. CASE StopSignal
  BY <1>20 DEF StopSignal, Signalled
<1>21. CASE StopJoin
  BY <1>21 DEF StopJoin
<1>22. CASE LoopError
  BY <1>22 DEF LoopError, SelectError
<1>23. CASE Interrupt
  BY <1>23 DEF Interrupt
<1>24. CASE HandlerStop
  BY <1>24 DEF HandlerStop, Signalled
<1>25. CASE HandlerJoin
  BY <1>25 DEF HandlerJoin
<1>26. CASE MigLock
  BY <1>26 DEF MigLock
<1>27. CASE MigCheck
  BY <1>27 DEF MigCheck
<1>28. CASE MigWoken
  <2>1. CASE UpdateSeen
    <3>1. isUpdateReady' = FALSE /\ migPc' = "sleep" /\ UNCHANGED updMutex
      BY <1>28, <2>1, Zenon DEF MigWoken
    <3>2. isUpdateReady' \in BOOLEAN
      BY <3>1, Zenon
    <3>3. QED
      BY <1>28, <3>1, <3>2 DEF MigWoken
  <2>2. CASE ~UpdateSeen
    BY <1>28, <2>2 DEF MigWoken
  <2>3. QED
    BY <2>1, <2>2
<1>29. CASE MigSleep
  BY <1>29 DEF MigSleep
<1>30. CASE RedistributeLock
  BY <1>30 DEF RedistributeLock
<1>31. CASE Redistribute
  <2>1. PICK max, min \in DOMAIN nodes :
          decision' \in {{}, {[src |-> nodes[max].id, dst |-> nodes[min].id,
                               meant |-> owner[nodes[max].id],
                               addr |-> owner[nodes[min].id],
                               port |-> nodes[min].port]}}
    BY <1>31 DEF Redistribute
  <2>2. nodes[max] \in NodeInfos /\ nodes[min] \in NodeInfos
    OBVIOUS
  <2>3. decision' \in SUBSET Decisions
    BY <2>1, <2>2 DEF Decisions, NodeInfos
  <2>4. QED
    BY <1>31, <2>3 DEF Redistribute
<1>32. CASE SendDecision
  <2>1. /\ process' \in {"running", "exited", "killed"}
        /\ conn' \in [Clients -> ConnStates]
        /\ sent' \in SUBSET [to : Clients \cup {Nobody}, d : Decisions]
        /\ count' \in {0, 1}
    <3>1. CASE UNCHANGED <<process, conn, sent, count>>
      BY <3>1
    <3>2. ASSUME NEW d \in decision, Write(d), count = 0, count' = count + 1
          PROVE  /\ process' \in {"running", "exited", "killed"}
                 /\ conn' \in [Clients -> ConnStates]
                 /\ sent' \in SUBSET [to : Clients \cup {Nobody}, d : Decisions]
                 /\ count' \in {0, 1}
      <4>1. count' = 1
        BY <3>2
      <4>2. d \in Decisions /\ d.src \in ClientFds
        BY DEF Decisions
      <4>3. owner[d.src] \in Clients \cup {Nobody}
        BY <4>2
      <4>4. [to |-> owner[d.src], d |-> d] \in [to : Clients \cup {Nobody}, d : Decisions]
        BY <4>2, <4>3
      <4>5. /\ process' \in {"running", "exited", "killed"}
            /\ conn' \in [Clients -> ConnStates]
        BY <3>2, <4>3 DEF Write
      <4>6. sent' = sent \/ sent' = sent \cup {[to |-> owner[d.src], d |-> d]}
        BY <3>2 DEF Write
      <4>7. QED
        BY <4>1, <4>4, <4>5, <4>6
    <3>3. QED
      BY <1>32, <3>1, <3>2 DEF SendDecision
  <2>2. QED
    BY <1>32, <2>1 DEF SendDecision
<1>33. CASE Spurious
  BY <1>33 DEF Spurious, SpuriousWakeup
<1>34. CASE UNCHANGED vars
  BY <1>34 DEF vars
<1>35. QED
  BY <1>1, <1>2, <1>3, <1>4, <1>5, <1>6, <1>7, <1>8, <1>9, <1>10, <1>11, <1>12, <1>13,
     <1>14, <1>15, <1>16, <1>17, <1>18, <1>19, <1>20, <1>21, <1>22, <1>23, <1>24,
     <1>25, <1>26, <1>27, <1>28, <1>29, <1>30, <1>31, <1>32, <1>33, <1>34 DEF Next,
     Main, Handler, Mig, Ended, Environment

(* Every variable keeps its type, whatever the threads, the clients and the  *)
(* user do.                                                                  *)
THEOREM TypeCorrect == Spec => []TypeOK
<1>1. TypeInv => TypeOK
  BY DEF TypeInv
<1>2. QED
  BY <1>1, TypeInit, TypeNext, PTL DEF Spec

-----------------------------------------------------------------------------
(* Who holds which mutex is where.                                           *)
LockInv ==
  /\ updMutex = "main" <=> mainPc \in {"infoLock", "update", "notify", "stopping"}
  /\ updMutex = "mig" <=> migPc = "check"
  /\ infoMutex = "main" <=> mainPc \in {"adding", "update"}
  /\ infoMutex = "mig" <=> migPc = "deciding"

(* Every step keeps who holds which mutex at which point of its code. *)
LEMMA LockNext == TypeInv /\ LockInv /\ [Next]_vars => LockInv'
<1> SUFFICES ASSUME TypeInv, LockInv, [Next]_vars PROVE LockInv'
  OBVIOUS
<1> USE DEF LockInv, locks
<1>1. CASE Environment
  BY <1>1 DEF Environment, Connect, Report, Leave, Reset
<1>2. CASE CopySockets
  BY <1>2 DEF CopySockets
<1>3. CASE Select
  BY <1>3 DEF Select
<1>4. CASE AcceptConn
  BY <1>4 DEF AcceptConn
<1>5. CASE AcceptError
  BY <1>5 DEF AcceptError
<1>6. CASE AddNodeLock
  BY <1>6 DEF AddNodeLock, InfoMutexFree
<1>7. CASE AddNode
  BY <1>7 DEF AddNode
<1>8. CASE EndScan
  BY <1>8 DEF EndScan
<1>9. CASE ReadReport
  BY <1>9 DEF ReadReport
<1>10. CASE ReadError
  BY <1>10 DEF ReadError
<1>11. CASE ReadEnd
  BY <1>11 DEF ReadEnd
<1>12. CASE UpdateLock
  BY <1>12 DEF UpdateLock
<1>13. CASE InfoLock
  BY <1>13 DEF InfoLock, InfoMutexFree
<1>14. CASE UpdateNodeInfo
  BY <1>14 DEF UpdateNodeInfo
<1>15. CASE NotifyUpdate
  BY <1>15 DEF NotifyUpdate, Signalled
<1>16. CASE StopLock
  BY <1>16 DEF StopLock
<1>17. CASE StopSignal
  BY <1>17 DEF StopSignal, Signalled
<1>18. CASE StopJoin
  BY <1>18 DEF StopJoin
<1>19. CASE LoopError
  BY <1>19 DEF LoopError, SelectError
<1>20. CASE Interrupt
  BY <1>20 DEF Interrupt
<1>21. CASE HandlerStop
  BY <1>21 DEF HandlerStop, Signalled
<1>22. CASE HandlerJoin
  BY <1>22 DEF HandlerJoin
<1>23. CASE MigLock
  BY <1>23 DEF MigLock
<1>24. CASE MigCheck
  BY <1>24 DEF MigCheck
<1>25. CASE MigWoken
  BY <1>25 DEF MigWoken
<1>26. CASE MigSleep
  BY <1>26 DEF MigSleep
<1>27. CASE RedistributeLock
  BY <1>27 DEF RedistributeLock, InfoMutexFree
<1>28. CASE Redistribute
  BY <1>28 DEF Redistribute
<1>29. CASE SendDecision
  BY <1>29 DEF SendDecision
<1>30. CASE Spurious
  BY <1>30 DEF Spurious, SpuriousWakeup
<1>31. CASE UNCHANGED vars
  BY <1>31 DEF vars
<1>32. QED
  BY <1>1, <1>2, <1>3, <1>4, <1>5, <1>6, <1>7, <1>8, <1>9, <1>10, <1>11, <1>12, <1>13,
     <1>14, <1>15, <1>16, <1>17, <1>18, <1>19, <1>20, <1>21, <1>22, <1>23, <1>24,
     <1>25, <1>26, <1>27, <1>28, <1>29, <1>30, <1>31 DEF Next, Main, Handler, Mig, Ended

-----------------------------------------------------------------------------
(* What the list of nodes knows: every monitored socket, every socket of the *)
(* copy that is being scanned, and one node at least once a report was read. *)
NodeInv ==
  /\ UniqueNodes
  /\ MonitoredKnown
  /\ \A i \in Slots : temp[i] \in ClientFds => Known(temp[i])
  /\ isUpdateReady => nodes # <<>>
  /\ DecidesOnSomeNode

(* Which actions change what.                                                *)
LEMMA NodesWriters == [Next]_vars => UNCHANGED nodes \/ AddNode \/ UpdateNodeInfo
BY DEF Next, vars, netVars, migVars, locals, locks, Main, LoopError, Handler, Mig, Ended,
       Environment, CopySockets, Select, SelectError, AcceptConn, AcceptError,
       AddNodeLock, EndScan, ReadReport, ReadError, ReadEnd, UpdateLock, InfoLock,
       NotifyUpdate, StopLock, StopSignal, StopJoin, Interrupt, HandlerStop, HandlerJoin,
       MigLock, MigCheck, MigWoken, MigSleep, RedistributeLock, Redistribute,
       SendDecision, Spurious, SpuriousWakeup

(* Only accepting and closing a connection write the table of sockets. *)
LEMMA SocketWriters == [Next]_vars => 
  UNCHANGED <<sockfds, newfd>> \/ AcceptConn \/ AddNode \/ ReadEnd
BY DEF Next, vars, netVars, migVars, locals, locks, Main, LoopError, Handler, Mig, Ended,
       Environment, CopySockets, Select, SelectError, AcceptError, AddNodeLock, EndScan,
       ReadReport, ReadError, UpdateLock, InfoLock, UpdateNodeInfo, NotifyUpdate,
       StopLock, StopSignal, StopJoin, Interrupt, HandlerStop, HandlerJoin, MigLock,
       MigCheck, MigWoken, MigSleep, RedistributeLock, Redistribute, SendDecision,
       Spurious, SpuriousWakeup

(* Only the copy of the table and the end of a scan write the copy. *)
LEMMA TempWriters == [Next]_vars => UNCHANGED temp \/ CopySockets \/ EndScan
BY DEF Next, vars, netVars, migVars, locals, locks, Main, LoopError, Handler, Mig, Ended,
       Environment, Select, SelectError, AcceptConn, AcceptError, AddNodeLock, AddNode,
       ReadReport, ReadError, ReadEnd, UpdateLock, InfoLock, UpdateNodeInfo,
       NotifyUpdate, StopLock, StopSignal, StopJoin, Interrupt, HandlerStop, HandlerJoin,
       MigLock, MigCheck, MigWoken, MigSleep, RedistributeLock, Redistribute,
       SendDecision, Spurious, SpuriousWakeup

(* Only a report that was handled sets isUpdateReady. *)
LEMMA UpdateWriters == [Next]_vars => 
  (isUpdateReady' => isUpdateReady) \/ NotifyUpdate
BY DEF Next, vars, netVars, migVars, locals, locks, Main, LoopError, Handler, Mig, Ended,
       Environment, CopySockets, Select, SelectError, AcceptConn, AcceptError,
       AddNodeLock, AddNode, EndScan, ReadReport, ReadError, ReadEnd, UpdateLock,
       InfoLock, UpdateNodeInfo, StopLock, StopSignal, StopJoin, Interrupt, HandlerStop,
       HandlerJoin, MigLock, MigCheck, MigWoken, MigSleep, RedistributeLock,
       Redistribute, SendDecision, Spurious, SpuriousWakeup

(* A round of migration begins when the waiting thread gets its mutex back. *)
LEMMA RoundStarts == [Next]_vars => 
  (migPc' \in {"sleep", "redistribute", "deciding"}
     => migPc \in {"sleep", "redistribute", "deciding"}) \/ MigWoken
BY DEF Next, vars, netVars, migVars, locals, locks, Main, LoopError, Handler, Mig, Ended,
       Environment, CopySockets, Select, SelectError, AcceptConn, AcceptError,
       AddNodeLock, AddNode, EndScan, ReadReport, ReadError, ReadEnd, UpdateLock,
       InfoLock, UpdateNodeInfo, NotifyUpdate, StopLock, StopSignal, StopJoin, Interrupt,
       HandlerStop, HandlerJoin, MigLock, MigCheck, MigSleep, RedistributeLock,
       Redistribute, SendDecision, Spurious, SpuriousWakeup, Signalled

(* Nodes are added, and updated in place, never removed or renamed.          *)
LEMMA NodesKept ==
  ASSUME TypeInv, [Next]_vars
  PROVE  /\ \A i \in DOMAIN nodes : i \in DOMAIN nodes' /\ nodes'[i].id = nodes[i].id
         /\ \A f \in ClientFds : Known(f) => Known(f)'
         /\ nodes # <<>> => nodes' # <<>>
<1>1. \A i \in DOMAIN nodes : i \in DOMAIN nodes' /\ nodes'[i].id = nodes[i].id
  <2>1. CASE UNCHANGED nodes
    BY <2>1
  <2>2. CASE AddNode
    BY <2>2 DEF AddNode, TypeInv, TypeOK
  <2>3. CASE UpdateNodeInfo
    <3>1. ASSUME NEW j \in DOMAIN nodes, NEW n \in Updated(nodes[j], msg),
                 nodes' = [nodes EXCEPT ![j] = n]
          PROVE  \A i \in DOMAIN nodes : i \in DOMAIN nodes' /\ nodes'[i].id = nodes[i].id
      BY <3>1, UpdatedType DEF TypeInv, TypeOK
    <3>2. QED
      BY <2>1, <2>3, <3>1 DEF UpdateNodeInfo
  <2>4. QED
    BY <2>1, <2>2, <2>3, NodesWriters
<1>2. nodes # <<>> => nodes' # <<>>
  <2>1. SUFFICES ASSUME nodes # <<>> PROVE nodes' # <<>>
    OBVIOUS
  <2>2. 1 \in DOMAIN nodes
    BY <2>1 DEF TypeInv, TypeOK
  <2>3. 1 \in DOMAIN nodes'
    BY <1>1, <2>2
  <2>4. QED
    BY <2>3
<1>3. QED
  BY <1>1, <1>2 DEF Known

(* Every step leaves one node record for a descriptor. *)
LEMMA UniqueNext == TypeInv /\ UniqueNodes /\ [Next]_vars => UniqueNodes'
<1> SUFFICES ASSUME TypeInv, UniqueNodes, [Next]_vars PROVE UniqueNodes'
  OBVIOUS
<1>1. CASE UNCHANGED nodes
  BY <1>1 DEF UniqueNodes
<1>2. CASE AddNode
  <2>1. CASE Known(newfd)
    BY <1>2, <2>1 DEF AddNode, UniqueNodes
  <2>2. CASE ~Known(newfd)
    <3>1. nodes' = Append(nodes, [id |-> newfd, usages |-> NoUsage, port |-> Nobody])
      BY <1>2, <2>2 DEF AddNode
    <3>2. \A i \in DOMAIN nodes : nodes[i].id # newfd
      BY <2>2 DEF Known
    <3>3. QED
      BY <3>1, <3>2 DEF UniqueNodes, TypeInv, TypeOK
  <2>3. QED
    BY <2>1, <2>2
<1>3. CASE UpdateNodeInfo
  <2>1. ASSUME NEW i \in DOMAIN nodes, NEW n \in Updated(nodes[i], msg),
               nodes' = [nodes EXCEPT ![i] = n]
        PROVE  DOMAIN nodes' = DOMAIN nodes
    BY <2>1
  <2>2. DOMAIN nodes' = DOMAIN nodes
    BY <1>3, <2>1 DEF UpdateNodeInfo
  <2>3. \A i \in DOMAIN nodes : nodes'[i].id = nodes[i].id
    BY NodesKept
  <2>4. QED
    BY <2>2, <2>3 DEF UniqueNodes
<1>4. QED
  BY <1>1, <1>2, <1>3, NodesWriters

(* A round begins only after a report, which is handled for a known socket.  *)
LEMMA NodeNext == TypeInv /\ NodeInv /\ [Next]_vars => NodeInv'
<1> SUFFICES ASSUME TypeInv, NodeInv, [Next]_vars PROVE NodeInv'
  OBVIOUS
<1>1. UniqueNodes'
  BY UniqueNext DEF NodeInv
<1>2. MonitoredKnown'
  <2>1. CASE UNCHANGED <<sockfds, newfd>>
    BY <2>1, NodesKept DEF NodeInv, MonitoredKnown, TypeInv, TypeOK
  <2>2. CASE AcceptConn
    <3>1. newfd = 0
      BY <2>2 DEF AcceptConn, TypeInv, TypeOK
    <3>2. UNCHANGED nodes
      BY <2>2 DEF AcceptConn
    <3>3. \A i \in Slots : sockfds'[i] = sockfds[i] \/ sockfds'[i] = newfd'
      BY <2>2 DEF AcceptConn, StoreSocket, TypeInv, TypeOK
    <3>4. QED
      BY <3>1, <3>2, <3>3, FdsAreDistinct DEF NodeInv, MonitoredKnown, Known
  <2>3. CASE AddNode
    <3>1. UNCHANGED sockfds
      BY <2>3 DEF AddNode
    <3>2. newfd \in ClientFds
      BY <2>3 DEF AddNode, TypeInv, TypeOK
    <3>3. \E i \in DOMAIN nodes' : nodes'[i].id = newfd
      <4>1. CASE Known(newfd)
        BY <2>3, <4>1 DEF AddNode, Known
      <4>2. CASE ~Known(newfd)
        <5>1. nodes' = Append(nodes, [id |-> newfd, usages |-> NoUsage, port |-> Nobody])
          BY <2>3, <4>2 DEF AddNode
        <5>2. nodes'[Len(nodes) + 1].id = newfd /\ Len(nodes) + 1 \in DOMAIN nodes'
          BY <5>1 DEF TypeInv, TypeOK
        <5>3. QED
          BY <5>2
      <4>3. QED
        BY <4>1, <4>2
    <3>4. QED
      BY <3>1, <3>3, NodesKept DEF NodeInv, MonitoredKnown, Known
  <2>4. CASE ReadEnd
    <3>1. UNCHANGED <<nodes, newfd>>
      BY <2>4 DEF ReadEnd
    <3>2. \A i \in Slots : sockfds'[i] = sockfds[i] \/ sockfds'[i] = 0
      BY <2>4 DEF ReadEnd, WithoutSocket, TypeInv, TypeOK
    <3>3. QED
      BY <3>1, <3>2, FdsAreDistinct DEF NodeInv, MonitoredKnown, Known
  <2>5. QED
    BY <2>1, <2>2, <2>3, <2>4, SocketWriters
<1>3. \A i \in Slots : temp'[i] \in ClientFds => Known(temp[i])'
  <2>1. CASE UNCHANGED temp
    BY <2>1, NodesKept DEF NodeInv
  <2>2. CASE CopySockets
    <3>1. newfd = 0
      BY <2>2 DEF CopySockets, TypeInv, TypeOK
    <3>2. temp' = sockfds /\ UNCHANGED nodes
      BY <2>2 DEF CopySockets
    <3>3. QED
      BY <3>1, <3>2, FdsAreDistinct DEF NodeInv, MonitoredKnown, Known
  <2>3. CASE EndScan
    BY <2>3, FdsAreDistinct DEF EndScan
  <2>4. QED
    BY <2>1, <2>2, <2>3, TempWriters
<1>4. (isUpdateReady => nodes # <<>>)'
  <2>1. CASE isUpdateReady' => isUpdateReady
    BY <2>1, NodesKept DEF NodeInv
  <2>2. CASE NotifyUpdate
    <3>1. slot \in Slots /\ temp[slot] \in ClientFds
      BY <2>2 DEF NotifyUpdate, TypeInv, Handling
    <3>2. nodes # <<>>
      BY <3>1 DEF NodeInv, Known, TypeInv, TypeOK
    <3>3. QED
      BY <3>2, NodesKept
  <2>3. QED
    BY <2>1, <2>2, UpdateWriters
<1>5. DecidesOnSomeNode'
  <2>1. CASE migPc' \in {"sleep", "redistribute", "deciding"}
             => migPc \in {"sleep", "redistribute", "deciding"}
    BY <2>1, NodesKept DEF NodeInv, DecidesOnSomeNode
  <2>2. CASE MigWoken
    <3>1. migPc' = "sleep" => isUpdateReady
      BY <2>2 DEF MigWoken, UpdateSeen
    <3>2. migPc' \in {"sleep", "check"}
      BY <2>2 DEF MigWoken
    <3>3. QED
      BY <3>1, <3>2, NodesKept DEF NodeInv, DecidesOnSomeNode
  <2>3. QED
    BY <2>1, <2>2, RoundStarts
<1>6. QED
  BY <1>1, <1>2, <1>3, <1>4, <1>5 DEF NodeInv

-----------------------------------------------------------------------------
(* The table of sockets, and the part of the copy still to be scanned.       *)
SocketInv ==
  /\ MonitoredOpen
  /\ mainPc # "copy" =>
        \A i \in Slots : i >= slot /\ temp[i] \in ClientFds => sockfds[i] = temp[i]

(* Only accepting and closing a connection change who owns a descriptor. *)
LEMMA TableWriters == [Next]_vars => UNCHANGED <<sockfds, owner>> \/ AcceptConn \/ ReadEnd
<1>1. [Next]_vars => UNCHANGED sockfds \/ AcceptConn \/ ReadEnd
  BY SocketWriters DEF AddNode
<1>2. [Next]_vars => UNCHANGED owner \/ AcceptConn \/ ReadEnd
  BY DEF Next, vars, netVars, Main, LoopError, Handler, Mig, Ended,
       Environment, Connect, Report, Leave, Reset, CopySockets, Select, SelectError,
       AcceptError, AddNodeLock, AddNode,
       EndScan, ReadReport, ReadError, UpdateLock, InfoLock, UpdateNodeInfo,
       NotifyUpdate, StopLock, StopSignal, StopJoin, Interrupt, HandlerStop, HandlerJoin,
       MigLock, MigCheck, MigWoken, MigSleep, RedistributeLock, Redistribute,
       SendDecision, Spurious, SpuriousWakeup
<1>3. QED
  BY <1>1, <1>2

(* Every step leaves the monitored sockets open. *)
LEMMA OpenNext == TypeInv /\ SocketInv /\ [Next]_vars => MonitoredOpen'
<1> SUFFICES ASSUME TypeInv, SocketInv, [Next]_vars PROVE MonitoredOpen'
  OBVIOUS
<1>1. CASE UNCHANGED <<sockfds, owner>>
  BY <1>1 DEF SocketInv, MonitoredOpen
<1>2. CASE AcceptConn
  <2>1. PICK fd \in ClientFds :
          /\ owner[fd] = Nobody
          /\ owner' = [owner EXCEPT ![fd] = Head(backlog)]
          /\ StoreSocket(fd)
    BY <1>2 DEF AcceptConn, Least, FreeFds
  <2>2. Head(backlog) \in Clients /\ Head(backlog) # Nobody
    BY <1>2, ConstantsAssumption DEF AcceptConn, TypeInv, TypeOK
  <2>3. \A i \in Slots : sockfds[i] # fd
    BY <2>1 DEF SocketInv, MonitoredOpen
  <2>4. \A f \in ClientFds : owner[f] # Nobody => owner'[f] # Nobody
    BY <2>1, <2>2 DEF TypeInv, TypeOK
  <2>5. owner'[fd] # Nobody
    BY <2>1, <2>2 DEF TypeInv, TypeOK
  <2>6. CASE UNCHANGED sockfds
    BY <2>4, <2>6 DEF SocketInv, MonitoredOpen
  <2>7. ASSUME NEW s \in Slots, sockfds' = [sockfds EXCEPT ![s] = fd]
        PROVE  MonitoredOpen'
    BY <2>3, <2>4, <2>5, <2>7 DEF SocketInv, MonitoredOpen, TypeInv, TypeOK
  <2>8. QED
    BY <2>1, <2>6, <2>7 DEF StoreSocket
<1>3. CASE ReadEnd
  <2>1. CASE UNCHANGED <<sockfds, owner>>
    BY <2>1 DEF SocketInv, MonitoredOpen
  <2>2. ASSUME NEW i \in Slots, sockfds[i] = temp[i], sockfds' = WithoutSocket(i),
               owner' = [owner EXCEPT ![temp[i]] = Nobody], temp[i] \in ClientFds
        PROVE  MonitoredOpen'
    <3>1. \A j \in Slots : j # i => sockfds'[j] = sockfds[j]
      BY <2>2 DEF WithoutSocket, TypeInv, TypeOK
    <3>2. sockfds'[i] \notin ClientFds
      BY <2>2, FdsAreDistinct DEF WithoutSocket, TypeInv, TypeOK
    <3>3. \A j \in Slots : j # i /\ sockfds[j] \in ClientFds => sockfds[j] # temp[i]
      BY <2>2 DEF SocketInv, MonitoredOpen
    <3>4. \A j \in Slots : j # i /\ sockfds[j] \in ClientFds => owner'[sockfds[j]] # Nobody
      BY <2>2, <3>3 DEF SocketInv, MonitoredOpen, TypeInv, TypeOK
    <3>5. QED
      BY <3>1, <3>2, <3>4 DEF SocketInv, MonitoredOpen
  <2>3. QED
    BY <1>3, <2>1, <2>2, DueType DEF ReadEnd, TypeInv
<1>4. QED
  BY <1>1, <1>2, <1>3, TableWriters

(* The steps after which the copy may differ from the table. *)
LEMMA ScanWriters == [Next]_vars => 
  \/ UNCHANGED <<sockfds, temp>> /\ (mainPc' # "copy" => mainPc # "copy")
  \/ CopySockets \/ EndScan \/ AcceptConn \/ ReadEnd
BY DEF Next, vars, netVars, migVars, locals, locks, Main, LoopError, Handler, Mig, Ended,
       Environment, Select, SelectError, AcceptError, AddNodeLock, AddNode, ReadReport,
       ReadError, UpdateLock, InfoLock, UpdateNodeInfo, NotifyUpdate, StopLock,
       StopSignal, StopJoin, Interrupt, HandlerStop, HandlerJoin, MigLock, MigCheck,
       MigWoken, MigSleep, RedistributeLock, Redistribute, SendDecision, Spurious,
       SpuriousWakeup

(* The steps that move the scan. *)
LEMMA SlotWriters == [Next]_vars =>
  UNCHANGED slot \/ EndScan \/ ReadReport \/ ReadError \/ ReadEnd \/ NotifyUpdate
BY DEF Next, vars, netVars, migVars, locals, locks, Main, LoopError, Handler, Mig, Ended,
       Environment, CopySockets, Select, SelectError, AcceptConn, AcceptError,
       AddNodeLock, AddNode, UpdateLock, InfoLock, UpdateNodeInfo, StopLock, StopSignal,
       StopJoin, Interrupt, HandlerStop, HandlerJoin, MigLock, MigCheck, MigWoken,
       MigSleep, RedistributeLock, Redistribute, SendDecision, Spurious, SpuriousWakeup

(* The scan goes forward only, until it ends. *)
LEMMA SlotAdvances ==
  ASSUME TypeInv, [Next]_vars
  PROVE  slot' >= slot \/ EndScan
<1>0. slot \in Nat
  BY ConstantsAssumption DEF TypeInv, TypeOK
<1>1. CASE UNCHANGED slot
  BY <1>0, <1>1
<1>2. CASE NotifyUpdate
  BY <1>0, <1>2 DEF NotifyUpdate
<1>3. ASSUME NEW i \in Slots, Least(Due, i), slot' \in {i, i + 1}
      PROVE  slot' >= slot
  BY <1>0, <1>3 DEF Least, Due, Slots
<1>4. QED
  BY <1>1, <1>2, <1>3, SlotWriters DEF ReadReport, ReadError, ReadEnd

(* Every step keeps the table, its copy and the open sockets in agreement. *)
LEMMA SocketNext == TypeInv /\ SocketInv /\ [Next]_vars => SocketInv'
<1> SUFFICES ASSUME TypeInv, SocketInv, [Next]_vars PROVE SocketInv'
  OBVIOUS
<1> DEFINE Unscanned == \A i \in Slots : i >= slot /\ temp[i] \in ClientFds => sockfds[i] = temp[i]
<1>1. MonitoredOpen'
  BY OpenNext
<1>2. (mainPc # "copy" => Unscanned)'
  <2>1. CASE /\ UNCHANGED <<sockfds, temp>>
             /\ slot' >= slot
             /\ mainPc' # "copy" => mainPc # "copy"
    <3>1. slot \in Nat /\ slot' \in Nat
      BY TypeNext, ConstantsAssumption DEF TypeInv, TypeOK
    <3>2. \A i \in Slots : i >= slot' => i >= slot
      BY <2>1, <3>1 DEF Slots
    <3>3. QED
      BY <2>1, <3>2 DEF SocketInv
  <2>2. CASE CopySockets
    BY <2>2 DEF CopySockets
  <2>3. CASE EndScan
    BY <2>3 DEF EndScan
  <2>4. CASE AcceptConn
    <3>1. UNCHANGED <<temp, slot>> /\ mainPc = "accept"
      BY <2>4 DEF AcceptConn
    <3>2. CASE UNCHANGED sockfds
      BY <3>1, <3>2 DEF SocketInv
    <3>3. ASSUME NEW s \in Slots, NEW fd \in ClientFds, sockfds[s] = 0,
                 sockfds' = [sockfds EXCEPT ![s] = fd]
          PROVE  Unscanned'
      <4>1. \A i \in Slots : i # s => sockfds'[i] = sockfds[i]
        BY <3>3 DEF TypeInv, TypeOK
      <4>2. s >= slot => temp[s] \notin ClientFds
        BY <3>1, <3>3, FdsAreDistinct DEF SocketInv
      <4>3. QED
        BY <3>1, <4>1, <4>2 DEF SocketInv
    <3>4. QED
      BY <2>4, <3>2, <3>3 DEF AcceptConn, StoreSocket, Least, FreeSlots
  <2>5. CASE ReadEnd
    <3>1. PICK i \in Slots : i >= slot /\ slot' = i + 1
                             /\ \A j \in Slots : j # i => sockfds'[j] = sockfds[j]
      BY <2>5, DueType DEF ReadEnd, WithoutSocket, TypeInv, TypeOK
    <3>2. UNCHANGED temp /\ mainPc = "scan"
      BY <2>5 DEF ReadEnd
    <3>3. \A j \in Slots : j >= slot' => j >= slot /\ j # i
      BY <3>1 DEF TypeInv, TypeOK, Slots
    <3>4. QED
      BY <3>1, <3>2, <3>3 DEF SocketInv
  <2>6. QED
    BY <2>1, <2>2, <2>3, <2>4, <2>5, ScanWriters, SlotAdvances
<1>3. QED
  BY <1>1, <1>2 DEF SocketInv

(* What is left to scan agrees with the table, so what is read is monitored. *)
LEMMA Scanned == TypeInv /\ SocketInv => SnapshotCurrent
<1> SUFFICES ASSUME TypeInv, SocketInv,
                    mainPc \in {"scan", "updLock", "infoLock", "update", "notify"},
                    NEW i \in Due
             PROVE  sockfds[i] = temp[i]
  BY DEF SnapshotCurrent
<1>1. i \in Slots /\ i >= slot /\ temp[i] \in ClientFds
  BY DEF Due, TypeInv, TypeOK
<1>2. QED
  BY <1>1 DEF SocketInv

-----------------------------------------------------------------------------
(* The stop flag, and the one message.                                       *)
LEMMA StopWriters == [Next]_vars =>
  \/ UNCHANGED bStop /\ (migPc' = "wait" => migPc = "wait")
  \/ MigCheck \/ StopSignal \/ HandlerStop
BY DEF Next, vars, netVars, migVars, locals, locks, Main, LoopError, Handler, Mig, Ended,
       Environment, CopySockets, Select, SelectError, AcceptConn, AcceptError,
       AddNodeLock, AddNode, EndScan, ReadReport, ReadError, ReadEnd, UpdateLock,
       InfoLock, UpdateNodeInfo, NotifyUpdate, StopLock, StopJoin, Interrupt,
       HandlerJoin, MigLock, MigWoken, MigSleep, RedistributeLock, Redistribute,
       SendDecision, Spurious, SpuriousWakeup, Signalled

(* Every step keeps a stop that was ordered visible to the migration thread. *)
LEMMA StopNext == NoLostStop /\ [Next]_vars => NoLostStop'
<1> SUFFICES ASSUME NoLostStop, [Next]_vars PROVE NoLostStop'
  OBVIOUS
<1>1. CASE UNCHANGED bStop /\ (migPc' = "wait" => migPc = "wait")
  BY <1>1 DEF NoLostStop
<1>2. CASE MigCheck
  BY <1>2 DEF NoLostStop, MigCheck
<1>3. CASE StopSignal \/ HandlerStop
  BY <1>3 DEF NoLostStop, StopSignal, HandlerStop, Signalled
<1>4. QED
  BY <1>1, <1>2, <1>3, StopWriters

-----------------------------------------------------------------------------
(* The invariant: all of the above together.                                 *)
IInv == TypeInv /\ LockInv /\ NodeInv /\ SocketInv /\ NoLostStop

(* The coordinator starts in a state of the invariant. *)
LEMMA InvInit == Init => IInv
<1> SUFFICES ASSUME Init PROVE IInv
  OBVIOUS
<1>1. TypeInv
  BY TypeInit
<1>2. LockInv /\ NoLostStop
  BY DEF Init, LockInv, NoLostStop
<1>3. \A i \in Slots : sockfds[i] \notin ClientFds /\ temp[i] \notin ClientFds
  BY FdsAreDistinct DEF Init
<1>4. NodeInv
  BY <1>3 DEF Init, NodeInv, UniqueNodes, MonitoredKnown, DecidesOnSomeNode
<1>5. SocketInv
  BY <1>3 DEF Init, SocketInv, MonitoredOpen
<1>6. QED
  BY <1>1, <1>2, <1>4, <1>5 DEF IInv

(* Every step keeps the invariant. *)
LEMMA InvNext == IInv /\ [Next]_vars => IInv'
BY TypeNext, LockNext, NodeNext, SocketNext, StopNext DEF IInv

(* The inductive invariant holds for any number of clients, slots, descriptors and reports. *)
THEOREM Invariance == Spec => []IInv
BY InvInit, InvNext, PTL DEF Spec

(* redistributeLoad and main are never in the list of nodes together.        *)
THEOREM NodesProtected == Spec => []NodeInfosExclusive
<1>1. IInv => NodeInfosExclusive
  BY DEF IInv, LockInv, NodeInfosExclusive
<1>2. QED
  BY <1>1, Invariance, PTL

(* No round is begun on an empty list, whatever wakes the thread.            *)
THEOREM RoundHasNode == Spec => []DecidesOnSomeNode
<1>1. IInv => DecidesOnSomeNode
  BY DEF IInv, NodeInv
<1>2. QED
  BY <1>1, Invariance, PTL

(* updateNodeInfo finds the node of every report ...                          *)
THEOREM ReportsHaveNode == Spec => []MonitoredKnown
<1>1. IInv => MonitoredKnown
  BY DEF IInv, NodeInv
<1>2. QED
  BY <1>1, Invariance, PTL

(* ... and finds only one: addNode never enters a descriptor twice.          *)
THEOREM NodesDistinct == Spec => []UniqueNodes
<1>1. IInv => UniqueNodes
  BY DEF IInv, NodeInv
<1>2. QED
  BY <1>1, Invariance, PTL

(* The copy being scanned agrees with the table: no read or close is of a     *)
(* socket that has left it.                                                  *)
THEOREM ScanIsCurrent == Spec => []SnapshotCurrent
<1>1. IInv => SnapshotCurrent
  BY Scanned DEF IInv, SocketInv
<1>2. QED
  BY <1>1, Invariance, PTL

(* The table holds open sockets, each once, however many slots, descriptors   *)
(* and clients there are: a full table and one used again included.          *)
THEOREM TableIsOpen == Spec => []MonitoredOpen
<1>1. IInv => MonitoredOpen
  BY DEF IInv, SocketInv
<1>2. QED
  BY <1>1, Invariance, PTL

(* The migration thread never waits once it was told to stop.                *)
THEOREM StopIsSeen == Spec => []NoLostStop
<1>1. IInv => NoLostStop
  BY DEF IInv
<1>2. QED
  BY <1>1, Invariance, PTL

-----------------------------------------------------------------------------
(* The refinement: what the service sees of a step.                          *)
Plan == {<<d.src, d.dst>> : d \in decision}

(* Only six actions touch what the abstract service speaks of. *)
LEMMA ServiceWriters == [Next]_vars =>
  \/ UNCHANGED <<nodes, isUpdateReady, decision, count, Round>>
  \/ AddNode \/ UpdateNodeInfo \/ NotifyUpdate \/ MigWoken \/ Redistribute \/ SendDecision
<1>1. [Next]_vars => UNCHANGED migPc \/ StopSignal \/ HandlerStop \/ NotifyUpdate
                      \/ MigLock \/ MigCheck \/ SpuriousWakeup \/ MigWoken \/ MigSleep
                      \/ RedistributeLock \/ Redistribute \/ SendDecision
  BY DEF Next, vars, netVars, migVars, locals, locks, Main, LoopError, Handler, Mig, Ended,
       Environment, CopySockets, Select, SelectError, AcceptConn, AcceptError,
       AddNodeLock, AddNode, EndScan, ReadReport, ReadError, ReadEnd, UpdateLock,
       InfoLock, UpdateNodeInfo, StopLock, StopJoin, Interrupt, HandlerJoin, Spurious
<1>2. [Next]_vars => Round' = Round \/ NotifyUpdate \/ MigWoken \/ Redistribute \/ SendDecision
  BY <1>1 DEF Round, StopSignal, HandlerStop, Signalled, MigLock, MigCheck, SpuriousWakeup,
       MigSleep, RedistributeLock
<1>3. [Next]_vars => UNCHANGED <<nodes, isUpdateReady, decision, count>>
                      \/ AddNode \/ UpdateNodeInfo \/ NotifyUpdate \/ MigWoken
                      \/ Redistribute \/ SendDecision
  BY DEF Next, vars, netVars, migVars, locals, locks, Main, LoopError, Handler, Mig, Ended,
       Environment, CopySockets, Select, SelectError, AcceptConn, AcceptError,
       AddNodeLock, EndScan, ReadReport, ReadError, ReadEnd, UpdateLock, InfoLock,
       StopLock, StopSignal, StopJoin, Interrupt, HandlerStop, HandlerJoin, MigLock,
       MigCheck, MigSleep, RedistributeLock, Spurious, SpuriousWakeup
<1>4. QED
  BY <1>2, <1>3

(* Every step of the threads is a step of the abstract service, or none. *)
LEMMA StepImplements == IInv /\ [Next]_vars => [Service!Next]_(Service!svars)
<1> SUFFICES ASSUME IInv, [Next]_vars PROVE [Service!Next]_(Service!svars)
  OBVIOUS
<1> USE DEF Service!Next, Service!svars
<1>1. CASE UNCHANGED <<nodes, isUpdateReady, decision, count, Round>>
  BY <1>1 DEF Members
<1>2. CASE AddNode
  <2>1. UNCHANGED <<isUpdateReady, decision, count, Round>>
    BY <1>2 DEF AddNode, migVars, Round
  <2>2. CASE Known(newfd)
    BY <1>2, <2>1, <2>2 DEF AddNode, Members
  <2>3. CASE ~Known(newfd)
    <3>1. nodes' = Append(nodes, [id |-> newfd, usages |-> NoUsage, port |-> Nobody])
      BY <1>2, <2>3 DEF AddNode
    <3>2. Members' = Members \cup {newfd}
      <4>1. nodes \in Seq(NodeInfos)
        BY DEF IInv, TypeInv, TypeOK
      <4>2. DOMAIN nodes' = DOMAIN nodes \cup {Len(nodes) + 1}
        BY <3>1, <4>1
      <4>3. \A i \in DOMAIN nodes : nodes'[i] = nodes[i]
        BY <3>1, <4>1
      <4>4. nodes'[Len(nodes) + 1].id = newfd
        BY <3>1, <4>1
      <4>5. QED
        BY <4>2, <4>3, <4>4 DEF Members
    <3>3. newfd \in ClientFds
      BY <1>2 DEF AddNode, IInv, TypeInv, TypeOK
    <3>4. QED
      BY <2>1, <3>2, <3>3 DEF Service!Join
  <2>4. QED
    BY <2>2, <2>3
<1>3. CASE UpdateNodeInfo
  <2>1. UNCHANGED <<isUpdateReady, decision, count, Round>>
    BY <1>3 DEF UpdateNodeInfo, migVars, Round
  <2>2. DOMAIN nodes' = DOMAIN nodes
    BY <1>3 DEF UpdateNodeInfo
  <2>3. Members' = Members
    BY <2>2, NodesKept DEF Members, IInv
  <2>4. QED
    BY <2>1, <2>3
<1>4. CASE NotifyUpdate
  <2>1. UNCHANGED <<nodes, decision, count, Round>>
    BY <1>4 DEF NotifyUpdate, Signalled, migVars, Round
  <2>2. slot \in Slots /\ temp[slot] \in ClientFds
    BY <1>4 DEF NotifyUpdate, IInv, TypeInv, Handling
  <2>3. Members # {}
    BY <2>2 DEF IInv, NodeInv, Known, Members
  <2>4. QED
    BY <1>4, <2>1, <2>3 DEF NotifyUpdate, Service!Notify, Members
<1>5. CASE MigWoken
  <2>1. UNCHANGED <<nodes, decision, count>> /\ Round = "idle"
    BY <1>5 DEF MigWoken, migVars, Round
  <2>2. CASE isUpdateReady
    <3>1. isUpdateReady' = FALSE /\ Round' = "deciding"
      BY <1>5, <2>2 DEF MigWoken, UpdateSeen, Round
    <3>2. QED
      BY <2>1, <2>2, <3>1 DEF Service!Begin, Members
  <2>3. CASE ~isUpdateReady
    <3>1. UNCHANGED isUpdateReady /\ Round' = "idle"
      BY <1>5, <2>3 DEF MigWoken, UpdateSeen, Round
    <3>2. QED
      BY <2>1, <3>1 DEF Members
  <2>4. QED
    BY <2>2, <2>3
<1>6. CASE Redistribute
  <2>1. UNCHANGED <<nodes, isUpdateReady, count>> /\ Round = "deciding" /\ Round' = "decided"
    BY <1>6 DEF Redistribute, Round
  <2>2. PICK max, min \in DOMAIN nodes :
           decision' = IF max = min THEN {}
                       ELSE {[src |-> nodes[max].id, dst |-> nodes[min].id,
                              meant |-> owner[nodes[max].id],
                              addr |-> owner[nodes[min].id],
                              port |-> nodes[min].port]}
    BY <1>6 DEF Redistribute
  <2>3. CASE max = min
    <3>1. Plan' = {}
      BY <2>2, <2>3 DEF Plan
    <3>2. {} \in Service!Plans(Members) /\ \A m \in {} : m[1] # m[2]
      BY DEF Service!Plans
    <3>3. Service!Decide
      BY <2>1, <3>1, <3>2 DEF Plan, Service!Decide, Members
    <3>4. QED
      BY <3>3
  <2>4. CASE max # min
    <3>1. Plan' = {<<nodes[max].id, nodes[min].id>>}
      BY <2>2, <2>4 DEF Plan
    <3>2. nodes[max].id # nodes[min].id
      BY <2>4 DEF IInv, NodeInv, UniqueNodes
    <3>3. Plan' \in Service!Plans(Members)
      BY <3>1 DEF Service!Plans, Members
    <3>4. \A m \in Plan' : m[1] # m[2]
      BY <3>1, <3>2
    <3>5. QED
      BY <2>1, <3>3, <3>4 DEF Plan, Service!Decide, Members
  <2>5. QED
    BY <2>3, <2>4
<1>7. CASE SendDecision
  <2>1. UNCHANGED <<nodes, isUpdateReady>> /\ Round = "decided" /\ Round' = "idle"
    BY <1>7 DEF SendDecision, Round
  <2>2. decision' = {}
    BY <1>7 DEF SendDecision
  <2>3. count' = IF Plan # {} THEN 1 ELSE count
    <3>1. decision = {} <=> Plan = {}
      BY DEF Plan
    <3>2. count \in {0, 1}
      BY DEF IInv, TypeInv, TypeOK
    <3>3. QED
      BY <1>7, <3>1, <3>2 DEF SendDecision
  <2>4. Plan' = {}
    BY <2>2 DEF Plan
  <2>5. QED
    BY <2>1, <2>3, <2>4 DEF Plan, Service!Issue, Members
<1>8. QED
  BY <1>1, <1>2, <1>3, <1>4, <1>5, <1>6, <1>7, ServiceWriters

(* The coordinator does what the service promises, for any number of nodes:  *)
(* a round is owed to a report, whatever woke the thread, its migration is   *)
(* between two different nodes that joined, and one decision is handed out.  *)
THEOREM Implementation == Spec => ImplementsService
<1>1. Init => Service!Init
  BY DEF Init, Service!Init, Members, Round
<1>2. QED
  BY <1>1, StepImplements, Invariance, PTL DEF Spec, ImplementsService, Service!Spec
=============================================================================
