----------------------------- MODULE Coordinator -----------------------------
(****************************************************************************)
(* The running coordinator: the main thread that accepts AQSIOS nodes and   *)
(* reads their reports (receivingClientReport), the thread that decides     *)
(* migrations (manageMigration), the two mutexes and the condition variable *)
(* between them, the Ctrl-C handler that runs on top of the main thread,    *)
(* the table of monitored sockets and the load manager's list of nodes.     *)
(*                                                                          *)
(* mutex_fdset is taken by the main thread only, around steps that take no  *)
(* other lock, so its critical sections are single steps and it is not a    *)
(* variable.  Threads interleave between the locks they can block on.       *)
(****************************************************************************)
EXTENDS Naturals, Sequences, FiniteSets, Functions

CONSTANTS
  Clients,      \* the AQSIOS nodes; each opens at most one connection
  Nobody,       \* no client: a free descriptor, a port never reported
  NumSlots,     \* MAX_NUM_CLIENTS, the size of sockfds
  NumFDs,       \* descriptors the process may hold; 1 is the listening socket
  Classes,      \* the query classes, number_of_classes of them
  MaxLoad,      \* the capacity usage of a class is a number in 0..MaxLoad
  MaxReports,   \* bound: messages one client sends
  Interrupts,   \* whether the user may press Ctrl-C (once)
  SelectFails,  \* whether select() may fail, the only way out of the loop
  Resets        \* whether connections may be reset and not only closed

ASSUME ConstantsAssumption ==
  /\ Nobody \notin Clients
  /\ NumSlots \in Nat \ {0}
  /\ NumFDs \in Nat \ {0}
  /\ IsFiniteSet(Classes)
  /\ MaxLoad \in Nat
  /\ MaxReports \in Nat
  /\ {Interrupts, SelectFails, Resets} \subseteq BOOLEAN

ServerFd  == 1
ClientFds == 2..NumFDs
Slots     == 1..NumSlots

(* The capacity usage of each class; a new record has none.                  *)
Usages  == [Classes -> 0..MaxLoad]
NoUsage == [k \in Classes |-> 0]

(* A report is the node's listening port or the usage of every class; `from` *)
(* stands for what identifies the sender in the text, e.g. its port's number.*)
(* A report on queries alone changes no usage, as one without usage may.     *)
PortMsg(c)    == [kind |-> "P", from |-> c, usages |-> NoUsage]
LoadMsg(c, u) == [kind |-> "NI", from |-> c, usages |-> u]
Garbage       == [kind |-> "garbage", from |-> Nobody, usages |-> NoUsage]
Messages == {PortMsg(c) : c \in Clients}
              \cup {LoadMsg(c, u) : c \in Clients, u \in Usages}

NodeInfos == [id : ClientFds, usages : Usages, port : Clients \cup {Nobody}]
Decisions == [src : ClientFds, dst : ClientFds, meant : Clients \cup {Nobody},
              addr : Clients \cup {Nobody}, port : Clients \cup {Nobody}]

VARIABLES
  process,        \* "running", "exited" or "killed" by SIGPIPE
  mainPc,         \* where the main thread is
  handlerPc,      \* where sigproc is, on top of the main thread
  migPc,          \* where the migration thread is
  updMutex,       \* holder of mutexUpdateReady
  infoMutex,      \* holder of LoadManager::mutexNodeInfos
  isUpdateReady, bStop,
  sockfds,        \* the monitored sockets; 0 marks a free slot
  temp, ready, slot, msg, newfd,   \* locals of the main thread
  nodes,          \* LoadManager::nodes
  decision, count,                 \* locals of the migration thread
  owner,          \* kernel: the client whose connection a descriptor is
  backlog,        \* kernel: connections not yet accepted
  conn, net, reports,              \* each client's connection
  sent            \* the migration messages written, and who got them

locks   == <<updMutex, infoMutex>>
locals  == <<temp, ready, slot, msg, newfd>>
migVars == <<decision, count, sent>>
netVars == <<owner, backlog, conn, net, reports>>
vars == <<process, mainPc, handlerPc, migPc, locks, isUpdateReady, bStop,
          sockfds, locals, nodes, migVars, netVars>>

MainPcs == {"copy", "select", "accept", "addLock", "adding", "scan",
            "updLock", "infoLock", "update", "notify",
            "stop", "stopping", "join"}
MigPcs  == {"lock", "check", "wait", "woken", "sleep", "redistribute",
            "deciding", "send", "done"}

(* "fin": closed by the client; "reset": an error is pending; "dead": the     *)
(* error was delivered; "closed": closed by the coordinator.                  *)
ConnStates == {"idle", "up", "fin", "reset", "dead", "closed"}

TypeOK ==
  /\ process \in {"running", "exited", "killed"}
  /\ mainPc \in MainPcs
  /\ handlerPc \in {"off", "lock", "join"}
  /\ migPc \in MigPcs
  /\ updMutex \in {"free", "main", "mig"}
  /\ infoMutex \in {"free", "main", "mig"}
  /\ isUpdateReady \in BOOLEAN
  /\ bStop \in BOOLEAN
  /\ sockfds \in [Slots -> {0, ServerFd} \cup ClientFds]
  /\ temp \in [Slots -> {0, ServerFd} \cup ClientFds]
  /\ ready \in SUBSET ({ServerFd} \cup ClientFds)
  /\ slot \in 1..(NumSlots + 1)
  /\ msg \in Messages \cup {Garbage}
  /\ newfd \in {0} \cup ClientFds
  /\ nodes \in Seq(NodeInfos)
  /\ decision \in SUBSET Decisions
  /\ count \in {0, 1}
  /\ owner \in [ClientFds -> Clients \cup {Nobody}]
  /\ backlog \in Seq(Clients)
  /\ conn \in [Clients -> ConnStates]
  /\ net \in [Clients -> Seq(Messages)]
  /\ reports \in [Clients -> 0..MaxReports]
  /\ sent \in SUBSET [to : Clients \cup {Nobody}, d : Decisions]

Init ==
  /\ process = "running"
  /\ mainPc = "copy" /\ handlerPc = "off" /\ migPc = "lock"
  /\ updMutex = "free" /\ infoMutex = "free"
  /\ isUpdateReady = FALSE /\ bStop = FALSE
  /\ sockfds = [i \in Slots |-> IF i = 1 THEN ServerFd ELSE 0]
  /\ temp = [i \in Slots |-> 0] /\ ready = {} /\ slot = 1
  /\ msg = Garbage /\ newfd = 0
  /\ nodes = <<>>
  /\ decision = {} /\ count = 0 /\ sent = {}
  /\ owner = [f \in ClientFds |-> Nobody]
  /\ backlog = <<>>
  /\ conn = [c \in Clients |-> "idle"]
  /\ net = [c \in Clients |-> <<>>]
  /\ reports = [c \in Clients |-> 0]

-----------------------------------------------------------------------------
(* The clients and the network.  A client opens its connection, reports its *)
(* port first and its load afterwards, and leaves whenever it likes.         *)

Readable(c) == net[c] # <<>> \/ conn[c] \in {"fin", "reset", "dead"}

Connect(c) ==
  /\ conn[c] = "idle"
  /\ conn' = [conn EXCEPT ![c] = "up"]
  /\ backlog' = Append(backlog, c)
  /\ UNCHANGED <<owner, net, reports>>

Report(c) ==
  /\ conn[c] = "up"
  /\ reports[c] < MaxReports
  /\ reports' = [reports EXCEPT ![c] = @ + 1]
  /\ \/ /\ reports[c] = 0
        /\ net' = [net EXCEPT ![c] = Append(@, PortMsg(c))]
     \/ /\ reports[c] > 0
        /\ \E u \in Usages : net' = [net EXCEPT ![c] = Append(@, LoadMsg(c, u))]
  /\ UNCHANGED <<owner, backlog, conn>>

Leave(c) ==
  /\ conn[c] = "up"
  /\ conn' = [conn EXCEPT ![c] = "fin"]
  /\ UNCHANGED <<owner, backlog, net, reports>>

Reset(c) ==
  /\ Resets
  /\ conn[c] \in {"up", "fin"}
  /\ conn' = [conn EXCEPT ![c] = "reset"]
  /\ net' = [net EXCEPT ![c] = <<>>]
  /\ UNCHANGED <<owner, backlog, reports>>

Environment ==
  /\ process = "running"
  /\ \E c \in Clients : Connect(c) \/ Report(c) \/ Leave(c) \/ Reset(c)
  /\ UNCHANGED <<process, mainPc, handlerPc, migPc, locks, isUpdateReady, bStop,
                 sockfds, locals, nodes, migVars>>

-----------------------------------------------------------------------------
(* The main thread: receivingClientReport, acceptingConn, handleClientReport.*)

CopySockets ==
  /\ mainPc = "copy"
  /\ temp' = sockfds
  /\ mainPc' = "select"
  /\ UNCHANGED <<handlerPc, process, migPc, locks, isUpdateReady, bStop, sockfds,
                 ready, slot, msg, newfd, nodes, migVars, netVars>>

(* select() reports the descriptors of temp that are readable now.           *)
IsReadable(f) ==
  \/ f = ServerFd /\ backlog # <<>>
  \/ f \in ClientFds /\ owner[f] # Nobody /\ Readable(owner[f])

\* Mutant: the loop over the slots stops one short.
ReadableFdsButLast == {f \in {temp[i] : i \in 1..(NumSlots - 1)} : IsReadable(f)}
ReadableFds == {f \in {temp[i] : i \in Slots} : IsReadable(f)}

Select ==
  /\ mainPc = "select"
  /\ ReadableFds # {}
  /\ ready' = ReadableFds
  /\ mainPc' = IF ServerFd \in ReadableFds THEN "accept" ELSE "scan"
  /\ UNCHANGED <<process, handlerPc, migPc, locks, isUpdateReady, bStop, sockfds,
                 temp, slot, msg, newfd, nodes, migVars, netVars>>

SelectError ==
  /\ SelectFails
  /\ mainPc = "select"
  /\ mainPc' = "stop"
  /\ UNCHANGED <<process, handlerPc, migPc, locks, isUpdateReady, bStop, sockfds,
                 locals, nodes, migVars, netVars>>

(* accept() gives the lowest unused descriptor; it goes to the first free    *)
(* slot of sockfds, and nowhere when there is none.                          *)
FreeFds   == {f \in ClientFds : owner[f] = Nobody}
\* Mutants: the loop stops one short; the slot is not checked to be free.
FreeSlotsButLast == {i \in Slots : sockfds[i] = 0 /\ i < NumSlots}
AnyClientSlot    == {i \in Slots : sockfds[i] # ServerFd}
FreeSlots == {i \in Slots : sockfds[i] = 0}
Least(S, x) == x \in S /\ \A y \in S : x <= y

StoreSocket(fd) ==
  \/ /\ FreeSlots = {}
     /\ UNCHANGED sockfds
  \/ \E i \in Slots : /\ Least(FreeSlots, i)
                      /\ sockfds' = [sockfds EXCEPT ![i] = fd]

AcceptConn ==
  /\ mainPc = "accept"
  /\ backlog # <<>>
  /\ \E fd \in ClientFds :
        /\ Least(FreeFds, fd)
        /\ owner' = [owner EXCEPT ![fd] = Head(backlog)]
        /\ newfd' = fd
        /\ StoreSocket(fd)
  /\ backlog' = Tail(backlog)
  /\ mainPc' = "addLock"
  /\ UNCHANGED <<process, handlerPc, migPc, locks, isUpdateReady, bStop,
                 temp, ready, slot, msg, nodes, migVars, conn, net, reports>>

(* accept() fails: out of descriptors, or the connection was aborted.        *)
AcceptError ==
  /\ mainPc = "accept"
  /\ \/ FreeFds = {} /\ UNCHANGED <<backlog, conn>>
     \/ /\ backlog # <<>>
        /\ conn[Head(backlog)] = "reset"
        /\ conn' = [conn EXCEPT ![Head(backlog)] = "closed"]
        /\ backlog' = Tail(backlog)
  /\ mainPc' = "scan"
  /\ UNCHANGED <<process, handlerPc, migPc, locks, isUpdateReady, bStop, sockfds,
                 locals, nodes, migVars, owner, net, reports>>

\* Mutant: no search for a node of this id.
NeverKnown(fd)  == FALSE
Known(fd) == \E i \in DOMAIN nodes : nodes[i].id = fd

\* Mutant: the list of nodes is used without its mutex.
NoInfoMutex == TRUE
InfoMutexFree == infoMutex = "free"

AddNodeLock ==
  /\ mainPc = "addLock"
  /\ InfoMutexFree
  /\ infoMutex' = "main"
  /\ mainPc' = "adding"
  /\ UNCHANGED <<process, handlerPc, migPc, updMutex, isUpdateReady, bStop, sockfds,
                 locals, nodes, migVars, netVars>>

\* Mutant: a node is added to an empty list only.
AddNodeFirst ==
  /\ mainPc = "adding"
  /\ nodes' = IF nodes # <<>> THEN nodes
              ELSE Append(nodes, [id |-> newfd, usages |-> NoUsage, port |-> Nobody])
  /\ infoMutex' = "free" /\ newfd' = 0 /\ mainPc' = "scan"
  /\ UNCHANGED <<process, handlerPc, migPc, updMutex, isUpdateReady, bStop, sockfds,
                 temp, ready, slot, msg, migVars, netVars>>
AddNode ==
  /\ mainPc = "adding"
  /\ nodes' = IF Known(newfd) THEN nodes
              ELSE Append(nodes, [id |-> newfd, usages |-> NoUsage, port |-> Nobody])
  /\ infoMutex' = "free"
  /\ newfd' = 0
  /\ mainPc' = "scan"
  /\ UNCHANGED <<process, handlerPc, migPc, updMutex, isUpdateReady, bStop, sockfds,
                 temp, ready, slot, msg, migVars, netVars>>

(* The slots are scanned in order for readable client sockets.               *)
Due == {i \in Slots : i >= slot /\ temp[i] \in ready \ {ServerFd}}

EndScan ==
  /\ mainPc = "scan"
  /\ Due = {}
  /\ temp' = [i \in Slots |-> 0] /\ ready' = {} /\ slot' = 1
  /\ mainPc' = "copy"
  /\ UNCHANGED <<process, handlerPc, migPc, locks, isUpdateReady, bStop, sockfds,
                 msg, newfd, nodes, migVars, netVars>>

(* read() takes what has arrived, up to 512 bytes: one or several messages,  *)
(* of which only the first is looked at.  That the socket is an open one is  *)
(* no guard of the code: MonitoredOpen and SnapshotCurrent show it is.       *)
ReadReport ==
  /\ mainPc = "scan"
  /\ \E i \in Slots, c \in Clients :
        /\ Least(Due, i) /\ owner[temp[i]] = c
        /\ net[c] # <<>>
        /\ msg' = Head(net[c])
        /\ \E k \in 1..Len(net[c]) :
              net' = [net EXCEPT ![c] = SubSeq(@, k + 1, Len(@))]
        /\ slot' = i
  /\ mainPc' = "updLock"
  /\ UNCHANGED <<process, handlerPc, migPc, locks, isUpdateReady, bStop, sockfds,
                 temp, ready, newfd, nodes, migVars, owner, backlog, conn, reports>>

(* read() fails; the buffer is used all the same, uninitialised: it holds    *)
(* what the previous call left on the stack, or anything.                    *)
ReadError ==
  /\ mainPc = "scan"
  /\ \E i \in Slots, c \in Clients :
        /\ Least(Due, i) /\ owner[temp[i]] = c
        /\ net[c] = <<>>
        /\ conn[c] = "reset"
        /\ conn' = [conn EXCEPT ![c] = "dead"]
        /\ slot' = i
  /\ msg' \in {msg, Garbage}
  /\ mainPc' = "updLock"
  /\ UNCHANGED <<process, handlerPc, migPc, locks, isUpdateReady, bStop, sockfds,
                 temp, ready, newfd, nodes, migVars, owner, backlog, net, reports>>

(* read() returns 0: the socket is closed and its slot freed, unless the     *)
(* slot holds another socket by now.                                         *)
\* Mutant: the slot of a closed socket is not freed.
KeepSlot(i) == sockfds
WithoutSocket(i) == [sockfds EXCEPT ![i] = 0]

ReadEnd ==
  /\ mainPc = "scan"
  /\ \E i \in Slots, c \in Clients :
        /\ Least(Due, i) /\ owner[temp[i]] = c
        /\ net[c] = <<>>
        /\ conn[c] \in {"fin", "dead"}
        /\ slot' = i + 1
        /\ \/ /\ sockfds[i] = temp[i]
              /\ sockfds' = WithoutSocket(i)
              /\ owner' = [owner EXCEPT ![temp[i]] = Nobody]
              /\ conn' = [conn EXCEPT ![c] = "closed"]
           \/ /\ sockfds[i] # temp[i]
              /\ UNCHANGED <<sockfds, owner, conn>>
  /\ UNCHANGED <<process, mainPc, handlerPc, migPc, locks, isUpdateReady, bStop,
                 temp, ready, msg, newfd, nodes, migVars, backlog, net, reports>>

UpdateLock ==
  /\ mainPc = "updLock"
  /\ updMutex = "free"
  /\ updMutex' = "main"
  /\ mainPc' = "infoLock"
  /\ UNCHANGED <<process, handlerPc, migPc, infoMutex, isUpdateReady, bStop, sockfds,
                 locals, nodes, migVars, netVars>>

InfoLock ==
  /\ mainPc = "infoLock"
  /\ InfoMutexFree
  /\ infoMutex' = "main"
  /\ mainPc' = "update"
  /\ UNCHANGED <<process, handlerPc, migPc, updMutex, isUpdateReady, bStop, sockfds,
                 locals, nodes, migVars, netVars>>

(* The moving average of each class: where there was none the new usage is   *)
(* taken as it is, elsewhere the average moves towards it, by an amount the  *)
(* integers of the model blur.                                               *)
\* Mutant: usages add up instead of being averaged.
Accumulated(old, new) == {[k \in Classes |-> old[k] + new[k]]}
Smoothed(old, new) ==
  {u \in Usages : \A k \in Classes :
     IF old[k] = 0 THEN u[k] = new[k]
     ELSE u[k] \in old[k]..new[k] \/ u[k] \in new[k]..old[k]}

Updated(node, m) ==
  CASE m.kind = "P"  -> {[node EXCEPT !.port = m.from]}
    [] m.kind = "NI" -> {[node EXCEPT !.usages = u] : u \in Smoothed(node.usages, m.usages)}
    [] OTHER         -> {node}

UpdateNodeInfo ==
  /\ mainPc = "update"
  /\ \/ /\ ~Known(temp[slot])
        /\ UNCHANGED nodes
     \/ \E i \in DOMAIN nodes :
           /\ Least({j \in DOMAIN nodes : nodes[j].id = temp[slot]}, i)
           /\ \E n \in Updated(nodes[i], msg) : nodes' = [nodes EXCEPT ![i] = n]
  /\ infoMutex' = "free"
  /\ mainPc' = "notify"
  /\ UNCHANGED <<process, handlerPc, migPc, updMutex, isUpdateReady, bStop, sockfds,
                 locals, migVars, netVars>>

(* pthread_cond_signal wakes the migration thread if it waits and is lost    *)
(* otherwise.                                                                *)
\* Mutant: the signal is forgotten.
NotSignalled == migPc
Signalled == IF migPc = "wait" THEN "woken" ELSE migPc

NotifyUpdate ==
  /\ mainPc = "notify"
  /\ isUpdateReady' = TRUE
  /\ migPc' = Signalled
  /\ updMutex' = "free"
  /\ slot' = slot + 1
  /\ mainPc' = "scan"
  /\ UNCHANGED <<process, handlerPc, infoMutex, bStop, sockfds,
                 temp, ready, msg, newfd, nodes, migVars, netVars>>

-----------------------------------------------------------------------------
(* stopServer, called by main after the loop and by sigproc.  Holding        *)
(* mutexUpdateReady is a state of its own in main, where Ctrl-C may strike;  *)
(* in the handler nothing can.                                               *)

StopLock ==
  /\ mainPc = "stop"
  /\ updMutex = "free"
  /\ updMutex' = "main"
  /\ mainPc' = "stopping"
  /\ UNCHANGED <<process, handlerPc, migPc, infoMutex, isUpdateReady, bStop, sockfds,
                 locals, nodes, migVars, netVars>>

StopSignal ==
  /\ mainPc = "stopping"
  /\ bStop' = TRUE
  /\ migPc' = Signalled
  /\ updMutex' = "free"
  /\ mainPc' = "join"
  /\ UNCHANGED <<process, handlerPc, infoMutex, isUpdateReady, sockfds,
                 locals, nodes, migVars, netVars>>

StopJoin ==
  /\ mainPc = "join"
  /\ migPc = "done"
  /\ process' = "exited"
  /\ UNCHANGED <<mainPc, handlerPc, migPc, locks, isUpdateReady, bStop, sockfds,
                 locals, nodes, migVars, netVars>>

Main ==
  /\ process = "running"
  /\ handlerPc = "off"
  /\ \/ CopySockets \/ Select
     \/ AcceptConn \/ AcceptError \/ AddNodeLock \/ AddNode
     \/ EndScan \/ ReadReport \/ ReadError \/ ReadEnd
     \/ UpdateLock \/ InfoLock \/ UpdateNodeInfo \/ NotifyUpdate
     \/ StopLock \/ StopSignal \/ StopJoin

LoopError == process = "running" /\ handlerPc = "off" /\ SelectError

(* Ctrl-C: the kernel runs sigproc on the main thread, wherever that is.     *)
Interrupt ==
  /\ Interrupts
  /\ process = "running"
  /\ handlerPc = "off"
  /\ handlerPc' = "lock"
  /\ UNCHANGED <<process, mainPc, migPc, locks, isUpdateReady, bStop, sockfds,
                 locals, nodes, migVars, netVars>>

HandlerStop ==
  /\ handlerPc = "lock"
  /\ updMutex = "free"
  /\ bStop' = TRUE
  /\ migPc' = Signalled
  /\ handlerPc' = "join"
  /\ UNCHANGED <<process, mainPc, locks, isUpdateReady, sockfds,
                 locals, nodes, migVars, netVars>>

(* Joining a thread that main already joins fails at once.                   *)
HandlerJoin ==
  /\ handlerPc = "join"
  /\ migPc = "done" \/ mainPc = "join"
  /\ process' = "exited"
  /\ UNCHANGED <<mainPc, handlerPc, migPc, locks, isUpdateReady, bStop, sockfds,
                 locals, nodes, migVars, netVars>>

Handler == process = "running" /\ (HandlerStop \/ HandlerJoin)

-----------------------------------------------------------------------------
(* The migration thread: manageMigration.                                    *)

MigLock ==
  /\ migPc = "lock"
  /\ updMutex = "free"
  /\ updMutex' = "mig"
  /\ migPc' = "check"
  /\ UNCHANGED <<process, mainPc, handlerPc, infoMutex, isUpdateReady, bStop, sockfds,
                 locals, nodes, migVars, netVars>>

(* The loop waits whenever it is not told to stop: isUpdateReady is not      *)
(* looked at before waiting.                                                 *)
MigCheck ==
  /\ migPc = "check"
  /\ migPc' = IF bStop THEN "done" ELSE "wait"
  /\ updMutex' = "free"
  /\ UNCHANGED <<process, mainPc, handlerPc, infoMutex, isUpdateReady, bStop, sockfds,
                 locals, nodes, migVars, netVars>>

(* POSIX lets pthread_cond_wait return without a signal.                     *)
SpuriousWakeup ==
  /\ migPc = "wait"
  /\ migPc' = "woken"
  /\ UNCHANGED <<process, mainPc, handlerPc, locks, isUpdateReady, bStop, sockfds,
                 locals, nodes, migVars, netVars>>

\* Mutant: every wake-up is taken for an update.
AlwaysUpdate == TRUE
UpdateSeen   == isUpdateReady

MigWoken ==
  /\ migPc = "woken"
  /\ updMutex = "free"
  /\ \/ /\ UpdateSeen
        /\ isUpdateReady' = FALSE
        /\ migPc' = "sleep"
        /\ UNCHANGED updMutex
     \/ /\ ~UpdateSeen
        /\ migPc' = "check"
        /\ updMutex' = "mig"
        /\ UNCHANGED isUpdateReady
  /\ UNCHANGED <<process, mainPc, handlerPc, infoMutex, bStop, sockfds,
                 locals, nodes, migVars, netVars>>

MigSleep ==
  /\ migPc = "sleep"
  /\ migPc' = "redistribute"
  /\ UNCHANGED <<process, mainPc, handlerPc, locks, isUpdateReady, bStop, sockfds,
                 locals, nodes, migVars, netVars>>

RedistributeLock ==
  /\ migPc = "redistribute"
  /\ InfoMutexFree
  /\ infoMutex' = "mig"
  /\ migPc' = "deciding"
  /\ UNCHANGED <<process, mainPc, handlerPc, updMutex, isUpdateReady, bStop, sockfds,
                 locals, nodes, migVars, netVars>>

(* Nodes are compared by the sum over their classes, strictly: the first of  *)
(* the extremal nodes in the list wins.                                      *)
TotalCapacityUsage(i) == SumFunction(nodes[i].usages)

FirstMax(i) == \A j \in DOMAIN nodes :
  /\ TotalCapacityUsage(j) <= TotalCapacityUsage(i)
  /\ j < i => TotalCapacityUsage(j) < TotalCapacityUsage(i)
FirstMin(i) == \A j \in DOMAIN nodes :
  /\ TotalCapacityUsage(i) <= TotalCapacityUsage(j)
  /\ j < i => TotalCapacityUsage(i) < TotalCapacityUsage(j)

(* All queries of the most loaded node are to move to the least loaded one,  *)
(* named by the address of its socket's peer and the port it reported.       *)
(* `meant` remembers the client the source is, for the properties.           *)
Redistribute ==
  /\ migPc = "deciding"
  /\ \E max, min \in DOMAIN nodes :
        /\ FirstMax(max) /\ FirstMin(min)
        /\ decision' = IF max = min THEN {}
                       ELSE {[src |-> nodes[max].id, dst |-> nodes[min].id,
                              meant |-> owner[nodes[max].id],
                              addr |-> owner[nodes[min].id],
                              port |-> nodes[min].port]}
  /\ infoMutex' = "free"
  /\ migPc' = "send"
  /\ UNCHANGED <<process, mainPc, handlerPc, updMutex, isUpdateReady, bStop, sockfds,
                 locals, nodes, count, sent, netVars>>

(* write() to the source's descriptor, whatever that is by now: it may be    *)
(* closed, or another client's.  Writing to a connection that was reset      *)
(* fails the first time and raises SIGPIPE the second.                       *)
Write(d) ==
  LET c == owner[d.src] IN
  \/ /\ c = Nobody
     /\ UNCHANGED <<process, conn, sent>>
  \/ /\ c # Nobody /\ conn[c] \in {"up", "fin"}
     /\ sent' = sent \cup {[to |-> c, d |-> d]}
     /\ UNCHANGED <<process, conn>>
  \/ /\ c # Nobody /\ conn[c] = "reset"
     /\ conn' = [conn EXCEPT ![c] = "dead"]
     /\ UNCHANGED <<process, sent>>
  \/ /\ c # Nobody /\ conn[c] = "dead"
     /\ process' = "killed"
     /\ UNCHANGED <<conn, sent>>

SendDecision ==
  /\ migPc = "send"
  /\ \/ /\ count = 0
        /\ \E d \in decision : Write(d)
        /\ count' = count + 1
     \/ /\ count = 1 \/ decision = {}
        /\ UNCHANGED <<process, conn, sent, count>>
  /\ decision' = {}
  /\ migPc' = "lock"
  /\ UNCHANGED <<mainPc, handlerPc, locks, isUpdateReady, bStop, sockfds,
                 locals, nodes, owner, backlog, net, reports>>

Mig ==
  /\ process = "running"
  /\ \/ MigLock \/ MigCheck \/ MigWoken \/ MigSleep
     \/ RedistributeLock \/ Redistribute \/ SendDecision

Spurious == process = "running" /\ SpuriousWakeup

(* The process is gone: nothing happens any more.                            *)
Ended == process # "running" /\ UNCHANGED vars

-----------------------------------------------------------------------------
Next == Environment \/ Main \/ LoopError \/ Interrupt \/ Handler \/ Mig \/ Spurious \/ Ended

Spec == Init /\ [][Next]_vars

(* The scheduler runs every thread that can run.  Clients, the user and       *)
(* failures of select() are never obliged to act.  Spurious wake-ups, each of *)
(* which takes mutexUpdateReady for a moment, do not go on for ever; reports  *)
(* do not either, so weak fairness suffices for who waits for a mutex.        *)
Fairness ==
  /\ WF_vars(Main)
  /\ WF_vars(Handler)
  /\ WF_vars(Mig)
  /\ <>[][~Spurious]_vars

FairSpec == Spec /\ Fairness

-----------------------------------------------------------------------------
(* Safety.                                                                   *)

(* redistributeLoad never walks the list of nodes while main is between      *)
(* taking and releasing mutexNodeInfos in addNode or updateNodeInfo.         *)
NodeInfosExclusive == ~(migPc = "deciding" /\ mainPc \in {"adding", "update"})

(* redistributeLoad dereferences nodes.begin() without a check: no round may *)
(* begin, whatever wakes the thread, before some node has been added.        *)
DecidesOnSomeNode ==
  migPc \in {"sleep", "redistribute", "deciding"} => nodes # <<>>

(* addNode runs after the socket is put into sockfds and outside its mutex;  *)
(* still every monitored client is a node by the time a report of it is      *)
(* read, so updateNodeInfo, whose result is ignored, always finds it.        *)
MonitoredKnown ==
  \A i \in Slots : sockfds[i] \in ClientFds => Known(sockfds[i]) \/ sockfds[i] = newfd

(* One socket, one node: departed nodes stay in the list and descriptors are *)
(* reused, yet no identifier occurs twice.                                   *)
UniqueNodes ==
  \A i, j \in DOMAIN nodes : nodes[i].id = nodes[j].id => i = j

(* The scan works on a copy of sockfds; what it reads and closes is still    *)
(* what the table holds, so the re-check before close() never fails.         *)
SnapshotCurrent ==
  mainPc \in {"scan", "updLock", "infoLock", "update", "notify"} =>
     \A i \in Due : sockfds[i] = temp[i]

(* sockfds holds open sockets only, each once: closing a socket and freeing  *)
(* its slot, accepting and storing go together.                              *)
MonitoredOpen ==
  \A i, j \in Slots : sockfds[i] \in ClientFds =>
     owner[sockfds[i]] # Nobody /\ (sockfds[i] = sockfds[j] => i = j)

(* A stop cannot be missed as an update can: bStop is set and signalled      *)
(* under the mutex, and looked at before each wait.                          *)
NoLostStop == bStop => migPc # "wait"

(* The decision is sent to the node that is the source of the migration      *)
(* (manageMigration).  False: the descriptor changed hands in between.       *)
SentToSource == \A m \in sent : m.to = m.d.meant

-----------------------------------------------------------------------------
(* Liveness, under FairSpec.                                                 *)

Monitored(c) == \E i \in Slots : sockfds[i] \in ClientFds /\ owner[sockfds[i]] = c

(* What a monitored client sends is read, though the main thread takes both  *)
(* mutexes for each report and the migration thread holds them in turn.      *)
ReportRead ==
  \A c \in Clients :
     (Monitored(c) /\ net[c] # <<>>) ~> (net[c] = <<>> \/ process # "running")

(* The slot of a client that left is freed for another.                      *)
LeaverRemoved ==
  \A c \in Clients :
     (Monitored(c) /\ conn[c] = "fin") ~> (conn[c] = "closed" \/ process # "running")

(* An update made while the migration thread waits starts a round: from      *)
(* before it is signalled, though main still holds the mutex then and may    *)
(* take it for the next report before the thread that was woken does.        *)
WaitingThreadReacts ==
  (mainPc = "notify" /\ migPc = "wait") ~> (migPc = "sleep" \/ process # "running")

(* stopServer, called when the loop ends, brings the process to an end: the  *)
(* join does not wait for ever, wherever the migration thread is.            *)
StopTerminates == (mainPc = "stop") ~> (process # "running")

(* This will stop with a Ctrl+C (receivingClientReport).  False: the handler *)
(* waits for a mutex main holds, or joins a thread that does.                *)
InterruptStops == (handlerPc = "lock") ~> (process # "running")

(* isUpdateReady tells the migration manager that an update is available for *)
(* a new decision (AQSIOSCoordinator.h).  False: it may wait regardless.     *)
UpdateConsidered == isUpdateReady ~> (~isUpdateReady \/ process # "running")

-----------------------------------------------------------------------------
(* The coordinator implements MigrationService.                              *)

Members == {nodes[i].id : i \in DOMAIN nodes}

Round == CASE migPc \in {"sleep", "redistribute", "deciding"} -> "deciding"
           [] migPc = "send"                                  -> "decided"
           [] OTHER                                           -> "idle"

Service == INSTANCE MigrationService WITH
  Node <- ClientFds, members <- Members, fresh <- isUpdateReady,
  round <- Round, plan <- {<<d.src, d.dst>> : d \in decision}, issued <- count

(* Every step of the threads is a step of the service or none: rounds are    *)
(* caused by reports although the thread wakes for nothing, for a stop and   *)
(* for reports alike, and concern two nodes that were added.                 *)
ImplementsService == Service!Spec
=============================================================================
