--------------------------- MODULE ServerTypeProofs ---------------------------
(***************************************************************************)
(* Proofs about Server, for every number of connections, descriptors,      *)
(* handlers, workers and commands and every buffer size, with and without  *)
(* a shutdown under way: the inductive invariant, and that the steps keep  *)
(* the types.                                                              *)
(***************************************************************************)
EXTENDS Server, TLAPS

(* TypeOK by goroutine.                                                    *)
ClientTypes ==
  /\ client \in [Conn -> {"new", "backlog", "connected", "closed"}]
  /\ call \in [Conn -> Command]
  /\ unread \in [Conn -> BOOLEAN]
  /\ got \in [Conn -> Seq(Result)]

ProcessTypes ==
  /\ proc \in {"running", "exited", "fatal", "panicked"}
  /\ fdTable \in [Fd -> Conn \cup {Nil}]

ListenerTypes ==
  /\ lpc \in {"listen", "check", "accept", "add", "done"}
  /\ listener \in {"nil", "open", "closed"}
  /\ accepted \in Conn \cup {Nil}
  /\ nextIO \in Nat

Work == [fd : Fd \cup {Nil}, conn : Conn \cup {Nil}, cmd : Command]

HandlerTypes ==
  /\ hpc \in [Handler -> {"wait", "events", "read", "dispatch", "await", "close",
                          "delete", "spin"}]
  /\ mu \in [Handler -> BOOLEAN]
  /\ conns \in [Handler -> [Fd -> Conn \cup {Nil}]]
  /\ epoll \in [Handler -> SUBSET Conn]
  /\ epollOpen \in [Handler -> BOOLEAN]
  /\ events \in [Handler -> SUBSET Fd]
  /\ cur \in [Handler -> Work]
  /\ replyCh \in [Handler -> Seq(Result)]

WorkerTypes ==
  /\ wpc \in [Worker -> {"run", "exited"}]
  /\ dict \in [Worker -> [Key -> Value \cup {Nil}]]
  /\ taskCh \in [Worker -> Seq(Task)]
  /\ closed \in [Worker -> BOOLEAN]
  /\ cancelled \in [Worker -> BOOLEAN]

SignalTypes ==
  /\ status \in {"Idle", "Shutdown"}
  /\ spc \in {"signal", "listener", "cancel", "close", "join", "handler", "done"}
  /\ si \in Handler \cup Worker

(* What is in a socket is a command, and so is what a handler dispatches;  *)
(* AddConn and Read have a connection in hand.                             *)
InHand ==
  /\ \A c \in Conn : unread[c] => call[c] # Nil
  /\ lpc = "add" => accepted # Nil
  /\ \A h \in Handler :
       /\ hpc[h] \in {"read", "dispatch", "await", "close", "delete"} =>
            cur[h].fd \in Fd /\ cur[h].conn \in Conn
       /\ hpc[h] \in {"dispatch", "await"} => cur[h].cmd \in Cmd

TypeInv ==
  /\ ClientTypes /\ ProcessTypes /\ ListenerTypes /\ HandlerTypes /\ WorkerTypes
  /\ SignalTypes /\ InHand

(* The connections.  The listener holds an open connection that no handler *)
(* knows yet; a connection has one descriptor, and only once accepted.     *)
Known(c) == (\E f \in Fd : fdTable[f] = c) \/ (\E h \in Handler, f \in Fd : conns[h][f] = c)

ListenerInv ==
  /\ lpc # "add" => accepted = Nil
  /\ lpc = "add" => /\ \E f \in Fd : fdTable[f] = accepted
                    /\ \A h \in Handler, f \in Fd : conns[h][f] # accepted
  /\ \A f, g \in Fd : fdTable[f] = fdTable[g] /\ fdTable[f] # Nil => f = g
  /\ \A c \in Conn : client[c] \in {"new", "backlog"} => ~Known(c)

(* An entry of h.conns denotes an open connection, except while closeConn  *)
(* is between conn.Close and delete; then it denotes a closed one, though  *)
(* the descriptor may be in use again.                                     *)
Closing(h, f) == hpc[h] = "delete" /\ cur[h].fd = f

ConnsInv ==
  \A h \in Handler :
    /\ mu[h] <=> hpc[h] = "delete"
    /\ hpc[h] \in {"read", "dispatch", "await", "close", "delete"} =>
         conns[h][cur[h].fd] = cur[h].conn
    /\ \A f \in Fd : conns[h][f] # Nil => (fdTable[f] = conns[h][f] <=> ~Closing(h, f))

(* An open connection that was handed over has exactly one handler.        *)
HandlersInv ==
  /\ \A f \in Fd : fdTable[f] \notin {Nil, accepted} =>
       \E h \in Handler : conns[h][f] = fdTable[f]
  /\ \A f \in Fd, g, h \in Handler :
       fdTable[f] # Nil /\ conns[g][f] = fdTable[f] /\ conns[h][f] = fdTable[f] => g = h

ConnInv == ListenerInv /\ ConnsInv /\ HandlersInv

(* The command in a handler's hands is the one its connection waits for.   *)
Asked ==
  \A h \in Handler : hpc[h] \in {"dispatch", "await"} =>
    call[cur[h].conn] = cur[h].cmd /\ ~unread[cur[h].conn]

(* The types by goroutine are the types.                                   *)
LEMMA TypesSplit ==
  TypeOK <=> /\ ClientTypes /\ ProcessTypes /\ ListenerTypes /\ HandlerTypes /\ WorkerTypes
             /\ SignalTypes
BY DEF TypeOK, ClientTypes, ProcessTypes, ListenerTypes, HandlerTypes, WorkerTypes, SignalTypes,
       Work

(* The state NewServer leaves is well typed.                               *)
LEMMA TypeInit == Init => TypeInv
<1> SUFFICES ASSUME Init PROVE TypeInv
  OBVIOUS
<1> USE ServerAssumption
<1>1. unread \in [Conn -> BOOLEAN]
  BY Zenon DEF Init
<1>2. mu \in [Handler -> BOOLEAN] /\ epollOpen \in [Handler -> BOOLEAN]
  BY Zenon DEF Init
<1>3. closed \in [Worker -> BOOLEAN] /\ cancelled \in [Worker -> BOOLEAN]
  BY Zenon DEF Init
<1>4. ClientTypes /\ ProcessTypes /\ ListenerTypes
  BY <1>1 DEF Init, ClientTypes, ProcessTypes, ListenerTypes, Command
<1>5. HandlerTypes
  BY <1>2 DEF Init, HandlerTypes, Work, NoCur, Command
<1>6. WorkerTypes /\ SignalTypes
  BY <1>3 DEF Init, WorkerTypes, SignalTypes, Worker
<1>7. InHand
  BY DEF Init, InHand
<1> QED
  BY <1>4, <1>5, <1>6, <1>7 DEF TypeInv
(* Variables that do not change keep their types.                          *)
LEMMA Frames ==
  /\ ClientTypes /\ UNCHANGED clientVars => ClientTypes'
  /\ ProcessTypes /\ UNCHANGED <<proc, fdTable>> => ProcessTypes'
  /\ ListenerTypes /\ UNCHANGED listenerVars => ListenerTypes'
  /\ HandlerTypes /\ UNCHANGED handlerVars => HandlerTypes'
  /\ WorkerTypes /\ UNCHANGED workerVars => WorkerTypes'
  /\ SignalTypes /\ UNCHANGED signalVars => SignalTypes'
  /\ InHand /\ UNCHANGED <<call, unread, lpc, accepted, hpc, cur>> => InHand'
<1>1. ClientTypes /\ UNCHANGED clientVars => ClientTypes'
  BY DEF ClientTypes, clientVars
<1>2. ProcessTypes /\ UNCHANGED <<proc, fdTable>> => ProcessTypes'
  BY DEF ProcessTypes
<1>3. ListenerTypes /\ UNCHANGED listenerVars => ListenerTypes'
  BY DEF ListenerTypes, listenerVars
<1>4. HandlerTypes /\ UNCHANGED handlerVars => HandlerTypes'
  BY DEF HandlerTypes, handlerVars
<1>5. WorkerTypes /\ UNCHANGED workerVars => WorkerTypes'
  BY DEF WorkerTypes, workerVars
<1>6. SignalTypes /\ UNCHANGED signalVars => SignalTypes'
  BY DEF SignalTypes, signalVars
<1>7. InHand /\ UNCHANGED <<call, unread, lpc, accepted, hpc, cur>> => InHand'
  BY DEF InHand
<1> QED
  BY <1>1, <1>2, <1>3, <1>4, <1>5, <1>6, <1>7

(* Closing connections keeps what is in the sockets well typed.            *)
LEMMA DisconnectTypes ==
  ASSUME TypeInv, NEW C, Disconnect(C)
  PROVE  ClientTypes' /\ \A c \in Conn : unread'[c] => call'[c] # Nil
<1>1. unread' \in [Conn -> BOOLEAN]
  BY Zenon DEF Disconnect
<1>2. ClientTypes'
  BY <1>1 DEF Disconnect, TypeInv, ClientTypes, Command
<1>3. ASSUME NEW c \in Conn, unread'[c] PROVE call'[c] # Nil
  <2>1. unread[c] /\ c \notin C
    BY <1>3, Zenon DEF Disconnect
  <2> QED
    BY <2>1 DEF Disconnect, TypeInv, InHand
<1> QED
  BY <1>2, <1>3

(* What clients do keeps the types.                                        *)
LEMMA ClientStepTypes ==
  ASSUME TypeInv, NEW c \in Conn, ClientStep(c)
  PROVE  TypeInv'
<1> USE ServerAssumption DEF TypeInv
<1>1. CASE Connect(c) \/ Close(c)
  <2>1. ClientTypes'
    BY Zenon, <1>1 DEF Connect, Close, ClientTypes
  <2>2. UNCHANGED <<proc, call, unread, fdTable, listenerVars, handlerVars, workerVars, signalVars>>
    BY <1>1 DEF Connect, Close
  <2> QED
    BY <2>1, <2>2, Frames DEF listenerVars, handlerVars
<1>2. ASSUME NEW cmd \in Cmd, Send(c, cmd) PROVE TypeInv'
  <2>1. unread' \in [Conn -> BOOLEAN]
    BY <1>2, Zenon DEF Send, ClientTypes
  <2>2. ClientTypes'
    BY <1>2, <2>1 DEF Send, ClientTypes, Command
  <2>3. UNCHANGED <<proc, fdTable, listenerVars, handlerVars, workerVars, signalVars>>
    BY <1>2 DEF Send
  <2>4. ASSUME NEW d \in Conn, unread'[d] PROVE call'[d] # Nil
    BY <1>2, <2>4 DEF Send, ClientTypes, InHand
  <2>5. InHand'
    BY <2>3, <2>4 DEF InHand, listenerVars, handlerVars
  <2> QED
    BY <2>2, <2>3, <2>5, Frames
<1> QED
  BY <1>1, <1>2 DEF ClientStep

(* What the listener does keeps the types.                                 *)
LEMMA ListenerStepTypes ==
  ASSUME TypeInv, ListenerStep
  PROVE  TypeInv'
<1> USE ServerAssumption DEF TypeInv
<1>1. CASE Listen \/ ListenFails \/ AcceptFails
  <2>1. ListenerTypes' /\ ProcessTypes' /\ InHand'
    BY <1>1 DEF Listen, ListenFails, AcceptFails, ListenerTypes, ProcessTypes, InHand,
                clientVars, listenerVars, handlerVars
  <2>2. UNCHANGED <<clientVars, handlerVars, workerVars, signalVars>>
    BY <1>1 DEF Listen, ListenFails, AcceptFails
  <2> QED
    BY <2>1, <2>2, Frames
<1>2. CASE CheckStatus
  <2>1. ClientTypes' /\ \A c \in Conn : unread'[c] => call'[c] # Nil
    <3>1. CASE status = "Shutdown"
      BY <1>2, <3>1, DisconnectTypes DEF CheckStatus, CloseListener
    <3>2. CASE status # "Shutdown"
      BY <1>2, <3>2, Frames DEF CheckStatus, clientVars, InHand
    <3> QED
      BY <3>1, <3>2
  <2>2. ListenerTypes'
    BY <1>2 DEF CheckStatus, CloseListener, ListenerTypes
  <2>3. UNCHANGED <<proc, fdTable, accepted, handlerVars, workerVars, signalVars>>
    BY <1>2 DEF CheckStatus
  <2>4. InHand'
    BY <1>2, <2>1, <2>3 DEF CheckStatus, InHand, handlerVars
  <2> QED
    BY <2>1, <2>2, <2>3, <2>4, Frames
<1>3. ASSUME NEW c \in Conn, Accept(c) PROVE TypeInv'
  <2>1. ClientTypes' /\ ProcessTypes' /\ ListenerTypes'
    BY <1>3 DEF Accept, ClientTypes, ProcessTypes, ListenerTypes
  <2>2. UNCHANGED <<call, unread, handlerVars, workerVars, signalVars>>
    BY <1>3 DEF Accept
  <2>3. InHand'
    BY <1>3, <2>2 DEF Accept, InHand, handlerVars
  <2> QED
    BY <2>1, <2>2, <2>3, Frames
<1>4. CASE AddConn
  <2> DEFINE h == nextIO % NumHandlers
  <2>1. ListenerTypes' /\ UNCHANGED <<proc, clientVars, fdTable, workerVars, signalVars>>
    BY <1>4 DEF AddConn, ListenerTypes
  <2>2. h \in Handler /\ accepted \in Conn
    BY <1>4 DEF AddConn, ListenerTypes, InHand, Handler
  <2>3. conns' \in [Handler -> [Fd -> Conn \cup {Nil}]]
    BY Zenon, <1>4, <2>2 DEF AddConn, HandlerTypes
  <2>4. epoll' \in [Handler -> SUBSET Conn]
    BY <1>4, <2>2 DEF AddConn, HandlerTypes
  <2>5. HandlerTypes'
    BY <1>4, <2>3, <2>4 DEF AddConn, HandlerTypes
  <2>6. InHand'
    BY <1>4 DEF AddConn, InHand, clientVars
  <2> QED
    BY <2>1, <2>5, <2>6, Frames
<1> QED
  BY <1>1, <1>2, <1>3, <1>4 DEF ListenerStep

(* While a handler works for a connection, its descriptor is open, and no  *)
(* other handler works for it.                                             *)
LEMMA CurOpen ==
  ASSUME TypeInv, ConnInv, NEW h \in Handler,
         hpc[h] \in {"read", "dispatch", "await", "close"}
  PROVE  /\ fdTable[cur[h].fd] = cur[h].conn
         /\ client[cur[h].conn] \notin {"new", "backlog"}
         /\ \A g \in Handler : /\ hpc[g] \in {"read", "dispatch", "await", "close"}
                               /\ cur[g].conn = cur[h].conn
                               => g = h
<1>1. ASSUME NEW g \in Handler, hpc[g] \in {"read", "dispatch", "await", "close"}
      PROVE  /\ cur[g].fd \in Fd /\ cur[g].conn \in Conn
             /\ conns[g][cur[g].fd] = cur[g].conn
             /\ fdTable[cur[g].fd] = cur[g].conn
             /\ cur[g].conn # Nil
  BY <1>1, ServerAssumption DEF TypeInv, InHand, ConnInv, ConnsInv, Closing
<1>2. ASSUME NEW g \in Handler, hpc[g] \in {"read", "dispatch", "await", "close"},
             cur[g].conn = cur[h].conn
      PROVE  g = h
  <2>1. cur[g].fd = cur[h].fd
    BY <1>1, <1>2 DEF ConnInv, ListenerInv
  <2> QED
    BY <1>1, <1>2, <2>1 DEF ConnInv, HandlersInv
<1>3. client[cur[h].conn] \notin {"new", "backlog"}
  BY <1>1 DEF ConnInv, ListenerInv, Known
<1> QED
  BY <1>1, <1>2, <1>3

(* dispatch sends to a worker there is, and a keyed command to the owner.  *)
LEMMA TargetsAreWorkers ==
  ASSUME NEW cmd \in Cmd
  PROVE  Targets(cmd) \subseteq Worker /\ \A k \in Key : getPartitionID(k) \in Worker
<1>1. \A k \in Key : getPartitionID(k) \in Worker
  BY ServerAssumption DEF getPartitionID, Worker
<1> QED
  BY <1>1, ServerAssumption DEF Targets

(* What an I/O handler does keeps the types.                               *)
LEMMA HandlerStepTypes ==
  ASSUME TypeInv, ConnInv, Asked, NEW h \in Handler, HandlerStep(h)
  PROVE  TypeInv'
<1> USE DEF TypeInv
<1>1. CASE Wait(h) \/ NextBatch(h) \/ ReadFails(h)
  <2>1. HandlerTypes'
    <3>1. hpc' \in [Handler -> {"wait", "events", "read", "dispatch", "await", "close",
                                "delete", "spin"}]
      <4>1. PICK to \in {"wait", "events", "close", "spin"} : hpc' = [hpc EXCEPT ![h] = to]
        BY Zenon, <1>1 DEF Wait, NextBatch, ReadFails, Goto
      <4> QED
        BY <4>1 DEF HandlerTypes
    <3>2. events' \in [Handler -> SUBSET Fd]
      <4>1. events' = events \/ \E ready \in SUBSET Fd : events' = [events EXCEPT ![h] = ready]
        BY Zenon, <1>1 DEF Wait, NextBatch, ReadFails
      <4>2. events \in [Handler -> SUBSET Fd]
        BY DEF HandlerTypes
      <4> QED
        BY <4>1, <4>2
    <3> QED
      BY Zenon, <1>1, <3>1, <3>2 DEF Wait, NextBatch, ReadFails, HandlerTypes
  <2>2. UNCHANGED <<proc, clientVars, fdTable, listenerVars, cur, workerVars, signalVars>>
    BY Zenon, <1>1 DEF Wait, NextBatch, ReadFails
  <2>3. \A g \in Handler : hpc'[g] = hpc[g] \/ hpc'[g] \in {"wait", "events", "spin"}
                           \/ (hpc[g] = "read" /\ hpc'[g] = "close")
    BY Zenon, <1>1 DEF Wait, NextBatch, ReadFails, Goto, HandlerTypes
  <2>4. InHand'
    BY <2>2, <2>3 DEF InHand, clientVars, listenerVars
  <2> QED
    BY <2>1, <2>2, <2>4, Frames
<1>2. CASE Lookup(h)
  <2>1. UNCHANGED <<proc, clientVars, fdTable, listenerVars, workerVars, signalVars>>
    BY <1>2 DEF Lookup
  <2>2. PICK f \in events[h] :
          /\ events' = [events EXCEPT ![h] = @ \ {f}]
          /\ IF conns[h][f] = Nil
             THEN UNCHANGED <<hpc, cur>>
             ELSE /\ hpc' = [hpc EXCEPT ![h] = "read"]
                  /\ cur' = [cur EXCEPT ![h] = [fd |-> f, conn |-> conns[h][f], cmd |-> Nil]]
    BY Zenon, <1>2 DEF Lookup
  <2>3. f \in Fd /\ conns[h][f] \in Conn \cup {Nil}
    BY DEF HandlerTypes
  <2>4. HandlerTypes'
    <3>1. events' \in [Handler -> SUBSET Fd]
      BY <2>2 DEF HandlerTypes
    <3>2. [fd |-> f, conn |-> conns[h][f], cmd |-> Nil] \in Work
      BY <2>3 DEF Work, Command
    <3>3. cur' \in [Handler -> Work]
      <4>1. cur \in [Handler -> Work]
        BY DEF HandlerTypes
      <4> QED
        BY <2>2, <3>2, <4>1
    <3>4. hpc' \in [Handler -> {"wait", "events", "read", "dispatch", "await", "close",
                                "delete", "spin"}]
      BY Zenon, <2>2 DEF HandlerTypes
    <3> QED
      BY <1>2, <3>1, <3>3, <3>4 DEF Lookup, HandlerTypes
  <2>5. ASSUME NEW g \in Handler
        PROVE  /\ hpc'[g] \in {"read", "dispatch", "await", "close", "delete"} =>
                    cur'[g].fd \in Fd /\ cur'[g].conn \in Conn
               /\ hpc'[g] \in {"dispatch", "await"} => cur'[g].cmd \in Cmd
    BY <2>2, <2>3 DEF HandlerTypes, InHand
  <2>6. InHand'
    BY <2>1, <2>5 DEF InHand, clientVars, listenerVars
  <2> QED
    BY <2>1, <2>4, <2>6, Frames
<1>3. CASE Read(h)
  <2> DEFINE c == cur[h].conn
  <2>1. c \in Conn /\ call[c] \in Cmd
    BY <1>3 DEF Read, Goto, InHand, ClientTypes, Command
  <2>2. unread' \in [Conn -> BOOLEAN]
    BY <1>3, Zenon DEF Read, ClientTypes
  <2>3. ClientTypes'
    BY <1>3, <2>2 DEF Read, ClientTypes
  <2>4. HandlerTypes'
    <3>1. cur' = [cur EXCEPT ![h] = [cur[h] EXCEPT !.cmd = call[c]]]
      BY <1>3 DEF Read
    <3>2. cur[h] \in Work /\ call[c] \in Command
      BY <2>1 DEF HandlerTypes, Command
    <3>3. [cur[h] EXCEPT !.cmd = call[c]] \in Work
      BY <3>2 DEF Work
    <3>4. cur' \in [Handler -> Work]
      BY <3>1, <3>3 DEF HandlerTypes
    <3> QED
      BY <1>3, <3>4 DEF Read, Goto, HandlerTypes
  <2>5. UNCHANGED <<proc, call, fdTable, listenerVars, workerVars, signalVars>>
    BY <1>3 DEF Read
  <2>6. ASSUME NEW d \in Conn, unread'[d] PROVE call'[d] # Nil
    BY <1>3, <2>6 DEF Read, ClientTypes, InHand
  <2>7. ASSUME NEW g \in Handler
        PROVE  /\ hpc'[g] \in {"read", "dispatch", "await", "close", "delete"} =>
                    cur'[g].fd \in Fd /\ cur'[g].conn \in Conn
               /\ hpc'[g] \in {"dispatch", "await"} => cur'[g].cmd \in Cmd
    BY <1>3, <2>1 DEF Read, Goto, HandlerTypes, Work, InHand
  <2>8. InHand'
    BY <2>5, <2>6, <2>7 DEF InHand, listenerVars
  <2> QED
    BY <2>3, <2>4, <2>5, <2>8, Frames
<1>4. CASE CloseFd(h)
  <2>1. ClientTypes' /\ \A c \in Conn : unread'[c] => call'[c] # Nil
    BY <1>4, DisconnectTypes DEF CloseFd
  <2>2. mu' \in [Handler -> BOOLEAN]
    BY <1>4, Zenon DEF CloseFd, HandlerTypes
  <2>3. ProcessTypes' /\ HandlerTypes'
    BY Zenon, <1>4, <2>2 DEF CloseFd, Goto, ProcessTypes, HandlerTypes
  <2>4. UNCHANGED <<listenerVars, cur, workerVars, signalVars>>
    BY <1>4 DEF CloseFd
  <2>5. InHand'
    BY Zenon, <1>4, <2>1, <2>4 DEF CloseFd, Goto, HandlerTypes, InHand, listenerVars
  <2> QED
    BY <2>1, <2>3, <2>4, <2>5, Frames
<1>5. CASE DeleteConn(h)
  <2>1. mu' \in [Handler -> BOOLEAN]
    BY <1>5, Zenon DEF DeleteConn, HandlerTypes
  <2>2. HandlerTypes'
    BY Zenon, <1>5, <2>1 DEF DeleteConn, Goto, HandlerTypes, Work, NoCur, Command
  <2>3. UNCHANGED <<proc, clientVars, fdTable, listenerVars, workerVars, signalVars>>
    BY <1>5 DEF DeleteConn
  <2>4. InHand'
    BY Zenon, <1>5, <2>3 DEF DeleteConn, Goto, HandlerTypes, InHand, clientVars, listenerVars
  <2> QED
    BY <2>2, <2>3, <2>4, Frames
<1>6. CASE Dispatch(h)
  <2>1. HandlerTypes' /\ cur[h].cmd \in Cmd
    BY Zenon, <1>6 DEF Dispatch, Goto, HandlerTypes, InHand
  <2>2. WorkerTypes'
    <3>1. PICK w \in Targets(cur[h].cmd) :
            taskCh' = [taskCh EXCEPT ![w] = Append(@, [h |-> h, cmd |-> cur[h].cmd])]
      BY Zenon, <1>6 DEF Dispatch
    <3>2. [h |-> h, cmd |-> cur[h].cmd] \in Task
      BY <2>1 DEF Task
    <3>3. w \in Worker
      BY <2>1, TargetsAreWorkers
    <3>4. Append(taskCh[w], [h |-> h, cmd |-> cur[h].cmd]) \in Seq(Task)
      BY <3>2, <3>3 DEF WorkerTypes
    <3>5. taskCh' \in [Worker -> Seq(Task)]
      BY <3>1, <3>3, <3>4 DEF WorkerTypes
    <3> QED
      BY <1>6, <3>5 DEF Dispatch, WorkerTypes
  <2>3. UNCHANGED <<proc, clientVars, fdTable, listenerVars, signalVars>>
    BY <1>6 DEF Dispatch
  <2>4. InHand'
    BY Zenon, <1>6, <2>3 DEF Dispatch, Goto, HandlerTypes, InHand, clientVars, listenerVars
  <2> QED
    BY <2>1, <2>2, <2>3, <2>4, Frames
<1>7. CASE DispatchPanics(h)
  <2>1. ProcessTypes' /\ UNCHANGED <<clientVars, listenerVars, handlerVars, workerVars, signalVars>>
    BY <1>7 DEF DispatchPanics, ProcessTypes
  <2> QED
    BY <2>1, Frames DEF clientVars, listenerVars, handlerVars
<1>8. CASE WriteReply(h)
  <2>1. ClientTypes'
    <3>1. call' \in [Conn -> Command]
      BY Zenon, <1>8 DEF WriteReply, ClientTypes, Command
    <3>2. got' \in [Conn -> Seq(Result)]
      <4>1. \A d \in Conn : got[d] \in Seq(Result) /\ got[d] \o replyCh[h] \in Seq(Result)
        BY DEF ClientTypes, HandlerTypes
      <4> QED
        BY Zenon, <1>8, <4>1 DEF WriteReply
    <3> QED
      BY Zenon, <1>8, <3>1, <3>2 DEF WriteReply, ClientTypes
  <2>2. HandlerTypes'
    <3>1. NoCur \in Work /\ <<>> \in Seq(Result)
      BY DEF NoCur, Work, Command
    <3>2. /\ hpc' = [hpc EXCEPT ![h] = "events"] /\ replyCh' = [replyCh EXCEPT ![h] = <<>>]
          /\ cur' = [cur EXCEPT ![h] = NoCur]
          /\ UNCHANGED <<mu, conns, epoll, epollOpen, events>>
      BY Zenon, <1>8 DEF WriteReply, Goto
    <3> QED
      BY <3>1, <3>2 DEF HandlerTypes
  <2>3. UNCHANGED <<proc, unread, fdTable, listenerVars, workerVars, signalVars>>
    BY Zenon, <1>8 DEF WriteReply
  <2>4. cur[h].conn \in Conn /\ fdTable[cur[h].fd] = cur[h].conn /\ ~unread[cur[h].conn]
    BY Zenon, <1>8, CurOpen DEF WriteReply, Goto, InHand, Asked
  <2>5. ASSUME NEW d \in Conn, unread'[d] PROVE call'[d] # Nil
    BY Zenon, <1>8, <2>4, <2>5 DEF WriteReply, InHand
  <2>6. InHand'
    BY Zenon, <1>8, <2>3, <2>5 DEF WriteReply, Goto, HandlerTypes, InHand, listenerVars
  <2> QED
    BY <2>1, <2>2, <2>3, <2>6, Frames
<1> QED
  BY <1>1, <1>2, <1>3, <1>4, <1>5, <1>6, <1>7, <1>8 DEF HandlerStep

(* A command leaves a map and yields a result.                             *)
LEMMA ExecuteTypes ==
  ASSUME NEW d \in [Key -> Value \cup {Nil}], NEW cmd \in Cmd, NEW K
  PROVE  /\ Execute(d, cmd, K).dict \in [Key -> Value \cup {Nil}]
         /\ Execute(d, cmd, K).result \in Result
<1>1. Forget(d, K) \in [Key -> Value \cup {Nil}]
  BY DEF Forget
<1>2. CASE cmd.op = "SET"
  BY <1>1, <1>2, ServerAssumption DEF Execute, cmdSET, Result
<1>3. CASE cmd.op = "GET"
  BY <1>1, <1>3, ServerAssumption DEF Execute, cmdGET, Result
<1>4. CASE cmd.op = "PING"
  BY <1>4, ServerAssumption DEF Execute, cmdPING, Result
<1>5. CASE cmd.op \notin {"SET", "GET", "PING"}
  BY <1>5 DEF Execute, Result
<1> QED
  BY Zenon, <1>2, <1>3, <1>4, <1>5

(* What a worker does keeps the types.                                     *)
LEMMA WorkerStepTypes ==
  ASSUME TypeInv, NEW w \in Worker, WorkerStep(w)
  PROVE  TypeInv'
<1> USE DEF TypeInv
<1>1. CASE ExecuteAndResponse(w)
  <2> DEFINE task == Head(taskCh[w])
  <2>1. PICK K \in SUBSET Volatile :
          /\ dict' = [dict EXCEPT ![w] = Execute(dict[w], task.cmd, K).dict]
          /\ replyCh' = [replyCh EXCEPT ![task.h] =
                           Append(@, Execute(dict[w], task.cmd, K).result)]
    BY Zenon, <1>1 DEF ExecuteAndResponse
  <2>2. taskCh[w] \in Seq(Task) /\ taskCh[w] # <<>> /\ dict[w] \in [Key -> Value \cup {Nil}]
    BY Zenon, <1>1 DEF ExecuteAndResponse, WorkerTypes
  <2>3. task \in Task /\ Tail(taskCh[w]) \in Seq(Task)
    BY <2>2
  <2> DEFINE res == Execute(dict[w], task.cmd, K)
  <2>4. res.dict \in [Key -> Value \cup {Nil}] /\ res.result \in Result /\ task.h \in Handler
    BY Zenon, <2>2, <2>3, ExecuteTypes DEF Task
  <2> HIDE DEF task, res
  <2>5. dict' \in [Worker -> [Key -> Value \cup {Nil}]]
    BY Zenon, <2>1, <2>4 DEF res, WorkerTypes
  <2>6. taskCh' \in [Worker -> Seq(Task)]
    BY Zenon, <1>1, <2>3 DEF ExecuteAndResponse, WorkerTypes
  <2>7. WorkerTypes'
    BY Zenon, <1>1, <2>5, <2>6 DEF ExecuteAndResponse, WorkerTypes
  <2>8. replyCh' \in [Handler -> Seq(Result)]
    <3>1. Append(replyCh[task.h], res.result) \in Seq(Result)
      BY <2>4 DEF HandlerTypes
    <3> QED
      BY Zenon, <2>1, <2>4, <3>1 DEF res, HandlerTypes
  <2>9. UNCHANGED <<proc, clientVars, fdTable, listenerVars, hpc, mu, conns, epoll,
                    epollOpen, events, cur, signalVars>>
    BY <1>1 DEF ExecuteAndResponse
  <2>10. HandlerTypes'
    BY <2>8, <2>9 DEF HandlerTypes
  <2> QED
    BY <2>7, <2>9, <2>10, Frames DEF clientVars, listenerVars
<1>2. CASE WorkerExits(w)
  <2>1. WorkerTypes'
    BY <1>2 DEF WorkerExits, WorkerTypes
  <2>2. UNCHANGED <<proc, clientVars, fdTable, listenerVars, handlerVars, signalVars>>
    BY <1>2 DEF WorkerExits
  <2> QED
    BY <2>1, <2>2, Frames DEF clientVars, listenerVars, handlerVars
<1> QED
  BY <1>1, <1>2 DEF WorkerStep

(* What the signal goroutine does keeps the types.                         *)
LEMMA StopStepTypes ==
  ASSUME TypeInv, Signal \/ StopStep
  PROVE  TypeInv'
<1> USE DEF TypeInv
<1>1. CASE Signal \/ JoinWorker
  <2>1. SignalTypes'
    BY <1>1, ServerAssumption DEF Signal, JoinWorker, SignalTypes, Handler, Worker
  <2>2. UNCHANGED <<proc, clientVars, fdTable, listenerVars, handlerVars, workerVars>>
    BY <1>1 DEF Signal, JoinWorker
  <2> QED
    BY <2>1, <2>2, Frames DEF clientVars, listenerVars, handlerVars
<1>2. CASE StopListener
  <2>1. ClientTypes' /\ \A c \in Conn : unread'[c] => call'[c] # Nil
    <3>1. CASE listener # "nil"
      BY <1>2, <3>1, DisconnectTypes DEF StopListener, CloseListener
    <3>2. CASE listener = "nil"
      BY Zenon, <1>2, <3>2, Frames DEF StopListener, clientVars, InHand
    <3> QED
      BY <3>1, <3>2
  <2>2. ListenerTypes' /\ SignalTypes'
    BY <1>2 DEF StopListener, CloseListener, ListenerTypes, SignalTypes
  <2>3. UNCHANGED <<proc, fdTable, lpc, accepted, handlerVars, workerVars>>
    BY <1>2 DEF StopListener
  <2>4. InHand'
    BY <2>1, <2>3 DEF InHand, handlerVars
  <2> QED
    BY Zenon, <2>1, <2>2, <2>3, <2>4, Frames
<1>3. CASE CancelWorker \/ CloseTaskCh
  <2>1. cancelled' \in [Worker -> BOOLEAN] /\ closed' \in [Worker -> BOOLEAN]
    <3>1. CASE CancelWorker
      BY <3>1, Zenon DEF CancelWorker, WorkerTypes
    <3>2. CASE CloseTaskCh
      BY <3>2, Zenon DEF CloseTaskCh, WorkerTypes
    <3> QED
      BY <1>3, <3>1, <3>2
  <2>2. WorkerTypes' /\ SignalTypes'
    BY <1>3, <2>1 DEF CancelWorker, CloseTaskCh, WorkerTypes, SignalTypes
  <2>3. UNCHANGED <<proc, clientVars, fdTable, listenerVars, handlerVars>>
    BY <1>3 DEF CancelWorker, CloseTaskCh
  <2> QED
    BY <2>2, <2>3, Frames DEF clientVars, listenerVars, handlerVars
<1>4. CASE StopHandler
  <2>1. epollOpen' \in [Handler -> BOOLEAN]
    BY <1>4, Zenon DEF StopHandler, HandlerTypes
  <2>2. HandlerTypes'
    BY Zenon, <1>4, <2>1 DEF StopHandler, HandlerTypes
  <2>3. SignalTypes'
    BY <1>4, ServerAssumption DEF StopHandler, SignalTypes, Handler, Worker
  <2>4. UNCHANGED <<proc, clientVars, fdTable, listenerVars, hpc, cur, workerVars>>
    BY <1>4 DEF StopHandler
  <2> QED
    BY <2>2, <2>3, <2>4, Frames DEF clientVars, listenerVars
<1>5. CASE Exit
  <2>1. ProcessTypes' /\ UNCHANGED <<clientVars, listenerVars, handlerVars, workerVars, signalVars>>
    BY <1>5 DEF Exit, ProcessTypes
  <2> QED
    BY <2>1, Frames DEF clientVars, listenerVars, handlerVars
<1> QED
  BY <1>1, <1>2, <1>3, <1>4, <1>5 DEF StopStep
=============================================================================
