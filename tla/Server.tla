------------------------------- MODULE Server -------------------------------
(***************************************************************************)
(* The sharded server of cmd/main.go: the listener goroutine               *)
(* (single_listener_server.go), the I/O handlers with their epoll loops    *)
(* (io_handler.go), the workers that own the partitions (worker.go), and   *)
(* the signal goroutine that stops them (server.go).                       *)
(*                                                                         *)
(* A client connection sends one command and waits for its answer, as the  *)
(* gateway (cmd/gateway/main.go) and redis-cli do; it may close at any     *)
(* time.  File descriptors are reused.  A worker's Dict is a map that may  *)
(* forget volatile keys (TTL, eviction: see Dict).  A panic in any         *)
(* goroutine ends the process.                                             *)
(***************************************************************************)
EXTENDS Integers, Sequences

CONSTANTS
  Conn,         \* client connections
  Fd,           \* file descriptors left to the process for connections
  Key, Value,
  Cmd,          \* what clients send: [op, key, value]; key is the first argument, or Nil.
                \* ERR: unknown to the worker or of wrong arity; BAD: no command at all
  Hash,         \* Hash[k]: fnv32a of the key
  Volatile,     \* keys with a TTL, or that may be evicted
  Nil,
  NumHandlers,  \* s.numIOHandlers
  NumWorkers,   \* s.numWorkers
  BufferSize,   \* the buffer of a TaskCh, 1024 in the code
  MaxReq,       \* bound: commands a connection sends
  MaySignal     \* whether SIGINT or SIGTERM may arrive

ASSUME ServerAssumption ==
  /\ Hash \in [Key -> Nat]
  /\ Volatile \subseteq Key
  /\ Nil \notin Conn \cup Fd \cup Key \cup Value \cup Cmd
  /\ \A cmd \in Cmd : /\ DOMAIN cmd = {"op", "key", "value"}
                      /\ cmd.op \in {"SET", "GET", "PING", "ERR", "BAD"}
                      /\ cmd.op \in {"SET", "GET"} => cmd.key \in Key
                      /\ cmd.op = "SET" => cmd.value \in Value
                      /\ cmd.key \in Key \cup {Nil}
  /\ NumHandlers \in Nat \ {0}
  /\ NumWorkers \in Nat \ {0}
  /\ BufferSize \in Nat \ {0}
  /\ MaxReq \in Nat
  /\ MaySignal \in BOOLEAN

Handler == 0 .. NumHandlers - 1
Worker  == 0 .. NumWorkers - 1

VARIABLES
  proc,       \* "running", "exited", "fatal" (log.Fatal) or "panicked"
  status,     \* serverStatus
  \* clients and the kernel
  client,     \* client[c]: "new", "backlog", "connected" or "closed"
  call,       \* call[c]: the command c sent and awaits the answer of, or Nil
  unread,     \* unread[c]: that command is still in the socket
  got,        \* got[c]: the answers c received
  fdTable,    \* fdTable[f]: the connection open as f, or Nil
  \* listener goroutine
  lpc,        \* "listen", "check", "accept", "add" or "done"
  listener,   \* s.listener: "nil", "open" or "closed"
  accepted,   \* the connection being handed over, or Nil
  nextIO,     \* s.nextIOHandler
  \* I/O handlers
  hpc,        \* "wait", "events", "read", "dispatch", "await", "close", "delete", "spin"
  mu,         \* mu[h]: TRUE while closeConn holds h.mu
  conns,      \* conns[h][f]: h.conns
  epoll,      \* epoll[h]: the connections registered with h's epoll
  epollOpen,  \* epollOpen[h]: Stop has not closed h's epoll
  events,     \* events[h]: descriptors of the current batch still to handle
  cur,        \* cur[h]: the descriptor, connection and command in hand
  replyCh,    \* replyCh[h]: the reply channel of the task in hand
  \* workers
  wpc,        \* "run" or "exited"
  dict,       \* dict[w][k]: worker w's dictStore
  taskCh,     \* taskCh[w]: queued tasks [h, cmd]
  closed,     \* closed[w]: taskCh[w] is closed
  cancelled,  \* cancelled[w]: its context is cancelled
  \* signal goroutine
  spc,        \* "signal", "listener", "cancel", "close", "join", "handler" or "done"
  si          \* the worker or handler Stop is at

clientVars   == <<client, call, unread, got>>
listenerVars == <<lpc, listener, accepted, nextIO>>
handlerVars  == <<hpc, mu, conns, epoll, epollOpen, events, cur, replyCh>>
workerVars   == <<wpc, dict, taskCh, closed, cancelled>>
signalVars   == <<status, spc, si>>

vars == <<proc, clientVars, fdTable, listenerVars, handlerVars, workerVars, signalVars>>

(* Definitions named Faulty... are not part of the specification: each is  *)
(* the next definition with one plausible mistake, which the property it   *)
(* is paired with in PROJECT.json must notice.                             *)

Up == proc = "running"

NoCur == [fd |-> Nil, conn |-> Nil, cmd |-> Nil]
-----------------------------------------------------------------------------
(* Clients                                                                 *)

Connect(c) ==
  /\ Up
  /\ client[c] = "new" /\ listener = "open"
  /\ client' = [client EXCEPT ![c] = "backlog"]
  /\ UNCHANGED <<proc, call, unread, got, fdTable, listenerVars, handlerVars,
                 workerVars, signalVars>>

Send(c, cmd) ==
  /\ Up
  /\ client[c] = "connected" /\ call[c] = Nil /\ Len(got[c]) < MaxReq
  /\ call' = [call EXCEPT ![c] = cmd]
  /\ unread' = [unread EXCEPT ![c] = TRUE]
  /\ UNCHANGED <<proc, client, got, fdTable, listenerVars, handlerVars,
                 workerVars, signalVars>>

Close(c) ==
  /\ Up
  /\ client[c] = "connected"
  /\ client' = [client EXCEPT ![c] = "closed"]
  /\ UNCHANGED <<proc, call, unread, got, fdTable, listenerVars, handlerVars,
                 workerVars, signalVars>>

(* The server's end of each connection in C is closed.                     *)
Disconnect(C) ==
  /\ client' = [c \in Conn |-> IF c \in C THEN "closed" ELSE client[c]]
  /\ call' = [c \in Conn |-> IF c \in C THEN Nil ELSE call[c]]
  /\ unread' = [c \in Conn |-> unread[c] /\ c \notin C]
  /\ UNCHANGED got
-----------------------------------------------------------------------------
(* StartSingleListener                                                     *)

Listen ==
  /\ Up
  /\ lpc = "listen"
  /\ listener' = "open"
  /\ lpc' = "check"
  /\ UNCHANGED <<proc, clientVars, fdTable, accepted, nextIO, handlerVars,
                 workerVars, signalVars>>

(* net.Listen fails: log.Fatal.                                            *)
ListenFails ==
  /\ Up
  /\ lpc = "listen"
  /\ proc' = "fatal"
  /\ UNCHANGED <<clientVars, fdTable, listenerVars, handlerVars, workerVars, signalVars>>

Backlog == {c \in Conn : client[c] = "backlog"}

(* listener.Close(), by Stop or by the deferred call: idempotent, and the  *)
(* connections not yet accepted are reset.                                 *)
CloseListener ==
  /\ listener' = "closed"
  /\ Disconnect(Backlog)

(* The top of the loop: leave on shutdown (the deferred Close runs), else  *)
(* go and accept.                                                          *)
CheckStatus ==
  /\ Up
  /\ lpc = "check"
  /\ IF status = "Shutdown"
     THEN lpc' = "done" /\ CloseListener
     ELSE lpc' = "accept" /\ UNCHANGED <<listener, clientVars>>
  /\ UNCHANGED <<proc, fdTable, accepted, nextIO, handlerVars, workerVars, signalVars>>

Accept(c) ==
  /\ Up
  /\ lpc = "accept" /\ listener = "open"
  /\ client[c] = "backlog"
  /\ \E f \in Fd : fdTable[f] = Nil /\ fdTable' = [fdTable EXCEPT ![f] = c]
  /\ client' = [client EXCEPT ![c] = "connected"]
  /\ accepted' = c
  /\ lpc' = "add"
  /\ UNCHANGED <<proc, call, unread, got, listener, nextIO, handlerVars,
                 workerVars, signalVars>>

(* Any error of Accept ends the listener.                                  *)
FaultyAcceptErrorIsFinal ==
  /\ Up
  /\ lpc = "accept"
  /\ \/ listener = "closed"
     \/ Backlog # {} /\ \A f \in Fd : fdTable[f] # Nil
  /\ lpc' = "done"
  /\ UNCHANGED <<proc, clientVars, fdTable, listener, accepted, nextIO, handlerVars,
                 workerVars, signalVars>>

(* Accept fails: no descriptor is left, or the listener is closed.         *)
AcceptFails ==
  /\ Up
  /\ lpc = "accept"
  /\ \/ listener = "closed"
     \/ Backlog # {} /\ \A f \in Fd : fdTable[f] # Nil
  /\ lpc' = IF status = "Shutdown" THEN "done" ELSE "check"
  /\ UNCHANGED <<proc, clientVars, fdTable, listener, accepted, nextIO, handlerVars,
                 workerVars, signalVars>>

FdOf(c) == CHOOSE f \in Fd : fdTable[f] = c

(* AddConn without h.mu.                                                   *)
FaultyAddConnUnlocked ==
  LET h == nextIO % NumHandlers
  IN /\ Up
     /\ lpc = "add"
     /\ conns' = [conns EXCEPT ![h][FdOf(accepted)] = accepted]
     /\ epoll' = [epoll EXCEPT ![h] = IF epollOpen[h] THEN @ \cup {accepted} ELSE @]
     /\ nextIO' = nextIO + 1
     /\ accepted' = Nil
     /\ lpc' = "check"
     /\ UNCHANGED <<proc, clientVars, fdTable, listener, hpc, mu, epollOpen, events,
                    cur, replyCh, workerVars, signalVars>>

(* Round-robin choice and AddConn, under h.mu.  Monitor's error on a       *)
(* closed epoll is ignored.                                                *)
AddConn ==
  LET h == nextIO % NumHandlers
  IN /\ Up
     /\ lpc = "add" /\ ~mu[h]
     /\ conns' = [conns EXCEPT ![h][FdOf(accepted)] = accepted]
     /\ epoll' = [epoll EXCEPT ![h] = IF epollOpen[h] THEN @ \cup {accepted} ELSE @]
     /\ nextIO' = nextIO + 1
     /\ accepted' = Nil
     /\ lpc' = "check"
     /\ UNCHANGED <<proc, clientVars, fdTable, listener, hpc, mu, epollOpen, events,
                    cur, replyCh, workerVars, signalVars>>
-----------------------------------------------------------------------------
(* IOHandler.Run                                                           *)

Goto(h, from, to) == hpc[h] = from /\ hpc' = [hpc EXCEPT ![h] = to]

Readable(c) == unread[c] \/ client[c] = "closed"

(* Wait returns the descriptors that are readable.                         *)
Wait(h) ==
  /\ Up
  /\ Goto(h, "wait", "events")
  /\ LET ready == {f \in Fd : fdTable[f] \in epoll[h] /\ Readable(fdTable[f])}
     IN ready # {} /\ events' = [events EXCEPT ![h] = ready]
  /\ UNCHANGED <<proc, clientVars, fdTable, listenerVars, mu, conns, epoll, epollOpen,
                 cur, replyCh, workerVars, signalVars>>

(* The batch is done: Wait again.  On a closed epoll it fails at once, and *)
(* the loop spins on that error.                                           *)
NextBatch(h) ==
  /\ Up
  /\ events[h] = {}
  /\ Goto(h, "events", IF epollOpen[h] THEN "wait" ELSE "spin")
  /\ UNCHANGED <<proc, clientVars, fdTable, listenerVars, mu, conns, epoll, epollOpen,
                 events, cur, replyCh, workerVars, signalVars>>

(* The descriptor answered to is that of another event of the batch.       *)
FaultyLookupMixesEvents(h) ==
  /\ Up
  /\ hpc[h] = "events" /\ ~mu[h]
  /\ \E f, g \in events[h] :
       /\ events' = [events EXCEPT ![h] = @ \ {f}]
       /\ IF conns[h][f] = Nil
          THEN UNCHANGED <<hpc, cur>>
          ELSE /\ hpc' = [hpc EXCEPT ![h] = "read"]
               /\ cur' = [cur EXCEPT ![h] = [fd |-> g, conn |-> conns[h][f], cmd |-> Nil]]
  /\ UNCHANGED <<proc, clientVars, fdTable, listenerVars, mu, conns, epoll, epollOpen,
                 replyCh, workerVars, signalVars>>

(* Take the next event and look its connection up, under h.mu.             *)
Lookup(h) ==
  /\ Up
  /\ hpc[h] = "events" /\ ~mu[h]
  /\ \E f \in events[h] :
       /\ events' = [events EXCEPT ![h] = @ \ {f}]
       /\ IF conns[h][f] = Nil
          THEN UNCHANGED <<hpc, cur>>
          ELSE /\ hpc' = [hpc EXCEPT ![h] = "read"]
               /\ cur' = [cur EXCEPT ![h] = [fd |-> f, conn |-> conns[h][f], cmd |-> Nil]]
  /\ UNCHANGED <<proc, clientVars, fdTable, listenerVars, mu, conns, epoll, epollOpen,
                 replyCh, workerVars, signalVars>>

(* readCommandConn: a command; or bytes that are no command, the end of    *)
(* the stream, or a reset, which close the connection.                     *)
Read(h) ==
  LET c == cur[h].conn
  IN /\ Up
     /\ Goto(h, "read", "dispatch")
     /\ unread[c] /\ call[c].op # "BAD"
     /\ cur' = [cur EXCEPT ![h].cmd = call[c]]
     /\ unread' = [unread EXCEPT ![c] = FALSE]
     /\ UNCHANGED <<proc, client, call, got, fdTable, listenerVars, mu, conns, epoll,
                    epollOpen, events, replyCh, workerVars, signalVars>>

ReadFails(h) ==
  LET c == cur[h].conn
  IN /\ Up
     /\ Goto(h, "read", "close")
     /\ client[c] = "closed" \/ (unread[c] /\ call[c].op = "BAD")
     /\ UNCHANGED <<proc, clientVars, fdTable, listenerVars, mu, conns, epoll, epollOpen,
                    events, cur, replyCh, workerVars, signalVars>>

(* closeConn: conn.Close() frees the descriptor, and then the map entry is *)
(* deleted; h.mu is held throughout.                                       *)
CloseFd(h) ==
  LET c == conns[h][cur[h].fd]
  IN /\ Up
     /\ Goto(h, "close", "delete")
     /\ ~mu[h]
     /\ mu' = [mu EXCEPT ![h] = TRUE]
     /\ fdTable' = [fdTable EXCEPT ![cur[h].fd] = Nil]
     /\ epoll' = [epoll EXCEPT ![h] = @ \ {c}]
     /\ Disconnect({c})
     /\ UNCHANGED <<proc, listenerVars, conns, epollOpen, events, cur, replyCh,
                    workerVars, signalVars>>

DeleteConn(h) ==
  /\ Up
  /\ Goto(h, "delete", "events")
  /\ mu' = [mu EXCEPT ![h] = FALSE]
  /\ conns' = [conns EXCEPT ![h][cur[h].fd] = Nil]
  /\ cur' = [cur EXCEPT ![h] = NoCur]
  /\ UNCHANGED <<proc, clientVars, fdTable, listenerVars, epoll, epollOpen, events,
                 replyCh, workerVars, signalVars>>

getPartitionID(k) == Hash[k] % NumWorkers

(* Keyed commands go to any worker, like those without a key.              *)
FaultyTargetsAny(cmd) == Worker

Targets(cmd) == IF cmd.key = Nil THEN Worker ELSE {getPartitionID(cmd.key)}

(* The handler does not wait for the answer.                               *)
FaultyDispatchNoWait(h) ==
  /\ Up
  /\ Goto(h, "dispatch", "events")
  /\ \E w \in Targets(cur[h].cmd) :
       /\ ~closed[w] /\ Len(taskCh[w]) < BufferSize
       /\ taskCh' = [taskCh EXCEPT ![w] = Append(@, [h |-> h, cmd |-> cur[h].cmd])]
  /\ UNCHANGED <<proc, clientVars, fdTable, listenerVars, mu, conns, epoll, epollOpen,
                 events, cur, replyCh, wpc, dict, closed, cancelled, signalVars>>

(* dispatch: the send blocks while the channel is full, and panics if it   *)
(* is closed.                                                              *)
Dispatch(h) ==
  /\ Up
  /\ Goto(h, "dispatch", "await")
  /\ \E w \in Targets(cur[h].cmd) :
       /\ ~closed[w] /\ Len(taskCh[w]) < BufferSize
       /\ taskCh' = [taskCh EXCEPT ![w] = Append(@, [h |-> h, cmd |-> cur[h].cmd])]
  /\ UNCHANGED <<proc, clientVars, fdTable, listenerVars, mu, conns, epoll, epollOpen,
                 events, cur, replyCh, wpc, dict, closed, cancelled, signalVars>>

DispatchPanics(h) ==
  /\ Up
  /\ hpc[h] = "dispatch"
  /\ \E w \in Targets(cur[h].cmd) : closed[w]
  /\ proc' = "panicked"
  /\ UNCHANGED <<clientVars, fdTable, listenerVars, handlerVars, workerVars, signalVars>>

(* Receive the result and write it to the raw descriptor: to whatever      *)
(* connection it denotes now.  The write's error is ignored.               *)
WriteReply(h) ==
  LET c == fdTable[cur[h].fd]
  IN /\ Up
     /\ Goto(h, "await", "events")
     /\ replyCh[h] # <<>>
     /\ replyCh' = [replyCh EXCEPT ![h] = <<>>]
     /\ got' = [d \in Conn |-> IF d = c /\ client[d] = "connected"
                               THEN got[d] \o replyCh[h] ELSE got[d]]
     /\ call' = [d \in Conn |-> IF d = c THEN Nil ELSE call[d]]
     /\ cur' = [cur EXCEPT ![h] = NoCur]
     /\ UNCHANGED <<proc, client, unread, fdTable, listenerVars, mu, conns, epoll,
                    epollOpen, events, workerVars, signalVars>>
-----------------------------------------------------------------------------
(* Worker.run                                                              *)

Forget(s, K) == [k \in Key |-> IF k \in K THEN Nil ELSE s[k]]

(* A GET that deletes the expired key and still returns its value.         *)
FaultyGetReturnsExpired(d, cmd, K) == [dict |-> Forget(d, K), result |-> d[cmd.key]]

(* The commands on the Dict d: the Dict left and the result, when the      *)
(* volatile keys K expired or were evicted.                                *)
cmdSET(d, cmd, K) == [dict |-> [Forget(d, K) EXCEPT ![cmd.key] = cmd.value], result |-> "OK"]
cmdGET(d, cmd, K) == [dict |-> Forget(d, K), result |-> Forget(d, K)[cmd.key]]
cmdPING(d, cmd)   == [dict |-> d, result |-> IF cmd.key = Nil THEN "PONG" ELSE cmd.key]

Execute(d, cmd, K) ==
  CASE cmd.op = "SET"  -> cmdSET(d, cmd, K)
    [] cmd.op = "GET"  -> cmdGET(d, cmd, K)
    [] cmd.op = "PING" -> cmdPING(d, cmd)
    [] OTHER           -> [dict |-> d, result |-> "ERR"]

(* No send on ReplyCh for a command that is not known.                     *)
FaultyNoReplyToUnknown(w) ==
  /\ Up
  /\ wpc[w] = "run" /\ taskCh[w] # <<>>
  /\ \E K \in SUBSET Volatile :
       LET task == Head(taskCh[w])
           res  == Execute(dict[w], task.cmd, K)
       IN /\ dict' = [dict EXCEPT ![w] = res.dict]
          /\ replyCh' = IF task.cmd.op = "ERR" THEN replyCh
                        ELSE [replyCh EXCEPT ![task.h] = Append(@, res.result)]
  /\ taskCh' = [taskCh EXCEPT ![w] = Tail(@)]
  /\ UNCHANGED <<proc, clientVars, fdTable, listenerVars, hpc, mu, conns, epoll,
                 epollOpen, events, cur, wpc, closed, cancelled, signalVars>>

ExecuteAndResponse(w) ==
  /\ Up
  /\ wpc[w] = "run" /\ taskCh[w] # <<>>
  /\ \E K \in SUBSET Volatile :
       LET task == Head(taskCh[w])
           res  == Execute(dict[w], task.cmd, K)
       IN /\ dict' = [dict EXCEPT ![w] = res.dict]
          /\ replyCh' = [replyCh EXCEPT ![task.h] = Append(@, res.result)]
  /\ taskCh' = [taskCh EXCEPT ![w] = Tail(@)]
  /\ UNCHANGED <<proc, clientVars, fdTable, listenerVars, hpc, mu, conns, epoll,
                 epollOpen, events, cur, wpc, closed, cancelled, signalVars>>

(* select picks ctx.Done() even when tasks are queued.                     *)
WorkerExits(w) ==
  /\ Up
  /\ wpc[w] = "run"
  /\ cancelled[w] \/ (closed[w] /\ taskCh[w] = <<>>)
  /\ wpc' = [wpc EXCEPT ![w] = "exited"]
  /\ UNCHANGED <<proc, clientVars, fdTable, listenerVars, handlerVars, dict, taskCh,
                 closed, cancelled, signalVars>>
-----------------------------------------------------------------------------
(* WaitForSignal, Server.Stop, Worker.Stop and IOHandler.Stop              *)

Signal ==
  /\ Up
  /\ MaySignal /\ spc = "signal"
  /\ status' = "Shutdown"
  /\ spc' = "listener"
  /\ UNCHANGED <<proc, clientVars, fdTable, listenerVars, handlerVars, workerVars, si>>

(* Stop that only sets the status.                                         *)
FaultyStopLeavesListener ==
  /\ Up
  /\ spc = "listener"
  /\ spc' = "cancel"
  /\ UNCHANGED <<proc, clientVars, fdTable, listenerVars, handlerVars, workerVars,
                 status, si>>

StopListener ==
  /\ Up
  /\ spc = "listener"
  /\ IF listener # "nil" THEN CloseListener ELSE UNCHANGED <<listener, clientVars>>
  /\ spc' = "cancel"
  /\ UNCHANGED <<proc, fdTable, lpc, accepted, nextIO, handlerVars, workerVars,
                 status, si>>

CancelWorker ==
  /\ Up
  /\ spc = "cancel"
  /\ cancelled' = [cancelled EXCEPT ![si] = TRUE]
  /\ spc' = "close"
  /\ UNCHANGED <<proc, clientVars, fdTable, listenerVars, handlerVars, wpc, dict,
                 taskCh, closed, status, si>>

CloseTaskCh ==
  /\ Up
  /\ spc = "close"
  /\ closed' = [closed EXCEPT ![si] = TRUE]
  /\ spc' = "join"
  /\ UNCHANGED <<proc, clientVars, fdTable, listenerVars, handlerVars, wpc, dict,
                 taskCh, cancelled, status, si>>

(* One worker too many.                                                    *)
FaultyJoinOneMore ==
  /\ Up
  /\ spc = "join" /\ wpc[si] = "exited"
  /\ IF si + 1 <= NumWorkers THEN spc' = "cancel"  /\ si' = si + 1
                             ELSE spc' = "handler" /\ si' = 0
  /\ UNCHANGED <<proc, clientVars, fdTable, listenerVars, handlerVars, workerVars, status>>

JoinWorker ==
  /\ Up
  /\ spc = "join" /\ wpc[si] = "exited"
  /\ IF si + 1 < NumWorkers THEN spc' = "cancel"  /\ si' = si + 1
                            ELSE spc' = "handler" /\ si' = 0
  /\ UNCHANGED <<proc, clientVars, fdTable, listenerVars, handlerVars, workerVars, status>>

StopHandler ==
  /\ Up
  /\ spc = "handler" /\ ~mu[si]
  /\ epollOpen' = [epollOpen EXCEPT ![si] = FALSE]
  /\ IF si + 1 < NumHandlers THEN spc' = spc    /\ si' = si + 1
                             ELSE spc' = "done" /\ si' = 0
  /\ UNCHANGED <<proc, clientVars, fdTable, listenerVars, hpc, mu, conns, epoll,
                 events, cur, replyCh, workerVars, status>>

(* main: both goroutines of the wait group are done.                       *)
Exit ==
  /\ Up
  /\ spc = "done" /\ lpc = "done"
  /\ proc' = "exited"
  /\ UNCHANGED <<clientVars, fdTable, listenerVars, handlerVars, workerVars, signalVars>>
-----------------------------------------------------------------------------
Init ==
  /\ proc = "running" /\ status = "Idle"
  /\ client = [c \in Conn |-> "new"]
  /\ call = [c \in Conn |-> Nil]
  /\ unread = [c \in Conn |-> FALSE]
  /\ got = [c \in Conn |-> <<>>]
  /\ fdTable = [f \in Fd |-> Nil]
  /\ lpc = "listen" /\ listener = "nil" /\ accepted = Nil /\ nextIO = 0
  /\ hpc = [h \in Handler |-> "wait"]
  /\ mu = [h \in Handler |-> FALSE]
  /\ conns = [h \in Handler |-> [f \in Fd |-> Nil]]
  /\ epoll = [h \in Handler |-> {}]
  /\ epollOpen = [h \in Handler |-> TRUE]
  /\ events = [h \in Handler |-> {}]
  /\ cur = [h \in Handler |-> NoCur]
  /\ replyCh = [h \in Handler |-> <<>>]
  /\ wpc = [w \in Worker |-> "run"]
  /\ dict = [w \in Worker |-> [k \in Key |-> Nil]]
  /\ taskCh = [w \in Worker |-> <<>>]
  /\ closed = [w \in Worker |-> FALSE]
  /\ cancelled = [w \in Worker |-> FALSE]
  /\ spc = "signal" /\ si = 0

ClientStep(c) == Connect(c) \/ Close(c) \/ \E cmd \in Cmd : Send(c, cmd)

ListenerStep ==
  Listen \/ ListenFails \/ CheckStatus \/ (\E c \in Conn : Accept(c)) \/ AcceptFails \/ AddConn

HandlerStep(h) ==
  \/ Wait(h) \/ NextBatch(h) \/ Lookup(h) \/ Read(h) \/ ReadFails(h) \/ CloseFd(h)
  \/ DeleteConn(h) \/ Dispatch(h) \/ DispatchPanics(h) \/ WriteReply(h)

WorkerStep(w) == ExecuteAndResponse(w) \/ WorkerExits(w)

StopStep ==
  StopListener \/ CancelWorker \/ CloseTaskCh \/ JoinWorker \/ StopHandler \/ Exit

Next ==
  \/ \E c \in Conn : ClientStep(c)
  \/ ListenerStep
  \/ \E h \in Handler : HandlerStep(h)
  \/ \E w \in Worker : WorkerStep(w)
  \/ Signal
  \/ StopStep

(* The Go scheduler runs every goroutine that can run; a select does not   *)
(* favour one ready case forever.  Clients and signals are not obliged to  *)
(* do anything.                                                            *)
Fairness ==
  /\ WF_vars(ListenerStep)
  /\ \A h \in Handler : WF_vars(HandlerStep(h))
  /\ \A w \in Worker : WF_vars(WorkerStep(w))
  /\ WF_vars(StopStep)

Spec == Init /\ [][Next]_vars /\ Fairness
-----------------------------------------------------------------------------
(* Properties                                                              *)

Command == Cmd \cup {Nil}
Result  == Value \cup Key \cup {Nil, "OK", "PONG", "ERR"}
Task    == [h : Handler, cmd : Cmd]

TypeOK ==
  /\ proc \in {"running", "exited", "fatal", "panicked"}
  /\ status \in {"Idle", "Shutdown"}
  /\ client \in [Conn -> {"new", "backlog", "connected", "closed"}]
  /\ call \in [Conn -> Command]
  /\ unread \in [Conn -> BOOLEAN]
  /\ got \in [Conn -> Seq(Result)]
  /\ fdTable \in [Fd -> Conn \cup {Nil}]
  /\ lpc \in {"listen", "check", "accept", "add", "done"}
  /\ listener \in {"nil", "open", "closed"}
  /\ accepted \in Conn \cup {Nil}
  /\ nextIO \in Nat
  /\ hpc \in [Handler -> {"wait", "events", "read", "dispatch", "await", "close",
                          "delete", "spin"}]
  /\ mu \in [Handler -> BOOLEAN]
  /\ conns \in [Handler -> [Fd -> Conn \cup {Nil}]]
  /\ epoll \in [Handler -> SUBSET Conn]
  /\ epollOpen \in [Handler -> BOOLEAN]
  /\ events \in [Handler -> SUBSET Fd]
  /\ cur \in [Handler -> [fd : Fd \cup {Nil}, conn : Conn \cup {Nil}, cmd : Command]]
  /\ replyCh \in [Handler -> Seq(Result)]
  /\ wpc \in [Worker -> {"run", "exited"}]
  /\ dict \in [Worker -> [Key -> Value \cup {Nil}]]
  /\ taskCh \in [Worker -> Seq(Task)]
  /\ closed \in [Worker -> BOOLEAN]
  /\ cancelled \in [Worker -> BOOLEAN]
  /\ spc \in {"signal", "listener", "cancel", "close", "join", "handler", "done"}
  /\ si \in Handler \cup Worker

(* From the read of a command to the write of its answer the raw           *)
(* descriptor denotes the connection the command came from: WriteReply     *)
(* never writes to a connection that reused the descriptor.                *)
ReplyToAsker ==
  \A h \in Handler :
    hpc[h] \in {"read", "dispatch", "await"} => fdTable[cur[h].fd] = cur[h].conn

(* A connection that was accepted and handed over stays in the map of      *)
(* exactly one handler while its descriptor is open: no interleaving of    *)
(* AddConn with closeConn and descriptor reuse loses it or shares it.      *)
EveryConnHandled ==
  \A f \in Fd : fdTable[f] \notin {Nil, accepted} =>
    \E h \in Handler : {g \in Handler : conns[g][f] = fdTable[f]} = {h}

(* A key is stored by the worker of its partition and by no other.         *)
PartitionOwned ==
  \A w \in Worker, k \in Key : dict[w][k] # Nil => w = getPartitionID(k)

(* A handler has at most one task in flight, in a queue or answered, and   *)
(* only while it waits for the answer.                                     *)
TasksOf(h) == {p \in Worker \X (1 .. BufferSize) :
                 p[2] <= Len(taskCh[p[1]]) /\ taskCh[p[1]][p[2]].h = h}

OneTaskInFlight ==
  \A h \in Handler :
    /\ \A p, q \in TasksOf(h) : p = q
    /\ Len(replyCh[h]) <= IF TasksOf(h) = {} THEN 1 ELSE 0
    /\ hpc[h] # "await" => TasksOf(h) = {} /\ replyCh[h] = <<>>

(* A queue never holds more tasks than there are handlers: with at most    *)
(* 1024 handlers dispatch never blocks on a full channel.                  *)
QueueBounded == \A w \in Worker : Len(taskCh[w]) <= NumHandlers

(* As long as no shutdown begins, a command that was sent is answered, or  *)
(* its connection is closed.                                               *)
EveryCommandAnswered ==
  \A c \in Conn : call[c] # Nil ~> (call[c] = Nil \/ status = "Shutdown" \/ proc # "running")

(* A client that connected leaves the backlog, unless no descriptor is     *)
(* ever free for it.                                                       *)
EveryConnAccepted ==
  \A c \in Conn : client[c] = "backlog" ~>
    (client[c] # "backlog" \/ proc # "running" \/ \A f \in Fd : fdTable[f] # Nil)

(* After a signal the process ends: neither Stop nor the listener can hang *)
(* on each other, on a worker or on a handler.                             *)
ShutdownEnds == status = "Shutdown" ~> proc # "running"

(* The process ends, by its exit or by a panic, only when every command    *)
(* that was read is answered: Stop waits for the ongoing commands.         *)
OngoingCommandsFinish ==
  proc \in {"exited", "panicked"} => \A h \in Handler : hpc[h] \notin {"dispatch", "await"}

(* The partitions as one map.                                              *)
Store == [k \in Key |-> dict[getPartitionID(k)][k]]

(* The handler with an answer for c, and the result of a command that took *)
(* effect and is not answered yet.                                         *)
Answerers(c) == {h \in Handler : cur[h].conn = c /\ replyCh[h] # <<>>}

Done == [c \in Conn |-> IF Answerers(c) = {} THEN <<>>
                        ELSE replyCh[CHOOSE h \in Answerers(c) : TRUE]]

(* The clients see one linearizable map (KVService).  A command takes      *)
(* effect when the worker executes it.                                     *)
Service == INSTANCE KVService WITH store <- Store, done <- Done

Linearizable == Service!Spec
=============================================================================
