------------------------------- MODULE IoMux -------------------------------
(***************************************************************************)
(* The single-threaded server: RunIoMultiplexingServer, one goroutine with *)
(* one epoll for the listener and every connection, and WaitForSignal,     *)
(* called without a Server (internal/server/server.go).  The two share     *)
(* serverStatus, which each step reads or writes once.                     *)
(*                                                                         *)
(* A command is read, executed and answered by the loop in one step (Dict  *)
(* models what it does); a client sends one command and waits.             *)
(***************************************************************************)
EXTENDS Naturals, FiniteSets

CONSTANTS
  Conn,
  Fd,         \* descriptors left to the process for connections
  ServerFd,   \* the listener's descriptor
  Nil,
  MaySignal,  \* whether SIGINT or SIGTERM may arrive
  MaxReq      \* bound: commands a connection sends

ASSUME IoMuxAssumption ==
  /\ ServerFd \notin Fd
  /\ Nil \notin Conn
  /\ MaySignal \in BOOLEAN
  /\ MaxReq \in Nat

VARIABLES
  status,     \* serverStatus: "Idle", "Running" or "Shutdown"
  pc,         \* where the loop is
  due,        \* ActiveExpireFrequency has passed since lastActiveExpireExecTime
  events,     \* descriptors of the current batch still to handle
  reported,   \* reported[f]: the connection whose event f of the batch is
  fdTable,    \* fdTable[f]: the connection open as f, or Nil
  monitored,  \* connections registered with the epoll
  client,     \* client[c]: "new", "backlog", "connected" or "closed"
  call,       \* call[c]: "none", or the command c awaits the answer of:
              \* "good", or "bad" if ParseCmd refuses it
  unread,     \* unread[c]: that command is still in the socket
  sent,       \* sent[c]: how many commands c has sent
  signalled   \* WaitForSignal has returned

clientVars == <<client, call, unread, sent>>
kernelVars == <<fdTable, monitored>>
vars == <<status, pc, due, events, reported, kernelVars, clientVars, signalled>>

Backlog == {c \in Conn : client[c] = "backlog"}
-----------------------------------------------------------------------------
(* Clients, the clock and the signal.  Definitions named Faulty... are not *)
(* part of the specification: each is the next definition with one         *)
(* plausible mistake, which the property it is paired with in PROJECT.json *)
(* must notice.                                                            *)

Connect(c) ==
  /\ client[c] = "new" /\ pc \notin {"start", "fatal", "done"}
  /\ client' = [client EXCEPT ![c] = "backlog"]
  /\ UNCHANGED <<status, pc, due, events, reported, kernelVars, call, unread, sent, signalled>>

Send(c, kind) ==
  /\ client[c] = "connected" /\ call[c] = "none" /\ sent[c] < MaxReq
  /\ call' = [call EXCEPT ![c] = kind]
  /\ unread' = [unread EXCEPT ![c] = TRUE]
  /\ sent' = [sent EXCEPT ![c] = @ + 1]
  /\ UNCHANGED <<status, pc, due, events, reported, kernelVars, client, signalled>>

Close(c) ==
  /\ client[c] = "connected"
  /\ client' = [client EXCEPT ![c] = "closed"]
  /\ UNCHANGED <<status, pc, due, events, reported, kernelVars, call, unread, sent, signalled>>

TimePasses ==
  /\ ~due /\ pc \notin {"fatal", "done"}
  /\ due' = TRUE
  /\ UNCHANGED <<status, pc, events, reported, kernelVars, clientVars, signalled>>

WaitForSignal ==
  /\ MaySignal /\ ~signalled /\ pc # "fatal"
  /\ signalled' = TRUE
  /\ status' = "Shutdown"
  /\ UNCHANGED <<pc, due, events, reported, kernelVars, clientVars>>
-----------------------------------------------------------------------------
(* The loop                                                                *)

Goto(from, to) == pc = from /\ pc' = to

Start ==
  /\ Goto("start", "top")
  /\ UNCHANGED <<status, due, events, reported, kernelVars, clientVars, signalled>>

(* Listen, File, CreateIOMultiplexer or Monitor fails: log.Fatal.          *)
StartFails ==
  /\ Goto("start", "fatal")
  /\ UNCHANGED <<status, due, events, reported, kernelVars, clientVars, signalled>>

LoopTest ==
  /\ Goto("top", IF status = "Shutdown" THEN "done" ELSE IF due THEN "claimSweep" ELSE "wait")
  /\ UNCHANGED <<status, due, events, reported, kernelVars, clientVars, signalled>>

(* CompareAndSwap Idle -> Running; on failure leave if it was Shutdown.    *)
Claim(from, to) ==
  /\ Goto(from, IF status = "Shutdown" THEN "done" ELSE to)
  /\ status' = IF status = "Idle" THEN "Running" ELSE status
  /\ UNCHANGED <<due, events, reported, kernelVars, clientVars, signalled>>

ClaimSweep == Claim("claimSweep", "sweep")

(* ActiveDeleteExpiredKeys, then Swap to Idle whatever the status is.      *)
Sweep ==
  /\ Goto("sweep", "wait")
  /\ status' = "Idle"
  /\ due' = FALSE
  /\ UNCHANGED <<events, reported, kernelVars, clientVars, signalled>>

Ready ==
  {f \in Fd : /\ fdTable[f] \in monitored
              /\ unread[fdTable[f]] \/ client[fdTable[f]] = "closed"}
    \cup {f \in {ServerFd} : Backlog # {}}

(* Wait blocks until a descriptor is ready, without a timeout.             *)
Wait ==
  /\ Goto("wait", "claim")
  /\ Ready # {}
  /\ events' = Ready
  /\ reported' = fdTable
  /\ UNCHANGED <<status, due, kernelVars, clientVars, signalled>>

(* Wait is interrupted: continue.                                          *)
WaitFails ==
  /\ Goto("wait", "top")
  /\ UNCHANGED <<status, due, events, reported, kernelVars, clientVars, signalled>>

ClaimBatch == Claim("claim", "events")

Take(f) == pc = "events" /\ f \in events /\ events' = events \ {f}

(* The new connection is not registered.                                   *)
FaultyAcceptUnmonitored(c) ==
  /\ Take(ServerFd)
  /\ client[c] = "backlog"
  /\ \E f \in Fd : fdTable[f] = Nil /\ fdTable' = [fdTable EXCEPT ![f] = c]
  /\ client' = [client EXCEPT ![c] = "connected"]
  /\ UNCHANGED <<status, pc, due, reported, monitored, call, unread, sent, signalled>>

(* Accept one connection and monitor it.                                   *)
Accept(c) ==
  /\ Take(ServerFd)
  /\ client[c] = "backlog"
  /\ \E f \in Fd : fdTable[f] = Nil /\ fdTable' = [fdTable EXCEPT ![f] = c]
  /\ client' = [client EXCEPT ![c] = "connected"]
  /\ monitored' = monitored \cup {c}
  /\ UNCHANGED <<status, pc, due, reported, call, unread, sent, signalled>>

(* No descriptor is left for the connection: log and continue.             *)
AcceptFails ==
  /\ Take(ServerFd)
  /\ \A f \in Fd : fdTable[f] # Nil
  /\ UNCHANGED <<status, pc, due, reported, kernelVars, clientVars, signalled>>

(* Monitor fails on the new connection: log.Fatal.                         *)
MonitorFails ==
  /\ Take(ServerFd)
  /\ \E f \in Fd : fdTable[f] = Nil
  /\ pc' = "fatal"
  /\ UNCHANGED <<status, due, reported, kernelVars, clientVars, signalled>>

(* Unmonitor and Close of the descriptor f, which is connection c.         *)
CloseFd(f, c) ==
  /\ fdTable' = [fdTable EXCEPT ![f] = Nil]
  /\ monitored' = monitored \ {c}
  /\ client' = [client EXCEPT ![c] = "closed"]
  /\ call' = [call EXCEPT ![c] = "none"]
  /\ unread' = [unread EXCEPT ![c] = FALSE]
  /\ UNCHANGED sent

(* Every event of a connection starts with a look at the status.           *)
LeaveBatch ==
  /\ Goto("events", "done")
  /\ status = "Shutdown" /\ events \cap Fd # {}
  /\ UNCHANGED <<status, due, events, reported, kernelVars, clientVars, signalled>>

Handle(f) == f \in Fd /\ status # "Shutdown" /\ Take(f)

(* Read a command, execute it and write the answer.                        *)
Serve(f) ==
  LET c == fdTable[f]
  IN /\ Handle(f)
     /\ unread[c] /\ call[c] = "good"
     /\ call' = [call EXCEPT ![c] = "none"]
     /\ unread' = [unread EXCEPT ![c] = FALSE]
     /\ UNCHANGED <<status, pc, due, reported, kernelVars, client, sent, signalled>>

(* The write fails, as it may when the client is gone: close.              *)
WriteFails(f) ==
  LET c == fdTable[f]
  IN /\ Handle(f)
     /\ unread[c] /\ call[c] = "good" /\ client[c] = "closed"
     /\ CloseFd(f, c)
     /\ UNCHANGED <<status, pc, due, reported, signalled>>

(* No command in what was read: log and continue, without an answer.       *)
ReadRefused(f) ==
  LET c == fdTable[f]
  IN /\ Handle(f)
     /\ unread[c] /\ call[c] = "bad"
     /\ unread' = [unread EXCEPT ![c] = FALSE]
     /\ UNCHANGED <<status, pc, due, reported, kernelVars, client, call, sent, signalled>>

(* The close that does not leave the iteration: the event is seen again.   *)
FaultyDisconnectedFallsThrough(f) ==
  LET c == fdTable[f]
  IN /\ f \in Fd /\ status # "Shutdown" /\ pc = "events" /\ f \in events
     /\ ~unread[c] /\ client[c] = "closed"
     /\ CloseFd(f, c)
     /\ UNCHANGED <<status, pc, due, events, reported, signalled>>

(* EOF or a reset: close.                                                  *)
Disconnected(f) ==
  LET c == fdTable[f]
  IN /\ Handle(f)
     /\ ~unread[c] /\ client[c] = "closed"
     /\ CloseFd(f, c)
     /\ UNCHANGED <<status, pc, due, reported, signalled>>

(* The batch that ends without giving the status back.                     *)
FaultyEndBatchStaysRunning ==
  /\ Goto("events", "top")
  /\ events = {}
  /\ UNCHANGED <<status, due, events, reported, kernelVars, clientVars, signalled>>

(* The batch is done: Swap to Idle whatever the status is.                 *)
EndBatch ==
  /\ Goto("events", "top")
  /\ events = {}
  /\ status' = "Idle"
  /\ UNCHANGED <<due, events, reported, kernelVars, clientVars, signalled>>
-----------------------------------------------------------------------------
Init ==
  /\ status = "Idle" /\ pc = "start" /\ due = FALSE /\ signalled = FALSE
  /\ events = {} /\ monitored = {}
  /\ fdTable = [f \in Fd |-> Nil]
  /\ reported = fdTable
  /\ client = [c \in Conn |-> "new"]
  /\ call = [c \in Conn |-> "none"]
  /\ unread = [c \in Conn |-> FALSE]
  /\ sent = [c \in Conn |-> 0]

HandleEvent ==
  \/ \E c \in Conn : Accept(c)
  \/ AcceptFails \/ MonitorFails \/ LeaveBatch
  \/ \E f \in Fd : Serve(f) \/ WriteFails(f) \/ ReadRefused(f) \/ Disconnected(f)

LoopStep ==
  Start \/ StartFails \/ LoopTest \/ ClaimSweep \/ Sweep \/ Wait \/ ClaimBatch
    \/ HandleEvent \/ EndBatch

ClientStep(c) == Connect(c) \/ Close(c) \/ \E kind \in {"good", "bad"} : Send(c, kind)

Next ==
  \/ \E c \in Conn : ClientStep(c)
  \/ TimePasses
  \/ WaitForSignal
  \/ LoopStep
  \/ WaitFails

(* The loop runs whenever it can.  Nothing obliges epoll_wait to be        *)
(* interrupted, but it is not interrupted every time.  The clock advances. *)
(* Clients and signals are not obliged to do anything.                     *)
Fairness == WF_vars(LoopStep) /\ SF_vars(Wait) /\ WF_vars(TimePasses)

Spec == Init /\ [][Next]_vars /\ Fairness
-----------------------------------------------------------------------------
(* Properties                                                              *)

(* Types; and the epoll watches exactly the connections with an open       *)
(* descriptor.                                                             *)
TypeOK ==
  /\ status \in {"Idle", "Running", "Shutdown"}
  /\ pc \in {"start", "top", "claimSweep", "sweep", "wait", "claim", "events",
             "done", "fatal"}
  /\ due \in BOOLEAN /\ signalled \in BOOLEAN
  /\ events \subseteq Fd \cup {ServerFd}
  /\ reported \in [Fd -> Conn \cup {Nil}]
  /\ fdTable \in [Fd -> Conn \cup {Nil}]
  /\ monitored \subseteq Conn /\ monitored = {fdTable[f] : f \in Fd} \ {Nil}
  /\ client \in [Conn -> {"new", "backlog", "connected", "closed"}]
  /\ call \in [Conn -> {"none", "good", "bad"}]
  /\ unread \in [Conn -> BOOLEAN]
  /\ sent \in [Conn -> 0 .. MaxReq]

(* The status tells the truth about the loop: it is never Idle while the   *)
(* loop sweeps or handles events, and never Running while the loop may     *)
(* block in Wait, wherever the signal falls.                               *)
StatusTellsWork ==
  /\ pc \in {"sweep", "events"} => status # "Idle"
  /\ pc \in {"top", "wait"} => status # "Running"

(* An event of the batch is handled for the connection it was reported     *)
(* for, although the batch closes descriptors and accepts connections that *)
(* reuse them.                                                             *)
EventsNotStale ==
  pc = "events" => \A f \in events \cap Fd : fdTable[f] # Nil /\ fdTable[f] = reported[f]

(* Until a signal arrives, every command that parses is answered or its    *)
(* connection is closed.                                                   *)
EveryCommandAnswered ==
  \A c \in Conn : call[c] = "good" ~> (call[c] = "none" \/ signalled \/ pc = "fatal")

(* After a signal the server ends: neither the blocking Wait nor a Swap to *)
(* Idle of the loop makes it miss the shutdown.                            *)
ShutdownEnds == signalled ~> pc \in {"done", "fatal"}
=============================================================================
