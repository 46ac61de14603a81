---------------------------- MODULE IoMuxProofs ----------------------------
(***************************************************************************)
(* Proofs about IoMux, for every set of connections and descriptors and    *)
(* every number of commands.                                               *)
(***************************************************************************)
EXTENDS IoMux, TLAPS

(* A connection has at most one descriptor, and only once it is accepted.  *)
OneFdEach ==
  \A f \in Fd : fdTable[f] # Nil =>
    /\ client[fdTable[f]] \in {"connected", "closed"}
    /\ \A g \in Fd : fdTable[g] = fdTable[f] => g = f

(* EventsNotStale, from the return of Wait on.                             *)
EventsFresh ==
  pc \in {"claim", "events"} =>
    \A f \in events \cap Fd : fdTable[f] # Nil /\ fdTable[f] = reported[f]

(* StatusTellsWork, also before the loop starts.                           *)
StatusKept == StatusTellsWork /\ (pc = "start" => status # "Running")

IInv == TypeOK /\ OneFdEach /\ EventsFresh /\ StatusKept

(* A step that leaves the kernel and the clients alone.                    *)
LEMMA LoopKeeps ==
  ASSUME IInv, UNCHANGED <<kernelVars, clientVars>>,
         status' \in {"Idle", "Running", "Shutdown"},
         pc' \in {"start", "top", "claimSweep", "sweep", "wait", "claim", "events", "done", "fatal"},
         due' \in BOOLEAN, signalled' \in BOOLEAN,
         events' \subseteq Fd \cup {ServerFd},
         reported' \in [Fd -> Conn \cup {Nil}]
  PROVE  TypeOK' /\ OneFdEach'
<1>1. TypeOK'
  BY DEF IInv, TypeOK, kernelVars, clientVars
<1>2. OneFdEach'
  BY DEF IInv, OneFdEach, kernelVars, clientVars
<1> QED
  BY <1>1, <1>2

(* The state before the server listens satisfies the invariant.            *)
LEMMA InitInv == Init => IInv
<1> SUFFICES ASSUME Init PROVE IInv
  OBVIOUS
<1>1. due \in BOOLEAN /\ signalled \in BOOLEAN /\ unread \in [Conn -> BOOLEAN]
  BY Zenon DEF Init
<1>2. TypeOK
  BY <1>1, IoMuxAssumption DEF Init, TypeOK
<1> QED
  BY <1>2, IoMuxAssumption DEF Init, IInv, OneFdEach, EventsFresh, StatusKept, StatusTellsWork

(* Clients, the clock and the signal.                                      *)
LEMMA EnvironmentInv ==
  ASSUME IInv, (\E c \in Conn : ClientStep(c)) \/ TimePasses \/ WaitForSignal
  PROVE  IInv'
<1> USE IoMuxAssumption
<1>1. ASSUME NEW c \in Conn, Connect(c) PROVE IInv'
  BY <1>1 DEF Connect, kernelVars, IInv, TypeOK, OneFdEach, EventsFresh, StatusKept, StatusTellsWork
<1>2. ASSUME NEW c \in Conn, NEW kind \in {"good", "bad"}, Send(c, kind) PROVE IInv'
  <2>1. unread' \in [Conn -> BOOLEAN]
    BY <1>2, Zenon DEF Send, IInv, TypeOK
  <2>2. TypeOK'
    BY <1>2, <2>1 DEF Send, kernelVars, IInv, TypeOK
  <2> QED
    BY <1>2, <2>2 DEF Send, kernelVars, IInv, OneFdEach, EventsFresh, StatusKept, StatusTellsWork
<1>3. ASSUME NEW c \in Conn, Close(c) PROVE IInv'
  BY <1>3 DEF Close, kernelVars, IInv, TypeOK, OneFdEach, EventsFresh, StatusKept, StatusTellsWork
<1>4. CASE TimePasses
  <2>1. due' \in BOOLEAN
    BY <1>4, Zenon DEF TimePasses
  <2>2. TypeOK' /\ OneFdEach'
    BY <1>4, <2>1, LoopKeeps DEF TimePasses, IInv, TypeOK
  <2> QED
    BY <1>4, <2>2 DEF TimePasses, kernelVars, IInv, EventsFresh, StatusKept, StatusTellsWork
<1>5. CASE WaitForSignal
  <2>1. signalled' \in BOOLEAN
    BY <1>5, Zenon DEF WaitForSignal
  <2>2. TypeOK' /\ OneFdEach'
    BY <1>5, <2>1, LoopKeeps DEF WaitForSignal, IInv, TypeOK
  <2> QED
    BY <1>5, <2>2 DEF WaitForSignal, kernelVars, IInv, EventsFresh, StatusKept, StatusTellsWork
<1> QED
  BY <1>1, <1>2, <1>3, <1>4, <1>5 DEF ClientStep

(* The steps of the loop outside a batch.                                  *)
LEMMA ControlInv ==
  ASSUME IInv,
         \/ Start \/ StartFails \/ LoopTest \/ ClaimSweep \/ Sweep
         \/ Wait \/ WaitFails \/ ClaimBatch \/ LeaveBatch \/ EndBatch
  PROVE  IInv'
<1> USE IoMuxAssumption
<1>1. CASE Start \/ StartFails \/ LoopTest \/ WaitFails \/ LeaveBatch
  <2>1. TypeOK' /\ OneFdEach'
    BY <1>1, LoopKeeps DEF Start, StartFails, LoopTest, WaitFails, LeaveBatch, Goto, IInv, TypeOK
  <2> QED
    BY <1>1, <2>1 DEF Start, StartFails, LoopTest, WaitFails, LeaveBatch, Goto, kernelVars,
                      IInv, EventsFresh, StatusKept, StatusTellsWork
<1>2. CASE ClaimSweep \/ ClaimBatch
  <2>1. TypeOK' /\ OneFdEach'
    BY <1>2, LoopKeeps DEF ClaimSweep, ClaimBatch, Claim, Goto, IInv, TypeOK
  <2> QED
    BY <1>2, <2>1 DEF ClaimSweep, ClaimBatch, Claim, Goto, kernelVars,
                      IInv, TypeOK, EventsFresh, StatusKept, StatusTellsWork
<1>3. CASE Sweep
  <2>1. due' \in BOOLEAN
    BY <1>3, Zenon DEF Sweep
  <2>2. TypeOK' /\ OneFdEach'
    BY <1>3, <2>1, LoopKeeps DEF Sweep, Goto, IInv, TypeOK
  <2> QED
    BY <1>3, <2>2 DEF Sweep, Goto, kernelVars, IInv, EventsFresh, StatusKept, StatusTellsWork
<1>4. CASE EndBatch
  <2>1. TypeOK' /\ OneFdEach'
    BY <1>4, LoopKeeps DEF EndBatch, Goto, IInv, TypeOK
  <2> QED
    BY <1>4, <2>1 DEF EndBatch, Goto, kernelVars, IInv, EventsFresh, StatusKept, StatusTellsWork
<1>5. CASE Wait
  <2>1. Ready \subseteq Fd \cup {ServerFd} /\ \A f \in Ready \cap Fd : fdTable[f] # Nil
    BY DEF Ready, IInv, TypeOK
  <2>2. TypeOK' /\ OneFdEach'
    BY <1>5, <2>1, LoopKeeps DEF Wait, Goto, IInv, TypeOK
  <2> QED
    BY <1>5, <2>1, <2>2 DEF Wait, Goto, kernelVars, IInv, EventsFresh, StatusKept, StatusTellsWork
<1> QED
  BY <1>1, <1>2, <1>3, <1>4, <1>5

(* The close of a descriptor that the batch reports.                       *)
LEMMA CloseInv ==
  ASSUME IInv, NEW f \in Fd, Handle(f), CloseFd(f, fdTable[f]),
         UNCHANGED <<status, pc, due, reported, signalled>>
  PROVE  IInv'
<1> USE IoMuxAssumption
<1> DEFINE c == fdTable[f]
<1>1. c \in Conn /\ pc = "events" /\ f \in events /\ events' = events \ {f}
  BY DEF IInv, TypeOK, EventsFresh, Handle, Take
<1>2. /\ fdTable' = [fdTable EXCEPT ![f] = Nil]
      /\ monitored' = monitored \ {c}
      /\ client' = [client EXCEPT ![c] = "closed"]
      /\ call' = [call EXCEPT ![c] = "none"]
      /\ unread' = [unread EXCEPT ![c] = FALSE]
      /\ sent' = sent
  BY DEF CloseFd
<1>3. unread' \in [Conn -> BOOLEAN]
  BY <1>2, Zenon DEF IInv, TypeOK
<1>4. monitored' = {fdTable'[g] : g \in Fd} \ {Nil}
  BY <1>1, <1>2 DEF IInv, TypeOK, OneFdEach
<1>5. TypeOK'
  BY <1>1, <1>2, <1>3, <1>4 DEF IInv, TypeOK
<1>6. OneFdEach'
  BY <1>1, <1>2 DEF IInv, TypeOK, OneFdEach
<1>7. EventsFresh'
  BY <1>1, <1>2 DEF IInv, TypeOK, EventsFresh
<1> QED
  BY <1>5, <1>6, <1>7 DEF IInv, StatusKept, StatusTellsWork

(* The handling of one event of a batch.                                   *)
LEMMA BatchInv ==
  ASSUME IInv, HandleEvent
  PROVE  IInv'
<1> USE IoMuxAssumption
<1>1. ASSUME NEW c \in Conn, Accept(c) PROVE IInv'
  <2>1. PICK f \in Fd : fdTable[f] = Nil /\ fdTable' = [fdTable EXCEPT ![f] = c]
    BY <1>1 DEF Accept
  <2>2. /\ pc = "events" /\ events' = events \ {ServerFd} /\ client[c] = "backlog"
        /\ client' = [client EXCEPT ![c] = "connected"]
        /\ monitored' = monitored \cup {c}
        /\ UNCHANGED <<status, pc, due, reported, call, unread, sent, signalled>>
    BY <1>1 DEF Accept, Take
  <2>3. monitored' = {fdTable'[g] : g \in Fd} \ {Nil}
    BY <2>1, <2>2 DEF IInv, TypeOK
  <2>4. TypeOK'
    BY <2>1, <2>2, <2>3 DEF IInv, TypeOK
  <2>5. OneFdEach'
    BY <2>1, <2>2 DEF IInv, TypeOK, OneFdEach
  <2>6. EventsFresh'
    BY <2>1, <2>2 DEF IInv, TypeOK, EventsFresh
  <2> QED
    BY <2>2, <2>4, <2>5, <2>6 DEF IInv, StatusKept, StatusTellsWork
<1>2. CASE AcceptFails \/ MonitorFails
  <2>1. TypeOK' /\ OneFdEach'
    BY <1>2, LoopKeeps DEF AcceptFails, MonitorFails, Take, IInv, TypeOK
  <2> QED
    BY <1>2, <2>1 DEF AcceptFails, MonitorFails, Take, kernelVars,
                      IInv, EventsFresh, StatusKept, StatusTellsWork
<1>3. CASE LeaveBatch
  BY <1>3, ControlInv
<1>4. ASSUME NEW f \in Fd, Serve(f) \/ ReadRefused(f) PROVE IInv'
  <2>1. fdTable[f] \in Conn
    BY <1>4 DEF Serve, ReadRefused, Handle, Take, IInv, TypeOK, EventsFresh
  <2>2. unread' \in [Conn -> BOOLEAN]
    BY <1>4, Zenon DEF Serve, ReadRefused, IInv, TypeOK
  <2>3. TypeOK'
    BY <1>4, <2>1, <2>2 DEF Serve, ReadRefused, Handle, Take, kernelVars, IInv, TypeOK
  <2> QED
    BY <1>4, <2>3 DEF Serve, ReadRefused, Handle, Take, kernelVars,
                      IInv, OneFdEach, EventsFresh, StatusKept, StatusTellsWork
<1>5. ASSUME NEW f \in Fd, WriteFails(f) \/ Disconnected(f) PROVE IInv'
  BY <1>5, CloseInv DEF WriteFails, Disconnected
<1> QED
  BY <1>1, <1>2, <1>3, <1>4, <1>5 DEF HandleEvent

(* Every step of the server and of its clients keeps the invariant.        *)
LEMMA NextInv == IInv /\ [Next]_vars => IInv'
<1> SUFFICES ASSUME IInv, [Next]_vars PROVE IInv'
  OBVIOUS
<1>1. CASE UNCHANGED vars
  BY <1>1 DEF vars, kernelVars, clientVars, IInv, TypeOK, OneFdEach, EventsFresh, StatusKept,
              StatusTellsWork
<1> QED
  BY <1>1, EnvironmentInv, ControlInv, BatchInv DEF Next, LoopStep

(* The invariant holds in every reachable state.                           *)
LEMMA Invariance == Spec => []IInv
  BY InitInv, NextInv, PTL DEF Spec

(* The epoll watches exactly the connections with an open descriptor.      *)
THEOREM TypeCorrect == Spec => []TypeOK
<1>1. IInv => TypeOK
  BY DEF IInv
<1> QED
  BY Invariance, <1>1, PTL

(* Wherever the signal falls, the status is not Idle during work and not   *)
(* Running when the loop may block.                                        *)
THEOREM StatusSound == Spec => []StatusTellsWork
<1>1. IInv => StatusTellsWork
  BY DEF IInv, StatusKept
<1> QED
  BY Invariance, <1>1, PTL

(* No event is handled for a connection other than the one it was reported *)
(* for, although descriptors are closed and reused within a batch.         *)
THEOREM EventsSound == Spec => []EventsNotStale
<1>1. IInv => EventsNotStale
  BY DEF IInv, EventsFresh, EventsNotStale
<1> QED
  BY Invariance, <1>1, PTL
=============================================================================
