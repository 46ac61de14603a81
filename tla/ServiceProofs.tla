---------------------------- MODULE ServiceProofs -----------------------------
(***************************************************************************)
(* The proof that the server implements KVService, for every value of the  *)
(* constants.                                                              *)
(***************************************************************************)
EXTENDS TaskProofs

(* A client that is not accepted yet has sent nothing.                     *)
Silent == \A c \in Conn : client[c] \in {"new", "backlog"} => call[c] = Nil

(* Clients send only once they are connected.                              *)
LEMMA SilentStep ==
  ASSUME ServerInv, Silent, [Next]_vars
  PROVE  Silent'
<1>1. ASSUME NEW c \in Conn, ClientStep(c) PROVE Silent'
  BY <1>1 DEF ClientStep, Connect, Close, Send, Silent, ServerInv, TypeInv, ClientTypes
<1>2. CASE ListenerStep
  BY Zenon, <1>2 DEF ListenerStep, Listen, ListenFails, CheckStatus, CloseListener, Disconnect, Accept,
              AcceptFails, AddConn, Silent, ServerInv, TypeInv, ClientTypes, clientVars
<1>3. ASSUME NEW h \in Handler, HandlerStep(h) PROVE Silent'
  <2>1. CASE CloseFd(h)
    BY Zenon, <2>1 DEF CloseFd, Disconnect, Silent
  <2>2. CASE WriteReply(h)
    BY Zenon, <2>2 DEF WriteReply, Silent
  <2>3. CASE ~(CloseFd(h) \/ WriteReply(h))
    BY Zenon, <1>3, <2>3 DEF HandlerStep, Wait, NextBatch, Lookup, Read, ReadFails, DeleteConn, Dispatch,
                      DispatchPanics, Silent, clientVars
  <2> QED
    BY <2>1, <2>2, <2>3
<1>4. ASSUME NEW w \in Worker, WorkerStep(w) PROVE Silent'
  BY Zenon, <1>4 DEF WorkerStep, ExecuteAndResponse, WorkerExits, Silent, clientVars
<1>5. CASE Signal \/ StopStep \/ UNCHANGED vars
  BY Zenon, <1>5 DEF Signal, StopStep, StopListener, CloseListener, Disconnect, CancelWorker, CloseTaskCh,
              JoinWorker, StopHandler, Exit, vars, Silent, clientVars
<1> QED
  BY <1>1, <1>2, <1>3, <1>4, <1>5 DEF Next

(* What a command that took effect returns, by handler and by connection.  *)
DoneFacts ==
  /\ DOMAIN Done = Conn
  /\ \A h \in Handler : replyCh[h] # <<>> => Done[cur[h].conn] = replyCh[h]
  /\ \A c \in Conn : (\A h \in Handler : cur[h].conn = c => replyCh[h] = <<>>) => Done[c] = <<>>

(* An answer under way belongs to the only handler of its connection.      *)
LEMMA Answering ==
  ASSUME ServerInv, TaskInv, NEW h \in Handler, replyCh[h] # <<>> \/ hpc[h] = "await"
  PROVE  /\ hpc[h] = "await" /\ cur[h].conn \in Conn
         /\ call[cur[h].conn] = cur[h].cmd /\ cur[h].cmd # Nil
         /\ \A g \in Handler : replyCh[g] # <<>> /\ cur[g].conn = cur[h].conn => g = h
<1>1. \A g \in Handler : replyCh[g] # <<>> => hpc[g] = "await"
  BY Zenon DEF TaskInv
<1>2. hpc[h] = "await"
  BY <1>1
<1> QED
  BY Zenon, <1>1, <1>2, CurOpen, ServerAssumption DEF ServerInv, TypeInv, InHand, Asked

(* Done is what its definition by CHOOSE says, as the choice is unique.    *)
LEMMA DoneDefined == ServerInv /\ TaskInv => DoneFacts
<1> SUFFICES ASSUME ServerInv, TaskInv PROVE DoneFacts
  OBVIOUS
<1>1. ASSUME NEW h \in Handler, replyCh[h] # <<>> PROVE Done[cur[h].conn] = replyCh[h]
  <2>1. cur[h].conn \in Conn /\ Answerers(cur[h].conn) = {h}
    BY Zenon, <1>1, Answering DEF Answerers
  <2>2. (CHOOSE g \in Answerers(cur[h].conn) : TRUE) = h
    BY <2>1
  <2> QED
    BY <2>1, <2>2 DEF Done
<1>2. ASSUME NEW c \in Conn, \A h \in Handler : cur[h].conn = c => replyCh[h] = <<>>
      PROVE  Done[c] = <<>>
  <2>1. Answerers(c) = {}
    BY <1>2 DEF Answerers
  <2> QED
    BY <2>1 DEF Done
<1>3. DOMAIN Done = Conn
  BY DEF Done
<1> QED
  BY Zenon, <1>1, <1>2, <1>3 DEF DoneFacts

(* Steps that no client notices.                                           *)
LEMMA Unseen ==
  ASSUME TypeInv, UNCHANGED <<dict, call, got, replyCh>>,
         \A h \in Handler : replyCh[h] # <<>> => cur'[h] = cur[h]
  PROVE  UNCHANGED Service!vars
<1>1. Store' = Store
  BY DEF Store
<1>2. \A c \in Conn : Answerers(c)' = Answerers(c)
  BY DEF Answerers
<1>3. ASSUME NEW c \in Conn PROVE Done'[c] = Done[c]
  <2> DEFINE Pick(S) == CHOOSE h \in S : TRUE
  <2>1. Done'[c] = IF Answerers(c)' = {} THEN <<>> ELSE replyCh'[Pick(Answerers(c)')]
    BY DEF Done
  <2>2. Done[c] = IF Answerers(c) = {} THEN <<>> ELSE replyCh[Pick(Answerers(c))]
    BY DEF Done
  <2>3. Answerers(c)' = Answerers(c) /\ replyCh' = replyCh
    BY <1>2
  <2> HIDE DEF Pick
  <2> QED
    BY <2>1, <2>2, <2>3, Zenon
<1>4. Done' = Done
  BY Zenon, <1>3 DEF Done
<1> QED
  BY <1>1, <1>4 DEF Service!vars

(* The keys of worker w among K; the whole map when w's partition is d.    *)
OwnKeys(w, K) == {k \in Key : k \in K /\ getPartitionID(k) = w}
Merged(w, d)  == [k \in Key |-> IF getPartitionID(k) = w THEN d[k] ELSE Store[k]]

(* A worker's command on its partition is the command on the whole map,    *)
(* where only keys of that partition are forgotten.                        *)
LEMMA EffectMatches ==
  ASSUME TypeInv, NEW w \in Worker, NEW cmd \in Cmd, w \in Targets(cmd), NEW K
  PROVE  /\ Service!Effect(cmd, OwnKeys(w, K)).result = Execute(dict[w], cmd, K).result
         /\ Service!Effect(cmd, OwnKeys(w, K)).store = Merged(w, Execute(dict[w], cmd, K).dict)
<1> DEFINE L     == OwnKeys(w, K)
           After == Merged(w, Execute(dict[w], cmd, K).dict)
<1> USE DEF OwnKeys, Merged
<1>1. cmd.key # Nil => getPartitionID(cmd.key) = w
  BY DEF Targets
<1>2. \A k \in Key : getPartitionID(k) = w => Store[k] = dict[w][k]
  BY DEF Store
<1>3. Service!Forget(Store, L) \in [Key -> Value \cup {Nil}]
  BY TargetsAreWorkers DEF Service!Forget, Store, TypeInv, WorkerTypes
<1>4. \A k \in Key : Service!Forget(Store, L)[k] =
                       IF getPartitionID(k) = w THEN Forget(dict[w], K)[k] ELSE Store[k]
  BY <1>2 DEF Service!Forget, Forget
<1>5. dict[w] \in [Key -> Value \cup {Nil}] /\ Forget(dict[w], K) \in [Key -> Value \cup {Nil}]
  BY DEF TypeInv, WorkerTypes, Forget
<1>6. CASE cmd.op = "SET"
  <2>1. cmd.key \in Key /\ cmd.key # Nil
    BY <1>6, ServerAssumption
  <2>2. Execute(dict[w], cmd, K) =
          [dict |-> [Forget(dict[w], K) EXCEPT ![cmd.key] = cmd.value], result |-> "OK"]
    BY <1>6 DEF Execute, cmdSET
  <2>3. Service!Effect(cmd, L) =
          [store |-> [Service!Forget(Store, L) EXCEPT ![cmd.key] = cmd.value], result |-> "OK"]
    BY <1>6 DEF Service!Effect
  <2>4. [Service!Forget(Store, L) EXCEPT ![cmd.key] = cmd.value] = After
    <3>1. \A k \in Key : [Service!Forget(Store, L) EXCEPT ![cmd.key] = cmd.value][k] =
                           IF k = cmd.key THEN cmd.value ELSE Service!Forget(Store, L)[k]
      BY <1>3
    <3>2. \A k \in Key : Execute(dict[w], cmd, K).dict[k] =
                           IF k = cmd.key THEN cmd.value ELSE Forget(dict[w], K)[k]
      BY <1>5, <2>2
    <3>3. \A k \in Key : [Service!Forget(Store, L) EXCEPT ![cmd.key] = cmd.value][k] = After[k]
      BY Zenon, <1>1, <1>4, <2>1, <3>1, <3>2
    <3>4. [Service!Forget(Store, L) EXCEPT ![cmd.key] = cmd.value] =
            [k \in Key |-> [Service!Forget(Store, L) EXCEPT ![cmd.key] = cmd.value][k]]
      BY Zenon, <1>3
    <3> QED
      BY <3>3, <3>4
  <2> QED
    BY <2>2, <2>3, <2>4
<1>7. CASE cmd.op = "GET"
  <2>1. cmd.key \in Key /\ cmd.key # Nil
    BY <1>7, ServerAssumption
  <2>2. Execute(dict[w], cmd, K) =
          [dict |-> Forget(dict[w], K), result |-> Forget(dict[w], K)[cmd.key]]
    BY <1>7 DEF Execute, cmdGET
  <2>3. Service!Effect(cmd, L) =
          [store |-> Service!Forget(Store, L), result |-> Service!Forget(Store, L)[cmd.key]]
    BY <1>7 DEF Service!Effect
  <2>4. Service!Forget(Store, L) = After
    BY <1>3, <1>4, <2>2
  <2> QED
    BY <1>1, <1>4, <2>1, <2>2, <2>3, <2>4
<1>8. CASE cmd.op \notin {"SET", "GET"}
  <2>1. Execute(dict[w], cmd, K).dict = dict[w] /\ Service!Effect(cmd, L).store = Store
    BY <1>8 DEF Execute, cmdPING, Service!Effect
  <2>2. Store = After
    BY Zenon, <1>2, <2>1 DEF Store
  <2>3. Execute(dict[w], cmd, K).result = Service!Effect(cmd, L).result
    BY <1>8 DEF Execute, cmdPING, Service!Effect
  <2> QED
    BY Zenon, <2>1, <2>2, <2>3
<1> QED
  BY Zenon, <1>6, <1>7, <1>8

(* The command takes effect when the worker executes it.                   *)
LEMMA ExecutePerforms ==
  ASSUME ServiceInv, DoneFacts, DoneFacts', NEW w \in Worker, ExecuteAndResponse(w)
  PROVE  \E c \in Conn : Service!Perform(c)
<1> DEFINE task == Head(taskCh[w])
           h    == task.h
           c    == cur[h].conn
<1>1. PICK K \in SUBSET Volatile :
        /\ dict' = [dict EXCEPT ![w] = Execute(dict[w], task.cmd, K).dict]
        /\ replyCh' = [replyCh EXCEPT ![h] = Append(@, Execute(dict[w], task.cmd, K).result)]
  BY Zenon DEF ExecuteAndResponse
<1>2. 1 \in 1 .. Len(taskCh[w]) /\ task = taskCh[w][1]
  <2>1. taskCh[w] \in Seq(Task) /\ taskCh[w] # <<>>
    BY Zenon DEF ExecuteAndResponse, ServiceInv, ServerInv, TypeInv, WorkerTypes
  <2> QED
    BY <2>1, TailFacts, Zenon
<1>3. task.cmd \in Cmd /\ h \in Handler
  BY Zenon, <1>2, QueuedTasks DEF ServiceInv, ServerInv
<1>4. /\ w \in Targets(task.cmd) /\ hpc[h] = "await" /\ task.cmd = cur[h].cmd
      /\ replyCh[h] = <<>>
  BY <1>2 DEF ServiceInv, TaskInv
<1> HIDE DEF task
<1>5. /\ c \in Conn /\ call[c] = task.cmd /\ call[c] # Nil
      /\ \A g \in Handler : replyCh[g] # <<>> /\ cur[g].conn = c => g = h
  BY Zenon, <1>3, <1>4, Answering DEF ServiceInv
<1>6. Done[c] = <<>>
  BY Zenon, <1>4, <1>5 DEF DoneFacts
<1> DEFINE L   == OwnKeys(w, K)
           res == Execute(dict[w], task.cmd, K)
<1>7. /\ Service!Effect(call[c], L).result = res.result
      /\ Service!Effect(call[c], L).store = Merged(w, res.dict)
  <2>1. TypeInv /\ task.cmd \in Cmd /\ w \in Targets(task.cmd)
    BY Zenon, <1>3, <1>4 DEF ServiceInv, ServerInv
  <2>2. /\ Service!Effect(task.cmd, L).result = res.result
        /\ Service!Effect(task.cmd, L).store = Merged(w, res.dict)
    BY Zenon, <2>1, EffectMatches
  <2> HIDE DEF L, c, res
  <2> QED
    BY Zenon, <1>5, <2>2
<1>8. L \in SUBSET Volatile
  BY DEF OwnKeys
<1>9. res.result \in Result
  BY Zenon, <1>3, ExecuteTypes DEF ServiceInv, ServerInv, TypeInv, WorkerTypes
<1> HIDE DEF L, res, h, c
<1>10. Store' = Service!Effect(call[c], L).store
  <2>1. dict'[w] = res.dict /\ \A v \in Worker \ {w} : dict'[v] = dict[v]
    BY Zenon, <1>1 DEF res, ServiceInv, ServerInv, TypeInv, WorkerTypes
  <2>2. \A k \in Key : getPartitionID(k) \in Worker
    BY <1>3, TargetsAreWorkers
  <2>3. \A k \in Key : dict'[getPartitionID(k)][k] =
                         IF getPartitionID(k) = w THEN res.dict[k] ELSE Store[k]
    BY <2>1, <2>2 DEF Store
  <2> QED
    BY Zenon, <1>7, <2>3 DEF Store, Merged
<1>11. Done' = [Done EXCEPT ![c] = <<res.result>>]
  <2>1. replyCh'[h] = <<res.result>> /\ \A g \in Handler \ {h} : replyCh'[g] = replyCh[g]
    <3>1. Append(replyCh[h], res.result) = <<res.result>>
      BY <1>4, <1>9
    <3> QED
      BY Zenon, <1>1, <1>3, <3>1 DEF res, ServiceInv, ServerInv, TypeInv, HandlerTypes
  <2>2. cur' = cur
    BY Zenon DEF ExecuteAndResponse
  <2>3. <<res.result>> # <<>>
    OBVIOUS
  <2>4. Done'[c] = <<res.result>>
    BY Zenon, <1>3, <2>1, <2>2, <2>3 DEF DoneFacts, c
  <2>5. ASSUME NEW d \in Conn, d # c PROVE Done'[d] = Done[d]
    <3>1. CASE \E g \in Handler : cur[g].conn = d /\ replyCh[g] # <<>>
      <4>1. PICK g \in Handler : cur[g].conn = d /\ replyCh[g] # <<>>
        BY Zenon, <3>1
      <4>2. replyCh'[g] = replyCh[g]
        BY <2>1, <2>5, <4>1 DEF c
      <4> QED
        BY Zenon, <2>2, <4>1, <4>2 DEF DoneFacts
    <3>2. CASE \A g \in Handler : cur[g].conn = d => replyCh[g] = <<>>
      <4>1. \A g \in Handler : cur'[g].conn = d => replyCh'[g] = <<>>
        BY <2>1, <2>2, <2>5, <3>2 DEF c
      <4> QED
        BY Zenon, <3>2, <4>1 DEF DoneFacts
    <3> QED
      BY <3>1, <3>2
  <2>6. DOMAIN Done = Conn /\ DOMAIN Done' = Conn
    BY Zenon DEF DoneFacts
  <2>7. Done = [d \in Conn |-> Done[d]] /\ Done' = [d \in Conn |-> Done'[d]]
    BY DEF Done
  <2> QED
    BY Zenon, <1>5, <2>4, <2>5, <2>6, <2>7
<1>12. UNCHANGED <<call, got>>
  BY Zenon DEF ExecuteAndResponse, clientVars
<1> QED
  BY Zenon, <1>5, <1>6, <1>7, <1>8, <1>10, <1>11, <1>12 DEF Service!Perform

(* The answer is received when the handler writes it, unless the client    *)
(* has closed the connection by then: then it is lost.                     *)
LEMMA WriteResponds ==
  ASSUME ServiceInv, DoneFacts, DoneFacts', NEW h \in Handler, WriteReply(h)
  PROVE  \E c \in Conn : Service!Respond(c) \/ Service!Drop(c)
<1> DEFINE c == cur[h].conn
<1>1. replyCh[h] # <<>> /\ hpc[h] = "await"
  BY Zenon DEF WriteReply, Goto
<1>2. /\ c \in Conn /\ call[c] # Nil /\ fdTable[cur[h].fd] = c
      /\ \A g \in Handler : replyCh[g] # <<>> /\ cur[g].conn = c => g = h
  BY Zenon, <1>1, Answering, CurOpen DEF ServiceInv, ServerInv
<1>3. Done[c] = replyCh[h]
  BY Zenon, <1>1 DEF DoneFacts
<1>4. Store' = Store
  BY Zenon DEF WriteReply, workerVars, Store
<1>5. call' = [call EXCEPT ![c] = Nil]
  BY Zenon, <1>2 DEF WriteReply, ServiceInv, ServerInv, TypeInv, ClientTypes
<1>6. Done' = [Done EXCEPT ![c] = <<>>]
  <2>1. /\ replyCh'[h] = <<>> /\ \A g \in Handler \ {h} : replyCh'[g] = replyCh[g]
        /\ \A g \in Handler \ {h} : cur'[g] = cur[g]
    BY Zenon DEF WriteReply, ServiceInv, ServerInv, TypeInv, HandlerTypes
  <2>2. Done'[c] = <<>>
    BY <1>2, <2>1 DEF DoneFacts
  <2>3. ASSUME NEW d \in Conn, d # c PROVE Done'[d] = Done[d]
    <3>1. CASE \E g \in Handler : cur[g].conn = d /\ replyCh[g] # <<>>
      <4>1. PICK g \in Handler : cur[g].conn = d /\ replyCh[g] # <<>>
        BY <3>1
      <4>2. replyCh'[g] = replyCh[g] /\ cur'[g] = cur[g]
        BY Zenon, <2>1, <2>3, <4>1
      <4> QED
        BY Zenon, <4>1, <4>2 DEF DoneFacts
    <3>2. CASE \A g \in Handler : cur[g].conn = d => replyCh[g] = <<>>
      <4>1. \A g \in Handler : cur'[g].conn = d => replyCh'[g] = <<>>
        BY Zenon, <2>1, <3>2
      <4> QED
        BY Zenon, <3>2, <4>1 DEF DoneFacts
    <3> QED
      BY Zenon, <3>1, <3>2
  <2>4. Done = [d \in Conn |-> Done[d]] /\ Done' = [d \in Conn |-> Done'[d]]
    BY DEF Done
  <2> QED
    BY Zenon, <1>2, <2>2, <2>3, <2>4
<1>7. CASE client[c] = "connected"
  <2>1. got' = [got EXCEPT ![c] = @ \o Done[c]]
    BY Zenon, <1>2, <1>3, <1>7 DEF WriteReply, ServiceInv, ServerInv, TypeInv, ClientTypes
  <2>2. Service!Respond(c)
    BY Zenon, <1>1, <1>3, <1>4, <1>5, <1>6, <2>1 DEF Service!Respond
  <2> QED
    BY Zenon, <1>2, <2>2
<1>8. CASE client[c] # "connected"
  <2>1. got' = got
    BY Zenon, <1>2, <1>8 DEF WriteReply, ServiceInv, ServerInv, TypeInv, ClientTypes
  <2>2. Service!Drop(c)
    BY Zenon, <1>2, <1>4, <1>5, <1>6, <2>1 DEF Service!Drop
  <2> QED
    BY Zenon, <1>2, <2>2
<1> QED
  BY <1>7, <1>8

(* closeConn drops the command its connection waited for, if any.          *)
LEMMA CloseDrops ==
  ASSUME ServiceInv, DoneFacts, NEW h \in Handler, CloseFd(h)
  PROVE  (\E c \in Conn : Service!Drop(c)) \/ UNCHANGED Service!vars
<1> DEFINE c == cur[h].conn
<1>1. hpc[h] = "close"
  BY Zenon DEF CloseFd, Goto
<1>2. c \in Conn /\ conns[h][cur[h].fd] = c
  BY Zenon, <1>1 DEF ServiceInv, ServerInv, TypeInv, InHand, ConnInv, ConnsInv
<1>3. \A g \in Handler : cur[g].conn = c => replyCh[g] = <<>>
  BY Zenon, <1>1, Answering, CurOpen DEF ServiceInv, ServerInv
<1>4. Done[c] = <<>>
  BY Zenon, <1>2, <1>3 DEF DoneFacts
<1>5. Store' = Store /\ got' = got
  BY Zenon DEF CloseFd, Disconnect, workerVars, Store
<1>6. Done' = Done
  BY DEF CloseFd, Done, Answerers
<1>7. call' = [call EXCEPT ![c] = Nil]
  BY Zenon, <1>2 DEF CloseFd, Disconnect, ServiceInv, ServerInv, TypeInv, ClientTypes
<1>8. Done' = [Done EXCEPT ![c] = <<>>]
  <2>1. Done = [d \in Conn |-> Done[d]]
    BY DEF Done
  <2> QED
    BY <1>2, <1>4, <1>6, <2>1
<1>9. CASE call[c] # Nil
  BY Zenon, <1>2, <1>5, <1>7, <1>8, <1>9 DEF Service!Drop
<1>10. CASE call[c] = Nil
  <2>1. call' = call
    BY Zenon, <1>7, <1>10 DEF ServiceInv, ServerInv, TypeInv, ClientTypes
  <2> QED
    BY <1>5, <1>6, <2>1 DEF Service!vars
<1> QED
  BY Zenon, <1>9, <1>10

(* A listener that closes resets connections that never sent a command.    *)
LEMMA ResetUnseen ==
  ASSUME TypeInv, Silent, UNCHANGED <<dict, replyCh, cur>>, Disconnect(Backlog)
  PROVE  UNCHANGED Service!vars
<1>1. call' = call /\ got' = got
  BY Zenon DEF Disconnect, Backlog, Silent, TypeInv, ClientTypes
<1> QED
  BY Zenon, <1>1, Unseen

(* Every step of the server is a step of the service or is not seen by it. *)
LEMMA ServiceStep ==
  ASSUME ServiceInv, Silent, DoneFacts, DoneFacts', [Next]_vars
  PROVE  [Service!Next]_(Service!vars)
<1>1. TypeInv
  BY DEF ServiceInv, ServerInv
<1>2. ASSUME NEW c \in Conn, ClientStep(c) PROVE Service!Next \/ UNCHANGED Service!vars
  <2>1. ASSUME NEW cmd \in Cmd, Send(c, cmd) PROVE Service!Next
    <3>1. Store' = Store /\ Done' = Done
      BY <2>1 DEF Send, Store, Done, Answerers, workerVars, handlerVars
    <3>2. Service!Invoke(c, cmd)
      BY <2>1, <3>1 DEF Send, Service!Invoke
    <3> QED
      BY <3>2 DEF Service!Next
  <2>2. CASE Connect(c) \/ Close(c)
    BY Zenon, <1>1, <2>2, Unseen DEF Connect, Close, handlerVars, workerVars
  <2> QED
    BY <1>2, <2>1, <2>2 DEF ClientStep
<1>3. CASE ListenerStep
  <2>1. CASE CheckStatus /\ Disconnect(Backlog)
    BY <1>1, <2>1, ResetUnseen DEF CheckStatus, handlerVars, workerVars
  <2>2. UNCHANGED <<dict, call, got, replyCh, cur>> \/ (CheckStatus /\ Disconnect(Backlog))
    BY Zenon, <1>3 DEF ListenerStep, Listen, ListenFails, CheckStatus, CloseListener, Accept, AcceptFails,
                AddConn, clientVars, handlerVars, workerVars
  <2> QED
    BY Zenon, <1>1, <2>1, <2>2, Unseen
<1>4. ASSUME NEW h \in Handler, HandlerStep(h) PROVE Service!Next \/ UNCHANGED Service!vars
  <2>1. CASE CloseFd(h)
    BY <2>1, CloseDrops DEF Service!Next
  <2>2. CASE WriteReply(h)
    BY <2>2, WriteResponds DEF Service!Next
  <2>3. CASE ~(CloseFd(h) \/ WriteReply(h))
    <3>1. UNCHANGED <<dict, call, got, replyCh>>
      BY Zenon, <1>4, <2>3 DEF HandlerStep, Wait, NextBatch, Lookup, Read, ReadFails, DeleteConn, Dispatch,
                        DispatchPanics, clientVars, handlerVars, workerVars
    <3>2. hpc[h] # "await" \/ cur' = cur
      BY Zenon, <1>4, <2>3 DEF HandlerStep, Wait, NextBatch, Lookup, Read, ReadFails, DeleteConn, Dispatch,
                        DispatchPanics, Goto, handlerVars
    <3>3. \A g \in Handler \ {h} : cur'[g] = cur[g]
      BY Zenon, <1>1, <1>4, <2>3 DEF HandlerStep, Wait, NextBatch, Lookup, Read, ReadFails, DeleteConn,
                              Dispatch, DispatchPanics, handlerVars, TypeInv, HandlerTypes
    <3>4. replyCh[h] # <<>> => hpc[h] = "await"
      BY Zenon DEF ServiceInv, TaskInv
    <3> QED
      BY Zenon, <1>1, <3>1, <3>2, <3>3, <3>4, Unseen
  <2> QED
    BY <2>1, <2>2, <2>3
<1>5. ASSUME NEW w \in Worker, WorkerStep(w) PROVE Service!Next \/ UNCHANGED Service!vars
  <2>1. CASE ExecuteAndResponse(w)
    BY Zenon, <2>1, ExecutePerforms DEF Service!Next
  <2>2. CASE WorkerExits(w)
    BY Zenon, <1>1, <2>2, Unseen DEF WorkerExits, clientVars, handlerVars
  <2> QED
    BY <1>5, <2>1, <2>2 DEF WorkerStep
<1>6. CASE Signal \/ StopStep \/ UNCHANGED vars
  <2>1. CASE StopListener
    <3>1. UNCHANGED <<dict, replyCh, cur>>
      BY <2>1 DEF StopListener, handlerVars, workerVars
    <3>2. Disconnect(Backlog) \/ UNCHANGED <<call, got>>
      BY <2>1 DEF StopListener, CloseListener, clientVars
    <3> QED
      BY Zenon, <1>1, <3>1, <3>2, ResetUnseen, Unseen
  <2>2. CASE Signal \/ CancelWorker \/ CloseTaskCh \/ JoinWorker \/ StopHandler \/ Exit
             \/ UNCHANGED vars
    BY Zenon, <1>1, <2>2, Unseen DEF Signal, CancelWorker, CloseTaskCh, JoinWorker, StopHandler, Exit, vars,
                              clientVars, handlerVars, workerVars
  <2> QED
    BY <1>6, <2>1, <2>2 DEF StopStep
<1> QED
  BY <1>2, <1>3, <1>4, <1>5, <1>6 DEF Next

(* Linearizable: whatever the handlers and workers interleave, and however *)
(* the server is stopped, clients see one map on which each command takes  *)
(* effect at one instant, when a worker executes it.                       *)
THEOREM ServerLinearizable == Spec => Linearizable
<1>1. Init => Service!Init
  <2> SUFFICES ASSUME Init PROVE Service!Init
    OBVIOUS
  <2>1. Store = [k \in Key |-> Nil]
    <3>1. \A k \in Key : getPartitionID(k) \in Worker
      BY ServerAssumption DEF getPartitionID, Worker
    <3> QED
      BY Zenon, <3>1 DEF Init, Store
  <2>2. Done = [c \in Conn |-> <<>>]
    <3>1. \A c \in Conn : Answerers(c) = {}
      BY Zenon DEF Init, Answerers
    <3> QED
      BY Zenon, <3>1 DEF Done
  <2> QED
    BY Zenon, <2>1, <2>2 DEF Init, Service!Init
<1>2. Init => Silent
  BY DEF Init, Silent
<1>3. ServiceInv => DoneFacts
  BY DoneDefined DEF ServiceInv
<1>4. ServiceInv /\ Silent /\ [Next]_vars => Silent'
  BY SilentStep DEF ServiceInv
<1>5. ServiceInv /\ Silent /\ DoneFacts /\ DoneFacts' /\ [Next]_vars => [Service!Next]_(Service!vars)
  BY ServiceStep
<1> QED
  BY <1>1, <1>2, <1>3, <1>4, <1>5, ServiceInvariant, PTL DEF Spec, Linearizable, Service!Spec
=============================================================================
