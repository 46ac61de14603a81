------------------------------ MODULE TaskProofs ------------------------------
(***************************************************************************)
(* Proofs about the tasks and partitions of Server, for every value of the *)
(* constants.                                                              *)
(***************************************************************************)
EXTENDS ServerProofs, FiniteSetTheorems, SequenceTheorems

(* The tasks.  A queued task is with a worker that may execute it, is the  *)
(* only one of its handler, and the handler waits for its answer.          *)
TaskInv ==
  /\ \A w \in Worker : \A i \in 1 .. Len(taskCh[w]) :
       LET t == taskCh[w][i]
       IN /\ w \in Targets(t.cmd)
          /\ hpc[t.h] = "await" /\ t.cmd = cur[t.h].cmd /\ replyCh[t.h] = <<>>
  /\ \A v, w \in Worker : \A i \in 1 .. Len(taskCh[v]), j \in 1 .. Len(taskCh[w]) :
       taskCh[v][i].h = taskCh[w][j].h => v = w /\ i = j
  /\ \A h \in Handler : /\ Len(replyCh[h]) <= 1
                        /\ hpc[h] # "await" => replyCh[h] = <<>>

(* A handler has at most one task in the queues.                           *)
LEMMA TaskOnce ==
  ASSUME TaskInv, NEW v \in Worker, NEW w \in Worker, NEW i \in 1 .. Len(taskCh[v]),
         NEW j \in 1 .. Len(taskCh[w]), taskCh[v][i].h = taskCh[w][j].h
  PROVE  v = w /\ i = j
BY DEF TaskInv

(* What the queues hold.                                                   *)
LEMMA QueuedTasks ==
  ASSUME TypeInv, NEW w \in Worker
  PROVE  /\ taskCh[w] \in Seq(Task) /\ Len(taskCh[w]) \in Nat
         /\ \A i \in 1 .. Len(taskCh[w]) :
              taskCh[w][i] \in Task /\ taskCh[w][i].h \in Handler /\ taskCh[w][i].cmd \in Cmd
<1>1. taskCh[w] \in Seq(Task)
  BY DEF TypeInv, WorkerTypes
<1>2. Len(taskCh[w]) \in Nat /\ \A i \in 1 .. Len(taskCh[w]) : taskCh[w][i] \in Task
  BY <1>1
<1> QED
  BY <1>1, <1>2 DEF Task

(* The rest of a queue.                                                    *)
LEMMA TailFacts ==
  ASSUME NEW S, NEW s \in Seq(S), s # <<>>
  PROVE  /\ 1 \in 1 .. Len(s) /\ Head(s) = s[1] /\ Head(s) \in S
         /\ Tail(s) \in Seq(S) /\ Len(Tail(s)) = Len(s) - 1
         /\ \A i \in 1 .. Len(s) - 1 : Tail(s)[i] = s[i + 1]
<1>1. Len(s) \in Nat /\ Len(s) # 0
  BY EmptySeq
<1>2. Head(s) = s[1] /\ 1 \in 1 .. Len(s)
  BY <1>1
<1> QED
  BY <1>1, <1>2

(* The queues are empty at first.                                          *)
LEMMA TaskInit == Init => TaskInv /\ PartitionOwned
BY DEF Init, TaskInv, PartitionOwned

(* Steps that leave the queues alone.                                      *)
LEMMA SameQueues ==
  ASSUME TaskInv, UNCHANGED taskCh,
         \A w \in Worker : \A i \in 1 .. Len(taskCh[w]) :
           LET t == taskCh[w][i]
           IN /\ w \in Targets(t.cmd)
              /\ hpc'[t.h] = "await" /\ t.cmd = cur'[t.h].cmd /\ replyCh'[t.h] = <<>>,
         \A h \in Handler : /\ Len(replyCh'[h]) <= 1
                            /\ hpc'[h] # "await" => replyCh'[h] = <<>>
  PROVE  TaskInv'
BY DEF TaskInv

(* Steps that move no task.                                                *)
LEMMA TaskFrame ==
  ASSUME TaskInv, TypeInv, UNCHANGED <<taskCh, replyCh>>,
         \A h \in Handler : /\ hpc'[h] = "await" <=> hpc[h] = "await"
                            /\ hpc[h] = "await" => cur'[h] = cur[h]
  PROVE  TaskInv'
<1>1. ASSUME NEW w \in Worker, NEW i \in 1 .. Len(taskCh[w])
      PROVE  LET t == taskCh[w][i]
             IN /\ w \in Targets(t.cmd)
                /\ hpc'[t.h] = "await" /\ t.cmd = cur'[t.h].cmd /\ replyCh[t.h] = <<>>
  <2>1. taskCh[w][i] \in Task
    BY DEF TypeInv, WorkerTypes
  <2> QED
    BY <2>1 DEF TaskInv, Task
<1> QED
  BY <1>1 DEF TaskInv

(* A handler that dispatches had no task and no answer under way.          *)
LEMMA DispatchTask ==
  ASSUME TypeInv, TaskInv, NEW h \in Handler, Dispatch(h)
  PROVE  TaskInv'
<1> DEFINE new == [h |-> h, cmd |-> cur[h].cmd]
<1>1. PICK w \in Targets(cur[h].cmd) : taskCh' = [taskCh EXCEPT ![w] = Append(@, new)]
  BY Zenon DEF Dispatch
<1>2. hpc[h] = "dispatch" /\ cur[h].cmd \in Cmd /\ UNCHANGED <<cur, replyCh>>
  BY DEF Dispatch, Goto, TypeInv, InHand
<1>3. w \in Worker
  BY <1>2, TargetsAreWorkers
<1>4. hpc'[h] = "await" /\ \A g \in Handler \ {h} : hpc'[g] = hpc[g]
  BY DEF Dispatch, Goto, TypeInv, HandlerTypes
<1>5. \A v \in Worker : taskCh[v] \in Seq(Task)
  BY DEF TypeInv, WorkerTypes
<1>6. \A v \in Worker : \A i \in 1 .. Len(taskCh[v]) :
        taskCh[v][i].h \in Handler /\ taskCh[v][i].h # h
  <2>1. \A v \in Worker : \A i \in 1 .. Len(taskCh[v]) : hpc[taskCh[v][i].h] = "await"
    BY Zenon DEF TaskInv
  <2> QED
    BY <1>2, <2>1, QueuedTasks
<1>7. /\ taskCh'[w] = Append(taskCh[w], new)
      /\ \A v \in Worker \ {w} : taskCh'[v] = taskCh[v]
  BY <1>1, <1>3 DEF TypeInv, WorkerTypes
<1>8. new \in Task /\ new.h = h /\ new.cmd = cur[h].cmd
  BY <1>2 DEF Task
<1> HIDE DEF new
<1>9. /\ Len(taskCh'[w]) = Len(taskCh[w]) + 1 /\ taskCh'[w][Len(taskCh[w]) + 1] = new
      /\ \A i \in 1 .. Len(taskCh[w]) : taskCh'[w][i] = taskCh[w][i]
  BY <1>3, <1>5, <1>7, <1>8
<1>10. ASSUME NEW v \in Worker, NEW i \in 1 .. Len(taskCh'[v])
       PROVE  \/ i \in 1 .. Len(taskCh[v]) /\ taskCh'[v][i] = taskCh[v][i]
              \/ v = w /\ i = Len(taskCh[w]) + 1 /\ taskCh'[v][i] = new
  <2>1. CASE v = w
    <3>1. Len(taskCh[w]) \in Nat
      BY <1>3, <1>5
    <3> QED
      BY <1>9, <1>10, <2>1, <3>1
  <2>2. CASE v # w
    BY <1>7, <1>10, <2>2
  <2> QED
    BY <2>1, <2>2
<1>11. ASSUME NEW v \in Worker, NEW i \in 1 .. Len(taskCh'[v])
       PROVE  LET t == taskCh'[v][i]
              IN /\ v \in Targets(t.cmd)
                 /\ hpc'[t.h] = "await" /\ t.cmd = cur'[t.h].cmd /\ replyCh'[t.h] = <<>>
  <2>1. replyCh[h] = <<>>
    BY <1>2 DEF TaskInv
  <2>2. CASE i \in 1 .. Len(taskCh[v]) /\ taskCh'[v][i] = taskCh[v][i]
    <3>1. LET t == taskCh[v][i]
          IN /\ v \in Targets(t.cmd)
             /\ hpc[t.h] = "await" /\ t.cmd = cur[t.h].cmd /\ replyCh[t.h] = <<>>
      BY Zenon, <2>2 DEF TaskInv
    <3> QED
      BY Zenon, <1>2, <1>4, <1>6, <2>2, <3>1
  <2>3. CASE v = w /\ i = Len(taskCh[w]) + 1 /\ taskCh'[v][i] = new
    BY Zenon, <1>2, <1>4, <1>8, <2>1, <2>3
  <2> QED
    BY Zenon, <1>10, <2>2, <2>3
<1>12. ASSUME NEW u \in Worker, NEW v \in Worker, NEW i \in 1 .. Len(taskCh'[u]),
              NEW j \in 1 .. Len(taskCh'[v]), taskCh'[u][i].h = taskCh'[v][j].h
       PROVE  u = v /\ i = j
  <2>1. \/ i \in 1 .. Len(taskCh[u]) /\ taskCh'[u][i] = taskCh[u][i]
        \/ u = w /\ i = Len(taskCh[w]) + 1 /\ taskCh'[u][i] = new
    BY <1>10
  <2>2. \/ j \in 1 .. Len(taskCh[v]) /\ taskCh'[v][j] = taskCh[v][j]
        \/ v = w /\ j = Len(taskCh[w]) + 1 /\ taskCh'[v][j] = new
    BY <1>10
  <2>3. CASE i \in 1 .. Len(taskCh[u]) /\ taskCh'[u][i] = taskCh[u][i]
    <3>1. taskCh'[v][j] # new
      BY <1>6, <1>8, <1>12, <2>3
    <3>2. j \in 1 .. Len(taskCh[v]) /\ taskCh'[v][j] = taskCh[v][j]
      BY Zenon, <2>2, <3>1
    <3> QED
      BY <1>12, <2>3, <3>2, TaskOnce
  <2>4. CASE u = w /\ i = Len(taskCh[w]) + 1 /\ taskCh'[u][i] = new
    BY <1>6, <1>8, <1>12, <2>2, <2>4
  <2> QED
    BY <2>1, <2>3, <2>4
<1>13. \A g \in Handler : Len(replyCh[g]) <= 1 /\ (hpc'[g] # "await" => replyCh[g] = <<>>)
  BY <1>4 DEF TaskInv
<1> QED
  BY Zenon, <1>2, <1>11, <1>12, <1>13 DEF TaskInv

(* A worker turns the task at the head of its queue into an answer.        *)
LEMMA ExecuteTask ==
  ASSUME TypeInv, TaskInv, NEW w \in Worker, ExecuteAndResponse(w)
  PROVE  TaskInv'
<1> DEFINE task == Head(taskCh[w])
<1>1. PICK K \in SUBSET Volatile :
        replyCh' = [replyCh EXCEPT ![task.h] = Append(@, Execute(dict[w], task.cmd, K).result)]
  BY Zenon DEF ExecuteAndResponse
<1> DEFINE result == Execute(dict[w], task.cmd, K).result
<1>2. UNCHANGED <<hpc, cur>> /\ taskCh[w] # <<>> /\ taskCh' = [taskCh EXCEPT ![w] = Tail(@)]
  BY Zenon DEF ExecuteAndResponse
<1>3. \A v \in Worker : taskCh[v] \in Seq(Task)
  BY DEF TypeInv, WorkerTypes
<1> HIDE DEF result
<1>4. /\ 1 \in 1 .. Len(taskCh[w]) /\ task = taskCh[w][1] /\ task \in Task
      /\ Tail(taskCh[w]) \in Seq(Task) /\ Len(Tail(taskCh[w])) = Len(taskCh[w]) - 1
      /\ \A i \in 1 .. Len(taskCh[w]) - 1 : Tail(taskCh[w])[i] = taskCh[w][i + 1]
  BY <1>2, <1>3, TailFacts, Zenon
<1>5. task.h \in Handler /\ task.cmd \in Cmd
  BY <1>4 DEF Task
<1>6. result \in Result
  BY Zenon, <1>5, ExecuteTypes DEF result, TypeInv, WorkerTypes
<1>7. hpc[task.h] = "await" /\ replyCh[task.h] = <<>>
  BY <1>4 DEF TaskInv
<1> HIDE DEF task
<1>8. replyCh'[task.h] = <<result>> /\ \A g \in Handler \ {task.h} : replyCh'[g] = replyCh[g]
  <2>1. Append(replyCh[task.h], result) = <<result>>
    BY <1>6, <1>7
  <2> QED
    BY <1>1, <1>5, <2>1 DEF result, TypeInv, HandlerTypes
<1>9. /\ taskCh'[w] = Tail(taskCh[w])
      /\ \A v \in Worker \ {w} : taskCh'[v] = taskCh[v]
  BY <1>2 DEF TypeInv, WorkerTypes
<1>10. /\ Len(taskCh'[w]) = Len(taskCh[w]) - 1
      /\ \A i \in 1 .. Len(taskCh'[w]) : taskCh'[w][i] = taskCh[w][i + 1]
  BY <1>4, <1>9
<1> DEFINE Old(v, i) == IF v = w THEN i + 1 ELSE i
<1>11. ASSUME NEW v \in Worker, NEW i \in 1 .. Len(taskCh'[v])
       PROVE  /\ Old(v, i) \in 1 .. Len(taskCh[v])
              /\ taskCh'[v][i] = taskCh[v][Old(v, i)] /\ taskCh'[v][i] \in Task
              /\ taskCh'[v][i].h # task.h
  <2>1. /\ Old(v, i) \in 1 .. Len(taskCh[v]) /\ taskCh'[v][i] = taskCh[v][Old(v, i)]
        /\ v = w => Old(v, i) # 1
    <3>1. Len(taskCh[v]) \in Nat
      BY QueuedTasks
    <3>2. CASE v = w
      BY <1>10, <1>11, <3>1, <3>2
    <3>3. CASE v # w
      BY <1>9, <1>11, <3>3
    <3> QED
      BY <3>2, <3>3
  <2> HIDE DEF Old
  <2>2. taskCh'[v][i] \in Task
    BY <2>1, QueuedTasks
  <2>3. taskCh[v][Old(v, i)].h # taskCh[w][1].h
    BY <1>4, <2>1 DEF TaskInv
  <2> QED
    BY <1>4, <2>1, <2>2, <2>3
<1>12. ASSUME NEW v \in Worker, NEW i \in 1 .. Len(taskCh'[v])
       PROVE  LET t == taskCh'[v][i]
              IN /\ v \in Targets(t.cmd)
                 /\ hpc'[t.h] = "await" /\ t.cmd = cur'[t.h].cmd /\ replyCh'[t.h] = <<>>
  <2> HIDE DEF Old
  <2> DEFINE t == taskCh[v][Old(v, i)]
  <2>1. taskCh'[v][i] = t /\ t.h \in Handler /\ t.h # task.h
    BY <1>11 DEF Task
  <2>2. v \in Targets(t.cmd) /\ hpc[t.h] = "await" /\ t.cmd = cur[t.h].cmd /\ replyCh[t.h] = <<>>
    BY <1>11 DEF TaskInv
  <2> QED
    BY Zenon, <1>2, <1>8, <2>1, <2>2
<1>13. ASSUME NEW u \in Worker, NEW v \in Worker, NEW i \in 1 .. Len(taskCh'[u]),
              NEW j \in 1 .. Len(taskCh'[v]), taskCh'[u][i].h = taskCh'[v][j].h
       PROVE  u = v /\ i = j
  <2>1. u = v /\ Old(u, i) = Old(v, j)
    <3> HIDE DEF Old
    <3>1. taskCh[u][Old(u, i)].h = taskCh[v][Old(v, j)].h
      BY Zenon, <1>11, <1>13
    <3>2. Old(u, i) \in 1 .. Len(taskCh[u]) /\ Old(v, j) \in 1 .. Len(taskCh[v])
      BY Zenon, <1>11
    <3> QED
      BY <3>1, <3>2, TaskOnce
  <2> QED
    BY <2>1
<1>14. \A g \in Handler : Len(replyCh'[g]) <= 1 /\ (hpc'[g] # "await" => replyCh'[g] = <<>>)
  <2> SUFFICES ASSUME NEW g \in Handler
               PROVE  Len(replyCh'[g]) <= 1 /\ (hpc[g] # "await" => replyCh'[g] = <<>>)
    BY <1>2
  <2>1. CASE g = task.h
    <3>1. Len(<<result>>) = 1
      OBVIOUS
    <3>2. Len(replyCh'[g]) = 1
      BY <1>8, <2>1, <3>1, Zenon
    <3> QED
      BY <1>7, <2>1, <3>2
  <2>2. CASE g # task.h
    BY Zenon, <1>8, <2>2 DEF TaskInv
  <2> QED
    BY <2>1, <2>2
<1> QED
  BY Zenon, <1>12, <1>13, <1>14 DEF TaskInv

(* Every step keeps the tasks in order.                                    *)
LEMMA TaskStep ==
  ASSUME ServerInv, TaskInv, [Next]_vars
  PROVE  TaskInv'
<1> USE DEF ServerInv
<1>1. ASSUME NEW h \in Handler, HandlerStep(h) PROVE TaskInv'
  <2>1. CASE Dispatch(h)
    BY <2>1, DispatchTask
  <2>2. CASE WriteReply(h)
    <3>1. hpc'[h] = "events" /\ replyCh'[h] = <<>> /\ replyCh[h] # <<>> /\ UNCHANGED taskCh
      BY Zenon, <2>2 DEF WriteReply, Goto, TypeInv, HandlerTypes, workerVars
    <3>2. \A g \in Handler \ {h} : hpc'[g] = hpc[g] /\ cur'[g] = cur[g] /\ replyCh'[g] = replyCh[g]
      BY Zenon, <2>2 DEF WriteReply, Goto, TypeInv, HandlerTypes
    <3>3. ASSUME NEW w \in Worker, NEW i \in 1 .. Len(taskCh[w])
          PROVE  taskCh[w][i].h \in Handler \ {h}
      <4>1. replyCh[taskCh[w][i].h] = <<>>
        BY DEF TaskInv
      <4> QED
        BY <3>1, <4>1, QueuedTasks
    <3>4. ASSUME NEW w \in Worker, NEW i \in 1 .. Len(taskCh[w])
          PROVE  LET t == taskCh[w][i]
                 IN /\ w \in Targets(t.cmd)
                    /\ hpc'[t.h] = "await" /\ t.cmd = cur'[t.h].cmd /\ replyCh'[t.h] = <<>>
      <4>1. LET t == taskCh[w][i]
            IN /\ w \in Targets(t.cmd)
               /\ hpc[t.h] = "await" /\ t.cmd = cur[t.h].cmd /\ replyCh[t.h] = <<>>
        BY Zenon DEF TaskInv
      <4> QED
        BY Zenon, <3>2, <3>3, <4>1
    <3>5. ASSUME NEW g \in Handler
          PROVE  Len(replyCh'[g]) <= 1 /\ (hpc'[g] # "await" => replyCh'[g] = <<>>)
      BY <3>1, <3>2 DEF TaskInv
    <3> QED
      BY Zenon, <3>1, <3>4, <3>5, SameQueues
  <2>3. CASE Lookup(h)
    <3>1. /\ hpc[h] # "await" /\ hpc'[h] # "await"
          /\ \A g \in Handler \ {h} : hpc'[g] = hpc[g] /\ cur'[g] = cur[g]
      BY <2>3 DEF Lookup, TypeInv, HandlerTypes
    <3> QED
      BY Zenon, <2>3, <3>1, TaskFrame DEF Lookup, workerVars
  <2>4. CASE \/ Wait(h) \/ NextBatch(h) \/ Read(h) \/ ReadFails(h) \/ CloseFd(h) \/ DeleteConn(h)
    <3>1. UNCHANGED <<taskCh, replyCh>>
      BY Zenon, <2>4 DEF Wait, NextBatch, Read, ReadFails, CloseFd, DeleteConn, workerVars
    <3>2. hpc[h] # "await" /\ \A g \in Handler \ {h} : cur'[g] = cur[g]
      BY Zenon, <2>4 DEF Wait, NextBatch, Read, ReadFails, CloseFd, DeleteConn, Goto, TypeInv, HandlerTypes
    <3>3. hpc'[h] # "await" /\ \A g \in Handler \ {h} : hpc'[g] = hpc[g]
      BY Zenon, <2>4 DEF Wait, NextBatch, Read, ReadFails, CloseFd, DeleteConn, Goto, TypeInv, HandlerTypes
    <3> QED
      BY <3>1, <3>2, <3>3, TaskFrame
  <2>5. CASE DispatchPanics(h)
    BY <2>5, TaskFrame DEF DispatchPanics, handlerVars, workerVars
  <2> QED
    BY <1>1, <2>1, <2>2, <2>3, <2>4, <2>5 DEF HandlerStep
<1>2. ASSUME NEW w \in Worker, WorkerStep(w) PROVE TaskInv'
  <2>1. CASE ExecuteAndResponse(w)
    BY <2>1, ExecuteTask
  <2>2. CASE WorkerExits(w)
    BY Zenon, <2>2, TaskFrame DEF WorkerExits, handlerVars
  <2> QED
    BY <1>2, <2>1, <2>2 DEF WorkerStep
<1>3. CASE ListenerStep \/ \E c \in Conn : ClientStep(c)
  <2>1. UNCHANGED <<taskCh, replyCh, hpc, cur>>
    BY Zenon, <1>3 DEF ListenerStep, Listen, ListenFails, CheckStatus, Accept, AcceptFails, AddConn,
                ClientStep, Connect, Send, Close, handlerVars, workerVars
  <2> QED
    BY <2>1, TaskFrame
<1>4. CASE Signal \/ StopStep \/ UNCHANGED vars
  <2>1. UNCHANGED <<taskCh, replyCh, hpc, cur>>
    BY Zenon, <1>4 DEF Signal, StopStep, StopListener, CancelWorker, CloseTaskCh, JoinWorker, StopHandler,
                Exit, vars, handlerVars, workerVars
  <2> QED
    BY <2>1, TaskFrame
<1> QED
  BY <1>1, <1>2, <1>3, <1>4 DEF Next

(* Only the worker of a key's partition stores the key.                    *)
LEMMA PartitionStep ==
  ASSUME ServerInv, TaskInv, PartitionOwned, [Next]_vars
  PROVE  PartitionOwned'
<1>1. ASSUME NEW w \in Worker, ExecuteAndResponse(w) PROVE PartitionOwned'
  <2> DEFINE cmd == Head(taskCh[w]).cmd
  <2>1. PICK K \in SUBSET Volatile : dict' = [dict EXCEPT ![w] = Execute(dict[w], cmd, K).dict]
    BY Zenon, <1>1 DEF ExecuteAndResponse
  <2>2. /\ 1 \in 1 .. Len(taskCh[w]) /\ Head(taskCh[w]) = taskCh[w][1]
    <3>1. taskCh[w] \in Seq(Task) /\ taskCh[w] # <<>>
      BY Zenon, <1>1 DEF ExecuteAndResponse, ServerInv, TypeInv, WorkerTypes
    <3> QED
      BY <3>1, TailFacts, Zenon
  <2>3. cmd \in Cmd /\ w \in Targets(cmd)
    BY <2>2, QueuedTasks DEF TaskInv, ServerInv
  <2> HIDE DEF cmd
  <2>4. /\ dict'[w] = Execute(dict[w], cmd, K).dict
        /\ \A v \in Worker \ {w} : dict'[v] = dict[v]
    BY Zenon, <2>1 DEF ServerInv, TypeInv, WorkerTypes
  <2>5. ASSUME NEW k \in Key
        PROVE  dict'[w][k] # Nil => dict[w][k] # Nil \/ (cmd.key = k /\ cmd.key # Nil)
    <3>1. CASE cmd.op = "SET"
      <4>1. dict'[w] = [Forget(dict[w], K) EXCEPT ![cmd.key] = cmd.value]
        BY Zenon, <2>4, <3>1 DEF Execute, cmdSET
      <4>2. k # cmd.key => dict'[w][k] = Forget(dict[w], K)[k]
        BY Zenon, <4>1 DEF Forget
      <4>3. Forget(dict[w], K)[k] # Nil => dict[w][k] # Nil
        BY Zenon DEF Forget
      <4>4. k # Nil
        BY Zenon, ServerAssumption
      <4> QED
        BY Zenon, <4>2, <4>3, <4>4
    <3>2. CASE cmd.op = "GET"
      BY <2>4, <3>2 DEF Execute, cmdGET, Forget
    <3>3. CASE cmd.op \notin {"SET", "GET"}
      BY <2>4, <3>3 DEF Execute, cmdPING
    <3> QED
      BY <3>1, <3>2, <3>3
  <2> QED
    BY <2>3, <2>4, <2>5 DEF PartitionOwned, Targets
<1>2. CASE UNCHANGED dict
  BY <1>2 DEF PartitionOwned
<1>3. UNCHANGED dict \/ \E w \in Worker : ExecuteAndResponse(w)
  <2>1. CASE ListenerStep \/ \E c \in Conn : ClientStep(c)
    BY Zenon, <2>1 DEF ListenerStep, Listen, ListenFails, CheckStatus, Accept, AcceptFails, AddConn,
                ClientStep, Connect, Send, Close, workerVars
  <2>2. CASE Signal \/ StopStep \/ UNCHANGED vars
    BY Zenon, <2>2 DEF Signal, StopStep, StopListener, CancelWorker, CloseTaskCh, JoinWorker, StopHandler,
                Exit, vars, workerVars
  <2>3. CASE \E h \in Handler : HandlerStep(h)
    BY Zenon, <2>3 DEF HandlerStep, Wait, NextBatch, Lookup, Read, ReadFails, CloseFd, DeleteConn, Dispatch,
                DispatchPanics, WriteReply, workerVars
  <2>4. CASE \E w \in Worker : WorkerStep(w)
    BY Zenon, <2>4 DEF WorkerStep, WorkerExits
  <2> QED
    BY <2>1, <2>2, <2>3, <2>4 DEF Next
<1> QED
  BY <1>1, <1>2, <1>3

(* The inductive invariant behind the properties of tasks and partitions.  *)
ServiceInv == ServerInv /\ TaskInv /\ PartitionOwned

(* Every reachable state of the server satisfies the invariant.            *)
LEMMA ServiceInvariant == Spec => []ServiceInv
<1>1. Init => TaskInv /\ PartitionOwned
  BY TaskInit
<1>2. ServerInv /\ TaskInv /\ PartitionOwned /\ [Next]_vars => (TaskInv /\ PartitionOwned)'
  BY TaskStep, PartitionStep
<1> QED
  BY <1>1, <1>2, ServerInvariant, PTL DEF Spec, ServiceInv

(* PartitionOwned: no two workers ever store the same key, whatever the    *)
(* handlers dispatch at the same time.                                     *)
THEOREM PartitionsApart == Spec => []PartitionOwned
BY ServiceInvariant, PTL DEF ServiceInv

(* OneTaskInFlight: a handler has one task at a time, in a queue or        *)
(* answered, and only while it waits.                                      *)
THEOREM TasksInFlight == Spec => []OneTaskInFlight
<1>1. ServiceInv => OneTaskInFlight
  <2> SUFFICES ASSUME ServiceInv, NEW h \in Handler
               PROVE  /\ \A p, q \in TasksOf(h) : p = q
                      /\ Len(replyCh[h]) <= IF TasksOf(h) = {} THEN 1 ELSE 0
                      /\ hpc[h] # "await" => TasksOf(h) = {} /\ replyCh[h] = <<>>
    BY DEF OneTaskInFlight
  <2>1. ASSUME NEW p \in TasksOf(h)
        PROVE  /\ p[1] \in Worker /\ p[2] \in 1 .. Len(taskCh[p[1]]) /\ p = <<p[1], p[2]>>
               /\ taskCh[p[1]][p[2]].h = h
    <3>1. p \in Worker \X (1 .. BufferSize) /\ p[2] <= Len(taskCh[p[1]])
      BY DEF TasksOf
    <3>2. Len(taskCh[p[1]]) \in Nat
      BY <3>1, QueuedTasks DEF ServiceInv, ServerInv
    <3> QED
      BY <3>1, <3>2, ServerAssumption DEF TasksOf
  <2>2. ASSUME NEW p \in TasksOf(h), NEW q \in TasksOf(h) PROVE p = q
    <3>1. p[1] = q[1] /\ p[2] = q[2]
      BY <2>1 DEF ServiceInv, TaskInv
    <3> QED
      BY <2>1, <3>1
  <2>3. TasksOf(h) # {} => hpc[h] = "await" /\ replyCh[h] = <<>>
    BY <2>1 DEF ServiceInv, TaskInv
  <2>4. replyCh[h] = <<>> => Len(replyCh[h]) = 0
    OBVIOUS
  <2> QED
    BY <2>2, <2>3, <2>4 DEF ServiceInv, TaskInv
<1> QED
  BY <1>1, ServiceInvariant, PTL

(* QueueBounded: a queue holds at most one task per handler, so that a     *)
(* buffer of 1024 tasks never fills up with fewer handlers.                *)
THEOREM QueuesBounded == Spec => []QueueBounded
<1>1. ServiceInv => QueueBounded
  <2> SUFFICES ASSUME ServiceInv, NEW w \in Worker, ~(Len(taskCh[w]) <= NumHandlers)
               PROVE  FALSE
    BY DEF QueueBounded
  <2> DEFINE n == Len(taskCh[w])
             f == [i \in 1 .. n |-> taskCh[w][i].h]
  <2>1. n \in Nat /\ f \in [1 .. n -> Handler]
    BY QueuedTasks DEF ServiceInv, ServerInv
  <2>2. IsFiniteSet(1 .. n) /\ Cardinality(1 .. n) = n
    <3>1. 1 \in Int /\ n \in Int
      BY <2>1
    <3> HIDE DEF n
    <3>2. IsFiniteSet(1 .. n) /\ Cardinality(1 .. n) = IF 1 > n THEN 0 ELSE n - 1 + 1
      BY <3>1, FS_Interval, Zenon
    <3> QED
      BY <2>1, <3>2
  <2>3. IsFiniteSet(Handler) /\ Cardinality(Handler) = NumHandlers
    <3>1. 0 \in Int /\ NumHandlers - 1 \in Int
      BY ServerAssumption
    <3>2. /\ IsFiniteSet(Handler)
          /\ Cardinality(Handler) = IF 0 > NumHandlers - 1 THEN 0 ELSE NumHandlers - 1 - 0 + 1
      BY <3>1, FS_Interval, Zenon DEF Handler
    <3> QED
      BY <3>2, ServerAssumption
  <2>4. Cardinality(Handler) < Cardinality(1 .. n)
    BY <2>1, <2>2, <2>3, ServerAssumption
  <2> HIDE DEF f, n
  <2>5. PICK i, j \in 1 .. n : i # j /\ f[i] = f[j]
    BY <2>1, <2>2, <2>3, <2>4, FS_PigeonHole
  <2> QED
    BY Zenon, <2>5 DEF f, n, ServiceInv, TaskInv
<1> QED
  BY <1>1, ServiceInvariant, PTL
=============================================================================
