----------------------------- MODULE ServerProofs -----------------------------
(***************************************************************************)
(* Proofs about Server: the connections and their handlers, and the        *)
(* theorems that follow from the inductive invariant.                      *)
(***************************************************************************)
EXTENDS ServerTypeProofs

(* Nothing is known to a handler before the first connection.              *)
LEMMA ConnInit == Init => ConnInv /\ Asked
<1> SUFFICES ASSUME Init PROVE ConnInv /\ Asked
  OBVIOUS
<1> USE ServerAssumption DEF Init
<1>1. ListenerInv
  BY Zenon DEF ListenerInv, Known
<1>2. ConnsInv /\ Asked
  BY Zenon DEF ConnsInv, Asked
<1>3. HandlersInv
  BY Zenon DEF HandlersInv
<1> QED
  BY <1>1, <1>2, <1>3 DEF ConnInv

(* Steps that leave descriptors and handlers alone.                        *)
LEMMA OutsideConn ==
  ASSUME ConnInv, UNCHANGED <<fdTable, accepted, hpc, mu, conns, cur>>,
         lpc' = "add" <=> lpc = "add",
         \A c \in Conn : client'[c] \in {"new", "backlog"} => client[c] \in {"new", "backlog"}
  PROVE  ConnInv'
<1>1. ListenerInv'
  BY Zenon DEF ConnInv, ListenerInv, Known
<1>2. ConnsInv'
  BY DEF ConnInv, ConnsInv, Closing
<1>3. HandlersInv'
  BY Zenon DEF ConnInv, HandlersInv
<1> QED
  BY <1>1, <1>2, <1>3 DEF ConnInv

(* Steps of a handler that neither close nor forget a connection.          *)
LEMMA WorkConn ==
  ASSUME TypeInv, ConnInv, UNCHANGED <<client, fdTable, lpc, accepted, mu, conns>>,
         NEW h \in Handler, hpc[h] # "delete",
         NEW to, to # "delete", hpc' = [hpc EXCEPT ![h] = to],
         \A g \in Handler \ {h} : cur'[g] = cur[g],
         to \in {"read", "dispatch", "await", "close"} => conns[h][cur'[h].fd] = cur'[h].conn
  PROVE  ConnInv'
<1>0. hpc'[h] = to /\ \A g \in Handler \ {h} : hpc'[g] = hpc[g]
  BY DEF TypeInv, HandlerTypes
<1>1. ListenerInv'
  BY DEF ConnInv, ListenerInv, Known
<1>2. ConnsInv'
  <2> SUFFICES ASSUME NEW g \in Handler
               PROVE  /\ mu[g] <=> hpc'[g] = "delete"
                      /\ hpc'[g] \in {"read", "dispatch", "await", "close", "delete"} =>
                           conns[g][cur'[g].fd] = cur'[g].conn
                      /\ \A f \in Fd : conns[g][f] # Nil =>
                           (fdTable[f] = conns[g][f] <=> ~(hpc'[g] = "delete" /\ cur'[g].fd = f))
    BY DEF ConnsInv, Closing
  <2>1. CASE g = h
    <3>1. /\ ~mu[h]
          /\ \A f \in Fd : conns[h][f] # Nil => fdTable[f] = conns[h][f]
      BY DEF ConnInv, ConnsInv, Closing
    <3> QED
      BY <1>0, <2>1, <3>1
  <2>2. CASE g # h
    BY <1>0, <2>2 DEF ConnInv, ConnsInv, Closing
  <2> QED
    BY Zenon, <2>1, <2>2
<1>3. HandlersInv'
  BY Zenon DEF ConnInv, HandlersInv
<1> QED
  BY <1>1, <1>2, <1>3 DEF ConnInv

(* A connection that is accepted gets a descriptor no handler uses, except *)
(* one that is about to forget it.                                         *)
LEMMA AcceptConn ==
  ASSUME TypeInv, ConnInv, NEW c \in Conn, Accept(c)
  PROVE  ConnInv'
<1>1. PICK f \in Fd : fdTable[f] = Nil /\ fdTable' = [fdTable EXCEPT ![f] = c]
  BY Zenon DEF Accept
<1>2. fdTable'[f] = c /\ \A g \in Fd \ {f} : fdTable'[g] = fdTable[g]
  BY <1>1 DEF TypeInv, ProcessTypes
<1>3. accepted = Nil /\ accepted' = c /\ lpc' = "add" /\ c # Nil
  BY Zenon, ServerAssumption DEF Accept, ConnInv, ListenerInv
<1>4. UNCHANGED <<conns, hpc, mu, cur>>
  BY Zenon DEF Accept, handlerVars
<1>5. ~Known(c)
  BY Zenon DEF Accept, ConnInv, ListenerInv
<1>6. client'[c] = "connected" /\ \A d \in Conn \ {c} : client'[d] = client[d]
  BY DEF Accept, TypeInv, ClientTypes
<1>7. ListenerInv'
  <2>1. \A d \in Conn : client'[d] \in {"new", "backlog"} => ~Known(d)'
    <3> SUFFICES ASSUME NEW d \in Conn, client'[d] \in {"new", "backlog"} PROVE ~Known(d)'
      OBVIOUS
    <3>1. d # c /\ client[d] \in {"new", "backlog"}
      BY Zenon, <1>6
    <3>2. ~Known(d)
      BY Zenon, <3>1 DEF ConnInv, ListenerInv
    <3> QED
      BY Zenon, <1>2, <1>4, <3>1, <3>2 DEF Known
  <2>2. \A g, h \in Fd : fdTable'[g] = fdTable'[h] /\ fdTable'[g] # Nil => g = h
    <3>1. \A g, h \in Fd : fdTable[g] = fdTable[h] /\ fdTable[g] # Nil => g = h
      BY Zenon DEF ConnInv, ListenerInv
    <3>2. \A g \in Fd : fdTable[g] # c
      BY Zenon, <1>5 DEF Known
    <3> QED
      BY Zenon, <1>2, <3>1, <3>2
  <2> QED
    BY Zenon, <1>2, <1>3, <1>4, <1>5, <2>1, <2>2 DEF ListenerInv, Known
<1>8. ConnsInv'
  <2>1. ASSUME NEW h \in Handler, NEW g \in Fd, conns[h][g] # Nil
        PROVE  fdTable'[g] = conns[h][g] <=> fdTable[g] = conns[h][g]
    <3>1. conns[h][g] # c
      BY Zenon, <1>5 DEF Known
    <3> QED
      BY Zenon, <1>1, <1>2, <2>1, <3>1
  <2> SUFFICES ASSUME NEW h \in Handler
               PROVE  /\ mu[h] <=> hpc[h] = "delete"
                      /\ hpc[h] \in {"read", "dispatch", "await", "close", "delete"} =>
                           conns[h][cur[h].fd] = cur[h].conn
                      /\ \A g \in Fd : conns[h][g] # Nil =>
                           (fdTable'[g] = conns[h][g] <=> ~Closing(h, g))
    BY <1>4 DEF ConnsInv, Closing
  <2> QED
    BY <2>1 DEF ConnInv, ConnsInv
<1>9. HandlersInv'
  <2>1. ASSUME NEW g \in Fd, fdTable'[g] \notin {Nil, c}
        PROVE  \E h \in Handler : conns[h][g] = fdTable'[g]
    <3>1. g # f /\ fdTable[g] \notin {Nil, accepted}
      BY Zenon, <1>2, <1>3, <2>1
    <3> QED
      BY Zenon, <1>2, <3>1 DEF ConnInv, HandlersInv
  <2>2. ASSUME NEW g \in Fd, NEW h \in Handler, NEW i \in Handler, fdTable'[g] # Nil,
               conns[h][g] = fdTable'[g], conns[i][g] = fdTable'[g]
        PROVE  h = i
    <3>1. g # f
      BY Zenon, <1>2, <1>5, <2>2 DEF Known
    <3>2. fdTable[g] # Nil /\ conns[h][g] = fdTable[g] /\ conns[i][g] = fdTable[g]
      BY Zenon, <1>2, <2>2, <3>1
    <3> QED
      BY <3>2 DEF ConnInv, HandlersInv
  <2> QED
    BY Zenon, <1>3, <1>4, <2>1, <2>2 DEF HandlersInv
<1> QED
  BY <1>7, <1>8, <1>9 DEF ConnInv

(* AddConn gives an open connection its only handler.  The mutex keeps it  *)
(* from a handler that is about to delete the entry.                       *)
LEMMA AddConnConn ==
  ASSUME TypeInv, ConnInv, AddConn
  PROVE  ConnInv'
<1> DEFINE h == nextIO % NumHandlers
           f == FdOf(accepted)
<1>1. h \in Handler /\ accepted \in Conn /\ accepted # Nil
  BY ServerAssumption DEF AddConn, TypeInv, ListenerTypes, InHand, Handler
<1>2. f \in Fd /\ fdTable[f] = accepted
  <2>1. \E g \in Fd : fdTable[g] = accepted
    BY DEF AddConn, ConnInv, ListenerInv
  <2> QED
    BY <2>1 DEF FdOf
<1>3. ~mu[h] /\ conns' = [conns EXCEPT ![h][f] = accepted]
  BY DEF AddConn
<1>4. UNCHANGED <<client, fdTable, hpc, mu, cur>> /\ accepted' = Nil /\ lpc' # "add"
  BY DEF AddConn, clientVars
<1> HIDE DEF h, f
<1>5. /\ conns'[h][f] = accepted
      /\ \A i \in Handler, g \in Fd : i # h \/ g # f => conns'[i][g] = conns[i][g]
  BY <1>1, <1>2, <1>3 DEF TypeInv, HandlerTypes
<1>6. \A i \in Handler, g \in Fd : conns[i][g] # accepted
  BY DEF AddConn, ConnInv, ListenerInv
<1>7. hpc[h] # "delete"
  BY <1>1, <1>3 DEF ConnInv, ConnsInv
<1>8. conns[h][f] = Nil
  BY <1>1, <1>2, <1>6, <1>7 DEF ConnInv, ConnsInv, Closing
<1>9. ListenerInv'
  <2>1. client[accepted] \notin {"new", "backlog"}
    BY Zenon, <1>1, <1>2 DEF ConnInv, ListenerInv, Known
  <2>2. ASSUME NEW d \in Conn, client'[d] \in {"new", "backlog"} PROVE ~Known(d)'
    <3>1. d # accepted /\ ~Known(d)
      BY Zenon, <1>4, <2>1, <2>2 DEF ConnInv, ListenerInv
    <3> QED
      BY Zenon, <1>4, <1>5, <3>1 DEF Known
  <2> QED
    BY Zenon, <1>4, <2>2 DEF ConnInv, ListenerInv
<1>10. ConnsInv'
  <2> SUFFICES ASSUME NEW i \in Handler
               PROVE  /\ mu[i] <=> hpc[i] = "delete"
                      /\ hpc[i] \in {"read", "dispatch", "await", "close", "delete"} =>
                           conns'[i][cur[i].fd] = cur[i].conn
                      /\ \A g \in Fd : conns'[i][g] # Nil =>
                           (fdTable[g] = conns'[i][g] <=> ~(hpc[i] = "delete" /\ cur[i].fd = g))
    BY Zenon, <1>4 DEF ConnsInv, Closing
  <2>1. hpc[i] \in {"read", "dispatch", "await", "close", "delete"} =>
          cur[i].fd \in Fd /\ cur[i].conn # Nil
    BY Zenon, ServerAssumption DEF TypeInv, InHand
  <2> QED
    BY <1>1, <1>2, <1>5, <1>7, <1>8, <2>1 DEF ConnInv, ConnsInv, Closing
<1>11. HandlersInv'
  <2>1. ASSUME NEW g \in Fd, fdTable[g] # Nil PROVE \E i \in Handler : conns'[i][g] = fdTable[g]
    <3>1. CASE g = f
      BY <1>1, <1>2, <1>5, <3>1
    <3>2. CASE g # f
      <4>1. fdTable[g] # accepted
        BY <1>1, <1>2, <3>2 DEF ConnInv, ListenerInv
      <4> QED
        BY Zenon, <1>5, <2>1, <3>2, <4>1 DEF ConnInv, HandlersInv
    <3> QED
      BY <3>1, <3>2
  <2>2. ASSUME NEW g \in Fd, NEW i \in Handler, NEW j \in Handler, fdTable[g] # Nil,
               conns'[i][g] = fdTable[g], conns'[j][g] = fdTable[g]
        PROVE  i = j
    BY <1>2, <1>5, <1>6, <2>2 DEF ConnInv, HandlersInv
  <2> QED
    BY Zenon, <1>4, <2>1, <2>2 DEF HandlersInv
<1> QED
  BY <1>9, <1>10, <1>11 DEF ConnInv

(* conn.Close frees the descriptor of the only handler that uses it.       *)
LEMMA CloseFdConn ==
  ASSUME TypeInv, ConnInv, NEW h \in Handler, CloseFd(h)
  PROVE  ConnInv'
<1> DEFINE f == cur[h].fd
           c == cur[h].conn
<1>1. hpc[h] = "close" /\ f \in Fd /\ c \in Conn /\ c # Nil
  BY Zenon, ServerAssumption DEF CloseFd, Goto, TypeInv, InHand
<1>2. conns[h][f] = c /\ fdTable[f] = c
  BY Zenon, <1>1, CurOpen DEF ConnInv, ConnsInv
<1>3. fdTable'[f] = Nil /\ \A g \in Fd \ {f} : fdTable'[g] = fdTable[g]
  BY Zenon, <1>1 DEF CloseFd, TypeInv, ProcessTypes
<1>4. /\ hpc'[h] = "delete" /\ mu'[h]
      /\ \A i \in Handler \ {h} : hpc'[i] = hpc[i] /\ mu'[i] = mu[i]
  BY DEF CloseFd, Goto, TypeInv, HandlerTypes
<1>5. UNCHANGED <<lpc, accepted, conns, cur>>
  BY Zenon DEF CloseFd, listenerVars
<1>6. \A d \in Conn : client'[d] = IF d = c THEN "closed" ELSE client[d]
  BY Zenon, <1>2 DEF CloseFd, Disconnect
<1>7. \A i \in Handler \ {h} : conns[i][f] # Nil => conns[i][f] # c /\ Closing(i, f)
  BY <1>1, <1>2 DEF ConnInv, ConnsInv, HandlersInv, Closing
<1>8. ListenerInv'
  <2>1. lpc = "add" => accepted # c
    BY Zenon, <1>1, <1>2 DEF ConnInv, ListenerInv
  <2>2. lpc = "add" => \E g \in Fd : fdTable'[g] = accepted
    BY Zenon, <1>2, <1>3, <2>1 DEF ConnInv, ListenerInv
  <2>3. ASSUME NEW d \in Conn, client'[d] \in {"new", "backlog"} PROVE ~Known(d)'
    <3>1. d # Nil /\ client[d] \in {"new", "backlog"}
      BY Zenon, <1>6, <2>3, ServerAssumption
    <3>2. ~Known(d)
      BY Zenon, <3>1 DEF ConnInv, ListenerInv
    <3> QED
      BY Zenon, <1>3, <1>5, <3>1, <3>2 DEF Known
  <2>4. \A g, i \in Fd : fdTable'[g] = fdTable'[i] /\ fdTable'[g] # Nil => g = i
    <3>1. \A g, i \in Fd : fdTable[g] = fdTable[i] /\ fdTable[g] # Nil => g = i
      BY Zenon DEF ConnInv, ListenerInv
    <3> QED
      BY Zenon, <1>3, <3>1
  <2> QED
    BY Zenon, <1>5, <2>2, <2>3, <2>4 DEF ConnInv, ListenerInv
<1>9. ConnsInv'
  <2> SUFFICES ASSUME NEW i \in Handler
               PROVE  /\ mu'[i] <=> hpc'[i] = "delete"
                      /\ hpc'[i] \in {"read", "dispatch", "await", "close", "delete"} =>
                           conns[i][cur[i].fd] = cur[i].conn
                      /\ \A g \in Fd : conns[i][g] # Nil =>
                           (fdTable'[g] = conns[i][g] <=> ~(hpc'[i] = "delete" /\ cur[i].fd = g))
    BY <1>5 DEF ConnsInv, Closing
  <2> HIDE DEF f, c
  <2>1. CASE i = h
    BY <1>1, <1>2, <1>3, <1>4, <2>1 DEF ConnInv, ConnsInv, Closing, f, c
  <2>2. CASE i # h
    BY <1>3, <1>4, <1>7, <2>2 DEF ConnInv, ConnsInv, Closing
  <2> QED
    BY Zenon, <2>1, <2>2
<1>10. HandlersInv'
  <2>1. ASSUME NEW g \in Fd, fdTable'[g] # Nil PROVE fdTable'[g] = fdTable[g]
    BY Zenon, <1>3, <2>1
  <2> QED
    BY <1>5, <2>1 DEF ConnInv, HandlersInv
<1> QED
  BY <1>8, <1>9, <1>10 DEF ConnInv

(* The entry that is deleted is not that of an open connection.            *)
LEMMA DeleteConnConn ==
  ASSUME TypeInv, ConnInv, NEW h \in Handler, DeleteConn(h)
  PROVE  ConnInv'
<1> DEFINE f == cur[h].fd
<1>1. hpc[h] = "delete" /\ f \in Fd /\ conns[h][f] # Nil /\ conns[h][f] # fdTable[f]
  BY ServerAssumption DEF DeleteConn, Goto, TypeInv, InHand, ConnInv, ConnsInv, Closing
<1>2. /\ conns'[h][f] = Nil
      /\ \A i \in Handler, g \in Fd : i # h \/ g # f => conns'[i][g] = conns[i][g]
  BY Zenon, <1>1 DEF DeleteConn, TypeInv, HandlerTypes
<1>3. /\ hpc'[h] = "events" /\ ~mu'[h]
      /\ \A i \in Handler \ {h} : hpc'[i] = hpc[i] /\ mu'[i] = mu[i] /\ cur'[i] = cur[i]
  BY Zenon DEF DeleteConn, Goto, TypeInv, HandlerTypes
<1>4. UNCHANGED <<client, fdTable, lpc, accepted>>
  BY DEF DeleteConn, clientVars, listenerVars
<1> HIDE DEF f
<1>5. ListenerInv'
  <2>1. lpc = "add" => accepted # Nil
    BY Zenon DEF TypeInv, InHand
  <2>2. ASSUME NEW d \in Conn, client'[d] \in {"new", "backlog"} PROVE ~Known(d)'
    <3>1. d # Nil /\ ~Known(d)
      BY Zenon, <1>4, <2>2, ServerAssumption DEF ConnInv, ListenerInv
    <3> QED
      BY Zenon, <1>2, <1>4, <3>1 DEF Known
  <2>3. ASSUME lpc = "add", NEW i \in Handler, NEW g \in Fd PROVE conns'[i][g] # accepted
    <3>1. conns[i][g] # accepted
      BY Zenon, <2>3 DEF ConnInv, ListenerInv
    <3> QED
      BY Zenon, <1>2, <2>1, <2>3, <3>1
  <2> QED
    BY Zenon, <1>4, <2>2, <2>3 DEF ConnInv, ListenerInv
<1>6. ConnsInv'
  <2> SUFFICES ASSUME NEW i \in Handler
               PROVE  /\ mu'[i] <=> hpc'[i] = "delete"
                      /\ hpc'[i] \in {"read", "dispatch", "await", "close", "delete"} =>
                           conns'[i][cur'[i].fd] = cur'[i].conn
                      /\ \A g \in Fd : conns'[i][g] # Nil =>
                           (fdTable[g] = conns'[i][g] <=> ~(hpc'[i] = "delete" /\ cur'[i].fd = g))
    BY <1>4 DEF ConnsInv, Closing
  <2>1. CASE i = h
    BY <1>1, <1>2, <1>3, <2>1 DEF ConnInv, ConnsInv, Closing, f
  <2>2. CASE i # h
    <3>1. hpc[i] \in {"read", "dispatch", "await", "close", "delete"} => cur[i].fd \in Fd
      BY Zenon DEF TypeInv, InHand
    <3> QED
      BY <1>2, <1>3, <2>2, <3>1 DEF ConnInv, ConnsInv, Closing
  <2> QED
    BY Zenon, <2>1, <2>2
<1>7. HandlersInv'
  <2>1. ASSUME NEW g \in Fd, fdTable[g] \notin {Nil, accepted}
        PROVE  \E i \in Handler : conns'[i][g] = fdTable[g]
    <3>1. PICK i \in Handler : conns[i][g] = fdTable[g]
      BY Zenon, <2>1 DEF ConnInv, HandlersInv
    <3> QED
      BY Zenon, <1>1, <1>2, <3>1
  <2>2. ASSUME NEW g \in Fd, NEW i \in Handler, NEW j \in Handler, fdTable[g] # Nil,
               conns'[i][g] = fdTable[g], conns'[j][g] = fdTable[g]
        PROVE  i = j
    <3>1. conns[i][g] = fdTable[g] /\ conns[j][g] = fdTable[g]
      BY Zenon, <1>2, <2>2
    <3> QED
      BY Zenon, <2>2, <3>1 DEF ConnInv, HandlersInv
  <2> QED
    BY Zenon, <1>4, <2>1, <2>2 DEF HandlersInv
<1> QED
  BY <1>5, <1>6, <1>7 DEF ConnInv

(* Every step keeps the connections in order.                              *)
LEMMA ConnStep ==
  ASSUME TypeInv, ConnInv, [Next]_vars
  PROVE  ConnInv'
<1>1. ASSUME NEW c \in Conn, ClientStep(c) PROVE ConnInv'
  BY Zenon, <1>1, OutsideConn DEF ClientStep, Connect, Close, Send, TypeInv, ClientTypes, listenerVars,
                           handlerVars
<1>2. CASE Listen \/ ListenFails \/ AcceptFails \/ CheckStatus \/ StopListener
  <2>1. UNCHANGED <<fdTable, accepted, hpc, mu, conns, cur>> /\ (lpc' = "add" <=> lpc = "add")
    BY Zenon, <1>2 DEF Listen, ListenFails, AcceptFails, CheckStatus, StopListener, listenerVars, handlerVars
  <2>2. \A c \in Conn : client'[c] \in {"new", "backlog"} => client[c] \in {"new", "backlog"}
    BY Zenon, <1>2 DEF Listen, ListenFails, AcceptFails, CheckStatus, StopListener, CloseListener, Disconnect,
                clientVars
  <2> QED
    BY Zenon, <2>1, <2>2, OutsideConn
<1>3. ASSUME NEW c \in Conn, Accept(c) PROVE ConnInv'
  BY <1>3, AcceptConn
<1>4. CASE AddConn
  BY <1>4, AddConnConn
<1>5. ASSUME NEW h \in Handler, HandlerStep(h) PROVE ConnInv'
  <2>1. CASE Wait(h)
    BY Zenon, <2>1, WorkConn DEF Wait, Goto, clientVars, listenerVars
  <2>2. CASE NextBatch(h)
    <3>1. PICK to \in {"wait", "spin"} : hpc' = [hpc EXCEPT ![h] = to]
      BY Zenon, <2>2 DEF NextBatch, Goto
    <3> QED
      BY Zenon, <2>2, <3>1, WorkConn DEF NextBatch, Goto, clientVars, listenerVars
  <2>3. CASE Lookup(h)
    <3>1. PICK f \in events[h] :
            IF conns[h][f] = Nil
            THEN UNCHANGED <<hpc, cur>>
            ELSE /\ hpc' = [hpc EXCEPT ![h] = "read"]
                 /\ cur' = [cur EXCEPT ![h] = [fd |-> f, conn |-> conns[h][f], cmd |-> Nil]]
      BY Zenon, <2>3 DEF Lookup
    <3>2. CASE conns[h][f] = Nil
      BY Zenon, <2>3, <3>1, <3>2, OutsideConn DEF Lookup, clientVars, listenerVars
    <3>3. CASE conns[h][f] # Nil
      <4>1. cur'[h].fd = f /\ cur'[h].conn = conns[h][f] /\ \A g \in Handler \ {h} : cur'[g] = cur[g]
        BY <3>1, <3>3 DEF TypeInv, HandlerTypes
      <4> QED
        BY Zenon, <2>3, <3>1, <3>3, <4>1, WorkConn DEF Lookup, clientVars, listenerVars
    <3> QED
      BY Zenon, <3>2, <3>3
  <2>4. CASE Read(h)
    <3>1. cur'[h].fd = cur[h].fd /\ cur'[h].conn = cur[h].conn /\ \A g \in Handler \ {h} : cur'[g] = cur[g]
      BY <2>4 DEF Read, TypeInv, HandlerTypes, Work
    <3>2. conns[h][cur[h].fd] = cur[h].conn
      BY <2>4 DEF Read, Goto, ConnInv, ConnsInv
    <3> QED
      BY Zenon, <2>4, <3>1, <3>2, WorkConn DEF Read, Goto, listenerVars
  <2>5. CASE ReadFails(h)
    BY Zenon, <2>5, WorkConn DEF ReadFails, Goto, clientVars, listenerVars, ConnInv, ConnsInv
  <2>6. CASE CloseFd(h)
    BY <2>6, CloseFdConn
  <2>7. CASE DeleteConn(h)
    BY <2>7, DeleteConnConn
  <2>8. CASE Dispatch(h)
    BY Zenon, <2>8, WorkConn DEF Dispatch, Goto, clientVars, listenerVars, ConnInv, ConnsInv
  <2>9. CASE DispatchPanics(h)
    BY Zenon, <2>9, OutsideConn DEF DispatchPanics, clientVars, listenerVars, handlerVars
  <2>10. CASE WriteReply(h)
    <3>1. \A g \in Handler \ {h} : cur'[g] = cur[g]
      BY Zenon, <2>10 DEF WriteReply, TypeInv, HandlerTypes
    <3> QED
      BY Zenon, <2>10, <3>1, WorkConn DEF WriteReply, Goto, listenerVars
  <2> QED
    BY <1>5, <2>1, <2>2, <2>3, <2>4, <2>5, <2>6, <2>7, <2>8, <2>9, <2>10 DEF HandlerStep
<1>6. ASSUME NEW w \in Worker, WorkerStep(w) PROVE ConnInv'
  BY Zenon, <1>6, OutsideConn DEF WorkerStep, ExecuteAndResponse, WorkerExits, clientVars, listenerVars,
                           handlerVars
<1>7. CASE Signal \/ CancelWorker \/ CloseTaskCh \/ JoinWorker \/ StopHandler \/ Exit
  BY Zenon, <1>7, OutsideConn DEF Signal, CancelWorker, CloseTaskCh, JoinWorker, StopHandler, Exit, clientVars,
                           listenerVars, handlerVars
<1>8. CASE UNCHANGED vars
  BY <1>8, OutsideConn DEF vars, clientVars, listenerVars, handlerVars
<1> QED
  BY <1>1, <1>2, <1>3, <1>4, <1>5, <1>6, <1>7, <1>8 DEF Next, ListenerStep, StopStep

(* Steps that touch no command in a handler's hands.                       *)
LEMMA AskedFrame ==
  ASSUME Asked,
         \A h \in Handler : hpc'[h] \in {"dispatch", "await"} =>
           /\ hpc[h] \in {"dispatch", "await"} /\ cur'[h] = cur[h]
           /\ call'[cur[h].conn] = call[cur[h].conn] /\ unread'[cur[h].conn] = unread[cur[h].conn]
  PROVE  Asked'
<1> SUFFICES ASSUME NEW h \in Handler, hpc'[h] \in {"dispatch", "await"}
             PROVE  call'[cur'[h].conn] = cur'[h].cmd /\ ~unread'[cur'[h].conn]
  BY Zenon DEF Asked
<1>1. call[cur[h].conn] = cur[h].cmd /\ ~unread[cur[h].conn]
  BY Zenon DEF Asked
<1> QED
  BY Zenon, <1>1

(* A client that waits sends nothing, and only its handler takes its       *)
(* command, answers it or closes its connection.                           *)
LEMMA AskedStep ==
  ASSUME TypeInv, ConnInv, Asked, [Next]_vars
  PROVE  Asked'
<1> DEFINE Held(h) == hpc[h] \in {"dispatch", "await"}
<1>1. \A h \in Handler : Held(h) => /\ cur[h].conn \in Conn /\ cur[h].cmd # Nil
                                    /\ client[cur[h].conn] # "backlog"
  BY CurOpen, ServerAssumption DEF TypeInv, InHand
<1>2. ASSUME NEW c \in Conn, ClientStep(c) PROVE Asked'
  <2>1. CASE Connect(c) \/ Close(c)
    BY Zenon, <2>1, AskedFrame DEF Connect, Close, handlerVars
  <2>2. ASSUME NEW cmd \in Cmd, Send(c, cmd) PROVE Asked'
    <3>1. \A h \in Handler : Held(h) => cur[h].conn # c
      BY Zenon, <1>1, <2>2 DEF Send, Asked
    <3>2. \A d \in Conn \ {c} : call'[d] = call[d] /\ unread'[d] = unread[d]
      BY Zenon, <2>2 DEF Send, TypeInv, ClientTypes
    <3> QED
      BY Zenon, <1>1, <2>2, <3>1, <3>2, AskedFrame DEF Send, handlerVars
  <2> QED
    BY <1>2, <2>1, <2>2 DEF ClientStep
<1>3. CASE CheckStatus \/ StopListener
  <2>1. UNCHANGED <<hpc, cur>>
    BY Zenon, <1>3 DEF CheckStatus, StopListener, handlerVars
  <2>2. UNCHANGED <<call, unread>> \/ Disconnect(Backlog)
    BY Zenon, <1>3 DEF CheckStatus, StopListener, CloseListener, clientVars
  <2>3. CASE Disconnect(Backlog)
    <3>1. \A d \in Conn \ Backlog : call'[d] = call[d]
      BY Zenon, <2>3 DEF Disconnect
    <3>2. \A d \in Conn \ Backlog : unread'[d] <=> unread[d]
      BY <2>3, Zenon DEF Disconnect
    <3>3. \A h \in Handler : Held(h) => cur[h].conn \in Conn \ Backlog
      BY <1>1 DEF Backlog
    <3> QED
      BY Zenon, <2>1, <3>1, <3>2, <3>3 DEF Asked
  <2> QED
    BY Zenon, <2>1, <2>2, <2>3, AskedFrame
<1>4. CASE Listen \/ ListenFails \/ AcceptFails \/ AddConn \/ \E c \in Conn : Accept(c)
  <2>1. UNCHANGED <<hpc, cur, call, unread>>
    BY Zenon, <1>4 DEF Listen, ListenFails, AcceptFails, AddConn, Accept, clientVars, handlerVars
  <2> QED
    BY Zenon, <2>1, AskedFrame
<1>5. ASSUME NEW h \in Handler, HandlerStep(h) PROVE Asked'
  <2>1. CASE Wait(h) \/ NextBatch(h) \/ ReadFails(h) \/ DeleteConn(h)
    <3>1. /\ hpc'[h] \notin {"dispatch", "await"}
          /\ \A g \in Handler \ {h} : hpc'[g] = hpc[g] /\ cur'[g] = cur[g]
      BY Zenon, <2>1 DEF Wait, NextBatch, ReadFails, DeleteConn, Goto, TypeInv, HandlerTypes
    <3>2. UNCHANGED <<call, unread>>
      BY Zenon, <2>1 DEF Wait, NextBatch, ReadFails, DeleteConn, clientVars
    <3> QED
      BY Zenon, <3>1, <3>2, AskedFrame
  <2>2. CASE Lookup(h)
    <3>1. /\ hpc'[h] \notin {"dispatch", "await"}
          /\ \A g \in Handler \ {h} : hpc'[g] = hpc[g] /\ cur'[g] = cur[g]
      BY <2>2 DEF Lookup, TypeInv, HandlerTypes
    <3>2. UNCHANGED <<call, unread>>
      BY Zenon, <2>2 DEF Lookup, clientVars
    <3> QED
      BY Zenon, <3>1, <3>2, AskedFrame
  <2>3. CASE Read(h)
    <3> DEFINE c == cur[h].conn
    <3>1. c \in Conn
      BY <2>3 DEF Read, Goto, TypeInv, InHand
    <3>2. cur'[h].conn = c /\ cur'[h].cmd = call[c]
      BY <2>3 DEF Read, TypeInv, HandlerTypes, Work
    <3>3. \A g \in Handler \ {h} : hpc'[g] = hpc[g] /\ cur'[g] = cur[g]
      BY <2>3 DEF Read, Goto, TypeInv, HandlerTypes
    <3>4. call' = call /\ ~unread'[c] /\ \A d \in Conn \ {c} : unread'[d] = unread[d]
      BY Zenon, <2>3, <3>1 DEF Read, TypeInv, ClientTypes
    <3>5. \A g \in Handler \ {h} : Held(g) => cur[g].conn # c
      BY <2>3, CurOpen DEF Read, Goto
    <3> HIDE DEF c
    <3> QED
      <4> SUFFICES ASSUME NEW g \in Handler, hpc'[g] \in {"dispatch", "await"}
                   PROVE  call'[cur'[g].conn] = cur'[g].cmd /\ ~unread'[cur'[g].conn]
        BY Zenon DEF Asked
      <4>1. CASE g = h
        BY Zenon, <3>2, <3>4, <4>1
      <4>2. CASE g # h
        <5>1. Held(g) /\ cur'[g] = cur[g] /\ cur[g].conn \in Conn /\ cur[g].conn # c
          BY Zenon, <1>1, <3>3, <3>5, <4>2
        <5> QED
          BY Zenon, <3>4, <5>1 DEF Asked
      <4> QED
        BY Zenon, <4>1, <4>2
  <2>4. CASE CloseFd(h)
    <3> DEFINE c == cur[h].conn
    <3>1. Disconnect({c})
      BY Zenon, <2>4 DEF CloseFd, Goto, ConnInv, ConnsInv
    <3>2. \A d \in Conn \ {c} : call'[d] = call[d]
      BY Zenon, <3>1 DEF Disconnect
    <3>3. \A d \in Conn \ {c} : unread'[d] <=> unread[d]
      BY <3>1, Zenon DEF Disconnect
    <3>4. hpc'[h] = "delete" /\ cur' = cur /\ \A g \in Handler \ {h} : hpc'[g] = hpc[g]
      BY Zenon, <2>4 DEF CloseFd, Goto, TypeInv, HandlerTypes
    <3>5. \A g \in Handler \ {h} : Held(g) => cur[g].conn # c
      BY Zenon, <2>4, CurOpen DEF CloseFd, Goto
    <3> HIDE DEF c
    <3> QED
      BY Zenon, <1>1, <3>2, <3>3, <3>4, <3>5 DEF Asked
  <2>5. CASE Dispatch(h) \/ DispatchPanics(h)
    <3>1. \A g \in Handler : hpc'[g] \in {"dispatch", "await"} => hpc[g] \in {"dispatch", "await"}
      BY Zenon, <2>5 DEF Dispatch, DispatchPanics, Goto, TypeInv, HandlerTypes, handlerVars
    <3>2. UNCHANGED <<cur, call, unread>>
      BY Zenon, <2>5 DEF Dispatch, DispatchPanics, clientVars, handlerVars
    <3> QED
      BY Zenon, <3>1, <3>2, AskedFrame
  <2>6. CASE WriteReply(h)
    <3> DEFINE c == cur[h].conn
    <3>1. fdTable[cur[h].fd] = c /\ \A g \in Handler \ {h} : Held(g) => cur[g].conn # c
      BY Zenon, <2>6, CurOpen DEF WriteReply, Goto
    <3>2. \A d \in Conn \ {c} : call'[d] = call[d]
      BY Zenon, <2>6, <3>1 DEF WriteReply
    <3>3. hpc'[h] = "events" /\ \A g \in Handler \ {h} : hpc'[g] = hpc[g] /\ cur'[g] = cur[g]
      BY Zenon, <2>6 DEF WriteReply, Goto, TypeInv, HandlerTypes
    <3>4. UNCHANGED unread
      BY Zenon, <2>6 DEF WriteReply
    <3> HIDE DEF c
    <3> QED
      <4>1. ASSUME NEW g \in Handler, hpc'[g] \in {"dispatch", "await"}
            PROVE  g # h /\ Held(g) /\ cur'[g] = cur[g] /\ call'[cur[g].conn] = call[cur[g].conn]
        BY Zenon, <1>1, <3>1, <3>2, <3>3, <4>1
      <4> QED
        BY Zenon, <3>4, <4>1, AskedFrame
  <2> QED
    BY <1>5, <2>1, <2>2, <2>3, <2>4, <2>5, <2>6 DEF HandlerStep
<1>6. ASSUME NEW w \in Worker, WorkerStep(w) PROVE Asked'
  BY Zenon, <1>6, AskedFrame DEF WorkerStep, ExecuteAndResponse, WorkerExits, clientVars, handlerVars
<1>7. CASE Signal \/ CancelWorker \/ CloseTaskCh \/ JoinWorker \/ StopHandler \/ Exit
  <2>1. UNCHANGED <<hpc, cur, call, unread>>
    BY Zenon, <1>7 DEF Signal, CancelWorker, CloseTaskCh, JoinWorker, StopHandler, Exit, clientVars, handlerVars
  <2> QED
    BY Zenon, <2>1, AskedFrame
<1>8. CASE UNCHANGED vars
  BY Zenon, <1>8, AskedFrame DEF vars, clientVars, handlerVars
<1> QED
  BY <1>2, <1>3, <1>4, <1>5, <1>6, <1>7, <1>8 DEF Next, ListenerStep, StopStep

(* The inductive invariant behind TypeOK, ReplyToAsker and                 *)
(* EveryConnHandled.                                                       *)
ServerInv == TypeInv /\ ConnInv /\ Asked

(* Every reachable state of the server satisfies the invariant.            *)
LEMMA ServerInvariant == Spec => []ServerInv
<1>1. Init => ServerInv
  BY TypeInit, ConnInit DEF ServerInv
<1>2. ServerInv /\ [Next]_vars => ServerInv'
  <2> SUFFICES ASSUME ServerInv, [Next]_vars PROVE TypeInv'
    BY ConnStep, AskedStep DEF ServerInv
  <2>1. CASE Next
    BY <2>1, ClientStepTypes, ListenerStepTypes, HandlerStepTypes, WorkerStepTypes, StopStepTypes
       DEF Next, ServerInv
  <2>2. CASE UNCHANGED vars
    BY Zenon, <2>2, Frames DEF vars, ServerInv, TypeInv, clientVars, listenerVars, handlerVars
  <2> QED
    BY <2>1, <2>2
<1> QED
  BY <1>1, <1>2, PTL DEF Spec

(* TypeOK: descriptors, queues, partitions and program counters keep their *)
(* types; what a worker takes from TaskCh is always a command.             *)
THEOREM TypeCorrect == Spec => []TypeOK
<1>1. ServerInv => TypeOK
  BY TypesSplit DEF ServerInv, TypeInv
<1> QED
  BY <1>1, ServerInvariant, PTL

(* ReplyToAsker: a handler never answers on a descriptor that denotes      *)
(* another connection by now, however descriptors are closed and reused.   *)
THEOREM AnswersTheAsker == Spec => []ReplyToAsker
<1>1. ServerInv => ReplyToAsker
  BY Zenon, CurOpen DEF ServerInv, ReplyToAsker
<1> QED
  BY <1>1, ServerInvariant, PTL

(* EveryConnHandled: an open connection that was handed over is in the map *)
(* of exactly one handler.                                                 *)
THEOREM ConnectionsHandled == Spec => []EveryConnHandled
<1>1. ServerInv => EveryConnHandled
  <2> SUFFICES ASSUME ServerInv, NEW f \in Fd, fdTable[f] \notin {Nil, accepted}
               PROVE  \E h \in Handler : {g \in Handler : conns[g][f] = fdTable[f]} = {h}
    BY DEF EveryConnHandled
  <2>1. PICK h \in Handler : conns[h][f] = fdTable[f]
    BY Zenon DEF ServerInv, ConnInv, HandlersInv
  <2>2. \A g \in Handler : conns[g][f] = fdTable[f] => g = h
    BY Zenon, <2>1 DEF ServerInv, ConnInv, HandlersInv
  <2> QED
    BY <2>1, <2>2
<1> QED
  BY <1>1, ServerInvariant, PTL
=============================================================================
