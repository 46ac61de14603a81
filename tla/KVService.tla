------------------------------ MODULE KVService ------------------------------
(***************************************************************************)
(* What the sharded server promises its clients: one key-value map on      *)
(* which every command takes effect at one instant between its sending and *)
(* its answer (linearizability).  Keys in Volatile carry a TTL or may be   *)
(* evicted, and may be forgotten by a command; the others are kept.        *)
(***************************************************************************)
EXTENDS Sequences

CONSTANTS Conn, Key, Value, Cmd, Volatile, Nil

VARIABLES
  store,  \* store[k]: the value of k, or Nil
  call,   \* call[c]: the command connection c waits for, or Nil
  done,   \* done[c]: <<result>> once that command took effect, else <<>>
  got     \* got[c]: the answers c received so far

vars == <<store, call, done, got>>

Forget(s, K) == [k \in Key |-> IF k \in K THEN Nil ELSE s[k]]

(* The map and the result after cmd, when the keys K were forgotten on the *)
(* way.                                                                    *)
Effect(cmd, K) ==
  CASE cmd.op = "SET" -> [store |-> [Forget(store, K) EXCEPT ![cmd.key] = cmd.value],
                          result |-> "OK"]
    [] cmd.op = "GET" -> [store |-> Forget(store, K), result |-> Forget(store, K)[cmd.key]]
    [] cmd.op = "PING" -> [store |-> store,
                           result |-> IF cmd.key = Nil THEN "PONG" ELSE cmd.key]
    [] OTHER -> [store |-> store, result |-> "ERR"]

Invoke(c, cmd) ==
  /\ call[c] = Nil
  /\ call' = [call EXCEPT ![c] = cmd]
  /\ UNCHANGED <<store, done, got>>

Perform(c) ==
  /\ call[c] # Nil /\ done[c] = <<>>
  /\ \E K \in SUBSET Volatile :
       /\ store' = Effect(call[c], K).store
       /\ done' = [done EXCEPT ![c] = <<Effect(call[c], K).result>>]
  /\ UNCHANGED <<call, got>>

Respond(c) ==
  /\ done[c] # <<>>
  /\ got' = [got EXCEPT ![c] = @ \o done[c]]
  /\ call' = [call EXCEPT ![c] = Nil]
  /\ done' = [done EXCEPT ![c] = <<>>]
  /\ UNCHANGED store

(* The connection ends: a command that took effect loses its answer, one   *)
(* that did not never will.                                                *)
Drop(c) ==
  /\ call[c] # Nil
  /\ call' = [call EXCEPT ![c] = Nil]
  /\ done' = [done EXCEPT ![c] = <<>>]
  /\ UNCHANGED <<store, got>>

Init ==
  /\ store = [k \in Key |-> Nil]
  /\ call = [c \in Conn |-> Nil]
  /\ done = [c \in Conn |-> <<>>]
  /\ got = [c \in Conn |-> <<>>]

Next ==
  \E c \in Conn :
    \/ \E cmd \in Cmd : Invoke(c, cmd)
    \/ Perform(c)
    \/ Respond(c)
    \/ Drop(c)

Spec == Init /\ [][Next]_vars
=============================================================================
