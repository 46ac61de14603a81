------------------------------ MODULE MCServer ------------------------------
(* Server for TLC: a few connections, descriptors, handlers and workers.   *)
EXTENDS Server, TLC

CONSTANTS k1, k2, v1

(* k1 and k2 fall into different partitions of two workers.                *)
OneHash   == (k1 :> 3)
TwoHashes == (k1 :> 4 @@ k2 :> 7)

Command1(op, key, value) == [op |-> op, key |-> key, value |-> value]

Set1 == Command1("SET", k1, v1)
Get1 == Command1("GET", k1, Nil)
Set2 == Command1("SET", k2, v1)
Ping == Command1("PING", Nil, Nil)
Echo == Command1("PING", k1, Nil)
Lone == Command1("ERR", Nil, Nil)
Bad  == Command1("BAD", Nil, Nil)

DataCmds == {Set1, Get1, Set2}
LiveCmds == {Echo, Lone, Bad}
PingCmds == {Ping}

ConnSymmetry == Permutations(Conn)
=============================================================================
