----------------------------- MODULE MCExecutor -----------------------------
(* Executor for TLC: three clients, each with the commands of one store,   *)
(* and beside them a program that uses a Bloom filter.                     *)
EXTENDS Executor, Bloom

key  == <<107>>
x    == <<120>>
y    == <<121>>
eol  == <<13, 10>>  \* a word that is an end of line
bad  == <<45>>      \* a word that is no number
num(n) == <<Zero + n>>
rate(n) == <<Zero, 46, Zero + n>>
lower(name) == <<name[1] + 32>>

SetMenu == {
  <<SADD, key, x>>, <<lower(SADD), key, x, eol, x>>, <<SADD, key, <<>>>>, <<SADD, key>>,
  <<SREM, key, x>>, <<SREM, key, eol, <<>>, eol>>, <<SREM, key>>,
  <<SMEMBERS, key>>, <<SMEMBERS>>, <<SISMEMBER, key, eol>>, <<SISMEMBER, key>>,
  <<UNKNOWN, key>>}

ZsetMenu == {
  <<ZADD, key, num(1), x>>, <<lower(ZADD), key, num(2), x, num(3), y>>,
  <<ZADD, key, num(0), y, bad, x, num(9), <<122>>>>,
  <<ZADD, key, num(4), <<122>>, num(5), <<>>, num(6), y>>,
  <<ZADD, key, num(1)>>, <<ZADD, key, num(7), x, num(8)>>,
  <<ZSCORE, key, x>>, <<ZSCORE, key>>, <<ZRANK, key, y>>, <<ZRANK, key>>}

CmsMenu == {
  <<INITBYDIM, key, num(2), num(2)>>, <<INITBYDIM, key, num(2), bad>>, <<INITBYDIM, key>>,
  <<INITBYDIM, key, num(1), num(0)>>,
  <<INITBYPROB, key, rate(9), rate(2)>>, <<INITBYPROB, key, rate(9), eol>>,
  <<INITBYPROB, key, num(1), rate(2)>>, <<INITBYPROB, key, bad, bad>>,
  <<INITBYPROB, key, rate(9), num(0)>>, <<INITBYPROB, key>>,
  <<INCRBY, key, x, num(1)>>, <<lower(INCRBY), key, y, num(3), eol, num(2), y, num(0)>>,
  <<INCRBY, key, eol, num(1), x, bad, y, num(1)>>, <<INCRBY, key, x, num(4), y, bad>>,
  <<INCRBY, key, x>>, <<QUERY, key, y, x, eol>>, <<QUERY, key>>}

AllMenus == {SetMenu, ZsetMenu, CmsMenu, {}}

Items   == {x, y, eol}
AllDims == {[width |-> 2, depth |-> 2], [width |-> 1, depth |-> 0], [width |-> 4, depth |-> 2]}

(* x and y meet in the first row of a narrow sketch, y and eol in its      *)
(* second.                                                                 *)
itemHash(item, row) ==
  CASE item = x -> 0 [] item = y -> row [] OTHER -> 5

(* One to three words of four bits; some sizes are rounded up.             *)
AllSizes == {[bits |-> b, hashes |-> h] : b \in {4, 5, 12}, h \in {0, 1, 3}}

(* The halves are close to 2^64 for one entry, whose hashes wrap.          *)
entryHash(e) == [a |-> 5 * e, b |-> IF e = 3 THEN 30 ELSE e]

OneSize == [bits |-> 5, hashes |-> 0]

MCInit == Init /\ BloomInit /\ (menu # {} => bloom = NewBloomFilter(OneSize))

MCNext ==
  \/ Next /\ UNCHANGED bloomVars
  \/ menu = {} /\ BloomNext /\ UNCHANGED vars

MCSpec == MCInit /\ [][MCNext]_<<vars, bloomVars>>
=============================================================================
