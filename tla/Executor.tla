------------------------------ MODULE Executor ------------------------------
(***************************************************************************)
(* One client and the executor of executor.go with the stores of           *)
(* storage.go that Dict does not describe: sets, sorted sets and sketches, *)
(* a key of each.  The client encodes a command, waits, and decodes the    *)
(* answer, like sendToRedis of the gateway.  The server reads the command  *)
(* into a buffer filled up with zeros, parses, executes, and encodes the   *)
(* answer.  A read yields a whole message.                                 *)
(*                                                                         *)
(* Words are sequences of bytes; the name of a command is one byte, and so *)
(* is the text of an error but for the argument it may quote.  A sorted    *)
(* set is the map of RankedMap, which SortedSet implements while no two    *)
(* scores are equal.  ZADD and CMS.INCRBY go through their pairs one step  *)
(* at a time.                                                              *)
(***************************************************************************)
EXTENDS Cms, Resp

CONSTANTS
  Menus,    \* a client sends the commands of one menu, a set of token lists
  Padding,  \* how many zeros follow a command in the buffer
  ZMember   \* the bytes that are members of sorted sets

VARIABLES
  menu,     \* the menu of the client
  phase,    \* "idle", "sent", "read", "loop" or "answered"
  sent,     \* the tokens the client sent last
  wire,     \* the bytes in flight
  command,  \* the command readCommand parsed: its name and arguments
  answer,   \* the value the handler encoded last
  pairs,    \* arguments of the current ZADD or INCRBY not yet gone through
  results,  \* what it has collected for its answer
  set,      \* setStore[key]; Nil if absent
  zset,     \* zsetStore[key] as a map from members to scores; Nil if absent
  before    \* history: the stores when the client sent its last command

stores == <<set, zset, cms, total>>
vars   == <<menu, phase, sent, wire, command, answer, pairs, results, stores, before>>

Number(n) == <<"int", n>>
Error(e, quoted)  == <<"err", <<e>> \o quoted>>
Text(w)   == <<"str", w>>
Texts(ws) == <<"arr", [i \in DOMAIN ws |-> Text(ws[i])]>>
NoValue   == <<"nil">>
Ok        == <<"simple", <<79, 75>>>>

(* The texts, names and bytes beyond those of RESP.                        *)
ArgsError == 128
NumberError == 129
AddingError == 130
ExistsError == 131
RateError == 132
NoKeyError == 133
OverflowError == 134
NotFoundError == 135
SADD == <<65>>
SREM == <<66>>
SMEMBERS == <<67>>
SISMEMBER == <<68>>
ZADD == <<69>>
ZSCORE == <<70>>
ZRANK == <<71>>
INITBYDIM == <<72>>
INITBYPROB == <<73>>
INCRBY == <<74>>
QUERY == <<75>>
UNKNOWN == <<76>>

NotANumber == -1

(* ParseInt, ParseUint and ParseFloat of the words that clients send.      *)
Parse(word) ==
  IF word # <<>> /\ \A i \in DOMAIN word : word[i] - Zero \in 0 .. 9
  THEN FoldLeft(LAMBDA n, b : 10 * n + (b - Zero), 0, word) ELSE NotANumber

(* A rate in tenths: ParseFloat of 0.d or d.                               *)
ParseRate(word) ==
  IF Len(word) = 3 /\ word[2] = 46 THEN 10 * Parse(<<word[1]>>) + Parse(<<word[3]>>)
  ELSE IF Parse(word) = NotANumber THEN NotANumber ELSE 10 * Parse(word)

(* Ceil(e / errRate) and Ceil(ln(1 / probRate)), the rates in tenths.      *)
CalcCMSDim(errRate, probRate) ==
  [width |-> (27183 \div (1000 * errRate)) + 1,
   depth |-> <<3, 2, 2, 1, 1, 1, 1, 1, 1>>[probRate]]

(* fmt.Sprintf("%f", n)                                                    *)
Fixed(n) == Digits(n) \o <<46, 48, 48, 48, 48, 48, 48>>

Zset == INSTANCE RankedMap WITH Member <- ZMember, Score <- Nat, score <- zset, ret <- Nil

-----------------------------------------------------------------------------
(* The end of a handler                                                    *)

Answer(v) ==
  /\ phase' = "answered"
  /\ answer' = v
  /\ wire' = Encode(v)
  /\ command' = <<>> /\ pairs' = <<>> /\ results' = <<>>

(* An error, with the argument its text quotes.                            *)
RefuseQuoting(e, quoted) == Answer(Error(e, quoted)) /\ UNCHANGED stores

Refuse(e) == RefuseQuoting(e, <<>>)
-----------------------------------------------------------------------------
(* Sets                                                                    *)

(* Definitions named Faulty... are not part of the specification: each is  *)
(* a definition that follows with one plausible mistake, which the         *)
(* property it is paired with in PROJECT.json must notice.                 *)

(* Every argument is counted.                                              *)
FaultySetAdd(s, members) == [set |-> s \cup ToSet(members), count |-> Len(members)]

SetAdd(s, members) ==
  FoldLeft(LAMBDA r, m : IF m \in r.set THEN r
                         ELSE [set |-> r.set \cup {m}, count |-> r.count + 1],
           [set |-> s, count |-> 0], members)

SetRem(s, members) ==
  FoldLeft(LAMBDA r, m : IF m \notin r.set THEN r
                         ELSE [set |-> r.set \ {m}, count |-> r.count + 1],
           [set |-> s, count |-> 0], members)

(* NewSimpleSet, for SADD and for SREM.                                    *)
OrNew(s) == IF s = Nil THEN {} ELSE s

cmdSADD(args) ==
  LET r == SetAdd(OrNew(set), Tail(args))
  IN IF Len(args) < 2 THEN Refuse(ArgsError)
     ELSE set' = r.set /\ Answer(Number(r.count)) /\ UNCHANGED <<zset, cms, total>>

cmdSREM(args) ==
  LET r == SetRem(OrNew(set), Tail(args))
  IN IF Len(args) < 2 THEN Refuse(ArgsError)
     ELSE set' = r.set /\ Answer(Number(r.count)) /\ UNCHANGED <<zset, cms, total>>

(* A Go map is walked in any order.                                        *)
cmdSMEMBERS(args) ==
  IF Len(args) # 1 THEN Refuse(ArgsError)
  ELSE UNCHANGED stores /\ \E list \in SetToSeqs(OrNew(set)) : Answer(Texts(list))

cmdSISMEMBER(args) ==
  IF Len(args) # 2 THEN Refuse(ArgsError)
  ELSE UNCHANGED stores /\ Answer(Number(IF args[2] \in OrNew(set) THEN 1 ELSE 0))
-----------------------------------------------------------------------------
(* Sorted sets                                                             *)

EmptyZset == [m \in ZMember |-> Nil]

(* The loop over the pairs starts.                                         *)
Loop(args) ==
  /\ phase' = "loop" /\ pairs' = Tail(args) /\ results' = <<>>
  /\ UNCHANGED <<wire, command, answer>>

cmdZADD(args) ==
  IF Len(args) < 3 \/ Len(args) % 2 = 0 THEN Refuse(ArgsError)
  ELSE /\ zset' = IF zset = Nil THEN EmptyZset ELSE zset
       /\ Loop(args)
       /\ UNCHANGED <<set, cms, total>>

(* The pair is left out after a score that is no number.                   *)
FaultyZaddPair ==
  LET score == Parse(pairs[1])
      m     == pairs[2][1]
  IN IF score = NotANumber
     THEN /\ phase' = "loop" /\ pairs' = SubSeq(pairs, 3, Len(pairs))
          /\ UNCHANGED <<wire, command, answer, results, stores>>
     ELSE IF pairs[2] = <<>> THEN Refuse(AddingError)
     ELSE /\ zset' = [zset EXCEPT ![m] = score]
          /\ phase' = "loop" /\ pairs' = SubSeq(pairs, 3, Len(pairs))
          /\ results' = Append(results, m)
          /\ UNCHANGED <<wire, command, answer, set, cms, total>>

(* One pair: a score that is no number, an empty member and a member that  *)
(* is there already end the command, the last one after its score is       *)
(* updated.                                                                *)
ZaddPair ==
  LET score == Parse(pairs[1])
      m     == pairs[2][1]
  IN IF score = NotANumber THEN Refuse(NumberError)
     ELSE IF pairs[2] = <<>> THEN Refuse(AddingError)
     ELSE /\ zset' = [zset EXCEPT ![m] = score]
          /\ UNCHANGED <<set, cms, total>>
          /\ IF zset[m] # Nil THEN Answer(Error(AddingError, <<>>))
             ELSE /\ phase' = "loop" /\ pairs' = SubSeq(pairs, 3, Len(pairs))
                  /\ results' = Append(results, m)
                  /\ UNCHANGED <<wire, command, answer>>

ZaddEnds == Answer(Number(Len(results))) /\ UNCHANGED stores

cmdZSCORE(args) ==
  IF Len(args) # 2 THEN Refuse(ArgsError)
  ELSE /\ UNCHANGED stores
       /\ IF zset = Nil THEN Answer(NoValue)
          ELSE IF zset[args[2][1]] = Nil THEN Answer(NoValue)
          ELSE Answer(Text(Fixed(zset[args[2][1]])))

cmdZRANK(args) ==
  IF Len(args) # 2 THEN Refuse(ArgsError)
  ELSE /\ UNCHANGED stores
       /\ Answer(IF zset = Nil THEN NoValue ELSE Number(Zset!RankOf(args[2][1])))
-----------------------------------------------------------------------------
(* Sketches                                                                *)

cmdCMSINITBYDIM(args) ==
  IF Len(args) # 3 THEN Refuse(ArgsError)
  ELSE IF NotANumber \in {Parse(args[2]), Parse(args[3])} THEN RefuseQuoting(NumberError, args[2])
  ELSE IF cms # Nil THEN Refuse(ExistsError)
  ELSE /\ Create([width |-> Parse(args[2]), depth |-> Parse(args[3])])
       /\ Answer(Ok)
       /\ UNCHANGED <<set, zset>>

cmdCMSINITBYPROB(args) ==
  LET errRate     == ParseRate(args[2])
      probability == ParseRate(args[3])
  IN IF Len(args) # 3 THEN Refuse(ArgsError)
     ELSE IF errRate = NotANumber THEN RefuseQuoting(NumberError, args[2])
     ELSE IF errRate \notin 1 .. 9 THEN Refuse(RateError)
     ELSE IF probability = NotANumber THEN RefuseQuoting(NumberError, args[3])
     ELSE IF probability \notin 1 .. 9 THEN Refuse(RateError)
     ELSE IF cms # Nil THEN Refuse(ExistsError)
     ELSE Create(CalcCMSDim(errRate, probability)) /\ Answer(Ok) /\ UNCHANGED <<set, zset>>

cmdCMSINCRBY(args) ==
  IF Len(args) < 3 \/ Len(args) % 2 = 0 THEN Refuse(ArgsError)
  ELSE IF cms = Nil THEN Refuse(NoKeyError)
  ELSE Loop(args) /\ UNCHANGED stores

(* The pair is left out after an increment that is no number.              *)
FaultyIncrPair ==
  LET value == Parse(pairs[2])
  IN /\ IF value = NotANumber THEN UNCHANGED cmsVars ELSE IncrBy(pairs[1], value)
     /\ phase' = "loop" /\ pairs' = SubSeq(pairs, 3, Len(pairs))
     /\ results' = Append(results, Digits(Count(cms', pairs[1])))
     /\ UNCHANGED <<wire, command, answer, set, zset>>

(* One pair: an increment that is no number ends the command, with a text  *)
(* that quotes the first item.                                             *)
IncrPair ==
  LET item  == pairs[1]
      value == Parse(pairs[2])
      count == Count(Incremented(cms, item, value), item)
  IN IF value = NotANumber THEN RefuseQuoting(NumberError, command[3])
     ELSE /\ IncrBy(item, value)
          /\ phase' = "loop" /\ pairs' = SubSeq(pairs, 3, Len(pairs))
          /\ results' = Append(results, IF count = MaxUint64 THEN <<OverflowError>> ELSE Digits(count))
          /\ UNCHANGED <<wire, command, answer, set, zset>>

IncrEnds == Answer(Texts(results)) /\ UNCHANGED stores

cmdCMSQUERY(args) ==
  IF Len(args) < 2 THEN Refuse(ArgsError)
  ELSE IF cms = Nil THEN Refuse(NoKeyError)
  ELSE /\ UNCHANGED stores
       /\ Answer(Texts([i \in 1 .. Len(args) - 1 |-> Digits(Count(cms, args[i + 1]))]))
-----------------------------------------------------------------------------
(* The client and the dispatch on the name                                 *)

Send(tokens) ==
  /\ phase \in {"idle", "answered"}
  /\ phase' = "sent"
  /\ sent' = tokens
  /\ wire' = Encode(Texts(tokens))
  /\ before' = stores
  /\ UNCHANGED <<menu, command, answer, pairs, results, stores>>

readCommand ==
  /\ phase = "sent"
  /\ phase' = "read"
  /\ command' = ParseCmd(wire \o [i \in 1 .. Padding |-> 0])
  /\ UNCHANGED <<menu, sent, wire, answer, pairs, results, stores, before>>

Handler(name) == phase = "read" /\ command[1] = name /\ UNCHANGED <<menu, sent, before>>

Iteration(name) == phase = "loop" /\ command[1] = name /\ UNCHANGED <<menu, sent, before>>

ExecuteAndResponse ==
  LET args == Tail(command)
  IN \/ Handler(SADD) /\ cmdSADD(args)
     \/ Handler(SREM) /\ cmdSREM(args)
     \/ Handler(SMEMBERS) /\ cmdSMEMBERS(args)
     \/ Handler(SISMEMBER) /\ cmdSISMEMBER(args)
     \/ Handler(ZADD) /\ cmdZADD(args)
     \/ Handler(ZSCORE) /\ cmdZSCORE(args)
     \/ Handler(ZRANK) /\ cmdZRANK(args)
     \/ Handler(INITBYDIM) /\ cmdCMSINITBYDIM(args)
     \/ Handler(INITBYPROB) /\ cmdCMSINITBYPROB(args)
     \/ Handler(INCRBY) /\ cmdCMSINCRBY(args)
     \/ Handler(QUERY) /\ cmdCMSQUERY(args)
     \/ Handler(UNKNOWN) /\ Refuse(NotFoundError)
     \/ Iteration(ZADD) /\ pairs # <<>> /\ ZaddPair
     \/ Iteration(ZADD) /\ pairs = <<>> /\ ZaddEnds
     \/ Iteration(INCRBY) /\ pairs # <<>> /\ IncrPair
     \/ Iteration(INCRBY) /\ pairs = <<>> /\ IncrEnds

Init ==
  /\ menu \in Menus
  /\ phase = "idle"
  /\ sent = <<>> /\ wire = <<>> /\ command = <<>> /\ answer = NoValue
  /\ pairs = <<>> /\ results = <<>>
  /\ set = Nil /\ zset = Nil
  /\ CmsInit
  /\ before = stores

Next == (\E tokens \in menu : Send(tokens)) \/ readCommand \/ ExecuteAndResponse

Spec == Init /\ [][Next]_vars
-----------------------------------------------------------------------------
(* Properties                                                              *)

(* The command executed is the one sent: whatever bytes its arguments      *)
(* hold, ends of lines included, and with zeros behind it in the buffer.   *)
CommandArrives ==
  phase \in {"read", "loop"} => command = <<ToUpper(sent[1])>> \o Tail(sent)

(* What the client decodes.  An error and an absent value arrive as plain  *)
(* strings.                                                                *)
Shown(v) ==
  CASE v[1] \in {"err", "simple"} -> Text(v[2])
    [] v[1] = "nil"               -> Text(NullValue)
    [] OTHER                      -> v

(* The client decodes the answer that the handler gave, to the last byte,  *)
(* unless it is an error that quotes an argument with an end of line.      *)
AnswerArrives ==
  phase = "answered" /\ (answer[1] = "err" => CR \notin ToSet(answer[2])) =>
    /\ Decode(wire) = Shown(answer)
    /\ answer # NoValue => DecodeOne(wire, 1).next = Len(wire) + 1

(* SADD and SREM answer by how many members the set has changed, however   *)
(* often an argument is repeated, and SMEMBERS lists each member once.     *)
SetAnswersExact ==
  LET old == OrNew(before[1])
      now == OrNew(set)
  IN phase = "answered" /\ answer[1] # "err" =>
       CASE ToUpper(sent[1]) = SADD ->
              /\ now = old \cup ToSet(SubSeq(sent, 3, Len(sent)))
              /\ answer = Number(Cardinality(now) - Cardinality(old))
         [] ToUpper(sent[1]) = SREM ->
              /\ now = old \ ToSet(SubSeq(sent, 3, Len(sent)))
              /\ answer = Number(Cardinality(old) - Cardinality(now))
         [] ToUpper(sent[1]) = SMEMBERS ->
              /\ ToSet(answer[2]) = {Text(m) : m \in now}
              /\ Len(answer[2]) = Cardinality(now)
         [] OTHER -> now = old

(* The pairs of the last ZADD or INCRBY, from the k-th word of each pair.  *)
Argument(i, k) == sent[2 * i + k]
PairCount == (Len(sent) - 2) \div 2

(* ZADD answers a number only when every pair was a new member, that many, *)
(* and then all are stored; after an error the pairs up to some point are, *)
(* and none behind it.                                                     *)
ZaddAppliesPrefix ==
  LET old     == IF before[2] = Nil THEN EmptyZset ELSE before[2]
      upTo(k) == [m \in ZMember |->
                    LET hits == {i \in 1 .. k : Argument(i, 2) = <<m>>}
                    IN IF hits = {} THEN old[m] ELSE Parse(Argument(Max(hits), 1))]
      fresh   == {m \in ZMember : old[m] = Nil /\ zset[m] # Nil}
  IN phase = "answered" /\ ToUpper(sent[1]) = ZADD /\ answer # Error(ArgsError, <<>>) =>
       \E k \in 0 .. PairCount :
         /\ zset = upTo(k)
         /\ answer[1] = "int" =>
              k = PairCount /\ answer = Number(k) /\ k = Cardinality(fresh)

(* INCRBY answers a list only when every pair was counted, with an entry   *)
(* for each; after an error the pairs up to some point are counted, once.  *)
IncrAppliesPrefix ==
  LET added(k, x) == MapThenSumSet(LAMBDA i : Parse(Argument(i, 2)),
                                   {i \in 1 .. k : Argument(i, 1) = x})
  IN phase = "answered" /\ ToUpper(sent[1]) = INCRBY =>
       \E k \in 0 .. PairCount :
         /\ total = [x \in Item |-> Min({before[4][x] + added(k, x), MaxUint64})]
         /\ IF answer[1] = "arr" THEN k = PairCount /\ Len(answer[2]) = k
            ELSE k = 0 \/ k < PairCount
=============================================================================
