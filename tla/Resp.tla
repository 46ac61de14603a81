-------------------------------- MODULE Resp --------------------------------
(***************************************************************************)
(* The RESP codec of resp.go as operators over sequences of bytes.         *)
(*                                                                         *)
(* A Go value is a pair: <<"str", bytes>>, <<"int", n>>, <<"err", bytes>>, *)
(* <<"arr", sequence of values>>, <<"simple", bytes>> for a string that is *)
(* encoded as a simple one, or <<"nil">> for anything else.                *)
(*                                                                         *)
(* The decoder is given what the encoder wrote, in one piece; what it does *)
(* with other bytes is not described.                                      *)
(***************************************************************************)
EXTENDS Integers, SequencesExt

CR == 13
LF == 10
CRLF == <<CR, LF>>
Zero == 48
Plus == 43
Minus == 45
Colon == 58
Dollar == 36
Star == 42

(* "Null value"                                                            *)
NullValue == <<78, 117, 108, 108, 32, 118, 97, 108, 117, 101>>
-----------------------------------------------------------------------------
(* Encoding                                                                *)

(* %d                                                                      *)
RECURSIVE Digits(_)
Digits(n) ==
  IF n < 0 THEN <<Minus>> \o Digits(-n)
  ELSE (IF n < 10 THEN <<>> ELSE Digits(n \div 10)) \o <<Zero + (n % 10)>>

(* Definitions named Faulty... are not part of the specification: each is  *)
(* a definition that follows with one plausible mistake, which the         *)
(* property it is paired with in PROJECT.json must notice.                 *)

(* The length of a string counts its line feeds twice.                     *)
FaultyEncodeString(s) ==
  <<Dollar>> \o Digits(Len(s) + Len(SelectSeq(s, LAMBDA b : b = LF))) \o CRLF \o s \o CRLF

encodeString(s) == <<Dollar>> \o Digits(Len(s)) \o CRLF \o s \o CRLF

RespNil == <<Dollar>> \o Digits(-1) \o CRLF

RECURSIVE Encode(_)
Encode(v) ==
  CASE v[1] = "str"    -> encodeString(v[2])
    [] v[1] = "simple" -> <<Plus>> \o v[2] \o CRLF
    [] v[1] = "int"    -> <<Colon>> \o Digits(v[2]) \o CRLF
    [] v[1] = "err"    -> <<Minus>> \o v[2] \o CRLF
    [] v[1] = "arr"    -> <<Star>> \o Digits(Len(v[2])) \o CRLF
                            \o FlattenSeq([i \in DOMAIN v[2] |-> Encode(v[2][i])])
    [] OTHER           -> RespNil
-----------------------------------------------------------------------------
(* Decoding; pos and next are places in data, counted from one.  A reader  *)
(* yields the value at pos and the place after it.                         *)

(* The place of the first CR at or after pos.                              *)
RECURSIVE EndOfLine(_, _)
EndOfLine(data, pos) == IF data[pos] = CR THEN pos ELSE EndOfLine(data, pos + 1)

(* The first byte, the type, is kept.                                      *)
FaultyReadSimpleString(data, pos) ==
  LET end == EndOfLine(data, pos)
  IN [value |-> <<"str", SubSeq(data, pos, end - 1)>>, next |-> end + 2]

readSimpleString(data, pos) ==
  LET end == EndOfLine(data, pos + 1)
  IN [value |-> <<"str", SubSeq(data, pos + 1, end - 1)>>, next |-> end + 2]

readInt64(data, pos) ==
  LET end   == EndOfLine(data, pos + 1)
      sign  == IF data[pos + 1] = Minus THEN -1 ELSE 1
      start == IF data[pos + 1] \in {Minus, Plus} THEN pos + 2 ELSE pos + 1
  IN [value |-> <<"int", sign * FoldLeft(LAMBDA n, b : 10 * n + (b - Zero), 0,
                                         SubSeq(data, start, end - 1))>>,
      next  |-> end + 2]

(* A null string ends two bytes late: it has no text of its own to skip.   *)
readBulkString(data, pos) ==
  LET len   == readInt64(data, pos)
      start == len.next
      end   == start + len.value[2]
  IN IF len.value[2] = -1 THEN [value |-> <<"str", NullValue>>, next |-> start + 2]
     ELSE [value |-> <<"str", SubSeq(data, start, end - 1)>>, next |-> end + 2]

RECURSIVE DecodeOne(_, _)

(* The count values from pos on.                                           *)
RECURSIVE readElements(_, _, _)
readElements(data, pos, count) ==
  IF count = 0 THEN [value |-> <<>>, next |-> pos]
  ELSE LET first == DecodeOne(data, pos)
           rest  == readElements(data, first.next, count - 1)
       IN [value |-> <<first.value>> \o rest.value, next |-> rest.next]

readArray(data, pos) ==
  LET len   == readInt64(data, pos)
      elems == readElements(data, len.next, len.value[2])
  IN [value |-> <<"arr", elems.value>>, next |-> elems.next]

DecodeOne(data, pos) ==
  CASE data[pos] \in {Plus, Minus} -> readSimpleString(data, pos)
    [] data[pos] = Colon           -> readInt64(data, pos)
    [] data[pos] = Dollar          -> readBulkString(data, pos)
    [] data[pos] = Star            -> readArray(data, pos)

Decode(data) == DecodeOne(data, 1).value

ToUpper(word) == [i \in DOMAIN word |-> IF word[i] \in 97 .. 122 THEN word[i] - 32 ELSE word[i]]

(* The name and arguments of a command, which clients send as an array; an *)
(* empty one has no name.                                                  *)
ParseCmd(data) ==
  LET elems  == Decode(data)[2]
      tokens == [i \in DOMAIN elems |->
                   IF elems[i][1] = "int" THEN Digits(elems[i][2]) ELSE elems[i][2]]
  IN IF tokens = <<>> THEN <<>> ELSE <<ToUpper(tokens[1])>> \o Tail(tokens)
=============================================================================
