----------------------------- MODULE RespParser -----------------------------
(***************************************************************************)
(* The RESP codec (src/src/resp_parser.cpp, .hpp).  A buffer is a sequence *)
(* of character codes.                                                     *)
(***************************************************************************)
EXTENDS Integers, SequencesExt

CONSTANTS MAX_BULK_LEN, MAX_ARRAY_COUNT

CR == 13
LF == 10
Plus == 43       \* '+'
Minus == 45      \* '-'
Colon == 58      \* ':'
Dollar == 36     \* '$'
Star == 42       \* '*'

----------------------------------------------------------------------------
(* RespValue.  The accessors return a default for a value of another type. *)
simpleString(s) == [type |-> "SimpleString", string |-> s]
error(s)        == [type |-> "Error", string |-> s]
bulkString(s)   == [type |-> "BulkString", string |-> s]
integer(n)      == [type |-> "Integer", number |-> n]
array(a)        == [type |-> "Array", elements |-> a]
null            == [type |-> "Null"]

isArray(v)   == v.type = "Array"
asString(v)  == IF v.type \in {"SimpleString", "Error", "BulkString"} THEN v.string ELSE <<>>
asInteger(v) == IF v.type = "Integer" THEN v.number ELSE 0
asArray(v)   == IF isArray(v) THEN v.elements ELSE <<>>

makeArray(strings) == array([i \in DOMAIN strings |-> bulkString(strings[i])])

----------------------------------------------------------------------------
Digits == 48..57
Whitespace == 9..13 \cup {32}

RECURSIVE Decimal(_)
Decimal(n) ==
  IF n < 0 THEN <<Minus>> \o Decimal(-n)
  ELSE IF n < 10 THEN <<48 + n>>
  ELSE Append(Decimal(n \div 10), 48 + (n % 10))

(* The longest prefix of s whose elements are in set. *)
Span(s, set) == SubSeq(s, 1, SelectInSubSeq(s \o <<-1>>, 1, Len(s) + 1,
                                            LAMBDA x : x \notin set) - 1)

Dropped(s, n) == SubSeq(s, n + 1, Len(s))

(* std::stoll: white space, a sign, digits; what follows them is ignored,  *)
(* and without a digit it throws.  Values stay far below 2^63.             *)
Number(digits, sign) ==
  IF digits = <<>> THEN [ok |-> FALSE]
  ELSE [ok |-> TRUE, number |-> sign * FoldLeft(LAMBDA n, d : n * 10 + (d - 48), 0, digits)]

SignedNumber(s) ==
  Number(Span(IF s # <<>> /\ s[1] \in {Plus, Minus} THEN Tail(s) ELSE s, Digits),
         IF s # <<>> /\ s[1] = Minus THEN -1 ELSE 1)

stoll(s) == SignedNumber(Dropped(s, Len(Span(s, Whitespace))))

----------------------------------------------------------------------------
Nullopt == [ok |-> FALSE]
Parsed(v, n) == [ok |-> TRUE, value |-> v, size |-> n]

(* Where the first CR LF starts, or 0. *)
findCRLF(buffer) ==
  SelectInSubSeq([i \in 1..Len(buffer) |-> i], 1, Len(buffer) - 1,
                 LAMBDA i : buffer[i] = CR /\ buffer[i + 1] = LF)

(* A bulk string of len bytes that start after the first offset bytes; the *)
(* two bytes after it are skipped unread.                                  *)
ParseBulk(buffer, len, offset) ==
  IF len = -1 THEN Parsed(null, offset)
  ELSE IF len < 0 \/ len > MAX_BULK_LEN \/ Len(buffer) < offset + len + 2 THEN Nullopt
  ELSE Parsed(bulkString(SubSeq(buffer, offset + 1, offset + len)), offset + len + 2)

RECURSIVE parse(_)
RECURSIVE ParseElements(_, _, _, _)

(* The elements of an array that are left, of which elem comes next. *)
ParseElement(buffer, arr, count, at, elem) ==
  IF elem.ok THEN ParseElements(buffer, Append(arr, elem.value), count, at + elem.size)
             ELSE Nullopt

ParseElements(buffer, arr, count, at) ==
  IF Len(arr) = count THEN Parsed(array(arr), at)
  ELSE ParseElement(buffer, arr, count, at, parse(Dropped(buffer, at)))

ParseArray(buffer, count, offset) ==
  IF count = -1 THEN Parsed(null, offset)
  ELSE IF count < 0 \/ count > MAX_ARRAY_COUNT THEN Nullopt
  ELSE ParseElements(buffer, <<>>, count, offset)

(* A value whose first line is a number; stoll's exceptions are caught. *)
ParseNumber(buffer, num, offset) ==
  CASE ~num.ok             -> Nullopt
    [] num.ok /\ buffer[1] = Colon  -> Parsed(integer(num.number), offset)
    [] num.ok /\ buffer[1] = Dollar -> ParseBulk(buffer, num.number, offset)
    [] num.ok /\ buffer[1] = Star   -> ParseArray(buffer, num.number, offset)

(* A value whose first line ends before position crlf. *)
ParseLine(buffer, crlf) ==
  CASE crlf = 0 -> Nullopt
    [] crlf # 0 /\ buffer[1] = Plus  -> Parsed(simpleString(SubSeq(buffer, 2, crlf - 1)), crlf + 1)
    [] crlf # 0 /\ buffer[1] = Minus -> Parsed(error(SubSeq(buffer, 2, crlf - 1)), crlf + 1)
    [] OTHER -> ParseNumber(buffer, stoll(SubSeq(buffer, 2, crlf - 1)), crlf + 1)

parse(buffer) ==
  IF buffer # <<>> /\ buffer[1] \in {Plus, Minus, Colon, Dollar, Star}
    THEN ParseLine(buffer, findCRLF(buffer)) ELSE Nullopt

RECURSIVE serialize(_)
serialize(v) ==
  CASE v.type = "SimpleString" -> <<Plus>> \o v.string \o <<CR, LF>>
    [] v.type = "Error"        -> <<Minus>> \o v.string \o <<CR, LF>>
    [] v.type = "Integer"      -> <<Colon>> \o Decimal(v.number) \o <<CR, LF>>
    [] v.type = "BulkString"   -> <<Dollar>> \o Decimal(Len(v.string)) \o <<CR, LF>>
                                  \o v.string \o <<CR, LF>>
    [] v.type = "Array"        -> <<Star>> \o Decimal(Len(v.elements)) \o <<CR, LF>>
                                  \o FlattenSeq([i \in DOMAIN v.elements |-> serialize(v.elements[i])])
    [] v.type = "Null"         -> <<Dollar>> \o Decimal(-1) \o <<CR, LF>>
============================================================================
