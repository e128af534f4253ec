-------------------------------- MODULE Resp --------------------------------
(***************************************************************************)
(* The RESP codec of internal/protocol.  A stream is a sequence of bytes,  *)
(* each a one-character string, except that the decimal text of an integer *)
(* counts as one byte here.  Payloads may hold any of them, those that     *)
(* look like the protocol included.                                        *)
(***************************************************************************)
EXTENDS Integers, Sequences

CR == "\r"
LF == "\n"
CRLF == <<CR, LF>>

CONSTANTS
  Byte,    \* the bytes
  Numeral  \* Numeral[n]: the decimal text of n, for the integers in use

\* strconv writes different integers differently, and with digits.
ASSUME RespAssumption ==
  /\ {CR, LF, "+", "-", ":", "$", "*"} \subseteq Byte
  /\ -1 \in DOMAIN Numeral /\ DOMAIN Numeral \subseteq Int
  /\ \A n \in DOMAIN Numeral : Numeral[n] \in Byte \ {CR, LF}
  /\ \A m, n \in DOMAIN Numeral : Numeral[m] = Numeral[n] => m = n

\* Of what it accepts, strconv.ParseInt gets to see these here: nobody writes a "+" or
\* zeros in front of a number.
ParseInt(line) == {n \in DOMAIN Numeral : line = <<Numeral[n]>>}

\* A Value is a tagged union: text for strings and integers, elems for arrays.
NewValue(type) == [type |-> type, null |-> FALSE, text |-> <<>>, elems |-> <<>>]
SimpleString(t) == [NewValue("+") EXCEPT !.text = t]
Integer(n)      == [NewValue(":") EXCEPT !.text = <<Numeral[n]>>]
Bulk(t)         == [NewValue("$") EXCEPT !.text = t]
NullBulk        == [NewValue("$") EXCEPT !.null = TRUE]
Array(vs)       == [NewValue("*") EXCEPT !.elems = vs]
NullArray       == [NewValue("*") EXCEPT !.null = TRUE]

\* What goes over the wire.  A line has no end of line in it; a payload is anything.
\* The arrays that clients and the server build are flat.
IsFlat(v) ==
  \/ v = NullBulk
  \/ v = Bulk(v.text) /\ v.text \in Seq(Byte) /\ Len(v.text) \in DOMAIN Numeral
  \/ \E n \in DOMAIN Numeral : v = Integer(n)
  \/ /\ v.type \in {"+", "-"} /\ v = [NewValue(v.type) EXCEPT !.text = v.text]
     /\ v.text \in Seq(Byte) /\ \A i \in DOMAIN v.text : v.text[i] # LF

IsSeq(s) == s \in Seq({s[i] : i \in DOMAIN s})

IsFrame(v) ==
  \/ IsFlat(v) \/ v = NullArray
  \/ /\ v = Array(v.elems) /\ IsSeq(v.elems)
     /\ Len(v.elems) \in DOMAIN Numeral /\ \A i \in DOMAIN v.elems : IsFlat(v.elems[i])

-----------------------------------------------------------------------------
(* Encode.                                                                 *)

Header(type, n) == <<type, Numeral[n]>> \o CRLF

EncodeFlat(v) ==
  CASE v.type = "$" /\ v.null  -> Header("$", -1)
    [] v.type = "$" /\ ~v.null -> Header("$", Len(v.text)) \o v.text \o CRLF
    [] OTHER                   -> <<v.type>> \o v.text \o CRLF

\* The first n of these parts are written one by one.
Concat(parts, n) ==
  LET upTo[k \in 0 .. n] == IF k = 0 THEN <<>> ELSE upTo[k - 1] \o parts[k]
  IN  upTo[n]

Encode(v) ==
  CASE v.type = "*" /\ v.null  -> Header("*", -1)
    [] v.type = "*" /\ ~v.null ->
         Header("*", Len(v.elems))
           \o Concat([i \in DOMAIN v.elems |-> EncodeFlat(v.elems[i])], Len(v.elems))
    [] OTHER                   -> EncodeFlat(v)

-----------------------------------------------------------------------------
(* Decode.  A result is a value with the position behind it, or an error.  *)

NoValue == NewValue("none")
Ok(v, next) == [err |-> "nil", val |-> v, next |-> next]
Err(e) == [err |-> e, val |-> NoValue, next |-> 0]

\* Mutant: an end of the stream is a clean one, wherever it comes.
unexpectEOF_Clean(e) == e

\* The stream ended inside a frame.
unexpectEOF(e) == IF e = "EOF" THEN "ErrUnexpectedEOF" ELSE e

\* The line that begins at position i ends with the first LF; before it stands a CR.
readLine(s, i) ==
  LET ends == {j \in i .. Len(s) : s[j] = LF}
      j == CHOOSE j \in ends : \A k \in ends : j <= k
  IN  IF ends = {} THEN Err(unexpectEOF("EOF"))
      ELSE IF j - i < 1 \/ s[j - 1] # CR THEN Err("protocol")
      ELSE Ok(SimpleString(SubSeq(s, i, j - 2)), j + 1)

\* An integer is a line that is a numeral.
readInt(s, i) ==
  LET line == readLine(s, i)
  IN  IF line.err = "nil" /\ ParseInt(line.val.text) = {} THEN Err("protocol") ELSE line

IntOf(line) == CHOOSE n \in ParseInt(line.val.text) : TRUE

\* Mutant: takes the payload up to the next CRLF.
decodeBulk_Line(s, i) ==
  LET len == readInt(s, i)
      line == readLine(s, len.next)
  IN  IF len.err # "nil" THEN len
      ELSE IF IntOf(len) < 0 THEN Ok(NullBulk, len.next)
      ELSE IF line.err # "nil" THEN line
      ELSE Ok(Bulk(line.val.text), line.next)

\* The payload is counted, not searched for its end.
decodeBulk(s, i) ==
  LET len == readInt(s, i)
      n == IntOf(len)
      end == len.next + n
  IN  IF len.err # "nil" THEN len
      ELSE IF n < 0 THEN Ok(NullBulk, len.next)
      ELSE IF end + 1 > Len(s) THEN Err(unexpectEOF("EOF"))
      ELSE IF SubSeq(s, end, end + 1) # CRLF THEN Err("protocol")
      ELSE Ok(Bulk(SubSeq(s, len.next, end - 1)), end + 2)

\* The elements of an array are values again, and decodeAt[i] decodes the one at
\* position i: what is there after one more.
decodeElem(before, decodeAt) ==
  LET v == decodeAt[before.next]
  IN  IF before.err # "nil" THEN before
      ELSE IF v.err # "nil" THEN Err(unexpectEOF(v.err))
      ELSE Ok(Array(Append(before.val.elems, v.val)), v.next)

decodeArray(s, i, decodeAt) ==
  LET len == readInt(s, i)
      n == IntOf(len)
      elems[k \in 0 .. n] ==
        IF k = 0 THEN Ok(Array(<<>>), len.next) ELSE decodeElem(elems[k - 1], decodeAt)
  IN  IF len.err # "nil" THEN len
      ELSE IF n < 0 THEN Ok(NullArray, len.next)
      ELSE elems[n]

retyped(r, type) == IF r.err = "nil" THEN [r EXCEPT !.val.type = type] ELSE r

\* The frame at position i.
decodeFrame(s, i, decodeAt) ==
  IF i > Len(s) THEN Err("EOF")
  ELSE CASE s[i] \in {"+", "-"} -> retyped(readLine(s, i + 1), s[i])
         [] s[i] = ":" -> retyped(readInt(s, i + 1), ":")
         [] s[i] = "$" -> decodeBulk(s, i + 1)
         [] s[i] = "*" -> decodeArray(s, i + 1, decodeAt)
         [] OTHER -> Err("protocol")

\* Decode one frame at the beginning of s, with s all that will ever come.
Decode(s) ==
  LET decodeAt[i \in 1 .. Len(s) + 1] == decodeFrame(s, i, decodeAt)
  IN  decodeAt[1]
=============================================================================
