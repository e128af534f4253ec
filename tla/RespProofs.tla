----------------------------- MODULE RespProofs -----------------------------
(***************************************************************************)
(* Theorems about the codec of Resp: what Encode writes, Decode reads      *)
(* back, whatever follows it and wherever the stream ends.                 *)
(***************************************************************************)
EXTENDS Resp, TLAPS

-----------------------------------------------------------------------------
(* Values.                                                                 *)

\* A Value with these fields.
Val(type, null, text, elems) == [type |-> type, null |-> null, text |-> text, elems |-> elems]

\* The two values of the field null; the provers do best with names for them.
No == FALSE
Yes == TRUE

\* A new Value has no text and no elements, and is not null.
LEMMA NewValueIs == \A x : NewValue(x) = Val(x, No, <<>>, <<>>)
  BY Zenon DEF NewValue, Val, No

\* The constructors.
LEMMA ValueForms ==
  ASSUME NEW t, NEW x, NEW n
  PROVE  /\ SimpleString(t) = Val("+", No, t, <<>>)
         /\ [NewValue(x) EXCEPT !.text = t] = Val(x, No, t, <<>>)
         /\ Integer(n) = Val(":", No, <<Numeral[n]>>, <<>>)
         /\ Bulk(t) = Val("$", No, t, <<>>)
         /\ Array(t) = Val("*", No, <<>>, t)
  BY NewValueIs DEF SimpleString, Integer, Bulk, Array, Val

\* The two null values.
LEMMA NullForms ==
  NullBulk = Val("$", Yes, <<>>, <<>>) /\ NullArray = Val("*", Yes, <<>>, <<>>)
<1>1. NullBulk = [NewValue("$") EXCEPT !.null = Yes] /\ NullArray = [NewValue("*") EXCEPT !.null = Yes]
  BY Zenon DEF NullBulk, NullArray, Yes
<1> QED
  BY Zenon, <1>1, NewValueIs DEF Val

\* The fields of a Value are what it was made of.
LEMMA FieldFacts ==
  ASSUME NEW a, NEW b, NEW c, NEW d
  PROVE  /\ Val(a, b, c, d).type = a /\ Val(a, b, c, d).null = b
         /\ Val(a, b, c, d).text = c /\ Val(a, b, c, d).elems = d
  BY Zenon DEF Val

\* A line becomes a value of another type.
LEMMA Retyped ==
  ASSUME NEW t, NEW x, NEW k
  PROVE  retyped(Ok(SimpleString(t), k), x) = Ok([NewValue(x) EXCEPT !.text = t], k)
<1>1. PICK r : r = SimpleString(t)
  BY Zenon
<1>2. r = Val("+", No, t, <<>>)
  BY Zenon, <1>1, ValueForms
<1>3. [r EXCEPT !.type = x] = Val(x, No, t, <<>>)
  BY <1>2 DEF Val
<1>4. [r EXCEPT !.type = x] = [NewValue(x) EXCEPT !.text = t]
  BY Zenon, <1>3, ValueForms
<1>5. [Ok(r, k) EXCEPT !.val.type = x] = Ok([r EXCEPT !.type = x], k) /\ Ok(r, k).err = "nil"
  BY DEF Ok
<1> QED
  BY Zenon, <1>1, <1>4, <1>5 DEF retyped

-----------------------------------------------------------------------------
(* Sequences of bytes.                                                     *)

\* What the provers know of sequences, for citing: the length of one,
LEMMA SeqLen ==
  ASSUME NEW S, NEW s \in Seq(S)
  PROVE  Len(s) \in Nat /\ DOMAIN s = 1 .. Len(s)
  OBVIOUS

\* The elements of a sequence,
LEMMA SeqElem ==
  ASSUME NEW S, NEW s \in Seq(S), NEW i \in 1 .. Len(s)
  PROVE  s[i] \in S
  OBVIOUS

\* two that have the same,
LEMMA SameSeq ==
  ASSUME NEW S, NEW s \in Seq(S), NEW t \in Seq(S), Len(s) = Len(t), \A i \in 1 .. Len(s) : s[i] = t[i]
  PROVE  s = t
  OBVIOUS

\* one behind another,
LEMMA JoinFacts ==
  ASSUME NEW S, NEW s \in Seq(S), NEW t \in Seq(S)
  PROVE  s \o t \in Seq(S) /\ Len(s \o t) = Len(s) + Len(t)
  OBVIOUS

\* a part of one.
LEMMA PartFacts ==
  ASSUME NEW S, NEW s, NEW m \in Int, NEW n \in Int, \A i \in m .. n : s[i] \in S
  PROVE  /\ SubSeq(s, m, n) \in Seq(S) /\ Len(SubSeq(s, m, n)) = IF m <= n THEN n - m + 1 ELSE 0
         /\ \A i \in 1 .. n - m + 1 : SubSeq(s, m, n)[i] = s[m + i - 1]
  OBVIOUS

\* In which order three parts are joined, or four, does not matter.
Joined(a, b, c) == (a \o b) \o c = a \o (b \o c)

\* Joining byte sequences is associative,
LEMMA Parts3 == \A a \in Seq(Byte), b \in Seq(Byte), c \in Seq(Byte) : Joined(a, b, c)
  BY DEF Joined

Joined4(a, b, c, d) == ((a \o b) \o c) \o d = a \o (b \o (c \o d))

\* of four of them too.
LEMMA Parts4 ==
  ASSUME NEW a \in Seq(Byte), NEW b \in Seq(Byte), NEW c \in Seq(Byte), NEW d \in Seq(Byte)
  PROVE  Joined4(a, b, c, d)
<1>1. a \o b \in Seq(Byte) /\ c \o d \in Seq(Byte)
  BY Zenon, JoinFacts
<1>2. Joined(a \o b, c, d) /\ Joined(a, b, c \o d)
  BY Zenon, <1>1, Parts3
<1> QED
  BY Zenon, <1>2 DEF Joined, Joined4

-----------------------------------------------------------------------------
(* Reading a line and an integer.                                          *)

\* From position p on, and as far as s goes, s is t.
Holds(s, p, t) == \A i \in 1 .. Len(t) : p + i - 1 <= Len(s) => s[p + i - 1] = t[i]

\* The parts of t stand one behind the other.
LEMMA HoldsParts ==
  ASSUME NEW s, NEW p \in Nat, NEW t \in Seq(Byte), NEW u \in Seq(Byte), Holds(s, p, t \o u)
  PROVE  Holds(s, p, t) /\ Holds(s, p + Len(t), u)
<1>1. ASSUME NEW i \in 1 .. Len(t), p + i - 1 <= Len(s) PROVE s[p + i - 1] = t[i]
  <2>1. i \in 1 .. Len(t \o u) /\ (t \o u)[i] = t[i]
    OBVIOUS
  <2> QED
    BY Zenon, <1>1, <2>1 DEF Holds
<1>2. ASSUME NEW i \in 1 .. Len(u), p + Len(t) + i - 1 <= Len(s) PROVE s[p + Len(t) + i - 1] = u[i]
  <2> DEFINE k == Len(t) + i
  <2>1. k \in 1 .. Len(t \o u) /\ (t \o u)[k] = u[i] /\ p + k - 1 = p + Len(t) + i - 1
    OBVIOUS
  <2> HIDE DEF k
  <2>2. p + k - 1 <= Len(s)
    BY Zenon, <1>2, <2>1
  <2> QED
    BY Zenon, <2>1, <2>2 DEF Holds
<1> QED
  BY Zenon, <1>1, <1>2 DEF Holds

\* The end of a line.
LEMMA CrlfFacts ==
  /\ CRLF \in Seq(Byte) /\ Len(CRLF) = 2 /\ CRLF[1] = CR /\ CRLF[2] = LF
  /\ CR \in Byte /\ LF \in Byte /\ CR # LF
<1>1. CR \in Byte /\ LF \in Byte
  BY Zenon, RespAssumption
<1>2. CRLF \in Seq(Byte) /\ Len(CRLF) = 2 /\ CRLF[1] = CR /\ CRLF[2] = LF
  BY <1>1 DEF CRLF
<1>3. CR # LF
  BY Zenon DEF CR, LF
<1> QED
  BY Zenon, <1>1, <1>2, <1>3

\* What the end of t \o CRLF at position p means for s.
LEMMA HoldsLine ==
  ASSUME NEW s, NEW p \in Nat, NEW t \in Seq(Byte), Holds(s, p, t \o CRLF),
         NEW n \in Nat, n = Len(t)
  PROVE  /\ Holds(s, p, t)
         /\ p + n <= Len(s) => s[p + n] = CR
         /\ p + n + 1 <= Len(s) => s[p + n + 1] = LF
<1>1. Holds(s, p, t) /\ Holds(s, p + n, CRLF)
  BY Zenon, HoldsParts, CrlfFacts
<1>2. \A i \in 1 .. 2 : p + n + i - 1 <= Len(s) => s[p + n + i - 1] = CRLF[i]
  BY Zenon, <1>1, CrlfFacts DEF Holds
<1>3. p + n + 1 - 1 = p + n /\ p + n + 2 - 1 = p + n + 1 /\ 1 \in 1 .. 2 /\ 2 \in 1 .. 2
  OBVIOUS
<1> QED
  BY Zenon, <1>1, <1>2, <1>3, CrlfFacts

\* The texts that can be lines.
Lines == {t \in Seq(Byte) : \A i \in DOMAIN t : t[i] # LF}

\* The part of s where t stands.
LEMMA HoldsSubSeq ==
  ASSUME NEW s \in Seq(Byte), NEW p \in Nat, p >= 1, NEW t \in Seq(Byte), Holds(s, p, t),
         NEW e \in Int, e = p + Len(t) - 1, e <= Len(s)
  PROVE  SubSeq(s, p, e) = t
<1>1. PICK n \in Nat, m \in Nat : n = Len(t) /\ m = Len(s)
  BY Zenon, SeqLen
<1>2. e = p + n - 1 /\ e <= m /\ (p <= e => e - p + 1 = n) /\ (~(p <= e) => n = 0) /\ p .. e \subseteq 1 .. m
  BY <1>1
<1>3. \A i \in p .. e : s[i] \in Byte
  BY Zenon, <1>1, <1>2, SeqElem
<1>4. /\ SubSeq(s, p, e) \in Seq(Byte) /\ Len(SubSeq(s, p, e)) = IF p <= e THEN e - p + 1 ELSE 0
      /\ \A i \in 1 .. e - p + 1 : SubSeq(s, p, e)[i] = s[p + i - 1]
  <2>1. p \in Int
    OBVIOUS
  <2> QED
    BY <1>3, <2>1, PartFacts
<1>5. Len(SubSeq(s, p, e)) = n
  BY Zenon, <1>2, <1>4
<1>6. ASSUME NEW i \in 1 .. n PROVE SubSeq(s, p, e)[i] = t[i]
  <2>1. i \in 1 .. e - p + 1 /\ p + i - 1 <= m
    BY <1>2
  <2> QED
    BY Zenon, <1>1, <1>4, <2>1 DEF Holds
<1> QED
  BY Zenon, <1>1, <1>4, <1>5, <1>6, SameSeq

\* A line is read whole, if it is there.
LEMMA ReadLine ==
  ASSUME NEW s \in Seq(Byte), NEW p \in Nat, p >= 1, NEW t \in Lines, Holds(s, p, t \o CRLF)
  PROVE  readLine(s, p) = IF p + Len(t) + 1 <= Len(s) THEN Ok(SimpleString(t), p + Len(t) + 2)
                          ELSE Err("ErrUnexpectedEOF")
<1>1. PICK n \in Nat, m \in Nat : n = Len(t) /\ m = Len(s)
  BY Zenon, SeqLen DEF Lines
<1> DEFINE ends == {j \in p .. Len(s) : s[j] = LF}
           e == p + n + 1
<1>2. t \in Seq(Byte) /\ \A i \in 1 .. n : t[i] # LF
  BY Zenon, <1>1, SeqLen DEF Lines
<1>3. /\ Holds(s, p, t)
      /\ p + n <= m => s[p + n] = CR
      /\ e <= m => s[e] = LF
  BY <1>1, <1>2, HoldsLine
<1>4. ASSUME NEW j \in p .. m, j < e PROVE s[j] # LF
  <2>1. CASE j = p + n
    <3>1. p + n <= m
      BY <2>1
    <3> QED
      BY Zenon, <1>3, <2>1, <3>1, CrlfFacts
  <2>2. CASE j # p + n
    <3> DEFINE i == j - p + 1
    <3>1. i \in 1 .. n /\ p + i - 1 = j /\ j <= m
      BY <1>4, <2>2
    <3> HIDE DEF i
    <3> QED
      BY Zenon, <1>1, <1>2, <1>3, <3>1 DEF Holds
  <2> QED
    BY Zenon, <2>1, <2>2
<1>5. readLine(s, p) = LET j == CHOOSE j \in ends : \A k \in ends : j <= k
                       IN  IF ends = {} THEN Err(unexpectEOF("EOF"))
                           ELSE IF j - p < 1 \/ s[j - 1] # CR THEN Err("protocol")
                           ELSE Ok(SimpleString(SubSeq(s, p, j - 2)), j + 1)
  BY Zenon DEF readLine
<1>6. CASE e > m
  <2>1. \A j \in p .. m : j < e
    BY <1>6
  <2>2. ends = {}
    BY Zenon, <1>1, <1>4, <2>1
  <2>3. ~(p + n + 1 <= m)
    BY <1>6
  <2> QED
    BY Zenon, <1>1, <1>5, <2>2, <2>3 DEF unexpectEOF
<1>7. CASE e <= m
  <2>1. e \in p .. m /\ s[e] = LF
    BY <1>3, <1>7
  <2>2. \A j \in ends : e <= j
    BY <1>1, <1>4
  <2> DEFINE j == CHOOSE j \in ends : \A k \in ends : j <= k
  <2>3. j \in ends /\ \A k \in ends : j <= k
    BY Zenon, <1>1, <2>1, <2>2
  <2> HIDE DEF j
  <2>4. j \in Int /\ j <= e /\ e <= j
    BY <1>1, <2>1, <2>2, <2>3
  <2>5. j = e
    BY <2>4
  <2>6. /\ e - 1 = p + n /\ ~(e - p < 1) /\ e + 1 = p + n + 2 /\ e - 2 = p + n - 1
        /\ e - 2 <= m /\ e - 2 \in Int /\ p + n <= m
    BY <1>7
  <2>7. SubSeq(s, p, e - 2) = t
    BY Zenon, <1>1, <1>2, <1>3, <2>6, HoldsSubSeq
  <2>8. ends # {} /\ s[e - 1] = CR
    BY Zenon, <1>1, <1>3, <2>1, <2>6
  <2>9. readLine(s, p) = Ok(SimpleString(SubSeq(s, p, e - 2)), e + 1)
    BY Zenon, <1>5, <2>5, <2>6, <2>8 DEF j
  <2> QED
    BY Zenon, <1>1, <1>7, <2>6, <2>7, <2>9
<1>8. e > m \/ e <= m
  OBVIOUS
<1> QED
  BY Zenon, <1>6, <1>7, <1>8

\* What a result holds.
LEMMA ResultFacts ==
  /\ \A v, n : Ok(v, n).err = "nil" /\ Ok(v, n).val = v /\ Ok(v, n).next = n
  /\ \A e : Err(e).err = e
  /\ \A t : SimpleString(t).text = t
  BY Zenon DEF Ok, Err, SimpleString, NewValue

\* The line that a number makes.
NumLine(n) == <<Numeral[n]>> \o CRLF

\* It is three bytes long, its text is a line, and ParseInt reads it back.
LEMMA NumLineFacts ==
  ASSUME NEW n \in DOMAIN Numeral
  PROVE  /\ n \in Int /\ Numeral[n] \in Byte /\ <<Numeral[n]>> \in Lines /\ Len(<<Numeral[n]>>) = 1
         /\ NumLine(n) \in Seq(Byte) /\ Len(NumLine(n)) = 3
         /\ ParseInt(<<Numeral[n]>>) = {n}
<1>1. n \in Int /\ Numeral[n] \in Byte /\ Numeral[n] # LF
  BY Zenon, RespAssumption
<1>2. <<Numeral[n]>> \in Seq(Byte) /\ Len(<<Numeral[n]>>) = 1 /\ \A i \in DOMAIN <<Numeral[n]>> : <<Numeral[n]>>[i] # LF
  BY <1>1
<1>3. NumLine(n) \in Seq(Byte) /\ Len(NumLine(n)) = 1 + 2
  <2>1. NumLine(n) \in Seq(Byte) /\ Len(NumLine(n)) = Len(<<Numeral[n]>>) + Len(CRLF)
    BY Zenon, <1>2, CrlfFacts, JoinFacts DEF NumLine
  <2> QED
    BY Zenon, <1>2, <2>1, CrlfFacts
<1>4. \A m \in DOMAIN Numeral : <<Numeral[n]>> = <<Numeral[m]>> => m = n
  BY Zenon, RespAssumption
<1>5. ParseInt(<<Numeral[n]>>) = {n}
  BY Zenon, <1>4 DEF ParseInt
<1> QED
  BY <1>1, <1>2, <1>3, <1>5 DEF Lines

\* A number is read.
LEMMA ReadInt ==
  ASSUME NEW s \in Seq(Byte), NEW p \in Nat, p >= 1, NEW n \in DOMAIN Numeral, Holds(s, p, NumLine(n))
  PROVE  LET r == readInt(s, p)
         IN  IF p + 2 <= Len(s)
             THEN r = Ok(SimpleString(<<Numeral[n]>>), p + 3) /\ r.err = "nil" /\ r.next = p + 3 /\ IntOf(r) = n
             ELSE r = Err("ErrUnexpectedEOF") /\ r.err = "ErrUnexpectedEOF"
<1> DEFINE t == <<Numeral[n]>>
           l == readLine(s, p)
<1>1. p + 1 + 1 = p + 2 /\ p + 1 + 2 = p + 3
  OBVIOUS
<1>2. l = IF p + 2 <= Len(s) THEN Ok(SimpleString(t), p + 3) ELSE Err("ErrUnexpectedEOF")
  BY ZenonT(30), <1>1, NumLineFacts, ReadLine DEF NumLine
<1>3. ParseInt(t) = {n}
  BY Zenon, NumLineFacts
<1>4. readInt(s, p) = IF l.err = "nil" /\ ParseInt(l.val.text) = {} THEN Err("protocol") ELSE l
  BY Zenon DEF readInt
<1> HIDE DEF t, l
<1>5. CASE p + 2 <= Len(s)
  <2>1. l.err = "nil" /\ l.val.text = t /\ l.next = p + 3
    BY <1>2, <1>5, ResultFacts
  <2>2. readInt(s, p) = l
    BY Zenon, <1>3, <1>4, <2>1
  <2>3. IntOf(l) = n
    BY Zenon, <1>3, <2>1 DEF IntOf
  <2> QED
    BY Zenon, <1>2, <1>5, <2>1, <2>2, <2>3 DEF t
<1>6. CASE ~(p + 2 <= Len(s))
  <2>1. l = Err("ErrUnexpectedEOF") /\ l.err = "ErrUnexpectedEOF"
    BY Zenon, <1>2, <1>6, ResultFacts
  <2>2. "ErrUnexpectedEOF" # "nil"
    BY Zenon
  <2> QED
    BY Zenon, <1>4, <1>6, <2>1, <2>2
<1> QED
  BY Zenon, <1>5, <1>6

-----------------------------------------------------------------------------
(* A frame without elements.                                               *)

\* A bulk string is read, behind its type byte.
LEMMA DecodeBulk ==
  ASSUME NEW s \in Seq(Byte), NEW p \in Nat, p >= 1, NEW t \in Seq(Byte), Len(t) \in DOMAIN Numeral,
         Holds(s, p, NumLine(Len(t)) \o (t \o CRLF))
  PROVE  decodeBulk(s, p) = IF p + Len(t) + 4 <= Len(s) THEN Ok(Bulk(t), p + Len(t) + 5)
                            ELSE Err("ErrUnexpectedEOF")
<1>1. PICK n \in Nat, m \in Nat : n = Len(t) /\ m = Len(s)
  BY Zenon, SeqLen
<1>2. n \in DOMAIN Numeral /\ NumLine(n) \in Seq(Byte) /\ Len(NumLine(n)) = 3
  BY Zenon, <1>1, NumLineFacts
<1>3. t \o CRLF \in Seq(Byte)
  BY Zenon, CrlfFacts, JoinFacts
<1>4. Holds(s, p, NumLine(n)) /\ Holds(s, p + 3, t \o CRLF)
  BY Zenon, <1>1, <1>2, <1>3, HoldsParts
<1> DEFINE q == p + 3
           end == q + n
<1>5. q \in Nat /\ q >= 1 /\ end \in Nat /\ end >= 1 /\ ~(n < 0)
  OBVIOUS
<1>6. Holds(s, q, t) /\ Holds(s, end, CRLF)
  BY Zenon, <1>1, <1>4, <1>5, HoldsParts, CrlfFacts
<1> DEFINE len == readInt(s, p)
<1>8. CASE ~(p + 2 <= m)
  <2>1. len = Err("ErrUnexpectedEOF") /\ len.err = "ErrUnexpectedEOF"
    BY Zenon, <1>1, <1>2, <1>4, <1>8, ReadInt
  <2>2. ~(p + n + 4 <= m) /\ "ErrUnexpectedEOF" # "nil"
    BY <1>8
  <2> QED
    BY Zenon, <1>1, <2>1, <2>2 DEF decodeBulk
<1>9. CASE p + 2 <= m
  <2>1. len.err = "nil" /\ len.next = q /\ IntOf(len) = n
    BY Zenon, <1>1, <1>2, <1>4, <1>9, ReadInt
  <2>2. decodeBulk(s, p) =
          IF end + 1 > m THEN Err("ErrUnexpectedEOF")
          ELSE IF SubSeq(s, end, end + 1) # CRLF THEN Err("protocol")
          ELSE Ok(Bulk(SubSeq(s, q, end - 1)), end + 2)
    <3>1. end = len.next + IntOf(len) /\ ~(IntOf(len) < 0)
      BY Zenon, <1>5, <2>1
    <3>2. decodeBulk(s, p) = IF end + 1 > Len(s) THEN Err(unexpectEOF("EOF"))
            ELSE IF SubSeq(s, end, end + 1) # CRLF THEN Err("protocol")
            ELSE Ok(Bulk(SubSeq(s, len.next, end - 1)), end + 2)
      <4> HIDE DEF q
      <4> QED
        BY Zenon, <2>1, <3>1 DEF decodeBulk
    <3> QED
      BY Zenon, <1>1, <2>1, <3>2 DEF unexpectEOF
  <2>3. CASE end + 1 > m
    <3>1. ~(p + n + 4 <= m)
      BY <2>3
    <3> QED
      BY Zenon, <1>1, <2>2, <2>3, <3>1
  <2>4. CASE end + 1 <= m
    <3>1. /\ end + 1 = end + 2 - 1 /\ end + 1 \in Int /\ end - 1 \in Int /\ end - 1 = q + n - 1 /\ end - 1 <= m
          /\ end + 2 = p + n + 5 /\ p + n + 4 <= m /\ ~(end + 1 > m)
      BY <2>4
    <3>2. SubSeq(s, end, end + 1) = CRLF
      <4>1. end + 1 = end + Len(CRLF) - 1 /\ end + 1 <= Len(s) /\ CRLF \in Seq(Byte)
        BY Zenon, <1>1, <2>4, <3>1, CrlfFacts
      <4> QED
        BY Zenon, <1>5, <1>6, <3>1, <4>1, HoldsSubSeq
    <3>3. SubSeq(s, q, end - 1) = t
      BY Zenon, <1>1, <1>5, <1>6, <3>1, HoldsSubSeq
    <3> QED
      BY Zenon, <1>1, <2>2, <3>1, <3>2, <3>3
  <2> QED
    BY <2>3, <2>4
<1> QED
  BY Zenon, <1>8, <1>9

\* A type byte, and what is behind it.
LEMMA FirstByte ==
  ASSUME NEW x \in Byte, NEW u \in Seq(Byte)
  PROVE  /\ <<x>> \o u \in Seq(Byte) /\ Len(<<x>> \o u) = Len(u) + 1 /\ (<<x>> \o u)[1] = x
         /\ \A s, p : p \in Nat /\ Holds(s, p, <<x>> \o u) =>
              (p <= Len(s) => s[p] = x) /\ Holds(s, p + 1, u)
<1>1. <<x>> \in Seq(Byte) /\ Len(<<x>>) = 1 /\ <<x>>[1] = x
  OBVIOUS
<1>2. <<x>> \o u \in Seq(Byte) /\ Len(<<x>> \o u) = Len(u) + 1 /\ (<<x>> \o u)[1] = x
  BY <1>1
<1>3. ASSUME NEW s, NEW p \in Nat, Holds(s, p, <<x>> \o u)
      PROVE  (p <= Len(s) => s[p] = x) /\ Holds(s, p + 1, u)
  <2>1. Holds(s, p, <<x>>) /\ Holds(s, p + 1, u)
    BY Zenon, <1>1, <1>3, HoldsParts
  <2>2. 1 \in 1 .. 1 /\ p + 1 - 1 = p
    OBVIOUS
  <2>3. p <= Len(s) => s[p] = x
    BY Zenon, <1>1, <2>1, <2>2 DEF Holds
  <2> QED
    BY Zenon, <2>1, <2>3
<1> QED
  BY Zenon, <1>2, <1>3

\* A header is a type byte and a number.
LEMMA HeaderParts ==
  ASSUME NEW x \in Byte, NEW n \in DOMAIN Numeral
  PROVE  Header(x, n) = <<x>> \o NumLine(n)
<1> DEFINE y == Numeral[n]
<1>1. y \in Byte /\ <<y>> \in Seq(Byte) /\ <<x>> \in Seq(Byte)
  <2>1. y \in Byte
    BY Zenon, NumLineFacts
  <2> HIDE DEF y
  <2> QED
    BY <2>1
<1> HIDE DEF y
<1>2. <<x, y>> = <<x>> \o <<y>>
  BY <1>1
<1>3. (<<x>> \o <<y>>) \o CRLF = <<x>> \o (<<y>> \o CRLF)
  <2>1. CRLF \in Seq(Byte)
    BY Zenon, CrlfFacts
  <2> QED
    BY <1>1, <2>1
<1> QED
  BY Zenon, <1>2, <1>3 DEF Header, NumLine, y

\* The result of decoding, at position p, a frame v that takes n bytes.
Expected(s, p, v, n) ==
  IF p + n - 1 <= Len(s) THEN Ok(v, p + n)
  ELSE Err(IF p > Len(s) THEN "EOF" ELSE "ErrUnexpectedEOF")

\* The same, of a frame with n bytes behind the type byte, when that one is there.
Behind(s, p, f, v, n) ==
  p <= Len(s) =>
    decodeFrame(s, p, f) = IF p + n <= Len(s) THEN Ok(v, p + n + 1) ELSE Err("ErrUnexpectedEOF")

\* A frame is its type byte and what is behind it.
LEMMA Framed ==
  ASSUME NEW s \in Seq(Byte), NEW p \in Nat, NEW f, NEW v, NEW n \in Nat, Behind(s, p, f, v, n),
         NEW m, m = n + 1
  PROVE  decodeFrame(s, p, f) = Expected(s, p, v, m)
<1>1. p + m - 1 = p + n /\ p + m = p + n + 1 /\ (p > Len(s) \/ p <= Len(s))
  BY SeqLen
<1>2. CASE p > Len(s)
  <2>1. ~(p + n <= Len(s))
    BY <1>2, SeqLen
  <2> QED
    BY Zenon, <1>1, <1>2, <2>1 DEF Expected, decodeFrame
<1>3. CASE p <= Len(s)
  <2>1. ~(p > Len(s))
    BY <1>3, SeqLen
  <2> QED
    BY Zenon, <1>1, <1>3, <2>1 DEF Expected, Behind
<1> QED
  BY Zenon, <1>1, <1>2, <1>3

\* A line, behind a type byte.
LEMMA DecodeLine ==
  ASSUME NEW s \in Seq(Byte), NEW p \in Nat, p >= 1, NEW x \in {"+", "-"}, NEW t \in Lines, NEW f,
         Holds(s, p, <<x>> \o (t \o CRLF)), NEW n \in Nat, n = Len(t)
  PROVE  decodeFrame(s, p, f) = Expected(s, p, [NewValue(x) EXCEPT !.text = t], n + 3)
<1> DEFINE v == [NewValue(x) EXCEPT !.text = t]
           q == p + 1
           k == n + 2
           l == readLine(s, q)
           r == retyped(l, x)
<1>1. /\ t \in Seq(Byte) /\ t \o CRLF \in Seq(Byte) /\ x \in Byte
  BY Zenon, CrlfFacts, JoinFacts, RespAssumption DEF Lines
<1>2. (p <= Len(s) => s[p] = x) /\ Holds(s, q, t \o CRLF)
  BY Zenon, <1>1, FirstByte
<1>3. q \in Nat /\ q >= 1 /\ q + n + 1 = p + k /\ q + n + 2 = p + k + 1 /\ k \in Nat
  OBVIOUS
<1>4. \A i : retyped(Ok(SimpleString(t), i), x) = Ok(v, i)
  BY Zenon, Retyped
<1>5. retyped(Err("ErrUnexpectedEOF"), x) = Err("ErrUnexpectedEOF")
  BY Zenon DEF retyped, Err
<1>6. p <= Len(s) => decodeFrame(s, p, f) = r
  <2>1. p <= Len(s) => s[p] \in {"+", "-"} /\ ~(p > Len(s)) /\ s[p] \notin {":", "$", "*"}
    BY <1>2, SeqLen
  <2> QED
    BY Zenon, <1>2, <2>1 DEF decodeFrame
<1> HIDE DEF v, q, k
<1>7. l = IF p + k <= Len(s) THEN Ok(SimpleString(t), p + k + 1) ELSE Err("ErrUnexpectedEOF")
  BY Zenon, <1>2, <1>3, ReadLine
<1>8. r = IF p + k <= Len(s) THEN Ok(v, p + k + 1) ELSE Err("ErrUnexpectedEOF")
  BY Zenon, <1>4, <1>5, <1>7
<1>9. Behind(s, p, f, v, k)
  BY Zenon, <1>6, <1>8 DEF Behind
<1>10. k \in Nat /\ n + 3 = k + 1
  BY DEF k
<1> QED
  BY <1>9, <1>10, Framed DEF v

\* An integer.
LEMMA DecodeInteger ==
  ASSUME NEW s \in Seq(Byte), NEW p \in Nat, p >= 1, NEW n \in DOMAIN Numeral, NEW f,
         Holds(s, p, <<":">> \o NumLine(n))
  PROVE  decodeFrame(s, p, f) = Expected(s, p, Integer(n), 4)
<1> DEFINE q == p + 1
           l == readInt(s, q)
           v == Integer(n)
<1>1. ":" \in Byte /\ NumLine(n) \in Seq(Byte)
  BY Zenon, NumLineFacts, RespAssumption
<1>2. (p <= Len(s) => s[p] = ":") /\ Holds(s, q, NumLine(n))
  BY Zenon, <1>1, FirstByte
<1>3. q \in Nat /\ q >= 1 /\ q + 2 = p + 3 /\ q + 3 = p + 3 + 1 /\ 3 \in Nat
  OBVIOUS
<1>4. \A i : retyped(Ok(SimpleString(<<Numeral[n]>>), i), ":") = Ok(v, i)
  BY Zenon, Retyped DEF Integer
<1>5. retyped(Err("ErrUnexpectedEOF"), ":") = Err("ErrUnexpectedEOF")
  BY Zenon DEF retyped, Err
<1>6. p <= Len(s) => decodeFrame(s, p, f) = retyped(l, ":")
  <2>1. p <= Len(s) => s[p] = ":" /\ ~(p > Len(s)) /\ s[p] \notin {"+", "-", "$", "*"}
    BY <1>2, SeqLen
  <2> QED
    BY Zenon, <2>1 DEF decodeFrame
<1> HIDE DEF v, q
<1>7. l = IF p + 3 <= Len(s) THEN Ok(SimpleString(<<Numeral[n]>>), p + 3 + 1) ELSE Err("ErrUnexpectedEOF")
  BY Zenon, <1>2, <1>3, ReadInt
<1>8. Behind(s, p, f, v, 3)
  BY Zenon, <1>4, <1>5, <1>6, <1>7 DEF Behind
<1>9. 3 \in Nat /\ 4 = 3 + 1
  OBVIOUS
<1> QED
  BY <1>8, <1>9, Framed DEF v

\* The null bulk string.
LEMMA DecodeNull ==
  ASSUME NEW s \in Seq(Byte), NEW p \in Nat, p >= 1, NEW f, Holds(s, p, <<"$">> \o NumLine(-1))
  PROVE  decodeFrame(s, p, f) = Expected(s, p, NullBulk, 4)
<1> DEFINE q == p + 1
           l == readInt(s, q)
<1>1. "$" \in Byte /\ -1 \in DOMAIN Numeral /\ NumLine(-1) \in Seq(Byte)
  BY Zenon, NumLineFacts, RespAssumption
<1>2. (p <= Len(s) => s[p] = "$") /\ Holds(s, q, NumLine(-1))
  BY Zenon, <1>1, FirstByte
<1>3. q \in Nat /\ q >= 1 /\ q + 2 = p + 3 /\ q + 3 = p + 3 + 1 /\ 3 \in Nat /\ -1 < 0
      /\ "ErrUnexpectedEOF" # "nil"
  OBVIOUS
<1>6. p <= Len(s) => decodeFrame(s, p, f) = decodeBulk(s, q)
  <2>1. p <= Len(s) => s[p] = "$" /\ ~(p > Len(s)) /\ s[p] \notin {"+", "-", ":", "*"}
    BY <1>2, SeqLen
  <2> QED
    BY Zenon, <2>1 DEF decodeFrame
<1> HIDE DEF q
<1>7. IF p + 3 <= Len(s) THEN l.err = "nil" /\ l.next = p + 3 + 1 /\ IntOf(l) < 0
      ELSE l = Err("ErrUnexpectedEOF") /\ l.err # "nil"
  BY Zenon, <1>1, <1>2, <1>3, ReadInt
<1>8. decodeBulk(s, q) = IF p + 3 <= Len(s) THEN Ok(NullBulk, p + 3 + 1) ELSE Err("ErrUnexpectedEOF")
  BY Zenon, <1>7 DEF decodeBulk
<1>9. Behind(s, p, f, NullBulk, 3)
  BY Zenon, <1>6, <1>8 DEF Behind
<1>10. 3 \in Nat /\ 4 = 3 + 1
  OBVIOUS
<1> QED
  BY <1>9, <1>10, Framed

\* A bulk string.
LEMMA DecodeBulkFrame ==
  ASSUME NEW s \in Seq(Byte), NEW p \in Nat, p >= 1, NEW t \in Seq(Byte), NEW n \in Nat, n = Len(t),
         n \in DOMAIN Numeral, NEW f, Holds(s, p, <<"$">> \o (NumLine(n) \o (t \o CRLF)))
  PROVE  decodeFrame(s, p, f) = Expected(s, p, Bulk(t), n + 6)
<1> DEFINE q == p + 1
           k == n + 5
           u == NumLine(n) \o (t \o CRLF)
<1>1. "$" \in Byte /\ NumLine(n) \in Seq(Byte) /\ t \o CRLF \in Seq(Byte) /\ u \in Seq(Byte)
  BY Zenon, NumLineFacts, RespAssumption, CrlfFacts, JoinFacts
<1>2. (p <= Len(s) => s[p] = "$") /\ Holds(s, q, u)
  BY Zenon, <1>1, FirstByte
<1>3. q \in Nat /\ q >= 1 /\ q + n + 4 = p + k /\ q + n + 5 = p + k + 1 /\ k \in Nat
  OBVIOUS
<1>6. p <= Len(s) => decodeFrame(s, p, f) = decodeBulk(s, q)
  <2>1. p <= Len(s) => s[p] = "$" /\ ~(p > Len(s)) /\ s[p] \notin {"+", "-", ":", "*"}
    BY <1>2, SeqLen
  <2> QED
    BY Zenon, <2>1 DEF decodeFrame
<1> HIDE DEF q, k
<1>8. decodeBulk(s, q) = IF p + k <= Len(s) THEN Ok(Bulk(t), p + k + 1) ELSE Err("ErrUnexpectedEOF")
  BY Zenon, <1>2, <1>3, DecodeBulk
<1>9. Behind(s, p, f, Bulk(t), k)
  BY Zenon, <1>6, <1>8 DEF Behind
<1>10. k \in Nat /\ n + 6 = k + 1
  BY DEF k
<1> QED
  BY <1>9, <1>10, Framed

\* What there is to know of a frame v that is sent as e, and that has no elements.
FlatFrame(v, e) ==
  /\ e \in Seq(Byte) /\ Len(e) \in Nat \ {0}
  /\ \A s \in Seq(Byte), p \in Nat : \A f :
       p >= 1 /\ Holds(s, p, e) => decodeFrame(s, p, f) = Expected(s, p, v, Len(e))

\* A simple string or an error comes back as it was sent.
LEMMA FlatLine ==
  ASSUME NEW x \in {"+", "-"}, NEW t \in Lines, NEW v, v = [NewValue(x) EXCEPT !.text = t]
  PROVE  FlatFrame(v, EncodeFlat(v))
<1>1. v.type = x /\ v.text = t
  <2>1. v = Val(x, No, t, <<>>)
    BY Zenon, ValueForms
  <2> QED
    BY <2>1 DEF Val
<1>2. x \in Byte /\ x # "$" /\ t \in Seq(Byte) /\ <<x>> \in Seq(Byte) /\ CRLF \in Seq(Byte) /\ Len(CRLF) = 2
  BY RespAssumption, CrlfFacts DEF Lines
<1>3. EncodeFlat(v) = <<x>> \o t \o CRLF
  BY Zenon, <1>1, <1>2 DEF EncodeFlat
<1>4. <<x>> \o t \o CRLF = <<x>> \o (t \o CRLF)
  BY <1>2
<1> DEFINE e == <<x>> \o (t \o CRLF)
<1>5. PICK n \in Nat : n = Len(t)
  BY Zenon, <1>2, SeqLen
<1>6. e \in Seq(Byte) /\ Len(e) = n + 3
  <2>1. t \o CRLF \in Seq(Byte) /\ Len(t \o CRLF) = Len(t) + Len(CRLF)
    BY Zenon, <1>2, JoinFacts
  <2>2. e \in Seq(Byte) /\ Len(e) = Len(t \o CRLF) + 1
    BY Zenon, <1>2, <2>1, FirstByte
  <2>3. Len(e) = n + 2 + 1
    BY Zenon, <1>2, <1>5, <2>1, <2>2
  <2>4. n + 2 + 1 = n + 3
    OBVIOUS
  <2> QED
    BY Zenon, <2>2, <2>3, <2>4
<1>7. Len(e) \in Nat \ {0}
  BY <1>6
<1>8. ASSUME NEW s \in Seq(Byte), NEW p \in Nat, NEW f, p >= 1, Holds(s, p, e)
      PROVE  decodeFrame(s, p, f) = Expected(s, p, v, Len(e))
  <2>1. decodeFrame(s, p, f) = Expected(s, p, [NewValue(x) EXCEPT !.text = t], n + 3)
    BY <1>5, <1>8, DecodeLine
  <2> QED
    BY Zenon, <1>6, <2>1
<1>9. FlatFrame(v, e)
  BY Zenon, <1>6, <1>7, <1>8 DEF FlatFrame
<1> QED
  BY Zenon, <1>3, <1>4, <1>9

\* So does an integer,
LEMMA FlatInteger ==
  ASSUME NEW n \in DOMAIN Numeral
  PROVE  FlatFrame(Integer(n), EncodeFlat(Integer(n)))
<1> DEFINE v == Integer(n)
           e == <<":">> \o NumLine(n)
<1>1. v.type = ":" /\ v.text = <<Numeral[n]>>
  <2>1. v = Val(":", No, <<Numeral[n]>>, <<>>)
    BY Zenon, ValueForms
  <2> QED
    BY <2>1 DEF Val
<1>2. /\ ":" \in Byte /\ ":" # "$" /\ <<Numeral[n]>> \in Seq(Byte) /\ CRLF \in Seq(Byte)
      /\ NumLine(n) \in Seq(Byte) /\ Len(NumLine(n)) = 3
  BY Zenon, RespAssumption, CrlfFacts, NumLineFacts DEF Lines
<1>3. EncodeFlat(v) = <<":">> \o <<Numeral[n]>> \o CRLF
  BY Zenon, <1>1, <1>2 DEF EncodeFlat
<1>4. <<":">> \o <<Numeral[n]>> \o CRLF = <<":">> \o (<<Numeral[n]>> \o CRLF)
  BY <1>2
<1>6. e \in Seq(Byte) /\ Len(e) = 4
  <2>1. Len(e) = 3 + 1 /\ e \in Seq(Byte)
    BY Zenon, <1>2, FirstByte
  <2> QED
    BY <2>1
<1>7. Len(e) \in Nat \ {0}
  BY <1>6
<1>8. ASSUME NEW s \in Seq(Byte), NEW p \in Nat, NEW f, p >= 1, Holds(s, p, e)
      PROVE  decodeFrame(s, p, f) = Expected(s, p, v, Len(e))
  BY Zenon, <1>6, <1>8, DecodeInteger
<1>9. FlatFrame(v, e)
  BY Zenon, <1>6, <1>7, <1>8 DEF FlatFrame
<1> QED
  BY Zenon, <1>3, <1>4, <1>9 DEF NumLine

\* the null bulk string,
LEMMA FlatNull == FlatFrame(NullBulk, EncodeFlat(NullBulk))
<1> DEFINE v == NullBulk
           e == <<"$">> \o NumLine(-1)
<1>1. v.type = "$" /\ v.null = Yes
  BY NullForms, FieldFacts
<1>2. "$" \in Byte /\ -1 \in DOMAIN Numeral
  BY Zenon, RespAssumption
<1>3. EncodeFlat(v) = Header("$", -1)
  BY Zenon, <1>1 DEF EncodeFlat, Yes
<1>4. Header("$", -1) = e
  BY Zenon, <1>2, HeaderParts
<1>6. e \in Seq(Byte) /\ Len(e) = 4
  <2>1. Len(e) = 3 + 1 /\ e \in Seq(Byte)
    <3>1. NumLine(-1) \in Seq(Byte) /\ Len(NumLine(-1)) = 3
      BY Zenon, <1>2, NumLineFacts
    <3> QED
      BY Zenon, <1>2, <3>1, FirstByte
  <2> QED
    BY <2>1
<1>7. Len(e) \in Nat \ {0}
  BY <1>6
<1>8. ASSUME NEW s \in Seq(Byte), NEW p \in Nat, NEW f, p >= 1, Holds(s, p, e)
      PROVE  decodeFrame(s, p, f) = Expected(s, p, v, Len(e))
  BY Zenon, <1>6, <1>8, DecodeNull
<1>9. FlatFrame(v, e)
  BY Zenon, <1>6, <1>7, <1>8 DEF FlatFrame
<1> QED
  BY Zenon, <1>3, <1>4, <1>9

\* and a bulk string, whatever bytes are in it.
LEMMA FlatBulk ==
  ASSUME NEW t \in Seq(Byte), Len(t) \in DOMAIN Numeral
  PROVE  FlatFrame(Bulk(t), EncodeFlat(Bulk(t)))
<1> DEFINE v == Bulk(t)
<1>1. v.type = "$" /\ v.null = No /\ v.text = t
  <2>1. v = Val("$", No, t, <<>>)
    BY Zenon, ValueForms
  <2> QED
    BY <2>1 DEF Val
<1>2. PICK n \in Nat : n = Len(t)
  BY Zenon, SeqLen
<1> DEFINE e == <<"$">> \o (NumLine(n) \o (t \o CRLF))
<1>3. /\ "$" \in Byte /\ n \in DOMAIN Numeral /\ CRLF \in Seq(Byte) /\ Len(CRLF) = 2
      /\ NumLine(n) \in Seq(Byte) /\ Len(NumLine(n)) = 3
  BY Zenon, <1>2, RespAssumption, CrlfFacts, NumLineFacts
<1>4. EncodeFlat(v) = Header("$", n) \o t \o CRLF
  BY Zenon, <1>1, <1>2 DEF EncodeFlat, No
<1>5. Header("$", n) = <<"$">> \o NumLine(n)
  BY Zenon, <1>3, HeaderParts
<1>6. (<<"$">> \o NumLine(n)) \o t \o CRLF = e
  <2>1. <<"$">> \in Seq(Byte)
    BY <1>3
  <2> QED
    <3>1. Joined4(<<"$">>, NumLine(n), t, CRLF)
      BY Zenon, <1>3, <2>1, Parts4
    <3> QED
      BY Zenon, <3>1 DEF Joined4
<1>7. e \in Seq(Byte) /\ Len(e) = n + 6
  <2> DEFINE u == t \o CRLF
             w == NumLine(n) \o u
  <2>1. u \in Seq(Byte) /\ Len(u) = Len(t) + Len(CRLF)
    BY Zenon, <1>3, JoinFacts
  <2>2. w \in Seq(Byte) /\ Len(w) = Len(NumLine(n)) + Len(u)
    <3> HIDE DEF u
    <3> QED
      BY Zenon, <1>3, <2>1, JoinFacts
  <2>3. e \in Seq(Byte) /\ Len(e) = Len(w) + 1
    BY Zenon, <1>3, <2>2, FirstByte
  <2>4. Len(e) = 3 + (n + 2) + 1
    BY Zenon, <1>2, <1>3, <2>1, <2>2, <2>3
  <2>5. 3 + (n + 2) + 1 = n + 6
    OBVIOUS
  <2> QED
    BY Zenon, <2>3, <2>4, <2>5
<1>8. Len(e) \in Nat \ {0}
  BY <1>7
<1>9. ASSUME NEW s \in Seq(Byte), NEW p \in Nat, NEW f, p >= 1, Holds(s, p, e)
      PROVE  decodeFrame(s, p, f) = Expected(s, p, v, Len(e))
  BY <1>2, <1>3, <1>7, <1>9, DecodeBulkFrame
<1>10. FlatFrame(v, e)
  BY Zenon, <1>7, <1>8, <1>9 DEF FlatFrame
<1> QED
  BY Zenon, <1>4, <1>5, <1>6, <1>10

\* Every frame without elements is decoded to what it was, or its end is missed.
LEMMA FlatFrames == \A v : IsFlat(v) => FlatFrame(v, EncodeFlat(v))
<1> SUFFICES ASSUME NEW v, IsFlat(v) PROVE FlatFrame(v, EncodeFlat(v))
  BY Zenon
<1>1. CASE v = NullBulk
  BY Zenon, <1>1, FlatNull
<1>2. CASE v = Bulk(v.text) /\ v.text \in Seq(Byte) /\ Len(v.text) \in DOMAIN Numeral
  <2>1. PICK t \in Seq(Byte) : v = Bulk(t) /\ Len(t) \in DOMAIN Numeral
    BY Zenon, <1>2
  <2> QED
    BY Zenon, <2>1, FlatBulk
<1>3. CASE \E n \in DOMAIN Numeral : v = Integer(n)
  BY Zenon, <1>3, FlatInteger
<1>4. CASE /\ v.type \in {"+", "-"} /\ v = [NewValue(v.type) EXCEPT !.text = v.text]
           /\ v.text \in Seq(Byte) /\ \A i \in DOMAIN v.text : v.text[i] # LF
  <2>1. PICK x \in {"+", "-"}, t \in Lines : v = [NewValue(x) EXCEPT !.text = t]
    BY Zenon, <1>4 DEF Lines
  <2> QED
    BY Zenon, <2>1, FlatLine
<1> QED
  BY Zenon, <1>1, <1>2, <1>3, <1>4 DEF IsFlat

-----------------------------------------------------------------------------
(* Progress: what is decoded ends behind where it began.                   *)

INSTANCE WellFoundedInduction

\* Every set of numbers that is not empty has a least one.
LEMMA Least ==
  ASSUME NEW T, T \subseteq Nat, T # {}
  PROVE  \E x \in T : \A y \in T : x <= y
<1> DEFINE R == OpToRel(<, Nat)
<1>1. PICK x \in T : \A y \in T : ~(<<y, x>> \in R)
  BY Zenon, NatLessThanWellFounded, WFMin
<1>2. \A y \in T : ~(y < x)
  BY Zenon, <1>1 DEF OpToRel
<1> QED
  BY <1>2

\* What is decoded at position i, if it is, ends behind i and within the stream.
Ends(s, i, r) == r.err = "nil" => r.next \in (i + 1) .. (Len(s) + 1)

\* An error ends nowhere, and a value where its result says.
LEMMA ResultEnds ==
  /\ \A s, i, e : e # "nil" => Ends(s, i, Err(e))
  /\ \A s, i, v, k : k \in (i + 1) .. (Len(s) + 1) => Ends(s, i, Ok(v, k))
<1>1. \A e : Err(e).err = e
  BY Zenon DEF Err
<1>2. \A v, k : Ok(v, k).next = k
  BY Zenon DEF Ok
<1> QED
  BY Zenon, <1>1, <1>2 DEF Ends

\* A line ends within the stream.
LEMMA LineEnds ==
  ASSUME NEW s \in Seq(Byte), NEW i \in Nat, i >= 1
  PROVE  Ends(s, i, readLine(s, i))
<1> DEFINE ends == {j \in i .. Len(s) : s[j] = LF}
           j == CHOOSE j \in ends : \A k \in ends : j <= k
           r == readLine(s, i)
<1>1. r = IF ends = {} THEN Err(unexpectEOF("EOF"))
          ELSE IF j - i < 1 \/ s[j - 1] # CR THEN Err("protocol")
          ELSE Ok(SimpleString(SubSeq(s, i, j - 2)), j + 1)
  BY Zenon DEF readLine
<1>2. CASE ends = {}
  <2>1. r.err = "ErrUnexpectedEOF" /\ "ErrUnexpectedEOF" # "nil"
    BY <1>1, <1>2 DEF Err, unexpectEOF
  <2> QED
    BY Zenon, <2>1 DEF Ends
<1>3. CASE ends # {}
  <2>1. ends \subseteq Nat
    BY SeqLen
  <2>2. j \in ends
    BY Zenon, <1>3, <2>1, Least
  <2>3. j + 1 \in (i + 1) .. (Len(s) + 1)
    <3>1. j \in i .. Len(s)
      BY Zenon, <2>2
    <3> HIDE DEF j
    <3> QED
      BY <3>1, SeqLen
  <2>4. CASE j - i < 1 \/ s[j - 1] # CR
    <3>1. r = Err("protocol") /\ "protocol" # "nil"
      BY Zenon, <1>1, <1>3, <2>4
    <3> QED
      BY Zenon, <3>1, ResultEnds
  <2>5. CASE ~(j - i < 1 \/ s[j - 1] # CR)
    <3>1. r = Ok(SimpleString(SubSeq(s, i, j - 2)), j + 1)
      BY Zenon, <1>1, <1>3, <2>5
    <3> QED
      BY Zenon, <2>3, <3>1, ResultEnds
  <2> QED
    BY Zenon, <2>4, <2>5
<1> QED
  BY Zenon, <1>2, <1>3

\* An integer is a line again; one that is read has a value.
LEMMA IntEnds ==
  ASSUME NEW s \in Seq(Byte), NEW i \in Nat, i >= 1
  PROVE  /\ Ends(s, i, readInt(s, i))
         /\ readInt(s, i).err = "nil" => IntOf(readInt(s, i)) \in Int
<1> DEFINE l == readLine(s, i)
           r == readInt(s, i)
<1>1. r = IF l.err = "nil" /\ ParseInt(l.val.text) = {} THEN Err("protocol") ELSE l
  BY Zenon DEF readInt
<1>2. CASE l.err = "nil" /\ ParseInt(l.val.text) = {}
  <2>1. r = Err("protocol")
    BY Zenon, <1>1, <1>2
  <2>2. r.err = "protocol" /\ "protocol" # "nil"
    BY <2>1 DEF Err
  <2> QED
    BY Zenon, <2>2 DEF Ends
<1>3. CASE ~(l.err = "nil" /\ ParseInt(l.val.text) = {})
  <2>1. r = l
    BY Zenon, <1>1, <1>3
  <2>2. Ends(s, i, r)
    BY Zenon, <2>1, LineEnds
  <2>3. ASSUME r.err = "nil" PROVE IntOf(r) \in Int
    <3>1. ParseInt(r.val.text) # {}
      BY Zenon, <1>3, <2>1, <2>3
    <3>2. IntOf(r) \in ParseInt(r.val.text)
      BY Zenon, <3>1 DEF IntOf
    <3>3. ParseInt(r.val.text) \subseteq Int
      BY Zenon, RespAssumption DEF ParseInt
    <3> QED
      BY Zenon, <3>2, <3>3
  <2> QED
    BY Zenon, <2>2, <2>3
<1> QED
  BY Zenon, <1>2, <1>3

\* A bulk string ends within the stream.
LEMMA BulkEnds ==
  ASSUME NEW s \in Seq(Byte), NEW i \in Nat, i >= 1
  PROVE  Ends(s, i, decodeBulk(s, i))
<1> DEFINE len == readInt(s, i)
           n == IntOf(len)
           end == len.next + n
           r == decodeBulk(s, i)
<1>1. r = IF len.err # "nil" THEN len
          ELSE IF n < 0 THEN Ok(NullBulk, len.next)
          ELSE IF end + 1 > Len(s) THEN Err(unexpectEOF("EOF"))
          ELSE IF SubSeq(s, end, end + 1) # CRLF THEN Err("protocol")
          ELSE Ok(Bulk(SubSeq(s, len.next, end - 1)), end + 2)
  BY Zenon DEF decodeBulk
<1>2. CASE len.err # "nil"
  BY Zenon, <1>1, <1>2 DEF Ends
<1>3. CASE len.err = "nil"
  <2>1. len.next \in (i + 1) .. (Len(s) + 1) /\ n \in Int
    BY Zenon, <1>3, IntEnds DEF Ends
  <2>4. unexpectEOF("EOF") # "nil" /\ "protocol" # "nil"
    BY Zenon DEF unexpectEOF
  <2>5. ~(n < 0) /\ ~(end + 1 > Len(s)) => end + 2 \in (i + 1) .. (Len(s) + 1)
    <3>1. PICK a, b : a = len.next /\ b = n
      BY Zenon
    <3>2. a \in (i + 1) .. (Len(s) + 1) /\ b \in Int
      BY Zenon, <2>1, <3>1
    <3>3. ~(b < 0) /\ ~(a + b + 1 > Len(s)) => a + b + 2 \in (i + 1) .. (Len(s) + 1)
      BY <3>2, SeqLen
    <3> QED
      BY Zenon, <3>1, <3>3
  <2>6. CASE n < 0
    BY Zenon, <1>1, <1>3, <2>1, <2>6, ResultEnds
  <2>7. CASE ~(n < 0) /\ end + 1 > Len(s)
    BY Zenon, <1>1, <1>3, <2>4, <2>7, ResultEnds
  <2>8. CASE ~(n < 0) /\ ~(end + 1 > Len(s)) /\ SubSeq(s, end, end + 1) # CRLF
    BY Zenon, <1>1, <1>3, <2>4, <2>8, ResultEnds
  <2>9. CASE ~(n < 0) /\ ~(end + 1 > Len(s)) /\ SubSeq(s, end, end + 1) = CRLF
    BY Zenon, <1>1, <1>3, <2>5, <2>9, ResultEnds
  <2> QED
    BY Zenon, <2>6, <2>7, <2>8, <2>9
<1> QED
  BY Zenon, <1>2, <1>3

\* The type byte of a value has no part in where it ends.
LEMMA RetypedEnds ==
  ASSUME NEW s, NEW i, NEW r, NEW x, NEW e, NEW v, NEW k,
         r = [err |-> e, val |-> v, next |-> k], Ends(s, i, r)
  PROVE  Ends(s, i, retyped(r, x))
<1>1. retyped(r, x).err = r.err /\ retyped(r, x).next = r.next
  BY Zenon DEF retyped
<1> QED
  BY Zenon, <1>1 DEF Ends

-----------------------------------------------------------------------------
(* The elements of an array.                                               *)

\* The elements of an array one by one: e[k] is what there is after k of them.
IsElems(e, n, from, f) ==
  e = [k \in 0 .. n |-> IF k = 0 THEN Ok(Array(<<>>), from) ELSE decodeElem(e[k - 1], f)]

\* There is such a function: the loop over the elements is well defined.
LEMMA ElemsExist ==
  ASSUME NEW from, NEW f, NEW N \in Nat
  PROVE  \E e : IsElems(e, N, from, f)
<1> DEFINE z == Ok(Array(<<>>), from)
           T == {n \in Nat : ~\E e : IsElems(e, n, from, f)}
<1> SUFFICES ASSUME T # {} PROVE FALSE
  BY Zenon
<1>1. PICK n \in T : \A k \in T : n <= k
  BY Zenon, Least
<1> HIDE DEF z
<1>2. CASE n = 0
  <2> DEFINE e == [i \in 0 .. 0 |-> z]
  <2>1. e = [i \in 0 .. 0 |-> IF i = 0 THEN z ELSE decodeElem(e[i - 1], f)]
    OBVIOUS
  <2>2. IsElems(e, 0, from, f)
    BY Zenon, <2>1 DEF IsElems, z
  <2> QED
    BY Zenon, <1>1, <1>2, <2>2
<1>3. CASE n # 0
  <2>1. n \in Nat /\ n - 1 \in Nat /\ ~(n <= n - 1)
    BY <1>3
  <2>2. n - 1 \notin T
    BY Zenon, <1>1, <2>1
  <2>3. PICK e : IsElems(e, n - 1, from, f)
    BY Zenon, <2>1, <2>2
  <2> DEFINE x == [i \in 0 .. n |-> IF i = n THEN decodeElem(e[n - 1], f) ELSE e[i]]
  <2>4. \A i \in 0 .. n - 1 : e[i] = IF i = 0 THEN z ELSE decodeElem(e[i - 1], f)
    BY Zenon, <2>3 DEF IsElems, z
  <2>5. ASSUME NEW i \in 0 .. n PROVE x[i] = IF i = 0 THEN z ELSE decodeElem(x[i - 1], f)
    <3>1. CASE i = n
      <4>1. x[i - 1] = e[n - 1] /\ x[i] = decodeElem(e[n - 1], f)
        BY <1>3, <2>1, <3>1
      <4> QED
        BY Zenon, <1>3, <3>1, <4>1
    <3>2. CASE i # n /\ i # 0
      <4>1. x[i - 1] = e[i - 1] /\ x[i] = e[i] /\ i \in 0 .. n - 1
        BY <2>1, <3>2
      <4> QED
        BY Zenon, <2>4, <3>2, <4>1
    <3>3. CASE i # n /\ i = 0
      <4>1. x[i] = e[i] /\ i \in 0 .. n - 1
        BY <2>1, <3>3
      <4> QED
        BY Zenon, <2>4, <3>3, <4>1
    <3> QED
      BY Zenon, <3>1, <3>2, <3>3
  <2>6. DOMAIN x = 0 .. n /\ x = [i \in 0 .. n |-> x[i]]
    BY Zenon
  <2> HIDE DEF x
  <2>7. IsElems(x, n, from, f)
    BY Zenon, <2>5, <2>6 DEF IsElems, z
  <2> QED
    BY Zenon, <2>7
<1> QED
  BY Zenon, <1>2, <1>3

\* What the functions of IsElems have in common.
LEMMA ElemsSteps ==
  ASSUME NEW n \in Nat, NEW from, NEW f, NEW e, IsElems(e, n, from, f)
  PROVE  /\ e[0] = Ok(Array(<<>>), from)
         /\ \A k \in 1 .. n : k - 1 \in 0 .. n /\ e[k] = decodeElem(e[k - 1], f)
<1>1. \A k \in 0 .. n : e[k] = IF k = 0 THEN Ok(Array(<<>>), from) ELSE decodeElem(e[k - 1], f)
  BY Zenon DEF IsElems
<1>2. 0 \in 0 .. n /\ \A k \in 1 .. n : k \in 0 .. n /\ k # 0 /\ k - 1 \in 0 .. n
  OBVIOUS
<1> QED
  BY Zenon, <1>1, <1>2

\* The decoders f and g do the same from position a on.
Agree(s, a, f, g) == \A j \in a .. Len(s) + 1 : f[j] = g[j] /\ Ends(s, j, f[j])

\* Then one more element is the same for both, and ends within the stream.
LEMMA ElemAgrees ==
  ASSUME NEW s \in Seq(Byte), NEW a \in Nat, NEW f, NEW g, Agree(s, a, f, g),
         NEW b, b.err = "nil" => b.next \in a .. Len(s) + 1
  PROVE  /\ decodeElem(b, f) = decodeElem(b, g)
         /\ decodeElem(b, f).err = "nil" => decodeElem(b, f).next \in a .. Len(s) + 1
<1> DEFINE v == f[b.next]
           r == decodeElem(b, f)
<1>1. CASE b.err # "nil"
  <2>1. r = b /\ decodeElem(b, g) = b
    BY Zenon, <1>1 DEF decodeElem
  <2> QED
    BY Zenon, <1>1, <2>1
<1>2. CASE b.err = "nil"
  <2>1. b.next \in a .. Len(s) + 1 /\ v = g[b.next] /\ Ends(s, b.next, v)
    BY Zenon, <1>2 DEF Agree
  <2>2. r = IF v.err # "nil" THEN Err(unexpectEOF(v.err))
            ELSE Ok(Array(Append(b.val.elems, v.val)), v.next)
    BY Zenon, <1>2 DEF decodeElem
  <2>3. decodeElem(b, g) = r
    BY Zenon, <1>2, <2>1 DEF decodeElem
  <2>4. CASE v.err # "nil"
    <3>1. unexpectEOF(v.err) # "nil"
      BY Zenon, <2>4 DEF unexpectEOF
    <3>2. r.err = unexpectEOF(v.err)
      <4>1. r = Err(unexpectEOF(v.err))
        BY Zenon, <2>2, <2>4
      <4> QED
        BY <4>1 DEF Err
    <3> QED
      BY Zenon, <2>3, <3>1, <3>2
  <2>5. CASE v.err = "nil"
    <3>1. r.next = v.next
      <4>1. r = Ok(Array(Append(b.val.elems, v.val)), v.next)
        BY Zenon, <2>2, <2>5
      <4> QED
        BY <4>1 DEF Ok
    <3>2. v.next \in (b.next + 1) .. (Len(s) + 1)
      BY Zenon, <2>1, <2>5 DEF Ends
    <3>3. v.next \in a .. Len(s) + 1
      <4>1. PICK m, k : m = b.next /\ k = v.next
        BY Zenon
      <4>2. m \in a .. Len(s) + 1 /\ k \in (m + 1) .. (Len(s) + 1)
        BY Zenon, <2>1, <3>2, <4>1
      <4>3. k \in a .. Len(s) + 1
        BY <4>2, SeqLen
      <4> QED
        BY Zenon, <4>1, <4>3
    <3> QED
      BY Zenon, <2>3, <3>1, <3>3
  <2> QED
    BY Zenon, <2>4, <2>5
<1> QED
  BY Zenon, <1>1, <1>2

\* Then all the elements are.
LEMMA ElemsAgree ==
  ASSUME NEW s \in Seq(Byte), NEW a \in Nat, NEW f, NEW g, Agree(s, a, f, g),
         NEW n \in Nat, NEW from \in a .. Len(s) + 1,
         NEW x, IsElems(x, n, from, f), NEW y, IsElems(y, n, from, g)
  PROVE  \A k \in 0 .. n : x[k] = y[k] /\ (x[k].err = "nil" => x[k].next \in a .. Len(s) + 1)
<1> DEFINE Same(k) == x[k] = y[k] /\ (x[k].err = "nil" => x[k].next \in a .. Len(s) + 1)
           T == {k \in 0 .. n : ~Same(k)}
<1> SUFFICES ASSUME T # {} PROVE FALSE
  BY Zenon
<1>1. PICK k \in T : \A i \in T : k <= i
  <2>1. T \subseteq Nat
    OBVIOUS
  <2> QED
    BY Zenon, <2>1, Least
<1>2. x[0] = Ok(Array(<<>>), from) /\ \A i \in 1 .. n : x[i] = decodeElem(x[i - 1], f)
  BY ElemsSteps
<1>3. y[0] = Ok(Array(<<>>), from) /\ \A i \in 1 .. n : y[i] = decodeElem(y[i - 1], g)
  BY ElemsSteps
<1>4. k \in 0 .. n /\ ~Same(k)
  BY Zenon
<1>5. CASE k = 0
  <2>1. x[0].next = from
    BY <1>2 DEF Ok
  <2> QED
    BY Zenon, <1>2, <1>3, <1>4, <1>5, <2>1
<1>6. CASE k # 0
  <2>1. k - 1 \in 0 .. n /\ ~(k <= k - 1) /\ k \in 1 .. n
    BY <1>4, <1>6
  <2>2. Same(k - 1)
    BY Zenon, <1>1, <2>1
  <2>3. PICK b : b = x[k - 1] /\ b = y[k - 1] /\ (b.err = "nil" => b.next \in a .. Len(s) + 1)
    BY Zenon, <2>2
  <2>4. x[k] = decodeElem(b, f) /\ y[k] = decodeElem(b, g)
    BY Zenon, <1>2, <1>3, <2>1, <2>3
  <2>5. /\ decodeElem(b, f) = decodeElem(b, g)
        /\ decodeElem(b, f).err = "nil" => decodeElem(b, f).next \in a .. Len(s) + 1
    BY Zenon, <2>3, ElemAgrees
  <2> QED
    BY Zenon, <1>4, <2>4, <2>5
<1> QED
  BY Zenon, <1>5, <1>6

\* decodeArray, with its elements named.
LEMMA ArrayIs ==
  ASSUME NEW s, NEW i, NEW f
  PROVE  LET len == readInt(s, i)
             n == IntOf(len)
         IN  /\ len.err # "nil" => decodeArray(s, i, f) = len
             /\ len.err = "nil" /\ n < 0 => decodeArray(s, i, f) = Ok(NullArray, len.next)
             /\ len.err = "nil" /\ ~(n < 0) =>
                  decodeArray(s, i, f) = (CHOOSE e : IsElems(e, n, len.next, f))[n]
  BY Zenon DEF decodeArray, IsElems

\* An array is decoded alike by decoders that agree behind its type byte.
LEMMA ArrayAgrees ==
  ASSUME NEW s \in Seq(Byte), NEW i \in Nat, i >= 1, NEW f, NEW g, Agree(s, i, f, g)
  PROVE  decodeArray(s, i, f) = decodeArray(s, i, g) /\ Ends(s, i - 1, decodeArray(s, i, f))
<1> DEFINE len == readInt(s, i)
           n == IntOf(len)
<1>2. Ends(s, i, len) /\ (len.err = "nil" => n \in Int)
  BY Zenon, IntEnds
<1>3. (i - 1) + 1 = i /\ \A k \in (i + 1) .. (Len(s) + 1) : k \in i .. Len(s) + 1
  BY SeqLen
<1> DEFINE r == decodeArray(s, i, f)
<1>4. CASE len.err # "nil"
  <2>1. r = len /\ decodeArray(s, i, g) = len
    BY Zenon, <1>4, ArrayIs
  <2> QED
    BY Zenon, <1>4, <2>1 DEF Ends
<1>5. CASE len.err = "nil" /\ n < 0
  <2>1. r = Ok(NullArray, len.next) /\ decodeArray(s, i, g) = Ok(NullArray, len.next)
    BY Zenon, <1>5, ArrayIs
  <2>2. len.next \in ((i - 1) + 1) .. (Len(s) + 1)
    BY Zenon, <1>2, <1>3, <1>5 DEF Ends
  <2> QED
    BY Zenon, <2>1, <2>2, ResultEnds
<1>6. CASE len.err = "nil" /\ ~(n < 0)
  <2>1. n \in Nat /\ len.next \in i .. Len(s) + 1
    <3>1. n \in Int /\ ~(n < 0)
      BY Zenon, <1>2, <1>6
    <3>2. len.next \in i .. Len(s) + 1
      BY Zenon, <1>2, <1>3, <1>6 DEF Ends
    <3> QED
      BY <3>1, <3>2
  <2> DEFINE x == CHOOSE e : IsElems(e, n, len.next, f)
             y == CHOOSE e : IsElems(e, n, len.next, g)
  <2>2. IsElems(x, n, len.next, f) /\ IsElems(y, n, len.next, g)
    BY Zenon, <2>1, ElemsExist
  <2>3. r = x[n] /\ decodeArray(s, i, g) = y[n]
    BY Zenon, <1>6, ArrayIs
  <2>4. n \in 0 .. n
    BY <2>1
  <2> HIDE DEF x, y, n, len
  <2>5. x[n] = y[n] /\ (x[n].err = "nil" => x[n].next \in i .. Len(s) + 1)
    BY Zenon, <2>1, <2>2, <2>4, ElemsAgree
  <2> QED
    BY Zenon, <1>3, <2>3, <2>5 DEF Ends
<1> QED
  BY Zenon, <1>4, <1>5, <1>6

\* The results of reading a line or an integer.
LEMMA LineResult ==
  ASSUME NEW s, NEW i, NEW x
  PROVE  /\ \A n : Ends(s, n, readLine(s, i)) => Ends(s, n, retyped(readLine(s, i), x))
         /\ \A n : Ends(s, n, readInt(s, i)) => Ends(s, n, retyped(readInt(s, i), x))
<1> DEFINE Result(r) == \E e, v, k : r = [err |-> e, val |-> v, next |-> k]
<1>1. \A v, k, e : Result(Ok(v, k)) /\ Result(Err(e))
  BY Zenon DEF Ok, Err
<1>2. Result(readLine(s, i))
  <2> HIDE DEF Result
  <2> QED
    BY Zenon, <1>1 DEF readLine
<1>3. Result(readInt(s, i))
  <2> HIDE DEF Result
  <2> QED
    BY Zenon, <1>1, <1>2 DEF readInt
<1>4. ASSUME NEW r, Result(r), NEW n, Ends(s, n, r) PROVE Ends(s, n, retyped(r, x))
  <2>1. PICK e, v, k : r = [err |-> e, val |-> v, next |-> k]
    BY Zenon, <1>4
  <2> QED
    BY Zenon, <1>4, <2>1, RetypedEnds
<1> HIDE DEF Result
<1> QED
  BY Zenon, <1>2, <1>3, <1>4

\* What is at position i depends on the decoder behind i only.
LEMMA FrameAgrees ==
  ASSUME NEW s \in Seq(Byte), NEW i \in Nat, i >= 1, NEW f, NEW g, Agree(s, i + 1, f, g)
  PROVE  decodeFrame(s, i, f) = decodeFrame(s, i, g) /\ Ends(s, i, decodeFrame(s, i, f))
<1> DEFINE q == i + 1
           r == decodeFrame(s, i, f)
<1>1. q \in Nat /\ q >= 1 /\ q - 1 = i /\ \A k \in (q + 1) .. (Len(s) + 1) : k \in (i + 1) .. (Len(s) + 1)
  BY SeqLen
<1>2. ASSUME NEW x, Ends(s, q, x) PROVE Ends(s, i, x)
  BY Zenon, <1>1, <1>2 DEF Ends
<1> DEFINE B(h) == decodeFrame(s, i, h) =
             IF i > Len(s) THEN Err("EOF")
             ELSE CASE s[i] \in {"+", "-"} -> retyped(readLine(s, q), s[i])
                    [] s[i] = ":" -> retyped(readInt(s, q), ":")
                    [] s[i] = "$" -> decodeBulk(s, q)
                    [] s[i] = "*" -> decodeArray(s, q, h)
                    [] OTHER -> Err("protocol")
<1>3. B(f) /\ B(g)
  BY Zenon DEF decodeFrame
<1>4. decodeArray(s, q, f) = decodeArray(s, q, g) /\ Ends(s, i, decodeArray(s, q, f))
  <2> HIDE DEF q
  <2>1. Agree(s, q, f, g)
    BY Zenon DEF q
  <2>2. q \in Nat /\ q >= 1 /\ q - 1 = i
    BY Zenon, <1>1
  <2>3. decodeArray(s, q, f) = decodeArray(s, q, g) /\ Ends(s, q - 1, decodeArray(s, q, f))
    BY Zenon, <2>1, <2>2, ArrayAgrees
  <2> QED
    BY Zenon, <2>2, <2>3
<1>6. Ends(s, i, Err("EOF")) /\ Ends(s, i, Err("protocol"))
  <2>1. "EOF" # "nil" /\ "protocol" # "nil"
    BY Zenon
  <2> QED
    BY Zenon, <2>1, ResultEnds
<1>7. \A x : Ends(s, i, retyped(readLine(s, q), x)) /\ Ends(s, i, retyped(readInt(s, q), x))
  <2> HIDE DEF q
  <2> QED
    BY Zenon, <1>1, <1>2, LineEnds, IntEnds, LineResult
<1>8. Ends(s, i, decodeBulk(s, q))
  BY Zenon, <1>1, <1>2, BulkEnds
<1> HIDE DEF q
<1>9. decodeFrame(s, i, g) = r /\ Ends(s, i, r)
  <2>1. CASE i > Len(s)
    BY Zenon, <1>3, <1>6, <2>1
  <2>2. CASE ~(i > Len(s)) /\ s[i] \in {"+", "-"}
    <3>1. s[i] \notin {":", "$", "*"}
      BY Zenon, <2>2
    <3> QED
      BY Zenon, <1>3, <1>7, <2>2, <3>1
  <2>3. CASE ~(i > Len(s)) /\ s[i] = ":"
    <3>1. s[i] \notin {"+", "-", "$", "*"}
      BY Zenon, <2>3
    <3> QED
      BY Zenon, <1>3, <1>7, <2>3, <3>1
  <2>4. CASE ~(i > Len(s)) /\ s[i] = "$"
    <3>1. s[i] \notin {"+", "-", ":", "*"}
      BY Zenon, <2>4
    <3> QED
      BY Zenon, <1>3, <1>8, <2>4, <3>1
  <2>5. CASE ~(i > Len(s)) /\ s[i] = "*"
    <3>1. s[i] \notin {"+", "-", ":", "$"}
      BY Zenon, <2>5
    <3> QED
      BY Zenon, <1>3, <1>4, <2>5, <3>1
  <2>6. CASE ~(i > Len(s)) /\ s[i] \notin {"+", "-"} /\ s[i] # ":" /\ s[i] # "$" /\ s[i] # "*"
    BY Zenon, <1>3, <1>6, <2>6
  <2> QED
    BY Zenon, <2>1, <2>2, <2>3, <2>4, <2>5, <2>6
<1> QED
  BY Zenon, <1>9

\* A decoder of the positions from a on: decodeAt, where the recursion has come to a.
IsDecoder(f, s, a) == f = [i \in a .. Len(s) + 1 |-> decodeFrame(s, i, f)]

\* A decoder can be continued to the front.
LEMMA DecoderStep ==
  ASSUME NEW s \in Seq(Byte), NEW a \in Nat, a >= 1, a <= Len(s) + 1,
         NEW f, IsDecoder(f, s, a + 1), Agree(s, a + 1, f, f)
  PROVE  \E x : IsDecoder(x, s, a) /\ Agree(s, a, x, x)
<1>1. PICK m \in Nat : m = Len(s) + 1
  BY SeqLen
<1> DEFINE x == [i \in a .. m |-> IF i = a THEN decodeFrame(s, a, f) ELSE f[i]]
<1>2. \A i \in a + 1 .. m : f[i] = decodeFrame(s, i, f) /\ Ends(s, i, f[i])
  BY Zenon, <1>1 DEF IsDecoder, Agree
<1>3. ASSUME NEW i \in a .. m PROVE x[i] = decodeFrame(s, i, f)
  <2>1. CASE i = a
    BY Zenon, <2>1
  <2>2. CASE i # a
    <3>1. i \in a + 1 .. m /\ x[i] = f[i]
      BY <2>2
    <3> QED
      BY Zenon, <1>2, <3>1
  <2> QED
    BY Zenon, <2>1, <2>2
<1>4. ASSUME NEW i \in a .. m PROVE Agree(s, i + 1, f, x)
  <2>1. ASSUME NEW j \in i + 1 .. m PROVE f[j] = x[j] /\ Ends(s, j, f[j])
    <3>1. j \in a + 1 .. m /\ x[j] = f[j]
      OBVIOUS
    <3> QED
      BY Zenon, <1>2, <3>1
  <2> QED
    BY Zenon, <1>1, <2>1 DEF Agree
<1>5. x = [i \in a .. m |-> x[i]]
  BY Zenon
<1> HIDE DEF x
<1>6. ASSUME NEW i \in a .. m PROVE x[i] = decodeFrame(s, i, x) /\ Ends(s, i, x[i])
  <2>1. i \in Nat /\ i >= 1
    OBVIOUS
  <2>2. decodeFrame(s, i, f) = decodeFrame(s, i, x) /\ Ends(s, i, decodeFrame(s, i, f))
    BY Zenon, <1>4, <2>1, FrameAgrees
  <2> QED
    BY Zenon, <1>3, <2>2
<1>7. IsDecoder(x, s, a)
  BY Zenon, <1>1, <1>5, <1>6 DEF IsDecoder
<1>8. Agree(s, a, x, x)
  BY Zenon, <1>1, <1>6 DEF Agree
<1> QED
  BY Zenon, <1>7, <1>8

\* The recursion of decodeAt ends: there is a decoder of all positions.
LEMMA DecoderExists ==
  ASSUME NEW s \in Seq(Byte)
  PROVE  \E f : IsDecoder(f, s, 1)
<1>1. PICK m \in Nat : m = Len(s) + 1
  BY SeqLen
<1> DEFINE Good(a) == \E f : IsDecoder(f, s, a) /\ Agree(s, a, f, f)
           T == {d \in 0 .. m : ~Good(m + 1 - d)}
<1>2. T = {}
  <2> SUFFICES ASSUME T # {} PROVE FALSE
    BY Zenon
  <2>1. PICK d \in T : \A k \in T : d <= k
    <3>1. T \subseteq Nat
      OBVIOUS
    <3> QED
      BY Zenon, <3>1, Least
  <2>2. d \in 0 .. m /\ ~Good(m + 1 - d)
    BY Zenon
  <2> HIDE DEF Good
  <2>3. CASE d = 0
    <3>1. m + 1 - 0 = m + 1 /\ (m + 1) .. m = {}
      OBVIOUS
    <3> DEFINE f == [i \in (m + 1) .. m |-> i]
    <3>2. f = [i \in (m + 1) .. m |-> decodeFrame(s, i, f)]
      BY Zenon, <3>1
    <3>3. IsDecoder(f, s, m + 1)
      BY Zenon, <1>1, <3>2 DEF IsDecoder
    <3>4. Agree(s, m + 1, f, f)
      BY Zenon, <1>1, <3>1 DEF Agree
    <3>5. Good(m + 1)
      BY Zenon, <3>3, <3>4 DEF Good
    <3> QED
      BY Zenon, <2>2, <2>3, <3>1, <3>5
  <2>4. CASE d # 0
    <3> DEFINE a == m + 1 - d
    <3>1. d - 1 \in 0 .. m /\ ~(d <= d - 1) /\ m + 1 - (d - 1) = a + 1 /\ a \in Nat /\ a >= 1 /\ a <= m
      BY <2>2, <2>4
    <3>2. Good(a + 1)
      <4>1. d - 1 \notin T
        BY Zenon, <2>1, <3>1
      <4> QED
        BY Zenon, <3>1, <4>1
    <3> HIDE DEF a
    <3>3. PICK f : IsDecoder(f, s, a + 1) /\ Agree(s, a + 1, f, f)
      BY Zenon, <3>2 DEF Good
    <3>4. Good(a)
      BY Zenon, <1>1, <3>1, <3>3, DecoderStep DEF Good
    <3> QED
      BY Zenon, <2>2, <3>4 DEF a
  <2> QED
    BY Zenon, <2>3, <2>4
<1>3. m \in 0 .. m /\ m + 1 - m = 1
  OBVIOUS
<1> QED
  BY Zenon, <1>2, <1>3

\* f does at every position what Decode does there, the elements included.
Decoder(s, f) == \A i \in 1 .. Len(s) + 1 : f[i] = decodeFrame(s, i, f)

\* Decode is such a decoder, called at the first position.
LEMMA DecodeIs ==
  ASSUME NEW s \in Seq(Byte)
  PROVE  \E f : Decode(s) = decodeFrame(s, 1, f) /\ Decoder(s, f)
<1> DEFINE f == CHOOSE g : g = [i \in 1 .. Len(s) + 1 |-> decodeFrame(s, i, g)]
<1>1. Decode(s) = f[1]
  BY Zenon DEF Decode
<1>2. f = [i \in 1 .. Len(s) + 1 |-> decodeFrame(s, i, f)]
  BY Zenon, DecoderExists DEF IsDecoder
<1>3. 1 \in 1 .. Len(s) + 1
  BY SeqLen
<1> HIDE DEF f
<1>4. Decoder(s, f)
  BY Zenon, <1>2 DEF Decoder
<1> QED
  BY Zenon, <1>1, <1>3, <1>4 DEF Decoder

-----------------------------------------------------------------------------
(* Sequences one behind the other.                                         *)

\* Concat(E, n), step by step.
IsConcat(g, E, n) == g = [k \in 0 .. n |-> IF k = 0 THEN <<>> ELSE g[k - 1] \o E[k]]

\* There is such a function,
LEMMA ConcatExists ==
  ASSUME NEW E, NEW N \in Nat
  PROVE  \E g : IsConcat(g, E, N)
<1> DEFINE T == {n \in Nat : ~\E g : IsConcat(g, E, n)}
<1> SUFFICES ASSUME T # {} PROVE FALSE
  BY Zenon
<1>1. PICK n \in T : \A k \in T : n <= k
  BY Zenon, Least
<1>2. CASE n = 0
  <2> DEFINE g == [k \in 0 .. 0 |-> <<>>]
  <2>1. g = [k \in 0 .. 0 |-> IF k = 0 THEN <<>> ELSE g[k - 1] \o E[k]]
    OBVIOUS
  <2>2. IsConcat(g, E, 0)
    BY Zenon, <2>1 DEF IsConcat
  <2> QED
    BY Zenon, <1>1, <1>2, <2>2
<1>3. CASE n # 0
  <2>1. n \in Nat /\ n - 1 \in Nat /\ ~(n <= n - 1)
    BY <1>3
  <2>2. n - 1 \notin T
    BY Zenon, <1>1, <2>1
  <2>3. PICK g : IsConcat(g, E, n - 1)
    BY Zenon, <2>1, <2>2
  <2> DEFINE last == g[n - 1] \o E[n]
             x == [k \in 0 .. n |-> IF k = n THEN last ELSE g[k]]
  <2>4. \A k \in 0 .. n - 1 : g[k] = IF k = 0 THEN <<>> ELSE g[k - 1] \o E[k]
    BY Zenon, <2>3 DEF IsConcat
  <2> HIDE DEF last
  <2>5. ASSUME NEW k \in 0 .. n PROVE x[k] = IF k = 0 THEN <<>> ELSE x[k - 1] \o E[k]
    <3>1. CASE k = n
      <4>1. x[k - 1] = g[n - 1] /\ x[k] = last
        BY <1>3, <2>1, <3>1
      <4> QED
        BY Zenon, <1>3, <3>1, <4>1 DEF last
    <3>2. CASE k # n
      <4>1. (k # 0 => x[k - 1] = g[k - 1]) /\ x[k] = g[k] /\ k \in 0 .. n - 1
        BY <2>1, <3>2
      <4> QED
        BY Zenon, <2>4, <4>1
    <3> QED
      BY Zenon, <3>1, <3>2
  <2>6. DOMAIN x = 0 .. n /\ x = [k \in 0 .. n |-> x[k]]
    BY Zenon
  <2> HIDE DEF x
  <2>7. IsConcat(x, E, n)
    BY Zenon, <2>5, <2>6 DEF IsConcat
  <2> QED
    BY Zenon, <2>7
<1> QED
  BY Zenon, <1>2, <1>3

\* only one, whatever its bound,
LEMMA ConcatUnique ==
  ASSUME NEW E, NEW N \in Nat, NEW M \in Nat, N <= M, NEW x, IsConcat(x, E, N), NEW y, IsConcat(y, E, M)
  PROVE  \A k \in 0 .. N : x[k] = y[k]
<1> DEFINE T == {k \in 0 .. N : x[k] # y[k]}
<1> SUFFICES ASSUME T # {} PROVE FALSE
  BY Zenon
<1>1. PICK n \in T : \A k \in T : n <= k
  <2>1. T \subseteq Nat
    OBVIOUS
  <2> QED
    BY Zenon, <2>1, Least
<1>2. \A k \in 0 .. N : x[k] = IF k = 0 THEN <<>> ELSE x[k - 1] \o E[k]
  BY Zenon DEF IsConcat
<1>3. \A k \in 0 .. M : y[k] = IF k = 0 THEN <<>> ELSE y[k - 1] \o E[k]
  BY Zenon DEF IsConcat
<1>4. n \in 0 .. N /\ n \in 0 .. M
  OBVIOUS
<1>5. CASE n = 0
  BY Zenon, <1>1, <1>2, <1>3, <1>4, <1>5
<1>6. CASE n # 0
  <2>1. n - 1 \in 0 .. N /\ ~(n <= n - 1)
    BY <1>4, <1>6
  <2>2. x[n - 1] = y[n - 1]
    BY Zenon, <1>1, <2>1
  <2>3. x[n] = x[n - 1] \o E[n]
    BY Zenon, <1>2, <1>4, <1>6
  <2>4. y[n] = y[n - 1] \o E[n]
    BY Zenon, <1>3, <1>4, <1>6
  <2> QED
    BY Zenon, <1>1, <2>2, <2>3, <2>4
<1> QED
  BY Zenon, <1>5, <1>6

\* and Concat is it.
LEMMA ConcatIs ==
  ASSUME NEW E, NEW n \in Nat, NEW N \in Nat, n <= N, NEW g, IsConcat(g, E, N)
  PROVE  Concat(E, n) = g[n]
<1> DEFINE h == CHOOSE h : IsConcat(h, E, n)
<1>1. Concat(E, n) = h[n]
  BY Zenon DEF Concat, IsConcat
<1>2. IsConcat(h, E, n)
  BY Zenon, ConcatExists
<1> HIDE DEF h
<1>3. \A k \in 0 .. n : h[k] = g[k]
  BY <1>2, ConcatUnique
<1>4. n \in 0 .. n
  OBVIOUS
<1> QED
  BY Zenon, <1>1, <1>3, <1>4

\* The parts of Concat(E, n) are these.
LEMMA ConcatSteps ==
  ASSUME NEW N \in Nat, NEW E
  PROVE  /\ Concat(E, 0) = <<>>
         /\ \A n \in 1 .. N : Concat(E, n) = Concat(E, n - 1) \o E[n]
<1>1. PICK g : IsConcat(g, E, N)
  BY Zenon, ConcatExists
<1>2. ASSUME NEW n \in 0 .. N PROVE Concat(E, n) = g[n]
  <2>1. n \in Nat /\ n <= N
    OBVIOUS
  <2> QED
    BY Zenon, <1>1, <2>1, ConcatIs
<1>3. \A k \in 0 .. N : g[k] = IF k = 0 THEN <<>> ELSE g[k - 1] \o E[k]
  BY Zenon, <1>1 DEF IsConcat
<1>4. 0 \in 0 .. N /\ \A n \in 1 .. N : n \in 0 .. N /\ n - 1 \in 0 .. N /\ n # 0
  OBVIOUS
<1>5. Concat(E, 0) = <<>>
  BY Zenon, <1>2, <1>3, <1>4
<1>6. ASSUME NEW n \in 1 .. N PROVE Concat(E, n) = Concat(E, n - 1) \o E[n]
  <2>1. Concat(E, n) = g[n] /\ Concat(E, n - 1) = g[n - 1]
    BY Zenon, <1>2, <1>4
  <2>2. g[n] = g[n - 1] \o E[n]
    BY Zenon, <1>3, <1>4
  <2> QED
    BY Zenon, <2>1, <2>2
<1> QED
  BY Zenon, <1>5, <1>6

\* A concatenation of byte sequences is one.
LEMMA ConcatType ==
  ASSUME NEW N \in Nat, NEW E, \A j \in 1 .. N : E[j] \in Seq(Byte)
  PROVE  \A n \in 0 .. N : Concat(E, n) \in Seq(Byte)
<1> DEFINE T == {n \in 0 .. N : Concat(E, n) \notin Seq(Byte)}
<1> SUFFICES ASSUME T # {} PROVE FALSE
  BY Zenon
<1>1. PICK n \in T : \A i \in T : n <= i
  <2>1. T \subseteq Nat
    OBVIOUS
  <2> QED
    BY Zenon, <2>1, Least
<1>2. n \in 0 .. N /\ Concat(E, n) \notin Seq(Byte)
  BY Zenon
<1>3. CASE n = 0
  <2>1. <<>> \in Seq(Byte)
    OBVIOUS
  <2> QED
    BY Zenon, <1>2, <1>3, <2>1, ConcatSteps
<1>4. CASE n # 0
  <2>1. n - 1 \in 0 .. N /\ ~(n <= n - 1) /\ n \in 1 .. N
    BY <1>2, <1>4
  <2>2. Concat(E, n - 1) \in Seq(Byte)
    BY Zenon, <1>1, <2>1
  <2>3. Concat(E, n) = Concat(E, n - 1) \o E[n]
    BY Zenon, <2>1, ConcatSteps
  <2>4. Concat(E, n - 1) \o E[n] \in Seq(Byte)
    BY Zenon, <2>1, <2>2, JoinFacts
  <2> QED
    BY Zenon, <1>2, <2>3, <2>4
<1> QED
  BY Zenon, <1>3, <1>4

\* Lengths add up.
LEMMA ConcatLen ==
  ASSUME NEW N \in Nat, NEW E, \A j \in 1 .. N : E[j] \in Seq(Byte)
  PROVE  /\ Len(Concat(E, 0)) = 0
         /\ \A n \in 0 .. N : Len(Concat(E, n)) \in Nat
         /\ \A n \in 1 .. N : Len(Concat(E, n)) = Len(Concat(E, n - 1)) + Len(E[n])
<1>1. Len(Concat(E, 0)) = 0
  <2>1. Len(<<>>) = 0
    BY Zenon
  <2> QED
    BY Zenon, <2>1, ConcatSteps
<1>2. \A n \in 0 .. N : Len(Concat(E, n)) \in Nat
  BY Zenon, ConcatType, SeqLen
<1>3. ASSUME NEW n \in 1 .. N PROVE Len(Concat(E, n)) = Len(Concat(E, n - 1)) + Len(E[n])
  <2>1. n - 1 \in 0 .. N
    OBVIOUS
  <2>2. Concat(E, n - 1) \in Seq(Byte) /\ E[n] \in Seq(Byte)
    BY Zenon, <2>1, ConcatType
  <2>3. Concat(E, n) = Concat(E, n - 1) \o E[n]
    BY Zenon, ConcatSteps
  <2> QED
    BY Zenon, <2>2, <2>3, JoinFacts
<1> QED
  BY Zenon, <1>1, <1>2, <1>3

\* Where Concat(E, N) stands, its parts stand one behind the other.
LEMMA ConcatHolds ==
  ASSUME NEW N \in Nat, NEW E, \A j \in 1 .. N : E[j] \in Seq(Byte),
         NEW s, NEW p \in Nat, Holds(s, p, Concat(E, N))
  PROVE  \A n \in 1 .. N : Holds(s, p + Len(Concat(E, n - 1)), E[n])
<1> DEFINE T == {d \in 0 .. N : ~Holds(s, p, Concat(E, N - d))}
<1>1. ASSUME NEW n \in 1 .. N, Holds(s, p, Concat(E, n))
      PROVE  Holds(s, p, Concat(E, n - 1)) /\ Holds(s, p + Len(Concat(E, n - 1)), E[n])
  <2>1. n - 1 \in 0 .. N
    OBVIOUS
  <2>2. Concat(E, n - 1) \in Seq(Byte) /\ E[n] \in Seq(Byte)
    BY Zenon, <2>1, ConcatType
  <2>3. Concat(E, n) = Concat(E, n - 1) \o E[n]
    BY Zenon, ConcatSteps
  <2>4. Holds(s, p, Concat(E, n - 1) \o E[n])
    BY Zenon, <1>1, <2>3
  <2> QED
    BY Zenon, <2>2, <2>4, HoldsParts
<1>2. T = {}
  <2> SUFFICES ASSUME T # {} PROVE FALSE
    BY Zenon
  <2>1. PICK d \in T : \A i \in T : d <= i
    <3>1. T \subseteq Nat
      OBVIOUS
    <3> QED
      BY Zenon, <3>1, Least
  <2>2. d \in 0 .. N /\ ~Holds(s, p, Concat(E, N - d))
    BY Zenon
  <2>3. CASE d = 0
    <3>1. N - 0 = N
      OBVIOUS
    <3> QED
      BY Zenon, <2>2, <2>3, <3>1
  <2>4. CASE d # 0
    <3>1. d - 1 \in 0 .. N /\ ~(d <= d - 1) /\ N - (d - 1) \in 1 .. N /\ N - (d - 1) - 1 = N - d
      BY <2>2, <2>4
    <3>2. Holds(s, p, Concat(E, N - (d - 1)))
      BY Zenon, <2>1, <3>1
    <3> QED
      BY Zenon, <1>1, <2>2, <3>1, <3>2
  <2> QED
    BY Zenon, <2>3, <2>4
<1>3. ASSUME NEW n \in 1 .. N PROVE Holds(s, p + Len(Concat(E, n - 1)), E[n])
  <2>1. N - n \in 0 .. N /\ N - (N - n) = n
    OBVIOUS
  <2>2. Holds(s, p, Concat(E, n))
    BY Zenon, <1>2, <2>1
  <2> QED
    BY Zenon, <1>1, <2>2
<1> QED
  BY Zenon, <1>3

-----------------------------------------------------------------------------
(* Arrays.                                                                 *)

\* One more element, when k of them have been decoded.
LEMMA ElemDecoded ==
  ASSUME NEW s \in Seq(Byte), NEW q \in Nat, q >= 1, q <= Len(s) + 1,
         NEW f, f[q] = decodeFrame(s, q, f),
         NEW v, NEW e, FlatFrame(v, e), Holds(s, q, e), NEW w
  PROVE  decodeElem(Ok(Array(w), q), f) =
           IF q + Len(e) <= Len(s) + 1 THEN Ok(Array(Append(w, v)), q + Len(e)) ELSE Err("ErrUnexpectedEOF")
<1>1. PICK b : b = Ok(Array(w), q)
  BY Zenon
<1>2. b.err = "nil" /\ b.next = q /\ b.val.elems = w
  <2>1. PICK a : a = Array(w)
    BY Zenon
  <2>2. a = Val("*", No, <<>>, w)
    BY Zenon, <2>1, ValueForms
  <2>3. a.elems = w
    BY Zenon, <2>2 DEF Val
  <2>4. b.err = "nil" /\ b.next = q /\ b.val = a
    BY Zenon, <1>1, <2>1 DEF Ok
  <2> QED
    BY Zenon, <2>3, <2>4
<1>3. PICK r : r = f[q]
  BY Zenon
<1>4. r = Expected(s, q, v, Len(e))
  BY Zenon, <1>3 DEF FlatFrame
<1>5. decodeElem(b, f) = IF r.err # "nil" THEN Err(unexpectEOF(r.err)) ELSE Ok(Array(Append(w, r.val)), r.next)
  BY Zenon, <1>2, <1>3 DEF decodeElem
<1>6. PICK m \in Nat, n \in Nat : m = Len(s) /\ n = Len(e)
  BY Zenon, SeqLen DEF FlatFrame
<1>7. CASE q + n <= m + 1
  <2>1. q + n - 1 <= m
    BY <1>7
  <2>2. r = Ok(v, q + n)
    BY Zenon, <1>4, <1>6, <2>1 DEF Expected
  <2>3. r.err = "nil" /\ r.val = v /\ r.next = q + n
    BY Zenon, <2>2 DEF Ok
  <2> QED
    BY Zenon, <1>1, <1>5, <1>6, <1>7, <2>3
<1>8. CASE ~(q + n <= m + 1)
  <2>1. ~(q + n - 1 <= m)
    BY <1>8
  <2>2. PICK x \in {"EOF", "ErrUnexpectedEOF"} : r = Err(x)
    BY Zenon, <1>4, <1>6, <2>1 DEF Expected
  <2>3. r.err = x /\ x # "nil" /\ unexpectEOF(x) = "ErrUnexpectedEOF"
    BY Zenon, <2>2 DEF Err, unexpectEOF
  <2> QED
    BY Zenon, <1>1, <1>5, <1>6, <1>8, <2>3
<1> QED
  BY Zenon, <1>7, <1>8

\* The beginnings of a sequence.
LEMMA Beginnings ==
  ASSUME NEW S, NEW vs \in Seq(S), NEW n \in Nat, n = Len(vs)
  PROVE  /\ SubSeq(vs, 1, 0) = <<>> /\ SubSeq(vs, 1, n) = vs
         /\ \A k \in 1 .. n : Append(SubSeq(vs, 1, k - 1), vs[k]) = SubSeq(vs, 1, k)
<1>1. SubSeq(vs, 1, 0) = <<>>
  OBVIOUS
<1>2. SubSeq(vs, 1, n) = vs
  OBVIOUS
<1>3. ASSUME NEW k \in 1 .. n PROVE Append(SubSeq(vs, 1, k - 1), vs[k]) = SubSeq(vs, 1, k)
  OBVIOUS
<1> QED
  BY Zenon, <1>1, <1>2, <1>3

\* What there is after k elements.
SoFar(s, from, E, vs, k) ==
  IF from + Len(Concat(E, k)) <= Len(s) + 1 THEN Ok(Array(SubSeq(vs, 1, k)), from + Len(Concat(E, k)))
  ELSE Err("ErrUnexpectedEOF")

\* E are the n elements vs, encoded.
EncodedAs(vs, n, E) == n = Len(vs) /\ \A k \in 1 .. n : FlatFrame(vs[k], E[k])

\* From position from on, s holds the elements vs, each encoded, and f is a decoder.
Elements(s, from, f, vs, n, E) ==
  /\ from \in Nat /\ from >= 1 /\ from <= Len(s) + 1
  /\ Decoder(s, f) /\ EncodedAs(vs, n, E) /\ Holds(s, from, Concat(E, n))

\* The elements come back one by one, as far as the stream goes.
LEMMA ElemsDecoded ==
  ASSUME NEW s \in Seq(Byte), NEW S, NEW vs \in Seq(S), NEW n \in Nat,
         NEW from, NEW f, NEW E, Elements(s, from, f, vs, n, E),
         NEW x, IsElems(x, n, from, f)
  PROVE  \A k \in 0 .. n : x[k] = SoFar(s, from, E, vs, k)
<1> SUFFICES ASSUME from \in Nat, from >= 1, from <= Len(s) + 1,
                    \A i \in 1 .. Len(s) + 1 : f[i] = decodeFrame(s, i, f),
                    n = Len(vs), \A k \in 1 .. n : FlatFrame(vs[k], E[k]), Holds(s, from, Concat(E, n))
             PROVE  \A k \in 0 .. n : x[k] = SoFar(s, from, E, vs, k)
  BY Zenon DEF Elements, EncodedAs, Decoder
<1> DEFINE T == {k \in 0 .. n : x[k] # SoFar(s, from, E, vs, k)}
<1> SUFFICES ASSUME T # {} PROVE FALSE
  BY Zenon
<1>1. PICK k \in T : \A i \in T : k <= i
  <2>1. T \subseteq Nat
    OBVIOUS
  <2> QED
    BY Zenon, <2>1, Least
<1>2. x[0] = Ok(Array(<<>>), from) /\ \A i \in 1 .. n : x[i] = decodeElem(x[i - 1], f)
  BY ElemsSteps
<1>3. k \in 0 .. n /\ x[k] # SoFar(s, from, E, vs, k)
  BY Zenon
<1>4. \A j \in 1 .. n : E[j] \in Seq(Byte)
  BY Zenon DEF FlatFrame
<1>5. CASE k = 0
  <2>1. Len(Concat(E, 0)) = 0 /\ SubSeq(vs, 1, 0) = <<>>
    BY Zenon, <1>4, ConcatLen, Beginnings
  <2>2. from + 0 = from
    OBVIOUS
  <2> QED
    BY Zenon, <1>2, <1>3, <1>5, <2>1, <2>2 DEF SoFar
<1>6. CASE k # 0
  <2>1. k - 1 \in 0 .. n /\ ~(k <= k - 1) /\ k \in 1 .. n
    BY <1>3, <1>6
  <2>2. x[k - 1] = SoFar(s, from, E, vs, k - 1)
    BY Zenon, <1>1, <2>1
  <2>3. x[k] = decodeElem(x[k - 1], f)
    BY Zenon, <1>2, <2>1
  <2>4. PICK c \in Nat, d \in Nat, m \in Nat : c = Len(Concat(E, k - 1)) /\ d = Len(E[k]) /\ m = Len(s)
    BY Zenon, <1>4, <2>1, ConcatLen, SeqLen
  <2>5. Len(Concat(E, k)) = c + d
    BY Zenon, <1>4, <2>1, <2>4, ConcatLen
  <2> DEFINE q == from + c
             w == SubSeq(vs, 1, k - 1)
  <2>6. Append(w, vs[k]) = SubSeq(vs, 1, k)
    BY Zenon, <2>1, Beginnings
  <2>7. q \in Nat /\ q >= 1 /\ from + (c + d) = q + d
    OBVIOUS
  <2>8. Holds(s, q, E[k])
    BY Zenon, <1>4, <2>1, <2>4, ConcatHolds
  <2> HIDE DEF q, w
  <2>9. CASE q <= m + 1
    <3>1. x[k - 1] = Ok(Array(w), q)
      BY Zenon, <2>2, <2>4, <2>9 DEF SoFar, q, w
    <3>2. f[q] = decodeFrame(s, q, f)
      <4>1. q \in 1 .. Len(s) + 1
        BY <2>4, <2>7, <2>9
      <4> QED
        BY Zenon, <4>1
    <3>3. FlatFrame(vs[k], E[k]) /\ q <= Len(s) + 1
      BY Zenon, <2>1, <2>4, <2>9
    <3>4. decodeElem(Ok(Array(w), q), f) =
            IF q + Len(E[k]) <= Len(s) + 1 THEN Ok(Array(Append(w, vs[k])), q + Len(E[k]))
            ELSE Err("ErrUnexpectedEOF")
      <4>1. q \in Nat /\ q >= 1
        BY Zenon, <2>7
      <4> QED
        BY Zenon, <2>8, <3>2, <3>3, <4>1, ElemDecoded
    <3>5. x[k] = decodeElem(Ok(Array(w), q), f)
      BY Zenon, <2>3, <3>1
    <3> QED
      BY Zenon, <1>3, <2>4, <2>5, <2>6, <2>7, <3>4, <3>5 DEF SoFar
  <2>10. CASE ~(q <= m + 1)
    <3>1. x[k - 1] = Err("ErrUnexpectedEOF")
      BY Zenon, <2>2, <2>4, <2>10 DEF SoFar, q
    <3>2. x[k - 1].err = "ErrUnexpectedEOF" /\ "ErrUnexpectedEOF" # "nil"
      BY <3>1 DEF Err
    <3>3. x[k] = Err("ErrUnexpectedEOF")
      BY Zenon, <2>3, <3>1, <3>2 DEF decodeElem
    <3>4. ~(q + d <= m + 1)
      BY <2>7, <2>10
    <3> QED
      BY Zenon, <1>3, <2>4, <2>5, <2>7, <3>3, <3>4 DEF SoFar
  <2> QED
    BY Zenon, <2>9, <2>10
<1> QED
  BY Zenon, <1>5, <1>6

\* An array.
LEMMA DecodeArrayFrame ==
  ASSUME NEW s \in Seq(Byte), NEW p \in Nat, p >= 1, NEW f, Decoder(s, f),
         NEW S, NEW vs \in Seq(S), NEW n \in Nat, n \in DOMAIN Numeral, NEW E, EncodedAs(vs, n, E),
         Holds(s, p, <<"*">> \o (NumLine(n) \o Concat(E, n))), NEW c \in Nat, c = Len(Concat(E, n))
  PROVE  decodeFrame(s, p, f) = Expected(s, p, Array(vs), c + 4)
<1> DEFINE q == p + 1
           k == c + 3
           from == p + 4
           len == readInt(s, q)
           r == decodeArray(s, q, f)
<1>1. \A j \in 1 .. n : E[j] \in Seq(Byte)
  BY Zenon DEF EncodedAs, FlatFrame
<1>2. Concat(E, n) \in Seq(Byte)
  <2>1. n \in 0 .. n
    OBVIOUS
  <2> QED
    BY Zenon, <1>1, <2>1, ConcatType
<1>3. "*" \in Byte /\ NumLine(n) \in Seq(Byte) /\ Len(NumLine(n)) = 3 /\ NumLine(n) \o Concat(E, n) \in Seq(Byte)
  BY Zenon, <1>2, RespAssumption, NumLineFacts, JoinFacts
<1>4. (p <= Len(s) => s[p] = "*") /\ Holds(s, q, NumLine(n) \o Concat(E, n))
  BY Zenon, <1>3, FirstByte
<1>5. /\ q \in Nat /\ q >= 1 /\ q + 3 = from /\ from \in Nat /\ from >= 1 /\ k \in Nat /\ c + 4 = k + 1
      /\ p + k + 1 = from + c /\ q + 2 = p + 3 /\ n \in 0 .. n /\ ~(n < 0)
  OBVIOUS
<1>6. Holds(s, q, NumLine(n)) /\ Holds(s, from, Concat(E, n))
  <2>1. Holds(s, q, NumLine(n)) /\ Holds(s, q + Len(NumLine(n)), Concat(E, n))
    <3> HIDE DEF q
    <3> QED
      BY Zenon, <1>2, <1>3, <1>4, <1>5, HoldsParts
  <2> QED
    BY Zenon, <1>3, <1>5, <2>1
<1>7. p <= Len(s) => decodeFrame(s, p, f) = r
  <2>1. p <= Len(s) => s[p] = "*" /\ ~(p > Len(s)) /\ s[p] \notin {"+", "-", ":", "$"}
    BY <1>4, SeqLen
  <2> QED
    BY Zenon, <2>1 DEF decodeFrame
<1> HIDE DEF q, k, from
<1>8. IF p + 3 <= Len(s) THEN len.err = "nil" /\ len.next = from /\ IntOf(len) = n
      ELSE len = Err("ErrUnexpectedEOF") /\ len.err = "ErrUnexpectedEOF"
  <2>1. IF q + 2 <= Len(s) THEN len.err = "nil" /\ len.next = q + 3 /\ IntOf(len) = n
        ELSE len = Err("ErrUnexpectedEOF") /\ len.err = "ErrUnexpectedEOF"
    BY Zenon, <1>5, <1>6, ReadInt
  <2> QED
    BY Zenon, <1>5, <2>1
<1>9. r = IF p + k <= Len(s) THEN Ok(Array(vs), p + k + 1) ELSE Err("ErrUnexpectedEOF")
  <2>1. CASE ~(p + 3 <= Len(s))
    <3>1. "ErrUnexpectedEOF" # "nil" /\ ~(p + k <= Len(s))
      BY <2>1, SeqLen DEF k
    <3>2. r = len
      BY Zenon, <1>8, <2>1, <3>1, ArrayIs
    <3> QED
      BY Zenon, <1>8, <2>1, <3>1, <3>2
  <2>2. CASE p + 3 <= Len(s)
    <3> DEFINE x == CHOOSE e : IsElems(e, n, from, f)
    <3>1. IsElems(x, n, from, f)
      BY Zenon, ElemsExist
    <3>2. r = (CHOOSE e : IsElems(e, IntOf(len), len.next, f))[IntOf(len)]
      <4>1. len.err = "nil" /\ ~(IntOf(len) < 0)
        BY Zenon, <1>5, <1>8, <2>2
      <4> QED
        BY Zenon, <4>1, ArrayIs
    <3>3. r = x[n]
      BY Zenon, <1>8, <2>2, <3>2
    <3> HIDE DEF x
    <3>4. from <= Len(s) + 1
      BY <2>2, SeqLen DEF from
    <3>5. x[n] = SoFar(s, from, E, vs, n)
      <4>1. from \in Nat /\ from >= 1 /\ Holds(s, from, Concat(E, n)) /\ n \in 0 .. n
        BY Zenon, <1>5, <1>6
      <4>2. Elements(s, from, f, vs, n, E)
        BY Zenon, <3>4, <4>1 DEF Elements
      <4>3. \A i \in 0 .. n : x[i] = SoFar(s, from, E, vs, i)
        BY <3>1, <4>2, ElemsDecoded
      <4> QED
        BY Zenon, <4>1, <4>3
    <3>6. SubSeq(vs, 1, n) = vs
      BY Zenon, Beginnings DEF EncodedAs
    <3>7. from + c <= Len(s) + 1 <=> p + k <= Len(s)
      BY SeqLen DEF from, k
    <3> QED
      BY Zenon, <1>5, <3>3, <3>5, <3>6, <3>7 DEF SoFar
  <2> QED
    BY Zenon, <2>1, <2>2
<1>10. Behind(s, p, f, Array(vs), k)
  BY Zenon, <1>7, <1>9 DEF Behind
<1>11. k \in Nat /\ c + 4 = k + 1
  BY Zenon, <1>5
<1> QED
  BY <1>10, <1>11, Framed

\* The null array.
LEMMA DecodeNullArray ==
  ASSUME NEW s \in Seq(Byte), NEW p \in Nat, p >= 1, NEW f, Holds(s, p, <<"*">> \o NumLine(-1))
  PROVE  decodeFrame(s, p, f) = Expected(s, p, NullArray, 4)
<1> DEFINE q == p + 1
           len == readInt(s, q)
           r == decodeArray(s, q, f)
<1>1. "*" \in Byte /\ -1 \in DOMAIN Numeral /\ NumLine(-1) \in Seq(Byte)
  BY Zenon, NumLineFacts, RespAssumption
<1>2. (p <= Len(s) => s[p] = "*") /\ Holds(s, q, NumLine(-1))
  BY Zenon, <1>1, FirstByte
<1>3. q \in Nat /\ q >= 1 /\ q + 2 = p + 3 /\ q + 3 = p + 3 + 1 /\ 3 \in Nat /\ -1 < 0
      /\ "ErrUnexpectedEOF" # "nil"
  OBVIOUS
<1>4. p <= Len(s) => decodeFrame(s, p, f) = r
  <2>1. p <= Len(s) => s[p] = "*" /\ ~(p > Len(s)) /\ s[p] \notin {"+", "-", ":", "$"}
    BY <1>2, SeqLen
  <2> QED
    BY Zenon, <2>1 DEF decodeFrame
<1> HIDE DEF q
<1>5. IF p + 3 <= Len(s) THEN len.err = "nil" /\ len.next = p + 3 + 1 /\ IntOf(len) < 0
      ELSE len = Err("ErrUnexpectedEOF") /\ len.err # "nil"
  BY Zenon, <1>1, <1>2, <1>3, ReadInt
<1>6. r = IF p + 3 <= Len(s) THEN Ok(NullArray, p + 3 + 1) ELSE Err("ErrUnexpectedEOF")
  BY Zenon, <1>5, ArrayIs
<1>7. Behind(s, p, f, NullArray, 3)
  BY Zenon, <1>4, <1>6 DEF Behind
<1>8. 3 \in Nat /\ 4 = 3 + 1
  OBVIOUS
<1> QED
  BY <1>7, <1>8, Framed

-----------------------------------------------------------------------------
(* The codec.                                                              *)

\* What there is to know of a frame v that is sent as e.
CodedFrame(v, e) ==
  /\ e \in Seq(Byte) /\ Len(e) \in Nat \ {0}
  /\ \A s \in Seq(Byte) : \A f :
       Decoder(s, f) /\ Holds(s, 1, e) =>
         decodeFrame(s, 1, f) = Expected(s, 1, v, Len(e))

\* A frame without elements is no array.
LEMMA FlatType == \A v : IsFlat(v) => v.type # "*"
<1> SUFFICES ASSUME NEW v, IsFlat(v) PROVE v.type # "*"
  BY Zenon
<1>1. CASE v = NullBulk
  <2>1. v = Val("$", Yes, <<>>, <<>>)
    BY Zenon, <1>1, NullForms
  <2> QED
    BY Zenon, <2>1 DEF Val
<1>2. CASE v = Bulk(v.text)
  <2>1. PICK t : v = Bulk(t)
    BY Zenon, <1>2
  <2>2. v = Val("$", No, t, <<>>)
    BY Zenon, <2>1, ValueForms
  <2> QED
    BY Zenon, <2>2 DEF Val
<1>3. CASE \E n \in DOMAIN Numeral : v = Integer(n)
  <2>1. PICK n : v = Integer(n)
    BY Zenon, <1>3
  <2>2. v = Val(":", No, <<Numeral[n]>>, <<>>)
    BY Zenon, <2>1, ValueForms
  <2> QED
    BY Zenon, <2>2 DEF Val
<1>4. CASE v.type \in {"+", "-"}
  BY Zenon, <1>4
<1> QED
  BY Zenon, <1>1, <1>2, <1>3, <1>4 DEF IsFlat

\* Frames without elements come back as they were sent.
LEMMA CodedFlat ==
  ASSUME NEW v, IsFlat(v)
  PROVE  CodedFrame(v, Encode(v))
<1>1. Encode(v) = EncodeFlat(v)
  BY Zenon, FlatType DEF Encode
<1>2. FlatFrame(v, Encode(v))
  BY Zenon, <1>1, FlatFrames
<1>3. 1 \in Nat /\ 1 >= 1
  OBVIOUS
<1> QED
  BY Zenon, <1>2, <1>3 DEF FlatFrame, CodedFrame

\* So does the null array,
LEMMA CodedNullArray == CodedFrame(NullArray, Encode(NullArray))
<1> DEFINE v == NullArray
           e == <<"*">> \o NumLine(-1)
<1>1. v.type = "*" /\ v.null = Yes
  BY NullForms, FieldFacts
<1>2. "*" \in Byte /\ -1 \in DOMAIN Numeral
  BY Zenon, RespAssumption
<1>3. Encode(v) = Header("*", -1)
  BY Zenon, <1>1 DEF Encode, Yes
<1>4. Header("*", -1) = e
  BY Zenon, <1>2, HeaderParts
<1>6. e \in Seq(Byte) /\ Len(e) = 4
  <2>1. NumLine(-1) \in Seq(Byte) /\ Len(NumLine(-1)) = 3
    BY Zenon, <1>2, NumLineFacts
  <2>2. Len(e) = 3 + 1 /\ e \in Seq(Byte)
    BY Zenon, <1>2, <2>1, FirstByte
  <2> QED
    BY <2>2
<1>7. Len(e) \in Nat \ {0} /\ 1 \in Nat /\ 1 >= 1
  BY <1>6
<1>8. ASSUME NEW s \in Seq(Byte), NEW f, Holds(s, 1, e)
      PROVE  decodeFrame(s, 1, f) = Expected(s, 1, v, Len(e))
  BY Zenon, <1>6, <1>7, <1>8, DecodeNullArray
<1>9. CodedFrame(v, e)
  BY Zenon, <1>6, <1>7, <1>8 DEF CodedFrame
<1> QED
  BY Zenon, <1>3, <1>4, <1>9

\* and an array of them.
LEMMA CodedArray ==
  ASSUME NEW S, NEW vs \in Seq(S), Len(vs) \in DOMAIN Numeral, \A i \in DOMAIN vs : IsFlat(vs[i])
  PROVE  CodedFrame(Array(vs), Encode(Array(vs)))
<1>1. PICK n \in Nat : n = Len(vs)
  BY Zenon, SeqLen
<1> DEFINE v == Array(vs)
           E == [i \in DOMAIN vs |-> EncodeFlat(vs[i])]
           e == <<"*">> \o (NumLine(n) \o Concat(E, n))
<1>2. v.type = "*" /\ v.null = No /\ v.elems = vs
  <2>1. v = Val("*", No, <<>>, vs)
    BY Zenon, ValueForms
  <2> QED
    BY <2>1 DEF Val
<1>3. n \in DOMAIN Numeral /\ DOMAIN vs = 1 .. n
  BY Zenon, <1>1, SeqLen
<1>4. Encode(v) = Header("*", n) \o Concat(E, n)
  BY Zenon, <1>1, <1>2 DEF Encode, No
<1>6. \A k \in 1 .. n : FlatFrame(vs[k], E[k])
  BY Zenon, <1>3, FlatFrames
<1> HIDE DEF E
<1>7. Concat(E, n) \in Seq(Byte)
  <2>1. n \in 0 .. n /\ \A j \in 1 .. n : E[j] \in Seq(Byte)
    BY <1>6 DEF FlatFrame
  <2> QED
    BY Zenon, <2>1, ConcatType
<1>8. PICK c \in Nat : c = Len(Concat(E, n))
  BY Zenon, <1>7, SeqLen
<1>9. "*" \in Byte /\ <<"*">> \in Seq(Byte) /\ NumLine(n) \in Seq(Byte) /\ Len(NumLine(n)) = 3
  <2>1. "*" \in Byte
    BY Zenon, RespAssumption
  <2>2. <<"*">> \in Seq(Byte)
    BY <2>1
  <2> QED
    BY Zenon, <1>3, <2>1, <2>2, NumLineFacts
<1>10. Encode(v) = e
  <2>1. Header("*", n) = <<"*">> \o NumLine(n)
    BY Zenon, <1>3, <1>9, HeaderParts
  <2>2. Joined(<<"*">>, NumLine(n), Concat(E, n))
    BY Zenon, <1>7, <1>9, Parts3
  <2> QED
    BY Zenon, <1>4, <2>1, <2>2 DEF Joined
<1>11. e \in Seq(Byte) /\ Len(e) = c + 4
  <2> DEFINE w == NumLine(n) \o Concat(E, n)
  <2>1. w \in Seq(Byte) /\ Len(w) = Len(NumLine(n)) + Len(Concat(E, n))
    BY Zenon, <1>7, <1>9, JoinFacts
  <2>2. e \in Seq(Byte) /\ Len(e) = Len(w) + 1
    BY Zenon, <1>9, <2>1, FirstByte
  <2>3. Len(e) = 3 + c + 1
    BY Zenon, <1>8, <1>9, <2>1, <2>2
  <2>4. 3 + c + 1 = c + 4
    OBVIOUS
  <2> QED
    BY Zenon, <2>2, <2>3, <2>4
<1>12. Len(e) \in Nat \ {0} /\ 1 \in Nat /\ 1 >= 1
  BY <1>11
<1>13. ASSUME NEW s \in Seq(Byte), NEW f, Decoder(s, f), Holds(s, 1, e)
       PROVE  decodeFrame(s, 1, f) = Expected(s, 1, v, Len(e))
  <2>1. decodeFrame(s, 1, f) = Expected(s, 1, Array(vs), c + 4)
    <3>1. EncodedAs(vs, n, E) /\ n \in DOMAIN Numeral
      BY Zenon, <1>1, <1>3, <1>6 DEF EncodedAs
    <3>2. 1 \in Nat /\ 1 >= 1 /\ c = Len(Concat(E, n))
      BY Zenon, <1>8, <1>12
    <3> QED
      BY <1>13, <3>1, <3>2, DecodeArrayFrame
  <2> QED
    BY Zenon, <1>11, <2>1
<1>14. CodedFrame(v, e)
  BY Zenon, <1>11, <1>12, <1>13 DEF CodedFrame
<1> QED
  BY Zenon, <1>10, <1>14

\* Every frame that goes over the wire comes back as it was sent.
LEMMA CodedFrames == \A v : IsFrame(v) => CodedFrame(v, Encode(v))
<1> SUFFICES ASSUME NEW v, IsFrame(v) PROVE CodedFrame(v, Encode(v))
  BY Zenon
<1>1. CASE IsFlat(v)
  BY Zenon, <1>1, CodedFlat
<1>2. CASE v = NullArray
  BY Zenon, <1>2, CodedNullArray
<1>3. CASE /\ v = Array(v.elems) /\ IsSeq(v.elems)
           /\ Len(v.elems) \in DOMAIN Numeral /\ \A i \in DOMAIN v.elems : IsFlat(v.elems[i])
  <2>1. PICK vs : /\ v = Array(vs) /\ vs \in Seq({vs[i] : i \in DOMAIN vs})
                  /\ Len(vs) \in DOMAIN Numeral /\ \A i \in DOMAIN vs : IsFlat(vs[i])
    BY Zenon, <1>3 DEF IsSeq
  <2> QED
    BY Zenon, <2>1, CodedArray
<1> QED
  BY Zenon, <1>1, <1>2, <1>3 DEF IsFrame

\* Decode on a stream that holds the frame v, as far as it goes: v, when all of it is
\* there, and otherwise the right end of the stream.
LEMMA DecodeFrame ==
  ASSUME NEW v, IsFrame(v), NEW s \in Seq(Byte), Holds(s, 1, Encode(v))
  PROVE  /\ Encode(v) \in Seq(Byte) /\ Len(Encode(v)) \in Nat \ {0}
         /\ Decode(s) = IF Len(Encode(v)) <= Len(s) THEN Ok(v, Len(Encode(v)) + 1)
                        ELSE Err(IF Len(s) = 0 THEN "EOF" ELSE "ErrUnexpectedEOF")
<1>1. CodedFrame(v, Encode(v))
  BY Zenon, CodedFrames
<1>2. PICK n \in Nat, m \in Nat : n = Len(Encode(v)) /\ m = Len(s)
  BY Zenon, <1>1, SeqLen DEF CodedFrame
<1>3. PICK f : Decode(s) = decodeFrame(s, 1, f) /\ Decoder(s, f)
  BY Zenon, DecodeIs
<1>4. Decode(s) = Expected(s, 1, v, n)
  BY Zenon, <1>1, <1>2, <1>3 DEF CodedFrame
<1>5. (1 + n - 1 <= m <=> n <= m) /\ 1 + n = n + 1 /\ (1 > m <=> m = 0)
  OBVIOUS
<1>6. Decode(s) = IF n <= m THEN Ok(v, n + 1) ELSE Err(IF m = 0 THEN "EOF" ELSE "ErrUnexpectedEOF")
  BY Zenon, <1>2, <1>4, <1>5 DEF Expected
<1> QED
  BY Zenon, <1>1, <1>2, <1>6 DEF CodedFrame

\* Decode on what does not begin like a frame.
LEMMA DecodeJunk ==
  ASSUME NEW s \in Seq(Byte), s # <<>>, s[1] \notin {"+", "-", ":", "$", "*"}
  PROVE  Decode(s) = Err("protocol")
<1>1. ~(1 > Len(s))
  OBVIOUS
<1>2. PICK f : Decode(s) = decodeFrame(s, 1, f)
  BY Zenon, DecodeIs
<1> QED
  BY Zenon, <1>1, <1>2 DEF decodeFrame

\* A sequence holds what it begins with.
LEMMA HoldsItself ==
  ASSUME NEW t \in Seq(Byte), NEW u \in Seq(Byte)
  PROVE  Holds(t \o u, 1, t)
  BY DEF Holds

\* A beginning of t holds t, as far as it goes.
LEMMA HoldsStart ==
  ASSUME NEW t \in Seq(Byte), NEW n \in 0 .. Len(t)
  PROVE  SubSeq(t, 1, n) \in Seq(Byte) /\ Len(SubSeq(t, 1, n)) = n /\ Holds(SubSeq(t, 1, n), 1, t)
<1>1. SubSeq(t, 1, n) \in Seq(Byte) /\ Len(SubSeq(t, 1, n)) = n /\ \A i \in 1 .. n : SubSeq(t, 1, n)[i] = t[i]
  OBVIOUS
<1>2. \A i \in 1 .. Len(t) : 1 + i - 1 = i /\ (i <= n => i \in 1 .. n)
  BY SeqLen
<1> QED
  BY Zenon, <1>1, <1>2 DEF Holds

\* The codec.  A frame that was encoded is decoded to what it was, whatever its
\* payloads look like and whatever follows it, and the next one begins where it
\* ends.  A stream that is cut off anywhere inside it is told from one that ends
\* before it (Encode of encoder.go, Decode of decoder.go).
THEOREM Codec ==
  ASSUME NEW v, IsFrame(v)
  PROVE  /\ \A t \in Seq(Byte) : Decode(Encode(v) \o t) = Ok(v, Len(Encode(v)) + 1)
         /\ \A n \in 0 .. Len(Encode(v)) - 1 :
              Decode(SubSeq(Encode(v), 1, n)) = Err(IF n = 0 THEN "EOF" ELSE "ErrUnexpectedEOF")
<1> DEFINE e == Encode(v)
<1>1. e \in Seq(Byte) /\ Len(e) \in Nat \ {0}
  BY Zenon, CodedFrames DEF CodedFrame
<1> HIDE DEF e
<1>2. ASSUME NEW t \in Seq(Byte) PROVE Decode(e \o t) = Ok(v, Len(e) + 1)
  <2>1. e \o t \in Seq(Byte) /\ Len(e) <= Len(e \o t)
    BY <1>1
  <2>2. Holds(e \o t, 1, e)
    BY Zenon, <1>1, HoldsItself
  <2> QED
    BY Zenon, <2>1, <2>2, DecodeFrame DEF e
<1>3. ASSUME NEW n \in 0 .. Len(e) - 1
      PROVE  Decode(SubSeq(e, 1, n)) = Err(IF n = 0 THEN "EOF" ELSE "ErrUnexpectedEOF")
  <2>1. n \in 0 .. Len(e) /\ ~(Len(e) <= n)
    BY <1>1
  <2>2. SubSeq(e, 1, n) \in Seq(Byte) /\ Len(SubSeq(e, 1, n)) = n /\ Holds(SubSeq(e, 1, n), 1, e)
    BY Zenon, <1>1, <2>1, HoldsStart
  <2> QED
    BY Zenon, <2>1, <2>2, DecodeFrame DEF e
<1> QED
  BY Zenon, <1>2, <1>3 DEF e

\* Where t stands in s, it stands in a part of s that begins there.
LEMMA HoldsPart ==
  ASSUME NEW s \in Seq(Byte), NEW a \in Nat, NEW j \in Nat, a <= j, j <= Len(s),
         NEW t \in Seq(Byte), Holds(s, a + 1, t)
  PROVE  /\ SubSeq(s, a + 1, j) \in Seq(Byte) /\ Len(SubSeq(s, a + 1, j)) = j - a
         /\ Holds(SubSeq(s, a + 1, j), 1, t)
<1>1. PICK m \in Nat, n \in Nat : m = Len(s) /\ n = Len(t)
  BY Zenon, SeqLen
<1> DEFINE u == SubSeq(s, a + 1, j)
<1>2. u \in Seq(Byte) /\ Len(u) = j - a /\ \A i \in 1 .. j - a : u[i] = s[a + i]
  BY <1>1
<1> HIDE DEF u
<1>3. ASSUME NEW i \in 1 .. n, 1 + i - 1 <= Len(u) PROVE u[1 + i - 1] = t[i]
  <2>1. i \in 1 .. j - a /\ a + 1 + i - 1 = a + i /\ a + i <= m /\ 1 + i - 1 = i
    BY <1>1, <1>2, <1>3
  <2>2. s[a + i] = t[i]
    <3>1. a + 1 + i - 1 <= Len(s) => s[a + 1 + i - 1] = t[i]
      BY Zenon, <1>1, <1>3 DEF Holds
    <3> QED
      BY Zenon, <1>1, <2>1, <3>1
  <2> QED
    BY Zenon, <1>2, <2>1, <2>2
<1>4. Holds(u, 1, t)
  BY Zenon, <1>1, <1>3 DEF Holds
<1> QED
  BY Zenon, <1>2, <1>4 DEF u

\* b is the stream of the frames vs, encoded as E, and of something else behind them.
Stream(b, vs, N, E, junk) ==
  /\ \A i \in 1 .. N : IsFrame(vs[i]) /\ E[i] = Encode(vs[i])
  /\ junk \in Seq(Byte) /\ (junk # <<>> => junk[1] \notin {"+", "-", ":", "$", "*"})
  /\ b = Concat(E, N) \o junk

\* The frames of a stream.  Decode, called where frame k ends, yields frame k + 1 and
\* where it ends as soon as all of it has come.  Before that it says whether the
\* stream ends there or inside the frame, and behind the last frame it refuses what
\* does not begin like one.
THEOREM Framing ==
  ASSUME NEW N \in Nat, NEW vs, NEW E, NEW junk, NEW b, Stream(b, vs, N, E, junk),
         NEW k \in 0 .. N, NEW a \in Nat, a = Len(Concat(E, k)), NEW j \in Nat, a <= j, j <= Len(b)
  PROVE  /\ k < N /\ Len(Concat(E, k + 1)) <= j =>
              Decode(SubSeq(b, a + 1, j)) = Ok(vs[k + 1], Len(Concat(E, k + 1)) - a + 1)
         /\ k < N /\ ~(Len(Concat(E, k + 1)) <= j) =>
              Decode(SubSeq(b, a + 1, j)) = Err(IF j = a THEN "EOF" ELSE "ErrUnexpectedEOF")
         /\ k = N => Decode(SubSeq(b, a + 1, j)) = Err(IF j = a THEN "EOF" ELSE "protocol")
<1>0. /\ \A i \in 1 .. N : IsFrame(vs[i]) /\ E[i] = Encode(vs[i])
      /\ junk \in Seq(Byte) /\ (junk # <<>> => junk[1] \notin {"+", "-", ":", "$", "*"})
      /\ b = Concat(E, N) \o junk
  BY Zenon DEF Stream
<1>1. \A i \in 1 .. N : E[i] \in Seq(Byte) /\ Len(E[i]) \in Nat \ {0}
  BY Zenon, <1>0, CodedFrames DEF CodedFrame
<1>2. Concat(E, N) \in Seq(Byte)
  <2>1. N \in 0 .. N
    OBVIOUS
  <2> QED
    BY Zenon, <1>1, <2>1, ConcatType
<1>3. b \in Seq(Byte) /\ Holds(b, 1, Concat(E, N)) /\ Holds(b, 1 + Len(Concat(E, N)), junk)
  <2>1. b \in Seq(Byte)
    BY <1>0, <1>2
  <2>2. Holds(b, 1, b)
    BY <2>1 DEF Holds
  <2> QED
    BY Zenon, <1>0, <1>2, <2>1, <2>2, HoldsParts
<1>4. CASE k < N
  <2>1. PICK k1 \in 1 .. N : k1 = k + 1 /\ k1 - 1 = k
    BY <1>4
  <2>2. Holds(b, 1 + a, E[k1])
    <3>1. Holds(b, 1 + Len(Concat(E, k1 - 1)), E[k1])
      BY Zenon, <1>1, <1>3, ConcatHolds
    <3> QED
      BY Zenon, <2>1, <3>1
  <2>3. PICK e \in Nat : e = Len(E[k1]) /\ Len(Concat(E, k1)) = a + e
    <3>1. PICK e \in Nat : e = Len(E[k1])
      BY Zenon, <1>1
    <3>2. \A i \in 1 .. N : Len(Concat(E, i)) = Len(Concat(E, i - 1)) + Len(E[i])
      BY Zenon, <1>1, ConcatLen
    <3>3. Len(Concat(E, k1)) = Len(Concat(E, k1 - 1)) + Len(E[k1])
      BY Zenon, <3>2
    <3> QED
      BY Zenon, <2>1, <3>1, <3>3
  <2> DEFINE u == SubSeq(b, a + 1, j)
  <2>4. u \in Seq(Byte) /\ Len(u) = j - a /\ Holds(u, 1, E[k1])
    <3>1. 1 + a = a + 1
      OBVIOUS
    <3>2. Holds(b, a + 1, E[k1])
      BY Zenon, <2>2, <3>1
    <3> QED
      BY Zenon, <1>1, <1>3, <2>1, <3>2, HoldsPart
  <2> HIDE DEF u
  <2>5. Decode(u) = IF e <= Len(u) THEN Ok(vs[k1], e + 1) ELSE Err(IF Len(u) = 0 THEN "EOF" ELSE "ErrUnexpectedEOF")
    <3>1. IsFrame(vs[k1]) /\ E[k1] = Encode(vs[k1])
      BY Zenon, <1>0
    <3> QED
      BY Zenon, <2>3, <2>4, <3>1, DecodeFrame
  <2>6. (e <= Len(u) <=> a + e <= j) /\ (Len(u) = 0 <=> j = a) /\ a + e - a + 1 = e + 1
    BY <2>4
  <2>7. Decode(u) = IF a + e <= j THEN Ok(vs[k1], a + e - a + 1) ELSE Err(IF j = a THEN "EOF" ELSE "ErrUnexpectedEOF")
    BY Zenon, <2>5, <2>6
  <2>8. ~(k = N)
    BY <1>4
  <2>9. /\ Len(Concat(E, k1)) <= j => Decode(u) = Ok(vs[k1], Len(Concat(E, k1)) - a + 1)
        /\ ~(Len(Concat(E, k1)) <= j) => Decode(u) = Err(IF j = a THEN "EOF" ELSE "ErrUnexpectedEOF")
    BY <2>3, <2>7
  <2> QED
    BY Zenon, <2>1, <2>8, <2>9 DEF u
<1>5. CASE k = N
  <2> DEFINE u == SubSeq(b, a + 1, j)
  <2>1. u \in Seq(Byte) /\ Len(u) = j - a /\ Holds(u, 1, junk)
    <3>1. 1 + a = a + 1
      OBVIOUS
    <3>2. Holds(b, a + 1, junk)
      BY Zenon, <1>3, <1>5, <3>1
    <3> QED
      BY Zenon, <1>0, <1>3, <3>2, HoldsPart
  <2> HIDE DEF u
  <2>2. ASSUME u # <<>> PROVE u[1] \notin {"+", "-", ":", "$", "*"} /\ j # a
    <3>1. Len(b) = a + Len(junk) /\ Len(junk) \in Nat
      BY <1>0, <1>2, <1>5
    <3>2. j - a >= 1
      BY <2>1, <2>2
    <3>3. 1 \in 1 .. Len(junk) /\ 1 + 1 - 1 <= Len(u) /\ 1 + 1 - 1 = 1
      BY <2>1, <3>1, <3>2
    <3>4. u[1] = junk[1] /\ junk # <<>>
      <4>1. u[1 + 1 - 1] = junk[1]
        BY Zenon, <2>1, <3>3 DEF Holds
      <4> QED
        BY <3>3, <4>1
    <3> QED
      BY <1>0, <3>2, <3>4
  <2>3. ASSUME u = <<>> PROVE j = a
    <3>1. Len(u) = 0
      BY Zenon, <2>3
    <3> QED
      BY <2>1, <3>1
  <2>4. Decode(<<>>) = Err("EOF")
    <3>1. <<>> \in Seq(Byte) /\ 1 > Len(<<>>)
      OBVIOUS
    <3>2. PICK f : Decode(<<>>) = decodeFrame(<<>>, 1, f)
      BY Zenon, <3>1, DecodeIs
    <3> QED
      BY Zenon, <3>1, <3>2 DEF decodeFrame
  <2> HIDE DEF u
  <2>5. Decode(u) = Err(IF j = a THEN "EOF" ELSE "protocol")
    BY Zenon, <2>1, <2>2, <2>3, <2>4, DecodeJunk
  <2>6. ~(k < N)
    BY <1>5
  <2> QED
    BY Zenon, <1>5, <2>5, <2>6 DEF u
<1>6. k < N \/ k = N
  OBVIOUS
<1> QED
  BY Zenon, <1>4, <1>5, <1>6
=============================================================================
