------------------------------- MODULE MCServe ------------------------------
(* Small instances of Serve for TLC. *)
EXTENDS Serve

CONSTANTS c1, c2, tcp, unix

Numerals == [n \in -1 .. 4 |->
              CASE n = -1 -> "-1" [] n = 0 -> "0" [] n = 1 -> "1"
                [] n = 2 -> "2" [] n = 3 -> "3" [] OTHER -> "4"]

AllBytes == {CR, LF, "+", "-", ":", "$", "*", "!", "SET", "QUIT"}
              \cup {Numerals[n] : n \in DOMAIN Numerals}

\* A write whose payload looks like the end of a line, then something that is not
\* RESP, cut in every part of a header, a name and a payload; and a request that is
\* no command, followed by QUIT.
Scripts == [c \in Conns |->
  IF c = c1
  THEN [frames |-> <<Array(<<Bulk(<<"SET">>), Bulk(CRLF)>>)>>, junk |-> <<"!">>,
        dials |-> tcp, cuts |-> (1 .. 5) \cup {9, 12} \cup (15 .. 20)]
  ELSE [frames |-> <<SimpleString(<<>>), Array(<<Bulk(<<"QUIT">>)>>)>>, junk |-> <<>>,
        dials |-> unix, cuts |-> {3, 14}]]
=============================================================================
