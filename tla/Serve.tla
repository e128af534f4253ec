-------------------------------- MODULE Serve -------------------------------
(***************************************************************************)
(* The life of a server: Serve of internal/server/server.go with its       *)
(* accept loops, the request loop of every connection (handle), its        *)
(* background goroutines, and the shutdown that a signal starts in         *)
(* cmd/server/main.go.                                                     *)
(*                                                                         *)
(* A client sends the bytes of its script, in pieces and perhaps not all   *)
(* of them; the request loop decodes them with the codec of module Resp.   *)
(* Of the log only matters here who may use it while it is open (module    *)
(* Aof has the rest).                                                      *)
(***************************************************************************)
EXTENDS Resp, FiniteSets

CONSTANTS
  Listeners,    \* the listeners: TCP, a Unix socket
  Conns,        \* client connections
  Script,       \* Script[c]: the frames c means to send, bytes that are not RESP after
                \* them, the listener it dials, and where its bytes may be cut
  Background,   \* goroutines that run until the context is cancelled ...
  Rewriter,     \* ... of which this one, runAutoRewrite, uses the log
  MaxRewrites,  \* bound: rewrites in a behaviour
  None

\* The frames of c as they go over the wire, all that c sends, where frame i of it
\* ends, and what Decode makes of the bytes after the first i and up to the first j.
Encoded == [c \in Conns |-> [i \in DOMAIN Script[c].frames |-> Encode(Script[c].frames[i])]]

Bytes == [c \in Conns |-> Concat(Encoded[c], Len(Script[c].frames)) \o Script[c].junk]

FrameEnd == [c \in Conns |-> [i \in 0 .. Len(Script[c].frames) |-> Len(Concat(Encoded[c], i))]]

Decoded == [c \in Conns |->
  [i \in 0 .. Len(Bytes[c]) |-> [j \in 0 .. Len(Bytes[c]) |-> Decode(SubSeq(Bytes[c], i + 1, j))]]]

\* The states of a connection, when it is not in a listener's backlog.
Stages == {"none", "refused", "accepted", "read", "apply", "append", "reply", "closing", "closed"}

ASSUME ServeAssumption ==
  /\ \A c \in Conns :
       /\ Script[c].dials \in Listeners /\ Script[c].cuts \subseteq 1 .. Len(Bytes[c])
       /\ IsSeq(Script[c].frames)
       /\ \A i \in DOMAIN Script[c].frames : IsFrame(Script[c].frames[i])
       /\ Script[c].junk \in Seq(Byte)
       /\ Script[c].junk # <<>> => Script[c].junk[1] \notin {"+", "-", ":", "$", "*"}
  /\ Listeners \cap Stages = {}
  /\ Rewriter \in Background /\ Rewriter \notin Conns
  /\ None \notin Conns \cup Background
  /\ MaxRewrites \in Nat

VARIABLES
  phase,      \* where Serve is
  cancelled,  \* the context
  open,       \* the listeners that are open
  acceptor,   \* acceptor[l]: the connection an accept loop has in hand
  accepting,  \* the accept loops that run: acceptWG
  connWG,     \* the count of connection handlers
  logOpen,    \* the append-only file is open
  writeMu,    \* the holder of the server's write lock
  running,    \* the background goroutines that run
  rewrites,   \* rewrites so far
  conn,       \* conn[c]: "none", a listener's backlog, or the state of its handler
  client,     \* client[c]: the peer, "there" or "left"
  sent,       \* sent[c]: bytes sent by the client
  taken,      \* taken[c]: bytes consumed by the handler
  served,     \* served[c]: the requests served
  ended       \* ended[c]: why the handler returned

main  == <<phase, logOpen>>
loops == <<open, acceptor, accepting, connWG>>
back  == <<writeMu, running, rewrites>>
io    == <<client, sent, taken, served, ended>>
vars  == <<main, cancelled, loops, back, conn, io>>

Init ==
  /\ phase = "loading" /\ cancelled = FALSE /\ logOpen = FALSE
  /\ open = Listeners /\ acceptor = [l \in Listeners |-> None] /\ accepting = {}
  /\ connWG = 0 /\ writeMu = None /\ running = {} /\ rewrites = 0
  /\ conn = [c \in Conns |-> "none"] /\ client = [c \in Conns |-> "there"]
  /\ sent = [c \in Conns |-> 0] /\ taken = [c \in Conns |-> 0]
  /\ served = [c \in Conns |-> <<>>] /\ ended = [c \in Conns |-> "no"]

-----------------------------------------------------------------------------
(* Serve.                                                                  *)

\* Whoever is in the backlog of a listener that is closed is refused.
Refuse(ls) ==
  LET out == {c \in Conns : conn[c] \in ls}
  IN  /\ conn' = [c \in Conns |-> IF c \in out THEN "refused" ELSE conn[c]]
      /\ sent' = [c \in Conns |-> IF c \in out THEN 0 ELSE sent[c]]
      /\ client' = [c \in Conns |-> IF c \in out THEN "left" ELSE client[c]]

\* main opens the listeners first.  The log is replayed and opened before anyone
\* is accepted, then the goroutines start; an error ends Serve, and the process.
Load ==
  /\ phase = "loading"
  /\ \/ /\ phase' = "serving" /\ logOpen' = TRUE
        /\ running' = Background /\ accepting' = Listeners
        /\ UNCHANGED <<open, conn, sent, client>>
     \/ /\ phase' = "failed" /\ open' = {} /\ Refuse(Listeners)
        /\ UNCHANGED <<logOpen, running, accepting>>
  /\ UNCHANGED <<cancelled, acceptor, connWG, writeMu, rewrites, taken, served, ended>>

\* SIGINT or SIGTERM cancels the context.
Signal ==
  /\ ~cancelled
  /\ cancelled' = TRUE
  /\ UNCHANGED <<main, loops, back, conn, io>>

\* Mutant: closes one listener.
CloseListener_One(l) ==
  /\ cancelled /\ phase = "serving" /\ open = Listeners
  /\ open' = open \ {l}
  /\ Refuse({l})
  /\ UNCHANGED <<main, cancelled, acceptor, accepting, connWG, back, taken, served, ended>>

\* The shutdown goroutine closes the listeners one by one.
CloseListener(l) ==
  /\ cancelled /\ phase \notin {"loading", "failed"} /\ l \in open
  /\ open' = open \ {l}
  /\ Refuse({l})
  /\ UNCHANGED <<main, cancelled, acceptor, accepting, connWG, back, taken, served, ended>>

\* An accept loop takes a connection (errors other than ErrClosed change nothing),
Accept(l, c) ==
  /\ l \in accepting \cap open /\ acceptor[l] = None /\ conn[c] = l
  /\ acceptor' = [acceptor EXCEPT ![l] = c]
  /\ conn' = [conn EXCEPT ![c] = "accepted"]
  /\ UNCHANGED <<main, cancelled, open, accepting, connWG, back, io>>

\* Mutant: does not count the handler.
Spawn_NoAdd(l) ==
  LET c == acceptor[l]
  IN  /\ c # None
      /\ acceptor' = [acceptor EXCEPT ![l] = None]
      /\ conn' = [conn EXCEPT ![c] = "read"]
      /\ UNCHANGED <<main, cancelled, open, accepting, connWG, back, io>>

\* counts it and starts its handler,
Spawn(l) ==
  LET c == acceptor[l]
  IN  /\ c # None
      /\ connWG' = connWG + 1
      /\ acceptor' = [acceptor EXCEPT ![l] = None]
      /\ conn' = [conn EXCEPT ![c] = "read"]
      /\ UNCHANGED <<main, cancelled, open, accepting, back, io>>

\* and ends when its listener is closed.
AcceptEnds(l) ==
  /\ l \in accepting /\ l \notin open /\ acceptor[l] = None
  /\ accepting' = accepting \ {l}
  /\ UNCHANGED <<main, cancelled, open, acceptor, connWG, back, conn, io>>

\* Mutant: waits for one of the accept loops.
AcceptWait_One ==
  /\ phase = "serving" /\ accepting # Listeners
  /\ phase' = "draining"
  /\ UNCHANGED <<logOpen, cancelled, loops, back, conn, io>>

\* acceptWG.Wait: no further connection will come.
AcceptWait ==
  /\ phase = "serving" /\ accepting = {}
  /\ phase' = "draining"
  /\ UNCHANGED <<logOpen, cancelled, loops, back, conn, io>>

\* connWG.Wait: the connections drain.
ConnWait ==
  /\ phase = "draining" /\ connWG = 0
  /\ phase' = "stopping"
  /\ UNCHANGED <<logOpen, cancelled, loops, back, conn, io>>

\* The background goroutines are waited for, and the deferred aof.Close flushes
\* and syncs the log.
Return ==
  /\ phase = "stopping" /\ running = {}
  /\ phase' = "returned" /\ logOpen' = FALSE
  /\ UNCHANGED <<cancelled, loops, back, conn, io>>

-----------------------------------------------------------------------------
(* The background goroutines.                                              *)

\* rewriteAOF holds writeMu from the snapshot to the swap of the files.
rewriteAOF ==
  /\ Rewriter \in running /\ writeMu = None /\ rewrites < MaxRewrites
  /\ writeMu' = Rewriter
  /\ rewrites' = rewrites + 1
  /\ UNCHANGED <<main, cancelled, loops, running, conn, io>>


\* It is released whether or not the rewrite worked.
RewriteEnds ==
  /\ writeMu = Rewriter
  /\ writeMu' = None
  /\ UNCHANGED <<main, cancelled, loops, running, rewrites, conn, io>>

Stop(b) ==
  /\ cancelled /\ b \in running /\ writeMu # b
  /\ running' = running \ {b}
  /\ UNCHANGED <<main, cancelled, loops, writeMu, rewrites, conn, io>>

-----------------------------------------------------------------------------
(* A connection: handle.                                                   *)

\* commandName: only a bulk string is a name.
Name(request) ==
  IF request.type # "*" \/ request.elems = <<>> \/ request.elems[1].type # "$"
  THEN <<>> ELSE request.elems[1].text

\* Where serve goes with a request.  SUBSCRIBE and REPLICAOF are in the modules
\* PubSub and Replication.
Route(request) ==
  CASE Name(request) = <<"QUIT">> -> "closing"
    [] Name(request) = <<"SET">>  -> "apply"
    [] OTHER                      -> "reply"

\* Decode waits for the rest of a frame as long as there may be one.  On EOF and in
\* the middle of a frame the handler just returns, on a protocol error it says so.
Read(c) ==
  LET r == Decoded[c][taken[c]][sent[c]]
  IN  /\ conn[c] = "read"
      /\ r.err \in {"EOF", "ErrUnexpectedEOF"} => client[c] = "left"
      /\ IF r.err = "nil"
         THEN /\ taken' = [taken EXCEPT ![c] = @ + r.next - 1]
              /\ served' = [served EXCEPT ![c] = Append(@, r.val)]
              /\ conn' = [conn EXCEPT ![c] = Route(r.val)]
              /\ ended' = [ended EXCEPT ![c] = IF Route(r.val) = "closing" THEN "QUIT" ELSE @]
         ELSE /\ conn' = [conn EXCEPT ![c] = "closing"]
              /\ ended' = [ended EXCEPT ![c] = r.err]
              /\ UNCHANGED <<taken, served>>
      /\ UNCHANGED <<main, cancelled, loops, back, client, sent>>

\* The read fails in another way, say because the peer has reset the connection, which
\* may cost bytes that were sent.  Decode hands such an error on, and handle does
\* the same as on a protocol error.
ReadFails(c) ==
  /\ conn[c] = "read" /\ client[c] = "left"
  /\ conn' = [conn EXCEPT ![c] = "closing"]
  /\ ended' = [ended EXCEPT ![c] = "readError"]
  /\ UNCHANGED <<main, cancelled, loops, back, client, sent, taken, served>>

\* A write runs and is appended to the log under writeMu.
Apply(c) ==
  /\ conn[c] = "apply" /\ writeMu = None
  /\ writeMu' = c
  /\ conn' = [conn EXCEPT ![c] = "append"]
  /\ UNCHANGED <<main, cancelled, loops, running, rewrites, io>>

Append_(c) ==
  /\ conn[c] = "append"
  /\ writeMu' = None
  /\ conn' = [conn EXCEPT ![c] = "reply"]
  /\ UNCHANGED <<main, cancelled, loops, running, rewrites, io>>

\* A reply that cannot be written ends the handler.
Reply(c) ==
  /\ conn[c] = "reply"
  /\ \/ /\ conn' = [conn EXCEPT ![c] = "read"]
        /\ UNCHANGED ended
     \/ /\ client[c] = "left"
        /\ conn' = [conn EXCEPT ![c] = "closing"]
        /\ ended' = [ended EXCEPT ![c] = "write"]
  /\ UNCHANGED <<main, cancelled, loops, back, client, sent, taken, served>>

\* The connection is closed and counted out.  Nothing of it is kept.
Close(c) ==
  /\ conn[c] = "closing"
  /\ conn' = [conn EXCEPT ![c] = "closed"]
  /\ connWG' = connWG - 1
  /\ client' = [client EXCEPT ![c] = "left"]
  /\ sent' = [sent EXCEPT ![c] = 0] /\ taken' = [taken EXCEPT ![c] = 0]
  /\ served' = [served EXCEPT ![c] = <<>>] /\ ended' = [ended EXCEPT ![c] = "no"]
  /\ UNCHANGED <<main, cancelled, open, acceptor, accepting, back>>

-----------------------------------------------------------------------------
(* The clients.                                                            *)

Connect(c) ==
  /\ conn[c] = "none" /\ Script[c].dials \in open
  /\ conn' = [conn EXCEPT ![c] = Script[c].dials]
  /\ UNCHANGED <<main, cancelled, loops, back, io>>

\* Some more bytes.
Send(c) ==
  /\ conn[c] # "none" /\ client[c] = "there"
  /\ \E n \in Script[c].cuts : n > sent[c] /\ sent' = [sent EXCEPT ![c] = n]
  /\ UNCHANGED <<main, cancelled, loops, back, conn, client, taken, served, ended>>

HangUp(c) ==
  /\ conn[c] # "none" /\ client[c] = "there"
  /\ client' = [client EXCEPT ![c] = "left"]
  /\ UNCHANGED <<main, cancelled, loops, back, conn, sent, taken, served, ended>>

-----------------------------------------------------------------------------
Main == Load \/ AcceptWait \/ ConnWait \/ Return

Loop(l) == CloseListener(l) \/ (\E c \in Conns : Accept(l, c)) \/ Spawn(l) \/ AcceptEnds(l)

handle(c) == Read(c) \/ ReadFails(c) \/ Apply(c) \/ Append_(c) \/ Reply(c) \/ Close(c)

Next ==
  \/ Main \/ Signal
  \/ \E l \in Listeners : Loop(l)
  \/ rewriteAOF \/ RewriteEnds \/ \E b \in Background : Stop(b)
  \/ \E c \in Conns : handle(c) \/ Connect(c) \/ Send(c) \/ HangUp(c)

Spec == Init /\ [][Next]_vars

\* The server's goroutines go on.  Clients do as they like.
ServerFairness ==
  /\ WF_vars(Main) /\ WF_vars(RewriteEnds)
  /\ \A l \in Listeners : WF_vars(Loop(l))
  /\ \A b \in Background : WF_vars(Stop(b))
  /\ \A c \in Conns : WF_vars(handle(c))

ServerSpec == Spec /\ ServerFairness

-----------------------------------------------------------------------------
(* Properties.                                                             *)

\* The type invariant; a negative WaitGroup counter would panic.
TypeOK ==
  /\ phase \in {"loading", "failed", "serving", "draining", "stopping", "returned"}
  /\ cancelled \in BOOLEAN /\ logOpen \in BOOLEAN
  /\ open \subseteq Listeners /\ accepting \subseteq Listeners
  /\ acceptor \in [Listeners -> Conns \cup {None}] /\ connWG \in Nat
  /\ writeMu \in Conns \cup {Rewriter, None} /\ running \subseteq Background
  /\ rewrites \in Nat
  /\ \A c \in Conns :
       /\ conn[c] \in Listeners \cup Stages
       /\ client[c] \in {"there", "left"}
       /\ 0 <= taken[c] /\ taken[c] <= sent[c] /\ sent[c] <= Len(Bytes[c])
       /\ ended[c] \in {"no", "EOF", "ErrUnexpectedEOF", "protocol", "readError", "QUIT", "write"}

\* The log is open whenever a handler or the rewriter is about to use it: aof.Close
\* comes after the last accept loop, the last connection and the last goroutine.
LogOutlivesItsUsers ==
  ~logOpen =>
    /\ \A c \in Conns : conn[c] \notin {"apply", "append"}
    /\ writeMu = None /\ Rewriter \notin running

\* What is served on a connection is what its client sent, frame by frame and in
\* order, however the bytes are cut and whatever a payload looks like.
ServedAsSent ==
  \A c \in Conns : \E n \in 0 .. Len(Script[c].frames) : served[c] = SubSeq(Script[c].frames, 1, n)

\* A connection is taken for closed only at the end of a frame and for cut off only
\* inside one, in both cases after its client has left; Decode reports a protocol error
\* only where the client sent what is not RESP.  By then every complete request has
\* been served.  The one other way to the error reply of handle, and to requests
\* that stay unread, is a read that fails, and then too the client has left.
EndIsJudgedRight ==
  \A c \in Conns :
    LET n == Len(served[c])
        frames == Len(Script[c].frames)
        after == sent[c] - FrameEnd[c][n]
    IN  /\ ended[c] \in {"EOF", "ErrUnexpectedEOF", "readError"} => client[c] = "left"
        /\ ended[c] = "EOF" => after = 0
        /\ ended[c] = "ErrUnexpectedEOF" => after > 0 /\ (n < frames => sent[c] < FrameEnd[c][n + 1])
        /\ ended[c] = "protocol" => n = frames /\ after > 0


\* A signal stops the server: the listeners are closed, the connections drained,
\* and the log is flushed, synced and closed.
ShutdownCompletes == cancelled ~> phase \in {"returned", "failed"}

\* It does so when no client stays connected for ever: nothing else that Serve waits
\* for can hold it up, neither a handler nor an accept loop nor the rewrite.
ShutdownUnlessHeldUp ==
  (\A c \in Conns : <>[](client[c] = "left" \/ conn[c] = "none")) => ShutdownCompletes
=============================================================================
