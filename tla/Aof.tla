-------------------------------- MODULE Aof ---------------------------------
(***************************************************************************)
(* The durable write path: apply in internal/server, the append-only file  *)
(* of internal/persistence with its rewrite, and recovery, on a file       *)
(* system that can fill up and a machine that can die at any moment.       *)
(*                                                                         *)
(* The keyspace is represented by the sequence of writes that built it,    *)
(* each with a number of its own, so mem is both the live state and the    *)
(* order in which it came about.  A file is represented by the writes a    *)
(* replay of it re-executes; the snapshot that a rewrite leaves behind     *)
(* stands for the writes it sums up.  (That a replayed snapshot recreates  *)
(* the entries is the subject of module Recovery.)                         *)
(***************************************************************************)
EXTENDS Integers, Sequences

CONSTANTS
  Clients,         \* connections that send writes
  Modes,           \* the fsync policies the server may be started with
  Faults,          \* what can go wrong: "full", "tear", "reopen", "direntry"
  minRewriteSize,  \* the smallest log worth compacting, in commands
  MaxWrites,       \* bound: writes in a behaviour
  MaxCrashes,      \* bound: kills and power cuts in a behaviour
  None, Rewriter   \* who else may hold writeMu

rewriteGrowthFactor == 2

ASSUME AofAssumption ==
  /\ Modes \subseteq {"always", "everysec", "no"}
  /\ Faults \subseteq {"full", "tear", "reopen", "direntry"}
  /\ minRewriteSize \in Nat /\ MaxWrites \in Nat /\ MaxCrashes \in Nat
  /\ None \notin Clients /\ Rewriter \notin Clients /\ None # Rewriter

VARIABLES
  up,         \* the server process is running
  mem,        \* the writes that built the keyspace, in the order applied
  writes,     \* how many writes there have been: the next one's number
  writeMu,    \* the holder of the server's write lock
  pc,         \* pc[p]: how far the write of client p has come
  op,         \* op[p]: the write of client p
  files,      \* the inodes
  path,       \* the inode under the log's name
  dpath,      \* the inode the directory on disk has under that name
  handle,     \* the inode behind a.f
  mode,       \* a.mode
  werr,       \* a.w has failed once: a bufio.Writer never recovers
  baseSize,   \* a.baseSize
  full,       \* the disk is full
  rw,         \* how far a rewrite has come
  promise,    \* how many writes of mem a killed process must not lose
  dpromise,   \* how many writes of mem a power cut must not lose
  crashes     \* kills and power cuts so far

server == <<up, mem, writes, writeMu, pc, op>>
disk   == <<files, path, dpath, full>>
aof    == <<handle, mode, werr, baseSize>>
ghost  == <<promise, dpromise, crashes>>
vars   == <<server, disk, aof, rw, ghost>>

Inodes == 0 .. 3

Garbage == 0   \* a command that nobody sent, or one that runs out of its place

\* writes: what a replay re-executes; size: commands in the file; synced: how
\* many of writes are on disk.  A torn file ends in a half-written command; in a
\* bad one more commands follow after the tear.
EmptyFile == [writes |-> <<>>, size |-> 0, synced |-> 0, tail |-> "clean"]

\* An inode that has lost its name and its last open handle is gone.
Keep(used) == [i \in Inodes |-> IF i \in used THEN files[i] ELSE EmptyFile]

Least(m, n) == IF m <= n THEN m ELSE n

Prefix(s, t) == Len(s) <= Len(t) /\ \A i \in 1..Len(s) : s[i] = t[i]

Init ==
  /\ up = TRUE /\ mem = <<>> /\ writes = 0
  /\ writeMu = None
  /\ pc = [p \in Clients |-> "idle"] /\ op = [p \in Clients |-> 0]
  /\ files = [i \in Inodes |-> EmptyFile]
  /\ path = 0 /\ dpath = 0 /\ handle = 0
  /\ mode \in Modes /\ werr = FALSE /\ baseSize = 0 /\ full = FALSE
  /\ rw = "idle"
  /\ promise = 0 /\ dpromise = 0 /\ crashes = 0

-----------------------------------------------------------------------------
(* applyRecord.                                                            *)

\* Mutant: does not wait for the lock.
Dispatch_NoLock(p) ==
  /\ up /\ pc[p] = "idle" /\ writes < MaxWrites /\ writeMu # Rewriter
  /\ writeMu' = p
  /\ writes' = writes + 1
  /\ op' = [op EXCEPT ![p] = writes']
  /\ mem' = Append(mem, writes')
  /\ pc' = [pc EXCEPT ![p] = "applied"]
  /\ UNCHANGED <<up, disk, aof, rw, ghost>>

\* Under writeMu the command is run against the store ...
Dispatch(p) ==
  /\ up /\ pc[p] = "idle" /\ writes < MaxWrites
  /\ writeMu = None
  /\ writeMu' = p
  /\ writes' = writes + 1
  /\ op' = [op EXCEPT ![p] = writes']
  /\ mem' = Append(mem, writes')
  /\ pc' = [pc EXCEPT ![p] = "applied"]
  /\ UNCHANGED <<up, disk, aof, rw, ghost>>

\* One more command, or a part of one, at the end of a file.  After a tear neither
\* can be read back.
Extend(f, w) ==
  IF f.tail = "clean"
  THEN [f EXCEPT !.writes = Append(@, w), !.size = @ + 1]
  ELSE [f EXCEPT !.size = @ + 1, !.tail = "bad"]

Torn(f) == [f EXCEPT !.tail = IF @ = "clean" THEN "torn" ELSE "bad"]

\* Mutant: an append after a failed one succeeds once there is space.
Flush_Retries(p) ==
  /\ up /\ pc[p] = "applied" /\ ~full
  /\ files' = [files EXCEPT ![handle] = Extend(@, op[p])]
  /\ pc' = [pc EXCEPT ![p] = IF mode = "always" THEN "flushed" ELSE "appended"]
  /\ UNCHANGED <<up, mem, writes, writeMu, op, path, dpath, full, aof, rw, ghost>>

\* ... then AOF.Append encodes it and flushes it to the operating system ...
Flush(p) ==
  /\ up /\ pc[p] = "applied" /\ ~werr /\ ~full
  /\ files' = [files EXCEPT ![handle] = Extend(@, op[p])]
  /\ pc' = [pc EXCEPT ![p] = IF mode = "always" THEN "flushed" ELSE "appended"]
  /\ UNCHANGED <<up, mem, writes, writeMu, op, path, dpath, full, aof, rw, ghost>>

\* ... unless the buffer has failed before, or the disk is full and takes none
\* or only a part of the bytes ...
FlushFails(p) ==
  /\ up /\ pc[p] = "applied" /\ (werr \/ full)
  /\ werr' = TRUE
  /\ \/ UNCHANGED files
     \/ /\ ~werr /\ "tear" \in Faults
        /\ files' = [files EXCEPT ![handle] = Torn(@)]
  /\ pc' = [pc EXCEPT ![p] = "failed"]
  /\ UNCHANGED <<up, mem, writes, writeMu, op, path, dpath, full, handle, mode, baseSize, rw, ghost>>

\* ... and fsyncs it when the policy is "always".
Synced(f) == [f EXCEPT !.synced = Len(f.writes)]

Fsync(p) ==
  /\ up /\ pc[p] = "flushed"
  /\ files' = [files EXCEPT ![handle] = Synced(@)]
  /\ pc' = [pc EXCEPT ![p] = "appended"]
  /\ UNCHANGED <<up, mem, writes, writeMu, op, path, dpath, full, aof, rw, ghost>>

\* The lock is released and the client gets its reply.  If Append succeeded, the
\* write and all before it are now promised; a failed Append is only logged.
Reply(p) ==
  /\ up /\ pc[p] \in {"appended", "failed"}
  /\ pc' = [pc EXCEPT ![p] = "idle"]
  /\ writeMu' = None
  /\ promise' = IF pc[p] = "appended" THEN Len(mem) ELSE promise
  /\ dpromise' = IF pc[p] = "appended" /\ mode = "always" THEN Len(mem) ELSE dpromise
  /\ UNCHANGED <<up, mem, writes, op, disk, aof, rw, crashes>>

-----------------------------------------------------------------------------
(* The fsync ticker and the rewrite.                                       *)

\* Mutant: runs in another mode than the one it is for.
syncEverySec_WrongMode ==
  /\ up /\ mode = "no" /\ rw = "idle"
  /\ files' = [files EXCEPT ![handle] = Synced(@)]
  /\ dpromise' = promise
  /\ UNCHANGED <<server, path, dpath, full, aof, rw, promise, crashes>>

\* Rewrite holds a.mu from its first to its last step.
syncEverySec ==
  /\ up /\ mode = "everysec" /\ rw = "idle"
  /\ files' = [files EXCEPT ![handle] = Synced(@)]
  /\ dpromise' = promise
  /\ UNCHANGED <<server, path, dpath, full, aof, rw, promise, crashes>>

ShouldRewrite ==
  LET size == files[handle].size
  IN  size >= minRewriteSize /\ size >= rewriteGrowthFactor * baseSize

\* The write path is frozen from here on; the snapshot is taken.
rewriteAOF ==
  /\ up /\ rw = "idle" /\ writeMu = None /\ ShouldRewrite
  /\ writeMu' = Rewriter
  /\ rw' = "snapshot"
  /\ UNCHANGED <<up, mem, writes, pc, op, disk, aof, ghost>>

FreshInode == CHOOSE i \in Inodes : i \notin {path, handle, dpath}

\* Mutant: renames a temporary file that has not been fsynced.
Rename_NoSync ==
  /\ up /\ rw = "snapshot" /\ ~full
  /\ path' = FreshInode
  /\ files' = [files EXCEPT ![path'] = [writes |-> mem, size |-> Len(mem),
                                       synced |-> 0, tail |-> "clean"]]
  /\ dpath' = path'
  /\ rw' = "renamed"
  /\ UNCHANGED <<server, full, aof, ghost>>

\* The snapshot goes to a temporary file, which is fsynced and renamed over the
\* log.  It has at most as many commands as there were writes.
Rename ==
  /\ up /\ rw = "snapshot" /\ ~full
  /\ path' = FreshInode
  /\ \E n \in 0 .. Len(mem) :
       files' = [files EXCEPT ![path'] = [writes |-> mem, size |-> n,
                                          synced |-> Len(mem), tail |-> "clean"]]
  /\ dpath' \in IF "direntry" \in Faults THEN {dpath, path'} ELSE {path'}
  /\ rw' = "renamed"
  /\ UNCHANGED <<server, full, aof, ghost>>

\* Every failure before the rename removes the temporary file again.
RewriteFails ==
  /\ up /\ rw = "snapshot"
  /\ rw' = "idle" /\ writeMu' = None
  /\ UNCHANGED <<up, mem, writes, pc, op, disk, aof, ghost>>

\* Mutant: an empty snapshot has a negative size.
Reopen_OffByOne ==
  /\ up /\ rw = "renamed"
  /\ handle' = path /\ werr' = FALSE /\ baseSize' = files[path].size - 1
  /\ files' = Keep({path, dpath})
  /\ rw' = "idle" /\ writeMu' = None
  /\ UNCHANGED <<up, mem, writes, pc, op, path, dpath, full, mode, ghost>>

\* The log is reopened under its name with a fresh buffer ...
Reopen ==
  /\ up /\ rw = "renamed"
  /\ handle' = path /\ werr' = FALSE /\ baseSize' = files[path].size
  /\ files' = Keep({path, dpath})
  /\ rw' = "idle" /\ writeMu' = None
  /\ UNCHANGED <<up, mem, writes, pc, op, path, dpath, full, mode, ghost>>

\* ... and if that fails the old handle stays in use.
ReopenFails ==
  /\ up /\ rw = "renamed" /\ "reopen" \in Faults
  /\ rw' = "idle" /\ writeMu' = None
  /\ UNCHANGED <<up, mem, writes, pc, op, disk, aof, ghost>>

-----------------------------------------------------------------------------
(* The environment, and recovery.                                          *)

\* The disk fills up, and space is freed again.
DiskFull ==
  /\ "full" \in Faults
  /\ full' = ~full
  /\ UNCHANGED <<server, files, path, dpath, aof, rw, ghost>>

\* The process stops.  What was in its memory is gone; mem remembers it.
Stop ==
  /\ up' = FALSE
  /\ writeMu' = None /\ pc' = [p \in Clients |-> "idle"] /\ rw' = "idle"
  /\ UNCHANGED <<mem, writes, op, full, aof>>

\* kill -9.  A write under way may be half done.
Kill ==
  /\ up /\ crashes < MaxCrashes
  /\ Stop
  /\ \/ UNCHANGED files
     \/ /\ "tear" \in Faults /\ ~werr
        /\ \E p \in Clients : pc[p] = "applied"
        /\ files' = [files EXCEPT ![handle] = Torn(@)]
  /\ crashes' = crashes + 1
  /\ UNCHANGED <<path, dpath, promise, dpromise>>

\* A file after a power cut keeps what was synced and some of the rest, and what it
\* keeps is on disk.
Cut(f, n, t) ==
  [f EXCEPT !.writes = SubSeq(@, 1, n), !.synced = n, !.tail = t, !.size = @ - (Len(f.writes) - n)]

Remains(f) ==
  {Synced(f)} \cup {Cut(f, n, t) : n \in f.synced .. Len(f.writes) - 1,
                                  t \in IF "tear" \in Faults THEN {"clean", "torn"} ELSE {"clean"}}

PowerCut ==
  /\ crashes < MaxCrashes
  /\ Stop
  /\ path' = dpath
  /\ \E f \in Remains(files[dpath]) : files' = [files EXCEPT ![dpath] = f]
  /\ promise' = dpromise
  /\ crashes' = crashes + 1
  /\ UNCHANGED <<dpath, dpromise>>

\* A clean shutdown, once every connection has ended: AOF.Close flushes and
\* fsyncs in every mode.
Close ==
  /\ up /\ writeMu = None
  /\ Stop
  /\ files' = [files EXCEPT ![handle] = Synced(@)]
  /\ dpromise' = promise
  /\ UNCHANGED <<path, dpath, promise, crashes>>

\* Mutant: gives up a log that ends in a tear.
loadAOF_RefusesTear ==
  /\ ~up
  /\ up' = TRUE
  /\ mem' = IF files[path].tail = "clean" THEN files[path].writes ELSE <<>>
  /\ mode' \in Modes
  /\ handle' = path /\ werr' = FALSE /\ baseSize' = files[path].size
  /\ files' = Keep({path, dpath})
  /\ promise' = Least(promise, Len(mem')) /\ dpromise' = Least(dpromise, Len(mem'))
  /\ UNCHANGED <<writes, writeMu, pc, op, path, dpath, full, rw, crashes>>

\* loadAOF: Replay runs the commands up to the end of the log or to a tear, and
\* Open continues the file where it ends.  When more follows after the tear, the
\* decoder takes it for the rest of the torn command: it reports corruption, and
\* the server stays down, or it reaches the end of the file inside that command,
\* or it hands a command that nobody sent to the dispatcher, and then perhaps, in
\* step again, some of those behind it.  A promise that is broken here is not
\* held against later recoveries.
loadAOF ==
  /\ ~up
  /\ up' = TRUE
  /\ \E n \in 0 .. IF files[path].tail = "bad" THEN writes ELSE 0 :
       mem' = files[path].writes \o [i \in 1 .. n |-> Garbage]
  /\ mode' \in Modes
  /\ handle' = path /\ werr' = FALSE /\ baseSize' = files[path].size
  /\ files' = Keep({path, dpath})
  /\ promise' = Least(promise, Len(mem')) /\ dpromise' = Least(dpromise, Len(mem'))
  /\ UNCHANGED <<writes, writeMu, pc, op, path, dpath, full, rw, crashes>>

-----------------------------------------------------------------------------
Write(p) == Dispatch(p) \/ Flush(p) \/ FlushFails(p) \/ Fsync(p) \/ Reply(p)

Rewrite == rewriteAOF \/ Rename \/ RewriteFails \/ Reopen \/ ReopenFails

Next ==
  \/ \E p \in Clients : Write(p)
  \/ syncEverySec \/ Rewrite
  \/ DiskFull \/ Kill \/ PowerCut \/ Close
  \/ loadAOF

Spec == Init /\ [][Next]_vars

\* Goroutines under way go on: a handler with its write, the rewrite, and the
\* ticker, which gets a.mu eventually because a Go mutex starves nobody.
Fairness ==
  /\ \A p \in Clients : WF_vars(Flush(p) \/ FlushFails(p) \/ Fsync(p) \/ Reply(p))
  /\ WF_vars(Rename \/ RewriteFails) /\ WF_vars(Reopen)
  /\ SF_vars(syncEverySec)

FairSpec == Spec /\ Fairness

-----------------------------------------------------------------------------
(* Properties.                                                             *)

\* The type invariant.
Files ==
  [writes : Seq(0 .. MaxWrites), size : Nat, synced : Nat,
   tail : {"clean", "torn", "bad"}]

TypeOK ==
  /\ up \in BOOLEAN /\ mem \in Seq(0 .. MaxWrites) /\ writes \in 0 .. MaxWrites
  /\ writeMu \in Clients \cup {None, Rewriter}
  /\ pc \in [Clients -> {"idle", "applied", "flushed", "appended", "failed"}]
  /\ op \in [Clients -> 0 .. MaxWrites]
  /\ files \in [Inodes -> Files]
  /\ path \in Inodes /\ dpath \in Inodes /\ handle \in Inodes
  /\ mode \in Modes /\ werr \in BOOLEAN /\ baseSize \in Nat /\ full \in BOOLEAN
  /\ rw \in {"idle", "snapshot", "renamed"}
  /\ promise \in Nat /\ dpromise \in Nat /\ crashes \in Nat

\* Recovery rebuilds a state the server has been in (a prefix of the writes it
\* applied, in the order it applied them), and one that includes every promised
\* write: after a kill or a clean stop, every write whose Append succeeded; after
\* a power cut, those up to the latest fsync, which under "always" is the same.
Recovers == Prefix(mem', mem) /\ Len(mem') >= promise

Durable == [][~up /\ up' => Recovers]_vars

\* Whatever else fails and however often, a log that does not go on after a tear
\* never recovers to a state the server has not been in: it has no gap and no
\* write out of order.  An append that fails may not be followed by one that
\* succeeds on the same file.
NoGaps == [][~up /\ up' /\ files[path].tail # "bad" => Prefix(mem', mem)]_vars

\* Durable for the recoveries from a log that the server was appending to when it
\* stopped and that does not go on after a tear: a torn tail by itself costs
\* nothing that was promised.
TornTailTolerated ==
  [][~up /\ up' /\ handle = path /\ files[path].tail # "bad" => Recovers]_vars

\* Whenever nobody is writing and no append has failed since the log was opened
\* or rewritten, the log under its name holds exactly the writes the store has
\* seen, in the same order: what apply holds writeMu for.
LogMatchesStore == up /\ writeMu = None /\ ~werr => files[path].writes = mem

\* Under "everysec", what Append has accepted reaches the disk, unless the server
\* stops before.
EventuallyOnDisk ==
  \A n \in 1 .. MaxWrites :
    up /\ mode = "everysec" /\ promise >= n ~> ~up \/ files[dpath].synced >= n
=============================================================================
