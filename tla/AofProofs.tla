------------------------------ MODULE AofProofs -----------------------------
(***************************************************************************)
(* Theorems about Aof, for any number of clients, writes and crashes, any  *)
(* fsync policies and any mixture of faults.                               *)
(***************************************************************************)
EXTENDS Aof, TLAPS

-----------------------------------------------------------------------------
(* The inductive invariant.                                                *)

\* What is synced is in the file, and what is not has a command of its own.
FileOK(f) == f.synced <= Len(f.writes) /\ Len(f.writes) - f.synced <= f.size

FilesOK == \A i \in Inodes : FileOK(files[i])

\* Who is at work holds writeMu: a client with its write, or the rewrite.
LockOK ==
  /\ \A p \in Clients : pc[p] # "idle" => up /\ writeMu = p
  /\ writeMu = Rewriter <=> rw # "idle"
  /\ ~up => writeMu = None

\* A file holds a prefix of the writes s that built the store; if it does not go on
\* after a tear, it holds the n promised ones, and the d promised for a power cut
\* are synced.
Keeps(f, s, n, d) ==
  /\ Prefix(f.writes, s)
  /\ f.tail # "bad" => Len(f.writes) >= n
  /\ f.synced >= d \/ (f.tail = "bad" /\ f.synced = Len(f.writes))

HandleOK == Keeps(files[handle], mem, promise, dpromise)

\* As long as nothing failed, the file behind a.f has all writes up to the one under
\* way.
AllIn ==
  up /\ ~werr /\ files[handle].tail = "clean" =>
    /\ \A p \in Clients : pc[p] = "applied" => mem = Append(files[handle].writes, op[p])
    /\ (\A p \in Clients : pc[p] # "applied") => mem = files[handle].writes

\* An append that succeeds found the file whole, or went after a tear.
FlushedOK ==
  \A p \in Clients : pc[p] \in {"flushed", "appended"} =>
    /\ ~werr /\ files[handle].tail # "torn"
    /\ pc[p] = "appended" /\ mode = "always" => files[handle].synced = Len(files[handle].writes)

\* Only what the store has seen is promised.
PromiseOK == promise <= Len(mem) /\ dpromise <= promise

\* The file under the log's name, when the server does not append to it: a snapshot,
\* or what a power cut left behind.
PathOK ==
  /\ path # handle => files[path].synced = Len(files[path].writes)
  /\ rw = "renamed" => path # handle /\ files[path].writes = mem /\ files[path].tail = "clean"

Inv == TypeOK /\ FilesOK /\ LockOK /\ HandleOK /\ AllIn /\ FlushedOK /\ PromiseOK /\ PathOK

-----------------------------------------------------------------------------
(* Prefixes and files.                                                     *)

W == 0 .. MaxWrites

\* Being a prefix is reflexive and transitive, and a sequence may go on.
LEMMA PrefixFacts ==
  ASSUME NEW s \in Seq(W), NEW t \in Seq(W), NEW u \in Seq(W), NEW x \in W, Prefix(s, t)
  PROVE  /\ Prefix(s, s) /\ Prefix(s, Append(s, x)) /\ Prefix(s, Append(t, x))
         /\ Prefix(t, u) => Prefix(s, u)
  BY DEF Prefix

\* The first elements of a sequence are a prefix of it.
LEMMA PrefixSubSeq ==
  ASSUME NEW s \in Seq(W), NEW n \in 0 .. Len(s)
  PROVE  SubSeq(s, 1, n) \in Seq(W) /\ Len(SubSeq(s, 1, n)) = n /\ Prefix(SubSeq(s, 1, n), s)
  BY DEF Prefix

\* A prefix of full length is all of it.
LEMMA PrefixAll ==
  ASSUME NEW s \in Seq(W), NEW t \in Seq(W), Prefix(s, t), Len(s) >= Len(t) PROVE s = t
  BY DEF Prefix

\* One more command in a file.
LEMMA ExtendFacts ==
  ASSUME NEW f \in Files, NEW w \in W
  PROVE  /\ Extend(f, w) \in Files /\ Extend(f, w).synced = f.synced /\ Extend(f, w).size = f.size + 1
         /\ f.tail = "clean" => Extend(f, w).writes = Append(f.writes, w) /\ Extend(f, w).tail = "clean"
         /\ f.tail # "clean" => Extend(f, w).writes = f.writes /\ Extend(f, w).tail = "bad"
<1>1. CASE f.tail = "clean"
  <2>1. Extend(f, w) = [f EXCEPT !.writes = Append(@, w), !.size = @ + 1]
    BY Zenon, <1>1 DEF Extend
  <2>2. Append(f.writes, w) \in Seq(W) /\ f.size + 1 \in Nat
    BY DEF Files, W
  <2> QED
    BY <1>1, <2>1, <2>2, Zenon DEF Files, W
<1>2. CASE f.tail # "clean"
  <2>1. Extend(f, w) = [f EXCEPT !.size = @ + 1, !.tail = "bad"]
    BY Zenon, <1>2 DEF Extend
  <2>2. f.size + 1 \in Nat
    BY DEF Files
  <2> QED
    BY <1>2, <2>1, <2>2, Zenon DEF Files
<1> QED
  BY Zenon, <1>1, <1>2

\* A part of a command in a file.
LEMMA TornFacts ==
  ASSUME NEW f \in Files
  PROVE  /\ Torn(f) \in Files /\ Torn(f).writes = f.writes /\ Torn(f).synced = f.synced
         /\ Torn(f).size = f.size /\ Torn(f).tail = IF f.tail = "clean" THEN "torn" ELSE "bad"
  BY Zenon DEF Files, Torn

\* A file after fsync.
LEMMA SyncedFacts ==
  ASSUME NEW f \in Files
  PROVE  /\ Synced(f) \in Files /\ Synced(f).writes = f.writes /\ Synced(f).synced = Len(f.writes)
         /\ Synced(f).size = f.size /\ Synced(f).tail = f.tail
  BY DEF Files, Synced

\* A file after a power cut.
LEMMA RemainsFacts ==
  ASSUME NEW f \in Files, FileOK(f), NEW g \in Remains(f)
  PROVE  /\ g \in Files /\ g.synced = Len(g.writes) /\ FileOK(g) /\ Prefix(g.writes, f.writes)
         /\ Len(g.writes) >= f.synced
         /\ (g.writes = f.writes /\ g.tail = f.tail) \/ (Len(f.writes) > f.synced /\ g.tail # "bad")
         /\ "tear" \notin Faults => g.tail \in {f.tail, "clean"}
<1>0. /\ f.writes \in Seq(W) /\ f.size \in Nat /\ f.synced \in Nat /\ Len(f.writes) \in Nat
      /\ f.synced <= Len(f.writes) /\ Len(f.writes) - f.synced <= f.size
  BY DEF Files, FileOK, W
<1>1. CASE g = Synced(f)
  <2>1. Prefix(f.writes, f.writes)
    BY <1>0 DEF Prefix
  <2>2. /\ g \in Files /\ g.writes = f.writes /\ g.synced = Len(f.writes) /\ g.size = f.size /\ g.tail = f.tail
    BY Zenon, <1>1, SyncedFacts
  <2>3. FileOK(g) /\ Len(g.writes) >= f.synced
    BY <1>0, <2>2 DEF FileOK
  <2> QED
    BY <2>1, <2>2, <2>3, Zenon
<1>2. CASE g # Synced(f)
  <2>1. PICK n \in f.synced .. Len(f.writes) - 1, t \in IF "tear" \in Faults THEN {"clean", "torn"} ELSE {"clean"} :
          g = Cut(f, n, t)
    BY <1>2 DEF Remains
  <2>2. n \in 0 .. Len(f.writes) /\ Len(f.writes) > f.synced /\ n >= f.synced
    BY <1>0
  <2>3. /\ g.writes = SubSeq(f.writes, 1, n) /\ g.synced = n /\ g.tail = t
        /\ g.size = f.size - (Len(f.writes) - n)
        /\ g = [writes |-> g.writes, size |-> g.size, synced |-> g.synced, tail |-> g.tail]
    BY <2>1, Zenon DEF Files, Cut
  <2>4. g.writes \in Seq(W) /\ Len(g.writes) = n /\ Prefix(g.writes, f.writes)
    BY <1>0, <2>2, <2>3, PrefixSubSeq
  <2>5. g.size \in Nat
    BY SMTT(30), <1>0, <2>2, <2>3
  <2>6. g \in Files
    <3>1. g.synced \in Nat /\ g.tail \in {"clean", "torn", "bad"}
      BY <2>2, <2>3
    <3> QED
      BY <2>3, <2>4, <2>5, <3>1, Zenon DEF Files, W
  <2> QED
    BY <2>2, <2>3, <2>4, <2>5, <2>6 DEF FileOK
<1> QED
  BY Zenon, <1>1, <1>2

\* The store goes on, and so may the file.
LEMMA KeepsGrow ==
  ASSUME NEW f \in Files, NEW s \in Seq(W), NEW n \in Nat, NEW d \in Nat, Keeps(f, s, n, d), NEW w \in W
  PROVE  /\ Keeps(f, Append(s, w), n, d)
         /\ s = Append(f.writes, w) \/ f.tail # "clean" => Keeps(Extend(f, w), s, n, d)
<1>1. f.writes \in Seq(W) /\ Prefix(f.writes, s) /\ f.synced \in Nat /\ Len(f.writes) \in Nat
  BY DEF Keeps, Files, W
<1>2. Keeps(f, Append(s, w), n, d)
  BY Zenon, <1>1, PrefixFacts DEF Keeps
<1>3. ASSUME f.tail # "clean" PROVE Keeps(Extend(f, w), s, n, d)
  BY Zenon, <1>1, <1>3, ExtendFacts DEF Keeps
<1>4. ASSUME f.tail = "clean", s = Append(f.writes, w) PROVE Keeps(Extend(f, w), s, n, d)
  <2>1. Prefix(s, s) /\ Len(s) = Len(f.writes) + 1
    BY <1>1, <1>4 DEF Prefix
  <2> QED
    <3>1. Extend(f, w).synced = f.synced /\ Extend(f, w).writes = s /\ Extend(f, w).tail = "clean"
      BY <1>4, ExtendFacts
    <3> QED
      BY <1>1, <1>4, <2>1, <3>1 DEF Keeps
<1> QED
  BY Zenon, <1>2, <1>3, <1>4

\* A tear costs nothing, and fsync makes the promise good for a power cut.
LEMMA KeepsSame ==
  ASSUME NEW f \in Files, NEW s \in Seq(W), NEW n \in Nat, NEW d \in Nat, Keeps(f, s, n, d), d <= n
  PROVE  /\ Keeps(Torn(f), s, n, d) /\ Keeps(Synced(f), s, n, d) /\ Keeps(Synced(f), s, n, n)
<1>1. f.writes \in Seq(W) /\ f.synced \in Nat /\ Len(f.writes) \in Nat
  BY DEF Files, W
<1>2. Keeps(Torn(f), s, n, d)
  BY Zenon, <1>1, TornFacts DEF Keeps
<1>3. Keeps(Synced(f), s, n, d) /\ Keeps(Synced(f), s, n, n)
  BY <1>1, SyncedFacts DEF Keeps
<1> QED
  BY Zenon, <1>2, <1>3

\* A power cut costs what was not promised for it.
LEMMA KeepsCut ==
  ASSUME NEW f \in Files, FileOK(f), NEW s \in Seq(W), NEW n \in Nat, NEW d \in Nat, Keeps(f, s, n, d), d <= n
  PROVE  /\ Keeps(f, s, d, d) /\ \A g \in Remains(f) : Keeps(g, s, d, d)
<1>1. f.writes \in Seq(W) /\ f.synced \in Nat /\ Len(f.writes) \in Nat /\ f.synced <= Len(f.writes)
  BY DEF Files, W, FileOK
<1>2. Keeps(f, s, d, d)
  BY <1>1 DEF Keeps
<1>3. ASSUME NEW g \in Remains(f) PROVE Keeps(g, s, d, d)
  <2>1. /\ g \in Files /\ g.synced = Len(g.writes) /\ Prefix(g.writes, f.writes) /\ Len(g.writes) >= f.synced
        /\ (g.writes = f.writes /\ g.tail = f.tail) \/ (Len(f.writes) > f.synced /\ g.tail # "bad")
    BY Zenon, RemainsFacts
  <2>2. g.writes \in Seq(W) /\ g.synced \in Nat
    BY Zenon, <2>1 DEF Files, W
  <2>3. Prefix(g.writes, s)
    BY <1>1, <2>1, <2>2, PrefixFacts DEF Keeps, Prefix
  <2> QED
    BY <1>1, <2>1, <2>2, <2>3 DEF Keeps
<1> QED
  BY Zenon, <1>2, <1>3

\* A file with all writes, all synced, keeps any promise.
LEMMA KeepsAll ==
  ASSUME NEW f \in Files, NEW s \in Seq(W), NEW n \in 0 .. Len(s), NEW d \in 0 .. n,
         f.writes = s, f.synced = Len(s)
  PROVE  Keeps(f, s, n, d)
  BY DEF Keeps, Prefix, Files

\* A change of the file behind a.f.
LEMMA HandleFile ==
  ASSUME TypeOK, NEW g \in Files, files' = [files EXCEPT ![handle] = g]
  PROVE  /\ files' \in [Inodes -> Files] /\ files'[handle] = g /\ files[handle] \in Files
         /\ \A i \in Inodes : i # handle => files'[i] = files[i]
  BY Zenon DEF TypeOK

-----------------------------------------------------------------------------
(* Every action keeps the invariant.                                       *)

\* Who writes is alone: no other client is at work, nor the rewrite.
LEMMA Writing ==
  ASSUME LockOK, TypeOK, NEW p \in Clients, pc[p] # "idle"
  PROVE  up /\ writeMu = p /\ rw = "idle" /\ \A q \in Clients : q # p => pc[q] = "idle"
  BY Zenon, AofAssumption DEF LockOK, TypeOK

\* No client writes while the lock is free, a rewrite runs or the server is down.
LEMMA Quiet ==
  ASSUME LockOK, TypeOK, writeMu = None \/ rw # "idle" \/ ~up
  PROVE  /\ \A p \in Clients : pc[p] = "idle"
         /\ rw # "idle" => up /\ writeMu = Rewriter
         /\ writeMu = None \/ ~up => rw = "idle"
  BY Zenon, AofAssumption DEF LockOK, TypeOK

\* A client runs its write against the store.
LEMMA DispatchStep ==
  ASSUME NEW p \in Clients, Dispatch(p), Inv PROVE Inv'
<1>0. TypeOK /\ FilesOK /\ LockOK /\ HandleOK /\ AllIn /\ FlushedOK /\ PromiseOK /\ PathOK
  BY Zenon DEF Inv
<1>1. /\ up /\ pc[p] = "idle" /\ writeMu = None /\ writeMu' = p
      /\ mem' = Append(mem, op'[p]) /\ pc' = [pc EXCEPT ![p] = "applied"]
      /\ op' \in [Clients -> W] /\ writes' \in W
      /\ UNCHANGED <<up, files, path, dpath, full, handle, mode, werr, baseSize, rw, promise, dpromise, crashes>>
  BY <1>0, AofAssumption DEF Dispatch, TypeOK, disk, aof, ghost, W
<1>2. (\A q \in Clients : pc[q] = "idle") /\ rw = "idle"
  BY Zenon, <1>0, <1>1, Quiet
<1>3. /\ mem \in Seq(W) /\ Len(mem) \in Nat /\ promise \in Nat /\ dpromise \in Nat
      /\ handle \in Inodes /\ files[handle] \in Files /\ op'[p] \in W
  BY <1>0, <1>1 DEF TypeOK, W
<1>4. mem' \in Seq(W) /\ Len(mem') = Len(mem) + 1
  BY <1>1, <1>3
<1>5. pc'[p] = "applied" /\ \A q \in Clients : q # p => pc'[q] = "idle"
  BY Zenon, <1>0, <1>1, <1>2 DEF TypeOK
<1>6. TypeOK'
  BY Zenon, <1>0, <1>1, <1>4 DEF TypeOK, W
<1>7. FilesOK' /\ PathOK'
  BY Zenon, <1>0, <1>1, <1>2 DEF FilesOK, PathOK
<1>8. LockOK'
  BY Zenon, <1>0, <1>1, <1>2, <1>5, AofAssumption DEF LockOK
<1>9. HandleOK'
  BY Zenon, <1>0, <1>1, <1>3, KeepsGrow DEF HandleOK
<1>10. AllIn' /\ FlushedOK'
  BY Zenon, <1>0, <1>1, <1>2, <1>5 DEF AllIn, FlushedOK
<1>11. PromiseOK'
  BY <1>0, <1>1, <1>3, <1>4 DEF PromiseOK
<1> QED
  BY Zenon, <1>6, <1>7, <1>8, <1>9, <1>10, <1>11 DEF Inv

\* The write goes to the file.
LEMMA FlushStep ==
  ASSUME NEW p \in Clients, Flush(p), Inv PROVE Inv'
<1>0. TypeOK /\ FilesOK /\ LockOK /\ HandleOK /\ AllIn /\ FlushedOK /\ PromiseOK /\ PathOK
  BY Zenon DEF Inv
<1> DEFINE f == files[handle]
           g == Extend(f, op[p])
<1>1. /\ up /\ pc[p] = "applied" /\ ~werr /\ files' = [files EXCEPT ![handle] = g]
      /\ pc' = [pc EXCEPT ![p] = IF mode = "always" THEN "flushed" ELSE "appended"]
      /\ UNCHANGED <<up, mem, writes, writeMu, op, path, dpath, full, handle, mode, werr, baseSize, rw,
                     promise, dpromise, crashes>>
  BY Zenon DEF Flush, aof, ghost
<1>2. rw = "idle" /\ writeMu = p /\ \A q \in Clients : q # p => pc[q] = "idle"
  BY Zenon, <1>0, <1>1, Writing
<1>3. /\ mem \in Seq(W) /\ promise \in Nat /\ dpromise \in Nat /\ f \in Files /\ op[p] \in W
      /\ f.synced \in Nat /\ f.size \in Nat /\ f.writes \in Seq(W)
      /\ FileOK(f) /\ Keeps(f, mem, promise, dpromise) /\ (f.tail = "clean" => mem = Append(f.writes, op[p]))
  BY Zenon, <1>0, <1>1 DEF TypeOK, W, FilesOK, HandleOK, AllIn, Files
<1> HIDE DEF f
<1>4. /\ g \in Files /\ g.synced = f.synced /\ g.size = f.size + 1
      /\ f.tail = "clean" => g.writes = Append(f.writes, op[p]) /\ g.tail = "clean"
      /\ f.tail # "clean" => g.writes = f.writes /\ g.tail = "bad"
  BY <1>3, ExtendFacts, Zenon
<1>5. Keeps(g, mem, promise, dpromise)
  BY Zenon, <1>3, KeepsGrow
<1> HIDE DEF g
<1>6. FileOK(g)
  <2>1. Len(g.writes) \in {Len(f.writes), Len(f.writes) + 1} /\ Len(f.writes) \in Nat
    BY <1>3, <1>4
  <2>2. /\ f.synced \in Nat /\ f.size \in Nat /\ g.synced = f.synced /\ g.size = f.size + 1
        /\ f.synced <= Len(f.writes) /\ Len(f.writes) - f.synced <= f.size
    BY <1>3, <1>4, Zenon DEF FileOK
  <2> QED
    BY SMTT(30), <2>1, <2>2 DEF FileOK
<1>7. files' \in [Inodes -> Files] /\ files'[handle] = g /\ \A i \in Inodes : i # handle => files'[i] = files[i]
  BY <1>0, <1>1, <1>4, HandleFile, Zenon
<1>8. /\ pc'[p] = IF mode = "always" THEN "flushed" ELSE "appended"
      /\ \A q \in Clients : q # p => pc'[q] = "idle"
  BY Zenon, <1>0, <1>1, <1>2 DEF TypeOK
<1>9. TypeOK'
  BY Zenon, <1>0, <1>1, <1>7 DEF TypeOK
<1>10. FilesOK'
  BY Zenon, <1>0, <1>6, <1>7 DEF FilesOK
<1>11. LockOK'
  BY Zenon, <1>0, <1>1, <1>2, <1>8, AofAssumption DEF LockOK
<1>12. HandleOK'
  BY Zenon, <1>1, <1>5, <1>7 DEF HandleOK
<1>13. AllIn' /\ FlushedOK'
  <2>1. g.tail \in {"clean", "bad"} /\ (g.tail = "clean" => mem = g.writes)
    BY <1>3, <1>4, Zenon
  <2>2. \A q \in Clients : pc'[q] # "applied" /\ (pc'[q] = "appended" => mode # "always")
    BY Zenon, <1>8
  <2> QED
    BY Zenon, <1>1, <1>7, <2>1, <2>2 DEF AllIn, FlushedOK
<1>14. PromiseOK' /\ PathOK'
  BY Zenon, <1>0, <1>1, <1>2, <1>7 DEF PromiseOK, PathOK, TypeOK
<1> QED
  BY Zenon, <1>9, <1>10, <1>11, <1>12, <1>13, <1>14 DEF Inv

\* The write fails: the buffer has failed for good.
LEMMA FlushFailsStep ==
  ASSUME NEW p \in Clients, FlushFails(p), Inv PROVE Inv'
<1>0. TypeOK /\ FilesOK /\ LockOK /\ HandleOK /\ AllIn /\ FlushedOK /\ PromiseOK /\ PathOK
  BY Zenon DEF Inv
<1> DEFINE f == files[handle]
<1>1. /\ up /\ pc[p] = "applied" /\ werr' = TRUE /\ pc' = [pc EXCEPT ![p] = "failed"]
      /\ files' \in {files, [files EXCEPT ![handle] = Torn(f)]}
      /\ UNCHANGED <<up, mem, writes, writeMu, op, path, dpath, full, handle, mode, baseSize, rw,
                     promise, dpromise, crashes>>
  BY Zenon DEF FlushFails, ghost
<1>2. rw = "idle" /\ writeMu = p /\ \A q \in Clients : q # p => pc[q] = "idle"
  BY Zenon, <1>0, <1>1, Writing
<1>3. /\ files' \in [Inodes -> Files] /\ \A i \in Inodes : i # handle => files'[i] = files[i]
      /\ FileOK(files'[handle]) /\ Keeps(files'[handle], mem, promise, dpromise)
  <2>1. /\ f \in Files /\ FileOK(f) /\ Keeps(f, mem, promise, dpromise) /\ mem \in Seq(W)
        /\ promise \in Nat /\ dpromise \in Nat /\ dpromise <= promise /\ files \in [Inodes -> Files]
    BY Zenon, <1>0 DEF TypeOK, W, FilesOK, HandleOK, PromiseOK
  <2> HIDE DEF f
  <2>2. Torn(f) \in Files /\ FileOK(Torn(f)) /\ Keeps(Torn(f), mem, promise, dpromise)
    BY Zenon, <2>1, TornFacts, KeepsSame DEF FileOK
  <2>3. CASE files' = files
    BY Zenon, <2>1, <2>3 DEF f
  <2>4. CASE files' = [files EXCEPT ![handle] = Torn(f)]
    BY <1>0, <2>2, <2>4, HandleFile, Zenon
  <2> QED
    BY Zenon, <1>1, <2>3, <2>4
<1>4. pc'[p] = "failed" /\ \A q \in Clients : q # p => pc'[q] = "idle"
  BY Zenon, <1>0, <1>1, <1>2 DEF TypeOK
<1>5. TypeOK'
  BY Zenon, <1>0, <1>1, <1>3 DEF TypeOK
<1>6. FilesOK'
  BY Zenon, <1>0, <1>3 DEF FilesOK
<1>7. LockOK'
  BY Zenon, <1>0, <1>1, <1>2, <1>4, AofAssumption DEF LockOK
<1>8. HandleOK'
  BY Zenon, <1>1, <1>3 DEF HandleOK
<1>9. AllIn' /\ FlushedOK'
  BY Zenon, <1>1, <1>4 DEF AllIn, FlushedOK
<1>10. PromiseOK' /\ PathOK'
  BY Zenon, <1>0, <1>1, <1>2, <1>3 DEF PromiseOK, PathOK, TypeOK
<1> QED
  BY Zenon, <1>5, <1>6, <1>7, <1>8, <1>9, <1>10 DEF Inv

\* The file is synced.
LEMMA SyncFile ==
  ASSUME TypeOK, FilesOK, HandleOK, PromiseOK, files' = [files EXCEPT ![handle] = Synced(files[handle])]
  PROVE  /\ files' \in [Inodes -> Files] /\ FilesOK' /\ \A i \in Inodes : i # handle => files'[i] = files[i]
         /\ files'[handle].writes = files[handle].writes /\ files'[handle].tail = files[handle].tail
         /\ files'[handle].synced = Len(files'[handle].writes)
         /\ Keeps(files'[handle], mem, promise, dpromise) /\ Keeps(files'[handle], mem, promise, promise)
<1> DEFINE f == files[handle]
<1>1. /\ f \in Files /\ FileOK(f) /\ Keeps(f, mem, promise, dpromise) /\ mem \in Seq(W)
      /\ promise \in Nat /\ dpromise \in Nat /\ dpromise <= promise /\ handle \in Inodes
      /\ f.synced \in Nat /\ f.size \in Nat /\ Len(f.writes) \in Nat
  BY SMTT(30) DEF TypeOK, W, FilesOK, HandleOK, PromiseOK, Files
<1>2. files' = [files EXCEPT ![handle] = Synced(f)]
  BY Zenon
<1> HIDE DEF f
<1>3. /\ Synced(f) \in Files /\ Synced(f).writes = f.writes /\ Synced(f).synced = Len(f.writes)
      /\ Synced(f).size = f.size /\ Synced(f).tail = f.tail
  BY Zenon, <1>1, SyncedFacts
<1>4. FileOK(Synced(f))
  BY <1>1, <1>3 DEF FileOK
<1>5. Keeps(Synced(f), mem, promise, dpromise) /\ Keeps(Synced(f), mem, promise, promise)
  BY Zenon, <1>1, KeepsSame
<1>6. /\ files' \in [Inodes -> Files] /\ files'[handle] = Synced(f)
      /\ \A i \in Inodes : i # handle => files'[i] = files[i]
  BY <1>2, <1>3, HandleFile, Zenon
<1>7. FilesOK'
  BY Zenon, <1>4, <1>6 DEF FilesOK
<1> QED
  BY Zenon, <1>3, <1>5, <1>6, <1>7 DEF f

\* The write is synced.
LEMMA FsyncStep ==
  ASSUME NEW p \in Clients, Fsync(p), Inv PROVE Inv'
<1>0. TypeOK /\ FilesOK /\ LockOK /\ HandleOK /\ AllIn /\ FlushedOK /\ PromiseOK /\ PathOK
  BY Zenon DEF Inv
<1>1. /\ up /\ pc[p] = "flushed" /\ pc' = [pc EXCEPT ![p] = "appended"]
      /\ files' = [files EXCEPT ![handle] = Synced(files[handle])]
      /\ UNCHANGED <<up, mem, writes, writeMu, op, path, dpath, full, handle, mode, werr, baseSize, rw,
                     promise, dpromise, crashes>>
  BY Zenon DEF Fsync, aof, ghost
<1>2. rw = "idle" /\ writeMu = p /\ \A q \in Clients : q # p => pc[q] = "idle"
  BY Zenon, <1>0, <1>1, Writing
<1>3. /\ files' \in [Inodes -> Files] /\ FilesOK' /\ \A i \in Inodes : i # handle => files'[i] = files[i]
      /\ files'[handle].writes = files[handle].writes /\ files'[handle].tail = files[handle].tail
      /\ files'[handle].synced = Len(files'[handle].writes)
      /\ Keeps(files'[handle], mem, promise, dpromise)
  BY Zenon, <1>0, <1>1, SyncFile
<1>4. pc'[p] = "appended" /\ \A q \in Clients : q # p => pc'[q] = "idle"
  BY Zenon, <1>0, <1>1, <1>2 DEF TypeOK
<1>5. TypeOK'
  BY Zenon, <1>0, <1>1, <1>3 DEF TypeOK
<1>6. LockOK'
  BY Zenon, <1>0, <1>1, <1>2, <1>4, AofAssumption DEF LockOK
<1>7. HandleOK'
  BY Zenon, <1>1, <1>3 DEF HandleOK
<1>8. AllIn' /\ FlushedOK'
  BY Zenon, <1>0, <1>1, <1>2, <1>3, <1>4 DEF AllIn, FlushedOK
<1>9. PromiseOK' /\ PathOK'
  BY Zenon, <1>0, <1>1, <1>2, <1>3 DEF PromiseOK, PathOK, TypeOK
<1> QED
  BY Zenon, <1>3, <1>5, <1>6, <1>7, <1>8, <1>9 DEF Inv

\* The client gets its reply: what is in the file is promised.
LEMMA ReplyStep ==
  ASSUME NEW p \in Clients, Reply(p), Inv PROVE Inv'
<1>0. TypeOK /\ FilesOK /\ LockOK /\ HandleOK /\ AllIn /\ FlushedOK /\ PromiseOK /\ PathOK
  BY Zenon DEF Inv
<1> DEFINE f == files[handle]
<1>1. /\ up /\ pc[p] \in {"appended", "failed"} /\ pc' = [pc EXCEPT ![p] = "idle"] /\ writeMu' = None
      /\ promise' = IF pc[p] = "appended" THEN Len(mem) ELSE promise
      /\ dpromise' = IF pc[p] = "appended" /\ mode = "always" THEN Len(mem) ELSE dpromise
      /\ UNCHANGED <<up, mem, writes, op, files, path, dpath, full, handle, mode, werr, baseSize, rw, crashes>>
  BY Zenon DEF Reply, disk, aof
<1>2. rw = "idle" /\ writeMu = p /\ \A q \in Clients : q # p => pc[q] = "idle"
  BY Zenon, <1>0, <1>1, Writing
<1>3. \A q \in Clients : pc'[q] = "idle"
  BY Zenon, <1>0, <1>1, <1>2 DEF TypeOK
<1>4. /\ mem \in Seq(W) /\ Len(mem) \in Nat /\ promise \in Nat /\ dpromise \in Nat /\ f.synced \in Nat
      /\ f.tail \in {"clean", "torn", "bad"} /\ Len(f.writes) \in Nat
      /\ promise <= Len(mem) /\ dpromise <= promise /\ Keeps(f, mem, promise, dpromise)
  BY SMTT(30), <1>0 DEF TypeOK, W, Files, HandleOK, PromiseOK
<1>5. pc[p] = "appended" => /\ f.tail = "bad" \/ mem = f.writes
                            /\ mode = "always" => f.synced = Len(f.writes)
  BY Zenon, <1>0, <1>1, <1>2, <1>4 DEF AllIn, FlushedOK
<1> HIDE DEF f
<1>6. promise' \in Nat /\ dpromise' \in Nat
  BY Zenon, <1>1, <1>4
<1>7. TypeOK'
  BY Zenon, <1>0, <1>1, <1>3, <1>6 DEF TypeOK
<1>8. FilesOK' /\ PathOK'
  BY Zenon, <1>0, <1>1 DEF FilesOK, PathOK
<1>9. LockOK'
  BY Zenon, <1>0, <1>1, <1>2, <1>3, AofAssumption DEF LockOK
<1>10. Keeps(f, mem, promise', dpromise')
  BY <1>1, <1>4, <1>5 DEF Keeps
<1>11. HandleOK'
  BY Zenon, <1>1, <1>10 DEF HandleOK, f
<1>12. AllIn' /\ FlushedOK'
  BY Zenon, <1>0, <1>1, <1>2, <1>3 DEF AllIn, FlushedOK
<1>13. PromiseOK'
  BY <1>1, <1>4 DEF PromiseOK
<1> QED
  BY Zenon, <1>7, <1>8, <1>9, <1>11, <1>12, <1>13 DEF Inv

\* The ticker syncs the file.
LEMMA syncEverySecStep ==
  ASSUME syncEverySec, Inv PROVE Inv'
<1>0. TypeOK /\ FilesOK /\ LockOK /\ HandleOK /\ AllIn /\ FlushedOK /\ PromiseOK /\ PathOK
  BY Zenon DEF Inv
<1>1. /\ files' = [files EXCEPT ![handle] = Synced(files[handle])] /\ dpromise' = promise /\ rw = "idle"
      /\ UNCHANGED <<up, mem, writes, writeMu, pc, op, path, dpath, full, handle, mode, werr, baseSize, rw,
                     promise, crashes>>
  BY Zenon DEF syncEverySec, server, aof
<1>2. /\ files' \in [Inodes -> Files] /\ FilesOK' /\ \A i \in Inodes : i # handle => files'[i] = files[i]
      /\ files'[handle].writes = files[handle].writes /\ files'[handle].tail = files[handle].tail
      /\ files'[handle].synced = Len(files'[handle].writes)
      /\ Keeps(files'[handle], mem, promise, promise)
  BY Zenon, <1>0, <1>1, SyncFile
<1>3. TypeOK'
  BY Zenon, <1>0, <1>1, <1>2 DEF TypeOK
<1>4. LockOK'
  BY Zenon, <1>0, <1>1 DEF LockOK
<1>5. HandleOK'
  BY Zenon, <1>1, <1>2 DEF HandleOK
<1>6. AllIn' /\ FlushedOK'
  BY Zenon, <1>0, <1>1, <1>2 DEF AllIn, FlushedOK
<1>7. PromiseOK' /\ PathOK'
  BY <1>0, <1>1, <1>2 DEF PromiseOK, PathOK, TypeOK
<1> QED
  BY Zenon, <1>2, <1>3, <1>4, <1>5, <1>6, <1>7 DEF Inv

\* The rewrite takes the lock, or gives it back with the files as they were.
LEMMA LockStep ==
  ASSUME rewriteAOF \/ RewriteFails \/ ReopenFails, Inv PROVE Inv'
<1>0. TypeOK /\ FilesOK /\ LockOK /\ HandleOK /\ AllIn /\ FlushedOK /\ PromiseOK /\ PathOK
  BY Zenon DEF Inv
<1>1. /\ up /\ UNCHANGED <<up, mem, writes, pc, op, files, path, dpath, full, handle, mode, werr, baseSize,
                           promise, dpromise, crashes>>
      /\ \/ writeMu = None /\ writeMu' = Rewriter /\ rw' = "snapshot"
         \/ rw # "idle" /\ writeMu' = None /\ rw' = "idle"
  BY Zenon DEF rewriteAOF, RewriteFails, ReopenFails, disk, aof, ghost
<1>2. \A p \in Clients : pc[p] = "idle"
  BY Zenon, <1>0, <1>1, Quiet
<1>3. TypeOK'
  BY Zenon, <1>0, <1>1 DEF TypeOK
<1>4. LockOK'
  BY Zenon, <1>0, <1>1, <1>2, AofAssumption DEF LockOK
<1>5. FilesOK' /\ HandleOK' /\ PromiseOK' /\ PathOK'
  BY Zenon, <1>0, <1>1 DEF FilesOK, HandleOK, PromiseOK, PathOK
<1>6. AllIn' /\ FlushedOK'
  BY Zenon, <1>0, <1>1 DEF AllIn, FlushedOK
<1> QED
  BY Zenon, <1>3, <1>4, <1>5, <1>6 DEF Inv

\* There is an inode to spare.
LEMMA Fresh ==
  ASSUME NEW a \in Inodes, NEW b \in Inodes, NEW c \in Inodes
  PROVE  \E i \in Inodes : i \notin {a, b, c}
  BY DEF Inodes

\* The snapshot takes the log's name.
LEMMA RenameFile ==
  ASSUME TypeOK, Rename
  PROVE  /\ path' \in Inodes /\ path' \notin {path, handle, dpath} /\ files' \in [Inodes -> Files]
         /\ \A i \in Inodes : i # path' => files'[i] = files[i]
         /\ files'[path'].writes = mem /\ files'[path'].synced = Len(mem) /\ files'[path'].tail = "clean"
         /\ FileOK(files'[path']) /\ dpath' \in {dpath, path'} /\ ("direntry" \notin Faults => dpath' = path')
<1>1. /\ path \in Inodes /\ handle \in Inodes /\ dpath \in Inodes /\ files \in [Inodes -> Files]
      /\ mem \in Seq(W) /\ Len(mem) \in Nat
  BY DEF TypeOK, W
<1>2. path' \in Inodes /\ path' \notin {path, handle, dpath}
  BY <1>1, Fresh, Zenon DEF Rename, FreshInode
<1>3. PICK n \in 0 .. Len(mem) :
        files' = [files EXCEPT ![path'] = [writes |-> mem, size |-> n, synced |-> Len(mem), tail |-> "clean"]]
  BY Zenon DEF Rename
<1> DEFINE g == [writes |-> mem, size |-> n, synced |-> Len(mem), tail |-> "clean"]
<1>4. g \in Files
  <2>1. n \in Nat
    BY <1>1
  <2> QED
    BY <1>1, <2>1, Zenon DEF Files, W
<1>5. /\ g.writes = mem /\ g.synced = Len(mem) /\ g.tail = "clean" /\ FileOK(g)
  BY <1>1 DEF FileOK
<1> HIDE DEF g
<1>6. files' = [files EXCEPT ![path'] = g]
  BY Zenon, <1>3 DEF g
<1>7. files' \in [Inodes -> Files] /\ files'[path'] = g /\ \A i \in Inodes : i # path' => files'[i] = files[i]
  BY <1>1, <1>2, <1>4, <1>6, Zenon
<1>8. dpath' \in {dpath, path'} /\ ("direntry" \notin Faults => dpath' = path')
  BY Zenon DEF Rename
<1> QED
  BY <1>2, <1>5, <1>7, <1>8, Zenon

\* The rename of a rewritten log keeps the invariant.
LEMMA RenameStep ==
  ASSUME Rename, Inv PROVE Inv'
<1>0. TypeOK /\ FilesOK /\ LockOK /\ HandleOK /\ AllIn /\ FlushedOK /\ PromiseOK /\ PathOK
  BY Zenon DEF Inv
<1>1. /\ rw = "snapshot" /\ rw' = "renamed"
      /\ UNCHANGED <<up, mem, writes, writeMu, pc, op, full, handle, mode, werr, baseSize,
                     promise, dpromise, crashes>>
  BY Zenon DEF Rename, server, aof, ghost
<1>2. /\ path' \in Inodes /\ path' # handle /\ files' \in [Inodes -> Files]
      /\ \A i \in Inodes : i # path' => files'[i] = files[i]
      /\ files'[path'].writes = mem /\ files'[path'].synced = Len(mem) /\ files'[path'].tail = "clean"
      /\ FileOK(files'[path']) /\ dpath' \in {dpath, path'}
  BY Zenon, <1>0, RenameFile
<1>3. handle \in Inodes /\ files'[handle] = files[handle]
  BY Zenon, <1>0, <1>2 DEF TypeOK
<1>4. TypeOK'
  BY Zenon, <1>0, <1>1, <1>2 DEF TypeOK
<1>5. FilesOK'
  BY Zenon, <1>0, <1>2 DEF FilesOK
<1>6. LockOK' /\ HandleOK' /\ PromiseOK'
  BY Zenon, <1>0, <1>1, <1>3 DEF LockOK, HandleOK, PromiseOK
<1>7. AllIn' /\ FlushedOK'
  BY Zenon, <1>0, <1>1, <1>3 DEF AllIn, FlushedOK
<1>8. PathOK'
  BY Zenon, <1>1, <1>2 DEF PathOK
<1> QED
  BY Zenon, <1>4, <1>5, <1>6, <1>7, <1>8 DEF Inv

\* The files that are left when the others are gone.
LEMMA KeepFiles ==
  ASSUME TypeOK, FilesOK, files' = Keep({path, dpath})
  PROVE  /\ files' \in [Inodes -> Files] /\ FilesOK'
         /\ files'[path] = files[path] /\ files'[dpath] = files[dpath]
         /\ \A i \in Inodes : files'[i] \in {files[i], EmptyFile}
<1>1. files \in [Inodes -> Files] /\ path \in Inodes /\ dpath \in Inodes
  BY Zenon DEF TypeOK
<1>2. EmptyFile \in Files /\ FileOK(EmptyFile)
  <2>1. <<>> \in Seq(W) /\ 0 \in Nat /\ Len(<<>>) = 0
    OBVIOUS
  <2>2. EmptyFile \in Files
    BY <2>1, Zenon DEF EmptyFile, Files, W
  <2> QED
    BY <2>1, <2>2 DEF EmptyFile, FileOK
<1>3. files' = [i \in Inodes |-> IF i \in {path, dpath} THEN files[i] ELSE EmptyFile]
  BY Zenon DEF Keep
<1>4. \A i \in Inodes : files'[i] = IF i \in {path, dpath} THEN files[i] ELSE EmptyFile
  BY Zenon, <1>3
<1>5. files' \in [Inodes -> Files]
  BY <1>1, <1>2, <1>3, <1>4, Zenon
<1>6. FilesOK'
  BY <1>2, <1>4, Zenon DEF FilesOK
<1> QED
  BY <1>1, <1>4, <1>5, <1>6, Zenon

\* The server appends to the snapshot from now on.
LEMMA ReopenStep ==
  ASSUME Reopen, Inv PROVE Inv'
<1>0. TypeOK /\ FilesOK /\ LockOK /\ HandleOK /\ AllIn /\ FlushedOK /\ PromiseOK /\ PathOK
  BY Zenon DEF Inv
<1>1. /\ rw = "renamed" /\ rw' = "idle" /\ writeMu' = None /\ handle' = path /\ werr' = FALSE
      /\ baseSize' = files[path].size /\ files' = Keep({path, dpath})
      /\ UNCHANGED <<up, mem, writes, pc, op, path, dpath, full, mode, promise, dpromise, crashes>>
  BY Zenon DEF Reopen, ghost
<1>2. /\ files' \in [Inodes -> Files] /\ FilesOK' /\ files'[path] = files[path]
  BY Zenon, <1>0, <1>1, KeepFiles
<1>3. (\A p \in Clients : pc[p] = "idle") /\ up
  BY Zenon, <1>0, <1>1, Quiet
<1>4. /\ files[path] \in Files /\ files[path].size \in Nat /\ mem \in Seq(W) /\ Len(mem) \in Nat
      /\ promise \in Nat /\ dpromise \in Nat
      /\ files[path].writes = mem /\ files[path].synced = Len(mem) /\ promise <= Len(mem) /\ dpromise <= promise
  BY <1>0, <1>1 DEF TypeOK, W, Files, PathOK, PromiseOK
<1>5. TypeOK'
  BY <1>0, <1>1, <1>2, <1>4, Zenon DEF TypeOK
<1>6. LockOK'
  BY Zenon, <1>0, <1>1, <1>3, AofAssumption DEF LockOK
<1>7. HandleOK'
  <2>1. promise \in 0 .. Len(mem) /\ dpromise \in 0 .. promise
    BY <1>4
  <2>2. Keeps(files[path], mem, promise, dpromise)
    BY Zenon, <1>4, <2>1, KeepsAll
  <2> QED
    BY Zenon, <1>1, <1>2, <2>2 DEF HandleOK
<1>8. AllIn' /\ FlushedOK'
  BY Zenon, <1>1, <1>2, <1>3, <1>4 DEF AllIn, FlushedOK
<1>9. PromiseOK' /\ PathOK'
  BY Zenon, <1>0, <1>1 DEF PromiseOK, PathOK
<1> QED
  BY Zenon, <1>2, <1>5, <1>6, <1>7, <1>8, <1>9 DEF Inv

\* The disk fills up or gets space.
LEMMA DiskFullStep ==
  ASSUME DiskFull, Inv PROVE Inv'
<1>0. TypeOK /\ FilesOK /\ LockOK /\ HandleOK /\ AllIn /\ FlushedOK /\ PromiseOK /\ PathOK
  BY Zenon DEF Inv
<1>1. /\ full' \in BOOLEAN
      /\ UNCHANGED <<up, mem, writes, writeMu, pc, op, files, path, dpath, handle, mode, werr, baseSize, rw,
                     promise, dpromise, crashes>>
  BY Zenon, <1>0 DEF DiskFull, TypeOK, server, aof, ghost
<1>2. TypeOK'
  BY Zenon, <1>0, <1>1 DEF TypeOK
<1>3. FilesOK' /\ LockOK' /\ HandleOK' /\ PromiseOK' /\ PathOK'
  BY Zenon, <1>0, <1>1 DEF FilesOK, LockOK, HandleOK, PromiseOK, PathOK
<1>4. AllIn' /\ FlushedOK'
  BY Zenon, <1>0, <1>1 DEF AllIn, FlushedOK
<1> QED
  BY Zenon, <1>2, <1>3, <1>4 DEF Inv

\* What is left of the server when it stops.
LEMMA StopFacts ==
  ASSUME TypeOK, Stop
  PROVE  /\ up' = FALSE /\ writeMu' = None /\ rw' = "idle" /\ \A p \in Clients : pc'[p] = "idle"
         /\ UNCHANGED <<mem, writes, op, full, handle, mode, werr, baseSize>>
         /\ LockOK' /\ AllIn' /\ FlushedOK'
<1>1. /\ up' = FALSE /\ writeMu' = None /\ rw' = "idle" /\ \A p \in Clients : pc'[p] = "idle"
      /\ UNCHANGED <<mem, writes, op, full, handle, mode, werr, baseSize>>
  BY Zenon DEF Stop, aof
<1>2. LockOK' /\ AllIn' /\ FlushedOK'
  BY Zenon, <1>1, AofAssumption DEF LockOK, AllIn, FlushedOK
<1> QED
  BY Zenon, <1>1, <1>2

\* The type of what Stop, and a change of the files and the promises, leaves.
LEMMA StopType ==
  ASSUME TypeOK, Stop, files' \in [Inodes -> Files], path' \in Inodes, dpath' \in Inodes,
         promise' \in Nat, dpromise' \in Nat, crashes' \in Nat
  PROVE  TypeOK'
  BY Zenon DEF TypeOK, Stop, aof

\* The server is killed.
LEMMA KillStep ==
  ASSUME Kill, Inv PROVE Inv'
<1>0. TypeOK /\ FilesOK /\ LockOK /\ HandleOK /\ AllIn /\ FlushedOK /\ PromiseOK /\ PathOK
  BY Zenon DEF Inv
<1> DEFINE f == files[handle]
<1>1. /\ Stop /\ files' \in {files, [files EXCEPT ![handle] = Torn(f)]}
      /\ crashes' \in Nat /\ UNCHANGED <<path, dpath, promise, dpromise>>
  BY <1>0 DEF Kill, TypeOK
<1>2. /\ files' \in [Inodes -> Files] /\ \A i \in Inodes : i # handle => files'[i] = files[i]
      /\ FileOK(files'[handle]) /\ Keeps(files'[handle], mem, promise, dpromise)
  <2>1. /\ f \in Files /\ FileOK(f) /\ Keeps(f, mem, promise, dpromise) /\ mem \in Seq(W)
        /\ promise \in Nat /\ dpromise \in Nat /\ dpromise <= promise /\ files \in [Inodes -> Files]
    BY Zenon, <1>0 DEF TypeOK, W, FilesOK, HandleOK, PromiseOK
  <2> HIDE DEF f
  <2>2. Torn(f) \in Files /\ FileOK(Torn(f)) /\ Keeps(Torn(f), mem, promise, dpromise)
    BY Zenon, <2>1, TornFacts, KeepsSame DEF FileOK
  <2>3. CASE files' = files
    BY Zenon, <2>1, <2>3 DEF f
  <2>4. CASE files' = [files EXCEPT ![handle] = Torn(f)]
    BY <1>0, <2>2, <2>4, HandleFile, Zenon
  <2> QED
    BY Zenon, <1>1, <2>3, <2>4
<1>3. /\ rw' = "idle" /\ mem' = mem /\ handle' = handle /\ LockOK' /\ AllIn' /\ FlushedOK'
  BY Zenon, <1>0, <1>1, StopFacts
<1>4. TypeOK'
  <2>1. path' \in Inodes /\ dpath' \in Inodes /\ promise' \in Nat /\ dpromise' \in Nat
    BY Zenon, <1>0, <1>1 DEF TypeOK
  <2> QED
    BY Zenon, <1>0, <1>1, <1>2, <2>1, StopType
<1>5. FilesOK' /\ HandleOK'
  BY Zenon, <1>0, <1>1, <1>2, <1>3 DEF FilesOK, HandleOK
<1>6. PromiseOK' /\ PathOK'
  BY Zenon, <1>0, <1>1, <1>2, <1>3 DEF PromiseOK, PathOK, TypeOK
<1> QED
  BY Zenon, <1>3, <1>4, <1>5, <1>6 DEF Inv

\* The power is cut.
LEMMA PowerCutStep ==
  ASSUME PowerCut, Inv PROVE Inv'
<1>0. TypeOK /\ FilesOK /\ LockOK /\ HandleOK /\ AllIn /\ FlushedOK /\ PromiseOK /\ PathOK
  BY Zenon DEF Inv
<1>1. /\ Stop /\ path' = dpath /\ promise' = dpromise /\ crashes' \in Nat /\ UNCHANGED <<dpath, dpromise>>
  BY <1>0 DEF PowerCut, TypeOK
<1>2. /\ files \in [Inodes -> Files] /\ dpath \in Inodes /\ handle \in Inodes /\ mem \in Seq(W)
      /\ promise \in Nat /\ dpromise \in Nat /\ dpromise <= promise /\ Len(mem) \in Nat
      /\ promise <= Len(mem) /\ Keeps(files[handle], mem, promise, dpromise) /\ \A i \in Inodes : FileOK(files[i])
  BY <1>0 DEF TypeOK, W, FilesOK, HandleOK, PromiseOK
<1>3. PICK g \in Remains(files[dpath]) : files' = [files EXCEPT ![dpath] = g]
  BY Zenon DEF PowerCut
<1>4. g \in Files /\ g.synced = Len(g.writes) /\ FileOK(g)
  BY Zenon, <1>2, RemainsFacts
<1>5. /\ files' \in [Inodes -> Files] /\ files'[dpath] = g
      /\ \A i \in Inodes : i # dpath => files'[i] = files[i]
  BY <1>2, <1>3, <1>4, Zenon
<1>6. Keeps(files'[handle], mem, dpromise, dpromise)
  <2>1. Keeps(files[handle], mem, dpromise, dpromise)
    BY Zenon, <1>2, KeepsCut
  <2>2. CASE handle = dpath
    BY Zenon, <1>2, <1>3, <1>5, <2>2, KeepsCut
  <2> QED
    BY Zenon, <1>2, <1>5, <2>1, <2>2
<1>7. /\ rw' = "idle" /\ mem' = mem /\ handle' = handle /\ LockOK' /\ AllIn' /\ FlushedOK'
  BY Zenon, <1>0, <1>1, StopFacts
<1>8. TypeOK'
  <2>1. path' \in Inodes /\ dpath' \in Inodes /\ promise' \in Nat /\ dpromise' \in Nat
    BY Zenon, <1>1, <1>2
  <2> QED
    BY Zenon, <1>0, <1>1, <1>5, <2>1, StopType
<1>9. FilesOK' /\ HandleOK'
  BY Zenon, <1>1, <1>2, <1>4, <1>5, <1>6, <1>7 DEF FilesOK, HandleOK
<1>10. PromiseOK' /\ PathOK'
  BY <1>1, <1>2, <1>4, <1>5, <1>7 DEF PromiseOK, PathOK
<1> QED
  BY Zenon, <1>7, <1>8, <1>9, <1>10 DEF Inv

\* The server is shut down.
LEMMA CloseStep ==
  ASSUME Close, Inv PROVE Inv'
<1>0. TypeOK /\ FilesOK /\ LockOK /\ HandleOK /\ AllIn /\ FlushedOK /\ PromiseOK /\ PathOK
  BY Zenon DEF Inv
<1>1. /\ Stop /\ files' = [files EXCEPT ![handle] = Synced(files[handle])] /\ dpromise' = promise
      /\ UNCHANGED <<path, dpath, promise, crashes>>
  BY Zenon DEF Close
<1>2. /\ files' \in [Inodes -> Files] /\ FilesOK' /\ \A i \in Inodes : i # handle => files'[i] = files[i]
      /\ Keeps(files'[handle], mem, promise, promise)
  BY Zenon, <1>0, <1>1, SyncFile
<1>3. /\ rw' = "idle" /\ mem' = mem /\ handle' = handle /\ LockOK' /\ AllIn' /\ FlushedOK'
  BY Zenon, <1>0, <1>1, StopFacts
<1>4. TypeOK'
  <2>1. path' \in Inodes /\ dpath' \in Inodes /\ promise' \in Nat /\ dpromise' \in Nat /\ crashes' \in Nat
    BY Zenon, <1>0, <1>1 DEF TypeOK
  <2> QED
    BY Zenon, <1>0, <1>1, <1>2, <2>1, StopType
<1>5. HandleOK'
  BY Zenon, <1>1, <1>2, <1>3 DEF HandleOK
<1>6. PromiseOK' /\ PathOK'
  BY <1>0, <1>1, <1>2, <1>3 DEF PromiseOK, PathOK, TypeOK
<1> QED
  BY Zenon, <1>2, <1>3, <1>4, <1>5, <1>6 DEF Inv

\* What recovery makes of the store.
LEMMA LoadFacts ==
  ASSUME TypeOK, loadAOF
  PROVE  /\ mem' \in Seq(W) /\ Prefix(files[path].writes, mem')
         /\ files[path].tail # "bad" => mem' = files[path].writes
         /\ promise' = Least(promise, Len(mem')) /\ dpromise' = Least(dpromise, Len(mem'))
<1>1. files[path].writes \in Seq(W) /\ Garbage \in W /\ writes \in Nat
  BY AofAssumption DEF TypeOK, Files, W, Garbage
<1>2. PICK n \in 0 .. IF files[path].tail = "bad" THEN writes ELSE 0 :
        mem' = files[path].writes \o [i \in 1 .. n |-> Garbage]
  BY Zenon DEF loadAOF
<1>3. n \in Nat /\ (files[path].tail # "bad" => n = 0)
  BY <1>1, <1>2
<1> DEFINE s == files[path].writes
           g == [i \in 1 .. n |-> Garbage]
<1>4. g \in Seq(W) /\ Len(g) = n
  BY <1>1, <1>3
<1>5. s \in Seq(W) /\ mem' = s \o g
  BY Zenon, <1>1, <1>2
<1> HIDE DEF s, g
<1>6. s \o g \in Seq(W) /\ Prefix(s, s \o g)
  BY <1>4, <1>5 DEF Prefix
<1>7. n = 0 => s \o g = s
  BY <1>4, <1>5
<1>8. promise' = Least(promise, Len(mem')) /\ dpromise' = Least(dpromise, Len(mem'))
  BY Zenon DEF loadAOF
<1> QED
  BY Zenon, <1>3, <1>5, <1>6, <1>7, <1>8 DEF s

\* The server recovers from the log.
LEMMA loadAOFStep ==
  ASSUME loadAOF, Inv PROVE Inv'
<1>0. TypeOK /\ FilesOK /\ LockOK /\ HandleOK /\ AllIn /\ FlushedOK /\ PromiseOK /\ PathOK
  BY Zenon DEF Inv
<1> DEFINE f == files[path]
<1>1. /\ ~up /\ up' = TRUE /\ mode' \in Modes /\ handle' = path /\ werr' = FALSE /\ baseSize' = files[path].size
      /\ files' = Keep({path, dpath})
      /\ UNCHANGED <<writes, writeMu, pc, op, path, dpath, full, rw, crashes>>
  BY Zenon DEF loadAOF
<1>2. /\ mem' \in Seq(W) /\ Prefix(f.writes, mem') /\ (f.tail # "bad" => mem' = f.writes)
      /\ promise' = Least(promise, Len(mem')) /\ dpromise' = Least(dpromise, Len(mem'))
  BY Zenon, <1>0, LoadFacts
<1>3. /\ files' \in [Inodes -> Files] /\ FilesOK' /\ files'[path] = f
  BY Zenon, <1>0, <1>1, KeepFiles
<1>4. (\A p \in Clients : pc[p] = "idle") /\ rw = "idle" /\ writeMu = None
  BY Zenon, <1>0, <1>1, Quiet DEF LockOK
<1>5. /\ f \in Files /\ f.size \in Nat /\ f.synced \in Nat /\ f.writes \in Seq(W) /\ Len(f.writes) \in Nat
      /\ promise \in Nat /\ dpromise \in Nat /\ Len(mem') \in Nat /\ dpromise <= promise
      /\ f.synced <= Len(f.writes)
  <2>1. f \in Files /\ path \in Inodes /\ promise \in Nat /\ dpromise \in Nat
    BY Zenon, <1>0 DEF TypeOK
  <2>2. f.synced <= Len(f.writes) /\ dpromise <= promise
    BY Zenon, <1>0, <2>1 DEF FilesOK, FileOK, PromiseOK
  <2> HIDE DEF f
  <2>3. f.size \in Nat /\ f.synced \in Nat /\ f.writes \in Seq(W)
    BY Zenon, <2>1 DEF Files, W
  <2> QED
    BY <1>2, <2>1, <2>2, <2>3
<1>6. \/ f.synced = Len(f.writes)
      \/ f.synced >= dpromise
  BY Zenon, <1>0 DEF PathOK, HandleOK, Keeps
<1> HIDE DEF f
<1>7. /\ promise' \in Nat /\ dpromise' \in Nat /\ dpromise' <= promise' /\ promise' <= Len(mem')
      /\ dpromise' <= dpromise
  BY <1>2, <1>5 DEF Least
<1>8. TypeOK'
  BY <1>0, <1>1, <1>2, <1>3, <1>5, <1>7, Zenon DEF TypeOK, W, f
<1>9. LockOK'
  BY Zenon, <1>0, <1>1, <1>4, AofAssumption DEF LockOK
<1>10. Keeps(f, mem', promise', dpromise')
  BY <1>2, <1>5, <1>6, <1>7 DEF Keeps
<1>11. HandleOK'
  BY Zenon, <1>1, <1>3, <1>10 DEF HandleOK
<1>12. AllIn' /\ FlushedOK'
  BY Zenon, <1>1, <1>2, <1>3, <1>4 DEF AllIn, FlushedOK
<1>13. PromiseOK' /\ PathOK'
  BY Zenon, <1>1, <1>4, <1>7 DEF PromiseOK, PathOK
<1> QED
  BY Zenon, <1>3, <1>8, <1>9, <1>11, <1>12, <1>13 DEF Inv

\* Every step keeps the invariant.
LEMMA StepInv == Inv /\ [Next]_vars => Inv'
<1> SUFFICES ASSUME Inv, [Next]_vars PROVE Inv'
  BY Zenon
<1>1. CASE UNCHANGED vars
  <2>1. UNCHANGED <<up, mem, writes, writeMu, pc, op, files, path, dpath, full, handle, mode, werr, baseSize, rw,
                    promise, dpromise, crashes>>
    BY Zenon, <1>1 DEF vars, server, disk, aof, ghost
  <2>2. TypeOK'
    BY Zenon, <2>1 DEF Inv, TypeOK
  <2>3. FilesOK' /\ LockOK' /\ HandleOK' /\ PromiseOK' /\ PathOK'
    BY Zenon, <2>1 DEF Inv, FilesOK, LockOK, HandleOK, PromiseOK, PathOK
  <2>4. AllIn' /\ FlushedOK'
    BY Zenon, <2>1 DEF Inv, AllIn, FlushedOK
  <2> QED
    BY Zenon, <2>2, <2>3, <2>4 DEF Inv
<1>2. ASSUME NEW p \in Clients, Write(p) PROVE Inv'
  BY Zenon, <1>2, DispatchStep, FlushStep, FlushFailsStep, FsyncStep, ReplyStep DEF Write
<1>3. CASE Rewrite
  BY Zenon, <1>3, LockStep, RenameStep, ReopenStep DEF Rewrite
<1> QED
  BY Zenon, <1>1, <1>2, <1>3, syncEverySecStep, DiskFullStep, KillStep, PowerCutStep, CloseStep, loadAOFStep DEF Next

\* The invariant holds at the start.
LEMMA InitInv == Init => Inv
<1> SUFFICES ASSUME Init PROVE Inv
  BY Zenon
<1>1. EmptyFile \in Files /\ FileOK(EmptyFile) /\ Keeps(EmptyFile, <<>>, 0, 0)
  <2>1. <<>> \in Seq(W) /\ 0 \in Nat /\ Len(<<>>) = 0
    OBVIOUS
  <2>2. EmptyFile \in Files
    BY <2>1, Zenon DEF EmptyFile, Files, W
  <2> QED
    BY <2>1, <2>2 DEF EmptyFile, FileOK, Keeps, Prefix
<1>2. TypeOK
  BY <1>1, AofAssumption DEF Init, TypeOK, Inodes
<1>3. FilesOK /\ LockOK /\ HandleOK /\ PromiseOK /\ PathOK
  BY <1>1, AofAssumption DEF Init, FilesOK, LockOK, HandleOK, PromiseOK, PathOK, Inodes
<1>4. AllIn /\ FlushedOK
  BY DEF Init, AllIn, FlushedOK, EmptyFile, Inodes
<1> QED
  BY Zenon, <1>2, <1>3, <1>4 DEF Inv

\* The invariant holds throughout.
LEMMA InvHolds == Spec => []Inv
  BY InitInv, StepInv, PTL DEF Spec

-----------------------------------------------------------------------------
(* With the faults that can come together.                                 *)

\* The file that a power cut brings back is no newer than the one under the log's
\* name, and that no newer than the store.  (When a rename that is not yet on disk
\* is followed by a failed reopen, the file it replaced grows on.)
OlderOK ==
  /\ Prefix(files[path].writes, mem) /\ Prefix(files[dpath].writes, files[path].writes)
  /\ "direntry" \notin Faults => dpath = path
  /\ "reopen" \notin Faults /\ up /\ rw # "renamed" => handle = path

\* Without tears, every file ends with a whole command.
TailsOK == \A i \in Inodes : files[i].tail = "clean"

\* When only the disk can be full, the log is good even when a rewrite is cut short.
NameOK == Keeps(files[path], mem, promise, dpromise)

\* The writes of the files stay.
LEMMA SameOlder ==
  ASSUME TypeOK, OlderOK, UNCHANGED <<mem, path, dpath, handle>>,
         \A i \in Inodes : files'[i].writes = files[i].writes,
         "reopen" \notin Faults /\ up' /\ rw' # "renamed" => up /\ rw # "renamed"
  PROVE  OlderOK'
<1>1. path \in Inodes /\ dpath \in Inodes
  BY Zenon DEF TypeOK
<1> QED
  BY <1>1, Zenon DEF OlderOK

\* Every step keeps the order of the files.
LEMMA StepOlder ==
  ASSUME "reopen" \notin Faults \/ "direntry" \notin Faults, Inv, Inv', OlderOK, [Next]_vars
  PROVE  OlderOK'
<1>0. TypeOK /\ FilesOK /\ LockOK /\ HandleOK /\ AllIn /\ FlushedOK /\ PromiseOK /\ PathOK
  BY Zenon DEF Inv
<1>1. /\ files \in [Inodes -> Files] /\ path \in Inodes /\ dpath \in Inodes /\ handle \in Inodes
      /\ mem \in Seq(W) /\ files[path] \in Files /\ files[dpath] \in Files
      /\ files[path].writes \in Seq(W) /\ files[dpath].writes \in Seq(W)
  <2>1. /\ files \in [Inodes -> Files] /\ path \in Inodes /\ dpath \in Inodes /\ handle \in Inodes
        /\ mem \in Seq(W) /\ files[path] \in Files /\ files[dpath] \in Files
    BY Zenon, <1>0 DEF TypeOK, W
  <2>2. \A f \in Files : f.writes \in Seq(W)
    BY Zenon DEF Files, W
  <2> QED
    BY <2>1, <2>2, Zenon
<1>2. \A i \in Inodes : files[i] \in Files /\ Torn(files[i]).writes = files[i].writes
                                           /\ Synced(files[i]).writes = files[i].writes
  <2>1. \A i \in Inodes : files[i] \in Files
    BY Zenon, <1>1
  <2> QED
    BY <2>1, TornFacts, SyncedFacts, Zenon
<1>3. ASSUME NEW p \in Clients, Dispatch(p) PROVE OlderOK'
  <2>1. /\ mem' = Append(mem, writes') /\ writes' \in W
        /\ UNCHANGED <<files, path, dpath, handle, up, rw>>
    BY <1>0, <1>3, AofAssumption DEF Dispatch, TypeOK, disk, aof, W
  <2>2. Prefix(files[path].writes, mem')
    BY Zenon, <1>1, <2>1, PrefixFacts DEF OlderOK
  <2> QED
    BY <2>1, <2>2, Zenon DEF OlderOK
<1>4. ASSUME NEW p \in Clients, Flush(p) PROVE OlderOK'
  <2>1. /\ up /\ pc[p] = "applied" /\ files' = [files EXCEPT ![handle] = Extend(files[handle], op[p])]
        /\ UNCHANGED <<mem, path, dpath, handle, up, rw>>
    BY Zenon, <1>4 DEF Flush, aof
  <2>2. rw = "idle" /\ op[p] \in W /\ files[handle] \in Files
    BY Zenon, <1>0, <1>1, <2>1, Writing DEF TypeOK, W
  <2>3. Extend(files[handle], op[p]) \in Files
    BY Zenon, <2>2, ExtendFacts
  <2>4. \A i \in Inodes : i # handle => files'[i] = files[i]
    BY <1>0, <2>1, <2>3, HandleFile, Zenon
  <2>5. files'[handle] = Extend(files[handle], op[p])
    BY <1>0, <2>1, <2>3, HandleFile, Zenon
  <2>6. files'[handle].writes \in {files[handle].writes, Append(files[handle].writes, op[p])}
    BY <2>2, <2>5, ExtendFacts
  <2>7. Prefix(files'[handle].writes, mem)
    BY Zenon, <2>1 DEF Inv, HandleOK, Keeps
  <2>8. files'[path].writes \in Seq(W)
    <3>1. files'[path] \in Files
      BY <1>1, <2>1, <2>3, Zenon
    <3> QED
      BY Zenon, <3>1 DEF Files, W
  <2>9. Prefix(files'[path].writes, mem)
    BY <1>1, <2>4, <2>7, Zenon DEF OlderOK
  <2>10. Prefix(files'[dpath].writes, files'[path].writes)
    <3>1. CASE dpath = path
      BY <2>8, <3>1 DEF Prefix
    <3>2. CASE dpath # path
      <4>1. handle = path /\ files'[dpath] = files[dpath]
        BY Zenon, <1>1, <2>1, <2>2, <2>4, <3>2 DEF OlderOK
      <4>2. Prefix(files[dpath].writes, files[path].writes)
        BY Zenon DEF OlderOK
      <4>3. Prefix(files[dpath].writes, Append(files[path].writes, op[p]))
        BY Zenon, <1>1, <2>2, <4>2, PrefixFacts
      <4> QED
        BY <2>6, <4>1, <4>2, <4>3, Zenon
    <3> QED
      BY Zenon, <3>1, <3>2
  <2> QED
    BY <2>1, <2>9, <2>10, Zenon DEF OlderOK
<1>5. ASSUME NEW p \in Clients, FlushFails(p) PROVE OlderOK'
  <2>1. /\ files' = files \/ files' = [files EXCEPT ![handle] = Torn(files[handle])]
        /\ UNCHANGED <<mem, path, dpath, handle, up, rw>>
    BY Zenon, <1>5 DEF FlushFails
  <2>2. \A i \in Inodes : files'[i].writes = files[i].writes
    BY <1>1, <1>2, <2>1, Zenon
  <2> QED
    BY <1>0, <2>1, <2>2, SameOlder, Zenon
<1>6. CASE (\E p \in Clients : Fsync(p)) \/ syncEverySec \/ Close
  <2>1. /\ files' = [files EXCEPT ![handle] = Synced(files[handle])]
        /\ UNCHANGED <<mem, path, dpath, handle>> /\ (up' => up) /\ (up' => rw' = rw)
    BY Zenon, <1>6 DEF Fsync, syncEverySec, Close, Stop, server, aof
  <2>2. \A i \in Inodes : files'[i].writes = files[i].writes
    BY <1>1, <1>2, <2>1, Zenon
  <2> QED
    BY <1>0, <2>1, <2>2, SameOlder, Zenon
<1>7. CASE (\E p \in Clients : Reply(p)) \/ rewriteAOF \/ RewriteFails \/ ReopenFails \/ DiskFull \/ UNCHANGED vars
  <2>1. /\ UNCHANGED <<files, mem, path, dpath, handle, up>>
        /\ "reopen" \notin Faults /\ rw' # "renamed" => rw # "renamed"
    BY Zenon, <1>7 DEF Reply, rewriteAOF, RewriteFails, ReopenFails, DiskFull, vars, server, disk, aof
  <2> QED
    BY <1>0, <2>1, SameOlder, Zenon
<1>8. CASE Rename
  <2>1. /\ path' \in Inodes /\ path' \notin {path, handle, dpath}
        /\ \A i \in Inodes : i # path' => files'[i] = files[i]
        /\ files'[path'].writes = mem /\ dpath' \in {dpath, path'} /\ ("direntry" \notin Faults => dpath' = path')
    BY <1>0, <1>8, RenameFile, Zenon
  <2>2. mem' = mem /\ rw' = "renamed"
    BY Zenon, <1>8 DEF Rename, server
  <2>3. Prefix(mem, mem) /\ Prefix(files[dpath].writes, mem)
    <3>1. Prefix(files[dpath].writes, files[path].writes) /\ Prefix(files[path].writes, mem)
      BY Zenon DEF OlderOK
    <3>2. Prefix(mem, mem)
      BY <1>1 DEF Prefix
    <3> QED
      BY <1>1, <3>1, <3>2 DEF Prefix
  <2>4. Prefix(files'[dpath'].writes, mem)
    BY <1>1, <2>1, <2>3, Zenon
  <2> QED
    BY <2>1, <2>2, <2>3, <2>4, Zenon DEF OlderOK
<1>9. CASE Reopen
  <2>1. files' = Keep({path, dpath}) /\ handle' = path /\ UNCHANGED <<mem, path, dpath>>
    BY Zenon, <1>9 DEF Reopen
  <2>2. files'[path] = files[path] /\ files'[dpath] = files[dpath]
    BY <1>0, <2>1, KeepFiles, Zenon
  <2> QED
    BY <2>1, <2>2, Zenon DEF OlderOK
<1>10. CASE Kill
  <2>1. /\ files' = files \/ files' = [files EXCEPT ![handle] = Torn(files[handle])]
        /\ UNCHANGED <<mem, path, dpath, handle>> /\ ~up'
    BY Zenon, <1>10 DEF Kill, Stop, aof
  <2>2. \A i \in Inodes : files'[i].writes = files[i].writes
    BY <1>1, <1>2, <2>1, Zenon
  <2> QED
    BY <1>0, <2>1, <2>2, SameOlder, Zenon
<1>11. CASE PowerCut
  <2>1. path' = dpath /\ UNCHANGED <<mem, dpath>> /\ ~up'
    BY Zenon, <1>11 DEF PowerCut, Stop
  <2>2. PICK g \in Remains(files[dpath]) : files' = [files EXCEPT ![dpath] = g]
    BY <1>11, Zenon DEF PowerCut
  <2>3. g \in Files /\ Prefix(g.writes, files[dpath].writes) /\ files'[dpath] = g
    BY <1>0, <1>1, <2>2, RemainsFacts, Zenon DEF FilesOK
  <2>4. g.writes \in Seq(W)
    BY Zenon, <2>3 DEF Files, W
  <2>5. Prefix(files[dpath].writes, files[path].writes) /\ Prefix(files[path].writes, mem)
    BY Zenon DEF OlderOK
  <2>6. Prefix(g.writes, mem) /\ Prefix(g.writes, g.writes)
    BY SMTT(30), <1>1, <2>3, <2>4, <2>5 DEF Prefix
  <2> QED
    BY <2>1, <2>3, <2>6, Zenon DEF OlderOK
<1>12. CASE loadAOF
  <2>1. files' = Keep({path, dpath}) /\ handle' = path /\ UNCHANGED <<path, dpath>>
    BY Zenon, <1>12 DEF loadAOF
  <2>2. files'[path] = files[path] /\ files'[dpath] = files[dpath]
    BY <1>0, <2>1, KeepFiles, Zenon
  <2>3. Prefix(files[path].writes, mem')
    BY <1>0, <1>12, LoadFacts, Zenon
  <2> QED
    BY <2>1, <2>2, <2>3, Zenon DEF OlderOK
<1> QED
  BY <1>3, <1>4, <1>5, <1>6, <1>7, <1>8, <1>9, <1>10, <1>11, <1>12, Zenon DEF Next, Write, Rewrite

\* Every step leaves whole commands, if nothing tears.
LEMMA StepTails ==
  ASSUME "tear" \notin Faults, Inv, TailsOK, [Next]_vars
  PROVE  TailsOK'
<1>0. TypeOK /\ FilesOK
  BY Zenon DEF Inv
<1>1. /\ files \in [Inodes -> Files] /\ handle \in Inodes /\ dpath \in Inodes /\ files[handle].tail = "clean"
      /\ files[handle] \in Files /\ files[dpath] \in Files /\ files[dpath].tail = "clean" /\ FileOK(files[dpath])
  BY Zenon, <1>0 DEF TypeOK, TailsOK, FilesOK
<1>2. ASSUME NEW i \in Inodes, NEW g, files' = [files EXCEPT ![i] = g], g.tail = "clean" PROVE TailsOK'
  BY <1>1, <1>2, Zenon DEF TailsOK
<1>3. ASSUME NEW p \in Clients, Flush(p) PROVE TailsOK'
  <2>1. files' = [files EXCEPT ![handle] = Extend(files[handle], op[p])] /\ op[p] \in W
    BY Zenon, <1>0, <1>3 DEF Flush, TypeOK, W
  <2>2. Extend(files[handle], op[p]).tail = "clean"
    BY <1>1, <2>1, ExtendFacts
  <2> QED
    BY <1>1, <1>2, <2>1, <2>2, Zenon
<1>4. CASE (\E p \in Clients : Fsync(p)) \/ syncEverySec \/ Close
  <2>1. files' = [files EXCEPT ![handle] = Synced(files[handle])]
    BY Zenon, <1>4 DEF Fsync, syncEverySec, Close
  <2>2. Synced(files[handle]).tail = "clean"
    BY Zenon, <1>1, SyncedFacts
  <2> QED
    BY <1>1, <1>2, <2>1, <2>2, Zenon
<1>5. CASE Rename
  <2>1. /\ \A i \in Inodes : i # path' => files'[i] = files[i]
        /\ files'[path'].tail = "clean"
    BY <1>0, <1>5, RenameFile, Zenon
  <2> QED
    BY <2>1, Zenon DEF TailsOK
<1>6. CASE Reopen \/ loadAOF
  <2>1. files' = Keep({path, dpath})
    BY Zenon, <1>6 DEF Reopen, loadAOF
  <2>2. \A i \in Inodes : files'[i] \in {files[i], EmptyFile}
    BY <1>0, <2>1, KeepFiles, Zenon
  <2>3. EmptyFile.tail = "clean"
    BY Zenon DEF EmptyFile
  <2> QED
    BY Zenon, <2>2, <2>3 DEF TailsOK
<1>7. CASE PowerCut
  <2>1. PICK g \in Remains(files[dpath]) : files' = [files EXCEPT ![dpath] = g]
    BY <1>7, Zenon DEF PowerCut
  <2>2. g.tail = "clean"
    BY Zenon, <1>1, RemainsFacts
  <2> QED
    BY <1>1, <1>2, <2>1, <2>2, Zenon
<1>8. CASE UNCHANGED files
  BY Zenon, <1>8 DEF TailsOK
<1>9. ASSUME NEW p \in Clients, Dispatch(p) \/ FlushFails(p) \/ Reply(p) PROVE UNCHANGED files
  BY Zenon, <1>9 DEF Dispatch, FlushFails, Reply, disk
<1>10. CASE rewriteAOF \/ RewriteFails \/ ReopenFails \/ DiskFull \/ Kill \/ UNCHANGED vars
  BY Zenon, <1>8, <1>10 DEF rewriteAOF, RewriteFails, ReopenFails, DiskFull, Kill, vars, disk
<1> QED
  BY <1>3, <1>4, <1>5, <1>6, <1>7, <1>8, <1>9, <1>10, Zenon DEF Next, Write, Rewrite

\* Every step keeps the log good, if only the disk can be full.
LEMMA StepName ==
  ASSUME Faults \subseteq {"full"}, Inv, Inv', OlderOK, OlderOK', NameOK, [Next]_vars
  PROVE  NameOK'
<1>1. CASE path' = handle'
  BY Zenon, <1>1 DEF Inv, HandleOK, NameOK
<1>2. CASE up' /\ path' # handle'
  <2>1. rw' = "renamed"
    BY Zenon, <1>2 DEF OlderOK
  <2>2. /\ files'[path'] \in Files /\ mem' \in Seq(W) /\ promise' \in Nat /\ dpromise' \in Nat /\ Len(mem') \in Nat
        /\ files'[path'].writes = mem' /\ files'[path'].synced = Len(mem')
        /\ promise' <= Len(mem') /\ dpromise' <= promise'
    BY SMTT(30), <1>2, <2>1 DEF Inv, TypeOK, W, PathOK, PromiseOK
  <2>3. promise' \in 0 .. Len(mem') /\ dpromise' \in 0 .. promise'
    BY <2>2
  <2>4. Keeps(files'[path'], mem', promise', dpromise')
    BY Zenon, <2>2, <2>3, KeepsAll
  <2> QED
    BY Zenon, <2>4 DEF NameOK
<1>3. CASE ~up' /\ path' # handle'
  <2>1. CASE DiskFull \/ UNCHANGED vars
    BY Zenon, <2>1 DEF NameOK, DiskFull, vars, server, disk, ghost
  <2>2. CASE Kill
    BY Zenon, <1>3, <2>2 DEF NameOK, Kill, Stop, aof
  <2>3. CASE Close
    <3>1. /\ UNCHANGED <<mem, path, handle, promise>> /\ dpromise' = promise
          /\ files' = [files EXCEPT ![handle] = Synced(files[handle])]
      BY Zenon, <2>3 DEF Close, Stop, aof
    <3>2. handle = path \/ rw = "renamed"
      BY Zenon, <2>3 DEF OlderOK, Close
    <3>3. rw = "idle"
      BY Zenon, <2>3, Quiet DEF Inv, Close
    <3> QED
      BY Zenon, <1>3, <3>1, <3>2, <3>3
  <2>4. CASE PowerCut
    <3>1. /\ UNCHANGED <<mem, dpath>> /\ path' = dpath /\ promise' = dpromise /\ dpromise' = dpromise /\ dpath = path
      BY Zenon, <2>4 DEF PowerCut, Stop, OlderOK
    <3>2. PICK g \in Remains(files[path]) : files' = [files EXCEPT ![path] = g]
      BY <2>4, <3>1, Zenon DEF PowerCut
    <3>3. /\ files \in [Inodes -> Files] /\ path \in Inodes /\ files[path] \in Files /\ FileOK(files[path])
          /\ mem \in Seq(W) /\ promise \in Nat /\ dpromise \in Nat /\ dpromise <= promise
          /\ Keeps(files[path], mem, promise, dpromise)
      BY Zenon DEF Inv, TypeOK, W, FilesOK, PromiseOK, NameOK
    <3>4. Keeps(g, mem, dpromise, dpromise)
      BY Zenon, <3>3, KeepsCut
    <3>5. files'[path] = g
      BY Zenon, <3>2, <3>3
    <3> QED
      BY <3>1, <3>4, <3>5, Zenon DEF NameOK
  <2>5. ASSUME NEW p \in Clients, Write(p) PROVE up'
    BY SMTT(30), <2>5 DEF Write, Dispatch, Flush, FlushFails, Fsync, Reply
  <2>6. CASE syncEverySec \/ Rewrite \/ loadAOF
    BY SMTT(30), <1>3, <2>6 DEF syncEverySec, Rewrite, rewriteAOF, Rename, RewriteFails,
      Reopen, ReopenFails, loadAOF, server
  <2> QED
    BY Zenon, <1>3, <2>1, <2>2, <2>3, <2>4, <2>5, <2>6 DEF Next
<1> QED
  BY Zenon, <1>1, <1>2, <1>3

-----------------------------------------------------------------------------
(* The theorems.                                                           *)

\* At the start all files are empty.
LEMMA InitOthers == Init => OlderOK /\ TailsOK /\ NameOK
<1> SUFFICES ASSUME Init PROVE OlderOK /\ TailsOK /\ NameOK
  BY Zenon
<1>1. \A i \in Inodes : files[i] = EmptyFile
  BY Zenon DEF Init
<1>2. path = 0 /\ dpath = 0 /\ handle = 0 /\ 0 \in Inodes /\ mem = <<>> /\ promise = 0 /\ dpromise = 0
  BY DEF Init, Inodes
<1>3. Len(<<>>) = 0 /\ EmptyFile.writes = <<>> /\ EmptyFile.synced = 0 /\ EmptyFile.tail = "clean"
  BY Zenon DEF EmptyFile
<1> QED
  BY <1>1, <1>2, <1>3 DEF OlderOK, TailsOK, NameOK, Keeps, Prefix

\* Only recovery starts the server.
LEMMA Recovering ==
  ASSUME Next, ~up, up' PROVE loadAOF
<1>1. ASSUME NEW p \in Clients, Write(p) PROVE FALSE
  BY <1>1, Zenon DEF Write, Dispatch, Flush, FlushFails, Fsync, Reply
<1>2. ASSUME syncEverySec \/ Rewrite PROVE FALSE
  BY <1>2, Zenon DEF syncEverySec, Rewrite, rewriteAOF, Rename, RewriteFails, Reopen, ReopenFails
<1>3. ASSUME DiskFull \/ Kill \/ PowerCut \/ Close PROVE FALSE
  BY <1>3, Zenon DEF DiskFull, Kill, PowerCut, Close, Stop, server
<1> QED
  BY Zenon, <1>1, <1>2, <1>3 DEF Next

\* The variables of Aof keep their types: no size is ever negative.
THEOREM TypeCorrect == Spec => []TypeOK
<1>1. Inv => TypeOK
  BY Zenon DEF Inv
<1> QED
  BY <1>1, InvHolds, PTL

\* Whatever goes wrong and however often, a log that the server was appending to
\* when it stopped, and that does not go on after a tear, gives back what was
\* promised.
THEOREM TearsAreTolerated == Spec => TornTailTolerated
<1>1. ASSUME Inv, [Next]_vars
      PROVE  [~up /\ up' /\ handle = path /\ files[path].tail # "bad" => Recovers]_vars
  <2> SUFFICES ASSUME Next, ~up, up', handle = path, files[path].tail # "bad" PROVE Recovers
    BY Zenon, <1>1
  <2>1. mem' = files[path].writes
    BY Zenon, <1>1, Recovering, LoadFacts DEF Inv
  <2>2. Prefix(files[path].writes, mem) /\ Len(files[path].writes) >= promise
    BY Zenon, <1>1 DEF Inv, HandleOK, Keeps
  <2> QED
    BY Zenon, <2>1, <2>2 DEF Recovers
<1> QED
  BY <1>1, InvHolds, PTL DEF Spec, TornTailTolerated

\* With any faults but a failed reopen together with a lost rename, a log that does
\* not go on after a tear recovers to a state the server has been in.
THEOREM RecoveryHasNoGaps ==
  ASSUME "reopen" \notin Faults \/ "direntry" \notin Faults
  PROVE  Spec => NoGaps
<1>1. Inv /\ OlderOK /\ [Next]_vars => (Inv /\ OlderOK)'
  BY Zenon, StepInv, StepOlder
<1>2. Init => Inv /\ OlderOK
  BY Zenon, InitInv, InitOthers
<1>3. ASSUME Inv, OlderOK, [Next]_vars
      PROVE  [~up /\ up' /\ files[path].tail # "bad" => Prefix(mem', mem)]_vars
  <2> SUFFICES ASSUME Next, ~up, up', files[path].tail # "bad" PROVE Prefix(mem', mem)
    BY Zenon, <1>3
  <2>1. mem' = files[path].writes
    BY Zenon, <1>3, Recovering, LoadFacts DEF Inv
  <2> QED
    BY Zenon, <1>3, <2>1 DEF OlderOK
<1> QED
  BY <1>1, <1>2, <1>3, PTL DEF Spec, NoGaps

\* When nothing tears and every reopen works, the log and the store agree whenever
\* the lock is free and no append has failed.
THEOREM LogIsStore ==
  ASSUME Faults \subseteq {"full", "direntry"}
  PROVE  Spec => []LogMatchesStore
<1>0. "reopen" \notin Faults /\ "tear" \notin Faults
  BY Zenon
<1>1. Inv /\ OlderOK /\ TailsOK /\ [Next]_vars => (Inv /\ OlderOK /\ TailsOK)'
  BY Zenon, <1>0, StepInv, StepOlder, StepTails
<1>2. Init => Inv /\ OlderOK /\ TailsOK
  BY Zenon, InitInv, InitOthers
<1>3. Inv /\ OlderOK /\ TailsOK => LogMatchesStore
  <2> SUFFICES ASSUME Inv, OlderOK, TailsOK, up, writeMu = None, ~werr PROVE files[path].writes = mem
    BY Zenon DEF LogMatchesStore
  <2>1. rw = "idle" /\ \A p \in Clients : pc[p] = "idle"
    BY Zenon, Quiet DEF Inv
  <2>2. handle = path /\ files[handle].tail = "clean"
    BY Zenon, <1>0, <2>1 DEF OlderOK, TailsOK, Inv, TypeOK
  <2> QED
    BY Zenon, <2>1, <2>2 DEF Inv, AllIn
<1> QED
  BY <1>1, <1>2, <1>3, PTL DEF Spec

\* When only the disk can be full, every recovery, at whatever moment the server was
\* killed or lost its power, gives back a state it has been in with every promised
\* write.
THEOREM WritesAreDurable ==
  ASSUME Faults \subseteq {"full"}
  PROVE  Spec => Durable
<1>0. "reopen" \notin Faults /\ "tear" \notin Faults
  BY Zenon
<1> DEFINE All == Inv /\ OlderOK /\ TailsOK /\ NameOK
<1>1. All /\ [Next]_vars => All'
  BY Zenon, <1>0, StepInv, StepOlder, StepTails, StepName
<1>2. Init => All
  BY Zenon, InitInv, InitOthers
<1>3. ASSUME All, [Next]_vars PROVE [~up /\ up' => Recovers]_vars
  <2> SUFFICES ASSUME Next, ~up, up' PROVE Recovers
    BY Zenon, <1>3
  <2>1. files[path].tail = "clean"
    BY Zenon, <1>3 DEF Inv, TypeOK, TailsOK
  <2>2. mem' = files[path].writes
    BY Zenon, <1>3, <2>1, Recovering, LoadFacts DEF Inv
  <2> QED
    BY Zenon, <1>3, <2>1, <2>2 DEF NameOK, Keeps, Recovers
<1> HIDE DEF All
<1> QED
  BY <1>1, <1>2, <1>3, PTL DEF Spec, Durable
=============================================================================
