-------------------------- MODULE RulesetUpdateProofs --------------------------
(***************************************************************************)
(* What RulesetUpdate guarantees for any number of updaters, directories,  *)
(* documents and blocks: types; that a ruleset renamed into place stays    *)
(* whole, loadable and verified; and that, without a second device, the    *)
(* update is atomic for whoever reads the file.                            *)
(***************************************************************************)
EXTENDS RulesetUpdate, TLAPS

USE UpdateAssumption

-------------------------------------------------------------------------------
(* Documents *)

LEMMA WholeType == \A d \in Docs : Whole(d) \in Seq(Bytes)
BY DEF Whole, Bytes

(* A file holds at most one document whole. *)
LEMMA WholeInjective ==
    ASSUME NEW d \in Docs, NEW e \in Docs, Whole(d) = Whole(e)
    PROVE  d = e
<1>1. 1 \in 1 .. Blocks
  OBVIOUS
<1>2. Whole(d)[1] = d /\ Whole(e)[1] = e
  BY <1>1 DEF Whole
<1> QED
  BY <1>2

LEMMA WriteAtType ==
    ASSUME NEW c \in Seq(Bytes), NEW k \in Nat \ {0}, NEW b \in Bytes
    PROVE  WriteAt(c, k, b) \in Seq(Bytes)
<1> DEFINE n == IF Len(c) > k THEN Len(c) ELSE k
           e(i) == IF i = k THEN b ELSE IF i <= Len(c) THEN c[i] ELSE Hole
<1>1. n \in Nat
  OBVIOUS
<1>2. \A i \in 1 .. n : e(i) \in Bytes
  BY <1>1 DEF Bytes
<1>3. [i \in 1 .. n |-> e(i)] \in Seq(Bytes)
  <2> HIDE DEF n, e
  <2> QED BY <1>1, <1>2
<1> QED
  BY <1>3 DEF WriteAt

-------------------------------------------------------------------------------
(* Types *)

LEMMA InitType == Init => TypeOK /\ Locals
<1> SUFFICES ASSUME Init PROVE TypeOK /\ Locals
  OBVIOUS
<1>1. content \in [Inodes -> Seq(Bytes)]
  <2>1. CASE content = [i \in Inodes |-> <<>>]
    BY <2>1
  <2>2. CASE \E i \in Inodes, d \in Loadable :
                content = [j \in Inodes |-> IF j = i THEN Whole(d) ELSE <<>>]
    BY <2>2, WholeType
  <2> QED
    BY <2>1, <2>2 DEF Init
<1>2. entry \in [Paths -> Inodes \cup {NoInode}]
  BY DEF Init
<1>3. CallType
  BY DEF Init, CallType, Stages, Results
<1> QED
  BY <1>1, <1>2, <1>3 DEF Init, TypeOK, DiskType, Locals

(* A call that returns leaves well-typed variables and open streams only to *)
(* the calls still in progress.                                             *)
LEMMA ReturnType ==
    ASSUME CallType, Locals, NEW u \in Updaters, NEW r \in Results, Return(u, r),
           \/ leaked' = leaked
           \/ leaked' = leaked \ {u}
           \/ leaked' = leaked \cup {u} /\ Temp(u) \in OtherDevice
    PROVE  CallType' /\ Locals'
<1>1. CallType'
  BY DEF CallType, Return, Goto, Close, Stages
<1>2. Locals'
  BY DEF CallType, Locals, Return, Goto, Close
<1> QED
  BY <1>1, <1>2

(* Opening a file for writing. *)
LEMMA CreateType ==
    ASSUME TypeOK, NEW u \in Updaters, NEW p \in Paths, Create(u, p)
    PROVE  /\ \E i \in Inodes : fd' = [fd EXCEPT ![u] = i]
           /\ off' = [off EXCEPT ![u] = 0]
           /\ DiskType'
<1>1. PICK i \in Inodes :
        /\ fd' = [fd EXCEPT ![u] = i]
        /\ off' = [off EXCEPT ![u] = 0]
        /\ entry' = [entry EXCEPT ![p] = i]
        /\ content' = [content EXCEPT ![i] = <<>>]
  BY DEF Create
<1>2. <<>> \in Seq(Bytes)
  OBVIOUS
<1>3. content' \in [Inodes -> Seq(Bytes)]
  BY <1>1, <1>2 DEF TypeOK, DiskType
<1>4. entry' \in [Paths -> Inodes \cup {NoInode}]
  BY <1>1 DEF TypeOK, DiskType
<1> QED
  BY <1>1, <1>3, <1>4 DEF DiskType

(* Removing a file. *)
LEMMA RemoveType ==
    ASSUME DiskType, NEW u \in Updaters, RemoveTemp(u), UNCHANGED content
    PROVE  DiskType'
BY DEF DiskType, RemoveTemp, Temp, Paths

LEMMA NextType == TypeOK /\ Locals /\ [Next]_vars => TypeOK' /\ Locals'
<1> SUFFICES ASSUME TypeOK, Locals, [Next]_vars PROVE TypeOK' /\ Locals'
  OBVIOUS
<1>r. {"none", "success", "error", "cannot_move"} = Results
  BY DEF Results
<1>d. UNCHANGED disk => DiskType'
  BY DEF TypeOK, DiskType, disk
<1>h. UNCHANGED lasting =>
        /\ leaked' = leaked /\ leaked' \subseteq Updaters
        /\ installer' \in Updaters \cup {NoOne} /\ warrant' \in Docs \cup {NoDoc}
  BY DEF TypeOK, lasting, history
<1>i. \A u \in Updaters : Installs(u) =>
        installer' \in Updaters \cup {NoOne} /\ warrant' \in Docs \cup {NoDoc}
  BY DEF TypeOK, CallType, Installs
<1>t. CallType' /\ DiskType' /\ installer' \in Updaters \cup {NoOne}
        /\ leaked' \subseteq Updaters /\ warrant' \in Docs \cup {NoDoc} => TypeOK'
  BY DEF TypeOK
<1> USE DEF TypeOK
<1>1. ASSUME NEW u \in Updaters, Request(u) PROVE TypeOK' /\ Locals'
  <2>1. CASE Return(u, "error")
    BY <1>1, <2>1, <1>r, <1>d, <1>h, ReturnType DEF Request
  <2>2. CASE /\ Goto(u, "open")
             /\ \E d \in Docs : got' = [got EXCEPT ![u] = d]
             /\ result' = [result EXCEPT ![u] = "none"]
             /\ UNCHANGED <<off, fd, src, vouch>>
    <3>1. CallType'
      BY <2>2 DEF CallType, Goto, Stages, Results
    <3>2. Locals'
      BY <1>1, <2>2 DEF CallType, Locals, Goto, Request, lasting
    <3> QED
      BY <1>1, <3>1, <3>2, <1>d, <1>h DEF Request
  <2> QED
    BY <1>1, <2>1, <2>2 DEF Request
<1>2. ASSUME NEW u \in Updaters, Open(u) PROVE TypeOK' /\ Locals'
  <2>1. CASE Return(u, "error") /\ UNCHANGED disk
    BY <1>2, <2>1, <1>r, <1>d, <1>h, ReturnType DEF Open
  <2>2. CASE /\ Create(u, Temp(u))
             /\ Goto(u, "write")
             /\ UNCHANGED <<got, src, vouch, result>>
    <3>1. /\ \E i \in Inodes : fd' = [fd EXCEPT ![u] = i]
          /\ off' = [off EXCEPT ![u] = 0]
          /\ DiskType'
      BY <2>2, CreateType DEF Temp, Paths
    <3>2. CallType'
      BY <2>2, <3>1 DEF CallType, Goto, Stages
    <3>3. Locals'
      BY <1>2, <2>2, <3>1 DEF CallType, Locals, Goto, Open, lasting
    <3> QED
      BY <1>2, <3>1, <3>2, <3>3, <1>h DEF Open
  <2> QED
    BY <1>2, <2>1, <2>2 DEF Open
<1>3. ASSUME NEW u \in Updaters, ReadChunk(u) PROVE TypeOK' /\ Locals'
  <2>1. WriteAt(content[fd[u]], off[u] + 1, got[u]) \in Seq(Bytes)
    <3>1. fd[u] \in Inodes /\ got[u] \in Bytes
      BY <1>3 DEF ReadChunk, Bytes, Locals, lasting
    <3>2. content[fd[u]] \in Seq(Bytes) /\ off[u] + 1 \in Nat \ {0}
      BY <3>1 DEF CallType, DiskType
    <3> QED
      BY <3>1, <3>2, WriteAtType
  <2>2. DiskType'
    BY <1>3, <2>1 DEF ReadChunk, DiskType
  <2>3. CallType'
    BY <1>3 DEF ReadChunk, CallType
  <2>4. Locals'
    BY <1>3 DEF ReadChunk, Locals, lasting
  <2> QED
    BY <1>3, <2>2, <2>3, <2>4, <1>h DEF ReadChunk
<1>4. ASSUME NEW u \in Updaters, DownloadEnd(u) PROVE TypeOK' /\ Locals'
  <2>1. CallType'
    BY <1>4 DEF DownloadEnd, CallType, Goto, Close, Stages
  <2>2. Locals'
    BY <1>4 DEF DownloadEnd, CallType, Locals, Goto, Close, lasting
  <2> QED
    BY <1>4, <2>1, <2>2, <1>d, <1>h DEF DownloadEnd
<1>5. ASSUME NEW u \in Updaters, DownloadFailed(u) PROVE TypeOK' /\ Locals'
  BY <1>5, <1>r, <1>h, ReturnType, RemoveType DEF DownloadFailed
<1>6. ASSUME NEW u \in Updaters, FetchHash(u) PROVE TypeOK' /\ Locals'
  <2>1. CASE Return(u, "error")
    BY <1>6, <2>1, <1>r, <1>h, ReturnType, RemoveType DEF FetchHash, DiskType
  <2>2. CASE /\ \E h \in Docs \cup {NoDoc} : vouch' = [vouch EXCEPT ![u] = h]
             /\ Goto(u, "digest")
             /\ UNCHANGED <<got, off, fd, src, result, entry>>
    <3>1. CallType'
      BY <2>2 DEF CallType, Goto, Stages
    <3>2. Locals'
      BY <1>6, <2>2 DEF FetchHash, CallType, Locals, Goto, lasting
    <3> QED
      BY <1>6, <2>2, <3>1, <3>2, <1>h DEF FetchHash, DiskType
  <2> QED
    BY <1>6, <2>1, <2>2 DEF FetchHash
<1>7. ASSUME NEW u \in Updaters, CompareDigest(u) \/ Load(u)
      PROVE  TypeOK' /\ Locals'
  <2>1. CASE RemoveTemp(u) /\ Return(u, "error")
    BY <1>7, <2>1, <1>r, <1>h, ReturnType, RemoveType DEF CompareDigest, Load
  <2>2. ASSUME NEW s \in {"load", "move"}, pc[u] \in {"digest", "load"},
               Goto(u, s), UNCHANGED <<got, off, fd, src, vouch, result, entry>>
        PROVE  TypeOK' /\ Locals'
    <3>1. CallType'
      BY <2>2 DEF CallType, Goto, Stages
    <3>2. Locals'
      BY <1>7, <2>2 DEF CompareDigest, Load, CallType, Locals, Goto, lasting
    <3> QED
      BY <1>7, <2>2, <3>1, <3>2, <1>h DEF CompareDigest, Load, DiskType
  <2> QED
    BY <1>7, <2>1, <2>2 DEF CompareDigest, Load
<1>8. ASSUME NEW u \in Updaters, Move(u) PROVE TypeOK' /\ Locals'
  <2>1. DiskType'
    BY <1>8 DEF Move, DiskType, TempFile, Temp, Paths
  <2> QED
    BY <1>8, <2>1, <1>r, <1>i, ReturnType DEF Move
<1>9. ASSUME NEW u \in Updaters, MoveFailed(u) \/ Crash(u)
      PROVE  TypeOK' /\ Locals'
  BY <1>9, <1>r, <1>d, <1>h, ReturnType DEF MoveFailed, Crash, history
<1>10. ASSUME NEW u \in Updaters, MoveAcross(u) PROVE TypeOK' /\ Locals'
  <2>1. CASE /\ Return(u, "cannot_move")
             /\ leaked' \in {leaked, leaked \cup {u}}
             /\ UNCHANGED <<disk, history>>
    <3>1. CallType' /\ Locals'
      BY <1>10, <2>1, <1>r, ReturnType DEF MoveAcross
    <3> QED
      BY <2>1, <3>1, <1>d DEF history
  <2>2. CASE /\ src' = [src EXCEPT ![u] = TempFile(u)]
             /\ Create(u, Dest)
             /\ Installs(u)
             /\ Goto(u, "copy")
             /\ UNCHANGED <<got, vouch, result, leaked>>
    <3>1. /\ \E i \in Inodes : fd' = [fd EXCEPT ![u] = i]
          /\ off' = [off EXCEPT ![u] = 0]
          /\ DiskType'
      BY <2>2, CreateType DEF Paths
    <3>2. TempFile(u) \in Inodes
      BY <1>10 DEF MoveAcross, TempFile, Temp, DiskType, Paths
    <3>3. CallType'
      BY <2>2, <3>1, <3>2 DEF CallType, Goto, Stages
    <3>4. Locals'
      BY <1>10, <2>2, <3>1, <3>2 DEF MoveAcross, CallType, Locals, Goto, lasting
    <3> QED
      BY <2>2, <3>1, <3>3, <3>4, <1>i
  <2> QED
    BY <1>10, <2>1, <2>2 DEF MoveAcross
<1>11. ASSUME NEW u \in Updaters, CopyChunk(u) PROVE TypeOK' /\ Locals'
  <2>1. content[src[u]][off[u] + 1] \in Bytes
    BY <1>11 DEF CopyChunk, Locals, CallType, DiskType, lasting
  <2>2. WriteAt(content[fd[u]], off[u] + 1, content[src[u]][off[u] + 1])
          \in Seq(Bytes)
    <3>1. fd[u] \in Inodes
      BY <1>11 DEF CopyChunk, Locals, lasting
    <3>2. content[fd[u]] \in Seq(Bytes) /\ off[u] + 1 \in Nat \ {0}
      BY <3>1 DEF CallType, DiskType
    <3> QED
      BY <2>1, <3>2, WriteAtType
  <2>3. DiskType'
    BY <1>11, <2>2 DEF CopyChunk, DiskType
  <2>4. CallType'
    BY <1>11 DEF CopyChunk, CallType
  <2>5. Locals'
    BY <1>11 DEF CopyChunk, Locals, lasting
  <2> QED
    BY <1>11, <2>3, <2>4, <2>5, <1>h DEF CopyChunk
<1>12. ASSUME NEW u \in Updaters, CopyEnd(u) PROVE TypeOK' /\ Locals'
  BY <1>12, <1>r, <1>h, ReturnType, RemoveType DEF CopyEnd, DiskType
<1>13. CASE UNCHANGED vars
  <2>1. CallType' /\ Locals'
    BY <1>13 DEF vars, call, CallType, Locals, lasting
  <2> QED
    BY <1>13, <2>1, <1>d, <1>h DEF vars
<1> QED
  BY <1>1, <1>2, <1>3, <1>4, <1>5, <1>6, <1>7, <1>8, <1>9, <1>10, <1>11,
     <1>12, <1>13 DEF Next, Step

(* Every variable keeps its type; the streams a call reads or writes and the *)
(* document it has in hand belong to the stage that needs them, whoever      *)
(* shares a directory with whom, so the locals of ruleset.c:448-606 are used *)
(* only after they are set; and a call that is over leaves a stream open     *)
(* only where it had to copy to another device: the source of a copy_file    *)
(* that could not open the destination (utils.c:375-379).                    *)
THEOREM TypeCorrect == Spec => [](TypeOK /\ Locals)
BY InitType, NextType, PTL DEF Spec

-------------------------------------------------------------------------------
(* The inductive invariant *)

LEMMA InitInv == Init => IInv
<1> SUFFICES ASSUME Init PROVE Safe
  BY InitType DEF IInv
<1> USE DEF Init, TempHolds, TempFile, Temp, Renamed
<1>1. NoAlias
  BY DEF NoAlias, Paths
<1>2. Separate /\ OwnStreams /\ Verified
  BY DEF Separate, OwnStreams, Verified
<1>3. DestIntact
  BY DEF DestIntact, Paths
<1>4. DestVouched
  BY DEF DestVouched
<1> QED
  BY <1>1, <1>2, <1>3, <1>4 DEF Safe

(* A call that returns without touching the disk. *)
LEMMA ReturnSafe ==
    ASSUME IInv, NEW u \in Updaters, NEW r \in Results, Return(u, r),
           UNCHANGED <<disk, history>>
    PROVE  Safe'
<1> USE DEF IInv, Safe, TypeOK, CallType, Return, Goto, Close, disk, history,
            TempHolds, TempFile, Temp, Renamed
<1>1. NoAlias' /\ DestIntact' /\ DestVouched'
  BY DEF NoAlias, DestIntact, DestVouched
<1>2. Separate'
  BY DEF Separate
<1>3. OwnStreams'
  BY DEF OwnStreams
<1>4. Verified'
  BY DEF Verified
<1> QED
  BY <1>1, <1>2, <1>3, <1>4

(* A call that removes its temporary file and returns: no other call in      *)
(* progress uses that directory.                                             *)
LEMMA RemoveSafe ==
    ASSUME IInv, NEW u \in Updaters, NEW r \in Results, pc[u] # "idle",
           Return(u, r), RemoveTemp(u), UNCHANGED <<content, history>>
    PROVE  Safe'
<1> USE DEF IInv, Safe, TypeOK, CallType, DiskType, Return, Goto, Close, history,
            RemoveTemp, Paths, Temp
<1>1. \A p \in Paths : p # Temp(u) => entry'[p] = entry[p]
  OBVIOUS
<1>2. \A w \in Updaters : pc'[w] # "idle" => w # u /\ pc'[w] = pc[w]
  OBVIOUS
<1>3. \A w \in Updaters : pc'[w] # "idle" => entry'[Temp(w)] = entry[Temp(w)]
  BY <1>1, <1>2 DEF Separate
<1>4. entry'[Dest] = entry[Dest]
  BY <1>1
<1>5. NoAlias'
  BY <1>1 DEF NoAlias
<1>6. Separate'
  BY <1>2 DEF Separate
<1>7. OwnStreams'
  <2>1. \A w \in Updaters : pc'[w] = "write" => fd'[w] = entry'[Temp(w)]
    BY <1>2, <1>3 DEF OwnStreams, TempFile
  <2>2. \A w \in Updaters : pc'[w] = "copy" =>
            /\ fd'[w] = fd[w] /\ fd[w] \in Inodes
            /\ \A d \in Dirs : entry'[d] # fd'[w]
    BY <1>2 DEF OwnStreams, Locals
  <2>3. \A w \in Updaters :
            pc'[w] = "copy" /\ entry'[Dest] = fd'[w] => ~Renamed'
    BY <1>2, <1>4 DEF OwnStreams, Renamed
  <2> QED
    BY <2>1, <2>2, <2>3 DEF OwnStreams, TempFile
<1>8. Verified'
  <2>1. \A w \in Updaters : pc'[w] # "idle" =>
            \A d : TempHolds(w, d) => TempHolds(w, d)'
    BY <1>3 DEF TempHolds, TempFile
  <2>2. \A w \in Updaters : pc'[w] # "idle" => vouch'[w] = vouch[w]
    BY <1>2
  <2> HIDE DEF Return, Temp
  <2> QED
    BY <1>2, <2>1, <2>2 DEF Verified
<1>9. DestIntact' /\ DestVouched'
  BY <1>4 DEF DestIntact, DestVouched, Renamed
<1> QED
  BY <1>5, <1>6, <1>7, <1>8, <1>9

(* A call that goes on to a stage that has no open stream, closing what it   *)
(* had, with nothing changed on disk.                                        *)
LEMMA GotoSafe ==
    ASSUME IInv, NEW u \in Updaters, NEW s \in {"hash", "digest", "load", "move"},
           pc[u] # "idle", Goto(u, s),
           fd' = [fd EXCEPT ![u] = NoInode],
           s = "move" => \E d \in Loadable : TempHolds(u, d),
           s \in {"load", "move"} /\ u \in Checked =>
               vouch[u] \in Docs /\ TempHolds(u, vouch[u]) /\ UNCHANGED vouch,
           \A w \in Updaters \ {u} : vouch'[w] = vouch[w],
           UNCHANGED <<disk, history>>
    PROVE  Safe'
<1> USE DEF IInv, Safe, TypeOK, CallType, Goto, disk, history,
            TempHolds, TempFile, Temp, Renamed
<1>1. NoAlias' /\ DestIntact' /\ DestVouched'
  BY DEF NoAlias, DestIntact, DestVouched
<1>2. Separate'
  BY DEF Separate
<1>3. OwnStreams'
  BY DEF OwnStreams
<1>4. Verified'
  BY DEF Verified
<1> QED
  BY <1>1, <1>2, <1>3, <1>4

(* A block written to a file that is neither at Dest, unless as a copy, nor   *)
(* the verified download of any call.                                        *)
LEMMA WriteSafe ==
    ASSUME IInv, NEW u \in Updaters, pc[u] \in {"write", "copy"}, NEW c,
           content' = [content EXCEPT ![fd[u]] = c],
           UNCHANGED <<pc, fd, vouch, entry, history>>
    PROVE  Safe'
<1> USE DEF IInv, Safe, TypeOK, DiskType, history, Paths, Temp
<1>1. \A i : i # fd[u] => content'[i] = content[i]
  BY DEF Locals
<1>2. \A w \in Updaters : pc[w] \in {"load", "move"} => TempFile(w) # fd[u]
  <2> SUFFICES ASSUME NEW w \in Updaters, pc[w] \in {"load", "move"}
               PROVE  TempFile(w) # fd[u]
    OBVIOUS
  <2>1. CASE pc[u] = "copy"
    BY <2>1 DEF OwnStreams, TempFile
  <2>2. CASE pc[u] = "write"
    <3>1. Temp(w) # Temp(u)
      BY <2>2 DEF Separate
    <3>2. fd[u] = TempFile(u) /\ fd[u] \in Inodes
      BY <2>2 DEF OwnStreams, Locals
    <3> QED
      BY <3>1, <3>2 DEF NoAlias, TempFile
  <2> QED
    BY <2>1, <2>2
<1>3. Renamed => entry[Dest] # fd[u]
  <2>1. CASE pc[u] = "copy"
    BY <2>1 DEF OwnStreams
  <2>2. CASE pc[u] = "write"
    <3>1. fd[u] = TempFile(u) /\ fd[u] \in Inodes
      BY <2>2 DEF OwnStreams, Locals
    <3> QED
      BY <3>1 DEF NoAlias, TempFile
  <2> QED
    BY <2>1, <2>2
<1>4. NoAlias' /\ Separate' /\ OwnStreams'
  BY DEF NoAlias, Separate, OwnStreams, TempFile, Renamed
<1>5. Verified'
  BY <1>1, <1>2 DEF Verified, TempHolds, TempFile
<1>6. DestIntact' /\ DestVouched'
  BY <1>1, <1>3 DEF DestIntact, DestVouched, Renamed
<1> QED
  BY <1>4, <1>5, <1>6

LEMMA RequestSafe ==
    ASSUME Exclusive, IInv, NEW u \in Updaters, pc[u] = "idle", Goto(u, "open"),
           \A w \in Updaters \ {u} : pc[w] # "idle" => Temp(w) # Temp(u),
           UNCHANGED <<fd, vouch, disk, history>>
    PROVE  Safe'
<1> USE DEF IInv, Safe, TypeOK, CallType, Goto, disk, history,
            TempHolds, TempFile, Temp, Renamed
<1>1. NoAlias' /\ DestIntact' /\ DestVouched'
  BY DEF NoAlias, DestIntact, DestVouched
<1>2. Separate'
  BY DEF Separate
<1>3. OwnStreams'
  BY DEF OwnStreams
<1>4. Verified'
  BY DEF Verified
<1> QED
  BY <1>1, <1>2, <1>3, <1>4

(* Opening the temporary file: it was nobody else's, or is new. *)
LEMMA OpenSafe ==
    ASSUME IInv, NEW u \in Updaters, pc[u] = "open",
           Create(u, Temp(u)), Goto(u, "write"), UNCHANGED <<vouch, history>>
    PROVE  Safe'
<1> USE DEF IInv, Safe, TypeOK, CallType, DiskType, Goto, history, Paths, Temp
<1>1. PICK i \in Inodes :
        /\ IF entry[Temp(u)] = NoInode THEN Free(i) ELSE i = entry[Temp(u)]
        /\ fd' = [fd EXCEPT ![u] = i]
        /\ entry' = [entry EXCEPT ![Temp(u)] = i]
        /\ content' = [content EXCEPT ![i] = <<>>]
  BY DEF Create
<1>2. \A p \in Paths : p # Temp(u) => entry[p] # i /\ entry'[p] = entry[p]
  BY <1>1 DEF Free, NoAlias
<1>3. entry'[Temp(u)] = i
  BY <1>1
<1>4. \A w \in Updaters : w # u /\ pc[w] # "idle" =>
        /\ pc'[w] = pc[w] /\ fd'[w] = fd[w] /\ vouch'[w] = vouch[w]
        /\ Temp(w) # Temp(u)
        /\ TempFile(w)' = TempFile(w) /\ TempFile(w) # i
  BY <1>1, <1>2 DEF Separate, TempFile
<1>5. pc'[u] = "write" /\ fd'[u] = i
  BY <1>1
<1>6. \A w \in Updaters : pc[w] = "copy" => fd[w] # i
  <2> SUFFICES ASSUME NEW w \in Updaters, pc[w] = "copy" PROVE fd[w] # i
    OBVIOUS
  <2>1. CASE entry[Temp(u)] = NoInode
    BY <1>1, <2>1 DEF Free
  <2>2. CASE entry[Temp(u)] = i
    BY <2>2 DEF OwnStreams
  <2> QED
    BY <1>1, <2>1, <2>2
<1>7. NoAlias'
  BY <1>2, <1>3 DEF NoAlias
<1>8. Separate'
  BY DEF Separate
<1>9. entry'[Dest] = entry[Dest] /\ entry[Dest] # i
  <2>1. Dest \in Paths /\ Dest # Temp(u)
    OBVIOUS
  <2> QED
    BY <1>2, <2>1
<1>10. OwnStreams'
  <2>1. \A w \in Updaters : pc'[w] = "write" => fd'[w] = TempFile(w)'
    BY <1>3, <1>4, <1>5 DEF OwnStreams, TempFile
  <2>2. \A w \in Updaters : pc'[w] = "copy" =>
            pc[w] = "copy" /\ fd'[w] = fd[w] /\ fd[w] # i
    BY <1>4, <1>5, <1>6
  <2>3. \A w \in Updaters : pc'[w] = "copy" => \A d \in Dirs : entry'[d] # fd'[w]
    <3>1. \A d \in Dirs : d # Temp(u) => entry'[d] = entry[d]
      BY <1>2
    <3>2. \A w \in Updaters : pc[w] = "copy" => \A d \in Dirs : entry[d] # fd[w]
      BY DEF OwnStreams
    <3> QED
      BY <1>3, <2>2, <3>1, <3>2
  <2>4. \A w \in Updaters :
            pc'[w] = "copy" /\ entry'[Dest] = fd'[w] => ~Renamed'
    BY <1>9, <2>2 DEF OwnStreams, Renamed
  <2> QED
    BY <2>1, <2>3, <2>4 DEF OwnStreams
<1>11. Verified'
  <2>1. \A w \in Updaters : \A d :
            w # u /\ pc[w] # "idle" /\ TempHolds(w, d) => TempHolds(w, d)'
    BY <1>1, <1>4 DEF TempHolds
  <2> QED
    BY <1>4, <1>5, <2>1 DEF Verified
<1>12. DestIntact' /\ DestVouched'
  BY <1>1, <1>9 DEF DestIntact, DestVouched, Renamed
<1> QED
  BY <1>7, <1>8, <1>10, <1>11, <1>12

(* rename: the file is verified, and no stream is open on it. *)
LEMMA MoveSafe ==
    ASSUME IInv, NEW u \in Updaters, Move(u)
    PROVE  Safe'
<1> USE DEF IInv, Safe, TypeOK, CallType, DiskType, Return, Goto, Close, Paths, Temp
<1>1. /\ pc[u] = "move" /\ Temp(u) \notin OtherDevice
      /\ TempFile(u) # NoInode
      /\ entry' = [entry EXCEPT ![Dest] = TempFile(u), ![Temp(u)] = NoInode]
      /\ installer' = u /\ warrant' = vouch[u]
      /\ Return(u, "success") /\ content' = content
  BY DEF Move, Installs
<1>2. Dest \in Paths /\ Temp(u) \in Paths /\ Dest # Temp(u)
  OBVIOUS
<1>3. /\ entry'[Dest] = TempFile(u)
      /\ entry'[Temp(u)] = NoInode
      /\ \A p \in Dirs : p # Temp(u) => entry'[p] = entry[p]
  BY <1>1, <1>2
<1>4. \A w \in Updaters : pc'[w] # "idle" =>
        /\ w # u /\ pc'[w] = pc[w] /\ fd'[w] = fd[w] /\ vouch'[w] = vouch[w]
        /\ TempFile(w)' = TempFile(w)
  BY <1>1, <1>3 DEF Separate, TempFile
<1>5. NoAlias'
  <2>1. \A p \in Dirs : entry'[p] = TempFile(u) => p = Temp(u)
    BY <1>1, <1>3 DEF NoAlias, TempFile
  <2> SUFFICES ASSUME NEW p \in Paths, NEW q \in Paths, entry'[p] = entry'[q],
                      entry'[p] # NoInode
               PROVE  p = q
    BY DEF NoAlias
  <2>2. CASE p = Dest \/ q = Dest
    BY <1>3, <2>1, <2>2
  <2>3. CASE p \in Dirs /\ q \in Dirs
    BY <1>3, <2>3 DEF NoAlias
  <2> QED
    BY <2>2, <2>3
<1>6. Separate'
  BY <1>4 DEF Separate
<1>7. OwnStreams'
  <2>1. \A w \in Updaters : pc'[w] = "write" => fd'[w] = TempFile(w)'
    BY <1>4 DEF OwnStreams
  <2>2. \A w \in Updaters : pc'[w] = "copy" =>
            fd'[w] # NoInode /\ \A d \in Dirs : entry[d] # fd'[w]
    BY <1>4 DEF OwnStreams, Locals
  <2>3. \A w \in Updaters : pc'[w] = "copy" => \A d \in Dirs : entry'[d] # fd'[w]
    BY <1>3, <2>2
  <2>4. \A w \in Updaters : pc'[w] = "copy" => entry'[Dest] # fd'[w]
    BY <1>2, <1>3, <2>2 DEF TempFile
  <2> QED
    BY <2>1, <2>3, <2>4 DEF OwnStreams
<1>8. Verified'
  <2>1. \A w \in Updaters : \A d : pc'[w] # "idle" /\ TempHolds(w, d) => TempHolds(w, d)'
    BY <1>1, <1>4 DEF TempHolds
  <2> QED
    BY <1>4, <2>1 DEF Verified
<1>9. \E d \in Loadable : TempHolds(u, d)
  BY <1>1 DEF Verified
<1>10. u \in Checked => TempHolds(u, vouch[u])
  BY <1>1 DEF Verified
<1>11. DestIntact'
  BY <1>1, <1>3, <1>9 DEF DestIntact, TempHolds
<1>12. DestVouched'
  BY <1>1, <1>3, <1>10 DEF DestVouched, TempHolds
<1> QED
  BY <1>5, <1>6, <1>7, <1>8, <1>11, <1>12

(* copy_file truncates the file at Dest, or makes a new one: nobody's temporary *)
(* file, and from now on a copy.                                               *)
LEMMA AcrossSafe ==
    ASSUME IInv, NEW u \in Updaters, pc[u] = "move", Temp(u) \in OtherDevice,
           Create(u, Dest), Installs(u), Goto(u, "copy"), UNCHANGED vouch
    PROVE  Safe'
<1> USE DEF IInv, Safe, TypeOK, CallType, DiskType, Goto, Installs, Paths, Temp
<1>1. PICK i \in Inodes :
        /\ IF entry[Dest] = NoInode THEN Free(i) ELSE i = entry[Dest]
        /\ fd' = [fd EXCEPT ![u] = i]
        /\ entry' = [entry EXCEPT ![Dest] = i]
        /\ content' = [content EXCEPT ![i] = <<>>]
  BY DEF Create
<1>2. \A d \in Dirs : entry[d] # i /\ entry'[d] = entry[d]
  BY <1>1 DEF Free, NoAlias
<1>3. entry'[Dest] = i
  BY <1>1
<1>4. ~Renamed'
  BY DEF Renamed
<1>5. \A w \in Updaters : TempFile(w)' = TempFile(w) /\ TempFile(w) # i
  BY <1>2 DEF TempFile
<1>6. NoAlias'
  BY <1>2, <1>3 DEF NoAlias
<1>7. Separate'
  BY DEF Separate
<1>8. OwnStreams'
  <2>1. \A w \in Updaters : pc'[w] = "write" => fd'[w] = TempFile(w)'
    BY <1>1, <1>5 DEF OwnStreams
  <2>2. \A w \in Updaters : pc'[w] = "copy" => \A d \in Dirs : entry'[d] # fd'[w]
    <3> SUFFICES ASSUME NEW w \in Updaters, pc'[w] = "copy", NEW d \in Dirs
                 PROVE  entry'[d] # fd'[w]
      OBVIOUS
    <3>1. CASE w = u
      BY <1>1, <1>2, <3>1
    <3>2. CASE w # u
      BY <1>1, <1>2, <3>2 DEF OwnStreams
    <3> QED
      BY <3>1, <3>2
  <2> QED
    BY <1>4, <2>1, <2>2 DEF OwnStreams
<1>9. Verified'
  <2>1. \A w \in Updaters : \A d : TempHolds(w, d) => TempHolds(w, d)'
    BY <1>1, <1>5 DEF TempHolds
  <2> QED
    BY <2>1 DEF Verified
<1>10. DestIntact' /\ DestVouched'
  BY <1>4 DEF DestIntact, DestVouched
<1> QED
  BY <1>6, <1>7, <1>8, <1>9, <1>10

LEMMA NextInv ==
    ASSUME Exclusive
    PROVE  IInv /\ [Next]_vars => IInv'
<1> SUFFICES ASSUME IInv, [Next]_vars PROVE Safe'
  BY NextType DEF IInv
<1>r. {"none", "success", "error", "cannot_move"} = Results
  BY DEF Results
<1> USE DEF Temp, lasting
<1>1. ASSUME NEW u \in Updaters, Request(u) PROVE Safe'
  BY <1>1, <1>r, ReturnSafe, RequestSafe DEF Request
<1>2. ASSUME NEW u \in Updaters, Open(u) PROVE Safe'
  BY <1>2, <1>r, ReturnSafe, OpenSafe DEF Open
<1>3. ASSUME NEW u \in Updaters, ReadChunk(u) PROVE Safe'
  BY <1>3, WriteSafe DEF ReadChunk
<1>4. ASSUME NEW u \in Updaters, DownloadEnd(u) PROVE Safe'
  <2>1. IF u \in Checked THEN Goto(u, "hash") ELSE Goto(u, "load")
    BY <1>4 DEF DownloadEnd
  <2> QED
    BY <1>4, <2>1, GotoSafe DEF DownloadEnd, Close
<1>5. ASSUME NEW u \in Updaters, DownloadFailed(u) PROVE Safe'
  BY <1>5, <1>r, RemoveSafe DEF DownloadFailed
<1>6. ASSUME NEW u \in Updaters, FetchHash(u) PROVE Safe'
  <2>1. CASE Return(u, "error") /\ UNCHANGED entry
    BY <1>6, <2>1, <1>r, ReturnSafe DEF FetchHash, disk
  <2>2. CASE Return(u, "error") /\ RemoveTemp(u)
    BY <1>6, <2>2, <1>r, RemoveSafe DEF FetchHash
  <2>3. ASSUME NEW h, vouch' = [vouch EXCEPT ![u] = h], Goto(u, "digest"),
               UNCHANGED <<got, off, fd, src, result, entry>>
        PROVE  Safe'
    <3>1. fd' = [fd EXCEPT ![u] = NoInode]
      BY <1>6, <2>3 DEF FetchHash, IInv, TypeOK, CallType, Locals
    <3>2. \A w \in Updaters \ {u} : vouch'[w] = vouch[w]
      BY <2>3 DEF IInv, TypeOK, CallType
    <3> QED
      BY <1>6, <2>3, <3>1, <3>2, GotoSafe DEF FetchHash, disk
  <2> QED
    BY <1>6, <2>1, <2>2, <2>3 DEF FetchHash
<1>7. ASSUME NEW u \in Updaters, CompareDigest(u) PROVE Safe'
  <2>1. CASE RemoveTemp(u) /\ Return(u, "error")
    BY <1>7, <2>1, <1>r, RemoveSafe DEF CompareDigest
  <2>2. CASE /\ vouch[u] # NoDoc
             /\ TempHolds(u, vouch[u])
             /\ Goto(u, "load")
             /\ UNCHANGED <<got, off, fd, src, vouch, result, entry>>
    <3>1. fd' = [fd EXCEPT ![u] = NoInode] /\ vouch[u] \in Docs
      BY <1>7, <2>2 DEF CompareDigest, IInv, TypeOK, CallType, Locals
    <3> QED
      BY <1>7, <2>2, <3>1, GotoSafe DEF CompareDigest, disk
  <2> QED
    BY <1>7, <2>1, <2>2 DEF CompareDigest
<1>8. ASSUME NEW u \in Updaters, Load(u) PROVE Safe'
  <2>1. CASE RemoveTemp(u) /\ Return(u, "error")
    BY <1>8, <2>1, <1>r, RemoveSafe DEF Load
  <2>2. CASE /\ \E d \in Loadable : TempHolds(u, d)
             /\ Goto(u, "move")
             /\ UNCHANGED <<got, off, fd, src, vouch, result, entry>>
    <3>1. fd' = [fd EXCEPT ![u] = NoInode]
      BY <1>8, <2>2 DEF Load, IInv, TypeOK, CallType, Locals
    <3>2. u \in Checked => vouch[u] \in Docs /\ TempHolds(u, vouch[u])
      BY <1>8 DEF Load, IInv, Safe, Verified
    <3> QED
      BY <1>8, <2>2, <3>1, <3>2, GotoSafe DEF Load, disk
  <2> QED
    BY <1>8, <2>1, <2>2 DEF Load
<1>9. ASSUME NEW u \in Updaters, Move(u) PROVE Safe'
  BY <1>9, MoveSafe
<1>10. ASSUME NEW u \in Updaters, MoveFailed(u) \/ Crash(u) PROVE Safe'
  BY <1>10, <1>r, ReturnSafe DEF MoveFailed, Crash
<1>11. ASSUME NEW u \in Updaters, MoveAcross(u) PROVE Safe'
  BY <1>11, <1>r, ReturnSafe, AcrossSafe DEF MoveAcross
<1>12. ASSUME NEW u \in Updaters, CopyChunk(u) PROVE Safe'
  BY <1>12, WriteSafe DEF CopyChunk
<1>13. ASSUME NEW u \in Updaters, CopyEnd(u) PROVE Safe'
  BY <1>13, <1>r, RemoveSafe, ReturnSafe DEF CopyEnd, disk
<1>14. CASE UNCHANGED vars
  BY <1>14 DEF vars, call, disk, history, IInv, Safe, NoAlias, Separate,
               OwnStreams, Verified, DestIntact, DestVouched, Renamed,
               TempHolds, TempFile
<1> QED
  BY <1>1, <1>2, <1>3, <1>4, <1>5, <1>6, <1>7, <1>8, <1>9, <1>10, <1>11,
     <1>12, <1>13, <1>14 DEF Next, Step

(* Callers that never overlap two calls in one directory keep, through every *)
(* crash, failure and interleaving, each file still to be installed out of   *)
(* the reach of the calls that write (ruleset.c:494-604).                    *)
THEOREM Invariance ==
    ASSUME Exclusive
    PROVE  Spec => []IInv
<1>1. Init => IInv
  BY InitInv
<1>2. IInv /\ [Next]_vars => IInv'
  BY NextInv
<1> QED
  BY <1>1, <1>2, PTL DEF Spec

(* With such callers a ruleset renamed to Dest stays a whole, loadable       *)
(* document: what load_file accepted at ruleset.c:590 is what readers find.  *)
THEOREM RenamedIsIntact ==
    ASSUME Exclusive
    PROVE  Spec => []DestIntact
<1>1. IInv => DestIntact
  BY DEF IInv, Safe
<1> QED
  BY <1>1, Invariance, PTL

(* And when its updater gave a sha256_url, it stays the document whose hash  *)
(* that updater fetched and compared at ruleset.c:581.                       *)
THEOREM RenamedIsVouched ==
    ASSUME Exclusive
    PROVE  Spec => []DestVouched
<1>1. IInv => DestVouched
  BY DEF IInv, Safe
<1> QED
  BY <1>1, Invariance, PTL

-------------------------------------------------------------------------------
(* Refinement *)

(* The file at Dest holds document d. *)
LEMMA InstalledIs ==
    ASSUME NEW d \in Docs, entry[Dest] # NoInode,
           content[entry[Dest]] = Whole(d)
    PROVE  Installed = d
<1>1. \A e \in Docs : content[entry[Dest]] = Whole(e) => e = d
  BY WholeInjective
<1> QED
  BY <1>1 DEF Installed

LEMMA InitRefines == Init => Promise!Init
<1> SUFFICES ASSUME Init PROVE Promise!Init
  OBVIOUS
<1>1. CASE entry = [p \in Paths |-> NoInode]
  BY <1>1 DEF Init, Promise!Init, Installed, Paths
<1>2. ASSUME NEW i \in Inodes, NEW d \in Loadable,
             entry = [p \in Paths |-> IF p = Dest THEN i ELSE NoInode],
             content = [j \in Inodes |-> IF j = i THEN Whole(d) ELSE <<>>]
      PROVE  Promise!Init
  <2>1. entry[Dest] = i /\ i # NoInode /\ content[i] = Whole(d)
    BY <1>2 DEF Paths
  <2>2. Installed = d
    BY <2>1, InstalledIs
  <2> QED
    BY <2>2 DEF Init, Promise!Init
<1> QED
  BY <1>1, <1>2 DEF Init

(* Without a second device a call that writes never has Dest open. *)
LEMMA WritersOffDest ==
    ASSUME OtherDevice = {}, IInv, NEW u \in Updaters, pc[u] \in {"write", "copy"}
    PROVE  fd[u] \in Inodes /\ entry[Dest] # fd[u]
<1> USE DEF IInv, Safe
<1>1. fd[u] \in Inodes
  BY DEF Locals
<1>2. CASE pc[u] = "copy"
  BY <1>1, <1>2 DEF OwnStreams, Renamed, TypeOK
<1>3. CASE pc[u] = "write"
  BY <1>1, <1>3 DEF OwnStreams, NoAlias, TempFile, Temp, Paths
<1> QED
  BY <1>1, <1>2, <1>3

(* A step that leaves the file at Dest alone. *)
LEMMA StutterRefines ==
    ASSUME entry'[Dest] = entry[Dest], warrant' = warrant,
           entry[Dest] # NoInode => content'[entry[Dest]] = content[entry[Dest]]
    PROVE  UNCHANGED Promise!vars
BY DEF Promise!vars, Installed

LEMMA NextRefines ==
    ASSUME OtherDevice = {}, IInv, [Next]_vars
    PROVE  [Promise!Next]_(Promise!vars)
<1> USE DEF IInv, TypeOK, lasting
<1>d. UNCHANGED <<disk, history>> => UNCHANGED Promise!vars
  BY StutterRefines DEF disk, history
<1>r. ASSUME NEW u \in Updaters, RemoveTemp(u), UNCHANGED <<content, history>>
      PROVE  UNCHANGED Promise!vars
  <2>1. Temp(u) # Dest
    BY DEF Temp
  <2>2. entry'[Dest] = entry[Dest]
    BY <1>r, <2>1 DEF RemoveTemp, DiskType, Paths
  <2> QED
    BY <1>r, <2>2, StutterRefines DEF history
<1>w. ASSUME NEW u \in Updaters, pc[u] \in {"write", "copy"}, NEW c,
             content' = [content EXCEPT ![fd[u]] = c],
             UNCHANGED <<entry, history>>
      PROVE  UNCHANGED Promise!vars
  <2>1. fd[u] \in Inodes /\ entry[Dest] # fd[u]
    BY <1>w, WritersOffDest
  <2>2. entry[Dest] # NoInode => content'[entry[Dest]] = content[entry[Dest]]
    BY <1>w, <2>1 DEF DiskType, Paths
  <2> QED
    BY <1>w, <2>2, StutterRefines DEF history
<1>1. ASSUME NEW u \in Updaters, Open(u) PROVE UNCHANGED Promise!vars
  <2>1. CASE UNCHANGED disk
    BY <1>1, <2>1, <1>d DEF Open
  <2>2. CASE Create(u, Temp(u))
    <3>1. PICK i \in Inodes :
            /\ IF entry[Temp(u)] = NoInode THEN Free(i) ELSE i = entry[Temp(u)]
            /\ entry' = [entry EXCEPT ![Temp(u)] = i]
            /\ content' = [content EXCEPT ![i] = <<>>]
      BY <2>2 DEF Create
    <3>2. Temp(u) \in Paths /\ Dest \in Paths /\ Temp(u) # Dest
      BY DEF Temp, Paths
    <3>3. entry'[Dest] = entry[Dest]
      BY <3>1, <3>2 DEF DiskType
    <3>4. entry[Dest] # i
      BY <3>1, <3>2 DEF Free, Safe, NoAlias
    <3>5. entry[Dest] # NoInode => content'[entry[Dest]] = content[entry[Dest]]
      BY <3>1, <3>2, <3>4 DEF DiskType
    <3> QED
      BY <1>1, <3>3, <3>5, StutterRefines DEF Open, history
  <2> QED
    BY <1>1, <2>1, <2>2 DEF Open
<1>2. ASSUME NEW u \in Updaters, Move(u) PROVE Promise!Next
  <2>1. PICK d \in Loadable : TempHolds(u, d)
    BY <1>2 DEF Move, Safe, Verified
  <2>2. /\ entry'[Dest] = TempFile(u) /\ TempFile(u) # NoInode
        /\ content'[entry'[Dest]] = Whole(d)
    BY <1>2, <2>1 DEF Move, TempHolds, Temp, DiskType, Paths
  <2>3. Installed' = d
    <3>1. \A e \in Docs : content'[entry'[Dest]] = Whole(e) => e = d
      BY <2>2, WholeInjective
    <3> QED
      BY <2>2, <3>1 DEF Installed
  <2>4. warrant' = vouch[u]
    BY <1>2 DEF Move, Installs
  <2>5. CASE u \in Checked
    <3>1. vouch[u] \in Docs /\ TempHolds(u, vouch[u])
      BY <1>2, <2>5 DEF Move, Safe, Verified
    <3>2. vouch[u] = d
      BY <2>1, <3>1, WholeInjective DEF TempHolds
    <3> QED
      BY <2>3, <2>4, <3>2 DEF Promise!Next, Promise!Install
  <2>6. CASE u \notin Checked
    BY <2>3, <2>4, <2>6 DEF Locals, Promise!Next, Promise!Install
  <2> QED
    BY <2>5, <2>6
<1>3. ASSUME NEW u \in Updaters, MoveAcross(u) PROVE FALSE
  BY <1>3 DEF MoveAcross
<1>4. ASSUME NEW u \in Updaters,
             Request(u) \/ DownloadEnd(u) \/ MoveFailed(u) \/ Crash(u)
      PROVE  UNCHANGED Promise!vars
  BY <1>4, <1>d DEF Request, DownloadEnd, MoveFailed, Crash
<1>5. ASSUME NEW u \in Updaters,
             DownloadFailed(u) \/ FetchHash(u) \/ CompareDigest(u) \/ Load(u)
             \/ CopyEnd(u)
      PROVE  UNCHANGED Promise!vars
  BY <1>5, <1>d, <1>r DEF DownloadFailed, FetchHash, CompareDigest, Load,
                          CopyEnd, disk
<1>6. ASSUME NEW u \in Updaters, ReadChunk(u) \/ CopyChunk(u)
      PROVE  UNCHANGED Promise!vars
  BY <1>6, <1>w DEF ReadChunk, CopyChunk
<1>7. CASE UNCHANGED vars
  BY <1>7, <1>d DEF vars
<1> QED
  BY <1>1, <1>2, <1>3, <1>4, <1>5, <1>6, <1>7 DEF Next, Step

(* On one device, and for callers that never overlap two calls in one        *)
(* directory, ruleset_update with all its failures and crashes implements    *)
(* InstalledRuleset: whoever opens the file finds one loadable document,     *)
(* replaced in one step (ruleset.c:600, utils.c:420).                        *)
THEOREM UpdateIsAtomic ==
    ASSUME Exclusive, OtherDevice = {}
    PROVE  Spec => AtomicInstall
<1>1. Init => Promise!Init
  BY InitRefines
<1>2. IInv /\ [Next]_vars => [Promise!Next]_(Promise!vars)
  BY NextRefines
<1>3. Spec => []IInv
  BY Invariance
<1> QED
  BY <1>1, <1>2, <1>3, PTL DEF Spec, AtomicInstall, Promise!Spec
===============================================================================
