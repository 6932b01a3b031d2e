--------------------------- MODULE HttpReceiveProofs ---------------------------
(***************************************************************************)
(* Theorems about HttpReceive: what is delivered, parsed and refused, for   *)
(* every header section, body, size of piece and size of buffer.            *)
(***************************************************************************)
EXTENDS HttpReceive, SequenceTheorems, TLAPS

-------------------------------------------------------------------------------
(* Pieces of the response *)

(* A piece is a sequence of positions as long as it says. *)
LEMMA PieceType ==
    ASSUME NEW a \in Nat, NEW b \in Nat, a <= b
    PROVE  /\ Piece(a, b) \in Seq(Nat)
           /\ Len(Piece(a, b)) = b - a
           /\ \A i \in 1 .. (b - a) : Piece(a, b)[i] = a + i
<1>1. DOMAIN Piece(a, b) = 1 .. (b - a)
  BY DEF Piece
<1>2. b - a \in Nat
  OBVIOUS
<1>3. \A i \in 1 .. (b - a) : Piece(a, b)[i] = a + i /\ a + i \in Nat
  BY DEF Piece
<1>4. Piece(a, b) \in Seq(Nat)
  BY <1>1, <1>2, <1>3 DEF Piece
<1> QED
  BY <1>1, <1>2, <1>3, <1>4

(* Two pieces that meet are one piece: nothing is lost or doubled between. *)
LEMMA PiecesMeet ==
    ASSUME NEW a \in Nat, NEW b \in Nat, NEW c \in Nat, a <= b, b <= c
    PROVE  Piece(a, b) \o Piece(b, c) = Piece(a, c)
<1> DEFINE s == Piece(a, b) \o Piece(b, c)
<1>1. /\ Piece(a, b) \in Seq(Nat) /\ Len(Piece(a, b)) = b - a
      /\ \A i \in 1 .. (b - a) : Piece(a, b)[i] = a + i
  BY PieceType
<1>2. /\ Piece(b, c) \in Seq(Nat) /\ Len(Piece(b, c)) = c - b
      /\ \A i \in 1 .. (c - b) : Piece(b, c)[i] = b + i
  BY PieceType
<1>3. /\ Piece(a, c) \in Seq(Nat) /\ Len(Piece(a, c)) = c - a
      /\ \A i \in 1 .. (c - a) : Piece(a, c)[i] = a + i
  BY PieceType
<1>4. /\ s \in Seq(Nat) /\ Len(s) = c - a
      /\ \A i \in 1 .. (c - a) : s[i] = IF i <= b - a THEN Piece(a, b)[i]
                                     ELSE Piece(b, c)[i - (b - a)]
  <2>1. /\ s \in Seq(Nat)
        /\ Len(s) = Len(Piece(a, b)) + Len(Piece(b, c))
        /\ \A i \in 1 .. Len(Piece(a, b)) + Len(Piece(b, c)) :
             s[i] = IF i <= Len(Piece(a, b)) THEN Piece(a, b)[i]
                    ELSE Piece(b, c)[i - Len(Piece(a, b))]
    BY <1>1, <1>2, ConcatProperties
  <2>2. Len(Piece(a, b)) + Len(Piece(b, c)) = c - a
    BY <1>1, <1>2
  <2> HIDE DEF s
  <2> QED
    BY <1>1, <2>1, <2>2
<1>5. ASSUME NEW i \in 1 .. (c - a)
      PROVE  s[i] = a + i
  <2> HIDE DEF s
  <2>1. CASE i <= b - a
    BY <1>1, <1>4, <2>1
  <2>2. CASE i > b - a
    <3>1. s[i] = Piece(b, c)[i - (b - a)]
      BY <1>4, <2>2
    <3>2. i - (b - a) \in 1 .. (c - b)
      BY <2>2
    <3> QED
      BY <1>2, <3>1, <3>2
  <2> QED
    BY <2>1, <2>2
<1>6. \A i \in 1 .. Len(s) : s[i] = Piece(a, c)[i]
  <2> HIDE DEF s
  <2> QED
    BY <1>3, <1>4, <1>5
<1> HIDE DEF s
<1>7. s = Piece(a, c)
  BY <1>3, <1>4, <1>6, SeqEqual
<1> QED
  BY <1>7 DEF s

-------------------------------------------------------------------------------
(* The invariant *)

USE ReceiveAssumption

LEMMA Sizes ==
    ASSUME TypeOK
    PROVE  /\ lines \in Seq(STRING) /\ Len(lines) \in Nat
           /\ HeadSize \in Nat /\ HeadSize >= 3
           /\ size \in Nat /\ HeadSize <= size
           /\ arrived \in Nat /\ offset \in Nat /\ offset <= MaxHeaders
<1>1. lines \in Seq(STRING)
  BY DEF TypeOK
<1>2. Len(lines) \in Nat
  BY <1>1, LenProperties
<1>3. HeadSize \in Nat /\ HeadSize >= 3
  BY <1>2 DEF HeadSize
<1> QED
  BY <1>1, <1>2, <1>3 DEF TypeOK

LEMMA InitInv == Init => IInv
<1> SUFFICES ASSUME Init PROVE IInv
  OBVIOUS
<1>1. lines \in Seq(STRING) /\ Len(lines) \in Nat
  <2>1. lines \in Seq(STRING)
    BY DEF Init
  <2> QED
    BY <2>1, LenProperties
<1>2. HeadSize \in Nat /\ HeadSize >= 3
  BY <1>1 DEF HeadSize
<1>3. <<>> \in Seq(STRING) /\ <<>> \in Seq(Nat)
  OBVIOUS
<1>4. TypeOK
  <2>1. /\ scheme \in {"http", "https"} /\ lines \in HeaderLists
        /\ size \in HeadSize .. (HeadSize + MaxBody)
    BY DEF Init
  <2>2. arrived \in 0 .. size /\ offset \in 0 .. MaxHeaders
    BY <1>2, <2>1 DEF Init
  <2>3. headers \in Seq(STRING) /\ body \in Seq(Nat) /\ file \in Seq(Nat)
    BY <1>3 DEF Init
  <2>4. /\ dst \in {"none", "file", "memory"}
        /\ pc \in Stages /\ result \in Results /\ ended \in Endings
        /\ stale \in BOOLEAN /\ undefined \in BOOLEAN
    BY DEF Init, Stages, Results, Endings
  <2> QED
    BY <2>1, <2>2, <2>3, <2>4 DEF TypeOK
<1>5. Collecting /\ Receiving
  BY <1>2 DEF Init, Collecting, Receiving
<1>6. BodyDelivered /\ HeadersComplete /\ ParserDefined /\ HeadFits
  BY DEF Init, BodyDelivered, HeadersComplete, ParserDefined, HeadFits
<1> QED
  BY <1>4, <1>5, <1>6 DEF IInv

(* The size of a piece that is received. *)
LEMMA ChunkType ==
    ASSUME NEW n \in Chunk
    PROVE  n \in Nat /\ n >= 1 /\ n <= MaxChunk /\ arrived + n <= size
BY DEF Chunk

(* What one step of the header loop keeps. *)
LEMMA RecvHeadInv == IInv /\ RecvHead => IInv'
<1> SUFFICES ASSUME IInv, RecvHead PROVE IInv'
  OBVIOUS
<1> USE DEF IInv
<1>1. PICK n \in Chunk :
        /\ arrived' = arrived + n
        /\ \/ /\ offset + n > MaxHeaders
              /\ pc' = "done" /\ result' = "too_big"
              /\ offset' = offset /\ stale' = stale
           \/ /\ offset + n <= MaxHeaders
              /\ offset' = offset + n
              /\ result' = result
              /\ \/ offset' >= HeadSize /\ pc' = "parse" /\ stale' = stale
                 \/ offset' < HeadSize /\ pc' = "headers" /\ stale' = stale
                 \/ offset' < HeadSize /\ pc' = "parse" /\ stale' = TRUE
  <2>1. PICK n \in Chunk : RecvHead!2!(n)
    BY DEF RecvHead
  <2>2. n \in Nat /\ offset \in Nat /\ MaxHeaders \in Nat
    BY ChunkType, Sizes
  <2> QED
    BY <2>1, <2>2 DEF Return
<1>2. /\ n \in Nat /\ n >= 1 /\ n <= MaxChunk /\ arrived + n <= size
      /\ MaxChunk \in Nat
  BY ChunkType
<1>3. /\ pc = "headers"
      /\ UNCHANGED <<response, headers, body, file, dst, ended, undefined>>
  BY DEF RecvHead
<1>4. UNCHANGED <<scheme, lines, size>> /\ HeadSize' = HeadSize
  BY <1>3 DEF response, HeadSize
<1>5. /\ offset = arrived /\ offset < HeadSize /\ ended = "open"
      /\ result = "none" /\ ~undefined
  BY <1>3 DEF Collecting
<1>6. TypeOK'
  <2>1. arrived' \in 0 .. size' /\ size' \in HeadSize' .. (HeadSize' + MaxBody)
    BY <1>1, <1>2, <1>4, Sizes DEF TypeOK
  <2>2. offset' \in 0 .. MaxHeaders
    BY <1>1, <1>2, Sizes
  <2>3. pc' \in Stages /\ result' \in Results /\ stale' \in BOOLEAN
    BY <1>1 DEF TypeOK, Stages, Results
  <2> QED
    BY <1>3, <1>4, <2>1, <2>2, <2>3 DEF TypeOK
<1>7. Collecting' /\ Receiving'
  BY <1>1, <1>2, <1>3, <1>4, <1>5, Sizes DEF Collecting, Receiving
<1>8. HeadFits'
  <2>1. CASE result' = "too_big"
    <3>1. offset + n > MaxHeaders
      BY <1>1, <1>5, <2>1
    <3> QED
      BY <1>2, <1>4, <1>5, <3>1, Sizes DEF HeadFits
  <2> QED
    BY <2>1 DEF HeadFits
<1>9. BodyDelivered' /\ HeadersComplete' /\ ParserDefined'
  BY <1>1, <1>3, <1>5 DEF BodyDelivered, HeadersComplete, ParserDefined
<1> QED
  BY <1>6, <1>7, <1>8, <1>9

(* The stream ends in the header loop: the parser is left with what there is. *)
LEMMA HeadEndsInv == IInv /\ HeadEnds => IInv'
<1> SUFFICES ASSUME IInv, HeadEnds PROVE IInv'
  OBVIOUS
<1> USE DEF IInv
<1>1. /\ pc = "headers" /\ ended' \in Endings \ {"open"}
      /\ \/ pc' = "parse" /\ result' = result
         \/ pc' = "done" /\ result' = "error"
  BY DEF HeadEnds, Return
<1>2. /\ UNCHANGED <<scheme, lines, size, arrived, offset>> /\ HeadSize' = HeadSize
      /\ UNCHANGED <<headers, body, file, dst, stale, undefined>>
  BY DEF HeadEnds, response, HeadSize
<1>3. offset = arrived /\ result = "none" /\ ~undefined
  BY <1>1 DEF Collecting
<1>4. TypeOK'
  <2>1. pc' \in Stages /\ result' \in Results /\ ended' \in Endings
    BY <1>1 DEF TypeOK, Stages, Results
  <2> QED
    BY <1>2, <2>1 DEF TypeOK
<1>5. Collecting' /\ Receiving'
  BY <1>1, <1>2, <1>3 DEF Collecting, Receiving, Endings
<1>6. BodyDelivered' /\ HeadersComplete' /\ ParserDefined' /\ HeadFits'
  BY <1>1, <1>2, <1>3 DEF BodyDelivered, HeadersComplete, ParserDefined, HeadFits
<1> QED
  BY <1>4, <1>5, <1>6

(* The parser: it runs on what there is, splits the response, or fails. *)
LEMMA ParserInv == IInv /\ (ParseUndefined \/ ParseHead \/ ParseFailed) => IInv'
<1> SUFFICES ASSUME IInv, ParseUndefined \/ ParseHead \/ ParseFailed PROVE IInv'
  OBVIOUS
<1> USE DEF IInv
<1>1. /\ pc = "parse"
      /\ UNCHANGED <<scheme, lines, size, arrived, offset>> /\ HeadSize' = HeadSize
      /\ UNCHANGED <<file, dst, ended, stale>>
  BY DEF ParseUndefined, ParseHead, ParseFailed, response, HeadSize
<1>2. offset = arrived /\ result = "none" /\ ~undefined
  BY <1>1 DEF Collecting
<1>3. CASE ParseUndefined
  <2>1. /\ pc' = "done" /\ undefined' = TRUE
        /\ UNCHANGED <<headers, body, result>>
        /\ offset < HeadSize \/ lines = <<>>
    BY <1>3 DEF ParseUndefined
  <2>2. TypeOK'
    <3>1. pc' \in Stages /\ undefined' \in BOOLEAN
      BY <2>1 DEF Stages
    <3> QED
      BY <1>1, <2>1, <3>1 DEF TypeOK
  <2>3. ParserDefined'
    BY <1>1, <2>1 DEF ParserDefined, Collecting
  <2>4. Collecting' /\ Receiving' /\ BodyDelivered' /\ HeadersComplete' /\ HeadFits'
    BY <1>2, <2>1 DEF Collecting, Receiving, BodyDelivered, HeadersComplete, HeadFits
  <2> QED
    BY <2>2, <2>3, <2>4
<1>4. CASE ParseHead
  <2>1. /\ pc' = "sent" /\ offset >= HeadSize
        /\ headers' = lines /\ body' = Piece(HeadSize, offset)
        /\ UNCHANGED <<result, undefined>>
    BY <1>4 DEF ParseHead
  <2>2. body' \in Seq(Nat)
    BY <2>1, Sizes, PieceType
  <2>3. TypeOK'
    <3>1. pc' \in Stages /\ headers' \in Seq(STRING)
      BY <2>1, Sizes DEF Stages
    <3> QED
      BY <1>1, <2>1, <2>2, <3>1 DEF TypeOK
  <2>4. body' = Piece(HeadSize', arrived')
    BY <1>1, <1>2, <2>1 DEF Piece
  <2>5. Collecting' /\ Receiving'
    BY <1>2, <2>1, <2>4 DEF Collecting, Receiving
  <2>6. HeadersComplete' /\ BodyDelivered' /\ ParserDefined' /\ HeadFits'
    BY <1>1, <1>2, <2>1 DEF HeadersComplete, BodyDelivered, ParserDefined, HeadFits
  <2> QED
    BY <2>3, <2>5, <2>6
<1>5. CASE ParseFailed
  <2>1. PICK k \in 0 .. Len(lines) : headers' = SubSeq(lines, 1, k)
    BY <1>5 DEF ParseFailed, Accepted
  <2>2. headers' \in Seq(STRING)
    BY <2>1, Sizes
  <2>3. /\ pc' = "done" /\ result' = "error"
        /\ UNCHANGED <<body, undefined>>
    BY <1>5 DEF ParseFailed, Return
  <2>4. TypeOK'
    <3>1. pc' \in Stages /\ result' \in Results
      BY <2>3 DEF Stages, Results
    <3> QED
      BY <1>1, <2>2, <2>3, <3>1 DEF TypeOK
  <2>5. Collecting' /\ Receiving'
    BY <2>3 DEF Collecting, Receiving
  <2>6. HeadersComplete' /\ BodyDelivered' /\ ParserDefined' /\ HeadFits'
    BY <1>2, <2>3 DEF HeadersComplete, BodyDelivered, ParserDefined, HeadFits
  <2> QED
    BY <2>4, <2>5, <2>6
<1> QED
  BY <1>3, <1>4, <1>5

(* The steps up to the loop of http_response_read: the bytes that came with   *)
(* the headers are put first.                                                *)
LEMMA FirstInv == IInv /\ (NotRead \/ ReadBegin \/ WriteFirst) => IInv'
<1> SUFFICES ASSUME IInv, NotRead \/ ReadBegin \/ WriteFirst PROVE IInv'
  OBVIOUS
<1> USE DEF IInv
<1>1. /\ pc \in {"sent", "first"}
      /\ UNCHANGED <<scheme, lines, size, arrived, offset>> /\ HeadSize' = HeadSize
      /\ UNCHANGED <<headers, body, ended, stale, undefined>>
  BY DEF NotRead, ReadBegin, WriteFirst, response, HeadSize
<1>2. result = "none" /\ ~undefined /\ body = Piece(HeadSize, arrived)
  BY <1>1 DEF Receiving
<1>3. headers = lines /\ arrived >= HeadSize
  BY <1>1 DEF HeadersComplete
<1>4. body' = Piece(HeadSize', arrived')
  BY <1>1, <1>2 DEF Piece
<1>5. CASE NotRead
  <2>1. pc' = "done" /\ UNCHANGED <<file, dst, result>>
    BY <1>5 DEF NotRead
  <2>2. TypeOK'
    BY <1>1, <2>1 DEF TypeOK, Stages
  <2> QED
    BY <1>1, <1>2, <2>1, <2>2
       DEF Collecting, Receiving, HeadersComplete, BodyDelivered, ParserDefined, HeadFits
<1>6. CASE ReadBegin
  <2>1. /\ dst' \in {"file", "memory"} /\ UNCHANGED <<file, result>>
        /\ pc' = IF dst' = "file" THEN "first" ELSE "read"
    BY <1>6 DEF ReadBegin
  <2>2. TypeOK'
    BY <1>1, <2>1 DEF TypeOK, Stages
  <2>3. Collecting' /\ Receiving'
    BY <1>1, <1>2, <1>4, <2>1 DEF Collecting, Receiving, Delivered
  <2> QED
    BY <1>1, <1>2, <1>3, <2>1, <2>2, <2>3
       DEF HeadersComplete, BodyDelivered, ParserDefined, HeadFits
<1>7. CASE WriteFirst
  <2>1. /\ pc = "first" /\ dst' = dst
        /\ \/ file' = body /\ pc' = "read" /\ result' = result
           \/ pc' = "done" /\ result' = "error" /\ file' = file
    BY <1>7 DEF WriteFirst, Return
  <2>2. dst = "file"
    BY <2>1 DEF Receiving
  <2>3. TypeOK'
    <3>1. pc' \in Stages /\ result' \in Results /\ file' \in Seq(Nat)
      BY <2>1 DEF TypeOK, Stages, Results
    <3> QED
      BY <1>1, <2>1, <3>1 DEF TypeOK
  <2>4. Collecting' /\ Receiving'
    BY <1>1, <1>2, <1>4, <2>1, <2>2 DEF Collecting, Receiving, Delivered
  <2> QED
    BY <1>1, <1>2, <1>3, <2>1, <2>3, <2>4
       DEF HeadersComplete, BodyDelivered, ParserDefined, HeadFits
<1> QED
  BY <1>5, <1>6, <1>7

(* One turn of the loop of http_response_read puts its piece at the end. *)
LEMMA RecvBodyInv == IInv /\ RecvBody => IInv'
<1> SUFFICES ASSUME IInv, RecvBody PROVE IInv'
  OBVIOUS
<1> USE DEF IInv
<1>1. /\ pc = "read"
      /\ UNCHANGED <<scheme, lines, size, offset, headers, dst>> /\ HeadSize' = HeadSize
      /\ UNCHANGED <<ended, stale, undefined>>
  BY DEF RecvBody, response, HeadSize
<1>2. /\ result = "none" /\ ~undefined /\ dst # "none"
      /\ Delivered = Piece(HeadSize, arrived)
      /\ headers = lines /\ arrived >= HeadSize
  BY <1>1 DEF Receiving, HeadersComplete
<1>3. PICK n \in Chunk :
        /\ arrived' = arrived + n
        /\ \/ /\ IF dst = "file"
                 THEN file' = file \o Piece(arrived, arrived + n) /\ body' = body
                 ELSE body' = body \o Piece(arrived, arrived + n) /\ file' = file
              /\ pc' = pc /\ result' = result
           \/ /\ pc' = "done" /\ result' = "error"
              /\ file' = file /\ body' = body
  BY DEF RecvBody, Return
<1>4. n \in Nat /\ n >= 1 /\ arrived + n <= size
  BY ChunkType
<1>5. /\ Piece(arrived, arrived + n) \in Seq(Nat)
      /\ Piece(HeadSize, arrived) \o Piece(arrived, arrived + n)
           = Piece(HeadSize, arrived + n)
  <2>1. arrived \in Nat /\ HeadSize \in Nat /\ arrived + n \in Nat
    BY <1>4, Sizes
  <2>2. arrived <= arrived + n /\ HeadSize <= arrived
    BY <1>2, <1>4, <2>1
  <2>3. Piece(arrived, arrived + n) \in Seq(Nat)
    BY <2>1, <2>2, PieceType
  <2>4. Piece(HeadSize, arrived) \o Piece(arrived, arrived + n)
          = Piece(HeadSize, arrived + n)
    <3> HIDE DEF IInv
    <3> QED
      BY <2>1, <2>2, PiecesMeet
  <2> QED
    BY <2>3, <2>4
<1>6. TypeOK'
  <2>1. arrived' \in 0 .. size'
    BY <1>1, <1>3, <1>4, Sizes
  <2>2. body' \in Seq(Nat) /\ file' \in Seq(Nat)
    BY <1>3, <1>5, ConcatProperties DEF TypeOK
  <2>3. pc' \in Stages /\ result' \in Results
    BY <1>1, <1>3 DEF TypeOK, Stages, Results
  <2> QED
    BY <1>1, <2>1, <2>2, <2>3 DEF TypeOK
<1>7. pc' = "read" => Delivered' = Piece(HeadSize', arrived')
  <2> SUFFICES ASSUME pc' = "read" PROVE Delivered' = Piece(HeadSize', arrived')
    OBVIOUS
  <2>1. Delivered' = Delivered \o Piece(arrived, arrived + n)
    BY <1>1, <1>3 DEF Delivered
  <2>2. Piece(HeadSize', arrived') = Piece(HeadSize, arrived + n)
    BY <1>1, <1>3 DEF Piece
  <2> QED
    BY <1>2, <1>5, <2>1, <2>2
<1>8. Collecting' /\ Receiving'
  BY <1>1, <1>2, <1>3, <1>7 DEF Collecting, Receiving
<1>9. HeadersComplete'
  BY <1>1, <1>2, <1>3, <1>4, Sizes DEF HeadersComplete
<1>10. BodyDelivered' /\ ParserDefined' /\ HeadFits'
  BY <1>1, <1>2, <1>3 DEF BodyDelivered, ParserDefined, HeadFits
<1> QED
  BY <1>6, <1>8, <1>9, <1>10

(* The end of the stream is the end of the body, or an error. *)
LEMMA BodyEndsInv == IInv /\ BodyEnds => IInv'
<1> SUFFICES ASSUME IInv, BodyEnds PROVE IInv'
  OBVIOUS
<1> USE DEF IInv
<1>1. /\ pc = "read" /\ pc' = "done"
      /\ UNCHANGED <<scheme, lines, size, arrived, offset>> /\ HeadSize' = HeadSize
      /\ UNCHANGED <<headers, body, file, dst, stale, undefined>>
  BY DEF BodyEnds, Return, response, HeadSize
<1>2. /\ result = "none" /\ ~undefined
      /\ Delivered = Piece(HeadSize, arrived)
      /\ headers = lines /\ arrived >= HeadSize
  BY <1>1 DEF Receiving, HeadersComplete
<1>3. /\ ended' \in Endings
      /\ \/ result' = "success" /\ (scheme = "http" => ended' = "closed")
         \/ result' = "error"
  BY DEF BodyEnds, Return
<1>4. TypeOK'
  <2>1. pc' \in Stages /\ result' \in Results
    BY <1>1, <1>3 DEF Stages, Results
  <2> QED
    BY <1>1, <1>3, <2>1 DEF TypeOK
<1>5. Delivered' = Piece(HeadSize', arrived')
  BY <1>1, <1>2 DEF Delivered, Piece
<1>6. BodyDelivered' /\ HeadersComplete'
  BY <1>1, <1>2, <1>3, <1>5 DEF BodyDelivered, HeadersComplete
<1>7. Collecting' /\ Receiving' /\ ParserDefined' /\ HeadFits'
  BY <1>1, <1>2, <1>3 DEF Collecting, Receiving, ParserDefined, HeadFits
<1> QED
  BY <1>4, <1>6, <1>7

LEMMA NextInv == IInv /\ [Next]_vars => IInv'
<1> SUFFICES ASSUME IInv, [Next]_vars PROVE IInv'
  OBVIOUS
<1>1. CASE Step
  BY <1>1, RecvHeadInv, HeadEndsInv, ParserInv, FirstInv, RecvBodyInv, BodyEndsInv DEF Step
<1>2. CASE UNCHANGED vars
  BY <1>2 DEF vars, response, IInv, TypeOK, Collecting, Receiving, BodyDelivered, Delivered,
              HeadersComplete, ParserDefined, HeadFits, HeadSize, Piece
<1> QED
  BY <1>1, <1>2 DEF Next, Done

-------------------------------------------------------------------------------
(* Theorems *)

(* The inductive invariant: at every point of both receive loops, what has    *)
(* arrived is accounted for (http.c:884-936, 940-1001).                       *)
THEOREM Accounted == Spec => []IInv
BY InitInv, NextInv, PTL DEF Spec

(* http_response_read delivers what arrived of the body, once and in order,   *)
(* for bodies, pieces and buffers of any size (http.c:761-770, 940-1001).     *)
THEOREM BodyIsDelivered == Spec => []BodyDelivered
<1>1. IInv => BodyDelivered
  BY DEF IInv
<1> QED
  BY <1>1, Accounted, PTL

(* No response is handed to a caller with only a part of its header lines     *)
(* (http.c:698-759, 924-936).                                                 *)
THEOREM HeadersAreComplete == Spec => []HeadersComplete
<1>1. IInv => HeadersComplete
  BY DEF IInv
<1> QED
  BY <1>1, Accounted, PTL

(* The parser is safe as long as the peer ends its header section, has a      *)
(* header line in it, and the stack does not look like a blank line           *)
(* (http.c:625-630, 698-699, 776-786).                                        *)
THEOREM ParserIsDefined == Spec => []ParserDefined
<1>1. IInv => ParserDefined
  BY DEF IInv
<1> QED
  BY <1>1, Accounted, PTL

(* A header section is refused only if it and the rest of its last piece do   *)
(* not fit the buffer (http.c:924-926).                                       *)
THEOREM ShortHeadFits == Spec => []HeadFits
<1>1. IInv => HeadFits
  BY DEF IInv
<1> QED
  BY <1>1, Accounted, PTL
===============================================================================
