------------------------------ MODULE HttpReceive ------------------------------
(***************************************************************************)
(* How a response is received (src/http.c): the loop of http_request_send  *)
(* that collects the header section in a buffer of fixed size, the parser  *)
(* that splits off the body bytes which came along, and the loop of         *)
(* http_response_read that takes the rest to a file or to memory.  The peer *)
(* sends in pieces of any size and may stop anywhere.                       *)
(*                                                                         *)
(* A response is a string of units: a status line, header lines, the two   *)
(* halves of the blank line, and the body.  Data is what position it has    *)
(* in the response, so that a byte lost, doubled or misplaced shows.        *)
(***************************************************************************)
EXTENDS Integers, Sequences

CONSTANTS
    HeaderLists, \* the header lines a response may have: sequences of lines
    Malformed,   \* the lines the parser refuses
    MaxBody,     \* bound: length of a body, in units
    MaxChunk,    \* MAX_CHUNK_SIZE, in units
    MaxHeaders   \* MAX_HEADERS_SIZE, in units

ASSUME ReceiveAssumption ==
    /\ \A h \in HeaderLists : h \in Seq(STRING)
    /\ MaxBody \in Nat
    /\ MaxChunk \in Nat \ {0}
    /\ MaxHeaders \in Nat

VARIABLES
    scheme,    \* "http" or "https"
    lines,     \* the header lines of the response
    size,      \* the length of the whole response
    arrived,   \* how much of it recv or br_sslio_read has returned
    offset,    \* bytes in the buffer `headers'
    headers,   \* response.headers
    body,      \* response.body: positions
    file,      \* what was written to the file: positions
    dst,       \* "none", or where http_response_read puts the body
    pc, result,
    ended,     \* history: how the stream ended: "open", "closed", "lost", ...
    stale,     \* history: left-over bytes were taken for the blank line
    undefined  \* the parser has run past what there is

vars == <<scheme, lines, size, arrived, offset, headers, body, file, dst, pc,
          result, ended, stale, undefined>>
response == <<scheme, lines, size>>

Stages == {"headers", "parse", "sent", "first", "read", "done"}
Results == {"none", "success", "too_big", "error"}
Endings == {"open", "closed", "lost", "broken"}

HeadSize == 1 + Len(lines) + 2

(* The data at positions a + 1 .. b of the response. *)
Piece(a, b) == [i \in 1 .. (b - a) |-> a + i]

TypeOK ==
    /\ scheme \in {"http", "https"}
    /\ lines \in HeaderLists
    /\ size \in HeadSize .. (HeadSize + MaxBody)
    /\ arrived \in 0 .. size
    /\ offset \in 0 .. MaxHeaders
    /\ headers \in Seq(STRING)
    /\ body \in Seq(Nat) /\ file \in Seq(Nat)
    /\ dst \in {"none", "file", "memory"}
    /\ pc \in Stages
    /\ result \in Results
    /\ ended \in Endings
    /\ stale \in BOOLEAN
    /\ undefined \in BOOLEAN

Return(r) == pc' = "done" /\ result' = r

(* The sizes of the piece that the next receive may return. *)
Chunk == {n \in 1 .. MaxChunk : arrived + n <= size}

-------------------------------------------------------------------------------
(* Faulty variants of the actions below.  Nothing refers to them: each shows, *)
(* put in place of the action it is named after, that a property can fail.    *)

(* RecvHead for a piece of n units, with its two conditions as parameters. *)
Received(n, refused, complete) ==
    /\ pc = "headers"
    /\ arrived' = arrived + n
    /\ IF refused
       THEN Return("too_big") /\ UNCHANGED offset
       ELSE /\ offset' = offset + n
            /\ pc' = IF complete THEN "parse" ELSE "headers"
            /\ UNCHANGED result
    /\ UNCHANGED <<response, headers, body, file, dst, ended, stale, undefined>>

(* The last byte of the buffer is kept for a NUL. *)
RecvHeadTight ==
    \E n \in Chunk : Received(n, offset + n >= MaxHeaders, offset + n >= HeadSize)

(* A piece shorter than asked for is taken for the last one. *)
RecvHeadShortPiece ==
    \E n \in Chunk : Received(n, offset + n > MaxHeaders, n < MaxChunk)

(* The loop over the header lines ends before it adds the last one. *)
ParseHeadButLast ==
    /\ pc = "parse"
    /\ offset >= HeadSize /\ lines # <<>>
    /\ headers' = SubSeq(lines, 1, Len(lines) - 1)
    /\ body' = Piece(HeadSize, offset)
    /\ pc' = "sent"
    /\ UNCHANGED <<response, arrived, offset, file, dst, result, ended, stale,
                   undefined>>

(* Only what is received from now on goes to the file. *)
WriteFirstSkipped ==
    /\ pc = "first"
    /\ pc' = "read"
    /\ UNCHANGED <<response, arrived, offset, headers, body, file, dst, result,
                   ended, stale, undefined>>

(* On TLS every failure is taken for a call to try again. *)
BodyEndsRetried ==
    /\ pc = "read"
    /\ scheme = "http"
    /\ \E e \in {"closed", "lost"} :
         /\ ended' = e
         /\ Return(IF e = "closed" THEN "success" ELSE "error")
    /\ UNCHANGED <<response, arrived, offset, headers, body, file, dst, stale,
                   undefined>>

-------------------------------------------------------------------------------
(* http_request_send: the header loop *)

(* One piece goes to the buffer.  find_crlfcrlf compares four bytes at each   *)
(* place, so near the end it also looks at bytes no piece has written, and   *)
(* what the stack holds there may complete the blank line.                   *)
RecvHead ==
    /\ pc = "headers"
    /\ \E n \in Chunk :
         /\ arrived' = arrived + n
         /\ IF offset + n > MaxHeaders
            THEN /\ Return("too_big")
                 /\ UNCHANGED <<offset, stale>>
            ELSE /\ offset' = offset + n
                 /\ \/ /\ offset' >= HeadSize
                       /\ pc' = "parse"
                       /\ UNCHANGED stale
                    \/ /\ offset' < HeadSize
                       /\ pc' = "headers"
                       /\ UNCHANGED stale
                    \/ /\ offset' < HeadSize
                       /\ pc' = "parse"
                       /\ stale' = TRUE
                 /\ UNCHANGED result
    /\ UNCHANGED <<response, headers, body, file, dst, ended, undefined>>

(* The stream ends, or fails, in the header loop.  On plain HTTP a close      *)
(* after some bytes leads on to the parser, a failure of recv does not; on   *)
(* TLS it is the other way round: what BearSSL reports as an I/O error       *)
(* (a timeout, or a close without notice) leads on.                          *)
HeadEnds ==
    /\ pc = "headers"
    /\ \E e \in Endings \ {"open"} :
         /\ e = "broken" => scheme = "https"
         /\ ended' = e
         /\ IF \/ scheme = "http" /\ e = "closed" /\ offset > 0
               \/ scheme = "https" /\ e = "lost"
            THEN pc' = "parse" /\ UNCHANGED result
            ELSE Return("error")
    /\ UNCHANGED <<response, arrived, offset, headers, body, file, dst, stale,
                   undefined>>

(* parse_http_response splits the buffer at the blank line, adds the header  *)
(* lines one by one until one is refused, and keeps the body bytes.  Without *)
(* a blank line or without any header line its searches return NULL, which it  *)
(* does not check.  It may also fail by a version or status it does not know, *)
(* or for want of memory.                                                    *)
ParseUndefined ==
    /\ pc = "parse"
    /\ offset < HeadSize \/ lines = <<>>
    /\ undefined' = TRUE
    /\ pc' = "done"
    /\ UNCHANGED <<response, arrived, offset, headers, body, file, dst, result,
                   ended, stale>>

Accepted == {k \in 0 .. Len(lines) : \A i \in 1 .. k : lines[i] \notin Malformed}

ParseHead ==
    /\ pc = "parse"
    /\ offset >= HeadSize
    /\ lines # <<>>
    /\ Len(lines) \in Accepted
    /\ headers' = lines
    /\ body' = Piece(HeadSize, offset)
    /\ pc' = "sent"
    /\ UNCHANGED <<response, arrived, offset, file, dst, result, ended, stale,
                   undefined>>

ParseFailed ==
    /\ pc = "parse"
    /\ offset >= HeadSize
    /\ \E k \in Accepted : headers' = SubSeq(lines, 1, k)
    /\ Return("error")
    /\ UNCHANGED <<response, arrived, offset, body, file, dst, ended, stale,
                   undefined>>

-------------------------------------------------------------------------------
(* http_response_read *)

(* The caller looks at the status and the headers only. *)
NotRead ==
    /\ pc = "sent"
    /\ pc' = "done"
    /\ UNCHANGED <<response, arrived, offset, headers, body, file, dst, result,
                   ended, stale, undefined>>

ReadBegin ==
    /\ pc = "sent"
    /\ dst' \in {"file", "memory"}
    /\ pc' = IF dst' = "file" THEN "first" ELSE "read"
    /\ UNCHANGED <<response, arrived, offset, headers, body, file, result, ended,
                   stale, undefined>>

(* What came with the headers is written first; the write may fail. *)
WriteFirst ==
    /\ pc = "first"
    /\ \/ file' = body /\ pc' = "read" /\ UNCHANGED result
       \/ Return("error") /\ UNCHANGED file
    /\ UNCHANGED <<response, arrived, offset, headers, body, dst, ended, stale,
                   undefined>>

(* One piece is appended to the file or to response.body, or that fails. *)
RecvBody ==
    /\ pc = "read"
    /\ \E n \in Chunk :
         /\ arrived' = arrived + n
         /\ \/ /\ IF dst = "file"
                  THEN /\ file' = file \o Piece(arrived, arrived + n)
                       /\ UNCHANGED body
                  ELSE /\ body' = body \o Piece(arrived, arrived + n)
                       /\ UNCHANGED file
               /\ UNCHANGED <<pc, result>>
            \/ /\ Return("error")
               /\ UNCHANGED <<file, body>>
    /\ UNCHANGED <<response, offset, headers, dst, ended, stale, undefined>>

(* The stream ends, or fails.  On TLS everything but a violation of the      *)
(* protocol counts as the end of the body.                                   *)
BodyEnds ==
    /\ pc = "read"
    /\ \E e \in Endings \ {"open"} :
         /\ e = "broken" => scheme = "https"
         /\ ended' = e
         /\ Return(IF e = "closed" \/ (scheme = "https" /\ e = "lost")
                   THEN "success" ELSE "error")
    /\ UNCHANGED <<response, arrived, offset, headers, body, file, dst, stale,
                   undefined>>

Done == pc = "done" /\ UNCHANGED vars

-------------------------------------------------------------------------------
Init ==
    /\ scheme \in {"http", "https"}
    /\ lines \in HeaderLists
    /\ size \in HeadSize .. (HeadSize + MaxBody)
    /\ arrived = 0 /\ offset = 0
    /\ headers = <<>> /\ body = <<>> /\ file = <<>>
    /\ dst = "none"
    /\ pc = "headers"
    /\ result = "none"
    /\ ended = "open"
    /\ stale = FALSE
    /\ undefined = FALSE

Step ==
    \/ RecvHead \/ HeadEnds \/ ParseUndefined \/ ParseHead \/ ParseFailed
    \/ NotRead \/ ReadBegin \/ WriteFirst \/ RecvBody \/ BodyEnds

Next == Step \/ Done

Spec == Init /\ [][Next]_vars

(* Every receive ends, by the timeout of the socket if by nothing else. *)
FairSpec == Spec /\ WF_vars(Step)

-------------------------------------------------------------------------------
(* Properties *)

Delivered == IF dst = "file" THEN file ELSE body

(* When http_response_read succeeds it has delivered, once and in order,     *)
(* every byte of the body that was received, those that came with the        *)
(* headers included; on plain HTTP it succeeds only when the peer has closed *)
(* the connection, never on a timeout (http.c:761-770, 940-1001).            *)
BodyDelivered ==
    result = "success" =>
        /\ Delivered = Piece(HeadSize, arrived)
        /\ scheme = "http" => ended = "closed"

(* Nothing is parsed before the header section is complete, and then all of  *)
(* it is: a caller that gets to see the response sees every header line, in  *)
(* order (http.c:698-759, 924-936).                                          *)
HeadersComplete ==
    pc \in {"sent", "first", "read"} \/ result = "success" =>
        headers = lines /\ arrived >= HeadSize

(* The parser runs past its input only when the peer stopped before the      *)
(* blank line, sent no header line at all, or left-over bytes of the stack   *)
(* stood in for the blank line (http.c:625-630, 698-699, 776-786).           *)
ParserDefined ==
    undefined => ended # "open" \/ stale \/ lines = <<>>

(* The buffer refuses no header section that is shorter, by a piece, than    *)
(* the buffer is, however it is cut into pieces (http.c:924-934).            *)
HeadFits ==
    result = "too_big" => HeadSize - 1 + MaxChunk > MaxHeaders

(* The inductive invariant behind them.  Until the parser has run everything *)
(* is in the buffer; from then on what is delivered ends where the stream     *)
(* has been read to, and only the write of the first bytes is still owed.     *)
Collecting ==
    pc \in {"headers", "parse"} =>
        /\ offset = arrived
        /\ result = "none" /\ ~undefined
        /\ pc = "headers" => ended = "open" /\ offset < HeadSize
        /\ pc = "parse" /\ offset < HeadSize => ended # "open" \/ stale

Receiving ==
    /\ pc \in {"sent", "first", "read"} => result = "none" /\ ~undefined
    /\ pc \in {"sent", "first"} => body = Piece(HeadSize, arrived)
    /\ pc = "first" => dst = "file"
    /\ pc = "read" => dst # "none" /\ Delivered = Piece(HeadSize, arrived)

IInv ==
    /\ TypeOK /\ Collecting /\ Receiving
    /\ BodyDelivered /\ HeadersComplete /\ ParserDefined /\ HeadFits

(* Receiving ends, whatever the peer does. *)
ReceiveReturns == <>(pc = "done")
===============================================================================
