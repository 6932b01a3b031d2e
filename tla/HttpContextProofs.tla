--------------------------- MODULE HttpContextProofs ---------------------------
(***************************************************************************)
(* Theorems about HttpContext: which descriptor a call closes, on which    *)
(* socket its engine works and what it leaves open, for any number of       *)
(* threads and descriptors.                                                *)
(***************************************************************************)
EXTENDS HttpContext, FiniteSetTheorems, NaturalsInduction, WellFoundedInduction, TLAPS

USE ContextAssumption

(* Invariants of a state in which no call has closed what is not its own *)
Safe == SocketKnown /\ StageOf /\ ClosedAlone /\ Fresh

-------------------------------------------------------------------------------
(* Lemmas about the operators *)

(* A set of naturals has a least element. *)
LEMMA Least ==
    ASSUME NEW T \in SUBSET Nat, T # {}
    PROVE  \E n \in T : \A m \in T : n <= m
<1> DEFINE Less == {r \in Nat \X Nat : r[1] < r[2]}
<1>1. IsWellFoundedOn(Less, Nat)
  <2>1. OpToRel(<, Nat) = Less
    BY Zenon DEF OpToRel
  <2> QED
    BY <2>1, NatLessThanWellFounded, Zenon
<1>2. PICK n \in T : \A m \in T : ~(<<m, n>> \in Less)
  BY <1>1, WFMin, Zenon
<1>3. \A m \in T : n <= m
  <2> TAKE m \in T
  <2>1. m \in Nat /\ n \in Nat /\ ~(m < n)
    BY <1>2
  <2> QED
    BY <2>1
<1> QED
  BY <1>3

LEMMA LowestIsAvailable ==
    ASSUME Available # {}
    PROVE  Lowest \in Available
<1>1. Available \in SUBSET Nat
  BY DEF Available, Fds
<1>2. \E n \in Available : \A m \in Available : n <= m
  BY <1>1, Least, Zenon
<1> QED
  BY <1>2 DEF Lowest

(* What two calls open is never the same, nor the application's, nor nothing. *)
LEMMA Strangers ==
    ASSUME NEW c \in Callers
    PROVE  /\ \A r \in {1, 2} : Socket(c, r) \in Sockets(c)
           /\ Sockets(c) \cup {File(c)} \subseteq Owned /\ File(c) \notin Sockets(c)
           /\ File(c) # Unused /\ File(c) # App
           /\ Unused \notin Sockets(c) /\ App \notin Sockets(c)
           /\ \A d \in Callers : \A x \in Sockets(c) \cup {File(c)} :
                 x \in Sockets(d) \cup {File(d)} => d = c
<1>1. /\ Socket(c, 1).for = 1 /\ Socket(c, 2).for = 2 /\ File(c).for = 0
      /\ Socket(c, 1) \in Owned /\ Socket(c, 2) \in Owned /\ File(c) \in Owned
  BY DEF Socket, File, Owned
<1>2. \A d \in Callers : Socket(d, 1).by = d /\ Socket(d, 2).by = d /\ File(d).by = d
  BY DEF Socket, File
<1>3. \A d \in Callers : \A x \in Sockets(d) \cup {File(d)} : x.by = d
  BY <1>2 DEF Sockets
<1>4. Sockets(c) = {Socket(c, 1), Socket(c, 2)}
  BY DEF Sockets
<1>5. Sockets(c) \cup {File(c)} \subseteq Owned /\ File(c) \notin Sockets(c)
  BY <1>1, <1>4
<1> QED
  BY <1>1, <1>3, <1>4, <1>5

LEMMA OwnSocket ==
    ASSUME TypeOK, NEW c \in Callers
    PROVE  /\ Socket(c, req[c]) \in Sockets(c)
           /\ Socket(c, req[c]) # Unused /\ Socket(c, req[c]) # App
<1>1. req[c] \in {1, 2}
  BY DEF TypeOK
<1>2. Socket(c, req[c]) \in Sockets(c)
  BY <1>1 DEF Sockets
<1> QED
  BY <1>2, Strangers, Zenon

LEMMA AtMostOne ==
    ASSUME NEW T, NEW x, T \subseteq {x}
    PROVE  Cardinality(T) <= 1
<1>1. IsFiniteSet({x}) /\ Cardinality({x}) = 1
  BY FS_Singleton
<1>2. Cardinality(T) <= Cardinality({x})
  BY <1>1, FS_Subset
<1>3. Cardinality(T) \in Nat
  BY <1>1, FS_Subset, FS_CardinalityType
<1> QED
  BY <1>1, <1>2, <1>3

(* While sockets are known, none is left over. *)
LEMMA KnownIsReleased == SocketKnown /\ StageOf => SocketsReleased
<1> SUFFICES ASSUME SocketKnown, StageOf, NEW c \in Callers
             PROVE  /\ Cardinality({n \in Fds : table[n] \in Sockets(c)}) <= 1
                    /\ pc[c] = "idle" => \A n \in Fds : table[n] \notin Sockets(c)
  BY DEF SocketsReleased
<1>1. {n \in Fds : table[n] \in Sockets(c)} \subseteq {fd[c]}
  BY DEF SocketKnown
<1>2. Cardinality({n \in Fds : table[n] \in Sockets(c)}) <= 1
  BY <1>1, AtMostOne
<1>3. pc[c] = "idle" => \A n \in Fds : table[n] \notin Sockets(c)
  BY DEF SocketKnown, StageOf
<1> QED
  BY <1>2, <1>3

(* How the invariant of a state without harm is put together. *)
LEMMA SafeIsInv == TypeOK /\ RequestsApart /\ Safe /\ harm = NoOne => IInv
BY KnownIsReleased DEF IInv, Safe, HarmExplained

LEMMA InitInv == Init => IInv
<1> SUFFICES ASSUME Init PROVE IInv
  OBVIOUS
<1>1. TypeOK
  BY DEF Init, TypeOK, Fds, Stages, Ops
<1>2. \A n \in Fds : table[n] \in {App, Unused}
  BY DEF Init
<1>3. SocketKnown
  BY <1>2, Strangers DEF Init, SocketKnown
<1>4. StageOf /\ ClosedAlone /\ Fresh /\ RequestsApart
  BY DEF Init, StageOf, ClosedAlone, Fresh, RequestsApart
<1>5. harm = NoOne
  BY DEF Init
<1> QED
  BY <1>1, <1>3, <1>4, <1>5, SafeIsInv DEF Safe

-------------------------------------------------------------------------------
(* One lemma per action *)

LEMMA AppOpensInv == IInv /\ AppOpens => IInv'
<1> SUFFICES ASSUME IInv, AppOpens PROVE IInv'
  OBVIOUS
<1> DEFINE n == Lowest
<1>1. TypeOK /\ Safe /\ RequestsApart /\ harm = NoOne
  BY DEF IInv, AppOpens, Safe
<1>2. n \in Fds /\ table[n] = Unused /\ table' = [table EXCEPT ![n] = App]
  BY LowestIsAvailable DEF AppOpens, Opens, Available
<1>3. rival' = [c \in Callers |-> rival[c] \/ held[c] = "closed"]
  BY DEF AppOpens, Opens
<1>4. /\ UNCHANGED <<context, pc, op, req, stream, ok, held, harm>>
      /\ UNCHANGED <<scheme, fd, engine, headers, body>>
  BY DEF AppOpens, context
<1> HIDE DEF n
<1>5. TypeOK'
  BY <1>1, <1>2, <1>3, <1>4 DEF TypeOK
<1>6. SocketKnown'
  <2> SUFFICES ASSUME NEW c \in Callers
               PROVE  /\ held[c] = "own" => fd[c] \in Fds /\ table'[fd[c]] = Socket(c, req[c])
                      /\ \A m \in Fds : table'[m] \in Sockets(c) => held[c] = "own" /\ fd[c] = m
    BY <1>4, Zenon DEF SocketKnown
  <2>1. \A m \in Fds : table'[m] = IF m = n THEN App ELSE table[m]
    BY <1>1, <1>2 DEF TypeOK
  <2>2. held[c] = "own" => fd[c] \in Fds /\ table[fd[c]] = Socket(c, req[c])
    BY <1>1 DEF Safe, SocketKnown
  <2>3. Socket(c, req[c]) # Unused
    BY <1>1, OwnSocket
  <2> QED
    BY <1>1, <1>2, <2>1, <2>2, <2>3, Strangers DEF Safe, SocketKnown
<1>7. StageOf'
  BY <1>1, <1>2, <1>4, Strangers DEF TypeOK, Safe, StageOf
<1>8. ClosedAlone'
  BY <1>1, <1>3, <1>4 DEF TypeOK, ClosedAlone
<1>9. Fresh' /\ RequestsApart'
  BY <1>1, <1>4 DEF Safe, Fresh, RequestsApart
<1>10. Safe' /\ (harm = NoOne)'
  BY <1>1, <1>4, <1>6, <1>7, <1>8, <1>9 DEF Safe
<1> QED
  BY <1>5, <1>9, <1>10, SafeIsInv, PTL

LEMMA AppClosesInv == IInv /\ AppCloses => IInv'
<1> SUFFICES ASSUME IInv, AppCloses PROVE IInv'
  OBVIOUS
<1>1. TypeOK /\ Safe /\ RequestsApart /\ harm = NoOne
  BY DEF IInv, AppCloses, Safe
<1>2. PICK n \in Fds : table[n] = App /\ table' = [table EXCEPT ![n] = Unused]
  BY DEF AppCloses
<1>3. /\ UNCHANGED <<pc, op, req, stream, ok, held, rival, harm>>
      /\ UNCHANGED <<scheme, fd, engine, headers, body>>
  BY DEF AppCloses, context
<1>4. TypeOK'
  BY <1>1, <1>2, <1>3 DEF TypeOK
<1>5. \A m \in Fds : table'[m] = IF m = n THEN Unused ELSE table[m]
  BY <1>1, <1>2 DEF TypeOK
<1>6. SocketKnown'
  BY <1>1, <1>2, <1>3, <1>5, OwnSocket, Strangers DEF Safe, SocketKnown
<1>7. StageOf'
  <2>1. \A c \in Callers : stream[c] # -1 => stream[c] \in Fds /\ table[stream[c]] # App
    BY <1>1, Strangers DEF TypeOK, Safe, StageOf
  <2> QED
    BY <1>1, <1>2, <1>3, <1>5, <2>1 DEF Safe, StageOf
<1>8. ClosedAlone'
  BY <1>1, <1>3, <1>5 DEF Safe, ClosedAlone
<1>9. Fresh' /\ RequestsApart'
  BY <1>1, <1>3 DEF Safe, Fresh, RequestsApart
<1>10. Safe' /\ (harm = NoOne)'
  BY <1>1, <1>3, <1>6, <1>7, <1>8, <1>9 DEF Safe
<1> QED
  BY <1>4, <1>9, <1>10, SafeIsInv, PTL

LEMMA BeginInv == ASSUME IInv, NEW c \in Callers, Begin(c) PROVE IInv'
<1>1. TypeOK /\ Safe /\ RequestsApart /\ harm = NoOne
  BY DEF IInv, Begin, At, Safe
<1>2. UNCHANGED <<table, req, scheme, fd, engine, headers, body, stream, ok, held, rival, harm>>
  BY DEF Begin, context
<1>3. TypeOK'
  BY <1>1, <1>2 DEF Begin, At, Goto, Fail, TypeOK, Stages, Ops
<1>4. SocketKnown' /\ ClosedAlone'
  BY <1>1, <1>2 DEF Safe, SocketKnown, ClosedAlone
<1>5. StageOf'
  BY <1>1, <1>2 DEF Begin, At, Goto, Fail, TypeOK, Safe, StageOf
<1>6. Fresh'
  BY <1>1, <1>2 DEF Begin, At, Goto, Fail, TypeOK, Safe, Fresh
<1>7. RequestsApart'
  BY <1>1, <1>2 DEF Begin, At, Goto, Fail, TypeOK, Safe, StageOf, Fresh, RequestsApart
<1>8. Safe' /\ (harm = NoOne)'
  BY <1>1, <1>2, <1>4, <1>5, <1>6 DEF Safe
<1> QED
  BY <1>3, <1>7, <1>8, SafeIsInv, PTL

LEMMA SetUrlInv == ASSUME IInv, NEW c \in Callers, SetUrl(c) PROVE IInv'
<1>1. TypeOK /\ Safe /\ RequestsApart /\ harm = NoOne
  BY DEF IInv, SetUrl, At, Safe
<1>2. UNCHANGED <<table, op, req, fd, engine, body, stream, held, rival, harm>>
  BY DEF SetUrl, context
<1>9. /\ pc[c] = "url" /\ Append(headers[c], req[c]) = <<req[c]>>
      /\ <<req[c]>> \in Seq({1, 2})
  <2>1. pc[c] = "url" /\ headers[c] = <<>> /\ req[c] \in {1, 2}
    BY <1>1 DEF SetUrl, At, Safe, Fresh, TypeOK
  <2> QED
    BY <2>1
<1>3. TypeOK'
  <2>1. headers' = [headers EXCEPT ![c] = <<req[c]>>] \/ headers' = headers
    BY <1>1, <1>9 DEF SetUrl
  <2>2. headers' \in [Callers -> Seq({1, 2})]
    BY <1>1, <1>9, <2>1 DEF TypeOK
  <2>3. pc' \in [Callers -> Stages] /\ ok' \in [Callers -> BOOLEAN]
    BY <1>1 DEF SetUrl, Goto, Fail, TypeOK, Stages
  <2>4. scheme' \in [Callers -> {"http", "https"}]
    <3>1. scheme' = scheme \/ \E x \in {"http", "https"} : scheme' = [scheme EXCEPT ![c] = x]
      BY DEF SetUrl
    <3> QED
      BY <1>1, <3>1 DEF TypeOK
  <2> QED
    BY <1>1, <1>2, <2>2, <2>3, <2>4 DEF TypeOK
<1>4. SocketKnown' /\ ClosedAlone'
  BY <1>1, <1>2 DEF Safe, SocketKnown, ClosedAlone
<1>5. StageOf'
  BY <1>1, <1>2 DEF SetUrl, At, Goto, Fail, TypeOK, Safe, StageOf
<1>6. Fresh'
  BY <1>1, <1>2, <1>9 DEF SetUrl, At, Goto, Fail, TypeOK, Safe, Fresh
<1>7. RequestsApart'
  <2>1. /\ \A d \in Callers : d # c => pc'[d] = pc[d] /\ headers'[d] = headers[d]
        /\ pc'[c] \in {"socket", "end"}
    BY <1>1 DEF SetUrl, Goto, Fail, TypeOK
  <2> QED
    BY <1>1, <1>2, <2>1 DEF RequestsApart
<1>8. Safe' /\ (harm = NoOne)'
  BY <1>1, <1>2, <1>4, <1>5, <1>6 DEF Safe
<1> QED
  BY <1>3, <1>7, <1>8, SafeIsInv, PTL

LEMMA ConnectInv == ASSUME IInv, NEW c \in Callers, Connect(c) PROVE IInv'
<1>1. TypeOK /\ Safe /\ RequestsApart /\ harm = NoOne
  BY DEF IInv, Connect, At, Safe
<1>2. UNCHANGED <<table, op, req, scheme, fd, engine, headers, body, stream, held, rival, harm>>
  BY DEF Connect, context
<1>3. TypeOK'
  BY <1>1, <1>2 DEF Connect, At, Goto, Fail, TypeOK, Stages, Ops
<1>4. SocketKnown' /\ ClosedAlone'
  BY <1>1, <1>2 DEF Safe, SocketKnown, ClosedAlone
<1>5. StageOf'
  BY <1>1, <1>2 DEF Connect, At, Goto, Fail, TypeOK, Safe, StageOf
<1>6. Fresh'
  BY <1>1, <1>2 DEF Connect, At, Goto, Fail, TypeOK, Safe, Fresh
<1>7. RequestsApart'
  BY <1>1, <1>2 DEF Connect, At, Goto, Fail, TypeOK, Safe, StageOf, Fresh, RequestsApart
<1>8. Safe' /\ (harm = NoOne)'
  BY <1>1, <1>2, <1>4, <1>5, <1>6 DEF Safe
<1> QED
  BY <1>3, <1>7, <1>8, SafeIsInv, PTL

(* The engine is reset for the socket the call has. *)
LEMMA SendRequestInv == ASSUME IInv, NEW c \in Callers, SendRequest(c) PROVE IInv'
<1>1. TypeOK /\ Safe /\ RequestsApart /\ harm = NoOne
  BY DEF IInv, SendRequest, At, Safe
<1>2. UNCHANGED <<table, op, req, scheme, fd, headers, body, stream, held, rival, harm>>
  BY DEF SendRequest, context
<1>3. TypeOK'
  BY <1>1, <1>2 DEF SendRequest, At, Goto, Fail, TypeOK, Stages, Ops
<1>4. SocketKnown' /\ ClosedAlone'
  BY <1>1, <1>2 DEF Safe, SocketKnown, ClosedAlone
<1>5. StageOf'
  <2>1. held[c] = "own"
    BY <1>1 DEF SendRequest, At, Safe, StageOf
  <2>2. \A d \in Callers : engine'[d] => engine[d] \/ d = c
    BY <1>1 DEF SendRequest, TypeOK
  <2>3. \A d \in Callers : pc'[d] = IF d = c THEN pc'[c] ELSE pc[d]
    BY <1>1 DEF SendRequest, Goto, Fail, TypeOK
  <2>4. pc[c] = "send" /\ pc'[c] \in {"recv", "end"}
    BY <1>1 DEF SendRequest, At, Goto, Fail, TypeOK
  <2> QED
    BY <1>1, <1>2, <2>1, <2>2, <2>3, <2>4 DEF Safe, StageOf
<1>6. Fresh'
  BY <1>1, <1>2 DEF SendRequest, At, Goto, Fail, TypeOK, Safe, Fresh
<1>7. RequestsApart'
  BY <1>1, <1>2 DEF SendRequest, At, Goto, Fail, TypeOK, Safe, StageOf, Fresh, RequestsApart
<1>8. Safe' /\ (harm = NoOne)'
  BY <1>1, <1>2, <1>4, <1>5, <1>6 DEF Safe
<1> QED
  BY <1>3, <1>7, <1>8, SafeIsInv, PTL

LEMMA RecvResponseInv == ASSUME IInv, NEW c \in Callers, RecvResponse(c) PROVE IInv'
<1>1. TypeOK /\ Safe /\ RequestsApart /\ harm = NoOne
  BY DEF IInv, RecvResponse, At, Safe
<1>2. UNCHANGED <<table, op, req, scheme, fd, headers, stream, held, rival, harm>>
  BY DEF RecvResponse, context
<1>3. TypeOK'
  <2>1. <<req[c]>> \in Seq({1, 2})
    <3>1. body[c] \in Seq({1, 2}) /\ req[c] \in {1, 2}
      BY <1>1 DEF TypeOK
    <3> QED
      BY <3>1
  <2>2. body' \in [Callers -> Seq({1, 2})]
    BY <1>1, <2>1 DEF RecvResponse, TypeOK
  <2>3. engine' \in [Callers -> BOOLEAN]
    BY <1>1 DEF RecvResponse, TypeOK
  <2>4. pc' \in [Callers -> Stages] /\ ok' \in [Callers -> BOOLEAN]
    BY <1>1 DEF RecvResponse, Goto, Fail, TypeOK, Stages
  <2> QED
    BY <1>1, <1>2, <2>2, <2>3, <2>4 DEF TypeOK
<1>4. SocketKnown' /\ ClosedAlone'
  BY <1>1, <1>2 DEF Safe, SocketKnown, ClosedAlone
<1>5. StageOf'
  BY <1>1, <1>2 DEF RecvResponse, At, Goto, Fail, TypeOK, Safe, StageOf
<1>6. Fresh'
  BY <1>1, <1>2 DEF RecvResponse, At, Goto, Fail, TypeOK, Safe, Fresh
<1>7. RequestsApart'
  BY <1>1, <1>2 DEF RecvResponse, At, Goto, Fail, TypeOK, Safe, StageOf, Fresh, RequestsApart
<1>8. Safe' /\ (harm = NoOne)'
  BY <1>1, <1>2, <1>4, <1>5, <1>6 DEF Safe
<1> QED
  BY <1>3, <1>7, <1>8, SafeIsInv, PTL

LEMMA ReadToMemoryInv == ASSUME IInv, NEW c \in Callers, ReadToMemory(c) PROVE IInv'
<1>1. TypeOK /\ Safe /\ RequestsApart /\ harm = NoOne
  BY DEF IInv, ReadToMemory, At, Safe
<1>2. UNCHANGED <<table, op, req, scheme, fd, headers, stream, held, rival, harm>>
  BY DEF ReadToMemory, context
<1>3. TypeOK'
  <2>1. Append(body[c], req[c]) \in Seq({1, 2})
    <3>1. body[c] \in Seq({1, 2}) /\ req[c] \in {1, 2}
      BY <1>1 DEF TypeOK
    <3> QED
      BY <3>1
  <2>2. body' \in [Callers -> Seq({1, 2})]
    <3>1. body' = [body EXCEPT ![c] = Append(body[c], req[c])] \/ body' = body
      BY <1>1 DEF ReadToMemory, TypeOK
    <3>2. body \in [Callers -> Seq({1, 2})]
      BY <1>1 DEF TypeOK
    <3> QED
      BY <2>1, <3>1, <3>2
  <2>3. engine' \in [Callers -> BOOLEAN]
    BY <1>1 DEF ReadToMemory, TypeOK
  <2>4. pc' \in [Callers -> Stages] /\ ok' \in [Callers -> BOOLEAN]
    BY <1>1 DEF ReadToMemory, Goto, Fail, TypeOK, Stages
  <2> QED
    BY <1>1, <1>2, <2>2, <2>3, <2>4 DEF TypeOK
<1>4. SocketKnown' /\ ClosedAlone'
  BY <1>1, <1>2 DEF Safe, SocketKnown, ClosedAlone
<1>5. StageOf'
  BY <1>1, <1>2 DEF ReadToMemory, At, Goto, Fail, TypeOK, Safe, StageOf
<1>6. Fresh'
  BY <1>1, <1>2 DEF ReadToMemory, At, Goto, Fail, TypeOK, Safe, Fresh
<1>7. RequestsApart'
  <2>1. body[c] \in Seq({1, 2}) /\ headers[c] = <<req[c]>>
        /\ \A i \in DOMAIN body[c] : body[c][i] = req[c]
    BY <1>1 DEF ReadToMemory, At, RequestsApart, TypeOK
  <2>2. \A i \in DOMAIN Append(body[c], req[c]) : Append(body[c], req[c])[i] = req[c]
    BY <2>1
  <2>3. \A i \in DOMAIN body'[c] : body'[c][i] = req[c]
    BY <1>1, <2>1, <2>2 DEF ReadToMemory, TypeOK
  <2>4. \A d \in Callers : d # c => pc'[d] = pc[d] /\ body'[d] = body[d]
    BY <1>1 DEF ReadToMemory, Goto, Fail, TypeOK
  <2> QED
    BY <1>1, <1>2, <2>1, <2>3, <2>4 DEF RequestsApart
<1>8. Safe' /\ (harm = NoOne)'
  BY <1>1, <1>2, <1>4, <1>5, <1>6 DEF Safe
<1> QED
  BY <1>3, <1>7, <1>8, SafeIsInv, PTL

(* The socket of a call is the only thing that is new, and it had none.       *)
LEMMA OpenSocketInv == ASSUME IInv, NEW c \in Callers, OpenSocket(c) PROVE IInv'
<1> DEFINE n == Lowest
           Opened == Opens(c, Socket(c, req[c])) /\ fd' = [fd EXCEPT ![c] = n]
                     /\ held' = [held EXCEPT ![c] = "own"] /\ pc' = [pc EXCEPT ![c] = "connect"]
           Failed == /\ UNCHANGED <<table, held, rival>> /\ pc' = [pc EXCEPT ![c] = "end"]
                     /\ fd' = fd \/ fd' = [fd EXCEPT ![c] = -1]
<1>1. TypeOK /\ Safe /\ RequestsApart /\ harm = NoOne
  BY DEF IInv, OpenSocket, At, Safe
<1>2. UNCHANGED <<op, req, scheme, engine, headers, body, stream, harm>>
  BY DEF OpenSocket
<1>3. /\ Opened \/ Failed
      /\ ok' = [ok EXCEPT ![c] = FALSE] \/ ok' = ok
  BY DEF OpenSocket, Goto, Fail
<1>4. pc[c] = "socket" /\ held[c] # "own" /\ ~engine[c] /\ stream[c] = -1
  BY <1>1 DEF OpenSocket, At, Safe, StageOf, TypeOK
<1>5. headers[c] = <<req[c]>> /\ body[c] = <<>>
  BY <1>1, <1>4 DEF Safe, Fresh
<1>6. Opened => /\ n \in Fds /\ table[n] = Unused
                /\ table' = [table EXCEPT ![n] = Socket(c, req[c])]
                /\ rival' = [d \in Callers |-> rival[d] \/ (d # c /\ held[d] = "closed")]
  BY LowestIsAvailable DEF Opens, Available
<1> HIDE DEF n
<1>7. \A m \in Fds : table'[m] = table[m] \/ (Opened /\ m = n)
  BY <1>1, <1>3, <1>6 DEF TypeOK
<1>8. \A d \in Callers : d # c => fd'[d] = fd[d] /\ held'[d] = held[d] /\ pc'[d] = pc[d]
  BY <1>1, <1>3 DEF TypeOK
<1>9. TypeOK'
  <2>1. table' \in [Fds -> Owned \cup {Unused, App}]
    <3>1. Socket(c, req[c]) \in Owned
      BY <1>1, OwnSocket, Strangers, Zenon
    <3>2. table \in [Fds -> Owned \cup {Unused, App}]
      BY <1>1 DEF TypeOK
    <3> QED
      BY <1>3, <1>6, <3>1, <3>2
  <2>2. pc' \in [Callers -> Stages] /\ ok' \in [Callers -> BOOLEAN]
    BY <1>1, <1>3 DEF TypeOK, Stages
  <2>4. fd' \in [Callers -> Fds \cup {-1}]
    BY <1>1, <1>3, <1>6 DEF TypeOK
  <2>3. held' \in [Callers -> {"never", "own", "closed"}] /\ rival' \in [Callers -> BOOLEAN]
    <3>1. held \in [Callers -> {"never", "own", "closed"}] /\ rival \in [Callers -> BOOLEAN]
      BY <1>1 DEF TypeOK
    <3>2. held' = held \/ held' = [held EXCEPT ![c] = "own"]
      BY <1>3
    <3>3. rival' = rival \/ rival' = [d \in Callers |-> rival[d] \/ (d # c /\ held[d] = "closed")]
      BY <1>3, <1>6
    <3> QED
      BY <3>1, <3>2, <3>3
  <2> QED
    BY <1>1, <1>2, <2>1, <2>2, <2>3, <2>4 DEF TypeOK
<1>10. SocketKnown'
  <2>1. \A d \in Callers : d # c =>
          /\ held[d] = "own" => fd[d] \in Fds /\ table'[fd[d]] = Socket(d, req[d])
          /\ \A m \in Fds : table'[m] \in Sockets(d) => held[d] = "own" /\ fd[d] = m
    <3> SUFFICES ASSUME NEW d \in Callers, d # c
                 PROVE  /\ held[d] = "own" => fd[d] \in Fds /\ table'[fd[d]] = Socket(d, req[d])
                        /\ \A m \in Fds : table'[m] \in Sockets(d) => held[d] = "own" /\ fd[d] = m
      BY Zenon
    <3>1. \A m \in Fds : table'[m] = table[m] \/ (table[m] = Unused /\ table'[m] = Socket(c, req[c]))
      BY <1>1, <1>6, <1>7 DEF TypeOK
    <3>2. Socket(c, req[c]) \notin Sockets(d) /\ Socket(d, req[d]) # Unused
      BY <1>1, OwnSocket, Strangers
    <3> QED
      BY <1>1, <3>1, <3>2 DEF Safe, SocketKnown
  <2>2. \A m \in Fds : table[m] \notin Sockets(c)
    BY <1>1, <1>4 DEF Safe, SocketKnown
  <2>3. CASE Opened
    <3>1. held'[c] = "own" /\ fd'[c] = n /\ table'[n] = Socket(c, req[c])
      BY <1>1, <1>6, <2>3 DEF TypeOK
    <3> QED
      BY <1>2, <1>6, <1>7, <1>8, <2>1, <2>2, <2>3, <3>1 DEF SocketKnown
  <2>4. CASE Failed
    <3>1. held'[c] # "own" /\ table' = table
      BY <1>4, <2>4
    <3> QED
      BY <1>2, <1>8, <2>1, <2>2, <3>1 DEF SocketKnown
  <2> QED
    BY <1>3, <2>3, <2>4
<1>11. StageOf'
  <2>1. \A d \in Callers : stream[d] # -1 => table'[stream[d]] = File(d)
    BY <1>1, <1>6, <1>7, Strangers DEF TypeOK, Safe, StageOf
  <2>2. (pc'[c] = "connect" /\ held'[c] = "own") \/ pc'[c] = "end"
    BY <1>1, <1>3 DEF TypeOK
  <2> QED
    BY <1>1, <1>2, <1>4, <1>8, <2>1, <2>2 DEF Safe, StageOf
<1>12. ClosedAlone'
  <2> SUFFICES ASSUME NEW d \in Callers, held'[d] = "closed", ~rival'[d], fd'[d] \in Fds
               PROVE  table'[fd'[d]] \in Sockets(d) \cup {File(d), Unused}
    BY DEF ClosedAlone
  <2>1. CASE Failed
    <3>1. -1 \notin Fds /\ (fd'[d] = fd[d] \/ fd'[d] = -1)
      BY <1>1, <2>1 DEF TypeOK, Fds
    <3>2. fd'[d] = fd[d] /\ held[d] = "closed" /\ ~rival[d] /\ table' = table
      BY <2>1, <3>1
    <3> QED
      BY <1>1, <3>1, <3>2 DEF Safe, ClosedAlone
  <2>2. CASE Opened
    <3>1. d # c /\ held[d] = "closed"
      BY <1>1, <2>2 DEF TypeOK
    <3>2. rival'[d]
      BY <1>6, <2>2, <3>1
    <3> QED
      BY <3>2
  <2> QED
    BY <1>3, <2>1, <2>2
<1>13. Fresh' /\ RequestsApart'
  <2>1. pc'[c] \in {"connect", "end"}
    BY <1>1, <1>3 DEF TypeOK
  <2>2. Fresh'
    BY <1>1, <1>2, <1>8, <2>1 DEF Safe, Fresh
  <2>3. RequestsApart'
    BY <1>1, <1>2, <1>5, <1>8, <2>1 DEF RequestsApart
  <2> QED
    BY <2>2, <2>3
<1>14. Safe' /\ (harm = NoOne)'
  BY <1>1, <1>2, <1>10, <1>11, <1>12, <1>13 DEF Safe
<1> QED
  BY <1>9, <1>13, <1>14, SafeIsInv, PTL

(* A file may take the number of another call's closed socket. *)
LEMMA OpenFileInv == ASSUME IInv, NEW c \in Callers, OpenFile(c) PROVE IInv'
<1> DEFINE n == Lowest
           Opened == Opens(c, File(c)) /\ stream' = [stream EXCEPT ![c] = n] /\ pc' = [pc EXCEPT ![c] = "read"]
           Failed == UNCHANGED <<table, stream, rival>> /\ pc' = [pc EXCEPT ![c] = "end"]
<1>1. TypeOK /\ Safe /\ RequestsApart /\ harm = NoOne
  BY DEF IInv, OpenFile, At, Safe
<1>2. UNCHANGED <<scheme, fd, engine, headers, body, op, req, held, harm>>
  BY DEF OpenFile, context
<1>3. /\ Opened \/ Failed
      /\ ok' = [ok EXCEPT ![c] = FALSE] \/ ok' = ok
  BY DEF OpenFile, Goto, Fail
<1>4. pc[c] = "open" /\ held[c] = "own" /\ stream[c] = -1
  BY <1>1 DEF OpenFile, At, Safe, StageOf, TypeOK
<1>5. Opened => /\ n \in Fds /\ table[n] = Unused
                /\ table' = [table EXCEPT ![n] = File(c)]
                /\ rival' = [d \in Callers |-> rival[d] \/ (d # c /\ held[d] = "closed")]
  BY LowestIsAvailable DEF Opens, Available
<1> HIDE DEF n
<1>6. \A m \in Fds : table'[m] = table[m] \/ (table[m] = Unused /\ table'[m] = File(c))
  BY <1>1, <1>3, <1>5 DEF TypeOK
<1>7. \A d \in Callers : d # c => stream'[d] = stream[d] /\ pc'[d] = pc[d]
  BY <1>1, <1>3 DEF TypeOK
<1>8. \/ pc'[c] = "end" /\ stream'[c] = -1
      \/ pc'[c] = "read" /\ stream'[c] \in Fds /\ table'[stream'[c]] = File(c)
  BY <1>1, <1>3, <1>4, <1>5 DEF TypeOK
<1>9. TypeOK'
  <2>1. table' \in [Fds -> Owned \cup {Unused, App}]
    <3>1. File(c) \in Owned
      BY Strangers
    <3>2. table \in [Fds -> Owned \cup {Unused, App}]
      BY <1>1 DEF TypeOK
    <3> QED
      BY <1>3, <1>5, <3>1, <3>2
  <2>2. pc' \in [Callers -> Stages] /\ ok' \in [Callers -> BOOLEAN]
    BY <1>1, <1>3 DEF TypeOK, Stages
  <2>3. stream' \in [Callers -> Fds \cup {-1}] /\ rival' \in [Callers -> BOOLEAN]
    <3>1. stream \in [Callers -> Fds \cup {-1}] /\ rival \in [Callers -> BOOLEAN]
      BY <1>1 DEF TypeOK
    <3>2. CASE Failed
      BY <3>1, <3>2
    <3>3. CASE Opened
      <4>1. stream' \in [Callers -> Fds \cup {-1}]
        BY <1>5, <3>1, <3>3
      <4>2. rival' \in [Callers -> BOOLEAN]
        BY <1>5, <3>1, <3>3
      <4> QED
        BY <4>1, <4>2
    <3> QED
      BY <1>3, <3>2, <3>3
  <2> QED
    BY <1>1, <1>2, <2>1, <2>2, <2>3 DEF TypeOK
<1>10. SocketKnown'
  <2>1. \A d \in Callers : Socket(d, req[d]) # Unused /\ File(c) \notin Sockets(d)
    BY <1>1, OwnSocket, Strangers
  <2> QED
    BY <1>1, <1>2, <1>6, <2>1 DEF Safe, SocketKnown
<1>11. StageOf'
  <2>1. \A d \in Callers : d # c /\ stream[d] # -1 => table'[stream[d]] = File(d)
    <3>1. \A d \in Callers : stream[d] # -1 => stream[d] \in Fds /\ table[stream[d]] = File(d) /\ File(d) # Unused
      BY <1>1, Strangers DEF TypeOK, Safe, StageOf
    <3> QED
      BY <1>6, <3>1
  <2>2. -1 \notin Fds
    BY DEF Fds
  <2>3. \A d \in Callers : d # c => (stream[d] # -1 <=> pc[d] = "file" \/ (pc[d] = "read" /\ req[d] = 1))
    BY <1>1 DEF Safe, StageOf
  <2> QED
    BY <1>1, <1>2, <1>4, <1>7, <1>8, <2>1, <2>2, <2>3 DEF Safe, StageOf
<1>12. ClosedAlone'
  <2> SUFFICES ASSUME NEW d \in Callers, held[d] = "closed", ~rival'[d], fd[d] \in Fds
               PROVE  table'[fd[d]] \in Sockets(d) \cup {File(d), Unused}
    BY <1>2 DEF ClosedAlone
  <2>1. ~rival[d] /\ (d = c \/ table' = table)
    BY <1>1, <1>3, <1>5 DEF TypeOK
  <2>2. table[fd[d]] \in Sockets(d) \cup {File(d), Unused}
    BY <1>1, <2>1 DEF Safe, ClosedAlone
  <2> QED
    BY <1>6, <2>1, <2>2
<1>13. Fresh' /\ RequestsApart'
  <2>1. Fresh'
    BY <1>1, <1>2, <1>7, <1>8 DEF Safe, Fresh
  <2>2. RequestsApart'
    BY <1>1, <1>2, <1>4, <1>7, <1>8 DEF RequestsApart
  <2> QED
    BY <2>1, <2>2
<1>14. Safe' /\ (harm = NoOne)'
  BY <1>1, <1>2, <1>10, <1>11, <1>12, <1>13 DEF Safe
<1> QED
  BY <1>9, <1>13, <1>14, SafeIsInv, PTL

LEMMA WorkBeginInv == ASSUME IInv, NEW c \in Callers, WorkBegin(c) PROVE IInv'
<1> DEFINE n == Lowest
           Opened == Opens(c, File(c)) /\ stream' = [stream EXCEPT ![c] = n] /\ pc' = [pc EXCEPT ![c] = "file"]
           Failed == UNCHANGED <<table, stream, rival>> /\ pc' = [pc EXCEPT ![c] = "end"]
<1>1. TypeOK /\ Safe /\ RequestsApart /\ harm = NoOne
  BY DEF IInv, WorkBegin, At, Safe
<1>2. UNCHANGED <<scheme, fd, engine, headers, body, op, req, held, harm>>
  BY DEF WorkBegin, context
<1>3. /\ Opened \/ Failed
      /\ ok' = [ok EXCEPT ![c] = FALSE] \/ ok' = ok
  BY DEF WorkBegin, Goto, Fail
<1>4. pc[c] = "work" /\ held[c] = "closed" /\ stream[c] = -1
  BY <1>1 DEF WorkBegin, At, Safe, StageOf, TypeOK
<1>5. Opened => /\ n \in Fds /\ table[n] = Unused
                /\ table' = [table EXCEPT ![n] = File(c)]
                /\ rival' = [d \in Callers |-> rival[d] \/ (d # c /\ held[d] = "closed")]
  BY LowestIsAvailable DEF Opens, Available
<1> HIDE DEF n
<1>6. \A m \in Fds : table'[m] = table[m] \/ (table[m] = Unused /\ table'[m] = File(c))
  BY <1>1, <1>3, <1>5 DEF TypeOK
<1>7. \A d \in Callers : d # c => stream'[d] = stream[d] /\ pc'[d] = pc[d]
  BY <1>1, <1>3 DEF TypeOK
<1>8. \/ pc'[c] = "end" /\ stream'[c] = -1
      \/ pc'[c] = "file" /\ stream'[c] \in Fds /\ table'[stream'[c]] = File(c)
  BY <1>1, <1>3, <1>4, <1>5 DEF TypeOK
<1>9. TypeOK'
  <2>1. table' \in [Fds -> Owned \cup {Unused, App}]
    <3>1. File(c) \in Owned
      BY Strangers
    <3>2. table \in [Fds -> Owned \cup {Unused, App}]
      BY <1>1 DEF TypeOK
    <3> QED
      BY <1>3, <1>5, <3>1, <3>2
  <2>2. pc' \in [Callers -> Stages] /\ ok' \in [Callers -> BOOLEAN]
    BY <1>1, <1>3 DEF TypeOK, Stages
  <2>3. stream' \in [Callers -> Fds \cup {-1}] /\ rival' \in [Callers -> BOOLEAN]
    <3>1. stream \in [Callers -> Fds \cup {-1}] /\ rival \in [Callers -> BOOLEAN]
      BY <1>1 DEF TypeOK
    <3>2. CASE Failed
      BY <3>1, <3>2
    <3>3. CASE Opened
      <4>1. stream' \in [Callers -> Fds \cup {-1}]
        BY <1>5, <3>1, <3>3
      <4>2. rival' \in [Callers -> BOOLEAN]
        BY <1>5, <3>1, <3>3
      <4> QED
        BY <4>1, <4>2
    <3> QED
      BY <1>3, <3>2, <3>3
  <2> QED
    BY <1>1, <1>2, <2>1, <2>2, <2>3 DEF TypeOK
<1>10. SocketKnown'
  <2>1. \A d \in Callers : Socket(d, req[d]) # Unused /\ File(c) \notin Sockets(d)
    BY <1>1, OwnSocket, Strangers
  <2> QED
    BY <1>1, <1>2, <1>6, <2>1 DEF Safe, SocketKnown
<1>11. StageOf'
  <2>1. \A d \in Callers : d # c /\ stream[d] # -1 => table'[stream[d]] = File(d)
    <3>1. \A d \in Callers : stream[d] # -1 => stream[d] \in Fds /\ table[stream[d]] = File(d) /\ File(d) # Unused
      BY <1>1, Strangers DEF TypeOK, Safe, StageOf
    <3> QED
      BY <1>6, <3>1
  <2>2. -1 \notin Fds
    BY DEF Fds
  <2>3. \A d \in Callers : d # c => (stream[d] # -1 <=> pc[d] = "file" \/ (pc[d] = "read" /\ req[d] = 1))
    BY <1>1 DEF Safe, StageOf
  <2> QED
    BY <1>1, <1>2, <1>4, <1>7, <1>8, <2>1, <2>2, <2>3 DEF Safe, StageOf
<1>12. ClosedAlone'
  <2> SUFFICES ASSUME NEW d \in Callers, held[d] = "closed", ~rival'[d], fd[d] \in Fds
               PROVE  table'[fd[d]] \in Sockets(d) \cup {File(d), Unused}
    BY <1>2 DEF ClosedAlone
  <2>1. ~rival[d] /\ (d = c \/ table' = table)
    BY <1>1, <1>3, <1>5 DEF TypeOK
  <2>2. table[fd[d]] \in Sockets(d) \cup {File(d), Unused}
    BY <1>1, <2>1 DEF Safe, ClosedAlone
  <2> QED
    BY <1>6, <2>1, <2>2
<1>13. Fresh' /\ RequestsApart'
  <2>1. Fresh'
    BY <1>1, <1>2, <1>7, <1>8 DEF Safe, Fresh
  <2>2. RequestsApart'
    BY <1>1, <1>2, <1>4, <1>7, <1>8 DEF RequestsApart
  <2> QED
    BY <2>1, <2>2
<1>14. Safe' /\ (harm = NoOne)'
  BY <1>1, <1>2, <1>10, <1>11, <1>12, <1>13 DEF Safe
<1> QED
  BY <1>9, <1>13, <1>14, SafeIsInv, PTL

(* The file is closed by the number under which it still is. *)
LEMMA ReadToFileInv == ASSUME IInv, NEW c \in Callers, ReadToFile(c) PROVE IInv'
<1> DEFINE n == stream[c]
<1>1. TypeOK /\ Safe /\ RequestsApart /\ harm = NoOne
  BY DEF IInv, ReadToFile, At, Safe
<1>2. UNCHANGED <<op, req, scheme, fd, headers, body, held, rival, harm>>
  BY DEF ReadToFile
<1>3. /\ table' = [table EXCEPT ![n] = Unused] /\ stream' = [stream EXCEPT ![c] = -1]
      /\ pc' = [pc EXCEPT ![c] = "free"]
      /\ \E e \in BOOLEAN : engine' = [engine EXCEPT ![c] = @ /\ e]
      /\ \E e \in BOOLEAN : ok' = [ok EXCEPT ![c] = e]
  BY DEF ReadToFile, Goto
<1>4. pc[c] = "read" /\ req[c] = 1 /\ held[c] = "own" /\ n \in Fds /\ table[n] = File(c)
  BY <1>1 DEF ReadToFile, At, Safe, StageOf, TypeOK
<1>5. \A m \in Fds : table'[m] = IF m = n THEN Unused ELSE table[m]
  BY <1>1, <1>3, <1>4 DEF TypeOK
<1>6. /\ \A d \in Callers : d # c => stream'[d] = stream[d] /\ pc'[d] = pc[d] /\ engine'[d] = engine[d]
      /\ stream'[c] = -1 /\ pc'[c] = "free"
  BY <1>1, <1>3 DEF TypeOK
<1>7. TypeOK'
  <2>1. engine' \in [Callers -> BOOLEAN] /\ ok' \in [Callers -> BOOLEAN]
    BY <1>1, <1>3 DEF TypeOK
  <2>2. /\ table' \in [Fds -> Owned \cup {Unused, App}] /\ stream' \in [Callers -> Fds \cup {-1}]
        /\ pc' \in [Callers -> Stages]
    BY <1>1, <1>3, <1>4 DEF TypeOK, Stages
  <2> QED
    BY <1>1, <1>2, <2>1, <2>2 DEF TypeOK
<1>8. SocketKnown'
  <2>1. \A d \in Callers : File(c) \notin Sockets(d) /\ Unused \notin Sockets(d) /\ File(c) # Socket(d, req[d])
    BY <1>1, OwnSocket, Strangers
  <2> QED
    BY <1>1, <1>2, <1>4, <1>5, <2>1 DEF Safe, SocketKnown
<1>9. StageOf'
  <2>1. \A d \in Callers : d # c /\ stream[d] # -1 => stream[d] \in Fds /\ table'[stream[d]] = File(d)
    BY <1>1, <1>4, <1>5, Strangers DEF TypeOK, Safe, StageOf
  <2>2. \A d \in Callers : d # c => (stream[d] # -1 <=> pc[d] = "file" \/ (pc[d] = "read" /\ req[d] = 1))
    BY <1>1 DEF Safe, StageOf
  <2> QED
    BY <1>1, <1>2, <1>4, <1>6, <2>1, <2>2 DEF Safe, StageOf
<1>10. ClosedAlone'
  BY <1>1, <1>2, <1>5 DEF Safe, ClosedAlone
<1>11. Fresh'
  BY <1>1, <1>2, <1>6 DEF Safe, Fresh
<1>12. RequestsApart'
  BY <1>1, <1>2, <1>4, <1>6 DEF RequestsApart
<1>13. Safe' /\ (harm = NoOne)'
  BY <1>1, <1>2, <1>8, <1>9, <1>10, <1>11 DEF Safe
<1> QED
  BY <1>7, <1>12, <1>13, SafeIsInv, PTL

LEMMA WorkEndInv == ASSUME IInv, NEW c \in Callers, WorkEnd(c) PROVE IInv'
<1> DEFINE n == stream[c]
<1>1. TypeOK /\ Safe /\ RequestsApart /\ harm = NoOne
  BY DEF IInv, WorkEnd, At, Safe
<1>2. UNCHANGED <<scheme, fd, engine, headers, body, op, req, ok, held, rival, harm>>
  BY DEF WorkEnd, context
<1>3. /\ table' = [table EXCEPT ![n] = Unused] \/ table' = table
      /\ stream' = [stream EXCEPT ![c] = -1]
      /\ \E next \in {"work", "end"} : pc' = [pc EXCEPT ![c] = next]
  BY DEF WorkEnd, Goto
<1>4. pc[c] = "file" /\ held[c] = "closed" /\ n \in Fds /\ table[n] = File(c)
  BY <1>1 DEF WorkEnd, At, Safe, StageOf, TypeOK
<1>5. \A m \in Fds : table'[m] = table[m] \/ (m = n /\ table'[m] = Unused)
  BY <1>1, <1>3, <1>4 DEF TypeOK
<1>6. /\ \A d \in Callers : d # c => stream'[d] = stream[d] /\ pc'[d] = pc[d]
      /\ stream'[c] = -1 /\ pc'[c] \in {"work", "end"}
  BY <1>1, <1>3 DEF TypeOK
<1>7. TypeOK'
  <2>1. /\ table' \in [Fds -> Owned \cup {Unused, App}] /\ stream' \in [Callers -> Fds \cup {-1}]
        /\ pc' \in [Callers -> Stages]
    BY <1>1, <1>3, <1>4 DEF TypeOK, Stages
  <2> QED
    BY <1>1, <1>2, <2>1 DEF TypeOK
<1>8. SocketKnown'
  <2>1. \A d \in Callers : File(c) \notin Sockets(d) /\ Unused \notin Sockets(d) /\ File(c) # Socket(d, req[d])
    BY <1>1, OwnSocket, Strangers
  <2> QED
    BY <1>1, <1>2, <1>4, <1>5, <2>1 DEF Safe, SocketKnown
<1>9. StageOf'
  <2>1. \A d \in Callers : d # c /\ stream[d] # -1 => stream[d] \in Fds /\ table'[stream[d]] = File(d)
    BY <1>1, <1>4, <1>5, Strangers DEF TypeOK, Safe, StageOf
  <2>2. \A d \in Callers : d # c => (stream[d] # -1 <=> pc[d] = "file" \/ (pc[d] = "read" /\ req[d] = 1))
    BY <1>1 DEF Safe, StageOf
  <2> QED
    BY <1>1, <1>2, <1>4, <1>6, <2>1, <2>2 DEF Safe, StageOf
<1>10. ClosedAlone'
  BY <1>1, <1>2, <1>5 DEF Safe, ClosedAlone
<1>11. Fresh' /\ RequestsApart'
  BY <1>1, <1>2, <1>6 DEF Safe, Fresh, RequestsApart
<1>12. Safe' /\ (harm = NoOne)'
  BY <1>1, <1>2, <1>8, <1>9, <1>10, <1>11 DEF Safe
<1> QED
  BY <1>7, <1>11, <1>12, SafeIsInv, PTL

(* What is under a number after a context is freed. *)
LEMMA Freed ==
    ASSUME TypeOK, NEW c \in Callers, FreeContext(c)
    PROVE  /\ \A n \in Fds : table'[n] = IF n = fd[c] THEN Unused ELSE table[n]
           /\ table' \in [Fds -> Owned \cup {Unused, App}]
           /\ engine' \in [Callers -> BOOLEAN] /\ scheme' \in [Callers -> {"http", "https"}]
           /\ headers' \in [Callers -> Seq({1, 2})] /\ body' \in [Callers -> Seq({1, 2})]
           /\ ~engine'[c] /\ headers'[c] = <<>> /\ body'[c] = <<>>
           /\ \A d \in Callers : d # c => /\ engine'[d] = engine[d]
                                       /\ headers'[d] = headers[d] /\ body'[d] = body[d]
<1>1. table \in [Fds -> Owned \cup {Unused, App}]
  BY DEF TypeOK
<1>2. /\ \A n \in Fds : table'[n] = IF n = fd[c] THEN Unused ELSE table[n]
      /\ table' \in [Fds -> Owned \cup {Unused, App}]
  BY <1>1 DEF FreeContext
<1>3. <<>> \in Seq({1, 2})
  OBVIOUS
<1> QED
  BY <1>2, <1>3 DEF TypeOK, FreeContext

(* Between the requests of an update the socket is the call's own.            *)
LEMMA FreeBetweenInv == ASSUME IInv, NEW c \in Callers, FreeBetween(c) PROVE IInv'
<1>1. TypeOK /\ Safe /\ RequestsApart /\ harm = NoOne
  BY DEF IInv, FreeBetween, At, Safe
<1>2. UNCHANGED <<op, fd, stream, ok>> /\ FreeContext(c)
  BY DEF FreeBetween
<1>3. /\ held' = [held EXCEPT ![c] = "closed"] /\ rival' = [rival EXCEPT ![c] = FALSE]
      /\ \/ pc' = [pc EXCEPT ![c] = "url"] /\ req' = [req EXCEPT ![c] = 2]
         \/ \E s \in {"work", "end"} : pc' = [pc EXCEPT ![c] = s] /\ req' = req
  BY DEF FreeBetween, Goto
<1>4. pc[c] = "free" /\ held[c] = "own" /\ stream[c] = -1
  BY <1>1 DEF FreeBetween, At, Safe, StageOf, TypeOK
<1>5. fd[c] \in Fds /\ table[fd[c]] = Socket(c, req[c]) /\ Socket(c, req[c]) \in Sockets(c)
  BY <1>1, <1>4, OwnSocket DEF Safe, SocketKnown
<1>6. harm' = NoOne
  BY <1>2, <1>5 DEF FreeContext, Foreign
<1>7. /\ \A d \in Callers : d # c => /\ held'[d] = held[d] /\ rival'[d] = rival[d]
                                  /\ pc'[d] = pc[d] /\ req'[d] = req[d]
      /\ held'[c] = "closed" /\ ~rival'[c]
      /\ (pc'[c] = "url" /\ req'[c] = 2) \/ pc'[c] \in {"work", "end"}
  BY <1>1, <1>3 DEF TypeOK
<1>8. /\ \A n \in Fds : table'[n] = IF n = fd[c] THEN Unused ELSE table[n]
      /\ ~engine'[c] /\ headers'[c] = <<>> /\ body'[c] = <<>>
      /\ \A d \in Callers : d # c => /\ engine'[d] = engine[d]
                                  /\ headers'[d] = headers[d] /\ body'[d] = body[d]
  BY <1>1, <1>2, Freed
<1>9. TypeOK'
  <2>1. /\ held' \in [Callers -> {"never", "own", "closed"}] /\ rival' \in [Callers -> BOOLEAN]
        /\ pc' \in [Callers -> Stages] /\ req' \in [Callers -> {1, 2}]
    BY <1>1, <1>3 DEF TypeOK, Stages
  <2>2. /\ table' \in [Fds -> Owned \cup {Unused, App}]
        /\ engine' \in [Callers -> BOOLEAN] /\ scheme' \in [Callers -> {"http", "https"}]
        /\ headers' \in [Callers -> Seq({1, 2})] /\ body' \in [Callers -> Seq({1, 2})]
    BY <1>1, <1>2, Freed
  <2> QED
    BY <1>1, <1>2, <1>6, <2>1, <2>2 DEF TypeOK
<1>10. SocketKnown'
  <2>1. \A d \in Callers : Unused \notin Sockets(d) /\ (d # c => Socket(c, req[c]) # Socket(d, req[d]))
    BY <1>1, OwnSocket, Strangers
  <2>2. \A n \in Fds : table[n] \in Sockets(c) => n = fd[c]
    BY <1>1 DEF Safe, SocketKnown
  <2> QED
    BY <1>1, <1>2, <1>5, <1>7, <1>8, <2>1, <2>2 DEF Safe, SocketKnown
<1>11. StageOf'
  <2>1. \A d \in Callers : stream[d] # -1 =>
          stream[d] \in Fds /\ table[stream[d]] = File(d) /\ File(d) # Socket(c, req[c])
    BY <1>1, OwnSocket, Strangers DEF TypeOK, Safe, StageOf
  <2>2. \A d \in Callers : stream[d] # -1 => table'[stream[d]] = File(d)
    BY <1>5, <1>8, <2>1
  <2>3. \A d \in Callers : d # c => (stream[d] # -1 <=> pc[d] = "file" \/ (pc[d] = "read" /\ req[d] = 1))
    BY <1>1 DEF Safe, StageOf
  <2> QED
    BY <1>1, <1>2, <1>4, <1>7, <1>8, <2>2, <2>3 DEF Safe, StageOf
<1>12. ClosedAlone'
  BY <1>1, <1>2, <1>5, <1>7, <1>8 DEF Safe, ClosedAlone
<1>13. Fresh' /\ RequestsApart'
  <2>1. Fresh'
    BY <1>1, <1>7, <1>8 DEF Safe, Fresh
  <2>2. RequestsApart'
    BY <1>1, <1>7, <1>8 DEF RequestsApart
  <2> QED
    BY <2>1, <2>2
<1>14. Safe' /\ (harm = NoOne)'
  BY <1>6, <1>10, <1>11, <1>12, <1>13 DEF Safe
<1> QED
  BY <1>9, <1>13, <1>14, SafeIsInv, PTL

(* The wrapper frees what may be another's, and then the model stops. *)
LEMMA FinishInv == ASSUME IInv, NEW c \in Callers, Finish(c) PROVE IInv'
<1>1. TypeOK /\ Safe /\ RequestsApart /\ harm = NoOne
  BY DEF IInv, Finish, At, Safe
<1>2. /\ UNCHANGED stream /\ FreeContext(c) /\ pc[c] = "end"
      /\ pc' = [pc EXCEPT ![c] = "idle"] /\ stream[c] = -1
  BY <1>1 DEF Finish, Goto, At, Safe, StageOf, TypeOK
<1>3. /\ \A n \in Fds : table'[n] = IF n = fd[c] THEN Unused ELSE table[n]
      /\ ~engine'[c] /\ headers'[c] = <<>> /\ body'[c] = <<>>
      /\ \A d \in Callers : d # c => /\ engine'[d] = engine[d]
                                  /\ headers'[d] = headers[d] /\ body'[d] = body[d]
  BY <1>1, <1>2, Freed
<1>4. pc'[c] = "idle" /\ \A d \in Callers : d # c => pc'[d] = pc[d]
  BY <1>1, <1>2 DEF TypeOK
<1>5. /\ table' \in [Fds -> Owned \cup {Unused, App}] /\ pc' \in [Callers -> Stages]
      /\ engine' \in [Callers -> BOOLEAN] /\ scheme' \in [Callers -> {"http", "https"}]
      /\ headers' \in [Callers -> Seq({1, 2})] /\ body' \in [Callers -> Seq({1, 2})]
  <2>1. pc' \in [Callers -> Stages]
    BY <1>1, <1>2 DEF TypeOK, Stages
  <2> QED
    BY <1>1, <1>2, <2>1, Freed
<1>6. CASE Foreign(c)
  <2>1. harm' = c /\ UNCHANGED <<op, req, fd, ok, held, rival>>
    BY <1>2, <1>6 DEF Finish, FreeContext
  <2>2. TypeOK'
    BY <1>1, <1>2, <1>5, <2>1 DEF TypeOK
  <2>3. held[c] # "own" /\ (held[c] = "closed" => rival[c])
    BY <1>1, <1>6, OwnSocket DEF Foreign, Safe, SocketKnown, ClosedAlone
  <2>4. HarmExplained'
    BY <1>1, <2>1, <2>3 DEF HarmExplained, TypeOK
  <2>5. RequestsApart'
    BY <1>1, <1>3, <1>4, <2>1 DEF RequestsApart
  <2>6. SocketsReleased'
    <3> SUFFICES ASSUME NEW d \in Callers
                 PROVE  /\ Cardinality({n \in Fds : table'[n] \in Sockets(d)}) <= 1
                        /\ pc'[d] = "idle" => \A n \in Fds : table'[n] \notin Sockets(d)
      BY DEF SocketsReleased
    <3>1. \A n \in Fds : table'[n] \in Sockets(d) => table[n] \in Sockets(d)
      BY <1>3, Strangers
    <3>2. {n \in Fds : table'[n] \in Sockets(d)} \subseteq {fd[d]}
      BY <1>1, <3>1 DEF Safe, SocketKnown
    <3>3. pc'[d] = "idle" => held[d] # "own"
      BY <1>1, <1>4, <2>3 DEF Safe, StageOf
    <3>4. pc'[d] = "idle" => \A n \in Fds : table'[n] \notin Sockets(d)
      BY <1>1, <3>1, <3>3 DEF Safe, SocketKnown
    <3> QED
      BY <3>2, <3>4, AtMostOne
  <2>7. harm' # NoOne
    BY <2>1
  <2> QED
    BY <2>2, <2>4, <2>5, <2>6, <2>7 DEF IInv
<1>7. CASE ~Foreign(c)
  <2>1. /\ harm' = NoOne
        /\ op' = [op EXCEPT ![c] = "single"] /\ req' = [req EXCEPT ![c] = 1]
        /\ fd' = [fd EXCEPT ![c] = 0] /\ ok' = [ok EXCEPT ![c] = TRUE]
        /\ held' = [held EXCEPT ![c] = "never"] /\ rival' = [rival EXCEPT ![c] = FALSE]
    BY <1>2, <1>7 DEF Finish, FreeContext
  <2>2. TypeOK'
    <3>1. 0 \in Fds
      BY DEF Fds
    <3>2. /\ req' \in [Callers -> {1, 2}] /\ fd' \in [Callers -> Fds \cup {-1}]
          /\ op' \in [Callers -> Ops] /\ ok' \in [Callers -> BOOLEAN]
          /\ held' \in [Callers -> {"never", "own", "closed"}] /\ rival' \in [Callers -> BOOLEAN]
      BY <1>1, <2>1, <3>1 DEF TypeOK, Ops
    <3> QED
      BY <1>1, <1>2, <1>5, <2>1, <3>2 DEF TypeOK
  <2>3. /\ \A d \in Callers : d # c => /\ held'[d] = held[d] /\ rival'[d] = rival[d]
                                    /\ fd'[d] = fd[d] /\ req'[d] = req[d]
        /\ held'[c] = "never" /\ req'[c] = 1
    BY <1>1, <2>1 DEF TypeOK
  <2>4. fd[c] \in Fds => table[fd[c]] \in Sockets(c) \cup {File(c), Unused}
    BY <1>7 DEF Foreign
  <2>5. SocketKnown'
    <3> SUFFICES ASSUME NEW d \in Callers
                 PROVE  /\ held'[d] = "own" => fd'[d] \in Fds /\ table'[fd'[d]] = Socket(d, req'[d])
                        /\ \A n \in Fds : table'[n] \in Sockets(d) => held'[d] = "own" /\ fd'[d] = n
      BY DEF SocketKnown
    <3>1. Unused \notin Sockets(d) /\ Socket(d, req[d]) \in Sockets(d)
      BY <1>1, OwnSocket, Strangers
    <3>2. \A n \in Fds : table[n] \in Sockets(d) => held[d] = "own" /\ fd[d] = n
      BY <1>1 DEF Safe, SocketKnown
    <3>3. CASE d = c
      BY <1>3, <2>3, <3>1, <3>2, <3>3
    <3>4. CASE d # c
      <4>1. held[d] = "own" => fd[d] \in Fds /\ table[fd[d]] = Socket(d, req[d])
        BY <1>1 DEF Safe, SocketKnown
      <4>2. Socket(d, req[d]) \notin Sockets(c) \cup {File(c), Unused}
        BY <3>1, <3>4, Strangers
      <4> QED
        BY <1>3, <2>3, <2>4, <3>1, <3>2, <3>4, <4>1, <4>2
    <3> QED
      BY <3>3, <3>4
  <2>6. StageOf'
    <3>1. \A d \in Callers : d # c /\ stream[d] # -1 => stream[d] \in Fds /\ table[stream[d]] = File(d)
      BY <1>1 DEF TypeOK, Safe, StageOf
    <3>2. \A d \in Callers : d # c => File(d) \notin Sockets(c) \cup {File(c), Unused}
      BY Strangers
    <3>3. \A d \in Callers : d # c /\ stream[d] # -1 => table'[stream[d]] = File(d)
      BY <1>3, <2>4, <3>1, <3>2
    <3>4. \A d \in Callers : d # c => (stream[d] # -1 <=> pc[d] = "file" \/ (pc[d] = "read" /\ req[d] = 1))
      BY <1>1 DEF Safe, StageOf
    <3> QED
      BY <1>1, <1>2, <1>3, <1>4, <2>3, <3>3, <3>4 DEF Safe, StageOf
  <2>7. ClosedAlone'
    BY <1>1, <1>3, <2>3 DEF Safe, ClosedAlone
  <2>8. Fresh' /\ RequestsApart'
    <3>1. Fresh'
      BY <1>1, <1>3, <1>4, <2>3 DEF Safe, Fresh
    <3>2. RequestsApart'
      BY <1>1, <1>3, <1>4, <2>3 DEF RequestsApart
    <3> QED
      BY <3>1, <3>2
  <2>9. Safe' /\ (harm = NoOne)'
    BY <2>1, <2>5, <2>6, <2>7, <2>8 DEF Safe
  <2> QED
    BY <2>2, <2>8, <2>9, SafeIsInv, PTL
<1> QED
  BY <1>6, <1>7

-------------------------------------------------------------------------------
(* Theorems *)

(* The inductive invariant: whose socket, file and engine it is at each stage *)
(* of every call (http.c:817-936, connection.c:21-29, ruleset.c:448-654).     *)
THEOREM ContextsAccounted == Spec => []IInv
<1>1. IInv /\ [Next]_vars => IInv'
  <2> SUFFICES ASSUME IInv, [Next]_vars PROVE IInv'
    OBVIOUS
  <2>1. CASE AppOpens
    BY <2>1, AppOpensInv
  <2>2. CASE AppCloses
    BY <2>2, AppClosesInv
  <2>3. ASSUME NEW c \in Callers, Step(c) PROVE IInv'
    BY <2>3, BeginInv, SetUrlInv, OpenSocketInv, ConnectInv, SendRequestInv, RecvResponseInv,
       OpenFileInv, ReadToFileInv, ReadToMemoryInv, FreeBetweenInv, WorkBeginInv, WorkEndInv,
       FinishInv, Zenon DEF Step
  <2>4. CASE UNCHANGED vars
    <3>1. TypeOK' /\ RequestsApart' /\ HarmExplained'
      BY <2>4 DEF vars, context, IInv, TypeOK, RequestsApart, HarmExplained
    <3>3. SocketsReleased'
      BY <2>4, Zenon DEF vars, context, IInv, SocketsReleased
    <3>2. (harm = NoOne => Safe)'
      BY <2>4 DEF vars, context, IInv, Safe, SocketKnown, StageOf, ClosedAlone, Fresh
    <3> QED
      BY <3>1, <3>2, <3>3 DEF IInv, Safe
  <2> QED
    BY <2>1, <2>2, <2>3, <2>4 DEF Next
<1> QED
  BY InitInv, <1>1, PTL DEF Spec

(* A close hits what is another's only in the two ways HarmExplained names    *)
(* (connection.c:21-29, ruleset.c:504, 560, 650).                            *)
THEOREM HarmIsExplained == Spec => []HarmExplained
<1>1. IInv => HarmExplained
  BY DEF IInv
<1> QED
  BY <1>1, ContextsAccounted, PTL

(* A TLS engine works on the socket of its request only (http.c:853-872,      *)
(* connection.c:23-25).                                                      *)
THEOREM EngineIsOnOwnSocket == Spec => []EngineOnOwnSocket
<1>1. IInv => EngineOnOwnSocket
  BY DEF IInv, EngineOnOwnSocket, SocketKnown, StageOf
<1> QED
  BY <1>1, ContextsAccounted, PTL

(* No call leaves a socket open, whichever of its steps failed                *)
(* (ruleset.c:448-654).                                                      *)
THEOREM SocketsAreReleased == Spec => []SocketsReleased
<1>1. IInv => SocketsReleased
  BY DEF IInv
<1> QED
  BY <1>1, ContextsAccounted, PTL

(* The two requests of an update do not mix (ruleset.c:504-560). *)
THEOREM RequestsAreApart == Spec => []RequestsApart
<1>1. IInv => RequestsApart
  BY DEF IInv
<1> QED
  BY <1>1, ContextsAccounted, PTL

===============================================================================
