------------------------------ MODULE HttpContext ------------------------------
(***************************************************************************)
(* The life of a struct HTTPContext (src/http.c, src/connection.c) through  *)
(* the calls that own one: unalix_ruleset_update (src/ruleset.c), which     *)
(* uses it for two requests, frees it after each of them and once more in   *)
(* its wrapper, and the calls that make one request and free it once        *)
(* (unalix_ruleset_check_update, a round of unalix_unshort_url).  They run  *)
(* in several threads of a process whose descriptor numbers they share with *)
(* one another and with the rest of the application.                       *)
(*                                                                         *)
(* `table' is the process's descriptor table: what is open under a number.  *)
(* connection_free closes by number.  A close that hits what is not the     *)
(* call's own is recorded in `harm', and the model stops there.             *)
(***************************************************************************)
EXTENDS Integers, Sequences, FiniteSets

CONSTANTS
    Callers,  \* threads that call the library
    LastFd,   \* bound: descriptor numbers are 0 .. LastFd
    Unused,   \* nothing is open under a number
    App,      \* something of the application's is
    NoOne

Fds == 0 .. LastFd
(* What a call opens: the socket of its request r, or (0) a file. *)
Owned == [by : Callers, for : {0, 1, 2}]

ASSUME ContextAssumption ==
    /\ LastFd \in Nat
    /\ Unused # App
    /\ Unused \notin Owned /\ App \notin Owned
    /\ NoOne \notin Callers /\ App \notin Callers

VARIABLES
    table,   \* number -> what is open under it
    pc, op,  \* where each call stands; which call it is
    req,     \* the request it is at: 1 or 2
    scheme,  \* the scheme of that request's URL
    fd,      \* connection.fd
    engine,  \* ssl_context: the TLS engine may read and write
    stream,  \* the number under which the call has a file open, or -1
    headers, \* request.headers: the request each was added for
    body,    \* response.body: the request each part of it answers
    ok,      \* what the call returns, so far
    held,    \* history: "never", "own" or "closed": its socket
    rival,   \* history: someone else has opened something since it was closed
    harm     \* history: the call that closed what was not its own

context == <<scheme, fd, engine, headers, body>>
vars == <<table, context, pc, op, req, stream, ok, held, rival, harm>>

Socket(c, r) == [by |-> c, for |-> r]
File(c) == [by |-> c, for |-> 0]
Sockets(c) == {Socket(c, 1), Socket(c, 2)}

Ops == {"update", "updateHash", "single"}
Stages == {"idle", "url", "socket", "connect", "send", "recv", "open", "read", "free",
           "work", "file", "end"}

TypeOK ==
    /\ table \in [Fds -> Owned \cup {Unused, App}]
    /\ pc \in [Callers -> Stages]
    /\ op \in [Callers -> Ops]
    /\ req \in [Callers -> {1, 2}]
    /\ scheme \in [Callers -> {"http", "https"}]
    /\ fd \in [Callers -> Fds \cup {-1}]
    /\ engine \in [Callers -> BOOLEAN]
    /\ stream \in [Callers -> Fds \cup {-1}]
    /\ headers \in [Callers -> Seq({1, 2})]
    /\ body \in [Callers -> Seq({1, 2})]
    /\ ok \in [Callers -> BOOLEAN]
    /\ held \in [Callers -> {"never", "own", "closed"}]
    /\ rival \in [Callers -> BOOLEAN]
    /\ harm \in Callers \cup {NoOne}

-------------------------------------------------------------------------------
(* Descriptors *)

Available == {n \in Fds : table[n] = Unused}

(* The number socket and fopen take: the lowest. *)
Lowest == CHOOSE n \in Available : \A m \in Available : n <= m

(* who opens x under the lowest number. *)
Opens(who, x) ==
    /\ Available # {}
    /\ table' = [table EXCEPT ![Lowest] = x]
    /\ rival' = [c \in Callers |-> rival[c] \/ (c # who /\ held[c] = "closed")]

At(c, stage) == harm = NoOne /\ pc[c] = stage

Goto(c, stage) == pc' = [pc EXCEPT ![c] = stage]

(* The function that works on the context returns to its wrapper. *)
Fail(c) ==
    /\ Goto(c, "end")
    /\ ok' = [ok EXCEPT ![c] = FALSE]

-------------------------------------------------------------------------------
(* Faulty variants of operators below.  Nothing refers to them: each shows,   *)
(* put in place of the one it is named after, that a property can fail.       *)

(* The engine is left as it is when the descriptor is closed. *)
FreeContextOpenEngine(c) ==
    /\ scheme' = [scheme EXCEPT ![c] = "http"]
    /\ headers' = [headers EXCEPT ![c] = <<>>]
    /\ body' = [body EXCEPT ![c] = <<>>]
    /\ table' = IF fd[c] \in Fds THEN [table EXCEPT ![fd[c]] = Unused] ELSE table
    /\ UNCHANGED <<engine, harm>>

(* Only the connection is freed, not the request and the response. *)
FreeContextKeepingData(c) ==
    /\ engine' = [engine EXCEPT ![c] = FALSE]
    /\ table' = IF fd[c] \in Fds THEN [table EXCEPT ![fd[c]] = Unused] ELSE table
    /\ UNCHANGED <<scheme, headers, body, harm>>

(* The second request is made on the context of the first. *)
FreeBetweenNothing(c) ==
    /\ At(c, "free")
    /\ IF ok[c] /\ req[c] = 1 /\ op[c] = "updateHash"
       THEN Goto(c, "url") /\ req' = [req EXCEPT ![c] = 2]
       ELSE Goto(c, IF ok[c] THEN "work" ELSE "end") /\ UNCHANGED req
    /\ UNCHANGED <<table, context, op, stream, ok, held, rival, harm>>

(* The hash is asked for again and again. *)
FreeBetweenAgain(c) ==
    /\ At(c, "free")
    /\ Goto(c, "url")
    /\ req' = [req EXCEPT ![c] = @ + 1]
    /\ UNCHANGED <<table, context, op, stream, ok, held, rival, harm>>

(* The number socket() returns is kept in a local variable. *)
OpenSocketLocal(c) ==
    /\ At(c, "socket")
    /\ Opens(c, Socket(c, req[c]))
    /\ held' = [held EXCEPT ![c] = "own"]
    /\ Goto(c, "connect")
    /\ UNCHANGED <<context, op, req, stream, ok, harm>>

-------------------------------------------------------------------------------
(* The application *)

AppOpens ==
    /\ harm = NoOne
    /\ Opens(App, App)
    /\ UNCHANGED <<context, pc, op, req, stream, ok, held, harm>>

AppCloses ==
    /\ harm = NoOne
    /\ \E n \in Fds : table[n] = App /\ table' = [table EXCEPT ![n] = Unused]
    /\ UNCHANGED <<context, pc, op, req, stream, ok, held, rival, harm>>

-------------------------------------------------------------------------------
(* One request *)

(* A call begins with a context that is all zeros. *)
Begin(c) ==
    /\ At(c, "idle")
    /\ Goto(c, "url")
    /\ \E o \in Ops : op' = [op EXCEPT ![c] = o]
    /\ UNCHANGED <<table, context, req, stream, ok, held, rival, harm>>

(* http_request_set_url and http_request_add_header. *)
SetUrl(c) ==
    /\ At(c, "url")
    /\ \/ /\ headers' = [headers EXCEPT ![c] = Append(@, req[c])]
          /\ \E s \in {"http", "https"} : scheme' = [scheme EXCEPT ![c] = s]
          /\ Goto(c, "socket")
          /\ UNCHANGED ok
       \/ /\ Fail(c)
          /\ UNCHANGED <<headers, scheme>>
    /\ UNCHANGED <<table, op, req, fd, engine, body, stream, held, rival,
                   harm>>

(* http_request_send: no address; or socket succeeds; or it fails. *)
OpenSocket(c) ==
    /\ At(c, "socket")
    /\ \/ /\ Fail(c)
          /\ UNCHANGED <<table, fd, held, rival>>
       \/ /\ Opens(c, Socket(c, req[c]))
          /\ fd' = [fd EXCEPT ![c] = Lowest]
          /\ held' = [held EXCEPT ![c] = "own"]
          /\ Goto(c, "connect")
          /\ UNCHANGED ok
       \/ /\ fd' = [fd EXCEPT ![c] = -1]
          /\ Fail(c)
          /\ UNCHANGED <<table, held, rival>>
    /\ UNCHANGED <<op, req, scheme, engine, headers, body, stream, harm>>

(* The timeouts, connect and http_request_stringify. *)
Connect(c) ==
    /\ At(c, "connect")
    /\ \/ Goto(c, "send") /\ UNCHANGED ok
       \/ Fail(c)
    /\ UNCHANGED <<table, context, op, req, stream, held, rival, harm>>

(* The request goes out: on TLS the engine is reset and shakes hands. *)
SendRequest(c) ==
    /\ At(c, "send")
    /\ \/ /\ engine' = [engine EXCEPT ![c] = @ \/ scheme[c] = "https"]
          /\ Goto(c, "recv")
          /\ UNCHANGED ok
       \/ /\ \E e \in BOOLEAN :
               engine' = [engine EXCEPT ![c] = @ \/ (e /\ scheme[c] = "https")]
          /\ Fail(c)
    /\ UNCHANGED <<table, op, req, scheme, fd, headers, body, stream, held,
                   rival, harm>>

(* The header section arrives and is parsed; the first bytes of the body come *)
(* with it or not.  TLS may end here.  The call fails, or has what it wants,  *)
(* or goes on to the body.                                                   *)
RecvResponse(c) ==
    /\ At(c, "recv")
    /\ \E e \in BOOLEAN : engine' = [engine EXCEPT ![c] = @ /\ e]
    /\ \/ body' = [body EXCEPT ![c] = <<req[c]>>]
       \/ UNCHANGED body
    /\ \/ Fail(c)
       \/ /\ Goto(c, IF op[c] = "single" THEN "end"
                     ELSE IF req[c] = 1 THEN "open" ELSE "read")
          /\ UNCHANGED ok
    /\ UNCHANGED <<table, op, req, scheme, fd, headers, stream, held, rival,
                   harm>>

-------------------------------------------------------------------------------
(* unalix_ruleset_update *)

OpenFile(c) ==
    /\ At(c, "open")
    /\ \/ /\ Opens(c, File(c))
          /\ stream' = [stream EXCEPT ![c] = Lowest]
          /\ Goto(c, "read")
          /\ UNCHANGED ok
       \/ /\ Fail(c)
          /\ UNCHANGED <<table, stream, rival>>
    /\ UNCHANGED <<context, op, req, held, harm>>

(* http_response_read into the temporary file, which is then closed whatever *)
(* came of it; the context is freed next, also after a failure.              *)
ReadToFile(c) ==
    /\ At(c, "read")
    /\ req[c] = 1
    /\ table' = [table EXCEPT ![stream[c]] = Unused]
    /\ stream' = [stream EXCEPT ![c] = -1]
    /\ \E e \in BOOLEAN : engine' = [engine EXCEPT ![c] = @ /\ e]
    /\ \E e \in BOOLEAN : ok' = [ok EXCEPT ![c] = e]
    /\ Goto(c, "free")
    /\ UNCHANGED <<op, req, scheme, fd, headers, body, held, rival, harm>>

(* http_response_read into response.body, behind what is there already.  A   *)
(* failure or a short hash returns without freeing the context here.         *)
ReadToMemory(c) ==
    /\ At(c, "read")
    /\ req[c] = 2
    /\ \E e \in BOOLEAN : engine' = [engine EXCEPT ![c] = @ /\ e]
    /\ \/ body' = [body EXCEPT ![c] = Append(@, req[c])]
       \/ UNCHANGED body
    /\ \/ Goto(c, "free") /\ UNCHANGED ok
       \/ Fail(c)
    /\ UNCHANGED <<table, op, req, scheme, fd, headers, stream, held, rival,
                   harm>>

(* What is open under the number in fd is another's. *)
Foreign(c) ==
    /\ fd[c] \in Fds
    /\ table[fd[c]] \notin Sockets(c) \cup {File(c), Unused}

(* http_context_free: the TLS engine is closed if it is not already, then    *)
(* the descriptor, by its number; the request and the response become empty. *)
FreeContext(c) ==
    /\ engine' = [engine EXCEPT ![c] = FALSE]
    /\ scheme' = [scheme EXCEPT ![c] = "http"]
    /\ headers' = [headers EXCEPT ![c] = <<>>]
    /\ body' = [body EXCEPT ![c] = <<>>]
    /\ table' = IF fd[c] \in Fds THEN [table EXCEPT ![fd[c]] = Unused] ELSE table
    /\ harm' = IF Foreign(c) THEN c ELSE NoOne

(* The context is freed in the middle of ruleset_update; fd keeps the number. *)
FreeBetween(c) ==
    /\ At(c, "free")
    /\ FreeContext(c)
    /\ IF ok[c] /\ req[c] = 1 /\ op[c] = "updateHash"
       THEN /\ Goto(c, "url")
            /\ req' = [req EXCEPT ![c] = 2]
       ELSE /\ Goto(c, IF ok[c] THEN "work" ELSE "end")
            /\ UNCHANGED req
    /\ held' = [held EXCEPT ![c] = "closed"]
    /\ rival' = [rival EXCEPT ![c] = FALSE]
    /\ UNCHANGED <<op, fd, stream, ok>>

(* The digest, the trial load and the move open files and close them, except *)
(* for the source that copy_file leaves open when it has no destination.     *)
WorkBegin(c) ==
    /\ At(c, "work")
    /\ \/ /\ Opens(c, File(c))
          /\ stream' = [stream EXCEPT ![c] = Lowest]
          /\ Goto(c, "file")
       \/ /\ Goto(c, "end")
          /\ UNCHANGED <<table, stream, rival>>
    /\ UNCHANGED <<context, op, req, ok, held, harm>>

WorkEnd(c) ==
    /\ At(c, "file")
    /\ stream' = [stream EXCEPT ![c] = -1]
    /\ \/ /\ table' = [table EXCEPT ![stream[c]] = Unused]
          /\ \E next \in {"work", "end"} : Goto(c, next)
       \/ /\ Goto(c, "end")
          /\ UNCHANGED table
    /\ UNCHANGED <<context, op, req, ok, held, rival, harm>>

-------------------------------------------------------------------------------
(* The wrapper frees the context, however the call went, and returns. *)
Finish(c) ==
    /\ At(c, "end")
    /\ FreeContext(c)
    /\ Goto(c, "idle")
    /\ IF Foreign(c)
       THEN UNCHANGED <<op, req, fd, ok, held, rival>>
       ELSE /\ op' = [op EXCEPT ![c] = "single"]
            /\ req' = [req EXCEPT ![c] = 1]
            /\ fd' = [fd EXCEPT ![c] = 0]
            /\ ok' = [ok EXCEPT ![c] = TRUE]
            /\ held' = [held EXCEPT ![c] = "never"]
            /\ rival' = [rival EXCEPT ![c] = FALSE]
    /\ UNCHANGED stream

Init ==
    /\ table = [n \in Fds |-> IF n = 0 THEN App ELSE Unused]
    /\ pc = [c \in Callers |-> "idle"]
    /\ op = [c \in Callers |-> "single"]
    /\ req = [c \in Callers |-> 1]
    /\ scheme = [c \in Callers |-> "http"]
    /\ fd = [c \in Callers |-> 0]
    /\ engine = [c \in Callers |-> FALSE]
    /\ stream = [c \in Callers |-> -1]
    /\ headers = [c \in Callers |-> <<>>]
    /\ body = [c \in Callers |-> <<>>]
    /\ ok = [c \in Callers |-> TRUE]
    /\ held = [c \in Callers |-> "never"]
    /\ rival = [c \in Callers |-> FALSE]
    /\ harm = NoOne

Step(c) ==
    \/ Begin(c) \/ SetUrl(c) \/ OpenSocket(c) \/ Connect(c) \/ SendRequest(c)
    \/ RecvResponse(c) \/ OpenFile(c) \/ ReadToFile(c) \/ ReadToMemory(c)
    \/ FreeBetween(c) \/ WorkBegin(c) \/ WorkEnd(c) \/ Finish(c)

Next == AppOpens \/ AppCloses \/ \E c \in Callers : Step(c)

Spec == Init /\ [][Next]_vars

-------------------------------------------------------------------------------
(* Properties *)

(* A call closes what is not its own only when it frees a context that never *)
(* got a socket, whose fd is still 0, or one whose socket it has closed      *)
(* before, and then only if somebody else has opened something since: calls  *)
(* that nobody overlaps and that get as far as socket() do no harm           *)
(* (connection.c:21-29, ruleset.c:504, 560, 650).                            *)
HarmExplained ==
    harm # NoOne =>
        held[harm] = "never" \/ (held[harm] = "closed" /\ rival[harm])

(* A TLS engine that may still read and write does so on the socket of the   *)
(* request it was reset for, although it is kept from the first request to   *)
(* the second (http.c:853-872, connection.c:23-25).                          *)
EngineOnOwnSocket ==
    harm = NoOne =>
        \A c \in Callers : engine[c] =>
            fd[c] \in Fds /\ table[fd[c]] = Socket(c, req[c])

(* A call that has returned has left no socket open, and one in progress has *)
(* at most one, whichever of its steps failed (ruleset.c:448-654).           *)
SocketsReleased ==
    \A c \in Callers :
        /\ Cardinality({n \in Fds : table[n] \in Sockets(c)}) <= 1
        /\ pc[c] = "idle" => \A n \in Fds : table[n] \notin Sockets(c)

(* A request is sent with its own headers and no others, and what is taken   *)
(* for its response holds nothing of the one before (ruleset.c:504-560).     *)
RequestsApart ==
    \A c \in Callers :
        pc[c] \in {"connect", "send", "recv", "open", "read", "free"} =>
            /\ headers[c] = <<req[c]>>
            /\ \A i \in DOMAIN body[c] : body[c][i] = req[c]

-------------------------------------------------------------------------------
(* The inductive invariant of HttpContextProofs *)

(* Where the socket of a call is: it is the one the context knows, from       *)
(* socket() to the free, and there is no other (http.c:824-851,              *)
(* connection.c:23-29). *)
SocketKnown ==
    \A c \in Callers :
        /\ held[c] = "own" => fd[c] \in Fds /\ table[fd[c]] = Socket(c, req[c])
        /\ \A n \in Fds : table[n] \in Sockets(c) => held[c] = "own" /\ fd[c] = n

(* What a call has at which stage: its socket, its engine, its file. *)
StageOf ==
    \A c \in Callers :
        /\ pc[c] \in {"connect", "send", "recv", "open", "read", "free"} => held[c] = "own"
        /\ pc[c] \in {"work", "file"} => held[c] = "closed"
        /\ pc[c] \in {"url", "socket"} => held[c] = IF req[c] = 1 THEN "never" ELSE "closed"
        /\ pc[c] = "idle" => held[c] = "never" /\ req[c] = 1
        /\ pc[c] = "open" => req[c] = 1
        /\ engine[c] => held[c] = "own"
        /\ stream[c] # -1 <=> pc[c] = "file" \/ (pc[c] = "read" /\ req[c] = 1)
        /\ stream[c] # -1 => table[stream[c]] = File(c)

(* The descriptor of a closed socket is nobody's until somebody opens         *)
(* something. *)
ClosedAlone ==
    \A c \in Callers :
        held[c] = "closed" /\ ~rival[c] /\ fd[c] \in Fds =>
            table[fd[c]] \in Sockets(c) \cup {File(c), Unused}

(* What was collected for a request before it is made. *)
Fresh ==
    \A c \in Callers :
        /\ pc[c] \in {"idle", "url"} => headers[c] = <<>> /\ body[c] = <<>>
        /\ pc[c] = "socket" => headers[c] = <<req[c]>> /\ body[c] = <<>>

(* What the freeing of contexts relies on at each point of every call. *)
IInv ==
    /\ TypeOK
    /\ SocketsReleased /\ RequestsApart /\ HarmExplained
    /\ harm = NoOne => SocketKnown /\ StageOf /\ ClosedAlone /\ Fresh
===============================================================================
