---------------------------- MODULE HttpPipeline ----------------------------
(***************************************************************************)
(* The http method (methods/http.cc): one connection at a time, on which   *)
(* it keeps several requests outstanding, and a server that answers in     *)
(* order.  A response carries no name: that it belongs to the head of      *)
(* pkgAcqMethod::Queue is only true as long as the requests sent on this   *)
(* connection are the queue's first ones, up to QueueBack.  Connections    *)
(* end, servers redirect, APT sends further requests in the middle of a    *)
(* transfer, and the queue moves under all of it.                          *)
(*                                                                         *)
(* Abstractions.  A response is a head and perhaps a body; the socket and  *)
(* the buffer In are one sequence, as are the buffer Out and the requests  *)
(* that the server has not answered.  APT's requests are numbered in the   *)
(* order in which they arrive.  401, which asks for a password and then    *)
(* redirects to the same host, is among the redirects (AcqMethod models    *)
(* the question).                                                          *)
(***************************************************************************)
EXTENDS Integers, Sequences, FiniteSets, SequencesExt

CONSTANTS N,              \* requests of APT
          URIs, Hosts,
          HostOf,         \* [URIs -> Hosts]
          FirstURI,       \* [1..N -> URIs]
          PipelineDepth,  \* Acquire::http::Pipeline-Depth, 10 by default
          NewURIs,        \* where redirects lead
          LoneRedirects,  \* may the last of the queue be redirected on its host
          MayFill,        \* may the disk be full
          Says,           \* what the servers answer
          None

ASSUME ConstantsOK ==
    /\ N \in Nat \ {0} /\ PipelineDepth \in Nat
    /\ HostOf \in [URIs -> Hosts] /\ FirstURI \in [1..N -> URIs]
    /\ NewURIs \subseteq URIs
    /\ Says \subseteq {"ok", "ims", "moved", "gone", "garbage"}
    /\ LoneRedirects \in BOOLEAN /\ MayFill \in BOOLEAN
    /\ None \notin Hosts \cup URIs

Items == 1..N

VARIABLES m,      \* the memory of the method
          in,     \* ServerState::In and the socket
          up,     \* the server has not closed the connection
          sent,   \* how many requests APT has sent
          clean,  \* all that was read of this connection was read as what it is
          done    \* the requests answered to APT

vars == <<m, in, up, sent, clean, done>>

FetchItem == [file : Items, uri : URIs]
Unit == [part : {"head", "body"}, file : Items, body : BOOLEAN, keep : BOOLEAN,
         says : Says, to : URIs \cup {None}]

Memory == [queue : Seq(FetchItem),       \* pkgAcqMethod::Queue
           back : Items \cup {0},        \* QueueBack, by its file
           host : Hosts \cup {None},     \* Server->ServerName; None: no Server
           fd : BOOLEAN,                 \* ServerFd # -1
           keep : BOOLEAN,               \* Persistent
           pipe : BOOLEAN,               \* ServerState::Pipeline
           choke : BOOLEAN,              \* ChokePipe
           out : Seq(FetchItem),         \* requests unanswered on this connection
           tries : 0..1,                 \* FailCounter
           err : BOOLEAN,               \* _error is not empty
           at : {"top", "headers", "data", "drop", "moving"},
           next : URIs \cup {None},      \* Location, which becomes NextURI
           seen : [Items -> SUBSET URIs],\* Redirected
           stop : SUBSET Items]          \* Redirected[...][0] is "STOP"

\* Type invariant.
TypeOK == /\ m \in Memory
          /\ in \in Seq(Unit)
          /\ {up, clean} \subseteq BOOLEAN /\ sent \in 0..N
          /\ done \in SUBSET Items

-----------------------------------------------------------------------------

Files(q) == [n \in DOMAIN q |-> q[n].file]
HeadFile(s) == s.queue[1].file

\* Mutant: without ServerState::Comp.
Same_Any(s, n) == TRUE
Same(s, n) == HostOf[s.queue[n].uri] = s.host

\* How far HttpMethod::Fetch goes: while the host is the server's, and one
\* request only without pipelining or when the pipeline is choked.
Limit(s) ==
    IF ~s.pipe \/ s.choke THEN 1 ELSE PipelineDepth + 1

Visited(s) ==
    {n \in DOMAIN s.queue : n <= Limit(s) /\ \A k \in 1..n : Same(s, k)}

\* The requests it sends: those at or behind QueueBack.
Due(s) == {n \in Visited(s) : \E k \in 1..n : s.queue[k].file = s.back}

Choke(s) ==
    LET other == {n \in DOMAIN s.queue : n <= Limit(s) /\ ~Same(s, n)}
    IN  IF other # {} THEN TRUE
        ELSE s.choke /\ ~(s.pipe /\ Len(s.queue) > 1 /\ PipelineDepth > 0)

Fetch(s) ==
    IF s.host = None THEN s
    ELSE LET k == Cardinality(Visited(s))
         IN  [s EXCEPT
                !.choke = Choke(s),
                !.out = s.out \o SubSeq(s.queue, k - Cardinality(Due(s)) + 1, k),
                !.back = IF Due(s) = {} THEN s.back
                         ELSE IF k < Len(s.queue) THEN s.queue[k + 1].file ELSE 0]

\* URIDone and Fail: the head leaves the queue.  The code keeps what Redirected
\* says of it, but it does not come back.
Popped(s) ==
    [s EXCEPT !.queue = Tail(@),
              !.seen[HeadFile(s)] = {}, !.stop = @ \ {HeadFile(s)},
              !.back = IF @ # HeadFile(s) THEN @
                       ELSE IF Len(s.queue) > 1 THEN s.queue[2].file ELSE 0]

\* Fail tells APT what _error holds, and empties it.
Failed(s) == [Popped(s) EXCEPT !.err = FALSE]

Close(s) == [s EXCEPT !.fd = FALSE]
Top(s) == [s EXCEPT !.at = "top", !.tries = 0]

Report(s) == done' = done \cup {HeadFile(s)}

\* Mutants: the request keeps its place, or leaves the queue.
Redirect_InPlace(s, u) == [s EXCEPT !.queue[1].uri = u]
Redirect_Dropped(s, u) == Popped(s)

\* pkgAcqMethod::Redirect.  When the head is alone in the queue, the pointer
\* that QueueBack is set to has just been cleared.
Redirect(s, u) ==
    [s EXCEPT !.queue = Append(Tail(@), [file |-> HeadFile(s), uri |-> u]),
              !.back = IF @ = 0 /\ Len(s.queue) > 1 THEN HeadFile(s) ELSE @]

Init ==
    /\ m = [queue |-> << >>, back |-> 0, host |-> None, fd |-> FALSE,
            keep |-> TRUE, pipe |-> TRUE, choke |-> FALSE, out |-> << >>,
            tries |-> 0, err |-> FALSE, at |-> "top", next |-> None,
            seen |-> [i \in Items |-> {}], stop |-> {}]
    /\ in = << >> /\ up = FALSE /\ sent = 0 /\ clean = TRUE /\ done = {}

\* A 600 message, read at the top of Loop or by Go, in any phase.
Receive ==
    /\ sent < N
    /\ sent' = sent + 1
    /\ m' = Fetch([m EXCEPT
                     !.queue = Append(@, [file |-> sent + 1, uri |-> FirstURI[sent + 1]]),
                     !.back = IF @ = 0 THEN sent + 1 ELSE @])
    /\ UNCHANGED <<in, up, clean, done>>

-----------------------------------------------------------------------------
(* HttpMethod::Loop, up to the next response.                              *)

\* Mutant: the requests of the old connection are not sent again.
Reset_Not(s) == s
\* A new connection: everything is to be sent again.
Reset(s) == [s EXCEPT !.back = HeadFile(s)]

\* The server for the head of the queue, without a connection that is not to
\* be used again.
Chosen ==
    LET h == HostOf[m.queue[1].uri]
    IN  IF m.host # h THEN [m EXCEPT !.host = h, !.fd = FALSE, !.pipe = TRUE,
                                             !.next = None]
        ELSE IF m.keep THEN m ELSE Close(m)

Reuse ==
    /\ m.at = "top" /\ m.queue # << >>
    /\ Chosen.fd
    /\ m' = [Fetch(Chosen) EXCEPT !.at = "headers"]
    /\ UNCHANGED <<in, up, sent, clean, done>>

\* Not with an error of an earlier response in _error.
Connect ==
    /\ m.at = "top" /\ m.queue # << >>
    /\ ~Chosen.fd /\ ~m.err
    /\ m' = [Fetch([Reset(Chosen) EXCEPT !.fd = TRUE, !.keep = TRUE, !.out = << >>])
               EXCEPT !.at = "headers"]
    /\ in' = << >> /\ up' = TRUE /\ clean' = TRUE
    /\ UNCHANGED <<sent, done>>

ConnectFails ==
    /\ m.at = "top" /\ m.queue # << >>
    /\ ~Chosen.fd
    /\ Report(m)
    /\ m' = [Failed(Reset(Chosen)) EXCEPT !.host = None, !.fd = FALSE]
    /\ UNCHANGED <<in, up, sent, clean>>

-----------------------------------------------------------------------------
(* RunHeaders, DealWithHeaders and RunData.                                *)

Response(says) ==
    /\ m.at = "headers"
    /\ in # << >> /\ in[1].part = "head" /\ in[1].says = says

\* What RunHeaders notes of a head that parses: Persistent and Location.
Noted == [m EXCEPT !.keep = in[1].keep,
                   !.next = IF in[1].to = None THEN @ ELSE in[1].to]

Read == in' = Tail(in)

\* 200: the file is open.
BodyFollows ==
    /\ Response("ok") /\ Read
    /\ ~m.err
    /\ m' = [Noted EXCEPT !.at = "data"]
    /\ UNCHANGED <<up, sent, clean, done>>

\* 200, but the file cannot be opened, or an error of an earlier response is
\* still in _error: what is left of the response goes with the connection.
FileFails ==
    /\ Response("ok") /\ Read
    /\ MayFill \/ m.err
    /\ Report(m)
    /\ m' = Top(Close(Failed(Noted)))
    /\ UNCHANGED <<up, sent, clean>>

\* 304.
NotModified ==
    /\ Response("ims") /\ Read
    /\ Report(m)
    /\ m' = Top(Popped(Noted))
    /\ UNCHANGED <<up, sent, clean>>

\* Any other code; the request fails before the error page is read.
NotFound ==
    /\ Response("gone") /\ Read
    /\ Report(m)
    /\ m' = IF in[1].body THEN [Failed(Noted) EXCEPT !.at = "drop"] ELSE Top(Failed(Noted))
    /\ UNCHANGED <<up, sent, clean>>

\* Mutant: no limit to the redirects of a request.
Loops_Never(s) == FALSE
\* The redirect after the one that came back to a URI of the request.
Loops(s) == HeadFile(s) \in s.stop

\* Case 6 of Loop, after the body.
Follow(s) ==
    LET f == HeadFile(s)
        back == s.queue[1].uri \in s.seen[f]
    IN  IF Loops(s)
        THEN Report(s) /\ m' = Top(Failed(s))
        ELSE /\ m' = Top(Redirect([s EXCEPT !.seen[f] = @ \cup {s.queue[1].uri},
                                            !.stop = IF back THEN @ \cup {f} ELSE @],
                                  s.next))
             /\ UNCHANGED done

\* 30x.  Without a Location, now or earlier, its body is not read.
Moved ==
    /\ Response("moved") /\ Read
    /\ IF Noted.next = None
       THEN Report(m) /\ m' = Top(Failed(Noted)) /\ clean' = (clean /\ ~in[1].body)
       ELSE /\ IF in[1].body THEN m' = [Noted EXCEPT !.at = "moving"] /\ UNCHANGED done
                             ELSE Follow(Noted)
            /\ UNCHANGED clean
    /\ UNCHANGED <<up, sent>>

\* A head that does not parse, or what is left of a body: the request fails,
\* and the connection goes on.  Some text parses, as a code that is no 2xx.
BadHeader ==
    /\ m.at = "headers" /\ in # << >>
    /\ in[1].part = "body" \/ in[1].says = "garbage"
    /\ Read
    /\ Report(m)
    /\ \E parsed \in {FALSE} \cup {in[1].part = "body"} :
          m' = IF parsed THEN Top(Failed(m)) ELSE [Failed(m) EXCEPT !.at = "top"]
    /\ clean' = FALSE
    /\ UNCHANGED <<up, sent>>

\* A rest without an empty line is read as the first lines of the next head.
Swallowed ==
    /\ m.at = "headers" /\ in # << >>
    /\ in[1].part = "body"
    /\ Read
    /\ clean' = FALSE
    /\ UNCHANGED <<m, up, sent, done>>

\* Mutant: it never gives up.
GivesUp_Never(n) == FALSE
\* The request fails at the second connection that ends before its head.
GivesUp(n) == n + 1 >= 2

\* The end of the connection, or of patience, before a head: RunHeaders is 1.
NoHeader ==
    LET s == [Close(m) EXCEPT !.pipe = FALSE, !.err = FALSE]
    IN  /\ m.at = "headers" /\ in = << >>
        /\ IF GivesUp(m.tries)
           THEN Report(m) /\ m' = Top(Failed(s))
           ELSE /\ m' = [s EXCEPT !.tries = @ + 1, !.at = "top"]
                /\ UNCHANGED done
        /\ UNCHANGED <<in, up, sent, clean>>

\* ServerDie with responses in the buffer: the first is still served.
HungUp ==
    /\ m.at = "headers" /\ in # << >> /\ ~up
    /\ m.fd
    /\ m' = Close(m)
    /\ UNCHANGED <<in, up, sent, clean, done>>

\* What follows RunData.  Only a download looks at its result: an error while a
\* body is thrown away stays in _error.
AfterData(s, whole) ==
    CASE m.at = "data" -> Report(s) /\ m' = Top(IF whole THEN Popped(s) ELSE Failed(s))
      [] m.at = "drop" -> m' = Top([s EXCEPT !.err = @ \/ ~whole]) /\ UNCHANGED done
      [] m.at = "moving" -> Follow([s EXCEPT !.err = @ \/ ~whole])

RunData ==
    /\ m.at \in {"data", "drop", "moving"}
    /\ in # << >>
    /\ Read
    /\ AfterData(m, TRUE)
    /\ UNCHANGED <<up, sent, clean>>

\* The connection ends, or nothing comes, before the body does.
NoData ==
    /\ m.at \in {"data", "drop", "moving"}
    /\ in = << >>
    /\ AfterData(Close(m), FALSE)
    /\ UNCHANGED <<in, up, sent, clean>>

\* The file cannot be written: the rest of the body stays on the connection.
WriteError ==
    /\ MayFill
    /\ m.at = "data" /\ in # << >>
    /\ AfterData(m, FALSE)
    /\ clean' = FALSE
    /\ UNCHANGED <<in, up, sent>>

-----------------------------------------------------------------------------
(* The server answers the requests of a connection in their order, with or *)
(* without a body, says whether it closes, and closes when it likes.       *)

\* Where a redirect leads: to another host, or, as for 401 and without a
\* Location, to this one.
Targets(i) ==
    {v \in NewURIs : HostOf[v] # HostOf[i.uri]} \cup
    (IF LoneRedirects \/ \E n \in 1..Len(m.queue) - 1 : m.queue[n] = i
     THEN NewURIs \cup {None} ELSE {})

Serve ==
    /\ m.fd /\ up /\ m.out # << >>
    /\ \E says \in Says, body, keep, whole \in BOOLEAN :
       \E to \in IF says = "moved" THEN Targets(m.out[1]) ELSE {None} :
          LET head == [part |-> "head", file |-> m.out[1].file, body |-> body,
                       keep |-> keep, says |-> says, to |-> to]
              rest == [head EXCEPT !.part = "body"]
          IN  /\ says = "ok" => body
              /\ says = "ims" => ~body
              /\ ~body => whole
              /\ in' = in \o (IF body /\ whole THEN <<head, rest>> ELSE <<head>>)
              /\ up' = (keep /\ whole)
    /\ m' = [m EXCEPT !.out = Tail(@)]
    /\ UNCHANGED <<sent, clean, done>>

ServerCloses ==
    /\ m.fd /\ up
    /\ up' = FALSE
    /\ UNCHANGED <<m, in, sent, clean, done>>

\* APT has its answers and closes the pipe.
Finished == done = Items /\ m.at = "top" /\ UNCHANGED vars

Transfer == BodyFollows \/ FileFails \/ Swallowed \/ NotModified \/ NotFound \/ Moved \/ BadHeader
            \/ NoHeader \/ HungUp \/ RunData \/ NoData \/ WriteError
Loop == Reuse \/ Connect \/ ConnectFails \/ Transfer
Next == Receive \/ Loop \/ Serve \/ ServerCloses \/ Finished

Spec == Init /\ [][Next]_vars

(***************************************************************************)
(* Fairness.  APT writes what it has queued, the method runs, and each of  *)
(* its waits is bounded by Acquire::http::Timeout.  Nothing is asked of    *)
(* the server.                                                             *)
(***************************************************************************)
FairSpec == Spec /\ WF_vars(Receive) /\ WF_vars(Loop)

-----------------------------------------------------------------------------
(* Properties.                                                             *)

\* A response is taken for an answer to the request it answers, as long as the
\* connection carried nothing that was not read to its end: through pipelining,
\* redirects that move requests within the queue, connections that end and are
\* made again, and requests that arrive in the middle of a transfer.
Attributed ==
    (clean /\ in # << >> /\ m.at \in {"headers", "data", "moving"}) =>
        in[1].file = HeadFile(m)

\* Every request is queued or answered, once: none is lost when connections
\* and the queue's order change.
NothingLost ==
    /\ IsInjective(Files(m.queue))
    /\ Range(Files(m.queue)) \cap done = {}
    /\ Range(Files(m.queue)) \cup done = 1..sent

\* A request goes only to the host of its URI, and at most once to each
\* connection that carried nothing that was not read to its end: after that a
\* redirect may be taken for the answer to a request that is still unanswered,
\* which then moves behind QueueBack and is sent again.
RightHost ==
    m.fd => /\ \A n \in DOMAIN m.out : HostOf[m.out[n].uri] = m.host
            /\ clean => IsInjective(Files(m.out))

\* While the method waits for a head, the request at the head of its queue has
\* been sent on this connection: it never waits for a server that it has not
\* asked.
Asked ==
    (m.at = "headers" /\ in = << >> /\ clean /\ up) =>
        m.out # << >> /\ m.out[1].file = HeadFile(m)

\* Every request is answered, whatever servers do: redirect in circles, close,
\* or say nothing.
AllAnswered == <>(done = Items)
=============================================================================
