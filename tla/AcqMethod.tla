----------------------------- MODULE AcqMethod -----------------------------
(***************************************************************************)
(* The conversation of one worker (apt-pkg/acquire-worker.cc) with its     *)
(* method process (apt-pkg/acquire-method.cc): requests, answers, and the  *)
(* synchronous questions of a method to the user, 403 Media Failure and    *)
(* 404 Authenticate, during which further requests may arrive.             *)
(*                                                                         *)
(* Acquire models the scheduler and reduces a method to a queue of         *)
(* requests.  This module opens the process up: the unread pipe, the       *)
(* Messages list of pkgAcqMethod::Run, the private list MyMessages of      *)
(* MediaFail and NeedAuth, and the method's Queue.  A pipe hands a reader  *)
(* everything that was written to it, so several messages may arrive in    *)
(* one read; that is what makes the questions delicate.                    *)
(*                                                                         *)
(* Abstractions.  The N items that a queue will ever hold are numbered in  *)
(* the order in which Queue::Cycle sends them.  403/603 and 404/604 work   *)
(* alike and are one kind, "ask"/"ack".  A 400 and a 201 are both an       *)
(* answer.                                                                 *)
(***************************************************************************)
EXTENDS Integers, Sequences, SequencesExt

CONSTANTS N,       \* items of the queue
          Methods, \* the kinds of methods, as their capabilities tell them
          MaxAsks  \* questions per request

(***************************************************************************)
(* A kind of method: how many requests its worker keeps in the pipe        *)
(* (MaxPipeDepth: 10 with Pipeline, else 1), whether it asked for the      *)
(* configuration, whether its Fetch answers a request before it returns    *)
(* (all but http), and whether its worker may be deleted before everything *)
(* is answered.                                                            *)
(***************************************************************************)
Kind == [depth : Nat \ {0}, config : BOOLEAN, eager : BOOLEAN, closes : BOOLEAN]

ASSUME ConstantsOK ==
    /\ N \in Nat \ {0} /\ MaxAsks \in Nat
    /\ Methods \subseteq Kind

VARIABLES kind,     \* what the method's capabilities said
          sent,     \* how many items Cycle has sent
          out,      \* Worker::OutQueue
          toM,      \* the pipe to the method
          msgs,     \* pkgAcqMethod::Messages
          mine,     \* MyMessages of MediaFail or NeedAuth
          queue,    \* pkgAcqMethod::Queue
          wait,     \* inside MediaFail or NeedAuth
          asked,    \* questions about the head of the queue
          config,   \* the method applied a 601
          toA,      \* the pipe to APT and Worker::MessageQueue
          done,     \* requests the method answered, in order
          open,     \* the worker exists
          exited    \* the method process is gone

vars == <<kind, sent, out, toM, msgs, mine, queue, wait, asked, config, toA, done,
          open, exited>>

apt == <<kind, sent, out, open>>
method == <<msgs, mine, queue, wait, asked, config, done, exited>>

\* The messages of either direction; req is 0 where it means nothing.
Uri(n) == [kind |-> "600", req |-> n, field |-> "none"]
Conf == [kind |-> "601", req |-> 0, field |-> "none"]
Ack(no) == [kind |-> "603", req |-> 0, field |-> IF no THEN "Failed" ELSE "none"]

Message == [kind : {"600", "601", "603"}, req : 0..N, field : {"none", "Failed"}]

\* Type invariant: requests keep their number, the pipes carry only messages.
TypeOK ==
    /\ kind \in Methods /\ sent \in 0..N
    /\ out \in Seq(Message) /\ toM \in Seq(Message)
    /\ msgs \in Seq(Message) /\ mine \in Seq(Message)
    /\ queue \in Seq(1..N) /\ done \in Seq(1..N)
    /\ wait \in BOOLEAN /\ asked \in 0..MaxAsks
    /\ toA \in Seq({"answer", "ask"})
    /\ {config, open, exited} \subseteq BOOLEAN

-----------------------------------------------------------------------------
(* The worker.                                                             *)

\* Worker::Start sends the configuration; the Cycle that follows fills the pipe.
First == [n \in 1..(IF kind.depth < N THEN kind.depth ELSE N) |-> n]

Greeting_Late == [n \in DOMAIN First |-> Uri(n)] \o <<Conf>>   \* mutant: requests first

Greeting == (IF kind.config THEN <<Conf>> ELSE << >>) \o [n \in DOMAIN First |-> Uri(n)]

Init ==
    /\ kind \in Methods
    /\ sent = Len(First)
    /\ out = Greeting
    /\ toM = << >> /\ msgs = << >> /\ mine = << >>
    /\ queue = << >> /\ done = << >> /\ toA = << >>
    /\ wait = FALSE /\ asked = 0 /\ config = FALSE
    /\ open = TRUE /\ exited = FALSE

\* Worker::OutFdReady: one write takes as much of OutQueue as the pipe has room for.
OutFdReady ==
    /\ open
    /\ out # << >>
    /\ \E n \in 1..Len(out) : /\ toM' = toM \o SubSeq(out, 1, n)
                              /\ out' = SubSeq(out, n + 1, Len(out))
    /\ UNCHANGED <<kind, sent, open, toA, method>>

\* Queue::Cycle finds an idle item while there is one.
More_Off == sent <= N   \* mutant: one past the last item
More == sent < N

\* 201 URI Done or 400 URI Failure: ItemDone, whose Cycle sends the next idle item.
HandleAnswer ==
    /\ open
    /\ toA # << >> /\ Head(toA) = "answer"
    /\ toA' = Tail(toA)
    /\ IF More THEN sent' = sent + 1 /\ out' = Append(out, Uri(sent'))
                   ELSE UNCHANGED <<sent, out>>
    /\ UNCHANGED <<kind, toM, open, method>>

\* Worker::MediaChange and Worker::Authenticate: the user's answer is queued
\* behind what OutQueue holds.
Acked_Lost(no) == IF no THEN out ELSE Append(out, Ack(no))   \* mutant: no reply to a refusal

Acked(no) == Append(out, Ack(no))

HandleAsk ==
    /\ open
    /\ toA # << >> /\ Head(toA) = "ask"
    /\ toA' = Tail(toA)
    /\ \E no \in BOOLEAN : out' = Acked(no)
    /\ UNCHANGED <<kind, sent, toM, open, method>>

\* Queue::Shutdown deletes the worker, which closes its pipes: at the end of
\* Run, when everything is answered, or earlier when the user cancels it.
Close ==
    /\ open
    /\ kind.closes \/ (Len(done) = N /\ toA = << >>)
    /\ open' = FALSE
    /\ out' = << >> /\ toA' = << >>
    /\ UNCHANGED <<kind, sent, toM, method>>

-----------------------------------------------------------------------------
(* The method process.                                                     *)

\* LookupTag(Message,"Fail"): a tag matches when a colon follows it.  The worker
\* writes Failed, so that no refusal is heard.
LookupFail(m) == m.field = "Fail"

\* pkgAcqMethod::Run: ReadMessages, when Messages is empty.
Read ==
    /\ ~exited /\ ~wait
    /\ msgs = << >> /\ toM # << >>
    /\ msgs' = toM /\ toM' = << >>
    /\ UNCHANGED <<mine, queue, wait, asked, config, done, exited, toA, apt>>

\* pkgAcqMethod::Run: the front of Messages.  Codes it does not know, such as
\* a stray 603, are dropped.
Handle ==
    /\ ~exited /\ ~wait
    /\ msgs # << >>
    /\ kind.eager => queue = << >>
    /\ msgs' = Tail(msgs)
    /\ queue' = IF Head(msgs).kind = "600" THEN Append(queue, Head(msgs).req) ELSE queue
    /\ config' = (config \/ Head(msgs).kind = "601")
    /\ UNCHANGED <<mine, wait, asked, done, exited, toM, toA, apt>>

\* pkgAcqMethod::URIDone and Fail: answer the head of Queue and drop it.  A
\* method that writes to a pipe APT has closed dies.
Answer ==
    /\ ~exited /\ ~wait
    /\ queue # << >>
    /\ queue' = Tail(queue)
    /\ done' = Append(done, Head(queue))
    /\ toA' = IF open THEN Append(toA, "answer") ELSE toA
    /\ exited' = ~open
    /\ asked' = 0
    /\ UNCHANGED <<msgs, mine, wait, config, toM, apt>>

\* MediaFail or NeedAuth: the question.
Ask ==
    /\ ~exited /\ ~wait
    /\ queue # << >>
    /\ asked < MaxAsks
    /\ asked' = asked + 1
    /\ toA' = IF open THEN Append(toA, "ask") ELSE toA
    /\ exited' = ~open
    /\ wait' = open
    /\ UNCHANGED <<msgs, mine, queue, config, done, toM, apt>>

\* Mutants: what came with the acknowledgement is lost, overtakes, or the
\* acknowledgement itself is kept.
Kept_Drop(all) == IF Head(all).kind = "603" THEN msgs \o Tail(all) ELSE msgs
Kept_All(all) == IF Head(all).kind = "603" THEN msgs \o all ELSE Append(msgs, Head(all))
Kept_Swap(all) == IF Head(all).kind = "603" THEN Tail(all) \o msgs
                  ELSE <<Head(all)>> \o msgs

\* Where MediaFail leaves the messages that are not for it.
Kept(all) == IF Head(all).kind = "603" THEN msgs \o Tail(all)
             ELSE Append(msgs, Head(all))

\* MediaFail and NeedAuth: WaitFd, ReadMessages, and the front of MyMessages;
\* only the front, whatever the read brought.  On a refusal the method fails
\* the head of its queue.
WaitRead ==
    /\ ~exited /\ wait
    /\ toM # << >>
    /\ LET all == mine \o toM
           ack == Head(all).kind = "603"
           fail == ack /\ LookupFail(Head(all))
       IN  /\ toM' = << >>
           /\ msgs' = Kept(all)
           /\ mine' = IF ack THEN << >> ELSE Tail(all)
           /\ wait' = ~ack
           /\ queue' = IF fail THEN Tail(queue) ELSE queue
           /\ done' = IF fail THEN Append(done, Head(queue)) ELSE done
           /\ toA' = IF fail /\ open THEN Append(toA, "answer") ELSE toA
           /\ asked' = IF fail THEN 0 ELSE asked
           /\ exited' = (fail /\ ~open)
    /\ UNCHANGED <<config, apt>>

\* Mutant: a method that waits for an acknowledgement reads end of file for ever.
Exit_Deaf ==
    /\ ~exited
    /\ ~open /\ toM = << >>
    /\ wait \/ (msgs = << >> /\ queue = << >>)
    /\ exited' = ~wait
    /\ UNCHANGED <<msgs, mine, queue, wait, asked, config, done, toM, toA, apt>>

\* End of file: Run leaves its loop, MediaFail and NeedAuth return false (and
\* the method then writes to a closed pipe).
Exit ==
    /\ ~exited
    /\ ~open /\ toM = << >>
    /\ wait \/ (msgs = << >> /\ queue = << >>)
    /\ exited' = TRUE /\ wait' = FALSE
    /\ UNCHANGED <<msgs, mine, queue, asked, config, done, toM, toA, apt>>

\* While nothing happens on the descriptors, the select of pkgAcquire::Run
\* times out twice a second and pulses the progress display; at the end the
\* worker has waited for the process (ExecWait).
Pulse == (open \/ exited) /\ UNCHANGED vars

Worker == OutFdReady \/ HandleAnswer \/ HandleAsk \/ Close
Process == Read \/ Handle \/ Answer \/ Ask \/ WaitRead \/ Exit
Next == Worker \/ Process \/ Pulse

Spec == Init /\ [][Next]_vars

(***************************************************************************)
(* Fairness.  The worker serves its descriptors in every turn of the       *)
(* select loop, the method reads when a descriptor is readable and, since  *)
(* its own waits are bounded by timeouts, answers in the end.  Nobody has  *)
(* to cancel, and a method asks a bounded number of times.                 *)
(***************************************************************************)
FairSpec ==
    /\ Spec
    /\ WF_vars(OutFdReady) /\ WF_vars(HandleAnswer) /\ WF_vars(HandleAsk)
    /\ WF_vars(Close /\ Len(done) = N)
    /\ WF_vars(Read) /\ WF_vars(Handle) /\ WF_vars(Answer) /\ WF_vars(WaitRead)
    /\ WF_vars(Exit)

-----------------------------------------------------------------------------
(* Properties.                                                             *)

\* SelectSeq of what is in a set, by a recursive function, which proofs expand.
Select(s, T) ==
    LET sel[n \in 0..Len(s)] ==
            IF n = 0 THEN << >>
            ELSE IF s[n] \in T THEN Append(sel[n - 1], s[n]) ELSE sel[n - 1]
    IN  sel[Len(s)]

Fetches == {m \in Message : m.kind = "600"}
Replies == {m \in Message : m.kind = "603"}

\* What is on its way to the method, in the order in which it will read it, and
\* the requests in it.
Line == msgs \o (mine \o (toM \o out))

Uris(ms) == LET u == Select(ms, Fetches)
            IN  [n \in DOMAIN u |-> u[n].req]

\* All that the worker sent and the method has not answered, in the order in
\* which it will come up.
Unanswered == queue \o Uris(Line)

\* No request is lost, answered twice or overtaken between OutQueue and the
\* answer, although MediaFail and NeedAuth take messages off the pipe that are
\* not for them and put them aside.
NothingLost ==
    open => done \o Unanswered = [n \in 1..sent |-> n]

\* Questions and acknowledgements match: exactly one is on its way while the
\* method waits, none otherwise, so no method takes the reply to an earlier
\* question for its own, and none is dropped by Run.
OneAckEach ==
    open => Len(Select(toA, {"ask"})) + Len(Select(Line, Replies)) = (IF wait THEN 1 ELSE 0)

\* A method that asked for the configuration has it before it fetches anything.
ConfigFirst == kind.config => (queue # << >> \/ done # << >> => config)

\* MediaFail and NeedAuth return: "the method continues reading all other 6xx
\* codes until the proper 602/603 code is received".
AskEnds == wait ~> ~wait

\* Every item is answered, unless the user cancels first, by every method that
\* takes one request at a time.
AllAnswered == <>(Len(done) = N \/ ~open \/ kind.depth > 1)

\* When the worker is gone the method process ends, even in the middle of a
\* question: the ExecWait of the worker's destructor returns.
MethodExits == ~open ~> exited

\* The message engine implements the promise that the scheduler relies on.
Promise == INSTANCE MethodPromise
             WITH Requests <- 1..N, Firsts <- {[n \in 1..k |-> n] : k \in 1..N},
                  listening <- open, waiting <- Unanswered, answered <- done
PromiseKept == Promise!Spec
=============================================================================
