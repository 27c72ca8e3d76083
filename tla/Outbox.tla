-------------------------------- MODULE Outbox --------------------------------
(***************************************************************************)
(* internal/jobs/outbox_dispatcher.go over the table                       *)
(* email_delivery_requests.  The dispatcher is one goroutine; an action is *)
(* one database call or one SMTP conversation of it, and the server can    *)
(* crash between any two.  An SMTP conversation can fail after the server  *)
(* took the message: net/smtp returns the error of QUIT.  It can also not  *)
(* end: mailer.go sets no deadline, and the loop waits for a server that   *)
(* has fallen silent until the process is restarted.                       *)
(***************************************************************************)
EXTENDS Integers, Sequences

CONSTANTS
  Emails,
  Dead,          \* mails whose server never takes them
  BatchSize,     \* rows fetched per poll (20 in the code)
  MaxAttempts,   \* failures after which the wait is Far (5)
  Far,           \* 24 hours, in minutes
  MaxCopies,     \* bound: copies of a mail beyond it are not told apart
  MaxFailures    \* bound: failures beyond it are not told apart

ASSUME BatchAssumption == BatchSize \in Nat \ {0}
ASSUME AttemptsAssumption ==
  /\ MaxAttempts \in Nat \ {0}
  /\ MaxFailures \in Nat /\ MaxFailures > MaxAttempts
ASSUME WaitAssumption == Far \in Nat /\ Far > MaxAttempts
ASSUME CopiesAssumption == MaxCopies \in Nat /\ MaxCopies > 1

VARIABLES
  status,     \* the row's status; "absent" before Enqueue
  attempts,   \* the row's attempts
  wait,       \* minutes to the row's next_attempt_at, 0 when it is past
  earlier,    \* the rows whose next_attempt_at is before this one's
  batch,      \* rows the dispatcher has fetched and not finished
  step,       \* its next call for the first of them
  delivered,  \* copies the recipient has
  doubtful    \* history: the mail was accepted and the row does not say so

vars == <<status, attempts, wait, earlier, batch, step, delivered, doubtful>>

Row == [id: Emails, attempts: 0..MaxFailures]

TypeOK ==
  /\ status \in [Emails -> {"absent", "pending", "sent"}]
  /\ attempts \in [Emails -> 0..MaxFailures]
  /\ wait \in [Emails -> 0..Far]
  /\ earlier \in [Emails -> SUBSET Emails]
  /\ batch \in Seq(Row)
  /\ step \in {"idle", "send", "accepted", "failed", "stalled"}
  /\ delivered \in [Emails -> 0..MaxCopies]
  /\ doubtful \in [Emails -> BOOLEAN]

Init ==
  /\ status = [e \in Emails |-> "absent"]
  /\ attempts = [e \in Emails |-> 0]
  /\ wait = [e \in Emails |-> 0]
  /\ earlier = [e \in Emails |-> {}]
  /\ batch = <<>>
  /\ step = "idle"
  /\ delivered = [e \in Emails |-> 0]
  /\ doubtful = [e \in Emails |-> FALSE]

-----------------------------------------------------------------------------

\* next_attempt_at of row e becomes w minutes from now.
Schedule(e, w) ==
  /\ wait' = [wait EXCEPT ![e] = w]
  /\ earlier' = [d \in Emails |->
       IF d = e THEN {x \in Emails \ {e} : status[x] = "pending" /\ wait[x] <= w}
       ELSE IF wait[d] > w THEN earlier[d] \cup {e} ELSE earlier[d] \ {e}]

\* A service queues a mail, due at once.
Enqueue(e) ==
  /\ status[e] = "absent"
  /\ status' = [status EXCEPT ![e] = "pending"]
  /\ Schedule(e, 0)
  /\ UNCHANGED <<attempts, batch, step, delivered, doubtful>>

\* A minute passes.
Tick ==
  /\ wait' = [e \in Emails |-> IF wait[e] > 0 THEN wait[e] - 1 ELSE 0]
  /\ UNCHANGED <<status, attempts, earlier, batch, step, delivered, doubtful>>

Due == {e \in Emails : status[e] = "pending" /\ wait[e] = 0}

\* The earliest due rows, at most BatchSize of them.
Earliest(s) ==
  /\ \A i, j \in DOMAIN s : i < j => s[i] \in earlier[s[j]] \ {s[j]}
  /\ \A e \in Due : \/ \E i \in DOMAIN s : s[i] = e
                    \/ /\ Len(s) = BatchSize
                       /\ \A i \in DOMAIN s : s[i] \in earlier[e]

\* Mutant: the WHERE clause forgets the status.
FetchAnyStatus ==
  /\ step = "idle"
  /\ \E e \in Emails :
       /\ status[e] # "absent" /\ wait[e] = 0
       /\ batch' = <<[id |-> e, attempts |-> attempts[e]]>>
  /\ step' = "send"
  /\ UNCHANGED <<status, attempts, wait, earlier, delivered, doubtful>>

\* FetchPending; a failing one changes nothing.
Fetch ==
  /\ step = "idle"
  /\ \E n \in 1..BatchSize : \E s \in [1..n -> Due] :
       /\ Earliest(s)
       /\ batch' = [i \in 1..n |-> [id |-> s[i], attempts |-> attempts[s[i]]]]
  /\ step' = "send"
  /\ UNCHANGED <<status, attempts, wait, earlier, delivered, doubtful>>

Handling(e, s) ==
  /\ step = s
  /\ batch # <<>>
  /\ Head(batch).id = e

Advance ==
  /\ batch' = Tail(batch)
  /\ step' = IF Len(batch) > 1 THEN "send" ELSE "idle"

Received(e) ==
  delivered' = [delivered EXCEPT ![e] = IF @ < MaxCopies THEN @ + 1 ELSE @]

SendAccepted(e) ==
  /\ Handling(e, "send")
  /\ e \notin Dead
  /\ Received(e)
  /\ step' = "accepted"
  /\ UNCHANGED <<status, attempts, wait, earlier, batch, doubtful>>

\* Taken by the server, and an error all the same.
SendUnacknowledged(e) ==
  /\ Handling(e, "send")
  /\ e \notin Dead
  /\ Received(e)
  /\ step' = "failed"
  /\ doubtful' = [doubtful EXCEPT ![e] = TRUE]
  /\ UNCHANGED <<status, attempts, wait, earlier, batch>>

SendRefused(e) ==
  /\ Handling(e, "send")
  /\ step' = "failed"
  /\ UNCHANGED <<status, attempts, wait, earlier, batch, delivered, doubtful>>

\* The server falls silent, before it takes the mail or after: Send does not
\* return (a silence that ends is one of the three above).
SendStalls(e) ==
  /\ Handling(e, "send")
  /\ step' = "stalled"
  /\ \/ UNCHANGED <<delivered, doubtful>>
     \/ /\ e \notin Dead
        /\ Received(e)
        /\ doubtful' = [doubtful EXCEPT ![e] = TRUE]
  /\ UNCHANGED <<status, attempts, wait, earlier, batch>>

\* Mutant: the row is touched, its status left as it was.
MarkSentUnchanged(e) ==
  /\ Handling(e, "accepted")
  /\ Advance
  /\ UNCHANGED <<status, attempts, wait, earlier, delivered, doubtful>>

MarkSent(e) ==
  /\ Handling(e, "accepted")
  /\ status' = [status EXCEPT ![e] = "sent"]
  /\ Advance
  /\ UNCHANGED <<attempts, wait, earlier, delivered, doubtful>>

\* Mutant: the UPDATE counts the failure and forgets next_attempt_at.
MarkFailedInPlace(e) ==
  /\ Handling(e, "failed")
  /\ attempts' = [attempts EXCEPT ![e] = IF @ < MaxFailures THEN @ + 1 ELSE @]
  /\ Advance
  /\ UNCHANGED <<status, wait, earlier, delivered, doubtful>>

\* Mutant: the long wait after MaxAttempts failures is left out.
BackoffUncapped(failures) == failures

\* The wait is counted from the attempts of the fetched row.
Backoff(failures) == IF failures >= MaxAttempts THEN Far ELSE failures

MarkFailed(e) ==
  /\ Handling(e, "failed")
  /\ attempts' = [attempts EXCEPT ![e] = IF @ < MaxFailures THEN @ + 1 ELSE @]
  /\ Schedule(e, Backoff(Head(batch).attempts + 1))
  /\ Advance
  /\ UNCHANGED <<status, delivered, doubtful>>

\* The UPDATE fails: logged, and the loop goes on.
MarkLost(e) ==
  /\ Handling(e, "accepted") \/ Handling(e, "failed")
  /\ doubtful' = [doubtful EXCEPT ![e] = @ \/ step = "accepted"]
  /\ Advance
  /\ UNCHANGED <<status, attempts, wait, earlier, delivered>>

\* The server stops and restarts with an empty batch.
Crash ==
  /\ batch # <<>>
  /\ doubtful' = [e \in Emails |-> doubtful[e] \/ Handling(e, "accepted")]
  /\ batch' = <<>>
  /\ step' = "idle"
  /\ UNCHANGED <<status, attempts, wait, earlier, delivered>>

Send(e) == SendAccepted(e) \/ SendUnacknowledged(e) \/ SendRefused(e)
Handle(e) == Send(e) \/ MarkSent(e) \/ MarkFailed(e) \/ MarkLost(e)

Next ==
  \/ \E e \in Emails : Enqueue(e)
  \/ Tick
  \/ Fetch
  \/ \E e \in Emails : Handle(e) \/ SendStalls(e)
  \/ Crash

Spec == Init /\ [][Next]_vars

\* Time passes, and the dispatcher goes on when its call returns.  Of what is
\* decided outside the program: no mail meets a crash or a silent server each
\* time it is sent, a mail server that takes a mail at all does not refuse it
\* for ever, nor Postgres the UPDATE of its row.  Nobody is assumed to restart
\* a dispatcher that waits for a silent server.
FairSpec ==
  /\ Spec
  /\ WF_vars(Tick)
  /\ WF_vars(Fetch \/ \E e \in Emails : Handle(e))
  /\ \A e \in Emails : SF_vars(Send(e)) /\ SF_vars(MarkFailed(e))
  /\ \A e \in Emails \ Dead : SF_vars(SendAccepted(e)) /\ SF_vars(MarkSent(e))

-----------------------------------------------------------------------------
(* Properties.                                                             *)

\* A recipient gets a second copy only of a mail whose acceptance the row
\* could not be told of: no failure, poll or retry of the others causes one.
OneCopyUnlessDoubtful ==
  \A e \in Emails : delivered[e] > 1 => doubtful[e]

\* The row's status is the state of the mail.
Box == [e \in Emails |-> IF status[e] = "absent" THEN "none"
                         ELSE IF status[e] = "pending" THEN "queued"
                         ELSE "settled"]
AtLeastOnce == INSTANCE Mail WITH box <- Box, copies <- delivered

\* The dispatcher delivers at least once and settles nothing it has not
\* delivered, through every failure and crash.
ImplementsMail == AtLeastOnce!Spec

\* A mail that its server takes is settled in the end, unless the dispatcher
\* waits for a silent server for ever; mails nobody takes, stalls that a
\* restart ends and a batch smaller than the queue do not hold it up.
MailArrives ==
  []<>(step # "stalled") =>
    \A e \in Emails \ Dead : (status[e] = "pending") ~> (status[e] = "sent")

=============================================================================
