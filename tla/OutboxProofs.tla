----------------------------- MODULE OutboxProofs -----------------------------
(***************************************************************************)
(* Outbox, for any mails, batch size, retry limit and waits: it implements *)
(* Mail, and only a doubtful mail is delivered twice.                      *)
(*                                                                         *)
(* The invariant follows one fetched row from its SELECT to its UPDATE:    *)
(* rows of the batch are pending and distinct (InFlight), so the row whose *)
(* mail was accepted is the first of the batch and no other (Accounted).   *)
(***************************************************************************)
EXTENDS Outbox, SequenceTheorems, TLAPS

\* The rows of a batch are distinct and still pending.
InFlight ==
  /\ step = "idle" <=> batch = <<>>
  /\ \A i \in 1..Len(batch) : status[batch[i].id] = "pending"
  /\ \A i, j \in 1..Len(batch) : batch[i].id = batch[j].id => i = j

\* A copy that was delivered is on record, about to be, or in doubt.
Accounted ==
  /\ step = "accepted" => delivered[Head(batch).id] > 0
  /\ \A e \in Emails : ~ doubtful[e] =>
       /\ delivered[e] <= 1
       /\ delivered[e] = 1 => status[e] = "sent" \/ Handling(e, "accepted")

\* Settled mails were delivered.
SentDelivered == \A e \in Emails : status[e] = "sent" => delivered[e] > 0

IInv == TypeOK /\ InFlight /\ Accounted /\ SentDelivered

-----------------------------------------------------------------------------
(* The batch.                                                              *)

\* The rows of the batch are rows of mails.
LEMMA BatchIds ==
  ASSUME IInv
  PROVE  \A i \in 1..Len(batch) : batch[i].id \in Emails
<1> SUFFICES ASSUME NEW i \in 1..Len(batch) PROVE batch[i].id \in Emails
  OBVIOUS
<1>1. batch[i] \in Row
  BY ElementOfSeq DEF IInv, TypeOK
<1> QED
  BY <1>1 DEF Row

\* The first row of the batch.
LEMMA HeadRow ==
  ASSUME IInv, NEW e \in Emails, NEW s, Handling(e, s)
  PROVE  /\ batch \in Seq(Row) /\ Len(batch) \in Nat \ {0}
         /\ batch[1] \in Row /\ batch[1] = Head(batch) /\ batch[1].id = e
         /\ status[e] = "pending"
<1>1. batch \in Seq(Row) /\ batch # <<>> /\ Head(batch).id = e
  BY DEF IInv, TypeOK, Handling
<1>2. Len(batch) \in Nat \ {0} /\ batch[1] = Head(batch) /\ batch[1] \in Row
  BY <1>1
<1> QED
  BY <1>1, <1>2 DEF IInv, InFlight

\* Going on to the next row of the batch.
LEMMA AdvanceEffect ==
  ASSUME IInv, NEW e \in Emails, NEW s, Handling(e, s), Advance
  PROVE  /\ batch' \in Seq(Row)
         /\ step' \in {"idle", "send"}
         /\ step' = "idle" <=> batch' = <<>>
         /\ \A i \in 1..Len(batch') :
              /\ batch'[i].id \in Emails \ {e}
              /\ status[batch'[i].id] = "pending"
         /\ \A i, j \in 1..Len(batch') : batch'[i].id = batch'[j].id => i = j
<1>1. /\ batch \in Seq(Row) /\ Len(batch) \in Nat \ {0}
      /\ batch[1].id = e
  BY HeadRow
<1>2. batch' = Tail(batch) /\ step' = IF Len(batch) > 1 THEN "send" ELSE "idle"
  BY DEF Advance
<1>3. /\ batch' \in Seq(Row) /\ Len(batch') = Len(batch) - 1
      /\ \A i \in 1..Len(batch') : batch'[i] = batch[i + 1] /\ i + 1 \in 1..Len(batch)
  BY <1>1, <1>2
<1>4. step' = "idle" <=> batch' = <<>>
  <2>1. CASE Len(batch) > 1
    <3>1. Len(batch') # 0
      BY <1>1, <1>3, <2>1
    <3>2. batch' # <<>>
      BY <3>1, EmptySeq
    <3>3. step' # "idle"
      BY <1>2, <2>1
    <3> QED
      BY <3>2, <3>3
  <2>2. CASE Len(batch) = 1
    <3>1. Len(batch') = 0
      BY <1>1, <1>3, <2>2
    <3>2. batch' = <<>>
      BY <1>3, <3>1, EmptySeq
    <3>3. step' = "idle"
      BY <1>2, <2>2
    <3> QED
      BY <3>2, <3>3
  <2>3. Len(batch) > 1 \/ Len(batch) = 1
    <3>1. PICK n \in Nat \ {0} : n = Len(batch)
      BY <1>1
    <3> QED
      BY <3>1
  <2> QED
    BY <2>1, <2>2, <2>3
<1>5. \A i \in 1..Len(batch) : batch[i].id \in Emails
  BY BatchIds
<1>6. \A i, j \in 1..Len(batch) : batch[i].id = batch[j].id => i = j
  BY DEF IInv, InFlight
<1>7. ASSUME NEW i \in 1..Len(batch')
      PROVE  batch'[i].id \in Emails \ {e} /\ status[batch'[i].id] = "pending"
  <2>1. batch'[i] = batch[i + 1] /\ i + 1 \in 1..Len(batch) /\ i + 1 # 1 /\ 1 \in 1..Len(batch)
    BY <1>1, <1>3
  <2> QED
    BY <1>1, <1>5, <1>6, <2>1 DEF IInv, InFlight
<1>8. ASSUME NEW i \in 1..Len(batch'), NEW j \in 1..Len(batch'),
             batch'[i].id = batch'[j].id
      PROVE  i = j
  <2>1. i + 1 = j + 1
    BY <1>3, <1>6, <1>8
  <2> QED
    BY <2>1
<1> QED
  BY <1>2, <1>3, <1>4, <1>7, <1>8

\* A fetched batch.
LEMMA FetchEffect ==
  ASSUME TypeOK, Fetch
  PROVE  /\ batch' \in Seq(Row) /\ batch' # <<>>
         /\ \A i \in 1..Len(batch') : status[batch'[i].id] = "pending"
         /\ \A i, j \in 1..Len(batch') : batch'[i].id = batch'[j].id => i = j
<1>0. PICK n \in 1..BatchSize : \E s \in [1..n -> Due] :
        /\ Earliest(s)
        /\ batch' = [i \in 1..n |-> [id |-> s[i], attempts |-> attempts[s[i]]]]
  BY DEF Fetch
<1>1. PICK s \in [1..n -> Due] :
        /\ Earliest(s)
        /\ batch' = [i \in 1..n |-> [id |-> s[i], attempts |-> attempts[s[i]]]]
  BY <1>0
<1>2. n \in Nat \ {0} /\ DOMAIN s = 1..n
  BY BatchAssumption
<1>3. \A i \in 1..n : s[i] \in Emails /\ status[s[i]] = "pending"
  BY DEF Due
<1>4. \A i \in 1..n : batch'[i] \in Row /\ batch'[i].id = s[i]
  BY <1>1, <1>3 DEF TypeOK, Row
<1>5. batch' \in Seq(Row) /\ Len(batch') = n /\ batch' # <<>>
  <2>1. batch' \in [1..n -> Row]
    BY <1>1, <1>4
  <2>2. batch' \in Seq(Row)
    BY <1>2, <2>1, SeqDef
  <2>3. Len(batch') = n
    BY <1>2, <2>1
  <2> QED
    BY <1>2, <2>2, <2>3, EmptySeq
<1>6. \A i, j \in 1..n : i < j => s[i] # s[j]
  BY <1>1, <1>2 DEF Earliest
<1>7. \A i, j \in 1..n : s[i] = s[j] => i = j
  BY <1>2, <1>6
<1> QED
  BY <1>3, <1>4, <1>5, <1>7

-----------------------------------------------------------------------------
(* The steps.                                                              *)

\* A step that moves no row and no copy of another mail, and says of its own
\* what the rest of the invariant asks.
LEMMA EnqueueStep ==
  ASSUME IInv, NEW e \in Emails, Enqueue(e)
  PROVE  IInv'
<1>1. /\ status[e] = "absent" /\ status' = [status EXCEPT ![e] = "pending"]
      /\ UNCHANGED <<attempts, batch, step, delivered, doubtful>>
  BY DEF Enqueue
<1>2. /\ wait' = [wait EXCEPT ![e] = 0]
      /\ earlier' \in [Emails -> SUBSET Emails]
  BY DEF Enqueue, Schedule, IInv, TypeOK
<1>3. TypeOK'
  BY <1>1, <1>2, WaitAssumption DEF IInv, TypeOK
<1>4. /\ \A d \in Emails : status[d] = "pending" => status'[d] = "pending"
      /\ \A d \in Emails : status'[d] = "sent" <=> status[d] = "sent"
  BY <1>1 DEF IInv, TypeOK
<1>5. \A i \in 1..Len(batch) : batch[i].id \in Emails
  BY BatchIds
<1>6. InFlight'
  BY <1>1, <1>4, <1>5 DEF IInv, InFlight
<1>7. Accounted' /\ SentDelivered'
  BY <1>1, <1>4 DEF IInv, Accounted, SentDelivered, Handling
<1> QED
  BY <1>3, <1>6, <1>7 DEF IInv

LEMMA TickStep ==
  ASSUME IInv, Tick
  PROVE  IInv'
<1>1. /\ wait' = [e \in Emails |-> IF wait[e] > 0 THEN wait[e] - 1 ELSE 0]
      /\ UNCHANGED <<status, attempts, earlier, batch, step, delivered, doubtful>>
  BY DEF Tick
<1>2. \A e \in Emails : wait'[e] \in 0..Far
  BY <1>1, WaitAssumption DEF IInv, TypeOK
<1>3. wait' \in [Emails -> 0..Far]
  BY <1>1, <1>2
<1>4. TypeOK'
  BY <1>1, <1>3 DEF IInv, TypeOK
<1> QED
  BY <1>1, <1>4 DEF IInv, InFlight, Accounted, SentDelivered, Handling

LEMMA FetchStep ==
  ASSUME IInv, Fetch
  PROVE  IInv'
<1>1. /\ step = "idle" /\ step' = "send"
      /\ UNCHANGED <<status, attempts, wait, earlier, delivered, doubtful>>
  BY DEF Fetch
<1>2. /\ batch' \in Seq(Row) /\ batch' # <<>>
      /\ \A i \in 1..Len(batch') : status[batch'[i].id] = "pending"
      /\ \A i, j \in 1..Len(batch') : batch'[i].id = batch'[j].id => i = j
  BY FetchEffect DEF IInv
<1>3. TypeOK'
  BY <1>1, <1>2 DEF IInv, TypeOK
<1>4. InFlight'
  BY <1>1, <1>2 DEF InFlight
<1>5. Accounted' /\ SentDelivered'
  BY <1>1 DEF IInv, Accounted, SentDelivered, Handling
<1> QED
  BY <1>3, <1>4, <1>5 DEF IInv

\* One more copy, as far as it is counted.
LEMMA ReceivedEffect ==
  ASSUME TypeOK, NEW e \in Emails, Received(e)
  PROVE  /\ delivered' \in [Emails -> 0..MaxCopies]
         /\ delivered'[e] > 0
         /\ delivered[e] = 0 => delivered'[e] = 1
         /\ \A d \in Emails \ {e} : delivered'[d] = delivered[d]
         /\ delivered' = [delivered EXCEPT ![e] =
                            IF @ < MaxCopies THEN @ + 1 ELSE @]
BY CopiesAssumption DEF TypeOK, Received

\* The mail about to be sent is in doubt or not yet delivered.
LEMMA FreshHead ==
  ASSUME IInv, NEW e \in Emails, Handling(e, "send") \/ Handling(e, "failed")
  PROVE  doubtful[e] \/ delivered[e] = 0
<1>1. status[e] = "pending" /\ ~ Handling(e, "accepted")
  BY HeadRow DEF Handling
<1>2. delivered[e] \in Nat
  BY CopiesAssumption DEF IInv, TypeOK
<1> QED
  BY <1>1, <1>2 DEF IInv, Accounted

LEMMA SendStep ==
  ASSUME IInv, NEW e \in Emails, Send(e)
  PROVE  IInv'
<1>1. /\ Handling(e, "send") /\ step' \in {"accepted", "failed"}
      /\ UNCHANGED <<status, attempts, wait, earlier, batch>>
  BY DEF Send, SendAccepted, SendUnacknowledged, SendRefused
<1>2. batch # <<>> /\ Head(batch).id = e /\ step = "send"
  BY <1>1 DEF Handling
<1>3. doubtful[e] \/ delivered[e] = 0
  BY <1>1, FreshHead
<1>4. InFlight'
  BY <1>1, <1>2 DEF IInv, InFlight
<1>5. CASE SendAccepted(e)
  <2>1. Received(e) /\ step' = "accepted" /\ doubtful' = doubtful
    BY <1>5 DEF SendAccepted
  <2>2. TypeOK'
    BY <1>1, <2>1, ReceivedEffect DEF IInv, TypeOK
  <2>3. SentDelivered'
    BY <1>1, <2>1, ReceivedEffect DEF IInv, SentDelivered
  <2>4. Handling(e, "accepted")'
    BY <1>1, <1>2, <2>1 DEF Handling
  <2>5. ASSUME NEW d \in Emails, ~ doubtful[d]
        PROVE  /\ delivered'[d] <= 1
               /\ delivered'[d] = 1 => status[d] = "sent" \/ Handling(d, "accepted")'
    <3>1. CASE d = e
      BY <1>3, <2>1, <2>4, <2>5, <3>1, ReceivedEffect DEF IInv
    <3>2. CASE d # e
      <4>1. delivered'[d] = delivered[d] /\ ~ Handling(d, "accepted")
        BY <1>2, <2>1, <3>2, ReceivedEffect DEF IInv, Handling
      <4> QED
        BY <2>5, <4>1 DEF IInv, Accounted
    <3> QED
      BY <3>1, <3>2
  <2>6. delivered'[Head(batch).id] > 0
    BY <1>2, <2>1, ReceivedEffect DEF IInv
  <2>7. Accounted'
    BY <1>1, <2>1, <2>5, <2>6 DEF Accounted
  <2> QED
    BY <1>4, <2>2, <2>3, <2>7 DEF IInv
<1>6. CASE SendUnacknowledged(e)
  <2>1. Received(e) /\ step' = "failed" /\ doubtful' = [doubtful EXCEPT ![e] = TRUE]
    BY <1>6 DEF SendUnacknowledged
  <2>2. TypeOK'
    BY <1>1, <2>1, ReceivedEffect DEF IInv, TypeOK
  <2>3. SentDelivered'
    BY <1>1, <2>1, ReceivedEffect DEF IInv, SentDelivered
  <2>4. ASSUME NEW d \in Emails, ~ doubtful'[d]
        PROVE  /\ delivered'[d] <= 1
               /\ delivered'[d] = 1 => status[d] = "sent"
    <3>1. d # e /\ ~ doubtful[d]
      BY <2>1, <2>4 DEF IInv, TypeOK
    <3>2. delivered'[d] = delivered[d] /\ ~ Handling(d, "accepted")
      BY <1>2, <2>1, <3>1, ReceivedEffect DEF IInv, Handling
    <3> QED
      BY <3>1, <3>2 DEF IInv, Accounted
  <2>5. Accounted'
    BY <1>1, <2>1, <2>4 DEF Accounted
  <2> QED
    BY <1>4, <2>2, <2>3, <2>5 DEF IInv
<1>7. CASE SendRefused(e)
  <2>1. step' = "failed" /\ UNCHANGED <<delivered, doubtful>>
    BY <1>7 DEF SendRefused
  <2>2. TypeOK' /\ SentDelivered'
    BY <1>1, <2>1 DEF IInv, TypeOK, SentDelivered
  <2>3. Accounted'
    BY <1>1, <1>2, <2>1 DEF IInv, Accounted, Handling
  <2> QED
    BY <1>4, <2>2, <2>3 DEF IInv
<1> QED
  BY <1>5, <1>6, <1>7 DEF Send

\* A stalled conversation leaves the row as it was; a copy the server took
\* all the same is in doubt.
LEMMA SendStallsStep ==
  ASSUME IInv, NEW e \in Emails, SendStalls(e)
  PROVE  IInv'
<1>1. /\ Handling(e, "send") /\ step' = "stalled"
      /\ UNCHANGED <<status, attempts, wait, earlier, batch>>
  BY DEF SendStalls
<1>2. batch # <<>> /\ step = "send" /\ \A d \in Emails : ~ Handling(d, "accepted")
  BY <1>1 DEF Handling
<1>3. InFlight'
  BY <1>1, <1>2 DEF IInv, InFlight
<1>4. CASE UNCHANGED <<delivered, doubtful>>
  <2>1. TypeOK' /\ SentDelivered'
    BY <1>1, <1>4 DEF IInv, TypeOK, SentDelivered
  <2>2. Accounted'
    BY <1>1, <1>2, <1>4 DEF IInv, Accounted
  <2> QED
    BY <1>3, <2>1, <2>2 DEF IInv
<1>5. CASE Received(e) /\ doubtful' = [doubtful EXCEPT ![e] = TRUE]
  <2>1. TypeOK'
    BY <1>1, <1>5, ReceivedEffect DEF IInv, TypeOK
  <2>2. SentDelivered'
    BY <1>1, <1>5, ReceivedEffect DEF IInv, SentDelivered
  <2>3. ASSUME NEW d \in Emails, ~ doubtful'[d]
        PROVE  /\ delivered'[d] <= 1
               /\ delivered'[d] = 1 => status[d] = "sent"
    <3>1. d # e /\ ~ doubtful[d]
      BY <1>5, <2>3 DEF IInv, TypeOK
    <3>2. delivered'[d] = delivered[d]
      BY <1>5, <3>1, ReceivedEffect DEF IInv
    <3> QED
      BY <1>2, <3>1, <3>2 DEF IInv, Accounted
  <2>4. Accounted'
    BY <1>1, <2>3 DEF Accounted
  <2> QED
    BY <1>3, <2>1, <2>2, <2>4 DEF IInv
<1> QED
  BY <1>4, <1>5 DEF SendStalls

\* A step that goes on to the next row and leaves every other row's status.
LEMMA NextRow ==
  ASSUME IInv, NEW e \in Emails, NEW s, Handling(e, s), Advance,
         \A d \in Emails \ {e} : status'[d] = status[d]
  PROVE  InFlight'
<1>1. /\ step' = "idle" <=> batch' = <<>>
      /\ \A i \in 1..Len(batch') :
           /\ batch'[i].id \in Emails \ {e}
           /\ status[batch'[i].id] = "pending"
      /\ \A i, j \in 1..Len(batch') : batch'[i].id = batch'[j].id => i = j
  BY AdvanceEffect
<1> QED
  BY <1>1 DEF InFlight

LEMMA MarkSentStep ==
  ASSUME IInv, NEW e \in Emails, MarkSent(e)
  PROVE  IInv'
<1>1. /\ Handling(e, "accepted") /\ Advance
      /\ status' = [status EXCEPT ![e] = "sent"]
      /\ UNCHANGED <<attempts, wait, earlier, delivered, doubtful>>
  BY DEF MarkSent
<1>2. batch' \in Seq(Row) /\ step' \in {"idle", "send"}
  BY <1>1, AdvanceEffect
<1>3. /\ status'[e] = "sent"
      /\ \A d \in Emails \ {e} : status'[d] = status[d]
  BY <1>1 DEF IInv, TypeOK
<1>4. TypeOK'
  BY <1>1, <1>2 DEF IInv, TypeOK
<1>5. InFlight'
  BY <1>1, <1>3, NextRow
<1>6. delivered[e] > 0 /\ \A d \in Emails \ {e} : ~ Handling(d, "accepted")
  BY <1>1 DEF IInv, Accounted, Handling
<1>7. SentDelivered'
  BY <1>1, <1>3, <1>6 DEF IInv, SentDelivered
<1>8. Accounted'
  BY <1>1, <1>2, <1>3, <1>6 DEF IInv, Accounted
<1> QED
  BY <1>4, <1>5, <1>7, <1>8 DEF IInv

LEMMA MarkFailedStep ==
  ASSUME IInv, NEW e \in Emails, MarkFailed(e)
  PROVE  IInv'
<1>1. /\ Handling(e, "failed") /\ Advance
      /\ attempts' = [attempts EXCEPT ![e] = IF @ < MaxFailures THEN @ + 1 ELSE @]
      /\ Schedule(e, Backoff(Head(batch).attempts + 1))
      /\ UNCHANGED <<status, delivered, doubtful>>
  BY DEF MarkFailed
<1>2. batch' \in Seq(Row) /\ step' \in {"idle", "send"}
  BY <1>1, AdvanceEffect
<1>3. Backoff(Head(batch).attempts + 1) \in 0..Far
  <2>1. Head(batch) \in Row
    BY <1>1, HeadRow
  <2>2. Head(batch).attempts \in 0..MaxFailures
    BY <2>1 DEF Row
  <2> QED
    BY <2>2, AttemptsAssumption, WaitAssumption DEF Backoff
<1>4. /\ wait' \in [Emails -> 0..Far]
      /\ earlier' \in [Emails -> SUBSET Emails]
  BY <1>1, <1>3 DEF Schedule, IInv, TypeOK
<1>5. attempts' \in [Emails -> 0..MaxFailures]
  BY <1>1, AttemptsAssumption DEF IInv, TypeOK
<1>6. TypeOK'
  BY <1>1, <1>2, <1>4, <1>5 DEF IInv, TypeOK
<1>7. InFlight'
  BY <1>1, NextRow
<1>8. \A d \in Emails : ~ Handling(d, "accepted")
  BY <1>1 DEF Handling
<1>9. Accounted' /\ SentDelivered'
  BY <1>1, <1>2, <1>8 DEF IInv, Accounted, SentDelivered
<1> QED
  BY <1>6, <1>7, <1>9 DEF IInv

LEMMA MarkLostStep ==
  ASSUME IInv, NEW e \in Emails, MarkLost(e)
  PROVE  IInv'
<1>1. /\ Handling(e, "accepted") \/ Handling(e, "failed")
      /\ Advance
      /\ doubtful' = [doubtful EXCEPT ![e] = @ \/ step = "accepted"]
      /\ UNCHANGED <<status, attempts, wait, earlier, delivered>>
  BY DEF MarkLost
<1>2. batch' \in Seq(Row) /\ step' \in {"idle", "send"}
  BY <1>1, AdvanceEffect
<1>3. doubtful' \in [Emails -> BOOLEAN]
  BY <1>1 DEF IInv, TypeOK
<1>4. TypeOK'
  BY <1>1, <1>2, <1>3 DEF IInv, TypeOK
<1>5. InFlight'
  BY <1>1, NextRow
<1>6. ASSUME NEW d \in Emails, ~ doubtful'[d]
      PROVE  ~ doubtful[d] /\ ~ Handling(d, "accepted")
  <2>1. CASE d = e
    <3>1. doubtful'[e] = (doubtful[e] \/ step = "accepted")
      BY <1>1 DEF IInv, TypeOK
    <3> QED
      BY <1>6, <2>1, <3>1 DEF Handling
  <2>2. CASE d # e
    BY <1>1, <1>6, <2>2 DEF IInv, TypeOK, Handling
  <2> QED
    BY <2>1, <2>2
<1>7. Accounted' /\ SentDelivered'
  BY <1>1, <1>2, <1>6 DEF IInv, Accounted, SentDelivered
<1> QED
  BY <1>4, <1>5, <1>7 DEF IInv

LEMMA CrashStep ==
  ASSUME IInv, Crash
  PROVE  IInv'
<1>1. /\ doubtful' = [e \in Emails |-> doubtful[e] \/ Handling(e, "accepted")]
      /\ batch' = <<>> /\ step' = "idle"
      /\ UNCHANGED <<status, attempts, wait, earlier, delivered>>
  BY DEF Crash
<1>2. \A e \in Emails : Handling(e, "accepted") \in BOOLEAN
  BY DEF Handling
<1>3. doubtful' \in [Emails -> BOOLEAN]
  BY <1>1, <1>2 DEF IInv, TypeOK
<1>4. batch' \in Seq(Row) /\ Len(batch') = 0
  BY <1>1
<1>5. TypeOK'
  BY <1>1, <1>3, <1>4 DEF IInv, TypeOK
<1>6. InFlight'
  BY <1>1, <1>4 DEF InFlight
<1>7. ASSUME NEW d \in Emails, ~ doubtful'[d]
      PROVE  ~ doubtful[d] /\ ~ Handling(d, "accepted")
  BY <1>1, <1>7
<1>8. Accounted' /\ SentDelivered'
  BY <1>1, <1>7 DEF IInv, Accounted, SentDelivered
<1> QED
  BY <1>5, <1>6, <1>8 DEF IInv

-----------------------------------------------------------------------------
(* The theorems.                                                           *)

LEMMA InitIInv == Init => IInv
<1> SUFFICES ASSUME Init PROVE IInv
  OBVIOUS
<1>1. batch \in Seq(Row) /\ Len(batch) = 0
  BY DEF Init
<1>2. TypeOK
  BY <1>1, AttemptsAssumption, WaitAssumption, CopiesAssumption DEF Init, TypeOK
<1>3. InFlight
  BY <1>1 DEF Init, InFlight
<1>4. Accounted /\ SentDelivered
  BY DEF Init, Accounted, SentDelivered
<1> QED
  BY <1>2, <1>3, <1>4 DEF IInv

LEMMA NextIInv == IInv /\ [Next]_vars => IInv'
<1> SUFFICES ASSUME IInv, [Next]_vars PROVE IInv'
  OBVIOUS
<1>1. CASE UNCHANGED vars
  BY <1>1 DEF vars, IInv, TypeOK, InFlight, Accounted, SentDelivered, Handling
<1>2. ASSUME NEW e \in Emails, Enqueue(e) PROVE IInv'
  BY <1>2, EnqueueStep
<1>3. CASE Tick
  BY <1>3, TickStep
<1>4. CASE Fetch
  BY <1>4, FetchStep
<1>5. ASSUME NEW e \in Emails, Handle(e) PROVE IInv'
  BY <1>5, SendStep, MarkSentStep, MarkFailedStep, MarkLostStep DEF Handle
<1>6. ASSUME NEW e \in Emails, SendStalls(e) PROVE IInv'
  BY <1>6, SendStallsStep
<1>7. CASE Crash
  BY <1>7, CrashStep
<1> QED
  BY <1>1, <1>2, <1>3, <1>4, <1>5, <1>6, <1>7 DEF Next

LEMMA Inductive == Spec => []IInv
BY InitIInv, NextIInv, PTL DEF Spec

\* Every value stays in its range, the dispatcher's batch included.
THEOREM TypeCorrect == Spec => []TypeOK
<1>1. IInv => TypeOK
  BY DEF IInv
<1> QED
  BY <1>1, Inductive, PTL

\* However the dispatcher crashes and the mail servers fail, a second copy
\* is sent only of a mail whose row could not be told of the first.
THEOREM OneCopy == Spec => []OneCopyUnlessDoubtful
<1>1. IInv => OneCopyUnlessDoubtful
  <2> SUFFICES ASSUME IInv, NEW e \in Emails, delivered[e] > 1 PROVE doubtful[e]
    BY DEF OneCopyUnlessDoubtful
  <2>1. delivered[e] \in Nat
    BY CopiesAssumption DEF IInv, TypeOK
  <2> QED
    BY <2>1 DEF IInv, Accounted
<1> QED
  BY <1>1, Inductive, PTL

\* The first states of the outbox are first states of Mail.
LEMMA InitMail == Init => AtLeastOnce!Init
BY DEF Init, AtLeastOnce!Init, Box

\* Every step of the outbox is a step of Mail or leaves it alone.
LEMMA StepMail ==
  IInv /\ IInv' /\ [Next]_vars => [AtLeastOnce!Next]_<<Box, delivered>>
<1> SUFFICES ASSUME IInv, [Next]_vars
             PROVE  [AtLeastOnce!Next]_<<Box, delivered>>
  OBVIOUS
<1>1. CASE UNCHANGED vars
  BY <1>1 DEF vars, Box
<1>2. ASSUME NEW e \in Emails, Enqueue(e) PROVE AtLeastOnce!Queue(e)
  BY <1>2 DEF Enqueue, AtLeastOnce!Queue, Box, IInv, TypeOK
<1>3. CASE Tick \/ Fetch \/ Crash
  BY <1>3 DEF Tick, Fetch, Crash, Box
<1>4. ASSUME NEW e \in Emails, SendAccepted(e) \/ SendUnacknowledged(e)
      PROVE  AtLeastOnce!Deliver(e)
  <2>1. Handling(e, "send") /\ Received(e) /\ status' = status
    BY <1>4 DEF SendAccepted, SendUnacknowledged
  <2>2. status[e] = "pending"
    BY <2>1, HeadRow
  <2> QED
    BY <2>1, <2>2 DEF AtLeastOnce!Deliver, Received, Box
<1>5. ASSUME NEW e \in Emails, SendRefused(e) \/ MarkFailed(e) \/ MarkLost(e)
      PROVE  UNCHANGED <<Box, delivered>>
  BY <1>5 DEF SendRefused, MarkFailed, MarkLost, Box
<1>6. ASSUME NEW e \in Emails, MarkSent(e) PROVE AtLeastOnce!Settle(e)
  <2>1. /\ Handling(e, "accepted") /\ delivered' = delivered
        /\ status' = [status EXCEPT ![e] = "sent"]
    BY <1>6 DEF MarkSent
  <2>2. status[e] = "pending" /\ delivered[e] > 0
    BY <2>1, HeadRow DEF IInv, Accounted, Handling
  <2> QED
    BY <2>1, <2>2 DEF AtLeastOnce!Settle, Box, IInv, TypeOK
<1>7. ASSUME NEW e \in Emails, SendStalls(e)
      PROVE  [AtLeastOnce!Next]_<<Box, delivered>>
  <2>1. Handling(e, "send") /\ status' = status
    BY <1>7 DEF SendStalls
  <2>2. status[e] = "pending"
    BY <2>1, HeadRow
  <2>3. CASE UNCHANGED delivered
    BY <2>1, <2>3 DEF Box
  <2>4. CASE Received(e)
    BY <2>1, <2>2, <2>4 DEF AtLeastOnce!Next, AtLeastOnce!Deliver, Received, Box
  <2> QED
    BY <1>7, <2>3, <2>4 DEF SendStalls
<1> QED
  BY <1>1, <1>2, <1>3, <1>4, <1>5, <1>6, <1>7
     DEF Next, Handle, Send, AtLeastOnce!Next

\* The outbox implements Mail: through every failure and crash a queued mail
\* is delivered at least once before it is settled, and never after that.
THEOREM Implements == Spec => ImplementsMail
BY InitMail, StepMail, Inductive, PTL
   DEF Spec, ImplementsMail, AtLeastOnce!Spec

Settled ==
  /\ Box \in [Emails -> {"none", "queued", "settled"}]
  /\ delivered \in [Emails -> Nat]
  /\ \A e \in Emails : /\ Box[e] = "settled" => delivered[e] > 0
                       /\ delivered[e] > 0 => Box[e] # "none"

\* Of any mail service that implements Mail: what is settled was delivered,
\* and what was delivered had been queued.
THEOREM MailPromise == AtLeastOnce!Spec => []Settled
<1>1. AtLeastOnce!Init => Settled
  BY DEF AtLeastOnce!Init, Settled
<1>2. Settled /\ [AtLeastOnce!Next]_<<Box, delivered>> => Settled'
  <2> SUFFICES ASSUME Settled, [AtLeastOnce!Next]_<<Box, delivered>>
               PROVE  Settled'
    OBVIOUS
  <2> HIDE DEF Box
  <2>1. CASE UNCHANGED <<Box, delivered>>
    BY <2>1 DEF Settled
  <2>2. ASSUME NEW e \in Emails, AtLeastOnce!Queue(e) PROVE Settled'
    BY <2>2 DEF Settled, AtLeastOnce!Queue
  <2>3. ASSUME NEW e \in Emails, AtLeastOnce!Deliver(e) PROVE Settled'
    BY <2>3, CopiesAssumption DEF Settled, AtLeastOnce!Deliver
  <2>4. ASSUME NEW e \in Emails, AtLeastOnce!Settle(e) PROVE Settled'
    BY <2>4 DEF Settled, AtLeastOnce!Settle
  <2> QED
    BY <2>1, <2>2, <2>3, <2>4 DEF AtLeastOnce!Next
<1> QED
  BY <1>1, <1>2, PTL DEF AtLeastOnce!Spec

=============================================================================
