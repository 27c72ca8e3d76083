---------------------------- MODULE FrontDoorProofs ----------------------------
(***************************************************************************)
(* Theorems of FrontDoor, for any clients, users, lifetimes and limit.     *)
(***************************************************************************)
EXTENDS FrontDoor, SequenceTheorems, TLAPS

-----------------------------------------------------------------------------
(* The inductive invariant.                                                *)

\* The role in a sign-in's claims is its user's, or was when it was made.
ClaimsOK(s) ==
  session[s] # None =>
    /\ session[s].since <= now
    /\ \/ role[session[s].user] = session[s].role
       \/ \E h \in held : /\ h.user = session[s].user
                          /\ h.role = session[s].role
                          /\ session[s].since <= h.until

\* What a request holds at each of its steps.
Slot(q) ==
  pc[q] # "idle" =>
    /\ job[q] \in Job
    /\ Claims(job[q].token) # None
    /\ late[q] => job[q].token \in out
    /\ pc[q] \in {"enter", "revoked"} => job[q].need = None
    /\ pc[q] \in {"enter", "revoked", "handler", "access"} => job[q].refresh = None
    /\ pc[q] = "refresh" => job[q].refresh # None
    /\ pc[q] # "enter" => admitted[q] < Expires(job[q].token)
    /\ pc[q] \in Inside =>
         /\ late[q] => blind[q]
         /\ job[q].need # None => job[q].need = Claims(job[q].token).role
    /\ pc[q] \in {"refresh", "answer"} => job[q].token \in revoked \cup unstored[q]
    /\ pc[q] = "answer" /\ job[q].refresh # None =>
         job[q].refresh \in revoked \cup unstored[q]

\* The last Limit - tokens requests took their token from the bucket as it
\* is; those before them passed more than a minute before it was last seen.
BucketOK(c) ==
  /\ visitors[c] # None => visitors[c].lastSeen <= now /\ visitors[c].tokens <= Limit
  /\ \A i \in 1..Len(passed[c]) :
       IF visitors[c] = None
         THEN now - passed[c][i] > Minute
         ELSE /\ passed[c][i] <= visitors[c].lastSeen
              /\ i <= Len(passed[c]) - (Limit - visitors[c].tokens) =>
                   visitors[c].lastSeen - passed[c][i] > Minute

\* The requests that took their token from the bucket as it is came no more
\* than a minute apart, and while it has tokens left the last of them is the
\* last one seen.
Steady(c) ==
  visitors[c] # None =>
    LET n == Len(passed[c])
        left == visitors[c].tokens
    IN /\ left >= 0
       /\ Limit - left <= n
       /\ left > 0 /\ left < Limit => passed[c][n] = visitors[c].lastSeen
       /\ \A i \in 1..(n - 1) : i > n - (Limit - left) =>
            passed[c][i + 1] - passed[c][i] <= Minute

Limited(c) ==
  \A i \in 1..Len(passed[c]) :
    i + Limit <= Len(passed[c]) => passed[c][i + Limit] - passed[c][i] > Minute

Buckets == \A c \in Clients : BucketOK(c) /\ Limited(c) /\ Steady(c)

IInv ==
  /\ TypeOK
  /\ \A s \in Sessions : ClaimsOK(s)
  /\ out \subseteq revoked
  /\ \A q \in Requests : Slot(q)
  /\ Buckets

-----------------------------------------------------------------------------
(* What steps leave alone.                                                 *)

LEMMA ExpiresInt ==
  ASSUME IInv, NEW t \in Token, Claims(t) # None
  PROVE  /\ Claims(t) \in Session /\ t[1] \in Sessions
         /\ Expires(t) \in Int
         /\ Expires(t) <= Claims(t).since + RefreshTTL
BY NumbersAssumption DEF IInv, TypeOK, Token, Claims, Expires, Session, Time

\* A slot the step does not serve keeps its part of the invariant.
LEMMA SlotStays ==
  ASSUME IInv, NEW q \in Requests,
         \A s \in Sessions : session[s] # None => session'[s] = session[s],
         revoked \subseteq revoked', out \subseteq out',
         pc'[q] = pc[q], job'[q] = job[q], admitted'[q] = admitted[q],
         late'[q] = late[q], blind'[q] = blind[q], unstored'[q] = unstored[q]
  PROVE  Slot(q)'
<1> SUFFICES ASSUME pc[q] # "idle" PROVE Slot(q)'
  BY DEF Slot
<1>1. Slot(q) /\ job[q] \in Job /\ job[q].token[1] \in Sessions
  BY DEF IInv, Slot, Job, Token
<1>2. /\ Claims(job[q].token)' = Claims(job[q].token)
      /\ Expires(job[q].token)' = Expires(job[q].token)
  BY <1>1 DEF Slot, Claims, Expires
<1> QED
  BY <1>1, <1>2 DEF Slot

LEMMA BucketsStay ==
  ASSUME IInv, UNCHANGED <<visitors, passed>>, now' \in Time, now <= now'
  PROVE  Buckets'
<1>1. now \in Int /\ now' \in Int /\ Minute \in Int
  BY NumbersAssumption DEF IInv, TypeOK, Time
<1>2. ASSUME NEW c \in Clients, visitors[c] = None
      PROVE  BucketOK(c)'
  <2>1. ASSUME NEW i \in 1..Len(passed[c]) PROVE now' - passed[c][i] > Minute
    <3>1. passed[c] \in Seq(Time)
      BY DEF IInv, TypeOK
    <3>2. passed[c][i] \in Time
      BY <3>1, ElementOfSeq
    <3>3. now - passed[c][i] > Minute
      BY <1>2 DEF IInv, Buckets, BucketOK
    <3> QED
      BY <1>1, <3>2, <3>3 DEF Time
  <2> QED
    BY <1>2, <2>1 DEF BucketOK
<1>3. ASSUME NEW c \in Clients, visitors[c] # None
      PROVE  BucketOK(c)'
  <2>1. visitors[c].lastSeen \in Int
    BY <1>3 DEF IInv, TypeOK, Visitor, Time
  <2>2. visitors[c].lastSeen <= now'
    BY <1>1, <1>3, <2>1 DEF IInv, Buckets, BucketOK
  <2> QED
    BY <1>3, <2>2 DEF IInv, Buckets, BucketOK
<1> QED
  BY <1>2, <1>3 DEF IInv, Buckets, Limited, Steady

\* A step that serves slot r, or ends it.
LEMMA RequestInv ==
  ASSUME IInv, NEW r \in Requests,
         UNCHANGED <<session, role, now, held>>,
         \A q \in Requests \ {r} :
           /\ pc'[q] = pc[q] /\ job'[q] = job[q] /\ admitted'[q] = admitted[q]
           /\ late'[q] = late[q] /\ blind'[q] = blind[q]
           /\ unstored'[q] = unstored[q],
         pc' \in [Requests -> Steps \cup {"idle"}],
         job' \in [Requests -> Job \cup {None}],
         admitted' \in [Requests -> Time],
         late' \in [Requests -> BOOLEAN],
         blind' \in [Requests -> BOOLEAN],
         unstored' \in [Requests -> SUBSET Token],
         visitors' \in [Clients -> Visitor \cup {None}],
         passed' \in [Clients -> Seq(Time)],
         issued' \in 0..MaxRequests,
         revoked' \subseteq Token, revoked \subseteq revoked',
         out \subseteq out', out' \subseteq revoked',
         Slot(r)', Buckets'
  PROVE  IInv'
<1>1. TypeOK'
  BY DEF IInv, TypeOK
<1>2. (\A s \in Sessions : ClaimsOK(s))'
  BY DEF IInv, ClaimsOK
<1>3. ASSUME NEW q \in Requests PROVE Slot(q)'
  <2>1. CASE q = r
    BY <2>1
  <2>2. CASE q # r
    BY <2>2, SlotStays
  <2> QED
    BY <2>1, <2>2
<1> QED
  BY <1>1, <1>2, <1>3 DEF IInv

\* A step that answers slot r.
LEMMA FinishInv ==
  ASSUME IInv, NEW r \in Requests, Finish(r),
         UNCHANGED <<session, role, revoked, now, held, issued>>,
         visitors' \in [Clients -> Visitor \cup {None}],
         passed' \in [Clients -> Seq(Time)],
         out \subseteq out', out' \subseteq revoked,
         Buckets'
  PROVE  IInv'
<1>1. /\ pc' \in [Requests -> Steps \cup {"idle"}] /\ pc'[r] = "idle"
      /\ job' \in [Requests -> Job \cup {None}]
      /\ admitted' \in [Requests -> Time]
      /\ late' \in [Requests -> BOOLEAN]
      /\ blind' \in [Requests -> BOOLEAN]
      /\ unstored' \in [Requests -> SUBSET Token]
      /\ \A q \in Requests \ {r} :
           /\ pc'[q] = pc[q] /\ job'[q] = job[q] /\ admitted'[q] = admitted[q]
           /\ late'[q] = late[q] /\ blind'[q] = blind[q]
           /\ unstored'[q] = unstored[q]
  BY NumbersAssumption DEF Finish, IInv, TypeOK, Time
<1>2. Slot(r)'
  BY <1>1 DEF Slot
<1>3. issued' \in 0..MaxRequests /\ revoked' \subseteq Token /\ revoked \subseteq revoked'
  BY DEF IInv, TypeOK
<1> QED
  BY <1>1, <1>2, <1>3, RequestInv

-----------------------------------------------------------------------------
(* The steps of a request.                                                 *)

LEMMA InitInv == Init => IInv
<1> SUFFICES ASSUME Init PROVE IInv
  OBVIOUS
<1> USE DEF Init
<1>1. TypeOK
  BY NumbersAssumption, EmptySeq DEF TypeOK, Time
<1>2. \A s \in Sessions : ClaimsOK(s)
  BY DEF ClaimsOK
<1>3. \A q \in Requests : Slot(q)
  BY DEF Slot
<1>4. \A c \in Clients : passed[c] = <<>> /\ Len(passed[c]) = 0
  BY EmptySeq
<1>5. Buckets
  BY <1>4 DEF Buckets, BucketOK, Limited, Steady
<1> QED
  BY <1>1, <1>2, <1>3, <1>5 DEF IInv

LEMMA AcceptInv ==
  ASSUME IInv, NEW r \in Requests, NEW j \in Job, Accept(r, j)
  PROVE  IInv'
<1> USE DEF Accept, At
<1>1. /\ pc' \in [Requests -> Steps \cup {"idle"}] /\ pc'[r] = "enter"
      /\ job' \in [Requests -> Job \cup {None}] /\ job'[r] = j
      /\ late' \in [Requests -> BOOLEAN] /\ late'[r] = (j.token \in out)
      /\ issued' \in 0..MaxRequests
      /\ \A q \in Requests \ {r} :
           pc'[q] = pc[q] /\ job'[q] = job[q] /\ late'[q] = late[q]
  BY NumbersAssumption DEF IInv, TypeOK, Steps
<1>2. Slot(r)'
  BY <1>1 DEF Slot, Claims, Inside
<1>3. Buckets'
  BY BucketsStay DEF IInv, TypeOK, Time
<1>4. /\ UNCHANGED <<session, role, now, held, out, revoked, admitted, blind,
                     unstored, visitors, passed>>
      /\ admitted \in [Requests -> Time] /\ blind \in [Requests -> BOOLEAN]
      /\ unstored \in [Requests -> SUBSET Token]
      /\ visitors \in [Clients -> Visitor \cup {None}]
      /\ passed \in [Clients -> Seq(Time)]
      /\ revoked \subseteq Token /\ out \subseteq revoked
  BY DEF IInv, TypeOK
<1> QED
  BY <1>1, <1>2, <1>3, <1>4, RequestInv

LEMMA FailInv ==
  ASSUME IInv, NEW r \in Requests, Fail(r) \/ Handle(r)
  PROVE  IInv'
<1>1. /\ Finish(r)
      /\ UNCHANGED <<session, role, revoked, visitors, now, out, held, passed, issued>>
  BY DEF Fail, Handle
<1>2. Buckets'
  BY <1>1, BucketsStay DEF IInv, TypeOK, Time
<1> QED
  BY <1>1, <1>2, FinishInv DEF IInv, TypeOK

\* A request that passes pushes every earlier one out of its minute, or
\* finds a token of the bucket left.
LEMMA PassKeeps ==
  ASSUME IInv, NEW c \in Clients, NEW b \in Visitor, b = Bucket(c),
         \/ /\ b.tokens <= 0
            /\ visitors' = [visitors EXCEPT ![c] = b]
            /\ UNCHANGED passed
         \/ /\ b.tokens > 0
            /\ visitors' = [visitors EXCEPT ![c] = [b EXCEPT !.tokens = @ - 1]]
            /\ passed' = [passed EXCEPT ![c] = Append(@, now)],
         now' = now
  PROVE  /\ visitors' \in [Clients -> Visitor \cup {None}]
         /\ passed' \in [Clients -> Seq(Time)]
         /\ Buckets'
<1>1. /\ visitors \in [Clients -> Visitor \cup {None}]
      /\ passed \in [Clients -> Seq(Time)]
      /\ now \in Time /\ now \in Int /\ Minute \in Nat /\ Limit \in Nat
  BY NumbersAssumption DEF IInv, TypeOK, Time
<1>2. b.tokens \in Int /\ b.lastSeen = now /\ b.tokens <= Limit
  BY <1>1, NoneAssumption DEF Bucket, Visitor, IInv, Buckets, BucketOK
<1>3. PICK n \in Nat : n = Len(passed[c])
  BY <1>1, LenProperties
<1>4. \A i \in 1..n : passed[c][i] \in Int
  <2>1. ASSUME NEW i \in 1..n PROVE passed[c][i] \in Time
    BY <1>1, <1>3, ElementOfSeq
  <2> QED
    BY <2>1 DEF Time
<1>5. \A i \in 1..n : /\ passed[c][i] <= now
                      /\ i <= n - (Limit - b.tokens) => now - passed[c][i] > Minute
  <2> SUFFICES ASSUME NEW i \in 1..n
               PROVE  /\ passed[c][i] <= now
                      /\ i <= n - (Limit - b.tokens) => now - passed[c][i] > Minute
    OBVIOUS
  <2>1. CASE visitors[c] = None
    BY <2>1, <1>1, <1>3, <1>4 DEF IInv, Buckets, BucketOK
  <2>2. CASE visitors[c] # None
    <3>1. /\ visitors[c] \in Visitor /\ visitors[c].lastSeen \in Int
          /\ visitors[c].tokens \in Int
      BY <2>2, <1>1 DEF Visitor, Time
    <3>2. /\ passed[c][i] <= visitors[c].lastSeen
          /\ i <= n - (Limit - visitors[c].tokens) =>
               visitors[c].lastSeen - passed[c][i] > Minute
      BY <2>2, <1>3 DEF IInv, Buckets, BucketOK
    <3>3. \/ now - visitors[c].lastSeen > Minute
          \/ now - visitors[c].lastSeen <= Minute /\ b.tokens = visitors[c].tokens
      BY <2>2, <3>1, <1>1 DEF Bucket, Visitor
    <3>4. visitors[c].lastSeen <= now
      BY <2>2 DEF IInv, Buckets, BucketOK
    <3>5. PICK p \in Int, t \in Int : p = passed[c][i] /\ t = visitors[c].lastSeen
      BY <3>1, <1>4
    <3>6. p <= t /\ t <= now
      BY <3>2, <3>4, <3>5
    <3>7. ASSUME i <= n - (Limit - b.tokens) PROVE now - p > Minute
      <4>1. CASE now - t > Minute
        BY <4>1, <3>6, <1>1
      <4>2. CASE b.tokens = visitors[c].tokens
        <5>1. t - p > Minute
          BY <4>2, <3>2, <3>5, <3>7
        <5> QED
          BY <5>1, <3>6, <1>1
      <4> QED
        BY <4>1, <4>2, <3>3, <3>5
    <3> QED
      BY <3>5, <3>6, <3>7, <1>1
  <2> QED
    BY <2>1, <2>2
<1>6. \A d \in Clients \ {c} : visitors'[d] = visitors[d] /\ passed'[d] = passed[d]
  BY <1>1
<1>7. \A d \in Clients \ {c} : BucketOK(d)' /\ Limited(d)' /\ Steady(d)'
  BY <1>6 DEF IInv, Buckets, BucketOK, Limited, Steady
<1>7a. /\ 0 <= b.tokens /\ Limit - b.tokens <= n
       /\ b.tokens > 0 /\ b.tokens < Limit => now - passed[c][n] <= Minute
       /\ \A i \in 1..(n - 1) : i > n - (Limit - b.tokens) =>
            passed[c][i + 1] - passed[c][i] <= Minute
  <2>1. CASE visitors[c] = None \/ now - visitors[c].lastSeen > Minute
    <3>1. b.tokens = Limit
      BY <2>1 DEF Bucket
    <3> QED
      BY <3>1, <1>1, <1>3
  <2>2. CASE visitors[c] # None /\ ~ (now - visitors[c].lastSeen > Minute)
    <3>1. visitors[c] \in Visitor /\ visitors[c].lastSeen \in Int
      BY <2>2, <1>1 DEF Visitor, Time
    <3>2. b.tokens = visitors[c].tokens
      BY <2>2, <3>1 DEF Bucket, Visitor
    <3>3. Steady(c)
      BY DEF IInv, Buckets
    <3>4. b.tokens > 0 /\ b.tokens < Limit => passed[c][n] = visitors[c].lastSeen
      BY <2>2, <3>2, <3>3, <1>3 DEF Steady
    <3>5. now - visitors[c].lastSeen <= Minute
      BY <2>2, <3>1, <1>1
    <3>6. /\ 0 <= b.tokens /\ Limit - b.tokens <= n
          /\ \A i \in 1..(n - 1) : i > n - (Limit - b.tokens) =>
               passed[c][i + 1] - passed[c][i] <= Minute
      BY <2>2, <3>2, <3>3, <1>3 DEF Steady
    <3> QED
      BY <3>4, <3>5, <3>6
  <2> QED
    BY <2>1, <2>2
<1>8. CASE b.tokens <= 0 /\ visitors' = [visitors EXCEPT ![c] = b] /\ UNCHANGED passed
  <2>1. visitors'[c] = b /\ b # None
    BY <1>1, <1>8, NoneAssumption
  <2>2. BucketOK(c)'
    BY <1>1, <1>2, <1>3, <1>5, <1>8, <2>1 DEF BucketOK
  <2>3. Limited(c)'
    BY <1>8 DEF IInv, Buckets, Limited
  <2>4. Steady(c)'
    BY <1>1, <1>2, <1>3, <1>7a, <1>8, <2>1 DEF Steady
  <2> QED
    BY <1>1, <1>7, <1>8, <2>2, <2>3, <2>4 DEF Buckets
<1>9. CASE /\ b.tokens > 0
           /\ visitors' = [visitors EXCEPT ![c] = [b EXCEPT !.tokens = @ - 1]]
           /\ passed' = [passed EXCEPT ![c] = Append(@, now)]
  <2> DEFINE v == [b EXCEPT !.tokens = @ - 1]
  <2>1. v \in Visitor /\ v.tokens = b.tokens - 1 /\ v.lastSeen = now /\ v # None
    BY <1>2, NoneAssumption DEF Visitor
  <2>1a. v.tokens \in Int /\ v.tokens <= Limit
    BY <1>1, <1>2, <2>1
  <2>2. visitors'[c] = v /\ visitors' \in [Clients -> Visitor \cup {None}]
    BY <1>1, <1>9, <2>1
  <2> HIDE DEF v
  <2>3. passed'[c] = Append(passed[c], now)
    BY <1>1, <1>9
  <2>4. /\ passed'[c] \in Seq(Time) /\ Len(passed'[c]) = n + 1
        /\ \A i \in 1..n : passed'[c][i] = passed[c][i]
        /\ passed'[c][n + 1] = now
    BY <1>1, <1>3, <2>3, AppendProperties
  <2>5. passed' \in [Clients -> Seq(Time)]
    BY <1>1, <1>9, <2>3, <2>4
  <2>6. ASSUME NEW i \in 1..(n + 1)
        PROVE  /\ passed'[c][i] <= now
               /\ i <= n + 1 - (Limit - v.tokens) => now - passed'[c][i] > Minute
    <3>1. CASE i \in 1..n
      BY <3>1, <1>1, <1>2, <1>3, <1>5, <2>1, <2>4
    <3>2. CASE i = n + 1
      BY <3>2, <1>1, <1>2, <1>3, <2>1, <2>4
    <3> QED
      BY <3>1, <3>2, <1>3
  <2>7. BucketOK(c)'
    BY <1>1, <1>3, <2>1, <2>1a, <2>2, <2>4, <2>6 DEF BucketOK
  <2>8. ASSUME NEW i \in 1..(n + 1), i + Limit <= n + 1
        PROVE  passed'[c][i + Limit] - passed'[c][i] > Minute
    <3>1. CASE i + Limit <= n
      <4>1. i \in 1..n /\ i + Limit \in 1..n
        BY <3>1, <1>1, <1>3
      <4>2. passed[c][i + Limit] - passed[c][i] > Minute
        BY <3>1, <4>1, <1>3 DEF IInv, Buckets, Limited
      <4> QED
        BY <4>1, <4>2, <2>4
    <3>2. CASE i + Limit = n + 1
      <4>1. i \in 1..n /\ i <= n - (Limit - b.tokens)
        BY <3>2, <1>1, <1>2, <1>3, <1>9
      <4> QED
        BY <3>2, <4>1, <1>5, <2>4
    <3> QED
      BY <2>8, <3>1, <3>2, <1>1, <1>3
  <2>9. Limited(c)'
    BY <2>4, <2>8 DEF Limited
  <2>10. ASSUME NEW i \in 1..n, i > n + 1 - (Limit - v.tokens)
         PROVE  passed'[c][i + 1] - passed'[c][i] <= Minute
    <3>1. CASE i \in 1..(n - 1)
      <4>1. n + 1 - (Limit - v.tokens) = n - (Limit - b.tokens)
        <5>1. b.tokens \in Int /\ Limit \in Int /\ n \in Int
          BY <1>1, <1>2, <1>3
        <5>2. v.tokens = b.tokens - 1
          BY <2>1
        <5> QED
          BY <5>1, <5>2
      <4>2. i > n - (Limit - b.tokens)
        BY <2>10, <4>1
      <4>3. i + 1 \in 1..n
        BY <3>1, <1>3
      <4> QED
        BY <3>1, <4>2, <4>3, <1>7a, <2>4, <1>3
    <3>2. CASE i = n
      <4>1. b.tokens < Limit
        BY <2>10, <3>2, <2>1, <1>1, <1>2, <1>3
      <4> QED
        BY <3>2, <4>1, <1>7a, <1>9, <2>4, <1>3
    <3> QED
      BY <3>1, <3>2, <1>3
  <2>11. /\ v.tokens >= 0 /\ Limit - v.tokens <= n + 1
    BY <1>1, <1>2, <1>3, <1>7a, <1>9, <2>1
  <2>12. Steady(c)'
    <3>1. \A i \in 1..((n + 1) - 1) : i > n + 1 - (Limit - v.tokens) =>
            passed'[c][i + 1] - passed'[c][i] <= Minute
      BY <2>10
    <3>2. passed'[c][n + 1] = visitors'[c].lastSeen
      BY <2>1, <2>2, <2>4
    <3>3. PICK t \in Int : t = v.tokens /\ t = visitors'[c].tokens
      BY <2>1a, <2>2
    <3>4. PICK m \in Int : m = n + 1 /\ m = Len(passed'[c])
      BY <2>4
    <3>5. /\ t >= 0 /\ Limit - t <= m
          /\ passed'[c][m] = visitors'[c].lastSeen
          /\ \A i \in 1..(m - 1) : i > m - (Limit - t) =>
               passed'[c][i + 1] - passed'[c][i] <= Minute
      BY <1>1, <1>3, <2>11, <3>1, <3>2, <3>3, <3>4
    <3> QED
      BY <3>3, <3>4, <3>5 DEF Steady
  <2> QED
    BY <1>7, <2>2, <2>5, <2>7, <2>9, <2>12 DEF Buckets
<1> QED
  BY <1>8, <1>9

LEMMA EnterInv ==
  ASSUME IInv, NEW r \in Requests, Enter(r)
  PROVE  IInv'
<1> DEFINE c == job[r].client
           b == Bucket(c)
<1>1. /\ pc[r] = "enter" /\ Slot(r) /\ job[r] \in Job /\ c \in Clients
      /\ job[r].token \in Token
  BY DEF Enter, At, IInv, Slot, Job
<1>2. b \in Visitor
  <2>1. visitors[c] \in Visitor \cup {None} /\ now \in Time /\ Limit \in Int
    BY <1>1, NumbersAssumption DEF IInv, TypeOK
  <2>2. CASE visitors[c] = None \/ now - visitors[c].lastSeen > Minute
    BY <2>1, <2>2 DEF Bucket, Visitor
  <2>3. CASE ~ (visitors[c] = None \/ now - visitors[c].lastSeen > Minute)
    BY <2>1, <2>3 DEF Bucket, Visitor
  <2> QED
    BY <2>2, <2>3
<1>3. /\ \/ /\ b.tokens <= 0
            /\ visitors' = [visitors EXCEPT ![c] = b]
            /\ Finish(r)
            /\ UNCHANGED passed
         \/ /\ b.tokens > 0
            /\ visitors' = [visitors EXCEPT ![c] = [b EXCEPT !.tokens = @ - 1]]
            /\ passed' = [passed EXCEPT ![c] = Append(@, now)]
            /\ \/ /\ Alive(job[r].token)
                  /\ pc' = [pc EXCEPT ![r] = "revoked"]
                  /\ admitted' = [admitted EXCEPT ![r] = now]
                  /\ UNCHANGED <<job, late, blind, unstored>>
               \/ ~ Alive(job[r].token) /\ Finish(r)
      /\ UNCHANGED <<session, role, revoked, now, out, held, issued>>
  BY DEF Enter
<1>4. b = Bucket(job[r].client)
  OBVIOUS
<1> HIDE DEF b
<1>5. /\ visitors' \in [Clients -> Visitor \cup {None}]
      /\ passed' \in [Clients -> Seq(Time)]
      /\ Buckets'
  BY <1>1, <1>2, <1>3, <1>4, PassKeeps
<1>6. out \subseteq revoked /\ revoked \subseteq Token
  BY DEF IInv, TypeOK
<1>7. CASE Finish(r)
  BY <1>3, <1>5, <1>6, <1>7, FinishInv
<1>8. CASE /\ Alive(job[r].token)
           /\ pc' = [pc EXCEPT ![r] = "revoked"]
           /\ admitted' = [admitted EXCEPT ![r] = now]
           /\ UNCHANGED <<job, late, blind, unstored>>
  <2>1. /\ pc' \in [Requests -> Steps \cup {"idle"}] /\ pc'[r] = "revoked"
        /\ admitted' \in [Requests -> Time] /\ admitted'[r] = now
        /\ job \in [Requests -> Job \cup {None}]
        /\ late \in [Requests -> BOOLEAN] /\ blind \in [Requests -> BOOLEAN]
        /\ unstored \in [Requests -> SUBSET Token]
        /\ issued \in 0..MaxRequests
        /\ \A q \in Requests \ {r} : pc'[q] = pc[q] /\ admitted'[q] = admitted[q]
    BY <1>8 DEF IInv, TypeOK, Steps
  <2>2. /\ Claims(job[r].token)' = Claims(job[r].token)
        /\ Expires(job[r].token)' = Expires(job[r].token)
        /\ now < Expires(job[r].token)
    BY <1>3, <1>8 DEF Claims, Expires, Alive
  <2>3. Slot(r)'
    BY <1>1, <1>3, <1>8, <2>1, <2>2 DEF Slot, Inside
  <2> QED
    BY <1>3, <1>5, <1>6, <1>8, <2>1, <2>3, RequestInv
<1> QED
  BY <1>3, <1>7, <1>8

\* A step past the middlewares that changes no bucket.
LEMMA InsideInv ==
  ASSUME IInv, NEW r \in Requests,
         UNCHANGED <<session, role, now, visitors, out, held, passed, issued>>,
         revoked \subseteq revoked', revoked' \subseteq Token,
         NEW step \in Steps, pc' = [pc EXCEPT ![r] = step],
         NEW j \in Job, job' = [job EXCEPT ![r] = j],
         NEW failed \in BOOLEAN, blind' = [blind EXCEPT ![r] = failed],
         NEW T \in SUBSET Token, unstored' = [unstored EXCEPT ![r] = T],
         UNCHANGED <<admitted, late>>,
         Slot(r)'
  PROVE  IInv'
<1>1. /\ pc' \in [Requests -> Steps \cup {"idle"}]
      /\ job' \in [Requests -> Job \cup {None}]
      /\ blind' \in [Requests -> BOOLEAN]
      /\ unstored' \in [Requests -> SUBSET Token]
      /\ \A q \in Requests \ {r} :
           /\ pc'[q] = pc[q] /\ job'[q] = job[q]
           /\ blind'[q] = blind[q] /\ unstored'[q] = unstored[q]
  BY DEF IInv, TypeOK
<1>2. Buckets'
  BY BucketsStay DEF IInv, TypeOK, Time
<1>3. /\ admitted' \in [Requests -> Time] /\ late' \in [Requests -> BOOLEAN]
      /\ visitors' \in [Clients -> Visitor \cup {None}]
      /\ passed' \in [Clients -> Seq(Time)]
      /\ issued' \in 0..MaxRequests
      /\ out \subseteq out' /\ out' \subseteq revoked'
  BY DEF IInv, TypeOK
<1> QED
  BY <1>1, <1>2, <1>3, RequestInv

LEMMA IsRevokedInv ==
  ASSUME IInv, NEW r \in Requests, IsRevoked(r)
  PROVE  IInv'
<1>1. /\ pc[r] = "revoked" /\ Slot(r) /\ job[r] \in Job
      /\ job[r].token \in Token /\ unstored[r] \in SUBSET Token
  BY DEF IsRevoked, At, IInv, TypeOK, Slot, Job
<1>2. UNCHANGED <<session, role, revoked, visitors, now, out, held, passed, issued>>
  BY DEF IsRevoked
<1>3. CASE Finish(r)
  <2>1. Buckets'
    BY <1>2, BucketsStay DEF IInv, TypeOK, Time
  <2> QED
    BY <1>2, <1>3, <2>1, FinishInv DEF IInv, TypeOK
<1>4. ASSUME NEW failed \in BOOLEAN, GoIn(r, failed), ~ Finish(r),
             failed \/ job[r].token \notin revoked
      PROVE  IInv'
  <2>1. late[r] => failed
    BY <1>1, <1>4 DEF IInv, Slot
  <2>3. CASE /\ blind' = [blind EXCEPT ![r] = failed]
             /\ Goto(r, "access") /\ UNCHANGED unstored
    <3>1. /\ pc' = [pc EXCEPT ![r] = "access"] /\ "access" \in Steps
          /\ pc'[r] = "access" /\ blind'[r] = failed
          /\ UNCHANGED <<job, admitted, late>>
          /\ job' = [job EXCEPT ![r] = job[r]]
          /\ unstored' = [unstored EXCEPT ![r] = unstored[r]]
      BY <2>3 DEF Goto, Steps, Inside, IInv, TypeOK
    <3>2. Slot(r)'
      BY <1>1, <1>2, <2>1, <2>3, <3>1 DEF Slot, Inside, Claims, Expires
    <3> QED
      BY <1>1, <1>2, <2>3, <3>1, <3>2, InsideInv DEF IInv, TypeOK
  <2>4. ASSUME NEW need \in Roles, RoleOk(job[r].token, need),
               pc' = [pc EXCEPT ![r] = "handler"],
               job' = [job EXCEPT ![r].need = need],
               blind' = [blind EXCEPT ![r] = failed],
               UNCHANGED <<admitted, late, unstored>>
        PROVE  IInv'
    <3> DEFINE j == [job[r] EXCEPT !.need = need]
    <3>1. /\ j \in Job /\ j.token = job[r].token /\ j.refresh = job[r].refresh
          /\ j.need = need
      BY <1>1 DEF Job
    <3>2. /\ job' = [job EXCEPT ![r] = j] /\ job'[r] = j
          /\ pc'[r] = "handler" /\ "handler" \in Steps /\ blind'[r] = failed
          /\ unstored' = [unstored EXCEPT ![r] = unstored[r]]
      BY <2>4 DEF IInv, TypeOK, Steps, Inside
    <3> HIDE DEF j
    <3>3. need = Claims(job[r].token).role
      BY <2>4 DEF RoleOk
    <3>4. Slot(r)'
      BY <1>1, <1>2, <2>1, <2>4, <3>1, <3>2, <3>3 DEF Slot, Inside, Claims, Expires
    <3> QED
      BY <1>1, <1>2, <2>4, <3>1, <3>2, <3>4, InsideInv DEF IInv, TypeOK
  <2> QED
    BY <1>4, <2>3, <2>4 DEF GoIn
<1> QED
  BY <1>3, <1>4 DEF IsRevoked

\* A logout's Revoke: the token is in the table or is known not to be.
LEMMA RevokeDoes ==
  ASSUME IInv, NEW r \in Requests, NEW t \in Token, Revoke(r, t)
  PROVE  /\ revoked \subseteq revoked' /\ revoked' \subseteq Token
         /\ unstored' = [unstored EXCEPT ![r] = unstored'[r]]
         /\ unstored'[r] \in SUBSET Token /\ unstored[r] \subseteq unstored'[r]
         /\ t \in revoked' \cup unstored'[r]
BY DEF Revoke, IInv, TypeOK

LEMMA RevokeAccessInv ==
  ASSUME IInv, NEW r \in Requests, RevokeAccess(r)
  PROVE  IInv'
<1>1. /\ pc[r] = "access" /\ Slot(r) /\ job[r] \in Job
      /\ job[r].token \in Token /\ Revoke(r, job[r].token)
      /\ UNCHANGED <<session, role, visitors, now, blind, out, held, passed, issued>>
  BY DEF RevokeAccess, At, IInv, TypeOK, Slot, Job
<1>2. /\ revoked \subseteq revoked' /\ revoked' \subseteq Token
      /\ unstored' = [unstored EXCEPT ![r] = unstored'[r]]
      /\ unstored'[r] \in SUBSET Token
      /\ job[r].token \in revoked' \cup unstored'[r]
  BY <1>1, RevokeDoes
<1>4. /\ blind' = [blind EXCEPT ![r] = blind[r]] /\ blind[r] \in BOOLEAN
      /\ "answer" \in Steps /\ "refresh" \in Steps
  BY <1>1 DEF IInv, TypeOK, Steps, Inside
<1>5. CASE Goto(r, "answer")
  <2>1. /\ pc' = [pc EXCEPT ![r] = "answer"] /\ pc'[r] = "answer"
        /\ job' = [job EXCEPT ![r] = job[r]]
        /\ UNCHANGED <<job, admitted, late>>
    BY <1>5 DEF Goto, IInv, TypeOK
  <2>2. Slot(r)'
    BY <1>1, <1>2, <2>1 DEF Slot, Inside, Claims, Expires
  <2> QED
    BY <1>1, <1>2, <1>4, <2>1, <2>2, InsideInv
<1>6. ASSUME NEW s \in Sessions,
             pc' = [pc EXCEPT ![r] = "refresh"],
             job' = [job EXCEPT ![r].refresh = <<s, "refresh">>],
             UNCHANGED <<admitted, late>>
      PROVE  IInv'
  <2> DEFINE t == <<s, "refresh">>
             j == [job[r] EXCEPT !.refresh = t]
  <2>1. t \in Token /\ t # None
    BY NoneAssumption DEF Token
  <2>2. /\ j \in Job /\ j.token = job[r].token /\ j.refresh = t
        /\ j.need = job[r].need
    BY <1>1, <2>1 DEF Job
  <2>3. /\ job' = [job EXCEPT ![r] = j] /\ job'[r] = j /\ pc'[r] = "refresh"
    BY <1>6 DEF IInv, TypeOK
  <2> HIDE DEF j
  <2>4. Slot(r)'
    BY <1>1, <1>2, <1>6, <2>1, <2>2, <2>3 DEF Slot, Inside, Claims, Expires
  <2> QED
    BY <1>1, <1>2, <1>4, <1>6, <2>2, <2>3, <2>4, InsideInv
<1> QED
  BY <1>5, <1>6 DEF RevokeAccess

LEMMA RevokeRefreshInv ==
  ASSUME IInv, NEW r \in Requests, RevokeRefresh(r)
  PROVE  IInv'
<1>1. /\ pc[r] = "refresh" /\ Slot(r) /\ job[r] \in Job
      /\ job[r].refresh \in Token /\ Revoke(r, job[r].refresh)
      /\ Goto(r, "answer")
      /\ UNCHANGED <<session, role, visitors, now, blind, out, held, passed, issued>>
  BY DEF RevokeRefresh, At, IInv, TypeOK, Slot, Job
<1>2. /\ revoked \subseteq revoked' /\ revoked' \subseteq Token
      /\ unstored' = [unstored EXCEPT ![r] = unstored'[r]]
      /\ unstored'[r] \in SUBSET Token /\ unstored[r] \subseteq unstored'[r]
      /\ job[r].refresh \in revoked' \cup unstored'[r]
  BY <1>1, RevokeDoes
<1>4. /\ blind' = [blind EXCEPT ![r] = blind[r]] /\ blind[r] \in BOOLEAN
      /\ "answer" \in Steps
      /\ pc' = [pc EXCEPT ![r] = "answer"] /\ pc'[r] = "answer"
      /\ job' = [job EXCEPT ![r] = job[r]]
      /\ UNCHANGED <<job, admitted, late>>
  BY <1>1 DEF IInv, TypeOK, Steps, Inside, Goto
<1>5. Slot(r)'
  BY <1>1, <1>2, <1>4 DEF Slot, Inside, Claims, Expires
<1> QED
  BY <1>1, <1>2, <1>4, <1>5, InsideInv

LEMMA AnswerLogoutInv ==
  ASSUME IInv, NEW r \in Requests, AnswerLogout(r)
  PROVE  IInv'
<1>1. /\ Slot(r) /\ pc[r] = "answer"
      /\ out' = out \cup (Carried(job[r]) \ unstored[r])
      /\ Finish(r)
      /\ UNCHANGED <<session, role, revoked, visitors, now, held, passed, issued>>
  BY DEF AnswerLogout, At, IInv
<1>2. Carried(job[r]) \ unstored[r] \subseteq revoked
  BY <1>1 DEF Slot, Carried
<1>3. Buckets'
  BY <1>1, BucketsStay DEF IInv, TypeOK, Time
<1> QED
  BY <1>1, <1>2, <1>3, FinishInv DEF IInv, TypeOK

-----------------------------------------------------------------------------
(* Sign-ins, roles, the clock, the limiter's sweep and the server's stop.  *)

LEMMA SignInInv ==
  ASSUME IInv, NEW s \in Sessions, NEW u \in Users, SignIn(s, u)
  PROVE  IInv'
<1> USE DEF SignIn, local
<1> DEFINE claims == [user |-> u, role |-> role[u], since |-> now]
<1>1. /\ claims \in Session /\ claims.user = u /\ claims.role = role[u]
      /\ claims.since = now
  BY DEF Session, IInv, TypeOK
<1>2. /\ session' \in [Sessions -> Session \cup {None}] /\ session'[s] = claims
      /\ session[s] = None
      /\ \A x \in Sessions \ {s} : session'[x] = session[x]
  BY <1>1 DEF IInv, TypeOK
<1> HIDE DEF claims
<1>3. TypeOK'
  BY <1>2 DEF IInv, TypeOK
<1>4. ASSUME NEW x \in Sessions PROVE ClaimsOK(x)'
  <2>1. CASE x = s
    BY <2>1, <1>1, <1>2 DEF ClaimsOK, IInv, TypeOK, Time
  <2>2. CASE x # s
    BY <2>2, <1>2 DEF ClaimsOK, IInv
  <2> QED
    BY <2>1, <2>2
<1>5. ASSUME NEW q \in Requests PROVE Slot(q)'
  <2>1. \A x \in Sessions : session[x] # None => session'[x] = session[x]
    BY <1>2
  <2> QED
    BY <2>1, SlotStays
<1>6. Buckets'
  BY BucketsStay DEF IInv, TypeOK, Time
<1>7. out' \subseteq revoked'
  BY DEF IInv
<1> QED
  BY <1>3, <1>4, <1>5, <1>6, <1>7 DEF IInv

LEMMA SetRoleInv ==
  ASSUME IInv, NEW u \in Users, NEW x \in Roles, SetRole(u, x)
  PROVE  IInv'
<1> USE DEF SetRole, local
<1> DEFINE h == [user |-> u, role |-> role[u], until |-> now]
<1>1. /\ h \in [user: Users, role: Roles, until: Time]
      /\ h.user = u /\ h.role = role[u] /\ h.until = now
  BY DEF IInv, TypeOK
<1>2. /\ held' = held \cup {h}
      /\ role' \in [Users -> Roles] /\ \A v \in Users \ {u} : role'[v] = role[v]
  BY DEF IInv, TypeOK
<1> HIDE DEF h
<1>3. TypeOK'
  BY <1>1, <1>2 DEF IInv, TypeOK
<1>4. ASSUME NEW s \in Sessions PROVE ClaimsOK(s)'
  <2>1. CASE session[s] # None /\ session[s].user = u /\ session[s].role = role[u]
    BY <2>1, <1>1, <1>2 DEF ClaimsOK, IInv
  <2>2. CASE session[s] # None /\ session[s].user = u /\ session[s].role # role[u]
    BY <2>2, <1>2 DEF ClaimsOK, IInv
  <2>3. CASE session[s] # None /\ session[s].user # u
    <3>1. session[s].user \in Users
      BY <2>3 DEF IInv, TypeOK, Session
    <3> QED
      BY <2>3, <3>1, <1>2 DEF ClaimsOK, IInv
  <2>4. CASE session[s] = None
    BY <2>4 DEF ClaimsOK
  <2> QED
    BY <2>1, <2>2, <2>3, <2>4
<1>5. ASSUME NEW q \in Requests PROVE Slot(q)'
  BY SlotStays
<1>6. Buckets'
  BY BucketsStay DEF IInv, TypeOK, Time
<1>7. out' \subseteq revoked'
  BY DEF IInv
<1> QED
  BY <1>3, <1>4, <1>5, <1>6, <1>7 DEF IInv

LEMMA CrashInv ==
  ASSUME IInv, Crash
  PROVE  IInv'
<1> USE DEF Crash
<1>1. TypeOK'
  BY NumbersAssumption, EmptySeq DEF IInv, TypeOK, Time
<1>2. (\A s \in Sessions : ClaimsOK(s))' /\ (out \subseteq revoked)'
  BY DEF IInv, ClaimsOK
<1>3. (\A q \in Requests : Slot(q))'
  BY DEF Slot
<1>4. Buckets'
  <2>1. \A c \in Clients : Len(passed'[c]) = 0 /\ visitors'[c] = None
    BY EmptySeq
  <2> QED
    BY <2>1 DEF Buckets, BucketOK, Limited, Steady
<1> QED
  BY <1>1, <1>2, <1>3, <1>4 DEF IInv

LEMMA TickInv ==
  ASSUME IInv, Tick
  PROVE  IInv'
<1> USE DEF Tick, local
<1>1. now \in Int /\ now' \in Time /\ now' = now + 1
  BY NumbersAssumption DEF IInv, TypeOK, Time
<1>2. TypeOK'
  BY <1>1 DEF IInv, TypeOK
<1>3. ASSUME NEW s \in Sessions PROVE ClaimsOK(s)'
  <2>1. session[s] # None => session[s].since \in Int
    BY DEF IInv, TypeOK, Session, Time
  <2>2. ClaimsOK(s)
    BY DEF IInv
  <2> QED
    BY <1>1, <2>1, <2>2 DEF ClaimsOK
<1>4. ASSUME NEW q \in Requests PROVE Slot(q)'
  BY SlotStays
<1>5. Buckets'
  BY <1>1, BucketsStay
<1>6. out' \subseteq revoked'
  BY DEF IInv
<1> QED
  BY <1>2, <1>3, <1>4, <1>5, <1>6 DEF IInv

LEMMA SweepInv ==
  ASSUME IInv, Sweep
  PROVE  IInv'
<1> USE DEF Sweep, local
<1>1. visitors' \in [Clients -> Visitor \cup {None}]
  BY DEF IInv, TypeOK
<1>2. TypeOK'
  BY <1>1 DEF IInv, TypeOK
<1>3. (\A s \in Sessions : ClaimsOK(s))' /\ (out \subseteq revoked)'
  BY DEF IInv, ClaimsOK
<1>4. ASSUME NEW q \in Requests PROVE Slot(q)'
  BY SlotStays
<1>5. ASSUME NEW c \in Clients PROVE BucketOK(c)' /\ Limited(c)' /\ Steady(c)'
  <2>1. BucketOK(c) /\ Limited(c) /\ Steady(c)
    BY DEF IInv, Buckets
  <2>2. CASE visitors'[c] = visitors[c]
    BY <2>1, <2>2 DEF BucketOK, Limited, Steady
  <2>3. CASE /\ visitors[c] # None /\ visitors'[c] = None
             /\ now - visitors[c].lastSeen > 3 * Minute
    <3>1. visitors[c].lastSeen \in Int /\ now \in Int /\ Minute \in Nat
      BY <2>3, NumbersAssumption DEF IInv, TypeOK, Visitor, Time
    <3>2. ASSUME NEW i \in 1..Len(passed[c])
          PROVE  now - passed[c][i] > Minute
      <4>1. passed[c] \in Seq(Time)
        BY DEF IInv, TypeOK
      <4>2. passed[c][i] \in Time
        BY <4>1, ElementOfSeq
      <4>3. PICK p \in Int : p = passed[c][i]
        BY <4>2 DEF Time
      <4>4. p <= visitors[c].lastSeen
        BY <2>1, <2>3, <4>3 DEF BucketOK
      <4> QED
        BY <2>3, <3>1, <4>3, <4>4
    <3> QED
      BY <2>1, <2>3, <3>2 DEF BucketOK, Limited, Steady
  <2> QED
    BY <2>2, <2>3
<1>6. Buckets'
  BY <1>5 DEF Buckets
<1> QED
  BY <1>2, <1>3, <1>4, <1>6 DEF IInv

LEMMA StutterInv ==
  ASSUME IInv, UNCHANGED vars
  PROVE  IInv'
<1> USE DEF vars
<1>1. TypeOK' /\ (out \subseteq revoked)'
  BY DEF IInv, TypeOK
<1>2. (\A s \in Sessions : ClaimsOK(s))'
  BY DEF IInv, ClaimsOK
<1>3. ASSUME NEW q \in Requests PROVE Slot(q)'
  BY SlotStays
<1>4. Buckets'
  BY BucketsStay DEF IInv, TypeOK, Time
<1> QED
  BY <1>1, <1>2, <1>3, <1>4 DEF IInv

-----------------------------------------------------------------------------
(* The invariant of the specification.                                     *)

LEMMA Invariance == Spec => []IInv
<1>1. IInv /\ [Next]_vars => IInv'
  <2> SUFFICES ASSUME IInv, [Next]_vars PROVE IInv'
    OBVIOUS
  <2>1. ASSUME NEW r \in Requests, NEW j \in Job, Accept(r, j) PROVE IInv'
    BY <2>1, AcceptInv
  <2>2. ASSUME NEW r \in Requests, Serve(r) PROVE IInv'
    BY <2>2, EnterInv, IsRevokedInv, FailInv, RevokeAccessInv, RevokeRefreshInv,
       AnswerLogoutInv DEF Serve
  <2>3. ASSUME NEW r \in Requests, Fail(r) PROVE IInv'
    BY <2>3, FailInv
  <2>4. ASSUME NEW u \in Users, NEW s \in Sessions, SignIn(s, u) PROVE IInv'
    BY <2>4, SignInInv
  <2>5. ASSUME NEW u \in Users, NEW x \in Roles, SetRole(u, x) PROVE IInv'
    BY <2>5, SetRoleInv
  <2> QED
    BY <2>1, <2>2, <2>3, <2>4, <2>5, CrashInv, TickInv, SweepInv, StutterInv DEF Next
<1> QED
  BY InitInv, <1>1, PTL DEF Spec

-----------------------------------------------------------------------------
(* Theorems.                                                               *)

\* Every state of the specification has the declared types.
THEOREM TypeCorrect == Spec => []TypeOK
<1>1. IInv => TypeOK
  BY DEF IInv
<1> QED
  BY <1>1, Invariance, PTL

\* A request that comes with a token whose logout was answered reaches a
\* handler only when the query of IsRevoked failed.
THEOREM LogoutHeld == Spec => []LoggedOutStaysOut
<1>1. IInv => LoggedOutStaysOut
  BY DEF IInv, Slot, LoggedOutStaysOut, Inside
<1> QED
  BY <1>1, Invariance, PTL

\* A route's role is served to users who have it, or had it within the life
\* of a refresh token.
THEOREM RoleHeld == Spec => []RoleNotOlder
<1>1. IInv => RoleNotOlder
  <2> SUFFICES ASSUME IInv, NEW r \in Requests, pc[r] \in Inside,
                      job[r].need # None,
                      role[Claims(job[r].token).user] # job[r].need
               PROVE  \E h \in held : /\ h.user = Claims(job[r].token).user
                                      /\ h.role = job[r].need
                                      /\ admitted[r] < h.until + RefreshTTL
    BY DEF RoleNotOlder
  <2>1. /\ job[r].token \in Token /\ Claims(job[r].token) # None
        /\ admitted[r] < Expires(job[r].token)
        /\ job[r].need = Claims(job[r].token).role
    BY DEF IInv, Slot, Inside, Job
  <2>2. /\ job[r].token[1] \in Sessions
        /\ Expires(job[r].token) \in Int
        /\ Expires(job[r].token) <= Claims(job[r].token).since + RefreshTTL
        /\ Claims(job[r].token) \in Session
    BY <2>1, ExpiresInt
  <2>3. PICK h \in held : /\ h.user = Claims(job[r].token).user
                          /\ h.role = job[r].need
                          /\ Claims(job[r].token).since <= h.until
    BY <2>1, <2>2 DEF IInv, ClaimsOK, Claims
  <2>4. /\ h.until \in Int /\ Claims(job[r].token).since \in Int
        /\ admitted[r] \in Int /\ RefreshTTL \in Int
    BY <2>2, NumbersAssumption DEF IInv, TypeOK, Session, Time
  <2> QED
    BY <2>1, <2>2, <2>3, <2>4
<1> QED
  BY <1>1, Invariance, PTL

\* No more than Limit requests of a client pass in a minute.
THEOREM LimitHeld == Spec => []AtMostLimit
<1>1. IInv => AtMostLimit
  BY DEF IInv, Buckets, Limited, AtMostLimit
<1> QED
  BY <1>1, Invariance, PTL

EmptyAfterLimit ==
  \A c \in Clients : visitors[c] # None /\ visitors[c].tokens <= 0 =>
    LET n == Len(passed[c])
    IN /\ Limit <= n
       /\ \A i \in 1..(n - 1) : i > n - Limit =>
            passed[c][i + 1] - passed[c][i] <= Minute

\* A bucket is empty only after Limit requests have passed, none of them more
\* than a minute after the one before.  They may have taken up to Limit - 1
\* minutes: this says who is safe from a refusal (whoever pauses), not that
\* a refused client was fast.
THEOREM PausersPass == Spec => []EmptyAfterLimit
<1>1. IInv => EmptyAfterLimit
  <2> SUFFICES ASSUME IInv, NEW c \in Clients, visitors[c] # None,
                      visitors[c].tokens <= 0
               PROVE  /\ Limit <= Len(passed[c])
                      /\ \A i \in 1..(Len(passed[c]) - 1) :
                           i > Len(passed[c]) - Limit =>
                             passed[c][i + 1] - passed[c][i] <= Minute
    BY DEF EmptyAfterLimit
  <2>1. visitors[c].tokens \in Int /\ Limit \in Int
    BY NumbersAssumption DEF IInv, TypeOK, Visitor
  <2>2. Steady(c)
    BY DEF IInv, Buckets
  <2>3. visitors[c].tokens = 0
    BY <2>1, <2>2 DEF Steady
  <2>4. Limit - visitors[c].tokens = Limit
    BY <2>1, <2>3
  <2> QED
    BY <2>2, <2>4 DEF Steady
<1> QED
  BY <1>1, Invariance, PTL

=============================================================================
