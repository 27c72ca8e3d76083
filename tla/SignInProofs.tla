----------------------------- MODULE SignInProofs -----------------------------
(***************************************************************************)
(* Theorems of SignIn, for any people, addresses, slots and lifetimes.     *)
(***************************************************************************)
EXTENDS SignIn, FiniteSetTheorems, TLAPS

-----------------------------------------------------------------------------
(* The inductive invariant.                                                *)

\* A row's Google account and address are one person's, and both are UNIQUE.
RowsOK ==
  /\ \A u \in Users : users[u] # None /\ users[u].sub # None =>
       users[u].sub = Person(users[u].email)
  /\ \A u, v \in Users : u # v /\ users[u] # None /\ users[v] # None =>
       /\ users[u].email # users[v].email
       /\ users[u].sub # None => users[u].sub # users[v].sub

\* A link was mailed to the address it is for.
LinksOK ==
  \A l \in Links : links[l] # None /\ mailed[l] # None => links[l].email = mailed[l]

SessionsOK ==
  \A s \in sessions :
    /\ users[s.user] # None
    /\ Person(users[s.user].email) = s.person
    /\ s.via = "google" => users[s.user].sub = s.person

\* What a request at each of its steps holds.
Slot(q) ==
  pc[q] # "idle" =>
    /\ job[q] \in Job
    /\ reply[q] = "none"
    /\ Person(job[q].email) = job[q].person
    /\ job[q].link # None /\ links[job[q].link] # None =>
         links[job[q].link].email = job[q].email
    /\ job[q].kind = "google" =>
         /\ job[q].link = None
         /\ pc[q] \in {"exchange", "bySub", "linkSub"} \cup AfterMark
    /\ job[q].kind = "ask" => pc[q] \in {"store", "mail"}
    /\ job[q].kind = "verify" =>
         /\ job[q].link # None
         /\ pc[q] \in {"find", "mark"} \cup AfterMark
    /\ pc[q] = "mail" => job[q].link # None
    /\ pc[q] \in {"linkSub", "update", "reload"} =>
         /\ seen[q] # None
         /\ users[seen[q]] # None
         /\ Person(users[seen[q]].email) = job[q].person
         /\ job[q].kind = "google" /\ pc[q] # "linkSub" =>
              users[seen[q]].sub = job[q].person

\* LinkNotWasted, of one link.
Kept(l) ==
  links[l] # None /\ links[l].used /\ signins[l] = 0 /\ l \notin cutOff =>
    \/ \E r \in Requests : pc[r] \in AfterMark /\ job[r].link = l
    \/ Rows(Person(links[l].email)) # {}

IInv ==
  /\ TypeOK
  /\ RowsOK
  /\ LinksOK
  /\ SessionsOK
  /\ \A l \in Links : Kept(l)
  /\ \A q \in Requests : Slot(q)

-----------------------------------------------------------------------------
(* What every step does to the users, and what that leaves alone.          *)

\* No row goes away, changes hands or loses its Google account.
UsersGrow ==
  \A u \in Users : users[u] # None =>
    /\ users'[u] # None
    /\ Person(users'[u].email) = Person(users[u].email)
    /\ users[u].sub # None => users'[u].sub = users[u].sub

LEMMA RowsStay ==
  ASSUME UsersGrow, NEW p
  PROVE  Rows(p) # {} => Rows(p)' # {}
BY DEF UsersGrow, Rows

LEMMA SessionsStay ==
  ASSUME IInv, UsersGrow, sessions' = sessions
  PROVE  SessionsOK'
<1> SUFFICES ASSUME NEW s \in sessions
             PROVE  /\ users'[s.user] # None
                    /\ Person(users'[s.user].email) = s.person
                    /\ s.via = "google" => users'[s.user].sub = s.person
  BY DEF SessionsOK
<1>1. s.user \in Users /\ s.person \in People
  BY DEF IInv, TypeOK, Session
<1> QED
  BY <1>1, NoneAssumption DEF IInv, SessionsOK, UsersGrow

\* A slot the step does not serve keeps its part of the invariant.
LEMMA SlotStays ==
  ASSUME IInv, NEW q \in Requests, UsersGrow,
         pc'[q] = pc[q], job'[q] = job[q], seen'[q] = seen[q],
         reply'[q] = reply[q],
         \A l \in Links : links'[l] # None =>
           \/ links[l] # None /\ links'[l].email = links[l].email
           \/ pc[q] # "idle" => job[q].link # l
  PROVE  Slot(q)'
<1> SUFFICES ASSUME pc[q] # "idle" PROVE Slot(q)'
  BY DEF Slot
<1>1. Slot(q) /\ job[q] \in Job
  BY DEF IInv, Slot
<1>2. job[q].link \in Links \cup {None} /\ job[q].person \in People
  BY <1>1 DEF Job
<1>3. seen[q] \in Users \cup {None}
  BY DEF IInv, TypeOK
<1>4. job[q].link # None /\ links'[job[q].link] # None =>
        links'[job[q].link].email = job[q].email
  BY <1>1, <1>2 DEF Slot
<1>5. pc[q] \in {"linkSub", "update", "reload"} =>
        /\ seen[q] # None
        /\ users'[seen[q]] # None
        /\ Person(users'[seen[q]].email) = job[q].person
        /\ job[q].kind = "google" /\ pc[q] # "linkSub" =>
             users'[seen[q]].sub = job[q].person
  BY <1>1, <1>2, <1>3, NoneAssumption DEF Slot, UsersGrow
<1> QED
  BY <1>1, <1>4, <1>5 DEF Slot

\* A link stays accounted for unless the step ends its verification without
\* a session, a fault or a user.
LEMMA KeptStays ==
  ASSUME IInv, NEW r \in Requests, NEW l \in Links, UsersGrow,
         links'[l] = links[l],
         \A q \in Requests \ {r} : pc'[q] = pc[q] /\ job'[q] = job[q],
         signins'[l] = 0 => signins[l] = 0,
         cutOff \subseteq cutOff',
         pc[r] \in AfterMark /\ job[r].link = l =>
           \/ pc'[r] \in AfterMark /\ job'[r].link = l
           \/ signins'[l] # 0
           \/ l \in cutOff'
           \/ Rows(job[r].person) # {}
  PROVE  Kept(l)'
<1> SUFFICES ASSUME links[l] # None, links[l].used, signins'[l] = 0, l \notin cutOff'
             PROVE  \/ \E q \in Requests : pc'[q] \in AfterMark /\ job'[q].link = l
                    \/ Rows(Person(links[l].email))' # {}
  BY DEF Kept
<1>1. \/ \E q \in Requests : pc[q] \in AfterMark /\ job[q].link = l
      \/ Rows(Person(links[l].email)) # {}
  BY DEF IInv, Kept
<1>2. CASE Rows(Person(links[l].email)) # {}
  BY <1>2, RowsStay
<1>3. ASSUME NEW q \in Requests \ {r}, pc[q] \in AfterMark, job[q].link = l
      PROVE  pc'[q] \in AfterMark /\ job'[q].link = l
  BY <1>3
<1>4. CASE pc[r] \in AfterMark /\ job[r].link = l
  <2>1. Person(links[l].email) = job[r].person
    BY <1>4, NoneAssumption DEF IInv, Slot, AfterMark
  <2> QED
    BY <1>4, <2>1, RowsStay
<1> QED
  BY <1>1, <1>2, <1>3, <1>4

\* A session for the row the request has seen is its person's.
LEMMA SessionStarts ==
  ASSUME IInv, NEW r \in Requests, UsersGrow,
         pc[r] \in {"update", "reload"}, StartSession(r, seen[r])
  PROVE  /\ SessionsOK'
         /\ sessions' \subseteq Session
         /\ signins' \in [Links -> Nat]
         /\ \A l \in Links : signins'[l] = 0 => signins[l] = 0 /\ job[r].link # l
<1>1. /\ job[r] \in Job /\ seen[r] \in Users
      /\ job[r].kind \in {"google", "verify"}
      /\ users[seen[r]] # None
      /\ Person(users[seen[r]].email) = job[r].person
      /\ job[r].kind = "google" => users[seen[r]].sub = job[r].person
  BY DEF IInv, TypeOK, Slot, Job
<1> DEFINE s == [user |-> seen[r], person |-> job[r].person, via |-> job[r].kind]
<1>2. /\ s \in Session /\ s.user = seen[r]
      /\ s.person = job[r].person /\ s.person \in People /\ s.via = job[r].kind
  BY <1>1 DEF Job, Session
<1>3. sessions' = sessions \cup {s}
  BY DEF StartSession
<1> HIDE DEF s
<1>4. sessions' \subseteq Session
  BY <1>2, <1>3 DEF IInv, TypeOK
<1>5. SessionsOK'
  <2>1. ASSUME NEW t \in sessions'
        PROVE  /\ users'[t.user] # None
               /\ Person(users'[t.user].email) = t.person
               /\ t.via = "google" => users'[t.user].sub = t.person
    <3>1. CASE t = s
      BY <3>1, <1>1, <1>2, NoneAssumption DEF UsersGrow
    <3>2. CASE t \in sessions
      <4>1. t.user \in Users /\ t.person \in People
        BY <3>2 DEF IInv, TypeOK, Session
      <4> QED
        BY <3>2, <4>1, NoneAssumption DEF IInv, SessionsOK, UsersGrow
    <3> QED
      BY <1>3, <3>1, <3>2
  <2> QED
    BY <2>1 DEF SessionsOK
<1>6. signins' = [l \in Links |->
        IF job[r].link = l THEN signins[l] + 1 ELSE signins[l]]
  BY DEF StartSession
<1>7. signins' \in [Links -> Nat]
  BY <1>6 DEF IInv, TypeOK
<1>8. ASSUME NEW l \in Links, signins'[l] = 0
      PROVE  signins[l] = 0 /\ job[r].link # l
  BY <1>6, <1>8 DEF IInv, TypeOK
<1> QED
  BY <1>4, <1>5, <1>7, <1>8

-----------------------------------------------------------------------------
(* Each action keeps the invariant.                                        *)

LEMMA InitInv == Init => IInv
<1> SUFFICES ASSUME Init PROVE IInv
  OBVIOUS
<1> USE DEF Init
<1>1. TypeOK
  BY TimeAssumption DEF TypeOK, Time
<1>2. RowsOK /\ LinksOK /\ SessionsOK
  BY DEF RowsOK, LinksOK, SessionsOK
<1>3. \A l \in Links : Kept(l)
  BY DEF Kept
<1>4. \A q \in Requests : Slot(q)
  BY DEF Slot
<1> QED
  BY <1>1, <1>2, <1>3, <1>4 DEF IInv

\* Steps that end a request without a session: only pc, job, seen, reply and
\* the links they cut off change.
LEMMA FinishInv ==
  ASSUME IInv, NEW r \in Requests, NEW a \in {"sent", "expired", "used",
                                              "conflict", "error"},
         Finish(r, a),
         UNCHANGED <<users, links, mailed, world, sessions, signins, issued>>,
         cutOff' \in SUBSET Links, cutOff \subseteq cutOff',
         pc[r] \in AfterMark /\ job[r].link # None =>
           job[r].link \in cutOff' \/ Rows(job[r].person) # {}
  PROVE  IInv'
<1> USE DEF Finish, world
<1>1. UsersGrow
  BY DEF UsersGrow
<1>2. TypeOK'
  BY DEF IInv, TypeOK
<1>3. RowsOK' /\ LinksOK'
  BY DEF IInv, RowsOK, LinksOK
<1>4. SessionsOK'
  BY <1>1, SessionsStay
<1>5. \A l \in Links : Kept(l)'
  <2> SUFFICES ASSUME NEW l \in Links PROVE Kept(l)'
    OBVIOUS
  <2>1. \A q \in Requests \ {r} : pc'[q] = pc[q] /\ job'[q] = job[q]
    BY DEF IInv, TypeOK
  <2>2. pc[r] \in AfterMark /\ job[r].link = l =>
          l \in cutOff' \/ Rows(job[r].person) # {}
    BY NoneAssumption
  <2> QED
    BY <1>1, <2>1, <2>2, KeptStays
<1>6. ASSUME NEW q \in Requests PROVE Slot(q)'
  <2>1. CASE q = r
    BY <2>1 DEF Slot, IInv, TypeOK
  <2>2. CASE q # r
    <3>1. /\ pc'[q] = pc[q] /\ job'[q] = job[q]
          /\ seen'[q] = seen[q] /\ reply'[q] = reply[q]
      BY <2>2 DEF IInv, TypeOK
    <3> QED
      BY <1>1, <3>1, SlotStays
  <2> QED
    BY <2>1, <2>2
<1> QED
  BY <1>2, <1>3, <1>4, <1>5, <1>6 DEF IInv

\* Steps of a request to its next call that leave the tables alone.
LEMMA GoesOn ==
  ASSUME IInv, NEW r \in Requests,
         UNCHANGED <<users, mailed, world, sessions, signins, issued>>,
         links' \in [Links -> Link \cup {None}],
         cutOff' \in SUBSET Links, cutOff \subseteq cutOff',
         \A l \in Links : links'[l] # None =>
           \/ links[l] # None /\ links'[l].email = links[l].email
           \/ /\ mailed[l] = None
              /\ \A q \in Requests \ {r} : job[q] # None => job[q].link # l,
         pc' \in [Requests -> Steps \cup {"idle"}],
         job' \in [Requests -> Job \cup {None}],
         seen' \in [Requests -> Users \cup {None}],
         reply' = reply,
         \A q \in Requests \ {r} :
           pc'[q] = pc[q] /\ job'[q] = job[q] /\ seen'[q] = seen[q],
         Slot(r)',
         \A l \in Links : Kept(l)'
  PROVE  IInv'
<1> USE DEF world
<1>1. UsersGrow
  BY DEF UsersGrow
<1>2. TypeOK'
  BY DEF IInv, TypeOK
<1>3. RowsOK'
  BY DEF IInv, RowsOK
<1>4. LinksOK'
  BY DEF IInv, LinksOK
<1>5. SessionsOK'
  BY <1>1, SessionsStay
<1>6. ASSUME NEW q \in Requests PROVE Slot(q)'
  <2>1. CASE q # r
    <3>1. \A l \in Links : links'[l] # None =>
            \/ links[l] # None /\ links'[l].email = links[l].email
            \/ pc[q] # "idle" => job[q].link # l
      BY <2>1, NoneAssumption DEF IInv, Slot
    <3> QED
      BY <1>1, <2>1, <3>1, SlotStays
  <2> QED
    BY <2>1
<1> QED
  BY <1>2, <1>3, <1>4, <1>5, <1>6 DEF IInv

LEMMA AcceptInv ==
  ASSUME IInv, NEW r \in Requests, NEW j \in Job, Accept(r, j)
  PROVE  IInv'
<1> USE DEF Accept, At, world, history
<1>1. UsersGrow
  BY DEF UsersGrow
<1>2. TypeOK'
  <2>1. j.kind \in {"google", "ask", "verify"}
    BY DEF Job
  <2>2. pc' \in [Requests -> Steps \cup {"idle"}]
    BY <2>1 DEF IInv, TypeOK, Steps
  <2>3. issued' \in 0..MaxRequests
    BY TimeAssumption DEF IInv, TypeOK
  <2> QED
    BY <2>2, <2>3 DEF IInv, TypeOK
<1>3. RowsOK' /\ LinksOK'
  BY DEF IInv, RowsOK, LinksOK
<1>4. SessionsOK'
  BY <1>1, SessionsStay
<1>5. \A l \in Links : Kept(l)'
  <2> SUFFICES ASSUME NEW l \in Links PROVE Kept(l)'
    OBVIOUS
  <2>1. \A q \in Requests \ {r} : pc'[q] = pc[q] /\ job'[q] = job[q]
    BY DEF IInv, TypeOK
  <2>2. pc[r] \notin AfterMark
    BY DEF AfterMark
  <2> QED
    BY <1>1, <2>1, <2>2, KeptStays
<1>6. ASSUME NEW q \in Requests PROVE Slot(q)'
  <2>1. CASE q = r
    <3>1. /\ job'[r] = j /\ reply'[r] = "none"
          /\ pc'[r] = CASE j.kind = "google" -> "exchange"
                        [] j.kind = "ask" -> "store"
                        [] j.kind = "verify" -> "find"
      BY DEF IInv, TypeOK
    <3>2. j.link # None /\ links[j.link] # None => links[j.link].email = j.email
      <4>1. j.link \in Links \cup {None} /\ j.email \in Address
        BY DEF Job
      <4> QED
        BY <4>1, NoneAssumption DEF IInv, LinksOK
    <3> QED
      BY <2>1, <3>1, <3>2 DEF Slot, Job
  <2>2. CASE q # r
    <3>1. /\ pc'[q] = pc[q] /\ job'[q] = job[q]
          /\ seen'[q] = seen[q] /\ reply'[q] = reply[q]
      BY <2>2 DEF IInv, TypeOK
    <3> QED
      BY <1>1, <3>1, SlotStays
  <2> QED
    BY <2>1, <2>2
<1> QED
  BY <1>2, <1>3, <1>4, <1>5, <1>6 DEF IInv

LEMMA ExchangeInv ==
  ASSUME IInv, NEW r \in Requests, Exchange(r)
  PROVE  IInv'
<1> USE DEF Exchange, At, history, world
<1>1. job[r] \in Job /\ job[r].person \in People /\ Slot(r) /\ job[r].link = None
  BY DEF IInv, Slot, Job, AfterMark
<1> DEFINE a == <<job[r].person, google[job[r].person]>>
<1>2. a \in Address /\ Person(a) = job[r].person
  BY <1>1 DEF Address, Person, IInv, TypeOK
<1> HIDE DEF a
<1>3. [job[r] EXCEPT !.email = a] \in Job
  BY <1>1, <1>2 DEF Job
<1>4. /\ pc'[r] = "bySub" /\ job'[r] = [job[r] EXCEPT !.email = a]
      /\ reply'[r] = reply[r] /\ job' \in [Requests -> Job \cup {None}]
      /\ pc' \in [Requests -> Steps \cup {"idle"}]
  BY <1>3 DEF IInv, TypeOK, Steps, a
<1>5. job[r].kind = "google"
  BY <1>1 DEF Slot, Job, AfterMark
<1>6. Slot(r)'
  <2>1. job'[r] \in Job /\ job'[r].email = a /\ job'[r].kind = "google"
    BY <1>3, <1>4, <1>5 DEF Job
  <2>2. job'[r].person = job[r].person /\ job'[r].link = None
    BY <1>1, <1>4 DEF Job
  <2> QED
    BY <1>1, <1>2, <1>4, <2>1, <2>2 DEF Slot, AfterMark
<1>7. ASSUME NEW l \in Links PROVE Kept(l)'
  <2>1. pc[r] \notin AfterMark
    BY DEF AfterMark
  <2>2. UsersGrow /\ \A q \in Requests \ {r} : pc'[q] = pc[q] /\ job'[q] = job[q]
    BY DEF UsersGrow, IInv, TypeOK
  <2> QED
    BY <2>1, <2>2, KeptStays
<1>8. \A q \in Requests \ {r} : pc'[q] = pc[q] /\ job'[q] = job[q] /\ seen'[q] = seen[q]
  BY DEF IInv, TypeOK
<1>9. links' \in [Links -> Link \cup {None}] /\ cutOff' \in SUBSET Links
      /\ seen' \in [Requests -> Users \cup {None}]
  BY DEF IInv, TypeOK
<1> QED
  BY <1>4, <1>6, <1>7, <1>8, <1>9, GoesOn DEF world

\* A lookup goes on to a step of the same kind of sign-in, with a row it has
\* found or none.
LEMMA LookupInv ==
  ASSUME IInv, NEW r \in Requests, NEW step \in Steps,
         pc[r] \in {"bySub", "byEmail"},
         \/ step = "byEmail" /\ pc[r] = "bySub" /\ seen' = seen
         \/ step = "provision" /\ pc[r] = "byEmail" /\ seen' = seen
         \/ \E u \in Users :
              /\ users[u] # None
              /\ Person(users[u].email) = job[r].person
              /\ seen' = [seen EXCEPT ![r] = u]
              /\ \/ step = "linkSub" /\ pc[r] = "byEmail" /\ job[r].kind = "google"
                 \/ step = "update" /\ pc[r] = "byEmail" /\ job[r].kind = "verify"
                 \/ /\ step = "update" /\ pc[r] = "bySub"
                    /\ users[u].sub = job[r].person,
         pc' = [pc EXCEPT ![r] = step], UNCHANGED <<job, reply>>,
         UNCHANGED <<users, links, mailed, world, history, issued>>
  PROVE  IInv'
<1> USE DEF history, world
<1>1. /\ pc' \in [Requests -> Steps \cup {"idle"}] /\ pc'[r] = step
      /\ links' \in [Links -> Link \cup {None}] /\ cutOff' \in SUBSET Links
      /\ job' \in [Requests -> Job \cup {None}]
      /\ \A q \in Requests \ {r} : pc'[q] = pc[q]
  BY DEF IInv, TypeOK
<1>2. seen' \in [Requests -> Users \cup {None}]
      /\ \A q \in Requests \ {r} : seen'[q] = seen[q]
  BY DEF IInv, TypeOK
<1>3. Slot(r) /\ job[r] \in Job /\ job[r].link \in Links \cup {None}
  BY DEF IInv, Slot, Job
<1>4. Slot(r)'
  <2>1. CASE \/ step = "byEmail" /\ pc[r] = "bySub"
             \/ step = "provision" /\ pc[r] = "byEmail"
    BY <2>1, <1>1, <1>3 DEF Slot, AfterMark
  <2>2. ASSUME NEW u \in Users,
               users[u] # None, Person(users[u].email) = job[r].person,
               seen' = [seen EXCEPT ![r] = u],
               \/ step = "linkSub" /\ pc[r] = "byEmail" /\ job[r].kind = "google"
               \/ step = "update" /\ pc[r] = "byEmail" /\ job[r].kind = "verify"
               \/ /\ step = "update" /\ pc[r] = "bySub"
                  /\ users[u].sub = job[r].person
        PROVE  Slot(r)'
    <3>1. seen'[r] = u /\ u # None
      BY <2>2, NoneAssumption DEF IInv, TypeOK
    <3>2. pc[r] = "bySub" => job[r].kind = "google"
      BY <1>3 DEF Slot, Job, AfterMark
    <3> QED
      BY <2>2, <3>1, <3>2, <1>1, <1>3 DEF Slot, AfterMark
  <2>3. \/ step = "byEmail" /\ pc[r] = "bySub"
        \/ step = "provision" /\ pc[r] = "byEmail"
        \/ \E u \in Users :
              /\ users[u] # None
              /\ Person(users[u].email) = job[r].person
              /\ seen' = [seen EXCEPT ![r] = u]
              /\ \/ step = "linkSub" /\ pc[r] = "byEmail" /\ job[r].kind = "google"
                 \/ step = "update" /\ pc[r] = "byEmail" /\ job[r].kind = "verify"
                 \/ /\ step = "update" /\ pc[r] = "bySub"
                    /\ users[u].sub = job[r].person
    OBVIOUS
  <2> QED
    BY <2>1, <2>2, <2>3
<1>5. ASSUME NEW l \in Links PROVE Kept(l)'
  <2>1. UsersGrow /\ \A q \in Requests \ {r} : pc'[q] = pc[q] /\ job'[q] = job[q]
    BY <1>1 DEF UsersGrow
  <2>2. pc[r] \in AfterMark /\ job[r].link = l =>
          \/ pc'[r] \in AfterMark /\ job'[r].link = l
          \/ Rows(job[r].person) # {}
    BY <1>1 DEF AfterMark, Rows
  <2> QED
    BY <2>1, <2>2, KeptStays
<1> QED
  BY <1>1, <1>2, <1>4, <1>5, GoesOn DEF world

LEMMA FindByGoogleSubInv ==
  ASSUME IInv, NEW r \in Requests, FindByGoogleSub(r)
  PROVE  IInv'
<1> USE DEF FindByGoogleSub, At, Steps, AfterMark
<1>1. CASE BySub(job[r].person) = {} /\ Goto(r, "byEmail")
  BY <1>1, LookupInv DEF Goto
<1>2. ASSUME NEW u \in BySub(job[r].person), Take(r, "update", u)
      PROVE  IInv'
  <2>1. /\ u \in Users /\ users[u] # None /\ users[u].sub = job[r].person
    BY <1>2 DEF BySub
  <2>2. job[r].person # None
    BY NoneAssumption DEF IInv, Slot, Job
  <2>3. Person(users[u].email) = job[r].person
    BY <2>1, <2>2 DEF IInv, RowsOK
  <2> QED
    BY <1>2, <2>1, <2>3, LookupInv DEF Take
<1> QED
  BY <1>1, <1>2

LEMMA FindByEmailInv ==
  ASSUME IInv, NEW r \in Requests, FindByEmail(r)
  PROVE  IInv'
<1> USE DEF FindByEmail, At, Is, Steps, AfterMark
<1>1. CASE ByEmail(job[r].email) = {} /\ Goto(r, "provision")
  BY <1>1, LookupInv DEF Goto
<1>2. ASSUME NEW u \in ByEmail(job[r].email),
             Take(r, IF Is(r, "google") THEN "linkSub" ELSE "update", u)
      PROVE  IInv'
  <2>1. /\ u \in Users /\ users[u] # None /\ users[u].email = job[r].email
    BY <1>2 DEF ByEmail
  <2>2. Person(users[u].email) = job[r].person
    BY <2>1 DEF IInv, Slot
  <2>3. job[r].kind \in {"google", "verify"}
    BY DEF IInv, Slot, Job
  <2>4. CASE job[r].kind = "google"
    BY <1>2, <2>1, <2>2, <2>4, LookupInv DEF Take
  <2>5. CASE job[r].kind = "verify"
    BY <1>2, <2>1, <2>2, <2>5, LookupInv DEF Take
  <2> QED
    BY <2>3, <2>4, <2>5
<1> QED
  BY <1>1, <1>2

LEMMA StoreLinkInv ==
  ASSUME IInv, NEW r \in Requests, StoreLink(r)
  PROVE  IInv'
<1> USE DEF At, history, world
<1>1. PICK l \in Links :
        /\ Fresh(l)
        /\ links' = [links EXCEPT ![l] =
             [email |-> job[r].email, expires |-> now + Expiry, used |-> FALSE]]
        /\ \/ /\ job' = [job EXCEPT ![r].link = l]
              /\ pc' = [pc EXCEPT ![r] = "mail"]
              /\ UNCHANGED <<seen, reply>>
           \/ Finish(r, "error")
  BY DEF StoreLink
<1>2. /\ pc[r] = "store" /\ UNCHANGED <<users, mailed, world, history, issued>>
  BY DEF StoreLink
<1>3. Slot(r) /\ job[r] \in Job /\ job[r].email \in Address /\ job[r].kind = "ask"
  BY <1>2 DEF IInv, Slot, Job, AfterMark
<1> DEFINE row == [email |-> job[r].email, expires |-> now + Expiry, used |-> FALSE]
<1>4. row \in Link /\ row.email = job[r].email /\ row.used = FALSE
  BY <1>3, TimeAssumption DEF Link, IInv, TypeOK, Time
<1>5. /\ links' \in [Links -> Link \cup {None}] /\ links'[l] = row
      /\ \A k \in Links \ {l} : links'[k] = links[k]
  BY <1>1, <1>4 DEF IInv, TypeOK
<1> HIDE DEF row
<1>6. /\ links[l] = None /\ mailed[l] = None
      /\ \A q \in Requests : job[q] # None => job[q].link # l
  BY <1>1 DEF Fresh
<1>7. UsersGrow
  BY <1>2 DEF UsersGrow
<1>8. \A q \in Requests \ {r} : /\ pc'[q] = pc[q] /\ job'[q] = job[q]
                                /\ seen'[q] = seen[q] /\ reply'[q] = reply[q]
  BY <1>1 DEF IInv, TypeOK, Finish
<1>9. ASSUME NEW k \in Links PROVE Kept(k)'
  <2>1. CASE k = l
    BY <2>1, <1>4, <1>5 DEF Kept
  <2>2. CASE k # l
    <3>1. pc[r] \notin AfterMark
      BY <1>2 DEF AfterMark
    <3> QED
      BY <2>2, <3>1, <1>2, <1>5, <1>7, <1>8, KeptStays
  <2> QED
    BY <2>1, <2>2
<1>10. CASE /\ job' = [job EXCEPT ![r].link = l]
            /\ pc' = [pc EXCEPT ![r] = "mail"]
            /\ UNCHANGED <<seen, reply>>
  <2>1. [job[r] EXCEPT !.link = l] \in Job
    BY <1>3 DEF Job
  <2>2. /\ job' \in [Requests -> Job \cup {None}]
        /\ job'[r] = [job[r] EXCEPT !.link = l]
        /\ pc'[r] = "mail" /\ pc' \in [Requests -> Steps \cup {"idle"}]
    BY <1>10, <2>1 DEF IInv, TypeOK, Steps
  <2>3. /\ job'[r] \in Job /\ job'[r].link = l /\ job'[r].kind = "ask"
        /\ job'[r].email = job[r].email /\ job'[r].person = job[r].person
    BY <1>3, <2>1, <2>2 DEF Job
  <2>4. Slot(r)'
    BY <1>3, <1>4, <1>5, <1>10, <1>2, <2>2, <2>3, NoneAssumption DEF Slot, AfterMark
  <2>5. /\ seen' \in [Requests -> Users \cup {None}] /\ reply' = reply
        /\ cutOff' \in SUBSET Links /\ cutOff \subseteq cutOff'
    BY <1>10, <1>2 DEF IInv, TypeOK
  <2>6. UNCHANGED <<users, mailed, world, sessions, signins, issued>>
    BY <1>2
  <2>7. \A k \in Links : links'[k] # None =>
           \/ links[k] # None /\ links'[k].email = links[k].email
           \/ /\ mailed[k] = None
              /\ \A q \in Requests \ {r} : job[q] # None => job[q].link # k
    BY <1>5, <1>6
  <2> QED
    BY <1>5, <1>8, <1>9, <2>2, <2>4, <2>5, <2>6, <2>7, GoesOn
<1>11. CASE Finish(r, "error")
  <2>1. TypeOK'
    BY <1>11, <1>2, <1>5 DEF IInv, TypeOK, Finish
  <2>2. RowsOK' /\ LinksOK'
    BY <1>2, <1>5, <1>6 DEF IInv, RowsOK, LinksOK
  <2>3. SessionsOK'
    BY <1>2, <1>7, SessionsStay
  <2>4. ASSUME NEW q \in Requests PROVE Slot(q)'
    <3>1. CASE q = r
      BY <3>1, <1>11 DEF Slot, Finish, IInv, TypeOK
    <3>2. CASE q # r
      <4>1. \A k \in Links : links'[k] # None =>
              \/ links[k] # None /\ links'[k].email = links[k].email
              \/ pc[q] # "idle" => job[q].link # k
        BY <1>5, <1>6, NoneAssumption DEF IInv, Slot
      <4> QED
        BY <3>2, <4>1, <1>7, <1>8, SlotStays
    <3> QED
      BY <3>1, <3>2
  <2> QED
    BY <1>9, <2>1, <2>2, <2>3, <2>4 DEF IInv
<1> QED
  BY <1>1, <1>10, <1>11

LEMMA MailLinkInv ==
  ASSUME IInv, NEW r \in Requests, MailLink(r)
  PROVE  IInv'
<1> USE DEF At, history, world, MailLink
<1>1. Slot(r) /\ job[r] \in Job /\ job[r].link \in Links /\ job[r].email \in Address
  BY DEF IInv, Slot, Job
<1>2. PICK a \in {"sent", "error"} : Finish(r, a)
  OBVIOUS
<1>3. UsersGrow
  BY DEF UsersGrow
<1>4. \A q \in Requests \ {r} : /\ pc'[q] = pc[q] /\ job'[q] = job[q]
                                /\ seen'[q] = seen[q] /\ reply'[q] = reply[q]
  BY <1>2 DEF IInv, TypeOK, Finish
<1>5. TypeOK'
  <2>1. mailed' \in [Links -> Address \cup {None}]
    BY <1>1 DEF IInv, TypeOK
  <2> QED
    BY <1>2, <2>1 DEF IInv, TypeOK, Finish
<1>6. RowsOK' /\ LinksOK'
  BY <1>1, NoneAssumption DEF IInv, TypeOK, RowsOK, LinksOK, Slot
<1>7. SessionsOK'
  BY <1>3, SessionsStay
<1>8. ASSUME NEW l \in Links PROVE Kept(l)'
  <2>1. pc[r] \notin AfterMark
    BY DEF AfterMark
  <2> QED
    BY <2>1, <1>3, <1>4, KeptStays
<1>9. ASSUME NEW q \in Requests PROVE Slot(q)'
  <2>1. CASE q = r
    BY <2>1, <1>2 DEF Slot, Finish, IInv, TypeOK
  <2>2. CASE q # r
    BY <2>2, <1>3, <1>4, SlotStays
  <2> QED
    BY <2>1, <2>2
<1> QED
  BY <1>5, <1>6, <1>7, <1>8, <1>9 DEF IInv

LEMMA FindLinkInv ==
  ASSUME IInv, NEW r \in Requests, FindLink(r)
  PROVE  IInv'
<1> USE DEF FindLink, At, history, world
<1>1. /\ Slot(r) /\ job[r] \in Job /\ job[r].link \in Links
      /\ job[r].kind = "verify" /\ pc[r] \notin AfterMark
  BY DEF IInv, Slot, Job, AfterMark
<1>2. ASSUME NEW a \in {"expired", "used"}, Finish(r, a)
      PROVE  IInv'
  BY <1>1, <1>2, FinishInv DEF IInv, TypeOK
<1>3. CASE /\ links[job[r].link] # None
           /\ job' = [job EXCEPT ![r].email = links[job[r].link].email]
           /\ pc' = [pc EXCEPT ![r] = "mark"]
           /\ UNCHANGED <<seen, reply>>
  <2>1. links[job[r].link].email = job[r].email
    BY <1>1, <1>3, NoneAssumption DEF Slot
  <2>2. [job[r] EXCEPT !.email = links[job[r].link].email] = job[r]
    BY <1>1, <2>1 DEF Job
  <2>3. job' = job
    BY <1>3, <2>2 DEF IInv, TypeOK
  <2>4. /\ pc' \in [Requests -> Steps \cup {"idle"}] /\ pc'[r] = "mark"
        /\ \A q \in Requests \ {r} : pc'[q] = pc[q]
    BY <1>3 DEF IInv, TypeOK, Steps
  <2>5. Slot(r)'
    BY <1>1, <1>3, <2>3, <2>4 DEF Slot, AfterMark
  <2>6. ASSUME NEW l \in Links PROVE Kept(l)'
    <3>1. UsersGrow
      BY DEF UsersGrow
    <3> QED
      BY <1>1, <2>3, <2>4, <3>1, KeptStays
  <2>7. /\ links' \in [Links -> Link \cup {None}] /\ cutOff' \in SUBSET Links
        /\ seen' \in [Requests -> Users \cup {None}]
        /\ job' \in [Requests -> Job \cup {None}]
    BY <1>3, <2>3 DEF IInv, TypeOK
  <2> QED
    BY <1>3, <2>3, <2>4, <2>5, <2>6, <2>7, GoesOn
<1> QED
  BY <1>2, <1>3

LEMMA MarkUsedInv ==
  ASSUME IInv, NEW r \in Requests, MarkUsed(r)
  PROVE  IInv'
<1> USE DEF At, history, world
<1>1. PICK l \in Links : l = job[r].link
  BY DEF MarkUsed, IInv, Slot, Job, AfterMark
<1>2. /\ pc[r] = "mark"
      /\ links' = [links EXCEPT ![l] =
           IF links[l] = None THEN None ELSE [links[l] EXCEPT !.used = TRUE]]
      /\ \/ Goto(r, "byEmail") /\ UNCHANGED cutOff
         \/ Finish(r, "error") /\ cutOff' = cutOff \cup {l}
      /\ UNCHANGED <<users, mailed, world, sessions, signins, issued>>
  BY <1>1 DEF MarkUsed
<1>3. Slot(r) /\ job[r] \in Job /\ job[r].kind = "verify"
  BY <1>2 DEF IInv, Slot, Job, AfterMark
<1>4. links[l] # None => /\ links[l] \in Link /\ [links[l] EXCEPT !.used = TRUE] \in Link
                         /\ [links[l] EXCEPT !.used = TRUE].email = links[l].email
  BY DEF IInv, TypeOK, Link
<1>5. /\ links' \in [Links -> Link \cup {None}]
      /\ \A k \in Links \ {l} : links'[k] = links[k]
      /\ \A k \in Links : links'[k] # None =>
           links[k] # None /\ links'[k].email = links[k].email
  BY <1>2, <1>4 DEF IInv, TypeOK
<1>6. UsersGrow
  BY <1>2 DEF UsersGrow
<1>7. pc[r] \notin AfterMark
  BY <1>2 DEF AfterMark
<1>8. \A q \in Requests \ {r} : /\ pc'[q] = pc[q] /\ job'[q] = job[q]
                                /\ seen'[q] = seen[q] /\ reply'[q] = reply[q]
  BY <1>2 DEF IInv, TypeOK, Goto, Finish
<1>9. \/ Goto(r, "byEmail") /\ pc'[r] \in AfterMark /\ job'[r].link = l
      \/ Finish(r, "error") /\ l \in cutOff'
  BY <1>1, <1>2 DEF IInv, TypeOK, Goto, AfterMark
<1>10. ASSUME NEW k \in Links PROVE Kept(k)'
  <2>1. CASE k = l
    BY <2>1, <1>9 DEF Kept
  <2>2. CASE k # l
    BY <2>2, <1>2, <1>5, <1>6, <1>7, <1>8, KeptStays
  <2> QED
    BY <2>1, <2>2
<1>11. TypeOK'
  <2>1. pc' \in [Requests -> Steps \cup {"idle"}]
    BY <1>2 DEF IInv, TypeOK, Goto, Finish, Steps, AfterMark
  <2>2. cutOff' \subseteq Links
    BY <1>2 DEF IInv, TypeOK
  <2> QED
    BY <1>2, <1>5, <2>1, <2>2 DEF IInv, TypeOK, Goto, Finish
<1>12. RowsOK' /\ LinksOK'
  BY <1>2, <1>5 DEF IInv, RowsOK, LinksOK
<1>13. SessionsOK'
  BY <1>2, <1>6, SessionsStay
<1>14. ASSUME NEW q \in Requests PROVE Slot(q)'
  <2>1. CASE q # r
    BY <2>1, <1>5, <1>6, <1>8, SlotStays
  <2>2. CASE q = r /\ Finish(r, "error")
    BY <2>2 DEF Slot, Finish, IInv, TypeOK
  <2>3. CASE q = r /\ Goto(r, "byEmail")
    <3>1. pc'[r] = "byEmail" /\ job' = job /\ reply' = reply
      BY <2>3 DEF Goto, IInv, TypeOK
    <3> QED
      BY <2>3, <3>1, <1>1, <1>2, <1>3, <1>5 DEF Slot, AfterMark
  <2> QED
    BY <2>1, <2>2, <2>3, <1>9
<1> QED
  BY <1>10, <1>11, <1>12, <1>13, <1>14 DEF IInv

LEMMA FailInv ==
  ASSUME IInv, NEW r \in Requests, Fail(r)
  PROVE  IInv'
<1> USE DEF Fail
<1>1. Slot(r) /\ job[r] \in Job /\ job[r].link \in Links \cup {None}
  BY DEF IInv, Slot, Job, Steps, AfterMark
<1>2. Hit({r}) \subseteq Links
  <2>1. ASSUME NEW q \in {r}, pc[q] \in AfterMark, Is(q, "verify")
        PROVE  job[q].link \in Links
    BY <2>1, <1>1 DEF Is, Slot, AfterMark
  <2> QED
    BY <2>1 DEF Hit
<1>3. pc[r] \in AfterMark /\ job[r].link # None => job[r].link \in Hit({r})
  BY <1>1 DEF Hit, Is, Slot, Job, Steps, AfterMark
<1>4. cutOff' \in SUBSET Links
  BY <1>2 DEF IInv, TypeOK
<1> QED
  BY <1>3, <1>4, FinishInv

LEMMA CrashInv ==
  ASSUME IInv, Crash
  PROVE  IInv'
<1> USE DEF Crash, world
<1>1. UsersGrow
  BY DEF UsersGrow
<1>2. Hit(Requests) \subseteq Links
  <2>1. ASSUME NEW r \in Requests, pc[r] \in AfterMark, Is(r, "verify")
        PROVE  job[r].link \in Links
    BY <2>1 DEF Is, IInv, Slot, Job, AfterMark
  <2> QED
    BY <2>1 DEF Hit
<1>3. TypeOK'
  BY <1>2 DEF IInv, TypeOK
<1>4. RowsOK' /\ LinksOK'
  BY DEF IInv, RowsOK, LinksOK
<1>5. SessionsOK'
  BY <1>1, SessionsStay
<1>6. ASSUME NEW l \in Links PROVE Kept(l)'
  <2>1. ASSUME NEW r \in Requests, pc[r] \in AfterMark, job[r].link = l
        PROVE  l \in cutOff'
    <3>1. Is(r, "verify")
      BY <2>1, NoneAssumption DEF Is, IInv, Slot, Job, AfterMark
    <3> QED
      BY <2>1, <3>1 DEF Hit
  <2>2. Kept(l) /\ (Rows(Person(links[l].email)) # {} => Rows(Person(links[l].email))' # {})
    BY <1>1, RowsStay DEF IInv
  <2> QED
    BY <2>1, <2>2 DEF Kept
<1>7. ASSUME NEW q \in Requests PROVE Slot(q)'
  BY DEF Slot
<1> QED
  BY <1>3, <1>4, <1>5, <1>6, <1>7 DEF IInv

\* The clock, the cleanup and Google leave requests and users alone.
LEMMA WorldInv ==
  ASSUME IInv, UNCHANGED <<request, users, mailed, history, issued>>,
         links' \in [Links -> Link \cup {None}],
         \A l \in Links : links'[l] = None \/ links'[l] = links[l],
         google' \in [People -> Names], renamed' \subseteq People, now' \in Time
  PROVE  IInv'
<1> USE DEF request, history
<1>1. UsersGrow
  BY DEF UsersGrow
<1>2. TypeOK'
  BY DEF IInv, TypeOK
<1>3. RowsOK' /\ LinksOK'
  BY DEF IInv, RowsOK, LinksOK
<1>4. SessionsOK'
  BY <1>1, SessionsStay
<1>5. ASSUME NEW l \in Links PROVE Kept(l)'
  BY DEF IInv, Kept, Rows
<1>6. ASSUME NEW q \in Requests PROVE Slot(q)'
  BY <1>1, SlotStays
<1> QED
  BY <1>2, <1>3, <1>4, <1>5, <1>6 DEF IInv

LEMMA TickInv ==
  ASSUME IInv, Tick
  PROVE  IInv'
<1>1. now' \in Time
  BY TimeAssumption DEF Tick, IInv, TypeOK, Time
<1> QED
  BY <1>1, WorldInv DEF Tick, IInv, TypeOK

LEMMA DeleteExpiredInv ==
  ASSUME IInv, DeleteExpired
  PROVE  IInv'
<1>1. /\ links' \in [Links -> Link \cup {None}]
      /\ \A l \in Links : links'[l] = None \/ links'[l] = links[l]
  BY DEF DeleteExpired, IInv, TypeOK
<1> QED
  BY <1>1, WorldInv DEF DeleteExpired, IInv, TypeOK, world

LEMMA RenameInv ==
  ASSUME IInv, NEW p \in People, Rename(p)
  PROVE  IInv'
<1>1. google' \in [People -> Names] /\ renamed' \subseteq People
  BY DEF Rename, IInv, TypeOK
<1> QED
  BY <1>1, WorldInv DEF Rename, IInv, TypeOK

-----------------------------------------------------------------------------
(* Steps that write a user row.                                            *)

LEMMA RowFits ==
  ASSUME IInv, NEW u \in Users, NEW row \in User, ~ Taken(u, row),
         row.sub # None => row.sub = Person(row.email),
         users' = [users EXCEPT ![u] = row]
  PROVE  RowsOK'
<1>1. users'[u] = row /\ \A v \in Users \ {u} : users'[v] = users[v]
  BY DEF IInv, TypeOK
<1>2. ASSUME NEW v \in Users \ {u}, users[v] # None
      PROVE  /\ users[v].email # row.email
             /\ row.sub # None => users[v].sub # row.sub
  BY <1>2 DEF Taken
<1> QED
  BY <1>1, <1>2 DEF IInv, RowsOK

\* The row is written and the request goes on to reload it, answers with a
\* session for it, or its answer is lost.
LEMMA RowWritten ==
  ASSUME IInv, NEW r \in Requests, NEW u \in Users, NEW row \in User,
         pc[r] \in {"linkSub", "provision", "update"},
         ~ Taken(u, row),
         row.sub # None => row.sub = Person(row.email),
         Person(row.email) = job[r].person,
         job[r].kind = "google" => row.sub = job[r].person,
         users' = [users EXCEPT ![u] = row],
         users[u] # None => /\ Person(row.email) = Person(users[u].email)
                            /\ users[u].sub # None => row.sub = users[u].sub,
         \/ /\ pc' = [pc EXCEPT ![r] = "reload"]
            /\ seen' = [seen EXCEPT ![r] = u]
            /\ UNCHANGED <<job, reply, history>>
         \/ pc[r] = "update" /\ u = seen[r] /\ StartSession(r, u)
         \/ AnswerLost(r),
         UNCHANGED <<links, mailed, world, issued>>
  PROVE  IInv' /\ UsersGrow
<1> USE DEF history, world
<1>1. users' \in [Users -> User \cup {None}] /\ users'[u] = row /\ row # None
  BY NoneAssumption DEF IInv, TypeOK
<1>2. UsersGrow
  BY <1>1 DEF UsersGrow, IInv, TypeOK
<1>3. RowsOK' /\ LinksOK'
  BY RowFits DEF IInv, LinksOK
<1>4. /\ Slot(r) /\ job[r] \in Job /\ job[r].link \in Links \cup {None}
  BY DEF IInv, Slot, Job
<1>5. CASE /\ pc' = [pc EXCEPT ![r] = "reload"]
           /\ seen' = [seen EXCEPT ![r] = u]
           /\ UNCHANGED <<job, reply, history>>
  <2>1. TypeOK'
    BY <1>1, <1>5 DEF IInv, TypeOK, Steps, AfterMark
  <2>2. \A q \in Requests \ {r} : /\ pc'[q] = pc[q] /\ seen'[q] = seen[q]
    BY <1>5 DEF IInv, TypeOK
  <2>3. pc'[r] = "reload" /\ seen'[r] = u /\ u # None
    BY <1>5, NoneAssumption DEF IInv, TypeOK
  <2>4. SessionsOK'
    BY <1>2, <1>5, SessionsStay
  <2>5. ASSUME NEW l \in Links PROVE Kept(l)'
    <3>1. pc[r] \in AfterMark => pc'[r] \in AfterMark
      BY <2>3 DEF AfterMark
    <3> QED
      BY <1>2, <1>5, <2>2, <3>1, KeptStays
  <2>6. ASSUME NEW q \in Requests PROVE Slot(q)'
    <3>1. CASE q = r
      BY <3>1, <1>1, <1>4, <1>5, <2>3 DEF Slot, AfterMark
    <3>2. CASE q # r
      BY <3>2, <1>2, <1>5, <2>2, SlotStays
    <3> QED
      BY <3>1, <3>2
  <2> QED
    BY <1>2, <1>3, <2>1, <2>4, <2>5, <2>6 DEF IInv
<1>6. CASE pc[r] = "update" /\ u = seen[r] /\ StartSession(r, u)
  <2>1. /\ SessionsOK' /\ sessions' \subseteq Session /\ signins' \in [Links -> Nat]
        /\ \A l \in Links : signins'[l] = 0 => signins[l] = 0 /\ job[r].link # l
    BY <1>2, <1>6, SessionStarts
  <2>2. Finish(r, "session") /\ UNCHANGED cutOff
    BY <1>6 DEF StartSession
  <2>3. TypeOK'
    BY <1>1, <2>1, <2>2 DEF IInv, TypeOK, Finish
  <2>4. \A q \in Requests \ {r} : /\ pc'[q] = pc[q] /\ job'[q] = job[q]
                                  /\ seen'[q] = seen[q] /\ reply'[q] = reply[q]
    BY <2>2 DEF IInv, TypeOK, Finish
  <2>5. ASSUME NEW l \in Links PROVE Kept(l)'
    BY <1>2, <2>1, <2>2, <2>4, KeptStays
  <2>6. ASSUME NEW q \in Requests PROVE Slot(q)'
    <3>1. CASE q = r
      BY <3>1, <2>2 DEF Slot, Finish, IInv, TypeOK
    <3>2. CASE q # r
      BY <3>2, <1>2, <2>4, SlotStays
    <3> QED
      BY <3>1, <3>2
  <2> QED
    BY <1>2, <1>3, <2>1, <2>3, <2>5, <2>6 DEF IInv
<1>7. CASE AnswerLost(r)
  <2>1. Finish(r, "error") /\ cutOff' = cutOff \cup Hit({r})
        /\ UNCHANGED <<sessions, signins>>
    BY <1>7 DEF AnswerLost
  <2>2. Hit({r}) \subseteq Links
    BY <1>4 DEF Hit, Is, Slot, AfterMark
  <2>3. pc[r] \in AfterMark /\ job[r].link # None => job[r].link \in Hit({r})
    BY <1>4 DEF Hit, Is, Slot, Job, AfterMark
  <2>4. TypeOK'
    BY <1>1, <2>1, <2>2 DEF IInv, TypeOK, Finish
  <2>5. \A q \in Requests \ {r} : /\ pc'[q] = pc[q] /\ job'[q] = job[q]
                                  /\ seen'[q] = seen[q] /\ reply'[q] = reply[q]
    BY <2>1 DEF IInv, TypeOK, Finish
  <2>6. SessionsOK'
    BY <1>2, <2>1, SessionsStay
  <2>7. ASSUME NEW l \in Links PROVE Kept(l)'
    <3>1. pc[r] \in AfterMark /\ job[r].link = l => l \in cutOff'
      BY <2>1, <2>3, NoneAssumption
    <3> QED
      BY <1>2, <2>1, <2>5, <3>1, KeptStays
  <2>8. ASSUME NEW q \in Requests PROVE Slot(q)'
    <3>1. CASE q = r
      BY <3>1, <2>1 DEF Slot, Finish, IInv, TypeOK
    <3>2. CASE q # r
      BY <3>2, <1>2, <2>5, SlotStays
    <3> QED
      BY <3>1, <3>2
  <2> QED
    BY <1>2, <1>3, <2>4, <2>6, <2>7, <2>8 DEF IInv
<1> QED
  BY <1>2, <1>5, <1>6, <1>7

LEMMA LinkGoogleSubInv ==
  ASSUME IInv, NEW r \in Requests, LinkGoogleSub(r)
  PROVE  IInv' /\ UsersGrow
<1> DEFINE row == [users[seen[r]] EXCEPT !.sub = job[r].person]
<1>1. /\ pc[r] = "linkSub" /\ Slot(r) /\ job[r] \in Job /\ job[r].person \in People
      /\ seen[r] \in Users /\ users[seen[r]] \in User
      /\ Person(users[seen[r]].email) = job[r].person
  BY DEF LinkGoogleSub, At, IInv, TypeOK, Slot, Job
<1>2. row \in User /\ row.email = users[seen[r]].email /\ row.sub = job[r].person
  BY <1>1 DEF User
<1>3. users[seen[r]].sub # None => users[seen[r]].sub = job[r].person
  BY <1>1, NoneAssumption DEF IInv, RowsOK
<1>4. \/ Taken(seen[r], row) /\ Finish(r, "conflict") /\ UNCHANGED <<users, history>>
      \/ /\ ~ Taken(seen[r], row)
         /\ users' = [users EXCEPT ![seen[r]] = row]
         /\ \/ Goto(r, "reload") /\ UNCHANGED history
            \/ AnswerLost(r)
  BY DEF LinkGoogleSub
<1>5. UNCHANGED <<links, mailed, world, issued>>
  BY DEF LinkGoogleSub
<1> HIDE DEF row
<1>6. CASE Taken(seen[r], row) /\ Finish(r, "conflict") /\ UNCHANGED <<users, history>>
  <2>1. Rows(job[r].person) # {}
    BY <1>1, NoneAssumption DEF Rows
  <2>2. cutOff' \in SUBSET Links /\ cutOff \subseteq cutOff'
    BY <1>6 DEF history, IInv, TypeOK
  <2>3. UsersGrow
    BY <1>6 DEF UsersGrow
  <2> QED
    BY <1>5, <1>6, <2>1, <2>2, <2>3, FinishInv DEF history
<1>7. CASE /\ ~ Taken(seen[r], row)
           /\ users' = [users EXCEPT ![seen[r]] = row]
           /\ \/ Goto(r, "reload") /\ UNCHANGED history
              \/ AnswerLost(r)
  <2>1. Goto(r, "reload") => /\ pc' = [pc EXCEPT ![r] = "reload"]
                             /\ seen' = [seen EXCEPT ![r] = seen[r]]
                             /\ UNCHANGED <<job, reply>>
    BY DEF Goto, IInv, TypeOK
  <2> QED
    BY <1>1, <1>2, <1>3, <1>5, <1>7, <2>1, RowWritten
<1> QED
  BY <1>4, <1>6, <1>7

LEMMA CreateUserInv ==
  ASSUME IInv, NEW r \in Requests, CreateUser(r)
  PROVE  IInv' /\ UsersGrow
<1> DEFINE row == [email |-> job[r].email,
                   sub |-> IF Is(r, "google") THEN job[r].person ELSE None]
<1>1. /\ pc[r] = "provision" /\ Slot(r) /\ job[r] \in Job
      /\ job[r].person \in People /\ job[r].email \in Address
      /\ Person(job[r].email) = job[r].person
  BY DEF CreateUser, At, IInv, TypeOK, Slot, Job
<1>2. /\ row \in User /\ row.email = job[r].email
      /\ row.sub # None => row.sub = job[r].person
      /\ job[r].kind = "google" => row.sub = job[r].person
  BY <1>1 DEF User, Is
<1>3. PICK u \in Users :
        /\ users[u] = None
        /\ \/ /\ Taken(u, row)
              /\ Finish(r, "conflict") /\ UNCHANGED <<users, history>>
           \/ /\ ~ Taken(u, row)
              /\ users' = [users EXCEPT ![u] = row]
              /\ \/ Take(r, "reload", u) /\ UNCHANGED history
                 \/ AnswerLost(r)
  BY DEF CreateUser
<1>4. UNCHANGED <<links, mailed, world, issued>>
  BY DEF CreateUser
<1> HIDE DEF row
<1>5. CASE Taken(u, row) /\ Finish(r, "conflict") /\ UNCHANGED <<users, history>>
  <2>1. Rows(job[r].person) # {}
    <3>1. PICK v \in Users : /\ users[v] # None
                             /\ \/ users[v].email = row.email
                                \/ row.sub # None /\ users[v].sub = row.sub
      BY <1>5 DEF Taken
    <3>2. Person(users[v].email) = job[r].person
      BY <3>1, <1>1, <1>2 DEF IInv, RowsOK
    <3> QED
      BY <3>1, <3>2 DEF Rows
  <2>2. cutOff' \in SUBSET Links /\ cutOff \subseteq cutOff'
    BY <1>5 DEF history, IInv, TypeOK
  <2>3. UsersGrow
    BY <1>5 DEF UsersGrow
  <2> QED
    BY <1>4, <1>5, <2>1, <2>2, <2>3, FinishInv DEF history
<1>6. CASE /\ ~ Taken(u, row)
           /\ users' = [users EXCEPT ![u] = row]
           /\ \/ Take(r, "reload", u) /\ UNCHANGED history
              \/ AnswerLost(r)
  <2>1. Take(r, "reload", u) => /\ pc' = [pc EXCEPT ![r] = "reload"]
                                /\ seen' = [seen EXCEPT ![r] = u]
                                /\ UNCHANGED <<job, reply>>
    BY DEF Take
  <2> QED
    BY <1>1, <1>2, <1>3, <1>4, <1>6, <2>1, RowWritten
<1> QED
  BY <1>3, <1>5, <1>6

LEMMA UpdateUserInv ==
  ASSUME IInv, NEW r \in Requests, UpdateUser(r)
  PROVE  IInv' /\ UsersGrow
<1> DEFINE row == [users[seen[r]] EXCEPT !.email = job[r].email]
<1>1. /\ pc[r] = "update" /\ Slot(r) /\ job[r] \in Job
      /\ job[r].person \in People /\ job[r].email \in Address
      /\ Person(job[r].email) = job[r].person
      /\ seen[r] \in Users /\ users[seen[r]] \in User
      /\ Person(users[seen[r]].email) = job[r].person
      /\ job[r].kind = "google" => users[seen[r]].sub = job[r].person
  BY DEF UpdateUser, At, IInv, TypeOK, Slot, Job
<1>2. row \in User /\ row.email = job[r].email /\ row.sub = users[seen[r]].sub
  BY <1>1 DEF User
<1>3. users[seen[r]].sub # None => users[seen[r]].sub = job[r].person
  BY <1>1, NoneAssumption DEF IInv, RowsOK
<1>4. \/ Taken(seen[r], row) /\ Finish(r, "conflict") /\ UNCHANGED <<users, history>>
      \/ /\ ~ Taken(seen[r], row)
         /\ users' = [users EXCEPT ![seen[r]] = row]
         /\ StartSession(r, seen[r]) \/ AnswerLost(r)
  BY DEF UpdateUser
<1>5. UNCHANGED <<links, mailed, world, issued>>
  BY DEF UpdateUser
<1> HIDE DEF row
<1>6. CASE Taken(seen[r], row) /\ Finish(r, "conflict") /\ UNCHANGED <<users, history>>
  <2>1. Rows(job[r].person) # {}
    BY <1>1, NoneAssumption DEF Rows
  <2>2. cutOff' \in SUBSET Links /\ cutOff \subseteq cutOff'
    BY <1>6 DEF history, IInv, TypeOK
  <2>3. UsersGrow
    BY <1>6 DEF UsersGrow
  <2> QED
    BY <1>5, <1>6, <2>1, <2>2, <2>3, FinishInv DEF history
<1>7. CASE /\ ~ Taken(seen[r], row)
           /\ users' = [users EXCEPT ![seen[r]] = row]
           /\ StartSession(r, seen[r]) \/ AnswerLost(r)
  BY <1>1, <1>2, <1>3, <1>5, <1>7, RowWritten
<1> QED
  BY <1>4, <1>6, <1>7

LEMMA ReloadInv ==
  ASSUME IInv, NEW r \in Requests, Reload(r)
  PROVE  IInv'
<1> USE DEF Reload, At, world
<1>1. UsersGrow
  BY DEF UsersGrow
<1>2. /\ SessionsOK' /\ sessions' \subseteq Session /\ signins' \in [Links -> Nat]
      /\ \A l \in Links : signins'[l] = 0 => signins[l] = 0 /\ job[r].link # l
  BY <1>1, SessionStarts
<1>3. Finish(r, "session") /\ UNCHANGED cutOff
  BY DEF StartSession
<1>4. TypeOK'
  BY <1>2, <1>3 DEF IInv, TypeOK, Finish
<1>5. RowsOK' /\ LinksOK'
  BY DEF IInv, RowsOK, LinksOK
<1>6. \A q \in Requests \ {r} : /\ pc'[q] = pc[q] /\ job'[q] = job[q]
                                /\ seen'[q] = seen[q] /\ reply'[q] = reply[q]
  BY <1>3 DEF IInv, TypeOK, Finish
<1>7. ASSUME NEW l \in Links PROVE Kept(l)'
  BY <1>1, <1>2, <1>3, <1>6, KeptStays
<1>8. ASSUME NEW q \in Requests PROVE Slot(q)'
  <2>1. CASE q = r
    BY <2>1, <1>3 DEF Slot, Finish, IInv, TypeOK
  <2>2. CASE q # r
    BY <2>2, <1>1, <1>6, SlotStays
  <2> QED
    BY <2>1, <2>2
<1> QED
  BY <1>2, <1>4, <1>5, <1>7, <1>8 DEF IInv

-----------------------------------------------------------------------------
(* The invariant of the specification.                                     *)

LEMMA StutterInv ==
  ASSUME IInv, UNCHANGED vars
  PROVE  IInv'
<1> USE DEF vars
<1>1. TypeOK'
  BY DEF IInv, TypeOK
<1>2. RowsOK' /\ LinksOK' /\ SessionsOK'
  BY DEF IInv, RowsOK, LinksOK, SessionsOK
<1>3. (\A l \in Links : Kept(l))'
  BY DEF IInv, Kept, Rows
<1>4. (\A q \in Requests : Slot(q))'
  BY DEF IInv, Slot
<1> QED
  BY <1>1, <1>2, <1>3, <1>4 DEF IInv

LEMMA StepInv ==
  ASSUME IInv, [Next]_vars
  PROVE  IInv' /\ UsersGrow
<1>1. ASSUME NEW r \in Requests, NEW j \in Job, Accept(r, j)
      PROVE  IInv' /\ UsersGrow
  BY <1>1, AcceptInv DEF Accept, UsersGrow
<1>2. ASSUME NEW r \in Requests, LinkGoogleSub(r) \/ CreateUser(r) \/ UpdateUser(r)
      PROVE  IInv' /\ UsersGrow
  BY <1>2, LinkGoogleSubInv, CreateUserInv, UpdateUserInv
<1>3. ASSUME NEW r \in Requests,
             \/ Exchange(r) \/ FindByGoogleSub(r) \/ FindByEmail(r) \/ Reload(r)
             \/ StoreLink(r) \/ MailLink(r) \/ FindLink(r) \/ MarkUsed(r)
      PROVE  IInv' /\ UsersGrow
  <2>1. IInv'
    BY <1>3, ExchangeInv, FindByGoogleSubInv, FindByEmailInv, ReloadInv,
       StoreLinkInv, MailLinkInv, FindLinkInv, MarkUsedInv
  <2>2. UNCHANGED users
    BY <1>3 DEF Exchange, FindByGoogleSub, FindByEmail, Reload, StoreLink,
       MailLink, FindLink, MarkUsed
  <2> QED
    BY <2>1, <2>2 DEF UsersGrow
<1>4. ASSUME NEW r \in Requests, Fail(r) PROVE IInv' /\ UsersGrow
  BY <1>4, FailInv DEF Fail, UsersGrow
<1>5. CASE Crash
  BY <1>5, CrashInv DEF Crash, UsersGrow
<1>6. CASE Tick
  BY <1>6, TickInv DEF Tick, UsersGrow
<1>7. CASE DeleteExpired
  BY <1>7, DeleteExpiredInv DEF DeleteExpired, UsersGrow
<1>8. ASSUME NEW p \in People, Rename(p) PROVE IInv' /\ UsersGrow
  BY <1>8, RenameInv DEF Rename, UsersGrow
<1>9. CASE UNCHANGED vars
  BY <1>9, StutterInv DEF vars, UsersGrow
<1> QED
  BY <1>1, <1>2, <1>3, <1>4, <1>5, <1>6, <1>7, <1>8, <1>9 DEF Next, Serve

LEMMA Invariance == Spec => []IInv
<1>1. IInv /\ [Next]_vars => IInv'
  BY StepInv
<1> QED
  BY InitInv, <1>1, PTL DEF Spec

-----------------------------------------------------------------------------
(* What the action properties say of a step.                               *)

\* Whoever is refused over a UNIQUE column has a user row.
LEMMA Refused ==
  ASSUME IInv, [Next]_vars, NEW r \in Requests, pc[r] # "idle",
         reply'[r] = "conflict"
  PROVE  Rows(job[r].person) # {}
<1>1. reply[r] = "none" /\ Slot(r) /\ job[r] \in Job
  BY DEF IInv, Slot
<1>2. reply \in [Requests -> {"none", "session", "sent", "expired", "used",
                              "conflict", "error"}]
  BY DEF IInv, TypeOK
<1>3. CASE pc[r] \in {"linkSub", "update"}
  BY <1>1, <1>3, NoneAssumption DEF IInv, TypeOK, Slot, Rows
<1>4. CASE CreateUser(r)
  <2> DEFINE row == [email |-> job[r].email,
                     sub |-> IF Is(r, "google") THEN job[r].person ELSE None]
  <2>1. /\ row.email = job[r].email
        /\ row.sub # None => row.sub = job[r].person
    OBVIOUS
  <2>2. PICK u \in Users :
          \/ Taken(u, row)
          \/ Take(r, "reload", u) \/ AnswerLost(r)
    BY <1>4 DEF CreateUser
  <2> HIDE DEF row
  <2>3. Taken(u, row)
    BY <2>2, <1>1, <1>2 DEF Take, AnswerLost, Finish
  <2>4. PICK v \in Users : /\ users[v] # None
                           /\ \/ users[v].email = row.email
                              \/ row.sub # None /\ users[v].sub = row.sub
    BY <2>3 DEF Taken
  <2>5. Person(users[v].email) = job[r].person
    BY <2>1, <2>4, <1>1 DEF IInv, RowsOK, Slot
  <2> QED
    BY <2>4, <2>5 DEF Rows
<1>5. ASSUME NEW q \in Requests, Serve(q), ~ CreateUser(q),
             pc[q] \notin {"linkSub", "update"}
      PROVE  reply'[r] # "conflict"
  BY <1>5, <1>1, <1>2 DEF Serve, Exchange, FindByGoogleSub, LinkGoogleSub,
     FindByEmail, Reload, UpdateUser, StoreLink, MailLink, FindLink, MarkUsed,
     At, Goto, Take, Finish, StartSession
<1>6. ASSUME NEW q \in Requests \ {r},
             LinkGoogleSub(q) \/ CreateUser(q) \/ UpdateUser(q)
      PROVE  reply'[r] = reply[r]
  BY <1>6, <1>2 DEF LinkGoogleSub, CreateUser, UpdateUser, Goto, Take, Finish,
     StartSession, AnswerLost
<1>7. ASSUME NEW q \in Requests, Serve(q), pc[q] \in {"linkSub", "update"}
      PROVE  LinkGoogleSub(q) \/ UpdateUser(q)
  BY <1>7 DEF Serve, Exchange, FindByGoogleSub, FindByEmail, CreateUser, Reload,
     StoreLink, MailLink, FindLink, MarkUsed, At
<1>8. ASSUME NEW q \in Requests, NEW j \in Job, Accept(q, j)
      PROVE  reply'[r] # "conflict"
  BY <1>8, <1>1, <1>2 DEF Accept
<1>9. ASSUME NEW q \in Requests, Fail(q) PROVE reply'[r] # "conflict"
  BY <1>9, <1>1, <1>2 DEF Fail, Finish
<1>10. ASSUME \/ Crash \/ Tick \/ DeleteExpired \/ UNCHANGED vars
              \/ \E p \in People : Rename(p)
       PROVE  reply'[r] = reply[r]
  BY <1>10 DEF Crash, Tick, DeleteExpired, Rename, request, vars
<1> QED
  BY <1>1, <1>3, <1>4, <1>5, <1>6, <1>7, <1>8, <1>9, <1>10 DEF Next

\* A step of slot r that leaves a spent link alone.
LEMMA SpentStays ==
  ASSUME NEW l \in Links, Spent(l), NEW r \in Requests,
         mailed'[l] # None, now' = now,
         links'[l] = links[l],
         \A q \in Requests \ {r} : pc'[q] = pc[q] /\ job'[q] = job[q],
         \/ job'[r] = None \/ job'[r].link # l \/ pc'[r] \in {"find", "mail"}
  PROVE  Spent(l)'
BY DEF Spent

\* No session starts for a spent link.
LEMMA SpentNoSession ==
  ASSUME IInv, NEW l \in Links, Spent(l), NEW r \in Requests,
         pc[r] \in {"update", "reload"}, NEW u, StartSession(r, u)
  PROVE  signins'[l] = signins[l]
<1>1. job[r] # None /\ job[r].link # l
  BY NoneAssumption DEF IInv, Slot, Spent
<1> QED
  BY <1>1 DEF StartSession, IInv, TypeOK

LEMMA SpentServe ==
  ASSUME IInv, NEW l \in Links, Spent(l), NEW r \in Requests, Serve(r)
  PROVE  Spent(l)' /\ signins'[l] = signins[l]
<1> USE DEF history, world, At
<1>1. pc[r] # "idle"
  BY DEF Serve, Exchange, FindByGoogleSub, LinkGoogleSub, FindByEmail,
     CreateUser, Reload, UpdateUser, StoreLink, MailLink, FindLink, MarkUsed
<1>2. /\ job[r] \in Job /\ job[r] # None /\ mailed[l] # None
      /\ job[r].link = l => pc[r] \in {"find", "mail"}
  BY <1>1, NoneAssumption DEF IInv, Slot, Spent
<1>3. /\ pc \in [Requests -> Steps \cup {"idle"}]
      /\ job \in [Requests -> Job \cup {None}]
      /\ links \in [Links -> Link \cup {None}]
      /\ mailed \in [Links -> Address \cup {None}]
      /\ signins \in [Links -> Nat]
  BY DEF IInv, TypeOK
<1>4. CASE Exchange(r)
  <2>1. job'[r].link = job[r].link
    BY <1>2, <1>3, <1>4 DEF Exchange, Job
  <2> QED
    BY <1>2, <1>3, <1>4, <2>1, SpentStays DEF Exchange
<1>5. CASE FindByGoogleSub(r) \/ FindByEmail(r)
  <2>1. /\ UNCHANGED <<job, links, mailed, now, signins>>
        /\ job[r].link # l
        /\ \A q \in Requests \ {r} : pc'[q] = pc[q]
    BY <1>2, <1>3, <1>5 DEF FindByGoogleSub, FindByEmail, Goto, Take
  <2> QED
    BY <1>2, <2>1, SpentStays
<1>6. CASE LinkGoogleSub(r) \/ CreateUser(r)
  <2>1. /\ UNCHANGED <<links, mailed, now, signins>>
        /\ job[r].link # l
        /\ job'[r] = None \/ job'[r] = job[r]
        /\ \A q \in Requests \ {r} : pc'[q] = pc[q] /\ job'[q] = job[q]
    BY <1>2, <1>3, <1>6 DEF LinkGoogleSub, CreateUser, Goto, Take, Finish, AnswerLost
  <2> QED
    BY <1>2, <2>1, SpentStays
<1>7. CASE Reload(r) \/ UpdateUser(r)
  <2>1. /\ UNCHANGED <<links, mailed, now>>
        /\ pc[r] \in {"update", "reload"}
        /\ job'[r] = None
        /\ \A q \in Requests \ {r} : pc'[q] = pc[q] /\ job'[q] = job[q]
    BY <1>3, <1>7 DEF Reload, UpdateUser, StartSession, Finish, AnswerLost
  <2>2. StartSession(r, seen[r]) \/ UNCHANGED signins
    BY <1>7 DEF Reload, UpdateUser, AnswerLost
  <2> QED
    BY <1>2, <2>1, <2>2, SpentStays, SpentNoSession
<1>8. CASE StoreLink(r)
  <2>1. PICK k \in Links :
          /\ Fresh(k)
          /\ links' = [links EXCEPT ![k] =
               [email |-> job[r].email, expires |-> now + Expiry, used |-> FALSE]]
          /\ \/ /\ job' = [job EXCEPT ![r].link = k]
                /\ pc' = [pc EXCEPT ![r] = "mail"]
             \/ Finish(r, "error")
    BY <1>8 DEF StoreLink
  <2>2. k # l /\ links'[l] = links[l]
    BY <2>1, <1>2, <1>3 DEF Fresh
  <2>3. /\ UNCHANGED <<mailed, now, signins>>
        /\ job'[r] = None \/ job'[r].link = k
        /\ \A q \in Requests \ {r} : pc'[q] = pc[q] /\ job'[q] = job[q]
    BY <1>2, <1>3, <1>8, <2>1 DEF StoreLink, Finish, Job
  <2> QED
    BY <1>2, <2>2, <2>3, SpentStays
<1>9. CASE MailLink(r)
  <2>1. mailed'[l] # None
    BY <1>2, <1>3, <1>9, NoneAssumption DEF MailLink, Job
  <2>2. /\ UNCHANGED <<links, now, signins>>
        /\ job'[r] = None
        /\ \A q \in Requests \ {r} : pc'[q] = pc[q] /\ job'[q] = job[q]
    BY <1>3, <1>9 DEF MailLink, Finish
  <2> QED
    BY <2>1, <2>2, SpentStays
<1>10. CASE FindLink(r)
  <2>1. /\ UNCHANGED <<links, mailed, now, signins>>
        /\ \A q \in Requests \ {r} : pc'[q] = pc[q] /\ job'[q] = job[q]
    BY <1>3, <1>10 DEF FindLink, Finish
  <2>2. job'[r] = None \/ job'[r].link # l
    <3>1. CASE job[r].link = l
      <4>1. /\ links[l] # None /\ now <= links[l].expires => links[l].used
            /\ links[l] # None => links[l].expires \in Int
        BY <1>3, NoneAssumption DEF Spent, Link, IInv, TypeOK, Time
      <4> QED
        BY <3>1, <4>1, <1>3, <1>10 DEF FindLink, Finish
    <3>2. CASE job[r].link # l
      BY <3>2, <1>2, <1>3, <1>10 DEF FindLink, Finish, Job
    <3> QED
      BY <3>1, <3>2
  <2> QED
    BY <1>2, <2>1, <2>2, SpentStays
<1>11. CASE MarkUsed(r)
  <2>1. /\ job[r].link # l /\ links'[l] = links[l]
    BY <1>2, <1>3, <1>11 DEF MarkUsed
  <2>2. /\ UNCHANGED <<mailed, now, signins>>
        /\ job'[r] = None \/ job'[r] = job[r]
        /\ \A q \in Requests \ {r} : pc'[q] = pc[q] /\ job'[q] = job[q]
    BY <1>2, <1>3, <1>11 DEF MarkUsed, Goto, Finish
  <2> QED
    BY <1>2, <2>1, <2>2, SpentStays
<1> QED
  BY <1>4, <1>5, <1>6, <1>7, <1>8, <1>9, <1>10, <1>11 DEF Serve

LEMMA SpentStep ==
  ASSUME IInv, NEW l \in Links, Spent(l), [Next]_vars
  PROVE  Spent(l)' /\ signins'[l] = signins[l]
<1> USE DEF history, world, At
<1>1. /\ pc \in [Requests -> Steps \cup {"idle"}]
      /\ job \in [Requests -> Job \cup {None}]
      /\ links \in [Links -> Link \cup {None}]
      /\ mailed[l] # None
  BY DEF IInv, TypeOK, Spent
<1>2. ASSUME NEW r \in Requests, NEW j \in Job, Accept(r, j)
      PROVE  Spent(l)' /\ signins'[l] = signins[l]
  <2>1. /\ UNCHANGED <<links, mailed, now, signins>>
        /\ \A q \in Requests \ {r} : pc'[q] = pc[q] /\ job'[q] = job[q]
        /\ job'[r] = j
        /\ j.kind = "verify" => pc'[r] = "find"
        /\ j.kind # "verify" => j.link = None
    BY <1>1, <1>2 DEF Accept
  <2>2. j.kind # "verify" => j.link # l
    BY <2>1, NoneAssumption
  <2> QED
    BY <1>1, <2>1, <2>2, SpentStays
<1>3. ASSUME NEW r \in Requests, Fail(r)
      PROVE  Spent(l)' /\ signins'[l] = signins[l]
  <2>1. /\ UNCHANGED <<links, mailed, now, signins>>
        /\ \A q \in Requests \ {r} : pc'[q] = pc[q] /\ job'[q] = job[q]
        /\ job'[r] = None
    BY <1>1, <1>3 DEF Fail, Finish
  <2> QED
    BY <1>1, <2>1, SpentStays
<1>4. CASE Crash
  BY <1>1, <1>4 DEF Crash, Spent
<1>5. CASE Tick
  <2>1. links[l] # None => links[l].expires \in Int
    BY <1>1 DEF Link
  <2>2. now \in Int /\ now' = now + 1
    BY <1>5 DEF Tick, IInv, TypeOK, Time
  <2>3. UNCHANGED <<pc, job, links, mailed, signins>>
    BY <1>5 DEF Tick, request
  <2>4. \/ links[l] = None \/ links[l].used \/ links[l].expires < now'
    BY <2>1, <2>2 DEF Spent
  <2> QED
    BY <2>3, <2>4 DEF Spent
<1>6. CASE DeleteExpired
  BY <1>1, <1>6 DEF DeleteExpired, Spent, request
<1>7. ASSUME NEW p \in People, Rename(p)
      PROVE  Spent(l)' /\ signins'[l] = signins[l]
  BY <1>7 DEF Rename, Spent, request
<1>8. CASE UNCHANGED vars
  BY <1>8 DEF vars, Spent
<1> QED
  BY <1>2, <1>3, <1>4, <1>5, <1>6, <1>7, <1>8, SpentServe DEF Next

-----------------------------------------------------------------------------
(* How often a link signs in.                                              *)

\* Verifications of link l that have passed the check of its row.
Past(l) == {r \in Requests : pc[r] \in {"mark"} \cup AfterMark /\ job[r].link = l}

\* A link nobody passes the check of any more, and nobody draws again.
Closed(l) == mailed[l] # None /\ (links[l] = None \/ links[l].used)

\* Only mailed links are verified; the first verification to go on closes the
\* link, and those past its check make up for the sessions it has started.
BoundInv ==
  /\ \A r \in Requests : pc[r] # "idle" /\ job[r].kind = "verify" =>
       mailed[job[r].link] # None
  /\ \A l \in Links :
       /\ signins[l] > 0 => Closed(l)
       /\ \A r \in Requests : pc[r] \in AfterMark /\ job[r].link = l => Closed(l)
       /\ signins[l] + Cardinality(Past(l)) <= Cardinality(Requests)

LEMMA PastFinite ==
  ASSUME NEW S \in SUBSET Requests
  PROVE  /\ IsFiniteSet(S) /\ Cardinality(S) \in Nat
         /\ Cardinality(S) <= Cardinality(Requests)
         /\ Cardinality(Requests) \in Nat
         /\ \A T \in SUBSET S : Cardinality(T) \in Nat /\ Cardinality(T) <= Cardinality(S)
         /\ \A r \in S : Cardinality(S \ {r}) = Cardinality(S) - 1
<1>1. IsFiniteSet(S)
  BY RequestsAssumption, FS_Subset
<1>2. Cardinality(S) <= Cardinality(Requests)
  BY RequestsAssumption, FS_Subset
<1>3. ASSUME NEW T \in SUBSET S
      PROVE  Cardinality(T) \in Nat /\ Cardinality(T) <= Cardinality(S)
  BY <1>1, FS_Subset, FS_CardinalityType
<1>4. \A r \in S : Cardinality(S \ {r}) = Cardinality(S) - 1
  BY <1>1, FS_RemoveElement
<1> QED
  BY <1>1, <1>2, <1>3, <1>4, RequestsAssumption, FS_CardinalityType

\* A request past the check of link l verifies l.
LEMMA PastVerifies ==
  ASSUME IInv, NEW l \in Links, NEW r \in Past(l)
  PROVE  r \in Requests /\ job[r].kind = "verify" /\ pc[r] # "idle"
BY NoneAssumption DEF IInv, Slot, Past, AfterMark, Job

\* A step of slot r alone, as far as link l can tell.
OwnStep(r, l) ==
  /\ \A q \in Requests \ {r} : pc'[q] = pc[q] /\ job'[q] = job[q]
  /\ mailed[l] # None => mailed'[l] # None
  /\ Closed(l) => Closed(l)'
  /\ r \notin Past(l) /\ Closed(l) => r \notin Past(l)'
  /\ pc'[r] \in AfterMark /\ job'[r].link = l =>
       Closed(l)' \/ (pc[r] \in AfterMark /\ job[r].link = l)
  /\ signins'[l] \in {signins[l], signins[l] + 1}
  /\ signins'[l] # signins[l] =>
       pc[r] \in AfterMark /\ job[r].link = l /\ r \notin Past(l)'

LEMMA OwnStepBound ==
  ASSUME IInv, BoundInv, NEW r \in Requests, NEW l \in Links, OwnStep(r, l)
  PROVE  /\ signins'[l] > 0 => Closed(l)'
         /\ \A q \in Requests : pc'[q] \in AfterMark /\ job'[q].link = l => Closed(l)'
         /\ signins'[l] + Cardinality(Past(l)') <= Cardinality(Requests)
<1>1. signins[l] \in Nat
  BY DEF IInv, TypeOK
<1>2. \A q \in Requests : pc'[q] \in AfterMark /\ job'[q].link = l => Closed(l)'
  BY DEF BoundInv, OwnStep
<1>3. signins'[l] > 0 => Closed(l)'
  BY <1>1 DEF BoundInv, OwnStep
<1>4. Past(l) \subseteq Requests /\ Past(l)' \subseteq Requests
  BY DEF Past
<1>5. /\ Cardinality(Past(l)) \in Nat /\ Cardinality(Past(l)') \in Nat
      /\ Cardinality(Requests) \in Nat
      /\ Cardinality(Past(l)') <= Cardinality(Requests)
  BY <1>4, PastFinite
<1>6. CASE Closed(l)
  <2>1. Past(l)' \subseteq Past(l)
    BY <1>6 DEF OwnStep, Past
  <2>2. CASE signins'[l] = signins[l]
    <3>1. Cardinality(Past(l)') <= Cardinality(Past(l))
      BY <1>4, <2>1, PastFinite
    <3> QED
      BY <1>1, <1>2, <1>3, <1>5, <2>2, <3>1 DEF BoundInv
  <2>3. CASE signins'[l] # signins[l]
    <3>1. /\ r \in Past(l) /\ Past(l)' \subseteq Past(l) \ {r}
          /\ signins'[l] = signins[l] + 1
      BY <2>1, <2>3 DEF OwnStep, Past
    <3>2. Cardinality(Past(l) \ {r}) = Cardinality(Past(l)) - 1
      BY <1>4, <3>1, PastFinite
    <3>3. Cardinality(Past(l)') <= Cardinality(Past(l) \ {r})
      BY <1>4, <3>1, PastFinite
    <3>4. signins[l] + Cardinality(Past(l)) <= Cardinality(Requests)
      BY DEF BoundInv
    <3> QED
      BY <1>1, <1>2, <1>3, <1>5, <3>1, <3>2, <3>3, <3>4
  <2> QED
    BY <2>2, <2>3
<1>7. CASE ~ Closed(l)
  <2>1. signins[l] = 0 /\ signins'[l] = 0
    BY <1>1, <1>7 DEF BoundInv, OwnStep
  <2> QED
    BY <1>2, <1>5, <2>1
<1> QED
  BY <1>6, <1>7

\* A step that leaves the links alone and brings nobody past the check of l.
LEMMA QuietOwn ==
  ASSUME NEW r \in Requests, NEW l \in Links,
         UNCHANGED <<links, mailed, signins>>,
         \A q \in Requests \ {r} : pc'[q] = pc[q] /\ job'[q] = job[q],
         pc'[r] \in {"mark"} \cup AfterMark /\ job'[r].link = l =>
           pc[r] \in AfterMark /\ job[r].link = l
  PROVE  OwnStep(r, l)
BY DEF OwnStep, Closed, Past

\* StartSession: the session of a verification is its last step.
LEMMA SessionOwn ==
  ASSUME IInv, NEW r \in Requests, NEW l \in Links,
         pc[r] \in {"update", "reload"}, NEW u, StartSession(r, u),
         UNCHANGED <<links, mailed>>
  PROVE  OwnStep(r, l)
<1>1. /\ pc'[r] = "idle"
      /\ \A q \in Requests \ {r} : pc'[q] = pc[q] /\ job'[q] = job[q]
      /\ signins'[l] = IF job[r].link = l THEN signins[l] + 1 ELSE signins[l]
  BY DEF IInv, TypeOK, StartSession, Finish
<1> QED
  BY <1>1 DEF OwnStep, Closed, Past, AfterMark

LEMMA ServeOwn ==
  ASSUME IInv, BoundInv, NEW r \in Requests, Serve(r), NEW l \in Links
  PROVE  OwnStep(r, l)
<1> USE DEF history, world, At, AfterMark
<1>1. pc[r] # "idle"
  BY DEF Serve, Exchange, FindByGoogleSub, LinkGoogleSub, FindByEmail,
     CreateUser, Reload, UpdateUser, StoreLink, MailLink, FindLink, MarkUsed
<1>2. /\ job[r] \in Job /\ job[r] # None
      /\ pc[r] \in {"exchange", "bySub", "linkSub"} => job[r].link # l
      /\ pc[r] \in {"find", "mark"} => job[r].kind = "verify" /\ job[r].link \in Links
  BY <1>1, NoneAssumption DEF IInv, Slot, Job
<1>3. /\ pc \in [Requests -> Steps \cup {"idle"}]
      /\ job \in [Requests -> Job \cup {None}]
      /\ links \in [Links -> Link \cup {None}]
      /\ mailed \in [Links -> Address \cup {None}]
  BY DEF IInv, TypeOK
<1>4. CASE Exchange(r)
  <2>1. /\ pc'[r] = "bySub"
        /\ \A q \in Requests \ {r} : pc'[q] = pc[q] /\ job'[q] = job[q]
    BY <1>3, <1>4 DEF Exchange
  <2> QED
    BY <1>4, <2>1, QuietOwn DEF Exchange
<1>5. CASE FindByGoogleSub(r) \/ FindByEmail(r)
  <2>1. /\ UNCHANGED <<job, links, mailed, signins>>
        /\ pc[r] = "bySub" \/ pc[r] = "byEmail"
        /\ \A q \in Requests \ {r} : pc'[q] = pc[q]
    BY <1>3, <1>5 DEF FindByGoogleSub, FindByEmail, Goto, Take
  <2> QED
    BY <1>2, <2>1, QuietOwn
<1>6. CASE LinkGoogleSub(r) \/ CreateUser(r)
  <2>1. /\ UNCHANGED <<links, mailed, signins>>
        /\ pc[r] = "linkSub" \/ pc[r] = "provision"
        /\ pc'[r] = "idle" \/ job'[r] = job[r]
        /\ \A q \in Requests \ {r} : pc'[q] = pc[q] /\ job'[q] = job[q]
    BY <1>3, <1>6 DEF LinkGoogleSub, CreateUser, Goto, Take, Finish, AnswerLost
  <2> QED
    BY <1>2, <2>1, QuietOwn
<1>7. CASE Reload(r) \/ UpdateUser(r)
  <2>1. /\ UNCHANGED <<links, mailed>>
        /\ pc[r] \in {"update", "reload"} /\ pc'[r] = "idle"
        /\ \A q \in Requests \ {r} : pc'[q] = pc[q] /\ job'[q] = job[q]
    BY <1>3, <1>7 DEF Reload, UpdateUser, StartSession, Finish, AnswerLost
  <2>2. StartSession(r, seen[r]) \/ UNCHANGED signins
    BY <1>7 DEF Reload, UpdateUser, AnswerLost
  <2> QED
    BY <2>1, <2>2, SessionOwn, QuietOwn
<1>8. CASE StoreLink(r)
  <2>1. PICK k \in Links :
          /\ Fresh(k)
          /\ links' = [links EXCEPT ![k] =
               [email |-> job[r].email, expires |-> now + Expiry, used |-> FALSE]]
    BY <1>8 DEF StoreLink
  <2>2. Closed(l) => k # l
    BY <2>1 DEF Fresh, Closed
  <2>3. /\ UNCHANGED <<mailed, signins>> /\ pc[r] = "store"
        /\ pc'[r] \in {"mail", "idle"}
        /\ \A q \in Requests \ {r} : pc'[q] = pc[q] /\ job'[q] = job[q]
    BY <1>3, <1>8 DEF StoreLink, Finish
  <2>4. Closed(l) => Closed(l)'
    BY <1>3, <2>1, <2>2, <2>3 DEF Closed
  <2> QED
    BY <2>3, <2>4 DEF OwnStep, Past
<1>9. CASE MailLink(r)
  <2>1. mailed[l] # None => mailed'[l] # None
    BY <1>2, <1>3, <1>9, NoneAssumption DEF MailLink, Job
  <2>2. /\ UNCHANGED <<links, signins>> /\ pc'[r] = "idle"
        /\ \A q \in Requests \ {r} : pc'[q] = pc[q] /\ job'[q] = job[q]
    BY <1>3, <1>9 DEF MailLink, Finish
  <2> QED
    BY <2>1, <2>2 DEF OwnStep, Closed, Past
<1>10. CASE FindLink(r)
  <2>1. /\ UNCHANGED <<links, mailed, signins>> /\ pc[r] = "find"
        /\ \A q \in Requests \ {r} : pc'[q] = pc[q] /\ job'[q] = job[q]
        /\ pc'[r] \in {"idle", "mark"}
        /\ pc'[r] = "mark" => /\ links[job[r].link] # None /\ ~ links[job[r].link].used
                              /\ job'[r].link = job[r].link
    BY <1>2, <1>3, <1>10 DEF FindLink, Finish, Job
  <2> QED
    BY <2>1 DEF OwnStep, Closed, Past
<1>11. CASE MarkUsed(r)
  <2>1. PICK k \in Links : /\ k = job[r].link /\ mailed[k] # None
                           /\ links' = [links EXCEPT ![k] = IF links[k] = None THEN None
                                          ELSE [links[k] EXCEPT !.used = TRUE]]
    BY <1>1, <1>2, <1>11 DEF MarkUsed, BoundInv
  <2>2. /\ links'[k] = None \/ links'[k].used
        /\ k # l => links'[l] = links[l]
    BY <1>3, <2>1 DEF Link
  <2>3. /\ UNCHANGED <<mailed, signins>> /\ pc[r] = "mark"
        /\ \A q \in Requests \ {r} : pc'[q] = pc[q] /\ job'[q] = job[q]
        /\ pc'[r] = "idle" \/ job'[r] = job[r]
    BY <1>3, <1>11 DEF MarkUsed, Goto, Finish
  <2>4. (Closed(l) => Closed(l)') /\ Closed(k)'
    BY <2>1, <2>2, <2>3 DEF Closed
  <2>5. r \notin Past(l) => r \notin Past(l)'
    BY <1>11, <2>3 DEF Past, MarkUsed, Goto, Finish, IInv, TypeOK
  <2> QED
    BY <2>1, <2>3, <2>4, <2>5 DEF OwnStep
<1> QED
  BY <1>4, <1>5, <1>6, <1>7, <1>8, <1>9, <1>10, <1>11 DEF Serve

\* A verification keeps its link, and a mailed link is mailed for good.
LEMMA ServeMailed ==
  ASSUME IInv, NEW r \in Requests, Serve(r)
  PROVE  /\ \A q \in Requests \ {r} : pc'[q] = pc[q] /\ job'[q] = job[q]
         /\ \A l \in Links : mailed[l] # None => mailed'[l] # None
         /\ pc'[r] # "idle" /\ job'[r].kind = "verify" =>
              pc[r] # "idle" /\ job[r].kind = "verify" /\ job'[r].link = job[r].link
<1>1. pc[r] # "idle" /\ Slot(r) /\ job[r] \in Job /\ job[r].email \in Address
  BY DEF IInv, Slot, Job, At, Serve, Exchange, FindByGoogleSub, LinkGoogleSub,
     FindByEmail, CreateUser, Reload, UpdateUser, StoreLink, MailLink, FindLink,
     MarkUsed
<1>2. /\ pc \in [Requests -> Steps \cup {"idle"}]
      /\ job \in [Requests -> Job \cup {None}]
      /\ mailed \in [Links -> Address \cup {None}]
  BY DEF IInv, TypeOK
<1>3. \A l \in Links : mailed[l] # None => mailed'[l] # None
  <2>1. CASE MailLink(r)
    BY <1>1, <1>2, <2>1, NoneAssumption DEF MailLink
  <2>2. CASE ~ MailLink(r)
    BY <2>2 DEF Serve, Exchange, FindByGoogleSub, LinkGoogleSub, FindByEmail,
       CreateUser, Reload, UpdateUser, StoreLink, FindLink, MarkUsed
  <2> QED
    BY <2>1, <2>2
<1>4. /\ \A q \in Requests \ {r} : pc'[q] = pc[q] /\ job'[q] = job[q]
      /\ \/ pc'[r] = "idle"
         \/ job'[r] = job[r]
         \/ job'[r].kind = job[r].kind /\ job'[r].link = job[r].link
         \/ job'[r].kind = "ask"
  <2>1. CASE Exchange(r) \/ FindLink(r)
    BY <1>1, <1>2, <2>1 DEF Exchange, FindLink, Finish, Job
  <2>2. CASE StoreLink(r)
    <3>1. job[r].kind = "ask"
      BY <1>1, <2>2 DEF StoreLink, At, Slot, Job, AfterMark
    <3> QED
      BY <1>1, <1>2, <2>2, <3>1 DEF StoreLink, Finish, Job
  <2>3. CASE ~ (Exchange(r) \/ FindLink(r) \/ StoreLink(r))
    BY <1>2, <2>3 DEF Serve, FindByGoogleSub, LinkGoogleSub, FindByEmail,
       CreateUser, Reload, UpdateUser, MailLink, MarkUsed, Goto, Take, Finish,
       StartSession, AnswerLost
  <2> QED
    BY <2>1, <2>2, <2>3
<1> QED
  BY <1>1, <1>3, <1>4

LEMMA OwnBound ==
  ASSUME IInv, BoundInv, NEW r \in Requests,
         \A q \in Requests \ {r} : pc'[q] = pc[q] /\ job'[q] = job[q],
         \A l \in Links : mailed[l] # None => mailed'[l] # None,
         pc'[r] # "idle" /\ job'[r].kind = "verify" => mailed'[job'[r].link] # None,
         \A l \in Links : OwnStep(r, l)
  PROVE  BoundInv'
<1>1. ASSUME NEW q \in Requests, pc'[q] # "idle", job'[q].kind = "verify"
      PROVE  mailed'[job'[q].link] # None
  <2>1. CASE q = r
    BY <1>1, <2>1
  <2>2. CASE q # r
    <3>1. pc[q] # "idle" /\ job[q].kind = "verify" /\ job'[q].link = job[q].link
      BY <1>1, <2>2
    <3>2. job[q].link \in Links
      BY <3>1 DEF IInv, Slot, Job
    <3> QED
      BY <3>1, <3>2 DEF BoundInv
  <2> QED
    BY <2>1, <2>2
<1>2. ASSUME NEW l \in Links
      PROVE  /\ signins'[l] > 0 => Closed(l)'
             /\ \A q \in Requests : pc'[q] \in AfterMark /\ job'[q].link = l => Closed(l)'
             /\ signins'[l] + Cardinality(Past(l)') <= Cardinality(Requests)
  BY <1>2, OwnStepBound
<1> QED
  BY <1>1, <1>2 DEF BoundInv

\* What leaves requests, links and sessions alone, or takes them away.
LEMMA ShrinkBound ==
  ASSUME IInv, BoundInv,
         \A q \in Requests : pc'[q] = "idle" \/ (pc'[q] = pc[q] /\ job'[q] = job[q]),
         \A l \in Links : links'[l] = None \/ links'[l] = links[l],
         UNCHANGED <<mailed, signins>>
  PROVE  BoundInv'
<1>1. ASSUME NEW l \in Links
      PROVE  /\ Closed(l) => Closed(l)'
             /\ Past(l)' \subseteq Past(l) /\ Past(l) \subseteq Requests
  BY DEF Closed, Past, AfterMark
<1>2. ASSUME NEW l \in Links
      PROVE  signins'[l] + Cardinality(Past(l)') <= Cardinality(Requests)
  <2>1. /\ Cardinality(Past(l)) \in Nat /\ Cardinality(Past(l)') \in Nat
        /\ Cardinality(Requests) \in Nat
        /\ Cardinality(Past(l)') <= Cardinality(Past(l))
    BY <1>1, PastFinite
  <2>2. signins[l] \in Nat /\ signins'[l] = signins[l]
    BY DEF IInv, TypeOK
  <2>3. signins[l] + Cardinality(Past(l)) <= Cardinality(Requests)
    BY DEF BoundInv
  <2> QED
    BY <2>1, <2>2, <2>3
<1>3. /\ \A r \in Requests : pc'[r] # "idle" /\ job'[r].kind = "verify" =>
           mailed'[job'[r].link] # None
      /\ \A l \in Links : /\ signins'[l] > 0 => Closed(l)'
                          /\ \A r \in Requests :
                               pc'[r] \in AfterMark /\ job'[r].link = l => Closed(l)'
  BY <1>1 DEF BoundInv, AfterMark
<1> QED
  BY <1>2, <1>3 DEF BoundInv

LEMMA StepBound ==
  ASSUME IInv, BoundInv, [Next]_vars
  PROVE  BoundInv'
<1> USE DEF history, world, At
<1>1. ASSUME NEW r \in Requests, NEW j \in Job, Accept(r, j) PROVE BoundInv'
  <2>1. /\ UNCHANGED <<links, mailed, signins>>
        /\ \A q \in Requests \ {r} : pc'[q] = pc[q] /\ job'[q] = job[q]
        /\ job'[r] = j /\ pc'[r] \in {"exchange", "store", "find"}
        /\ j.kind = "verify" => mailed[j.link] # None
    <3>1. j.kind \in {"google", "ask", "verify"} /\ j.email # None
      BY NoneAssumption DEF Job
    <3> QED
      BY <1>1, <3>1 DEF Accept, IInv, TypeOK
  <2>2. \A l \in Links : OwnStep(r, l)
    BY <2>1, QuietOwn DEF AfterMark
  <2> QED
    BY <2>1, <2>2, OwnBound
<1>2. ASSUME NEW r \in Requests, Serve(r) PROVE BoundInv'
  <2>1. \A l \in Links : OwnStep(r, l)
    BY <1>2, ServeOwn
  <2>2. pc'[r] # "idle" /\ job'[r].kind = "verify" => mailed'[job'[r].link] # None
    <3> SUFFICES ASSUME pc'[r] # "idle", job'[r].kind = "verify"
                 PROVE  mailed'[job'[r].link] # None
      OBVIOUS
    <3>1. pc[r] # "idle" /\ job[r].kind = "verify" /\ job'[r].link = job[r].link
      BY <1>2, ServeMailed
    <3>2. job[r].link \in Links /\ mailed[job[r].link] # None
      BY <3>1 DEF IInv, Slot, Job, BoundInv
    <3> QED
      BY <1>2, <3>1, <3>2, ServeMailed
  <2> QED
    BY <1>2, <2>1, <2>2, ServeMailed, OwnBound
<1>3. ASSUME NEW r \in Requests, Fail(r) PROVE BoundInv'
  <2>1. \A q \in Requests : pc'[q] = "idle" \/ (pc'[q] = pc[q] /\ job'[q] = job[q])
    BY <1>3 DEF Fail, Finish, IInv, TypeOK
  <2> QED
    BY <1>3, <2>1, ShrinkBound DEF Fail
<1>4. CASE Crash
  BY <1>4, ShrinkBound DEF Crash
<1>5. CASE Tick \/ \E p \in People : Rename(p)
  BY <1>5, ShrinkBound DEF Tick, Rename, request
<1>6. CASE DeleteExpired
  BY <1>6, ShrinkBound DEF DeleteExpired, request
<1>7. CASE UNCHANGED vars
  BY <1>7, ShrinkBound DEF vars
<1> QED
  BY <1>1, <1>2, <1>3, <1>4, <1>5, <1>6, <1>7 DEF Next


-----------------------------------------------------------------------------
(* Theorems.                                                               *)

\* Every state of the specification has the declared types.
THEOREM TypeCorrect == Spec => []TypeOK
<1>1. IInv => TypeOK
  BY DEF IInv
<1> QED
  BY <1>1, Invariance, PTL

\* Whatever sign-ins race, a session is for a user row of the person who
\* signed in.
THEOREM SessionsHeld == Spec => []SessionsOfOwner
<1>1. IInv => SessionsOfOwner
  BY DEF IInv, TypeOK, Session, SessionsOK, RowsOK, SessionsOfOwner, Rows
<1> QED
  BY <1>1, Invariance, PTL

\* All Google sign-ins of one account lead to one user.
THEOREM GoogleUserHeld == Spec => []OneGoogleUser
<1>1. IInv => OneGoogleUser
  <2> SUFFICES ASSUME IInv, NEW s \in sessions, NEW t \in sessions,
                      s.via = "google", t.via = "google", s.person = t.person
               PROVE  s.user = t.user
    BY DEF OneGoogleUser
  <2>1. s.user \in Users /\ t.user \in Users /\ s.person # None
    BY NoneAssumption DEF IInv, TypeOK, Session
  <2>2. /\ users[s.user] # None /\ users[s.user].sub = s.person
        /\ users[t.user] # None /\ users[t.user].sub = s.person
    BY DEF IInv, SessionsOK
  <2> QED
    BY <2>1, <2>2 DEF IInv, RowsOK
<1> QED
  BY <1>1, Invariance, PTL

\* A link consumed without a sign-in was cut off by a fault, is being served,
\* or its person has a user.
THEOREM LinkHeld == Spec => []LinkNotWasted
<1>1. IInv => LinkNotWasted
  BY DEF IInv, Kept, LinkNotWasted
<1> QED
  BY <1>1, Invariance, PTL

\* A link never starts more sessions than the server has request slots: the
\* verifications past its check when the first one closed it are the last.
THEOREM LinkBoundHeld == Spec => []LinkBounded
<1>1. Init => BoundInv
  <2> SUFFICES ASSUME Init, NEW l \in Links
               PROVE  signins[l] + Cardinality(Past(l)) <= Cardinality(Requests)
    BY DEF BoundInv, Init, AfterMark
  <2>1. Past(l) = {}
    BY DEF Past, Init, AfterMark
  <2> QED
    BY <2>1, FS_EmptySet, RequestsAssumption, FS_CardinalityType DEF Init
<1>2. IInv /\ BoundInv /\ [Next]_vars => BoundInv'
  BY StepBound
<1>3. IInv /\ BoundInv => LinkBounded
  <2> SUFFICES ASSUME IInv, BoundInv, NEW l \in Links
               PROVE  signins[l] <= Cardinality(Requests)
    BY DEF LinkBounded
  <2>1. signins[l] \in Nat
    BY DEF IInv, TypeOK
  <2>2. Past(l) \subseteq Requests
    BY DEF Past
  <2>3. Cardinality(Past(l)) \in Nat /\ Cardinality(Requests) \in Nat
    BY <2>2, PastFinite
  <2> QED
    BY <2>1, <2>3 DEF BoundInv
<1> QED
  BY <1>1, <1>2, <1>3, Invariance, PTL DEF Spec

\* A user keeps the Google account it was linked to.
THEOREM AccountHeld == Spec => GoogleAccountStays
<1>1. IInv /\ [Next]_vars =>
        [\A u \in Users : users[u] # None =>
           /\ users'[u] # None
           /\ users[u].sub # None => users'[u].sub = users[u].sub]_vars
  BY StepInv DEF UsersGrow
<1> QED
  BY <1>1, Invariance, PTL DEF GoogleAccountStays, Spec

\* A link used, expired or deleted, with nobody past its check, never signs
\* anyone in again.
THEOREM SpentHeld == Spec => SpentForGood
<1>1. IInv /\ [Next]_vars =>
        [\A l \in Links : Spent(l) => Spent(l)' /\ signins'[l] = signins[l]]_vars
  BY SpentStep
<1> QED
  BY <1>1, Invariance, PTL DEF SpentForGood, Spec

\* The UNIQUE columns turn a sign-in away only over a row of the same person.
THEOREM RefusalHeld == Spec => RefusedByOwnRow
<1>1. IInv /\ [Next]_vars =>
        [\A r \in Requests : pc[r] # "idle" /\ reply'[r] = "conflict" =>
           Rows(job[r].person) # {}]_vars
  BY Refused
<1> QED
  BY <1>1, Invariance, PTL DEF RefusedByOwnRow, Spec

-----------------------------------------------------------------------------
(* Accounts.                                                               *)

\* An address is its person's and has a name.
LEMMA AddressParts ==
  ASSUME NEW a \in Address
  PROVE  Person(a) \in People /\ a[2] \in Names /\ a = <<Person(a), a[2]>>
BY DEF Address, Person

LEMMA InitBook == Init => Book!Init
BY DEF Init, Book!Init

\* A session of a request is an entry of its person by a row of its own.
LEMMA SessionEnters ==
  ASSUME IInv, NEW r \in Requests, pc[r] \in {"update", "reload"},
         StartSession(r, seen[r])
  PROVE  Book!EnterBy(seen[r], job[r].kind) /\ job[r].kind \in {"google", "verify"}
<1>1. /\ job[r] \in Job /\ job[r].kind \in {"google", "verify"}
      /\ job[r].person \in People
      /\ users[seen[r]] # None
      /\ Person(users[seen[r]].email) = job[r].person
      /\ job[r].kind = "google" => users[seen[r]].sub = job[r].person
  BY DEF IInv, TypeOK, Slot, Job
<1>2. sessions' = sessions \cup
        {[user |-> seen[r], person |-> job[r].person, via |-> job[r].kind]}
  BY DEF StartSession
<1> QED
  BY <1>1, <1>2, NoneAssumption
     DEF Person, Book!EnterBy, Book!Exists, Book!Owner, Book!Attached

\* CreateUser opens an account or leaves the book alone.
LEMMA CreateOpens ==
  ASSUME IInv, NEW r \in Requests, CreateUser(r)
  PROVE  [Book!Next]_<<users, sessions>>
<1> DEFINE row == [email |-> job[r].email,
                   sub |-> IF Is(r, "google") THEN job[r].person ELSE None]
           p == job[r].person
           n == job[r].email[2]
<1>1. /\ job[r] \in Job /\ p \in People /\ n \in Names
      /\ job[r].email = <<p, n>>
  BY AddressParts DEF CreateUser, At, IInv, TypeOK, Slot, Job
<1>2. row = [email |-> <<p, n>>, sub |-> row.sub] /\ row.sub \in {None, p}
  BY <1>1
<1>3. PICK u \in Users :
        /\ users[u] = None
        /\ \/ Taken(u, row) /\ UNCHANGED <<users, history>>
           \/ /\ ~ Taken(u, row)
              /\ users' = [users EXCEPT ![u] = row]
              /\ UNCHANGED history \/ AnswerLost(r)
  BY DEF CreateUser
<1>4. row # None
  BY <1>1, <1>2, NoneAssumption DEF User, Address
<1> HIDE DEF row, p, n
<1>5. CASE ~ Taken(u, row) /\ users' = [users EXCEPT ![u] = row]
  <2>1. /\ \A v \in Users : users[v] # None => users[v].email # <<p, n>>
        /\ row.sub = p => \A v \in Users : users[v] # None => users[v].sub # p
    BY <1>1, <1>2, <1>3, <1>5, NoneAssumption DEF Taken
  <2>2. Book!Open(u)
    BY <1>1, <1>2, <1>3, <1>5, <2>1
       DEF Book!Open, Book!Exists, Book!Free, Book!Unattached
  <2>3. users'[u] # users[u]
    BY <1>3, <1>4, <1>5 DEF IInv, TypeOK
  <2>4. UNCHANGED sessions
    BY <1>3, <1>5 DEF AnswerLost, history
  <2> QED
    BY <2>2, <2>3, <2>4 DEF Book!Next, Book!Change
<1> QED
  BY <1>3, <1>5 DEF history

\* LinkGoogleSub attaches the account of the row's own person.
LEMMA LinkAttaches ==
  ASSUME IInv, NEW r \in Requests, LinkGoogleSub(r)
  PROVE  [Book!Next]_<<users, sessions>>
<1> DEFINE u == seen[r]
           p == job[r].person
           row == [users[u] EXCEPT !.sub = p]
<1>1. /\ p \in People /\ u \in Users /\ users[u] \in User /\ users[u] # None
      /\ users[u].email[1] = p
  BY NoneAssumption DEF LinkGoogleSub, At, IInv, TypeOK, Slot, Job, Person
<1>2. row.sub = p
  BY <1>1 DEF User
<1>3. UNCHANGED sessions
  BY DEF LinkGoogleSub, AnswerLost, history
<1>4. \/ UNCHANGED users
      \/ ~ Taken(u, row) /\ users' = [users EXCEPT ![u] = row]
  BY DEF LinkGoogleSub
<1>5. CASE users[u].sub # None
  <2>1. row = users[u]
    BY <1>1, <1>5 DEF IInv, RowsOK, Person, User
  <2> QED
    BY <1>3, <1>4, <2>1 DEF IInv, TypeOK
<1>6. CASE /\ users[u].sub = None
           /\ ~ Taken(u, row) /\ users' = [users EXCEPT ![u] = row]
  <2>1. users' = [users EXCEPT ![u].sub = p]
    BY <1>6
  <2> HIDE DEF row
  <2>2. \A v \in Users : users[v] # None => users[v].sub # p
    BY <1>1, <1>2, <1>6, NoneAssumption DEF Taken
  <2>3. Book!Attach(u)
    BY <1>1, <1>6, <2>1, <2>2
       DEF Book!Attach, Book!Exists, Book!Attached, Book!Unattached, Book!Owner
  <2>4. users'[u] # users[u]
    BY <1>1, <1>2, <1>6, NoneAssumption DEF IInv, TypeOK
  <2> QED
    BY <1>1, <1>3, <2>3, <2>4 DEF Book!Next, Book!Change
<1> QED
  BY <1>3, <1>4, <1>5, <1>6

\* UpdateUser moves an account to another address of its person, or leaves
\* it, and enters by it unless its answer is lost.
LEMMA UpdateEnters ==
  ASSUME IInv, NEW r \in Requests, UpdateUser(r)
  PROVE  [Book!Next]_<<users, sessions>>
<1> DEFINE u == seen[r]
           n == job[r].email[2]
           row == [users[u] EXCEPT !.email = job[r].email]
<1>1. /\ pc[r] = "update" /\ u \in Users /\ users[u] \in User /\ users[u] # None
      /\ n \in Names /\ job[r].email = <<users[u].email[1], n>>
  BY AddressParts, NoneAssumption
     DEF UpdateUser, At, IInv, TypeOK, Slot, Job, Person
<1>2. row.email = job[r].email
  BY <1>1 DEF User
<1>3. \/ UNCHANGED <<users, sessions>>
      \/ /\ ~ Taken(u, row) /\ users' = [users EXCEPT ![u] = row]
         /\ StartSession(r, u) \/ UNCHANGED sessions
  BY DEF UpdateUser, AnswerLost, history
<1>4. ASSUME ~ Taken(u, row), users' = [users EXCEPT ![u] = row], users' # users
      PROVE  Book!Move(u, n) /\ users'[u] # users[u]
  <2>1. row # users[u] /\ users'[u] = row
    BY <1>1, <1>4 DEF IInv, TypeOK
  <2>2. users[u].email # job[r].email
    BY <1>1, <2>1 DEF User
  <2>3. users' = [users EXCEPT ![u].email = <<users[u].email[1], n>>]
    BY <1>1, <1>4
  <2> HIDE DEF row
  <2>4. \A v \in Users : users[v] # None => users[v].email # job[r].email
    BY <1>2, <1>4, <2>2 DEF Taken
  <2> QED
    BY <1>1, <2>1, <2>3, <2>4
       DEF Book!Move, Book!Exists, Book!Free, Book!Owner
<1> HIDE DEF row
<1>5. CASE UNCHANGED sessions
  BY <1>1, <1>3, <1>4, <1>5 DEF Book!Next, Book!Change
<1>6. CASE /\ ~ Taken(u, row) /\ users' = [users EXCEPT ![u] = row]
           /\ StartSession(r, u) /\ sessions' # sessions
  <2>1. Book!EnterBy(u, job[r].kind) /\ job[r].kind \in {"google", "verify"}
    BY <1>1, <1>6, SessionEnters
  <2>2. UNCHANGED users \/ Book!Move(u, n)
    BY <1>4, <1>6
  <2>3. Book!Enter(u)
    BY <1>1, <2>1, <2>2 DEF Book!Enter
  <2> QED
    BY <1>1, <1>6, <2>3 DEF Book!Next
<1> QED
  BY <1>3, <1>5, <1>6

LEMMA ReloadEnters ==
  ASSUME IInv, NEW r \in Requests, Reload(r)
  PROVE  [Book!Next]_<<users, sessions>>
<1>1. pc[r] = "reload" /\ UNCHANGED users /\ StartSession(r, seen[r])
  BY DEF Reload, At
<1>2. seen[r] \in Users
  BY <1>1 DEF IInv, TypeOK, Slot
<1>3. Book!Enter(seen[r])
  BY <1>1, SessionEnters DEF Book!Enter
<1> QED
  BY <1>1, <1>2, <1>3 DEF Book!Next

\* Every step of the two ways of signing in is a step of Accounts or leaves
\* the book alone.
LEMMA StepBook ==
  ASSUME IInv, [Next]_vars
  PROVE  [Book!Next]_<<users, sessions>>
<1>1. ASSUME NEW r \in Requests,
             LinkGoogleSub(r) \/ CreateUser(r) \/ UpdateUser(r) \/ Reload(r)
      PROVE  [Book!Next]_<<users, sessions>>
  BY <1>1, LinkAttaches, CreateOpens, UpdateEnters, ReloadEnters
<1>2. ASSUME NEW r \in Requests,
             \/ Exchange(r) \/ FindByGoogleSub(r) \/ FindByEmail(r)
             \/ StoreLink(r) \/ MailLink(r) \/ FindLink(r) \/ MarkUsed(r)
             \/ Fail(r)
      PROVE  UNCHANGED <<users, sessions>>
  BY <1>2 DEF Exchange, FindByGoogleSub, FindByEmail, StoreLink, MailLink,
     FindLink, MarkUsed, Fail, history
<1>3. ASSUME NEW r \in Requests, NEW j \in Job, Accept(r, j)
      PROVE  UNCHANGED <<users, sessions>>
  BY <1>3 DEF Accept, history
<1>4. ASSUME \/ Crash \/ Tick \/ DeleteExpired \/ UNCHANGED vars
             \/ \E p \in People : Rename(p)
      PROVE  UNCHANGED <<users, sessions>>
  BY <1>4 DEF Crash, Tick, DeleteExpired, Rename, history, vars
<1> QED
  BY <1>1, <1>2, <1>3, <1>4 DEF Next, Serve

\* The two ways of signing in implement an account book: accounts never
\* change hands, addresses and Google accounts are nobody else's, and one
\* enters by an account of one's own.
THEOREM AccountsImplemented == Spec => ImplementsAccounts
BY InitBook, StepBook, Invariance, PTL DEF Spec, ImplementsAccounts, Book!Spec

-----------------------------------------------------------------------------
(* What an account book promises.                                          *)

BookRows ==
  /\ users \in [Users -> User \cup {None}]
  /\ \A u \in Users : Book!Exists(u) => users[u].sub \in {None, Book!Owner(u)}

\* No two accounts have one address or one Google account.
Distinct ==
  \A u, v \in Users : Book!Exists(u) /\ Book!Exists(v) /\ u # v =>
    /\ users[u].email # users[v].email
    /\ Book!Attached(u) => users[u].sub # users[v].sub

\* Whoever entered by an account still owns it.
Entered ==
  \A s \in sessions :
    /\ s.user \in Users /\ Book!Exists(s.user) /\ Book!Owner(s.user) = s.person
    /\ s.via = "google" => Book!Attached(s.user)

BookInv == BookRows /\ Distinct /\ Entered

LEMMA RowsExist ==
  ASSUME NEW p \in People, NEW n \in Names, NEW s \in People \cup {None}
  PROVE  /\ [email |-> <<p, n>>, sub |-> s] \in User
         /\ [email |-> <<p, n>>, sub |-> s] # None
<1>1. [email |-> <<p, n>>, sub |-> s] \in User
  BY DEF User, Address
<1> QED
  BY <1>1, NoneAssumption

LEMMA BookOpens ==
  ASSUME BookInv, NEW u \in Users, Book!Open(u), UNCHANGED sessions
  PROVE  BookInv'
<1>1. PICK p \in People, n \in Names, s \in People \cup {None} :
        /\ s \in {None, p} /\ Book!Free(<<p, n>>)
        /\ s = p => Book!Unattached(p)
        /\ users' = [users EXCEPT ![u] = [email |-> <<p, n>>, sub |-> s]]
  BY DEF Book!Open
<1> DEFINE row == [email |-> <<p, n>>, sub |-> s]
<1>2. /\ row \in User /\ row # None
      /\ row.email = <<p, n>> /\ row.email[1] = p /\ row.sub = s
  BY RowsExist
<1>3. users[u] = None
  BY DEF Book!Open, Book!Exists
<1> HIDE DEF row
<1>4. users' = [users EXCEPT ![u] = row]
  BY <1>1 DEF row
<1>5. users'[u] = row /\ \A v \in Users \ {u} : users'[v] = users[v]
  BY <1>4 DEF BookInv, BookRows
<1>6. BookRows'
  <2>1. users' \in [Users -> User \cup {None}]
    BY <1>2, <1>4 DEF BookInv, BookRows
  <2>2. users'[u].sub \in {None, users'[u].email[1]}
    BY <1>1, <1>2, <1>5
  <2>3. \A v \in Users \ {u} : users[v] # None =>
          users[v].sub \in {None, users[v].email[1]}
    BY DEF BookInv, BookRows, Book!Exists, Book!Owner
  <2> QED
    BY <1>5, <2>1, <2>2, <2>3 DEF BookRows, Book!Exists, Book!Owner
<1>7. \A v \in Users \ {u} : users[v] # None =>
        /\ users[v].email # row.email
        /\ row.sub # None => users[v].sub # row.sub
  BY <1>1, <1>2 DEF Book!Free, Book!Unattached, Book!Exists
<1>8. Distinct'
  BY <1>2, <1>5, <1>7 DEF BookInv, Distinct, Book!Exists, Book!Attached
<1>9. Entered'
  BY <1>3, <1>5 DEF BookInv, Entered, Book!Exists, Book!Owner, Book!Attached
<1> QED
  BY <1>6, <1>8, <1>9 DEF BookInv

LEMMA BookAttaches ==
  ASSUME BookInv, NEW u \in Users, Book!Attach(u), UNCHANGED sessions
  PROVE  BookInv'
<1> DEFINE p == users[u].email[1]
           row == [users[u] EXCEPT !.sub = p]
<1>1. users[u] \in User /\ users[u] # None /\ users[u].sub = None /\ p \in People
  BY DEF Book!Attach, Book!Exists, Book!Attached, BookInv, BookRows, User, Address
<1>2. row \in User /\ row # None /\ row.email = users[u].email /\ row.sub = p
  BY <1>1, NoneAssumption DEF User
<1>3. /\ users' = [users EXCEPT ![u] = row]
      /\ \A v \in Users : users[v] # None => users[v].sub # p
  BY DEF Book!Attach, Book!Unattached, Book!Owner, Book!Exists
<1> HIDE DEF row
<1>4. users'[u] = row /\ \A v \in Users \ {u} : users'[v] = users[v]
  BY <1>3 DEF BookInv, BookRows
<1>5. BookRows'
  BY <1>2, <1>3, <1>4 DEF BookInv, BookRows, Book!Exists, Book!Owner
<1> HIDE DEF p
<1>6. Distinct'
  BY <1>1, <1>2, <1>3, <1>4 DEF BookInv, Distinct, Book!Exists, Book!Attached
<1>7. p # None
  BY <1>1, NoneAssumption
<1>8. Entered'
  BY <1>2, <1>4, <1>7 DEF BookInv, Entered, Book!Exists, Book!Owner, Book!Attached
<1> QED
  BY <1>5, <1>6, <1>8 DEF BookInv

\* A move leaves the rows as they should be, and those who entered.
LEMMA BookMoves ==
  ASSUME BookInv, NEW u \in Users, NEW n \in Names, Book!Move(u, n)
  PROVE  /\ BookRows' /\ Distinct'
         /\ \A v \in Users : users[v] # None =>
              /\ users'[v] # None /\ users'[v].email[1] = users[v].email[1]
              /\ users'[v].sub = users[v].sub
<1> DEFINE a == <<users[u].email[1], n>>
           row == [users[u] EXCEPT !.email = a]
<1>1. users[u] \in User /\ users[u] # None /\ a \in Address
  BY DEF Book!Move, Book!Exists, BookInv, BookRows, User, Address
<1>2. /\ row \in User /\ row # None /\ row.email = a /\ row.sub = users[u].sub
      /\ row.email[1] = users[u].email[1]
  BY <1>1, NoneAssumption DEF User
<1>3. /\ users' = [users EXCEPT ![u] = row]
      /\ \A v \in Users : users[v] # None => users[v].email # a
  BY DEF Book!Move, Book!Free, Book!Owner, Book!Exists
<1> HIDE DEF row
<1>4. users'[u] = row /\ \A v \in Users \ {u} : users'[v] = users[v]
  BY <1>3 DEF BookInv, BookRows
<1>5. BookRows'
  BY <1>1, <1>2, <1>3, <1>4 DEF BookInv, BookRows, Book!Exists, Book!Owner
<1> HIDE DEF a
<1>6. Distinct'
  BY <1>1, <1>2, <1>3, <1>4 DEF BookInv, Distinct, Book!Exists, Book!Attached
<1> QED
  BY <1>2, <1>4, <1>5, <1>6

LEMMA BookEnters ==
  ASSUME BookInv, NEW u \in Users, Book!Enter(u)
  PROVE  BookInv'
<1>1. PICK via \in {"google", "verify"} : Book!EnterBy(u, via)
  BY DEF Book!Enter
<1> DEFINE e == [user |-> u, person |-> users[u].email[1], via |-> via]
<1>2. /\ users[u] # None
      /\ via = "google" => users[u].sub # None
      /\ sessions' = sessions \cup {e}
  BY <1>1 DEF Book!EnterBy, Book!Exists, Book!Attached, Book!Owner
<1>3. /\ BookRows' /\ Distinct'
      /\ \A v \in Users : users[v] # None =>
           /\ users'[v] # None /\ users'[v].email[1] = users[v].email[1]
           /\ users'[v].sub = users[v].sub
  <2>1. CASE UNCHANGED users
    BY <2>1 DEF BookInv, BookRows, Distinct, Book!Exists, Book!Owner, Book!Attached
  <2>2. CASE \E n \in Names : Book!Move(u, n)
    BY <2>2, BookMoves
  <2> QED
    BY <2>1, <2>2 DEF Book!Enter
<1>4. ASSUME NEW s \in sessions'
      PROVE  /\ s.user \in Users /\ users[s.user] # None
             /\ users[s.user].email[1] = s.person
             /\ s.via = "google" => users[s.user].sub # None
  <2>1. CASE s = e
    <3>1. e.user = u /\ e.person = users[u].email[1] /\ e.via = via
      OBVIOUS
    <3> HIDE DEF e
    <3> QED
      BY <1>2, <2>1, <3>1
  <2>2. CASE s \in sessions
    BY <2>2 DEF BookInv, Entered, Book!Exists, Book!Owner, Book!Attached
  <2> QED
    BY <1>2, <2>1, <2>2
<1>5. Entered'
  BY <1>3, <1>4 DEF Entered, Book!Exists, Book!Owner, Book!Attached
<1> QED
  BY <1>3, <1>5 DEF BookInv

\* Of any account book, whoever keeps it: two accounts never share an address
\* or a Google account, one's Google account is attached to one's own account
\* only, and the accounts one has entered by are one's own for good.
THEOREM AccountsPromise == Book!Spec => []BookInv
<1>1. Book!Init => BookInv
  BY DEF Book!Init, BookInv, BookRows, Distinct, Entered, Book!Exists
<1>2. BookInv /\ [Book!Next]_<<users, sessions>> => BookInv'
  <2> SUFFICES ASSUME BookInv, [Book!Next]_<<users, sessions>>
               PROVE  BookInv'
    OBVIOUS
  <2>1. CASE UNCHANGED <<users, sessions>>
    BY <2>1 DEF BookInv, BookRows, Distinct, Entered,
       Book!Exists, Book!Owner, Book!Attached
  <2>2. ASSUME NEW u \in Users, Book!Change(u), UNCHANGED sessions PROVE BookInv'
    <3>1. ASSUME NEW n \in Names, Book!Move(u, n) PROVE BookInv'
      BY <2>2, <3>1, BookMoves
         DEF BookInv, Entered, Book!Exists, Book!Owner, Book!Attached
    <3> QED
      BY <2>2, <3>1, BookOpens, BookAttaches DEF Book!Change
  <2> QED
    BY <2>1, <2>2, BookEnters DEF Book!Next
<1> QED
  BY <1>1, <1>2, PTL DEF Book!Spec

=============================================================================
