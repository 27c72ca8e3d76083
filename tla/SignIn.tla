-------------------------------- MODULE SignIn --------------------------------
(***************************************************************************)
(* Signing in with Google or with a magic link:                            *)
(* internal/services/auth_service.go over the users and magic_link_tokens  *)
(* tables.                                                                 *)
(*                                                                         *)
(* No sign-in runs in a transaction: a user is looked up, linked, created  *)
(* or updated in calls of their own, and a link is consumed before its     *)
(* user is looked up.  What holds rests on two UNIQUE columns.             *)
(***************************************************************************)
EXTENDS Integers, FiniteSets

CONSTANTS
  Requests,     \* the server's concurrent request slots
  People,       \* holders of a Google account; the account is its google_sub
  Names,        \* addresses a person can have, by name
  Users,        \* ids of users rows (bound: no more rows than ids)
  Links,        \* magic-link tokens to draw (bound)
  Expiry,       \* MAGIC_LINK_EXPIRY_MINUTES, in ticks
  MaxTime,      \* bound: the clock stops there
  MaxRequests,  \* bound: requests accepted in a behaviour
  None          \* no row, no link, no Google account

Address == People \X Names    \* an address is one person's for good
Person(a) == a[1]
Time == 0..MaxTime
User == [email: Address, sub: People \cup {None}]
Link == [email: Address, expires: Nat, used: BOOLEAN]
Job == [kind: {"google", "ask", "verify"},
        person: People,          \* who makes the request
        email: Address,          \* what the service takes for the address
        link: Links \cup {None}]
Session == [user: Users, person: People, via: {"google", "verify"}]

ASSUME TimeAssumption ==
  Expiry \in Nat /\ MaxTime \in Nat /\ MaxRequests \in Nat
ASSUME RequestsAssumption == IsFiniteSet(Requests)
ASSUME NoneAssumption ==
  /\ None \notin User \cup Link \cup Job \cup Address
  /\ None \notin People \cup Users \cup Links

VARIABLES
  pc,        \* the call a request makes next
  job,       \* the request being served
  seen,      \* id of the user row it has looked up or created
  reply,     \* the last answer of the slot
  users,     \* users
  links,     \* magic_link_tokens
  mailed,    \* the address a link was mailed to
  google,    \* the name Google has for a person's account
  renamed,   \* persons whose account was renamed (at most once: bound)
  now,       \* the clock
  sessions,  \* history: the sessions started
  signins,   \* history: sessions started with a link
  cutOff,    \* history: links whose verification a fault cut off
  issued     \* requests accepted so far (bounded by MaxRequests)

request == <<pc, job, seen, reply>>
history == <<sessions, signins, cutOff>>
world == <<google, renamed, now>>
vars == <<pc, job, seen, reply, users, links, mailed, google, renamed, now,
          sessions, signins, cutOff, issued>>

\* The steps of a verification after its link is consumed.
AfterMark == {"byEmail", "update", "provision", "reload"}
Steps == {"exchange", "bySub", "linkSub", "store", "mail", "find", "mark"}
           \cup AfterMark

TypeOK ==
  /\ pc \in [Requests -> Steps \cup {"idle"}]
  /\ job \in [Requests -> Job \cup {None}]
  /\ seen \in [Requests -> Users \cup {None}]
  /\ reply \in [Requests -> {"none", "session", "sent", "expired", "used",
                             "conflict", "error"}]
  /\ users \in [Users -> User \cup {None}]
  /\ links \in [Links -> Link \cup {None}]
  /\ mailed \in [Links -> Address \cup {None}]
  /\ google \in [People -> Names]
  /\ renamed \subseteq People
  /\ now \in Time
  /\ sessions \subseteq Session
  /\ signins \in [Links -> Nat]
  /\ cutOff \subseteq Links
  /\ issued \in 0..MaxRequests

Init ==
  /\ pc = [r \in Requests |-> "idle"]
  /\ job = [r \in Requests |-> None]
  /\ seen = [r \in Requests |-> None]
  /\ reply = [r \in Requests |-> "none"]
  /\ users = [u \in Users |-> None]
  /\ links = [l \in Links |-> None]
  /\ mailed = [l \in Links |-> None]
  /\ google \in [People -> Names]
  /\ renamed = {}
  /\ now = 0
  /\ sessions = {}
  /\ signins = [l \in Links |-> 0]
  /\ cutOff = {}
  /\ issued = 0

-----------------------------------------------------------------------------
(* Requests.                                                               *)

At(r, step) == pc[r] = step
Is(r, kind) == job[r].kind = kind
Goto(r, step) == pc' = [pc EXCEPT ![r] = step] /\ UNCHANGED <<job, seen, reply>>

\* The next step works on user row u.
Take(r, step, u) ==
  /\ pc' = [pc EXCEPT ![r] = step]
  /\ seen' = [seen EXCEPT ![r] = u]
  /\ UNCHANGED <<job, reply>>

Finish(r, answer) ==
  /\ pc' = [pc EXCEPT ![r] = "idle"]
  /\ job' = [job EXCEPT ![r] = None]
  /\ seen' = [seen EXCEPT ![r] = None]
  /\ reply' = [reply EXCEPT ![r] = answer]

\* A person follows the Google button, asks for a link, or opens one that
\* was mailed.  Other domains are refused at once.
Accept(r, j) ==
  /\ At(r, "idle")
  /\ issued < MaxRequests
  /\ j.person = Person(j.email)
  /\ \/ j.kind = "google" /\ j.link = None /\ j.email[2] = google[j.person]
     \/ j.kind = "ask" /\ j.link = None
     \/ j.kind = "verify" /\ j.link # None /\ mailed[j.link] = j.email
  /\ pc' = [pc EXCEPT ![r] = CASE j.kind = "google" -> "exchange"
                               [] j.kind = "ask" -> "store"
                               [] j.kind = "verify" -> "find"]
  /\ job' = [job EXCEPT ![r] = j]
  /\ reply' = [reply EXCEPT ![r] = "none"]
  /\ issued' = issued + 1
  /\ UNCHANGED <<seen, users, links, mailed, world, history>>

\* The links that a fault in these requests cuts off.
Hit(R) == {job[r].link : r \in {q \in R : pc[q] \in AfterMark /\ Is(q, "verify")}}

\* A call fails or the request's context ends, and the caller gets a 500.
Fail(r) ==
  /\ pc[r] \in Steps
  /\ Finish(r, "error")
  /\ cutOff' = cutOff \cup Hit({r})
  /\ UNCHANGED <<users, links, mailed, world, sessions, signins, issued>>

\* The server stops and starts again: its requests are never answered.
Crash ==
  /\ pc' = [r \in Requests |-> "idle"]
  /\ job' = [r \in Requests |-> None]
  /\ seen' = [r \in Requests |-> None]
  /\ cutOff' = cutOff \cup Hit(Requests)
  /\ UNCHANGED <<reply, users, links, mailed, world, sessions, signins, issued>>

\* GenerateTokenPair and startSession: a session for user u.
StartSession(r, u) ==
  /\ sessions' = sessions \cup
       {[user |-> u, person |-> job[r].person, via |-> job[r].kind]}
  /\ signins' = [l \in Links |->
       IF job[r].link = l THEN signins[l] + 1 ELSE signins[l]]
  /\ Finish(r, "session")
  /\ UNCHANGED cutOff

\* A write took effect and its answer was lost.
AnswerLost(r) ==
  /\ Finish(r, "error")
  /\ cutOff' = cutOff \cup Hit({r})
  /\ UNCHANGED <<sessions, signins>>

-----------------------------------------------------------------------------
(* The users table.                                                        *)

\* Mutant: the lookup compares the name alone.
ByName(a) == {u \in Users : users[u] # None /\ users[u].email[2] = a[2]}

BySub(p) == {u \in Users : users[u] # None /\ users[u].sub = p}
ByEmail(a) == {u \in Users : users[u] # None /\ users[u].email = a}

\* Mutants: google_sub is not UNIQUE; the name of an address is.
SubRepeats(u, row) ==
  \E v \in Users \ {u} : users[v] # None /\ users[v].email = row.email
NamesCollide(u, row) ==
  \E v \in Users \ {u} : users[v] # None /\ users[v].email[2] = row.email[2]

\* email and google_sub are UNIQUE: row u cannot become row.
Taken(u, row) ==
  \E v \in Users \ {u} :
    /\ users[v] # None
    /\ users[v].email = row.email \/ (row.sub # None /\ users[v].sub = row.sub)

-----------------------------------------------------------------------------
(* HandleOAuthCallback.                                                    *)

\* ExchangeCode: Google answers with the account and its address.
Exchange(r) ==
  /\ At(r, "exchange")
  /\ job' = [job EXCEPT ![r].email = <<job[r].person, google[job[r].person]>>]
  /\ pc' = [pc EXCEPT ![r] = "bySub"]
  /\ UNCHANGED <<seen, reply, users, links, mailed, world, history, issued>>

FindByGoogleSub(r) ==
  /\ At(r, "bySub")
  /\ \/ \E u \in BySub(job[r].person) : Take(r, "update", u)
     \/ BySub(job[r].person) = {} /\ Goto(r, "byEmail")
  /\ UNCHANGED <<users, links, mailed, world, history, issued>>

\* The row found by address gets the account, whatever account it has.
LinkGoogleSub(r) ==
  /\ At(r, "linkSub")
  /\ LET row == [users[seen[r]] EXCEPT !.sub = job[r].person]
     IN IF Taken(seen[r], row)
          THEN Finish(r, "conflict") /\ UNCHANGED <<users, history>>
          ELSE /\ users' = [users EXCEPT ![seen[r]] = row]
               /\ \/ Goto(r, "reload") /\ UNCHANGED history
                  \/ AnswerLost(r)
  /\ UNCHANGED <<links, mailed, world, issued>>

-----------------------------------------------------------------------------
(* Both ways to sign in.                                                   *)

\* Mutant: a person without a user is turned away.
FindByEmailOnly(r) ==
  /\ At(r, "byEmail")
  /\ \/ \E u \in ByEmail(job[r].email) :
          Take(r, IF Is(r, "google") THEN "linkSub" ELSE "update", u)
     \/ ByEmail(job[r].email) = {} /\ Finish(r, "error")
  /\ UNCHANGED <<users, links, mailed, world, history, issued>>

FindByEmail(r) ==
  /\ At(r, "byEmail")
  /\ \/ \E u \in ByEmail(job[r].email) :
          Take(r, IF Is(r, "google") THEN "linkSub" ELSE "update", u)
     \/ ByEmail(job[r].email) = {} /\ Goto(r, "provision")
  /\ UNCHANGED <<users, links, mailed, world, history, issued>>

\* provisionUser's CreateUser: a student, without a Google account when the
\* link was mailed.
CreateUser(r) ==
  /\ At(r, "provision")
  /\ \E u \in Users :
       /\ users[u] = None
       /\ LET row == [email |-> job[r].email,
                      sub |-> IF Is(r, "google") THEN job[r].person ELSE None]
          IN IF Taken(u, row)
               THEN Finish(r, "conflict") /\ UNCHANGED <<users, history>>
               ELSE /\ users' = [users EXCEPT ![u] = row]
                    /\ \/ Take(r, "reload", u) /\ UNCHANGED history
                       \/ AnswerLost(r)
  /\ UNCHANGED <<links, mailed, world, issued>>

\* FindByID after a user was linked or created.
Reload(r) ==
  /\ At(r, "reload")
  /\ StartSession(r, seen[r])
  /\ UNCHANGED <<users, links, mailed, world, issued>>

\* Mutant: the row is written as it was read before a Google account joined.
UpdateWholeRow(r) ==
  /\ At(r, "update")
  /\ Is(r, "verify")
  /\ users' = [users EXCEPT ![seen[r]] = [email |-> job[r].email, sub |-> None]]
  /\ StartSession(r, seen[r])
  /\ UNCHANGED <<links, mailed, world, issued>>

\* UpdateUser by id: the address Google sent, or the one the link's row was
\* found by, even if it changed since.
UpdateUser(r) ==
  /\ At(r, "update")
  /\ LET row == [users[seen[r]] EXCEPT !.email = job[r].email]
     IN IF Taken(seen[r], row)
          THEN Finish(r, "conflict") /\ UNCHANGED <<users, history>>
          ELSE /\ users' = [users EXCEPT ![seen[r]] = row]
               /\ StartSession(r, seen[r]) \/ AnswerLost(r)
  /\ UNCHANGED <<links, mailed, world, issued>>

-----------------------------------------------------------------------------
(* RequestMagicLink and VerifyMagicLink.                                   *)

\* A random token is nobody's yet.
Fresh(l) == /\ links[l] = None /\ mailed[l] = None
            /\ \A q \in Requests : job[q] # None => job[q].link # l

\* Mutant: expires_at is left NULL.
StoreWithoutExpiry(r) ==
  /\ At(r, "store")
  /\ \E l \in Links :
       /\ Fresh(l)
       /\ links' = [links EXCEPT ![l] =
            [email |-> job[r].email, expires |-> None, used |-> FALSE]]
  /\ Finish(r, "error")
  /\ UNCHANGED <<users, mailed, world, history, issued>>

\* magicLinkRepo.Create, with a token just drawn.
StoreLink(r) ==
  /\ At(r, "store")
  /\ \E l \in Links :
       /\ Fresh(l)
       /\ links' = [links EXCEPT ![l] =
            [email |-> job[r].email, expires |-> now + Expiry, used |-> FALSE]]
       /\ \/ /\ job' = [job EXCEPT ![r].link = l]
             /\ pc' = [pc EXCEPT ![r] = "mail"]
             /\ UNCHANGED <<seen, reply>>
          \/ Finish(r, "error")
  /\ UNCHANGED <<users, mailed, world, history, issued>>

\* NotifyMagicLink; the answer of Enqueue can be lost.
MailLink(r) ==
  /\ At(r, "mail")
  /\ mailed' = [mailed EXCEPT ![job[r].link] = job[r].email]
  /\ Finish(r, "sent") \/ Finish(r, "error")
  /\ UNCHANGED <<users, links, world, history, issued>>

\* Mutant: used_at is not looked at.
FindLinkUsedOrNot(r) ==
  /\ At(r, "find")
  /\ LET row == links[job[r].link]
     IN /\ row # None /\ now <= row.expires
        /\ job' = [job EXCEPT ![r].email = row.email]
        /\ pc' = [pc EXCEPT ![r] = "mark"]
  /\ UNCHANGED <<seen, reply, users, links, mailed, world, history, issued>>

\* magicLinkRepo.FindByHash and the checks on the row it read.
FindLink(r) ==
  /\ At(r, "find")
  /\ LET row == links[job[r].link]
     IN \/ row = None /\ Finish(r, "expired")
        \/ row # None /\ now > row.expires /\ Finish(r, "expired")
        \/ row # None /\ now <= row.expires /\ row.used /\ Finish(r, "used")
        \/ /\ row # None /\ now <= row.expires /\ ~ row.used
           /\ job' = [job EXCEPT ![r].email = row.email]
           /\ pc' = [pc EXCEPT ![r] = "mark"]
           /\ UNCHANGED <<seen, reply>>
  /\ UNCHANGED <<users, links, mailed, world, history, issued>>

\* MarkUsed by id: also a link that was used, or deleted, since it was read.
MarkUsed(r) ==
  /\ At(r, "mark")
  /\ LET l == job[r].link
     IN /\ links' = [links EXCEPT ![l] =
             IF @ = None THEN None ELSE [@ EXCEPT !.used = TRUE]]
        /\ \/ Goto(r, "byEmail") /\ UNCHANGED cutOff
           \/ Finish(r, "error") /\ cutOff' = cutOff \cup {l}
  /\ UNCHANGED <<users, mailed, world, sessions, signins, issued>>

-----------------------------------------------------------------------------
(* The clock, the cleanup worker, Google.                                  *)

Tick ==
  /\ now < MaxTime
  /\ now' = now + 1
  /\ UNCHANGED <<request, users, links, mailed, google, renamed, history, issued>>

\* DeleteExpired, hourly.
DeleteExpired ==
  /\ links' = [l \in Links |->
       IF links[l] # None /\ links[l].expires < now THEN None ELSE links[l]]
  /\ UNCHANGED <<request, users, mailed, world, history, issued>>

\* The organisation gives an account another address of the same person.
Rename(p) ==
  /\ p \notin renamed
  /\ \E n \in Names \ {google[p]} : google' = [google EXCEPT ![p] = n]
  /\ renamed' = renamed \cup {p}
  /\ UNCHANGED <<request, users, links, mailed, now, history, issued>>

Serve(r) ==
  \/ Exchange(r) \/ FindByGoogleSub(r) \/ LinkGoogleSub(r)
  \/ FindByEmail(r) \/ CreateUser(r) \/ Reload(r) \/ UpdateUser(r)
  \/ StoreLink(r) \/ MailLink(r) \/ FindLink(r) \/ MarkUsed(r)

Next ==
  \/ \E r \in Requests :
       \/ \E j \in Job : Accept(r, j)
       \/ Serve(r)
       \/ Fail(r)
  \/ Crash
  \/ Tick
  \/ DeleteExpired
  \/ \E p \in People : Rename(p)

Spec == Init /\ [][Next]_vars

-----------------------------------------------------------------------------
(* Properties.                                                             *)

Rows(p) == {u \in Users : users[u] # None /\ Person(users[u].email) = p}

\* Whatever sign-ins race, a session is for a user row of the person who
\* signed in, and a row's address and Google account are one person's:
\* lookups, links and late updates never mix two people.
SessionsOfOwner ==
  /\ \A s \in sessions : s.user \in Rows(s.person)
  /\ \A u \in Users : users[u] # None /\ users[u].sub # None =>
       users[u].sub = Person(users[u].email)

\* However first sign-ins race and whatever address Google sends, all
\* Google sign-ins of one account lead to one user.
OneGoogleUser ==
  \A s, t \in sessions :
    s.via = "google" /\ t.via = "google" /\ s.person = t.person => s.user = t.user

\* A link consumed without a sign-in was hit by a fault, is being served, or
\* its person has a user and can sign in again (auth_service.go:215).
LinkNotWasted ==
  \A l \in Links :
    links[l] # None /\ links[l].used /\ signins[l] = 0 /\ l \notin cutOff =>
      \/ \E r \in Requests : pc[r] \in AfterMark /\ job[r].link = l
      \/ Rows(Person(links[l].email)) # {}

\* A user keeps the Google account it was linked to: no stale update, no
\* second link takes it away.
GoogleAccountStays ==
  [][\A u \in Users : users[u] # None =>
       /\ users'[u] # None
       /\ users[u].sub # None => users'[u].sub = users[u].sub]_vars

Book == INSTANCE Accounts WITH Ids <- Users, account <- users, entered <- sessions

\* The two ways of signing in, five calls each and without a transaction,
\* are an account book: rows never change hands, two rows never share an
\* address or a Google account, nobody loses either but by a rename, and a
\* session is always by a row of one's own, with Google by the attached one.
ImplementsAccounts == Book!Spec

\* No request can start a session with link l any more.
Spent(l) ==
  /\ mailed[l] # None
  /\ links[l] = None \/ links[l].used \/ links[l].expires < now
  /\ \A r \in Requests :
       job[r] # None /\ job[r].link = l => pc[r] \in {"find", "mail"}

\* Once a link is used, expired or deleted and nobody is past its check, it
\* never signs anyone in again.
SpentForGood ==
  [][\A l \in Links : Spent(l) => Spent(l)' /\ signins'[l] = signins[l]]_vars

\* A link's check and its consumption are two calls, so a link can sign in
\* more than once; but only verifications under way together can: there are
\* never more sessions of one link than the server has request slots, however
\* often it is opened later.
LinkBounded == \A l \in Links : signins[l] <= Cardinality(Requests)

\* The UNIQUE columns turn a sign-in away only over a row of the same person.
RefusedByOwnRow ==
  [][\A r \in Requests : pc[r] # "idle" /\ reply'[r] = "conflict" =>
       Rows(job[r].person) # {}]_vars

\* "This link is valid for %d minutes and can only be used once"
\* (notification_service.go:101): a link starts one session at most.
LinkSignsInOnce == \A l \in Links : signins[l] <= 1

=============================================================================
