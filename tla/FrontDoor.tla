------------------------------- MODULE FrontDoor -------------------------------
(***************************************************************************)
(* What a request to an authenticated route passes before its handler, and *)
(* logout: internal/http/middleware (ratelimit, auth, csrf, rbac) over the *)
(* tokens of internal/platform/auth/jwt.go and the revoked_tokens table.   *)
(*                                                                         *)
(* The limiter's buckets live in the process; a token carries its user and *)
(* role until it expires, and only its row in revoked_tokens ends it.      *)
(***************************************************************************)
EXTENDS Integers, Sequences, FiniteSets

CONSTANTS
  Requests,     \* the server's concurrent request slots
  Clients,      \* clientIP keys of the limiter
  Users, Roles,
  Sessions,     \* sign-ins (bound)
  AccessTTL,    \* JWT_EXPIRY_HOURS, in ticks
  RefreshTTL,   \* JWT_REFRESH_EXPIRY_DAYS, in ticks
  Minute,       \* the limiter's minute, in ticks
  Limit,        \* RATE_LIMIT_AUTH
  MaxTime,      \* bound: the clock stops there
  MaxChanges,   \* bound: changes of roles in a behaviour
  MaxRequests,  \* bound: requests accepted in a behaviour
  None          \* no session, no bucket, no cookie, no role

Token == Sessions \X {"access", "refresh"}
Time == 0..MaxTime
Session == [user: Users, role: Roles, since: Time]
Visitor == [tokens: Int, lastSeen: Time]
Job == [kind: {"call", "logout"},
        client: Clients,
        token: Token,                \* in the header or the access cookie
        need: Roles \cup {None},     \* the role the route asks for
        refresh: Token \cup {None}]  \* the refresh cookie of a logout

ASSUME NumbersAssumption ==
  /\ AccessTTL \in Nat /\ RefreshTTL \in Nat /\ AccessTTL <= RefreshTTL
  /\ Minute \in Nat /\ Limit \in Nat
  /\ MaxTime \in Nat /\ MaxChanges \in Nat /\ MaxRequests \in Nat
ASSUME NoneAssumption ==
  /\ None \notin Session \cup Visitor \cup Job \cup Token
  /\ None \notin Users \cup Roles

VARIABLES
  pc,        \* the step a request takes next
  job,       \* the request being served
  admitted,  \* when its token was validated
  session,   \* sign-ins: the claims both of their tokens carry
  role,      \* users.role_id
  revoked,   \* revoked_tokens
  visitors,  \* the limiter's buckets
  now,       \* the clock
  late,      \* history: the request came with a token already logged out
  blind,     \* history: IsRevoked failed for it
  unstored,  \* history: tokens its Revoke could not store
  out,       \* history: tokens whose logout was answered and was stored
  held,      \* history: roles users had, until when
  passed,    \* history: when the limiter let a client's requests pass
  issued     \* requests accepted so far (bounded by MaxRequests)

local == <<pc, job, admitted, late, blind, unstored>>
vars == <<pc, job, admitted, session, role, revoked, visitors, now,
          late, blind, unstored, out, held, passed, issued>>

\* The steps behind the middlewares.
Inside == {"handler", "access", "refresh", "answer"}
Steps == {"enter", "revoked"} \cup Inside

TypeOK ==
  /\ pc \in [Requests -> Steps \cup {"idle"}]
  /\ job \in [Requests -> Job \cup {None}]
  /\ admitted \in [Requests -> Time]
  /\ session \in [Sessions -> Session \cup {None}]
  /\ role \in [Users -> Roles]
  /\ revoked \subseteq Token
  /\ visitors \in [Clients -> Visitor \cup {None}]
  /\ now \in Time
  /\ late \in [Requests -> BOOLEAN]
  /\ blind \in [Requests -> BOOLEAN]
  /\ unstored \in [Requests -> SUBSET Token]
  /\ out \subseteq Token
  /\ held \subseteq [user: Users, role: Roles, until: Time]
  /\ passed \in [Clients -> Seq(Time)]
  /\ issued \in 0..MaxRequests

Init ==
  /\ pc = [r \in Requests |-> "idle"]
  /\ job = [r \in Requests |-> None]
  /\ admitted = [r \in Requests |-> 0]
  /\ session = [s \in Sessions |-> None]
  /\ role \in [Users -> Roles]
  /\ revoked = {}
  /\ visitors = [c \in Clients |-> None]
  /\ now = 0
  /\ late = [r \in Requests |-> FALSE]
  /\ blind = [r \in Requests |-> FALSE]
  /\ unstored = [r \in Requests |-> {}]
  /\ out = {}
  /\ held = {}
  /\ passed = [c \in Clients |-> <<>>]
  /\ issued = 0

-----------------------------------------------------------------------------
(* Tokens.                                                                 *)

Claims(t) == session[t[1]]
Expires(t) == Claims(t).since + (IF t[2] = "access" THEN AccessTTL ELSE RefreshTTL)

\* Mutant: a token is good for the whole hour, or day, it expires in.
AliveOnExpiry(t) == now <= Expires(t)

\* ValidateToken.  Nothing in a refresh token says that it is not for access.
Alive(t) == now < Expires(t)

\* A sign-in ends in GenerateTokenPair: two tokens with the user's role, as
\* the sign-in read it (in the same tick: no sign-in takes longer).
SignIn(s, u) ==
  /\ session[s] = None
  /\ session' = [session EXCEPT ![s] =
       [user |-> u, role |-> role[u], since |-> now]]
  /\ UNCHANGED <<local, role, revoked, visitors, now, out, held, passed, issued>>

-----------------------------------------------------------------------------
(* Requests.                                                               *)

At(r, step) == pc[r] = step
Goto(r, step) ==
  pc' = [pc EXCEPT ![r] = step] /\ UNCHANGED <<job, admitted, late>>

\* The answer is sent, whatever it says.
Finish(r) ==
  /\ pc' = [pc EXCEPT ![r] = "idle"]
  /\ job' = [job EXCEPT ![r] = None]
  /\ admitted' = [admitted EXCEPT ![r] = 0]
  /\ late' = [late EXCEPT ![r] = FALSE]
  /\ blind' = [blind EXCEPT ![r] = FALSE]
  /\ unstored' = [unstored EXCEPT ![r] = {}]

\* A request with a token of a sign-in.  Its other inputs are chosen where
\* they are first read.
Accept(r, j) ==
  /\ At(r, "idle")
  /\ issued < MaxRequests
  /\ Claims(j.token) # None /\ j.need = None /\ j.refresh = None
  /\ pc' = [pc EXCEPT ![r] = "enter"]
  /\ job' = [job EXCEPT ![r] = j]
  /\ late' = [late EXCEPT ![r] = j.token \in out]
  /\ issued' = issued + 1
  /\ UNCHANGED <<admitted, session, role, revoked, visitors, now, blind,
                 unstored, out, held, passed>>

\* A call fails or the request's context ends.
Fail(r) ==
  /\ pc[r] \in Steps \ {"enter"}
  /\ Finish(r)
  /\ UNCHANGED <<session, role, revoked, visitors, now, out, held, passed, issued>>

\* The server stops and starts again, and its limiter starts anew.
Crash ==
  /\ pc' = [r \in Requests |-> "idle"]
  /\ job' = [r \in Requests |-> None]
  /\ admitted' = [r \in Requests |-> 0]
  /\ late' = [r \in Requests |-> FALSE]
  /\ blind' = [r \in Requests |-> FALSE]
  /\ unstored' = [r \in Requests |-> {}]
  /\ visitors' = [c \in Clients |-> None]
  /\ passed' = [c \in Clients |-> <<>>]
  /\ UNCHANGED <<session, role, revoked, now, out, held, issued>>

-----------------------------------------------------------------------------
(* The middlewares.                                                        *)

\* Mutant: last seen is when the bucket was filled.
BucketByFill(c) ==
  IF visitors[c] = None \/ now - visitors[c].lastSeen > Minute
    THEN [tokens |-> Limit, lastSeen |-> now]
    ELSE visitors[c]

\* The client's bucket as a request finds it: full for a client not seen for
\* more than a minute.  Every request counts as seen, the refused ones too.
Bucket(c) ==
  IF visitors[c] = None \/ now - visitors[c].lastSeen > Minute
    THEN [tokens |-> Limit, lastSeen |-> now]
    ELSE [visitors[c] EXCEPT !.lastSeen = now]

\* RateLimit, then the token's signature and expiry.
Enter(r) ==
  /\ At(r, "enter")
  /\ LET c == job[r].client
         b == Bucket(c)
     IN \/ /\ b.tokens <= 0
           /\ visitors' = [visitors EXCEPT ![c] = b]
           /\ Finish(r)
           /\ UNCHANGED passed
        \/ /\ b.tokens > 0
           /\ visitors' = [visitors EXCEPT ![c] = [b EXCEPT !.tokens = @ - 1]]
           /\ passed' = [passed EXCEPT ![c] = Append(@, now)]
           /\ \/ /\ Alive(job[r].token)
                 /\ pc' = [pc EXCEPT ![r] = "revoked"]
                 /\ admitted' = [admitted EXCEPT ![r] = now]
                 /\ UNCHANGED <<job, late, blind, unstored>>
              \/ ~ Alive(job[r].token) /\ Finish(r)
  /\ UNCHANGED <<session, role, revoked, now, out, held, issued>>

\* CSRF lets pass a request that only reads or has its token in the header,
\* and any other whose CSRF token, in cookie and header, is its user's.
CsrfOk(t, exempt, csrf) == exempt \/ csrf = Claims(t).user

\* RBAC compares the role in the claims, never the one in users.
RoleOk(t, need) == Claims(t).role = need

\* CSRF and RBAC, and then the handler; failed if IsRevoked could not tell.
GoIn(r, failed) ==
  \E exempt \in BOOLEAN, csrf \in Users \cup {None} :
    \/ ~ CsrfOk(job[r].token, exempt, csrf) /\ Finish(r)
    \/ /\ CsrfOk(job[r].token, exempt, csrf)
       /\ blind' = [blind EXCEPT ![r] = failed]
       /\ job[r].kind = "logout"
       /\ Goto(r, "access") /\ UNCHANGED unstored
    \/ /\ CsrfOk(job[r].token, exempt, csrf)
       /\ job[r].kind = "call"
       /\ \E need \in Roles :
            \/ ~ RoleOk(job[r].token, need) /\ Finish(r)
            \/ /\ RoleOk(job[r].token, need)
               /\ pc' = [pc EXCEPT ![r] = "handler"]
               /\ job' = [job EXCEPT ![r].need = need]
               /\ blind' = [blind EXCEPT ![r] = failed]
               /\ UNCHANGED <<admitted, late, unstored>>

\* IsRevoked counts the token's rows; when the query fails it answers false.
IsRevoked(r) ==
  /\ At(r, "revoked")
  /\ \/ job[r].token \in revoked /\ Finish(r)
     \/ job[r].token \notin revoked /\ GoIn(r, FALSE)
     \/ GoIn(r, TRUE)
  /\ UNCHANGED <<session, role, revoked, visitors, now, out, held, passed, issued>>

\* Any handler but logout, whose work is in the other modules.
Handle(r) ==
  /\ At(r, "handler")
  /\ Finish(r)
  /\ UNCHANGED <<session, role, revoked, visitors, now, out, held, passed, issued>>

-----------------------------------------------------------------------------
(* Logout.                                                                 *)

\* The refresh cookie is revoked too if it is valid and the same user's.
Usable(t, own) ==
  Claims(t) # None /\ Alive(t) /\ Claims(t).user = Claims(own).user

\* Revoke INSERTs the token; the error of a failing one is only logged.  A
\* token that is there already fails it, too, and stays there.
Revoke(r, t) ==
  \/ revoked' = revoked \cup {t} /\ UNCHANGED unstored
  \/ UNCHANGED revoked /\ unstored' = [unstored EXCEPT ![r] = @ \cup {t}]

\* Mutant: no check that there is a refresh token to revoke.
RevokeAccessOnly(r) ==
  /\ At(r, "access")
  /\ Revoke(r, job[r].token)
  /\ Goto(r, "refresh")
  /\ UNCHANGED <<session, role, visitors, now, blind, out, held, passed, issued>>

RevokeAccess(r) ==
  /\ At(r, "access")
  /\ Revoke(r, job[r].token)
  /\ \/ Goto(r, "answer")
     \/ \E s \in Sessions :
          /\ Usable(<<s, "refresh">>, job[r].token)
          /\ pc' = [pc EXCEPT ![r] = "refresh"]
          /\ job' = [job EXCEPT ![r].refresh = <<s, "refresh">>]
          /\ UNCHANGED <<admitted, late>>
  /\ UNCHANGED <<session, role, visitors, now, blind, out, held, passed, issued>>

\* Mutant: the refresh token is left alone.
KeepRefresh(r) ==
  /\ At(r, "refresh")
  /\ Goto(r, "answer")
  /\ UNCHANGED <<session, role, revoked, visitors, now, blind, unstored, out, held,
                 passed, issued>>

RevokeRefresh(r) ==
  /\ At(r, "refresh")
  /\ Revoke(r, job[r].refresh)
  /\ Goto(r, "answer")
  /\ UNCHANGED <<session, role, visitors, now, blind, out, held, passed, issued>>

\* The tokens a logout is about.
Carried(j) == {j.token, j.refresh} \ {None}

\* The audit row, its error dropped, and the answer that clears the cookies.
AnswerLogout(r) ==
  /\ At(r, "answer")
  /\ out' = out \cup (Carried(job[r]) \ unstored[r])
  /\ Finish(r)
  /\ UNCHANGED <<session, role, revoked, visitors, now, held, passed, issued>>

-----------------------------------------------------------------------------
(* The clock, the limiter's sweep, roles changed in the database.          *)

Tick ==
  /\ now < MaxTime
  /\ now' = now + 1
  /\ UNCHANGED <<local, session, role, revoked, visitors, out, held, passed, issued>>

\* Every minute, buckets not seen for three are deleted.
Sweep ==
  /\ visitors' = [c \in Clients |->
       IF visitors[c] # None /\ now - visitors[c].lastSeen > 3 * Minute
         THEN None ELSE visitors[c]]
  /\ UNCHANGED <<local, session, role, revoked, now, out, held, passed, issued>>

SetRole(u, x) ==
  /\ x # role[u]
  /\ Cardinality(held) < MaxChanges
  /\ role' = [role EXCEPT ![u] = x]
  /\ held' = held \cup {[user |-> u, role |-> role[u], until |-> now]}
  /\ UNCHANGED <<local, session, revoked, visitors, now, out, passed, issued>>

Serve(r) ==
  \/ Enter(r) \/ IsRevoked(r) \/ Handle(r)
  \/ RevokeAccess(r) \/ RevokeRefresh(r) \/ AnswerLogout(r)

Next ==
  \/ \E r \in Requests :
       \/ \E j \in Job : Accept(r, j)
       \/ Serve(r)
       \/ Fail(r)
  \/ \E u \in Users :
       \/ \E s \in Sessions : SignIn(s, u)
       \/ \E x \in Roles : SetRole(u, x)
  \/ Crash
  \/ Tick
  \/ Sweep

Spec == Init /\ [][Next]_vars

-----------------------------------------------------------------------------
(* Properties.                                                             *)

\* After a logout is answered, a request that comes with one of its tokens
\* gets to a handler only if the query of IsRevoked fails, or if storing the
\* token had failed: whatever requests and logouts of the session overlap.
LoggedOutStaysOut ==
  \A r \in Requests : pc[r] \in Inside /\ late[r] => blind[r]

\* A route's role is served to users who have it, or lost it no longer ago
\* than a refresh token lives: the claims are never read anew.
RoleNotOlder ==
  \A r \in Requests :
    pc[r] \in Inside /\ job[r].need # None =>
      LET u == Claims(job[r].token).user
      IN \/ role[u] = job[r].need
         \/ \E h \in held : /\ h.user = u /\ h.role = job[r].need
                            /\ admitted[r] < h.until + RefreshTTL

\* Between two starts of the server, more than Limit requests of a client
\* always take more than a minute to pass, through sweeps and silences.  (The
\* converse does not hold: a client that was turned away need not have had
\* Limit requests pass in the last minute.)
AtMostLimit ==
  \A c \in Clients : \A i \in 1..Len(passed[c]) :
    i + Limit <= Len(passed[c]) => passed[c][i + Limit] - passed[c][i] > Minute

=============================================================================
