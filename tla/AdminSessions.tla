---------------------------- MODULE AdminSessions ----------------------------
(***************************************************************************)
(* Administrators, their sessions and the login rate limiter.  Accounts    *)
(* and sessions are files behind the repository lock; the limiter is a map *)
(* in the panel's memory behind a mutex of its own, and reads the clock    *)
(* before it takes it.  A login is five such steps; every authenticated    *)
(* request leaves behind a goroutine that notes when the session was last  *)
(* used, after the request may have logged it out.  The bootstrap-admin    *)
(* command changes accounts from another process.                          *)
(***************************************************************************)
EXTENDS Integers, FiniteSets, Functions

CONSTANTS
  AdminIds,      \* identifiers of administrators
  Emails,        \* normalized email addresses
  Passwords,
  Tokens,        \* session tokens; a session is known by its token
  Addresses,     \* client addresses, the limiter's keys
  Requests,      \* goroutines serving HTTP requests
  NoAdmin, NoSession, NoRequest,
  TTL,           \* SESSION_TTL
  Window, Burst, \* AUTH_RATE_LIMIT_WINDOW, AUTH_RATE_LIMIT_BURST
  MaxTime,       \* bound: ticks of the clock
  MaxCrashes     \* bound: restarts of the panel

Times == 0..MaxTime

ASSUME TimesAssumption == 
  MaxTime \in Nat /\ TTL \in Nat /\ Window \in Nat \ {0} /\ Burst \in Nat \ {0}
ASSUME CrashesAssumption == MaxCrashes \in Nat
\* At any time finitely many goroutines serve requests, and RateLimited counts them.
ASSUME RequestsAssumption == IsFiniteSet(Requests) /\ Requests # {}

Admin == [email: Emails, password: Passwords]
Session == [admin: AdminIds, expires: Nat, seen: Times]

ASSUME NullAssumption == NoAdmin \notin Admin /\ NoSession \notin Session

VARIABLES
  clock,
  admins,    \* admins[a]: the record under identifier a
  sessions,  \* sessions[t]: the session of token t
  issued,    \* tokens handed out so far
  attempts,  \* attempts[k][m]: how often the limiter's list of k holds time m
  admitted,  \* the attempts let through since the last reset, whatever the
             \* limiter forgot of them: what the limiter is judged by
  pc, req,   \* where each request is, and its local variables
  touches,   \* tokens whose session a goroutine is about to touch
  crashes

vars == <<clock, admins, sessions, issued, attempts, admitted, pc, req, touches, crashes>>
limiter == <<attempts, admitted>>
stored == <<admins, sessions, issued>>

\* The local variables of a login as it advances; behind the middleware a
\* request is known by its token.
Attempt == [key: Addresses, now: Times]
Matched == [key: Addresses, admin: AdminIds]
Granted == [admin: AdminIds, token: Tokens, expires: Nat]

NoAttempts == [m \in Times |-> 0]

\* A request that was refused by the limiter, or is over for another reason.
Rest == {"idle", "denied"}

-----------------------------------------------------------------------------
(* The repository's sessions.                                              *)

\* purgeExpiredSessionsNoLock
Purged(ss) == 
  [t \in Tokens |-> IF ss[t] # NoSession /\ ss[t].expires > clock THEN ss[t] ELSE NoSession]

HasEmail(e) == {a \in AdminIds : admins[a] # NoAdmin /\ admins[a].email = e}

Move(r, l, q) ==
  /\ pc' = [pc EXCEPT ![r] = l]
  /\ req' = [req EXCEPT ![r] = IF l \in Rest THEN NoRequest ELSE q]

-----------------------------------------------------------------------------

Tick ==
  /\ clock < MaxTime
  /\ clock' = clock + 1
  /\ UNCHANGED <<stored, limiter, pc, req, touches, crashes>>

\* Variant: no look at the records there are.
BootstrapAdminNew ==
  /\ \E e \in Emails, w \in Passwords, a \in AdminIds : 
       /\ admins[a] = NoAdmin 
       /\ admins' = [admins EXCEPT ![a] = [email |-> e, password |-> w]]
  /\ UNCHANGED <<clock, sessions, issued, limiter, pc, req, touches, crashes>>

\* Variant: whichever record there is becomes the administrator's.
BootstrapAdminAny ==
  /\ \E e \in Emails, w \in Passwords, a \in AdminIds : 
       admins' = [admins EXCEPT ![a] = [email |-> e, password |-> w]]
  /\ UNCHANGED <<clock, sessions, issued, limiter, pc, req, touches, crashes>>

\* UpsertAdmin, run by the bootstrap-admin command: the record of an email
\* keeps its identifier, and with it its sessions.
BootstrapAdmin ==
  /\ \E e \in Emails, w \in Passwords :
       \/ \E a \in HasEmail(e) : admins' = [admins EXCEPT ![a].password = w]
       \/ /\ HasEmail(e) = {}
          /\ \E a \in AdminIds : 
               /\ admins[a] = NoAdmin 
               /\ admins' = [admins EXCEPT ![a] = [email |-> e, password |-> w]]
  /\ UNCHANGED <<clock, sessions, issued, limiter, pc, req, touches, crashes>>

\* Login calls Allow, which reads the clock and then waits for its mutex.
Login(r) ==
  /\ pc[r] \in Rest
  /\ \E k \in Addresses : Move(r, "allow", [key |-> k, now |-> clock])
  /\ UNCHANGED <<clock, stored, limiter, touches, crashes>>

\* Variant: forgets attempts one tick early.
RecentShort(list, now) == [m \in Times |-> IF m > now - Window + 1 THEN list[m] ELSE 0]

\* What Allow keeps of a list: attempts younger than the window.
Recent(list, now) == [m \in Times |-> IF m > now - Window THEN list[m] ELSE 0]

\* Variant: one attempt too many.
AllowMore(r) ==
  LET k == req[r].key
      recent == Recent(attempts[k], req[r].now)
  IN /\ pc[r] = "allow"
     /\ SumFunction(recent) <= Burst
     /\ attempts' = [attempts EXCEPT ![k] = [recent EXCEPT ![req[r].now] = @ + 1]]
     /\ admitted' = [admitted EXCEPT ![k][req[r].now] = @ + 1]
     /\ Move(r, "compare", req[r])
     /\ UNCHANGED <<clock, stored, touches, crashes>>

\* Variant: refused attempts are counted too.
AllowCounting(r) ==
  LET k == req[r].key
      recent == Recent(attempts[k], req[r].now)
      full == SumFunction(recent) >= Burst
  IN /\ pc[r] = "allow"
     /\ attempts' = [attempts EXCEPT ![k] = [recent EXCEPT ![req[r].now] = @ + 1]]
     /\ admitted' = IF full THEN admitted 
                            ELSE [admitted EXCEPT ![k][req[r].now] = @ + 1]
     /\ Move(r, IF full THEN "denied" ELSE "compare", req[r])
     /\ UNCHANGED <<clock, stored, touches, crashes>>

Allow(r) ==
  LET k == req[r].key
      recent == Recent(attempts[k], req[r].now)
  IN /\ pc[r] = "allow"
     /\ \/ /\ SumFunction(recent) >= Burst
           /\ attempts' = [attempts EXCEPT ![k] = recent]
           /\ Move(r, "denied", req[r])
           /\ UNCHANGED admitted
        \/ /\ SumFunction(recent) < Burst
           /\ attempts' = [attempts EXCEPT ![k] = [recent EXCEPT ![req[r].now] = @ + 1]]
           /\ admitted' = [admitted EXCEPT ![k][req[r].now] = @ + 1]
           /\ Move(r, "compare", req[r])
     /\ UNCHANGED <<clock, stored, touches, crashes>>

\* GetAdminByEmail, then the password is compared with the hash it returned.
Compare(r) ==
  /\ pc[r] = "compare"
  /\ \E e \in Emails, w \in Passwords :
       \/ /\ \A a \in HasEmail(e) : admins[a].password # w
          /\ Move(r, "idle", req[r])
       \/ \E a \in HasEmail(e) :
            /\ admins[a].password = w
            /\ Move(r, "reset", [key |-> req[r].key, admin |-> a])
  /\ UNCHANGED <<clock, stored, limiter, touches, crashes>>

\* A login that succeeds clears the limiter's list; the token is drawn and
\* the expiry computed before the repository is asked.
Reset(r) ==
  LET k == req[r].key
  IN /\ pc[r] = "reset"
     /\ attempts' = [attempts EXCEPT ![k] = NoAttempts]
     /\ admitted' = [admitted EXCEPT ![k] = NoAttempts]
     /\ \E t \in Tokens \ issued :
          /\ issued' = issued \cup {t}
          /\ Move(r, "create", [admin |-> req[r].admin, token |-> t, expires |-> clock + TTL])
     /\ UNCHANGED <<clock, admins, sessions, touches, crashes>>

\* The write may fail; expired sessions are gone by then.
CreateSession(r) ==
  LET q == req[r]
  IN /\ pc[r] = "create"
     /\ \/ /\ admins[q.admin] = NoAdmin
           /\ UNCHANGED sessions
        \/ /\ admins[q.admin] # NoAdmin
           /\ \/ sessions' = Purged(sessions)
              \/ sessions' = [Purged(sessions) EXCEPT ![q.token] = 
                                [admin |-> q.admin, expires |-> q.expires, seen |-> clock]]
     /\ Move(r, "idle", q)
     /\ UNCHANGED <<clock, admins, issued, limiter, touches, crashes>>

\* RequireAuth: a request that carries the cookie t is refused if there is no
\* such session, and also when the repository fails.
RequireAuth(r) ==
  /\ pc[r] \in Rest
  /\ \E t \in issued :
       \/ /\ sessions' \in {sessions, Purged(sessions)}
          /\ UNCHANGED <<pc, req, touches>>
       \/ /\ sessions' = Purged(sessions)
          /\ sessions'[t] # NoSession
          /\ touches' = touches \cup {t}
          /\ Move(r, "serve", t)
  /\ UNCHANGED <<clock, admins, issued, limiter, crashes>>

\* Any other handler behind the middleware ends.
Serve(r) ==
  /\ pc[r] = "serve"
  /\ Move(r, "idle", req[r])
  /\ UNCHANGED <<clock, stored, limiter, touches, crashes>>

\* Logout ignores the error of DeleteSessionByHash.
Logout(r) ==
  /\ pc[r] = "serve"
  /\ sessions' \in {sessions, [sessions EXCEPT ![req[r]] = NoSession]}
  /\ Move(r, "idle", req[r])
  /\ UNCHANGED <<clock, admins, issued, limiter, touches, crashes>>

\* Variant: the session read by the middleware is written back.
TouchStale(t) ==
  /\ t \in touches
  /\ touches' = touches \ {t}
  /\ \E a \in AdminIds : 
       sessions' = [sessions EXCEPT ![t] = [admin |-> a, expires |-> clock, seen |-> clock]]
  /\ UNCHANGED <<clock, admins, issued, limiter, pc, req, crashes>>

\* touchSessionAsync reads the session again under the lock; it may give up
\* after its three seconds.  One element of touches stands for any number of
\* goroutines that touch the same session.
Touch(t) ==
  /\ t \in touches
  /\ touches' \in {touches, touches \ {t}}
  /\ sessions' \in {sessions, IF sessions[t] = NoSession THEN sessions
                              ELSE [sessions EXCEPT ![t].seen = clock]}
  /\ UNCHANGED <<clock, admins, issued, limiter, pc, req, crashes>>

\* The panel restarts: the limiter is only in its memory.
Crash ==
  /\ crashes < MaxCrashes
  /\ crashes' = crashes + 1
  /\ attempts' = [k \in Addresses |-> NoAttempts]
  /\ admitted' = [k \in Addresses |-> NoAttempts]
  /\ pc' = [r \in Requests |-> "idle"]
  /\ req' = [r \in Requests |-> NoRequest]
  /\ touches' = {}
  /\ UNCHANGED <<clock, stored>>

Init ==
  /\ clock = 0
  /\ admins = [a \in AdminIds |-> NoAdmin]
  /\ sessions = [t \in Tokens |-> NoSession]
  /\ issued = {}
  /\ attempts = [k \in Addresses |-> NoAttempts]
  /\ admitted = [k \in Addresses |-> NoAttempts]
  /\ pc = [r \in Requests |-> "idle"]
  /\ req = [r \in Requests |-> NoRequest]
  /\ touches = {}
  /\ crashes = 0

Next ==
  \/ Tick
  \/ BootstrapAdmin
  \/ \E r \in Requests :
       \/ Login(r)
       \/ Allow(r)
       \/ Compare(r)
       \/ Reset(r)
       \/ CreateSession(r)
       \/ RequireAuth(r)
       \/ Serve(r)
       \/ Logout(r)
  \/ \E t \in Tokens : Touch(t)
  \/ Crash

Spec == Init /\ [][Next]_vars

-----------------------------------------------------------------------------
(* Properties.                                                             *)

TypeOK ==
  /\ clock \in Times
  /\ admins \in [AdminIds -> Admin \cup {NoAdmin}]
  /\ sessions \in [Tokens -> Session \cup {NoSession}]
  /\ issued \subseteq Tokens
  /\ attempts \in [Addresses -> [Times -> 0..Burst]]
  /\ admitted \in [Addresses -> [Times -> Nat]]
  /\ \A r \in Requests :
       \/ pc[r] \in Rest /\ req[r] = NoRequest
       \/ pc[r] \in {"allow", "compare"} /\ req[r] \in Attempt
       \/ pc[r] = "reset" /\ req[r] \in Matched
       \/ pc[r] = "create" /\ req[r] \in Granted
       \/ pc[r] = "serve" /\ req[r] \in Tokens
  /\ touches \subseteq Tokens
  /\ crashes \in 0..MaxCrashes

\* However many bootstrap-admin commands run, an email has one record: logins
\* take the first they find.
UniqueEmails ==
  \A a, b \in AdminIds :
    admins[a] # NoAdmin /\ admins[b] # NoAdmin /\ admins[a].email = admins[b].email => a = b

SessionKept ==
  \A t \in Tokens :
    /\ sessions[t] = NoSession /\ sessions'[t] # NoSession =>
         \E r \in Requests : pc[r] = "create" /\ req[r].token = t
    /\ sessions[t] # NoSession /\ sessions'[t] # NoSession =>
         /\ sessions'[t].admin = sessions[t].admin
         /\ sessions'[t].expires = sessions[t].expires
         /\ sessions'[t].seen >= sessions[t].seen

\* A session that was logged out or has expired never comes back: the touch
\* a request leaves behind may run after its logout.  Nor does it prolong the
\* session, hand it to someone else or turn back when it was last seen.
GoneForGood == [][SessionKept]_vars

\* A session goes on speaking for the address that logged in, whatever the
\* bootstrap-admin command does to the accounts.
SessionSpeaksForEmail ==
  [][\A t \in Tokens :
       sessions[t] # NoSession =>
         LET a == sessions[t].admin
         IN admins'[a] # NoAdmin /\ admins'[a].email = admins[a].email]_vars

\* In no stretch of time as long as the window does an address have more
\* attempts admitted than the burst, and one for each further request that
\* can read the clock before another's attempt and be counted after it.
RateLimited ==
  \A k \in Addresses, m \in Times :
    SumFunctionOnSet(admitted[k], {s \in Times : m - Window < s /\ s <= m})
      <= Burst + Cardinality(Requests) - 1

\* An attempt is denied only if that many were admitted since the window of
\* this attempt began: refused attempts do not lock an address out further.
DenialsJustified ==
  [][\A r \in Requests :
       pc[r] = "allow" /\ pc'[r] = "denied" =>
         SumFunctionOnSet(admitted[req[r].key], 
                          {s \in Times : s > req[r].now - Window}) >= Burst]_vars
=============================================================================
