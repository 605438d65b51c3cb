-------------------------- MODULE AdminSessionsProofs --------------------------
(***************************************************************************)
(* Sessions and the login limiter, for any number of administrators,       *)
(* tokens, addresses and requests, any window and any burst.               *)
(***************************************************************************)
EXTENDS AdminSessions, FiniteSums

\* Where a request can be.
Places == Rest \cup {"allow", "compare", "reset", "create", "serve"}

Shaped ==
  /\ pc \in [Requests -> Places]
  /\ req = [r \in Requests |-> req[r]]

\* A session belongs to an account there is.
Owned ==
  \A t \in Tokens : sessions[t] # NoSession => admins[sessions[t].admin] # NoAdmin

\* What was read of the clock is in its past.
InTime ==
  /\ \A r \in Requests : pc[r] = "allow" => req[r].now <= clock
  /\ \A t \in Tokens : sessions[t] # NoSession => sessions[t].seen <= clock

\* The limiter never remembers an attempt it did not let through.
Within == \A k \in Addresses, m \in Times : attempts[k][m] <= admitted[k][m]

WindowTo(m) == {s \in Times : m - Window < s /\ s <= m}

\* Requests that read the clock by m and have not been counted.
Pending(m) == {r \in Requests : pc[r] = "allow" /\ req[r].now <= m}

AdmittedTo(k, m) == SumFunctionOnSet(admitted[k], WindowTo(m))

\* The limiter remembers all of the window that ends at m ...
Remembered(k, m) ==
  /\ \A s \in WindowTo(m) : attempts[k][s] = admitted[k][s]
  /\ AdmittedTo(k, m) <= Burst

\* ... or a later attempt made it forget a part, and only the requests that
\* had read the clock by then can still be counted in the window.
Overtaken(k, m) ==
  /\ clock > m
  /\ AdmittedTo(k, m) + Cardinality(Pending(m)) <= Burst + Cardinality(Requests) - 1

Counted == \A k \in Addresses, m \in Times : Remembered(k, m) \/ Overtaken(k, m)

IInv ==
  /\ TypeOK
  /\ Shaped
  /\ UniqueEmails
  /\ Owned
  /\ InTime
  /\ Within
  /\ Counted

-----------------------------------------------------------------------------
(* Helpers.                                                                *)

LEMMA TimesFinite == IsFiniteSet(Times) /\ Times \subseteq Nat
BY TimesAssumption, FS_Interval DEF Times

LEMMA WindowFinite == ASSUME NEW m PROVE WindowTo(m) \in SUBSET Times /\ IsFiniteSet(WindowTo(m))
BY TimesFinite, FS_Subset DEF WindowTo

LEMMA PendingCount ==
  ASSUME NEW m
  PROVE  /\ IsFiniteSet(Pending(m)) /\ Cardinality(Pending(m)) \in Nat
         /\ Cardinality(Pending(m)) <= Cardinality(Requests)
         /\ Cardinality(Requests) \in Nat /\ Cardinality(Requests) >= 1
<1>1. Pending(m) \subseteq Requests
  BY DEF Pending
<1>2. Cardinality(Requests) # 0
  BY RequestsAssumption, FS_EmptySet
<1> QED BY <1>1, <1>2, RequestsAssumption, FS_Subset, FS_CardinalityType

LEMMA AdmittedNat ==
  ASSUME TypeOK, NEW k \in Addresses, NEW m
  PROVE  AdmittedTo(k, m) \in Nat
<1>1. \A s \in WindowTo(m) : admitted[k][s] \in Nat
  BY WindowFinite DEF TypeOK
<1> QED BY <1>1, WindowFinite, SumNat DEF AdmittedTo

LEMMA Moved ==
  ASSUME Shaped, NEW r \in Requests, NEW l \in Places, NEW q, Move(r, l, q)
  PROVE  /\ Shaped'
         /\ pc'[r] = l
         /\ req'[r] = IF l \in Rest THEN NoRequest ELSE q
         /\ \A s \in Requests \ {r} : pc'[s] = pc[s] /\ req'[s] = req[s]
BY DEF Shaped, Move

\* What holds of each request's local variables.
Local(p, q) ==
  \/ p \in Rest /\ q = NoRequest
  \/ p \in {"allow", "compare"} /\ q \in Attempt
  \/ p = "reset" /\ q \in Matched
  \/ p = "create" /\ q \in Granted
  \/ p = "serve" /\ q \in Tokens

Locals == \A r \in Requests : Local(pc[r], req[r])

\* A window an address has no attempt counted in, when the clock is read no earlier.
LEMMA WindowKept ==
  ASSUME IInv, NEW k \in Addresses, NEW m \in Times, 
         attempts'[k] = attempts[k], admitted'[k] = admitted[k], clock' \in Times, clock <= clock',
         \A r \in Requests : pc'[r] = "allow" => \/ pc[r] = "allow" /\ req'[r] = req[r]
                                                 \/ req'[r].now = clock
  PROVE  (Remembered(k, m) \/ Overtaken(k, m))'
<1>1. CASE Remembered(k, m)
  BY <1>1 DEF Remembered, AdmittedTo, WindowTo
<1>2. CASE Overtaken(k, m)
  <2>1. clock > m /\ clock \in Nat /\ clock' \in Nat /\ m \in Nat
    BY <1>2, TimesFinite DEF Overtaken, IInv, TypeOK
  <2>2. Pending(m)' \subseteq Pending(m)
    BY <2>1 DEF Pending
  <2>3. Cardinality(Pending(m)') <= Cardinality(Pending(m)) /\ Cardinality(Pending(m)') \in Nat
    BY <2>2, PendingCount, FS_Subset, FS_CardinalityType
  <2>4. AdmittedTo(k, m)' = AdmittedTo(k, m) /\ AdmittedTo(k, m) \in Nat
    BY AdmittedNat DEF AdmittedTo, WindowTo, IInv
  <2>5. AdmittedTo(k, m) + Cardinality(Pending(m)) <= Burst + Cardinality(Requests) - 1
    BY <1>2 DEF Overtaken
  <2>6. AdmittedTo(k, m)' + Cardinality(Pending(m)') <= Burst + Cardinality(Requests) - 1
    BY <2>3, <2>4, <2>5, PendingCount, TimesAssumption
  <2> QED BY <2>1, <2>6 DEF Overtaken
<1> QED BY <1>1, <1>2 DEF IInv, Counted

\* The same for every window, when a step leaves the limiter alone.
LEMMA LimiterKept ==
  ASSUME IInv, UNCHANGED limiter, clock' \in Times, clock <= clock',
         \A r \in Requests : pc'[r] = "allow" => \/ pc[r] = "allow" /\ req'[r] = req[r]
                                                 \/ req'[r].now = clock
  PROVE  Within' /\ Counted'
<1>1. Within'
  BY DEF IInv, Within, limiter
<1>2. Counted'
  BY WindowKept DEF Counted, limiter
<1> QED BY <1>1, <1>2

-----------------------------------------------------------------------------
(* The actions.                                                            *)

LEMMA InitHolds == Init => IInv
<1> SUFFICES ASSUME Init PROVE IInv
  OBVIOUS
<1> USE DEF Init
<1>1. NoAttempts \in [Times -> 0..Burst] /\ NoAttempts \in [Times -> Nat]
  BY TimesAssumption DEF NoAttempts
<1>2. TypeOK
  BY <1>1, TimesAssumption, CrashesAssumption DEF TypeOK, Times, Rest
<1>3. Shaped
  BY DEF Shaped, Places, Rest
<1>4. UniqueEmails /\ Owned
  BY DEF UniqueEmails, Owned
<1>5. InTime
  BY DEF InTime
<1>6. Within
  BY DEF Within, NoAttempts
<1>7. ASSUME NEW k \in Addresses, NEW m \in Times PROVE Remembered(k, m)
  <2>1. \A s \in WindowTo(m) : admitted[k][s] = 0
    BY WindowFinite DEF NoAttempts
  <2>2. AdmittedTo(k, m) = 0
    BY <2>1, WindowFinite, SumZero DEF AdmittedTo
  <2> QED BY <2>2, TimesAssumption DEF Remembered
<1> QED BY <1>2, <1>3, <1>4, <1>5, <1>6, <1>7 DEF IInv, Counted

LEMMA TickKeeps == IInv /\ Tick => IInv'
<1> SUFFICES ASSUME IInv, Tick PROVE IInv'
  OBVIOUS
<1> USE DEF Tick, stored, limiter
<1>1. clock' \in Times /\ clock <= clock'
  BY TimesAssumption DEF IInv, TypeOK, Times
<1>2. TypeOK'
  BY <1>1 DEF IInv, TypeOK
<1>3. Shaped' /\ UniqueEmails' /\ Owned'
  BY DEF IInv, Shaped, UniqueEmails, Owned
<1>4. InTime'
  <2>1. \A r \in Requests : pc[r] = "allow" => req[r].now \in Nat
    BY TimesFinite DEF IInv, TypeOK, Attempt, Rest
  <2>2. \A t \in Tokens : sessions[t] # NoSession => sessions[t].seen \in Nat
    BY TimesFinite DEF IInv, TypeOK, Session
  <2>3. clock \in Nat /\ clock' \in Nat
    BY <1>1, TimesFinite DEF IInv, TypeOK
  <2> QED BY <1>1, <2>1, <2>2, <2>3 DEF IInv, InTime
<1>5. Within' /\ Counted'
  BY <1>1, LimiterKept
<1> QED BY <1>2, <1>3, <1>4, <1>5 DEF IInv

\* A command may give an account a new password, or a new account to an email that has none.
LEMMA Bootstrapped ==
  ASSUME IInv, BootstrapAdmin
  PROVE  /\ admins' \in [AdminIds -> Admin \cup {NoAdmin}]
         /\ UniqueEmails'
         /\ \A a \in AdminIds : admins[a] # NoAdmin => 
              admins'[a] # NoAdmin /\ admins'[a].email = admins[a].email
<1> PICK e \in Emails, w \in Passwords :
       \/ \E a \in HasEmail(e) : admins' = [admins EXCEPT ![a].password = w]
       \/ /\ HasEmail(e) = {}
          /\ \E a \in AdminIds : 
               /\ admins[a] = NoAdmin 
               /\ admins' = [admins EXCEPT ![a] = [email |-> e, password |-> w]]
  BY DEF BootstrapAdmin
<1>1. admins \in [AdminIds -> Admin \cup {NoAdmin}]
  BY DEF IInv, TypeOK
<1>2. CASE \E a \in HasEmail(e) : admins' = [admins EXCEPT ![a].password = w]
  <2>1. PICK a \in HasEmail(e) : admins' = [admins EXCEPT ![a].password = w]
    BY <1>2
  <2>2. a \in AdminIds /\ admins[a] \in Admin
    BY <1>1 DEF HasEmail
  <2>3. admins' = [admins EXCEPT ![a] = [email |-> admins[a].email, password |-> w]]
    BY <2>1, <2>2, <1>1 DEF Admin
  <2>4. [email |-> admins[a].email, password |-> w] \in Admin
    BY <2>2 DEF Admin
  <2>5. [email |-> admins[a].email, password |-> w] # NoAdmin
    BY <2>4, NullAssumption
  <2>6. \A b \in AdminIds : (admins'[b] # NoAdmin <=> admins[b] # NoAdmin)
    BY <1>1, <2>2, <2>3, <2>5, NullAssumption
  <2>7. \A b \in AdminIds : admins[b] # NoAdmin => admins'[b].email = admins[b].email
    BY <1>1, <2>2, <2>3
  <2>8. UniqueEmails'
    BY <2>6, <2>7 DEF IInv, UniqueEmails
  <2> QED BY <1>1, <2>2, <2>3, <2>4, <2>6, <2>7, <2>8
<1>3. CASE /\ HasEmail(e) = {}
           /\ \E a \in AdminIds : 
                /\ admins[a] = NoAdmin 
                /\ admins' = [admins EXCEPT ![a] = [email |-> e, password |-> w]]
  <2>1. PICK a \in AdminIds : /\ admins[a] = NoAdmin 
                              /\ admins' = [admins EXCEPT ![a] = [email |-> e, password |-> w]]
    BY <1>3
  <2>2. [email |-> e, password |-> w] \in Admin
    BY DEF Admin
  <2>3. \A b \in AdminIds : admins[b] # NoAdmin => admins[b].email # e
    BY <1>3 DEF HasEmail
  <2>4. \A b \in AdminIds \ {a} : admins'[b] = admins[b]
    BY <1>1, <2>1
  <2>5. admins'[a].email = e
    BY <1>1, <2>1
  <2>6. UniqueEmails'
    BY <2>3, <2>4, <2>5 DEF IInv, UniqueEmails
  <2> QED BY <1>1, <2>1, <2>2, <2>4, <2>6
<1> QED BY <1>2, <1>3

LEMMA BootstrapKeeps == IInv /\ BootstrapAdmin => IInv'
<1> SUFFICES ASSUME IInv, BootstrapAdmin PROVE IInv'
  OBVIOUS
<1>1. UNCHANGED <<clock, sessions, issued, limiter, pc, req, touches, crashes>>
  BY DEF BootstrapAdmin
<1>2. TypeOK'
  BY <1>1, Bootstrapped DEF IInv, TypeOK, limiter
<1>3. Shaped' /\ InTime'
  BY <1>1 DEF IInv, Shaped, InTime
<1>4. Owned'
  <2>1. \A t \in Tokens : sessions[t] # NoSession => sessions[t].admin \in AdminIds
    BY DEF IInv, TypeOK, Session
  <2> QED BY <1>1, <2>1, Bootstrapped DEF IInv, Owned
<1>5. Within' /\ Counted'
  <2>1. clock' \in Times /\ clock <= clock'
    BY <1>1, TimesFinite DEF IInv, TypeOK
  <2> QED BY <1>1, <2>1, LimiterKept
<1> QED BY <1>2, <1>3, <1>4, <1>5, Bootstrapped DEF IInv

LEMMA LocalsKept ==
  ASSUME IInv, NEW r \in Requests, NEW l \in Places, NEW q, Move(r, l, q),
         Local(l, IF l \in Rest THEN NoRequest ELSE q)
  PROVE  Shaped' /\ Locals'
<1>1. Locals /\ Shaped
  BY DEF IInv, TypeOK, Locals, Local
<1> QED BY <1>1, Moved DEF Locals

\* A request that neither starts an attempt nor has one counted.
LEMMA RequestKeeps ==
  ASSUME IInv, NEW r \in Requests, NEW l \in Places \ {"allow"}, NEW q, Move(r, l, q),
         Local(l, IF l \in Rest THEN NoRequest ELSE q),
         UNCHANGED <<clock, admins, limiter, crashes>>,
         sessions' \in [Tokens -> Session \cup {NoSession}],
         \A t \in Tokens : sessions'[t] # NoSession =>
           sessions'[t].seen <= clock /\ admins[sessions'[t].admin] # NoAdmin,
         issued' \subseteq Tokens, touches' \subseteq Tokens
  PROVE  IInv'
<1>1. Shaped' /\ Locals'
  BY LocalsKept
<1>2. TypeOK'
  BY <1>1 DEF IInv, TypeOK, limiter, Locals, Local
<1>3. UniqueEmails' /\ Owned'
  BY DEF IInv, UniqueEmails, Owned
<1>4. \A s \in Requests : pc'[s] = "allow" => pc[s] = "allow" /\ req'[s] = req[s]
  BY Moved DEF IInv
<1>5. InTime'
  BY <1>4 DEF IInv, InTime
<1>6. Within' /\ Counted'
  <2>1. clock' \in Times /\ clock <= clock'
    BY TimesFinite DEF IInv, TypeOK
  <2> QED BY <2>1, <1>4, LimiterKept
<1> QED BY <1>1, <1>2, <1>3, <1>5, <1>6 DEF IInv

\* Sessions as the invariant has them.
Standing(ss) ==
  /\ ss \in [Tokens -> Session \cup {NoSession}]
  /\ \A t \in Tokens : ss[t] # NoSession =>
       ss[t].seen <= clock /\ admins[ss[t].admin] # NoAdmin

LEMMA StandingNow == IInv => Standing(sessions)
BY DEF IInv, TypeOK, Standing, InTime, Owned

LEMMA PurgedStands == ASSUME NEW ss, Standing(ss) PROVE Standing(Purged(ss))
BY DEF Standing, Purged

LEMMA LoginKeeps == ASSUME IInv, NEW r \in Requests, Login(r) PROVE IInv'
<1> USE DEF Login, stored, limiter
<1>1. PICK k \in Addresses : Move(r, "allow", [key |-> k, now |-> clock])
  OBVIOUS
<1>2. "allow" \in Places /\ "allow" \notin Rest
  BY DEF Places, Rest
<1>3. clock \in Times /\ clock \in Nat
  BY TimesFinite DEF IInv, TypeOK
<1>4. Shaped' /\ Locals'
  <2>1. Local("allow", [key |-> k, now |-> clock])
    BY <1>3 DEF Local, Attempt
  <2> QED BY <1>1, <1>2, <2>1, LocalsKept
<1>5. TypeOK'
  BY <1>4 DEF IInv, TypeOK, Locals, Local
<1>6. UniqueEmails' /\ Owned'
  BY DEF IInv, UniqueEmails, Owned
<1>7. \A s \in Requests : pc'[s] = "allow" => \/ pc[s] = "allow" /\ req'[s] = req[s]
                                             \/ req'[s].now = clock
  <2>1. req'[r] = [key |-> k, now |-> clock]
    BY <1>1, <1>2, Moved DEF IInv
  <2>2. \A s \in Requests \ {r} : pc'[s] = pc[s] /\ req'[s] = req[s]
    BY <1>1, <1>2, Moved DEF IInv
  <2> QED BY <2>1, <2>2
<1>8. InTime'
  <2>1. clock <= clock
    BY <1>3
  <2> QED BY <1>7, <2>1 DEF IInv, InTime
<1>9. Within' /\ Counted'
  BY <1>3, <1>7, LimiterKept
<1> QED BY <1>4, <1>5, <1>6, <1>8, <1>9 DEF IInv

LEMMA CompareKeeps == ASSUME IInv, NEW r \in Requests, Compare(r) PROVE IInv'
<1> USE DEF Compare, stored
<1>1. req[r] \in Attempt
  BY DEF IInv, TypeOK, Rest
<1>2. sessions' = sessions /\ Standing(sessions) /\ issued' \subseteq Tokens /\ touches' \subseteq Tokens
  BY StandingNow DEF IInv, TypeOK
<1>3. ASSUME Move(r, "idle", req[r]) PROVE IInv'
  <2>1. "idle" \in Places \ {"allow"} /\ "idle" \in Rest /\ Local("idle", NoRequest)
    BY DEF Places, Rest, Local
  <2> QED BY <1>2, <1>3, <2>1, RequestKeeps DEF Standing
<1>4. ASSUME NEW a \in AdminIds, Move(r, "reset", [key |-> req[r].key, admin |-> a]) PROVE IInv'
  <2>1. "reset" \in Places \ {"allow"} /\ "reset" \notin Rest
    BY DEF Places, Rest
  <2>2. Local("reset", [key |-> req[r].key, admin |-> a])
    BY <1>1 DEF Local, Attempt, Matched
  <2> QED BY <1>2, <1>4, <2>1, <2>2, RequestKeeps DEF Standing
<1> QED BY <1>3, <1>4 DEF HasEmail

LEMMA CreateSessionKeeps == ASSUME IInv, NEW r \in Requests, CreateSession(r) PROVE IInv'
<1> USE DEF CreateSession
<1> DEFINE q == req[r]
           new == [admin |-> q.admin, expires |-> q.expires, seen |-> clock]
<1>1. q \in Granted
  BY DEF IInv, TypeOK, Rest
<1>2. clock \in Times /\ clock <= clock
  BY TimesFinite DEF IInv, TypeOK
<1>3. new \in Session
  BY <1>1, <1>2 DEF Granted, Session
<1>4. Standing(sessions) /\ Standing(Purged(sessions))
  BY StandingNow, PurgedStands
<1>5. admins[q.admin] # NoAdmin => Standing([Purged(sessions) EXCEPT ![q.token] = new])
  <2>1. q.token \in Tokens
    BY <1>1 DEF Granted
  <2> QED BY <1>2, <1>3, <1>4, <2>1 DEF Standing
<1>6. Standing(sessions')
  BY <1>4, <1>5
<1>7. "idle" \in Places \ {"allow"} /\ "idle" \in Rest /\ Local("idle", NoRequest)
  BY DEF Places, Rest, Local
<1>8. issued' \subseteq Tokens /\ touches' \subseteq Tokens
  BY DEF IInv, TypeOK
<1> QED BY <1>6, <1>7, <1>8, RequestKeeps DEF Standing

LEMMA RequireAuthKeeps == ASSUME IInv, NEW r \in Requests, RequireAuth(r) PROVE IInv'
<1> USE DEF RequireAuth
<1> PICK t \in issued :
       \/ /\ sessions' \in {sessions, Purged(sessions)}
          /\ UNCHANGED <<pc, req, touches>>
       \/ /\ sessions' = Purged(sessions)
          /\ sessions'[t] # NoSession
          /\ touches' = touches \cup {t}
          /\ Move(r, "serve", t)
  OBVIOUS
<1>1. t \in Tokens
  BY DEF IInv, TypeOK
<1>2. Standing(sessions')
  BY StandingNow, PurgedStands
<1>3. issued' \subseteq Tokens /\ touches' \subseteq Tokens
  BY <1>1 DEF IInv, TypeOK
<1>4. CASE UNCHANGED <<pc, req, touches>>
  <2>1. TypeOK' /\ Shaped' /\ UniqueEmails'
    BY <1>2, <1>3, <1>4 DEF IInv, TypeOK, Shaped, UniqueEmails, limiter, Standing
  <2>2. Owned' /\ InTime'
    BY <1>2, <1>4 DEF IInv, Owned, InTime, Standing
  <2>3. Within' /\ Counted'
    <3>1. clock' \in Times /\ clock <= clock'
      BY TimesFinite DEF IInv, TypeOK
    <3> QED BY <1>4, <3>1, LimiterKept
  <2> QED BY <2>1, <2>2, <2>3 DEF IInv
<1>5. CASE Move(r, "serve", t)
  <2>1. "serve" \in Places \ {"allow"} /\ "serve" \notin Rest /\ Local("serve", t)
    BY <1>1 DEF Places, Rest, Local
  <2> QED BY <1>2, <1>3, <1>5, <2>1, RequestKeeps DEF Standing
<1> QED BY <1>4, <1>5

LEMMA ServeKeeps == ASSUME IInv, NEW r \in Requests, Serve(r) \/ Logout(r) PROVE IInv'
<1> USE DEF Serve, Logout, stored
<1>1. Standing(sessions')
  BY StandingNow DEF Standing
<1>2. "idle" \in Places \ {"allow"} /\ "idle" \in Rest /\ Local("idle", NoRequest)
  BY DEF Places, Rest, Local
<1>3. issued' \subseteq Tokens /\ touches' \subseteq Tokens
  BY DEF IInv, TypeOK
<1> QED BY <1>1, <1>2, <1>3, RequestKeeps DEF Standing

LEMMA TouchKeeps == ASSUME IInv, NEW t \in Tokens, Touch(t) PROVE IInv'
<1> USE DEF Touch
<1>1. clock \in Times /\ clock <= clock
  BY TimesFinite DEF IInv, TypeOK
<1>2. Standing(sessions')
  <2>1. CASE sessions' = sessions
    BY <2>1, StandingNow
  <2>2. CASE sessions[t] # NoSession /\ sessions' = [sessions EXCEPT ![t].seen = clock]
    <3>1. Standing(sessions) /\ sessions[t] \in Session
      BY <2>2, StandingNow DEF Standing
    <3>2. sessions' = [sessions EXCEPT ![t] = [admin |-> sessions[t].admin, 
                                               expires |-> sessions[t].expires, seen |-> clock]]
      BY <2>2, <3>1 DEF Standing, Session
    <3>3. [admin |-> sessions[t].admin, expires |-> sessions[t].expires, seen |-> clock] \in Session
      BY <1>1, <3>1 DEF Session
    <3> QED BY <1>1, <2>2, <3>1, <3>2, <3>3 DEF Standing
  <2> QED BY <2>1, <2>2
<1>3. TypeOK' /\ Shaped' /\ UniqueEmails'
  BY <1>2 DEF IInv, TypeOK, Shaped, UniqueEmails, limiter, Standing
<1>4. Owned' /\ InTime'
  BY <1>2 DEF IInv, Owned, InTime, Standing
<1>5. Within' /\ Counted'
  BY <1>1, LimiterKept
<1> QED BY <1>3, <1>4, <1>5 DEF IInv

\* A list that was cleared remembers all there is.
LEMMA ClearedRemembers ==
  ASSUME NEW k \in Addresses, NEW m \in Times, attempts'[k] = NoAttempts, admitted'[k] = NoAttempts
  PROVE  Remembered(k, m)'
<1>1. \A s \in WindowTo(m) : admitted'[k][s] = 0 /\ attempts'[k][s] = 0
  BY WindowFinite DEF NoAttempts
<1>2. SumFunctionOnSet(admitted'[k], WindowTo(m)) = 0
  BY <1>1, WindowFinite, SumZero
<1> QED BY <1>1, <1>2, TimesAssumption DEF Remembered, AdmittedTo, WindowTo

LEMMA NoAttemptsType == NoAttempts \in [Times -> 0..Burst] /\ NoAttempts \in [Times -> Nat]
BY TimesAssumption DEF NoAttempts

LEMMA ResetKeeps == ASSUME IInv, NEW r \in Requests, Reset(r) PROVE IInv'
<1> USE DEF Reset
<1> DEFINE k == req[r].key
<1>1. req[r] \in Matched
  BY DEF IInv, TypeOK, Rest
<1>2. PICK t \in Tokens \ issued :
        /\ issued' = issued \cup {t}
        /\ Move(r, "create", [admin |-> req[r].admin, token |-> t, expires |-> clock + TTL])
  OBVIOUS
<1>3. clock \in Times /\ clock \in Nat /\ clock <= clock /\ clock + TTL \in Nat
  BY TimesFinite, TimesAssumption DEF IInv, TypeOK
<1>4. "create" \in Places /\ "create" \notin Rest /\ "create" # "allow"
  BY DEF Places, Rest
<1>5. Shaped' /\ Locals'
  <2>1. Local("create", [admin |-> req[r].admin, token |-> t, expires |-> clock + TTL])
    BY <1>1, <1>3 DEF Local, Matched, Granted
  <2> QED BY <1>2, <1>4, <2>1, LocalsKept
<1>6. TypeOK'
  BY <1>2, <1>5, NoAttemptsType DEF IInv, TypeOK, Locals, Local
<1>7. UniqueEmails' /\ Owned'
  BY DEF IInv, UniqueEmails, Owned
<1>8. \A s \in Requests : pc'[s] = "allow" => pc[s] = "allow" /\ req'[s] = req[s]
  BY <1>2, <1>4, Moved DEF IInv
<1>9. InTime'
  BY <1>8 DEF IInv, InTime
<1>10. k \in Addresses /\ attempts'[k] = NoAttempts /\ admitted'[k] = NoAttempts
  BY <1>1 DEF IInv, TypeOK, Matched
<1>11. \A j \in Addresses \ {k} : attempts'[j] = attempts[j] /\ admitted'[j] = admitted[j]
  BY DEF IInv, TypeOK
<1>12. Within'
  <2>1. \A m \in Times : NoAttempts[m] <= NoAttempts[m]
    BY DEF NoAttempts
  <2> QED BY <1>10, <1>11, <2>1 DEF IInv, Within
<1>13. ASSUME NEW j \in Addresses, NEW m \in Times PROVE (Remembered(j, m) \/ Overtaken(j, m))'
  <2>1. CASE j = k
    BY <1>10, <2>1, ClearedRemembers
  <2>2. CASE j # k
    BY <1>3, <1>8, <1>11, <2>2, WindowKept
  <2> QED BY <2>1, <2>2
<1> QED BY <1>5, <1>6, <1>7, <1>9, <1>12, <1>13 DEF IInv, Counted

LEMMA CrashKeeps == IInv /\ Crash => IInv'
<1> SUFFICES ASSUME IInv, Crash PROVE IInv'
  OBVIOUS
<1> USE DEF Crash, stored
<1>1. TypeOK'
  BY NoAttemptsType, CrashesAssumption DEF IInv, TypeOK, Rest
<1>2. Shaped'
  BY DEF Shaped, Places, Rest
<1>3. UniqueEmails' /\ Owned'
  BY DEF IInv, UniqueEmails, Owned
<1>4. InTime'
  BY DEF IInv, InTime
<1>5. Within'
  <2>1. \A m \in Times : NoAttempts[m] <= NoAttempts[m]
    BY DEF NoAttempts
  <2> QED BY <2>1 DEF Within
<1>6. Counted'
  BY ClearedRemembers DEF Counted
<1> QED BY <1>1, <1>2, <1>3, <1>4, <1>5, <1>6 DEF IInv

-----------------------------------------------------------------------------
(* An attempt.                                                             *)

LEMMA RecentFacts ==
  ASSUME IInv, NEW k \in Addresses, NEW n \in Times
  PROVE  /\ Recent(attempts[k], n) \in [Times -> Nat]
         /\ \A s \in Times : Recent(attempts[k], n)[s] <= attempts[k][s]
         /\ \A s \in Times : Recent(attempts[k], n)[s] <= Burst
         /\ \A s \in Times : s > n - Window => Recent(attempts[k], n)[s] = attempts[k][s]
         /\ SumFunction(Recent(attempts[k], n)) \in Nat
         /\ SumFunction(Recent(attempts[k], n)) = SumFunctionOnSet(Recent(attempts[k], n), Times)
         /\ \A s \in Times : Recent(attempts[k], n)[s] <= SumFunction(Recent(attempts[k], n))
<1> DEFINE recent == Recent(attempts[k], n)
<1>1. \A s \in Times : attempts[k][s] \in Nat /\ attempts[k][s] <= Burst
  BY TimesAssumption DEF IInv, TypeOK
<1>2. recent \in [Times -> Nat]
  BY <1>1 DEF Recent
<1>3. /\ \A s \in Times : recent[s] <= attempts[k][s]
      /\ \A s \in Times : recent[s] <= Burst
      /\ \A s \in Times : s > n - Window => recent[s] = attempts[k][s]
  BY <1>1, TimesAssumption DEF Recent
<1>4. SumFunction(recent) = SumFunctionOnSet(recent, Times)
  <2>1. DOMAIN recent = Times
    BY <1>2
  <2> HIDE DEF recent
  <2> QED BY <2>1 DEF SumFunction, SumFunctionOnSet, FoldFunction
<1>5. SumFunctionOnSet(recent, Times) \in Nat
  <2> HIDE DEF recent
  <2> QED BY <1>2, TimesFinite, SumNat
<1>6. \A s \in Times : recent[s] <= SumFunctionOnSet(recent, Times)
  <2> HIDE DEF recent
  <2> QED BY <1>2, TimesFinite, SumElement
<1> QED BY <1>2, <1>3, <1>4, <1>5, <1>6

LEMMA AllowKeeps == ASSUME IInv, NEW r \in Requests, Allow(r) PROVE IInv'
<1>1. req[r] \in Attempt /\ pc[r] = "allow"
  BY DEF IInv, TypeOK, Rest, Allow
<1> PICK k \in Addresses : k = req[r].key
  BY <1>1 DEF Attempt
<1> PICK n \in Times : n = req[r].now
  BY <1>1 DEF Attempt
<1> DEFINE recent == Recent(attempts[k], n)
           total == SumFunction(recent)
           full == total >= Burst
           counted == [recent EXCEPT ![n] = recent[n] + 1]
<1>2. n \in Nat /\ n <= clock
  BY <1>1, TimesFinite DEF IInv, InTime
<1>3. clock \in Times /\ clock \in Nat /\ clock <= clock
  BY TimesFinite DEF IInv, TypeOK
<1>4. /\ recent \in [Times -> Nat] /\ total \in Nat
      /\ total = SumFunctionOnSet(recent, Times)
      /\ \A s \in Times : recent[s] <= attempts[k][s]
      /\ \A s \in Times : recent[s] <= Burst
      /\ \A s \in Times : recent[s] <= total
      /\ \A s \in Times : s > n - Window => recent[s] = attempts[k][s]
  BY RecentFacts
<1>5. \/ /\ full
         /\ attempts' = [attempts EXCEPT ![k] = recent]
         /\ admitted' = admitted
         /\ Move(r, "denied", req[r])
      \/ /\ ~full
         /\ attempts' = [attempts EXCEPT ![k] = counted]
         /\ admitted' = [admitted EXCEPT ![k][n] = @ + 1]
         /\ Move(r, "compare", req[r])
  <2>1. total < Burst => ~full
    BY <1>4, TimesAssumption
  <2> QED BY <2>1 DEF Allow
<1>6. UNCHANGED <<clock, admins, sessions, issued, touches, crashes>>
  BY DEF Allow, stored
<1> HIDE DEF recent, total, full
<1>7. Shaped' /\ Locals'
  <2>1. "denied" \in Places /\ "denied" \in Rest /\ "compare" \in Places /\ "compare" \notin Rest
    BY DEF Places, Rest
  <2>2. Local("denied", NoRequest) /\ Local("compare", req[r])
    BY <1>1 DEF Local, Rest
  <2> QED BY <1>5, <2>1, <2>2, LocalsKept
<1>8. /\ pc'[r] # "allow"
      /\ \A s \in Requests \ {r} : pc'[s] = pc[s] /\ req'[s] = req[s]
  <2>1. "denied" \in Places /\ "compare" \in Places
    BY DEF Places, Rest
  <2> QED BY <1>5, <2>1, Moved DEF IInv
<1>9. \A j \in Addresses \ {k} : attempts'[j] = attempts[j] /\ admitted'[j] = admitted[j]
  BY <1>5 DEF IInv, TypeOK
<1>10. /\ attempts \in [Addresses -> [Times -> 0..Burst]]
       /\ admitted \in [Addresses -> [Times -> Nat]]
  BY DEF IInv, TypeOK
<1>admitted. \A s \in Times : admitted[k][s] \in Nat /\ admitted[k][s] \in Int
  <2>1. admitted[k] \in [Times -> Nat]
    BY <1>10
  <2> QED BY <2>1
<1>11. attempts'[k] = IF full THEN recent ELSE counted
  BY <1>2, <1>5, <1>10
<1>12. admitted'[k] = IF full THEN admitted[k] ELSE [admitted[k] EXCEPT ![n] = admitted[k][n] + 1]
  BY <1>2, <1>5, <1>10
<1>13. DOMAIN attempts' = Addresses /\ attempts' = [j \in Addresses |-> attempts'[j]]
  BY <1>5, <1>10
<1>14. DOMAIN admitted' = Addresses /\ admitted' = [j \in Addresses |-> admitted'[j]]
  BY <1>5, <1>10
<1>15. ASSUME ~full PROVE total < Burst /\ recent[n] + 1 \in 0..Burst
  <2>1. ~(total >= Burst) 
    BY <1>15 DEF full
  <2>2. recent[n] \in Nat /\ recent[n] <= total /\ total \in Nat
    BY <1>2, <1>4
  <2> QED BY <2>1, <2>2, TimesAssumption
<1>16. attempts'[k] \in [Times -> 0..Burst]
  <2>1. recent \in [Times -> 0..Burst]
    <3>1. \A s \in Times : recent[s] \in Nat /\ recent[s] <= Burst
      BY <1>4
    <3>2. \A s \in Times : recent[s] \in 0..Burst
      BY <3>1, TimesAssumption
    <3> QED BY <1>4, <3>2
  <2> QED BY <1>11, <1>15, <2>1
<1>17. admitted'[k] \in [Times -> Nat]
  <2>1. admitted[k] \in [Times -> Nat] /\ admitted[k][n] + 1 \in Nat
    BY <1>2, <1>10
  <2> QED BY <1>12, <2>1
<1>18. TypeOK'
  <2>1. attempts' \in [Addresses -> [Times -> 0..Burst]]
    BY <1>9, <1>10, <1>13, <1>16
  <2>2. admitted' \in [Addresses -> [Times -> Nat]]
    BY <1>9, <1>10, <1>14, <1>17
  <2> QED BY <1>6, <1>7, <2>1, <2>2 DEF IInv, TypeOK, Locals, Local
<1>19. UniqueEmails' /\ Owned' /\ InTime'
  BY <1>6, <1>8 DEF IInv, UniqueEmails, Owned, InTime
<1>20. Within'
  <2>1. ASSUME NEW s \in Times PROVE attempts'[k][s] <= admitted'[k][s]
    <3>1. recent[s] \in Nat /\ attempts[k][s] \in Nat /\ admitted[k][s] \in Nat
      <4>1. attempts[k] \in [Times -> 0..Burst]
        BY <1>10
      <4>2. recent[s] \in Nat
        BY <1>4
      <4>3. attempts[k][s] \in Nat
        BY <4>1, TimesAssumption
      <4> QED BY <1>admitted, <4>2, <4>3
    <3>2. recent[s] <= attempts[k][s] /\ attempts[k][s] <= admitted[k][s]
      BY <1>2, <1>4 DEF IInv, Within
    <3>3. CASE full
      BY <1>11, <1>12, <3>1, <3>2, <3>3
    <3>4. CASE ~full /\ s # n
      <4>1. attempts'[k][s] = recent[s] /\ admitted'[k][s] = admitted[k][s]
        BY <1>2, <1>4, <1>10, <1>11, <1>12, <3>4
      <4> QED BY <3>1, <3>2, <4>1
    <3>5. CASE ~full /\ s = n
      <4>1. attempts'[k][s] = recent[s] + 1 /\ admitted'[k][s] = admitted[k][s] + 1
        BY <1>2, <1>4, <1>10, <1>11, <1>12, <3>5
      <4> QED BY <3>1, <3>2, <4>1
    <3> QED BY <3>3, <3>4, <3>5
  <2>2. ASSUME NEW j \in Addresses, NEW s \in Times PROVE attempts'[j][s] <= admitted'[j][s]
    BY <1>9, <2>1 DEF IInv, Within
  <2> QED BY <2>2 DEF Within
<1>21. ASSUME NEW j \in Addresses, NEW m \in Times PROVE (Remembered(j, m) \/ Overtaken(j, m))'
  <2>1. CASE j # k
    BY <1>3, <1>6, <1>8, <1>9, <2>1, WindowKept
  <2>2. CASE j = k /\ Remembered(k, m) /\ n <= m
    <3>1. m \in Nat /\ WindowTo(m) \in SUBSET Times /\ IsFiniteSet(WindowTo(m))
      BY TimesFinite, WindowFinite
    <3>2. ASSUME NEW s \in WindowTo(m) 
          PROVE  recent[s] = admitted[k][s] /\ attempts'[k][s] = admitted'[k][s]
      <4>1. s > n - Window
        BY <1>2, <2>2, <3>1, TimesFinite, TimesAssumption DEF WindowTo
      <4>2. recent[s] = admitted[k][s]
        BY <1>4, <2>2, <3>1, <4>1 DEF Remembered
      <4> QED BY <1>2, <1>4, <1>10, <1>11, <1>12, <3>1, <4>2
    <3>3. CASE full
      BY <1>12, <2>2, <3>2, <3>3 DEF Remembered, AdmittedTo, WindowTo
    <3>4. CASE ~full
      <4>1. \A s \in WindowTo(m) : admitted'[k][s] \in Nat
        BY <1>17, <3>1
      <4>2. AdmittedTo(k, m)' = SumFunctionOnSet(attempts'[k], WindowTo(m))
        <5>1. \A s \in WindowTo(m) : admitted'[k][s] \in Int /\ admitted'[k][s] = attempts'[k][s]
          BY <3>2, <4>1
        <5>2. SumFunctionOnSet(admitted'[k], WindowTo(m)) = SumFunctionOnSet(attempts'[k], WindowTo(m))
          BY <3>1, <5>1, SumSame
        <5> QED BY <5>2 DEF AdmittedTo, WindowTo
      <4>3. SumFunctionOnSet(attempts'[k], WindowTo(m)) <= SumFunctionOnSet(attempts'[k], Times)
        <5>1. \A s \in Times : attempts'[k][s] \in Nat
          BY <1>16, TimesAssumption
        <5> QED BY <3>1, <5>1, TimesFinite, SumSubset
      <4>4. SumFunctionOnSet(attempts'[k], Times) = total + 1
        <5>1. attempts'[k][n] = recent[n] + 1 /\ \A s \in Times \ {n} : attempts'[k][s] = recent[s]
          BY <1>2, <1>4, <1>11, <3>4
        <5>2. \A s \in Times : recent[s] \in Int
          BY <1>4
        <5> QED BY <1>2, <1>4, <5>1, <5>2, TimesFinite, SumAddOne
      <4>5. SumFunctionOnSet(attempts'[k], WindowTo(m)) \in Int
        <5>1. \A s \in WindowTo(m) : attempts'[k][s] \in Int
          BY <3>2, <4>1
        <5> QED BY <3>1, <5>1, SumInt
      <4>6. AdmittedTo(k, m)' <= Burst
        BY <1>4, <1>15, <3>4, <4>2, <4>3, <4>4, <4>5, TimesAssumption
      <4> QED BY <2>2, <3>2, <4>6 DEF Remembered, WindowTo
    <3> QED BY <2>2, <3>3, <3>4
  <2>3. CASE j = k /\ ~(Remembered(k, m) /\ n <= m)
    <3>1. m \in Nat /\ WindowTo(m) \in SUBSET Times /\ IsFiniteSet(WindowTo(m))
      BY TimesFinite, WindowFinite
    <3>2. clock' > m
      BY <1>2, <1>3, <1>6, <2>3, <3>1 DEF IInv, Counted, Overtaken
    <3>3. Pending(m)' = Pending(m) \ {r}
      BY <1>8 DEF Pending
    <3>4. /\ Cardinality(Pending(m)') = IF n <= m THEN Cardinality(Pending(m)) - 1
                                                  ELSE Cardinality(Pending(m))
          /\ Cardinality(Pending(m)) \in Nat /\ Cardinality(Requests) \in Nat 
          /\ Cardinality(Pending(m)') \in Nat
      BY <1>1, <3>3, PendingCount, FS_RemoveElement, FS_CardinalityType DEF Pending
    <3>5. n > m => Cardinality(Pending(m)) <= Cardinality(Requests) - 1
      <4>1. ASSUME n > m PROVE Pending(m) \subseteq Requests \ {r}
        BY <1>2, <3>1, <4>1 DEF Pending
      <4>2. IsFiniteSet(Requests \ {r}) /\ Cardinality(Requests \ {r}) = Cardinality(Requests) - 1
        BY RequestsAssumption, FS_RemoveElement
      <4> QED BY <4>1, <4>2, FS_Subset
    <3>6. AdmittedTo(k, m) \in Nat
      BY <1>2, AdmittedNat DEF IInv
    <3>7. n > m => AdmittedTo(k, m)' = AdmittedTo(k, m)
      <4>1. ASSUME n > m PROVE \A s \in WindowTo(m) : admitted'[k][s] = admitted[k][s]
        BY <1>2, <1>10, <1>12, <3>1, <4>1, TimesFinite DEF WindowTo
      <4>2. \A s \in WindowTo(m) : admitted[k][s] \in Int
        BY <1>admitted, <3>1
      <4>3. n > m => SumFunctionOnSet(admitted[k], WindowTo(m)) = SumFunctionOnSet(admitted'[k], WindowTo(m))
        BY <3>1, <4>1, <4>2, SumSame
      <4> QED BY <4>3 DEF AdmittedTo, WindowTo
    <3>8. AdmittedTo(k, m)' \in {AdmittedTo(k, m), AdmittedTo(k, m) + 1}
      <4>1. CASE \A s \in WindowTo(m) : admitted'[k][s] = admitted[k][s]
        <5>1. \A s \in WindowTo(m) : admitted[k][s] \in Int
          BY <1>admitted, <3>1
        <5>2. SumFunctionOnSet(admitted[k], WindowTo(m)) = SumFunctionOnSet(admitted'[k], WindowTo(m))
          BY <3>1, <4>1, <5>1, SumSame
        <5> QED BY <5>2 DEF AdmittedTo, WindowTo
      <4>2. CASE ~full /\ n \in WindowTo(m)
        <5>1. /\ admitted'[k][n] = admitted[k][n] + 1
              /\ \A s \in WindowTo(m) \ {n} : admitted'[k][s] = admitted[k][s]
          BY <1>2, <1>10, <1>12, <3>1, <4>2
        <5>2. \A s \in WindowTo(m) : admitted[k][s] \in Int
          BY <1>admitted, <3>1
        <5>3. SumFunctionOnSet(admitted'[k], WindowTo(m)) = SumFunctionOnSet(admitted[k], WindowTo(m)) + 1
          BY <3>1, <4>2, <5>1, <5>2, SumAddOne
        <5> QED BY <5>3 DEF AdmittedTo, WindowTo
      <4>3. full \/ n \notin WindowTo(m) => \A s \in WindowTo(m) : admitted'[k][s] = admitted[k][s]
        BY <1>2, <1>10, <1>12, <3>1
      <4> QED BY <4>1, <4>2, <4>3
    <3>9. AdmittedTo(k, m)' + Cardinality(Pending(m)') <= Burst + Cardinality(Requests) - 1
      <4>1. CASE n > m
        <5>1. AdmittedTo(k, m) + Cardinality(Pending(m)) <= Burst + Cardinality(Requests) - 1
          <6>1. CASE Remembered(k, m)
            <7>1. AdmittedTo(k, m) <= Burst
              BY <6>1 DEF Remembered
            <7> QED BY <3>4, <3>5, <3>6, <4>1, <7>1, TimesAssumption
          <6>2. CASE Overtaken(k, m)
            BY <6>2 DEF Overtaken
          <6> QED BY <1>2, <6>1, <6>2 DEF IInv, Counted
        <5>2. Cardinality(Pending(m)') = Cardinality(Pending(m)) /\ AdmittedTo(k, m)' = AdmittedTo(k, m)
          BY <1>2, <3>1, <3>4, <3>7, <4>1
        <5> QED BY <5>1, <5>2
      <4>2. CASE n <= m
        <5>1. AdmittedTo(k, m) + Cardinality(Pending(m)) <= Burst + Cardinality(Requests) - 1
          BY <1>2, <2>3, <4>2 DEF IInv, Counted, Overtaken
        <5>2. Cardinality(Pending(m)') = Cardinality(Pending(m)) - 1
          BY <3>4, <4>2
        <5> QED BY <3>4, <3>6, <3>8, <5>1, <5>2, TimesAssumption
      <4> QED BY <1>2, <3>1, <4>1, <4>2
    <3> QED BY <2>3, <3>2, <3>9 DEF Overtaken
  <2> QED BY <2>1, <2>2, <2>3
<1> QED BY <1>7, <1>18, <1>19, <1>20, <1>21 DEF IInv, Counted

-----------------------------------------------------------------------------
(* The theorems.                                                           *)

LEMMA NextKeeps == IInv /\ [Next]_vars => IInv'
<1> SUFFICES ASSUME IInv, [Next]_vars PROVE IInv'
  OBVIOUS
<1>1. CASE Tick
  BY <1>1, TickKeeps
<1>2. CASE BootstrapAdmin
  BY <1>2, BootstrapKeeps
<1>3. ASSUME NEW r \in Requests,
             \/ Login(r) \/ Allow(r) \/ Compare(r) \/ Reset(r) \/ CreateSession(r)
             \/ RequireAuth(r) \/ Serve(r) \/ Logout(r)
      PROVE  IInv'
  BY <1>3, LoginKeeps, AllowKeeps, CompareKeeps, ResetKeeps, CreateSessionKeeps,
     RequireAuthKeeps, ServeKeeps
<1>4. CASE \E t \in Tokens : Touch(t)
  BY <1>4, TouchKeeps
<1>5. CASE Crash
  BY <1>5, CrashKeeps
<1>6. CASE UNCHANGED vars
  <2> USE <1>6 DEF vars
  <2>1. TypeOK' /\ Shaped' /\ UniqueEmails' /\ Owned' /\ InTime'
    BY DEF IInv, TypeOK, Shaped, UniqueEmails, Owned, InTime
  <2>2. Within' /\ Counted'
    <3>1. clock' \in Times /\ clock <= clock'
      BY TimesFinite DEF IInv, TypeOK
    <3> QED BY <3>1, LimiterKept DEF limiter
  <2> QED BY <2>1, <2>2 DEF IInv
<1> QED BY <1>1, <1>2, <1>3, <1>4, <1>5, <1>6 DEF Next

\* Accounts, sessions, the limiter and every login in progress are well-formed;
\* what the limiter keeps for an address never exceeds the burst.
THEOREM TypeCorrect == Spec => []TypeOK
<1>1. IInv => TypeOK
  BY DEF IInv
<1> QED BY <1>1, InitHolds, NextKeeps, PTL DEF Spec

\* However many bootstrap-admin commands run, an email has one record.
THEOREM EmailsUnique == Spec => []UniqueEmails
<1>1. IInv => UniqueEmails
  BY DEF IInv
<1> QED BY <1>1, InitHolds, NextKeeps, PTL DEF Spec

\* In no window does an address have more attempts admitted than the burst and
\* one for each request but one, however the clock is read and logins overtake
\* each other on their way to the limiter.
THEOREM LoginsLimited == Spec => []RateLimited
<1>1. IInv => RateLimited
  <2> SUFFICES ASSUME IInv, NEW k \in Addresses, NEW m \in Times
               PROVE  AdmittedTo(k, m) <= Burst + Cardinality(Requests) - 1
    BY DEF RateLimited, AdmittedTo, WindowTo
  <2>1. AdmittedTo(k, m) \in Nat /\ Cardinality(Pending(m)) \in Nat 
        /\ Cardinality(Requests) \in Nat /\ Cardinality(Requests) >= 1
    BY AdmittedNat, PendingCount DEF IInv
  <2>2. CASE Remembered(k, m)
    BY <2>1, <2>2, TimesAssumption DEF Remembered
  <2>3. CASE Overtaken(k, m)
    BY <2>1, <2>3, TimesAssumption DEF Overtaken
  <2> QED BY <2>2, <2>3 DEF IInv, Counted
<1> QED BY <1>1, InitHolds, NextKeeps, PTL DEF Spec

-----------------------------------------------------------------------------
(* Action properties.                                                      *)

\* A token goes to one login, whose session is created once.
Fresh ==
  /\ \A t \in Tokens : sessions[t] # NoSession => t \in issued
  /\ \A r \in Requests : pc[r] = "create" => 
       req[r].token \in issued /\ sessions[req[r].token] = NoSession
  /\ \A r, s \in Requests : 
       pc[r] = "create" /\ pc[s] = "create" /\ req[r].token = req[s].token => r = s

\* Steps that draw no token and create no session.
LEMMA FreshKept ==
  ASSUME IInv, Fresh, issued' = issued,
         \A t \in Tokens : sessions'[t] # NoSession => sessions[t] # NoSession,
         \A r \in Requests : pc'[r] = "create" => pc[r] = "create" /\ req'[r] = req[r]
  PROVE  Fresh'
<1>1. \A r \in Requests : pc[r] = "create" => req[r].token \in Tokens
  BY DEF IInv, TypeOK, Rest, Granted
<1> QED BY <1>1 DEF Fresh

LEMMA Movements ==
  ASSUME IInv, NEW r \in Requests, NEW l \in Places, NEW q, Move(r, l, q)
  PROVE  /\ l # "create" => \A s \in Requests : 
              pc'[s] = "create" => pc[s] = "create" /\ req'[s] = req[s]
         /\ \A s \in Requests \ {r} : pc'[s] = pc[s] /\ req'[s] = req[s]
         /\ pc'[r] = l
BY Moved DEF IInv

LEMMA PurgedKeeps ==
  ASSUME IInv, NEW t \in Tokens, Purged(sessions)[t] # NoSession
  PROVE  Purged(sessions)[t] = sessions[t]
BY DEF Purged

LEMMA PlacesListed ==
  /\ {"idle", "denied", "allow", "compare", "reset", "create", "serve"} \subseteq Places
  /\ {"allow", "compare", "reset", "create", "serve"} \cap Rest = {}
BY DEF Places, Rest

LEMMA FreshKeeps == IInv /\ Fresh /\ [Next]_vars => Fresh'
<1> SUFFICES ASSUME IInv, Fresh, [Next]_vars PROVE Fresh'
  OBVIOUS
<1> USE PlacesListed
<1>1. CASE Tick \/ BootstrapAdmin \/ Crash \/ UNCHANGED vars
  <2>1. issued' = issued /\ sessions' = sessions
    BY <1>1 DEF Tick, BootstrapAdmin, Crash, vars, stored
  <2>2. \A r \in Requests : pc'[r] = "create" => pc[r] = "create" /\ req'[r] = req[r]
    BY <1>1 DEF Tick, BootstrapAdmin, Crash, vars
  <2> QED BY <2>1, <2>2, FreshKept
<1>2. ASSUME NEW t \in Tokens, Touch(t) PROVE Fresh'
  <2>1. \A u \in Tokens : sessions'[u] # NoSession => sessions[u] # NoSession
    BY <1>2 DEF Touch, IInv, TypeOK
  <2> QED BY <1>2, <2>1, FreshKept DEF Touch
<1>3. ASSUME NEW r \in Requests, Login(r) \/ Allow(r) \/ Compare(r) \/ Serve(r) \/ Logout(r)
      PROVE  Fresh'
  <2>1. issued' = issued
    BY <1>3 DEF Login, Allow, Compare, Serve, Logout, stored
  <2>2. \A u \in Tokens : sessions'[u] # NoSession => sessions[u] # NoSession
    BY <1>3 DEF Login, Allow, Compare, Serve, Logout, stored, IInv, TypeOK
  <2>3. \E l \in Places \ {"create"} : \E q : Move(r, l, q)
    BY <1>3 DEF Login, Allow, Compare, Serve, Logout
  <2>4. \A s \in Requests : pc'[s] = "create" => pc[s] = "create" /\ req'[s] = req[s]
    BY <2>3, Movements
  <2> QED BY <2>1, <2>2, <2>4, FreshKept
<1>4. ASSUME NEW r \in Requests, RequireAuth(r) PROVE Fresh'
  <2>1. issued' = issued /\ sessions' \in {sessions, Purged(sessions)}
    BY <1>4 DEF RequireAuth
  <2>2. \A u \in Tokens : sessions'[u] # NoSession => sessions[u] # NoSession
    BY <2>1, PurgedKeeps
  <2>3. \A s \in Requests : pc'[s] = "create" => pc[s] = "create" /\ req'[s] = req[s]
    <3>1. UNCHANGED <<pc, req>> \/ \E t \in issued : Move(r, "serve", t)
      BY <1>4 DEF RequireAuth
    <3> QED BY <3>1, Movements
  <2> QED BY <2>1, <2>2, <2>3, FreshKept
<1>5. ASSUME NEW r \in Requests, Reset(r) PROVE Fresh'
  <2>1. PICK t \in Tokens \ issued :
          /\ issued' = issued \cup {t}
          /\ Move(r, "create", [admin |-> req[r].admin, token |-> t, expires |-> clock + TTL])
    BY <1>5 DEF Reset
  <2>2. pc'[r] = "create" /\ req'[r].token = t
    BY <2>1, Moved DEF IInv
  <2>3. \A s \in Requests \ {r} : pc'[s] = pc[s] /\ req'[s] = req[s]
    BY <2>1, Movements
  <2>4. sessions' = sessions /\ sessions[t] = NoSession
    BY <1>5, <2>1 DEF Reset, Fresh
  <2> QED BY <2>1, <2>2, <2>3, <2>4 DEF Fresh
<1>6. ASSUME NEW r \in Requests, CreateSession(r) PROVE Fresh'
  <2>1. pc[r] = "create" /\ issued' = issued /\ Move(r, "idle", req[r])
    BY <1>6 DEF CreateSession
  <2>2. \A u \in Tokens : sessions'[u] # NoSession => sessions[u] # NoSession \/ u = req[r].token
    BY <1>6, PurgedKeeps DEF CreateSession, IInv, TypeOK, Purged
  <2>3. \A s \in Requests : pc'[s] = "create" => s # r /\ pc[s] = "create" /\ req'[s] = req[s]
    BY <2>1, Movements
  <2>4. \A s \in Requests : pc[s] = "create" => req[s].token \in Tokens
    BY DEF IInv, TypeOK, Rest, Granted
  <2> QED BY <2>1, <2>2, <2>3, <2>4 DEF Fresh
<1> QED BY <1>1, <1>2, <1>3, <1>4, <1>5, <1>6 DEF Next

LEMMA SeenNat == ASSUME IInv, NEW t \in Tokens, sessions[t] # NoSession
                 PROVE  sessions[t] \in Session /\ sessions[t].seen \in Nat
BY TimesFinite DEF IInv, TypeOK, Session

\* Only CreateSession makes a session, only Touch changes one.
LEMMA KeptWhen ==
  ASSUME IInv, \A t \in Tokens : sessions'[t] # NoSession => sessions'[t] = sessions[t]
  PROVE  SessionKept
BY SeenNat DEF SessionKept

LEMMA StepKeepsSessions == IInv /\ Fresh /\ [Next]_vars => SessionKept
<1> SUFFICES ASSUME IInv, Fresh, [Next]_vars PROVE SessionKept
  OBVIOUS
<1>1. CASE sessions' = sessions
  BY <1>1, KeptWhen
<1>2. ASSUME NEW r \in Requests, RequireAuth(r) PROVE SessionKept
  <2>1. sessions' \in {sessions, Purged(sessions)}
    BY <1>2 DEF RequireAuth
  <2> QED BY <2>1, PurgedKeeps, KeptWhen
<1>3. ASSUME NEW r \in Requests, Logout(r) PROVE SessionKept
  <2>1. \A t \in Tokens : sessions'[t] # NoSession => sessions'[t] = sessions[t]
    BY <1>3 DEF Logout, IInv, TypeOK
  <2> QED BY <2>1, KeptWhen
<1>4. ASSUME NEW r \in Requests, CreateSession(r) PROVE SessionKept
  <2>1. pc[r] = "create" /\ req[r].token \in Tokens /\ sessions[req[r].token] = NoSession
    BY <1>4 DEF CreateSession, Fresh, IInv, TypeOK, Rest, Granted
  <2>2. \A t \in Tokens : sessions'[t] # NoSession => 
          sessions'[t] = sessions[t] \/ t = req[r].token
    BY <1>4, PurgedKeeps DEF CreateSession, Purged
  <2> QED BY <2>1, <2>2, SeenNat DEF SessionKept
<1>5. ASSUME NEW t \in Tokens, Touch(t) PROVE SessionKept
  <2>1. CASE sessions' = sessions
    BY <2>1, KeptWhen
  <2>2. CASE sessions[t] # NoSession /\ sessions' = [sessions EXCEPT ![t].seen = clock]
    <3>1. sessions[t] \in Session /\ sessions[t].seen \in Nat
      BY <2>2, SeenNat
    <3>2. sessions'[t] = [sessions[t] EXCEPT !.seen = clock]
      BY <2>2 DEF IInv, TypeOK
    <3>3. sessions'[t].admin = sessions[t].admin /\ sessions'[t].expires = sessions[t].expires
          /\ sessions'[t].seen = clock
      BY <3>1, <3>2 DEF Session
    <3>4. clock \in Nat /\ sessions[t].seen <= clock
      BY <2>2, TimesFinite DEF IInv, TypeOK, InTime
    <3>5. \A u \in Tokens \ {t} : sessions'[u] = sessions[u]
      BY <2>2 DEF IInv, TypeOK
    <3> QED BY <2>2, <3>1, <3>3, <3>4, <3>5, SeenNat DEF SessionKept
  <2> QED BY <1>5, <2>1, <2>2 DEF Touch
<1>6. CASE Tick \/ BootstrapAdmin \/ Crash \/ UNCHANGED vars
  BY <1>1, <1>6 DEF Tick, BootstrapAdmin, Crash, vars, stored
<1>7. ASSUME NEW r \in Requests, Login(r) \/ Allow(r) \/ Compare(r) \/ Reset(r) \/ Serve(r)
      PROVE  SessionKept
  BY <1>1, <1>7 DEF Login, Allow, Compare, Reset, Serve, stored
<1> QED BY <1>2, <1>3, <1>4, <1>5, <1>6, <1>7 DEF Next

LEMMA InitFresh == Init => Fresh
BY DEF Init, Fresh

\* A session that is gone never comes back, and none is prolonged, handed to
\* someone else or seen earlier than it was: a touch may outlive the logout.
THEOREM NoSessionReturns == Spec => GoneForGood
<1>1. IInv /\ Fresh /\ [Next]_vars => [SessionKept]_vars
  BY StepKeepsSessions
<1> QED BY <1>1, InitHolds, InitFresh, NextKeeps, FreshKeeps, PTL DEF Spec, GoneForGood

\* A session speaks for the address that logged in as long as it lasts.
THEOREM SessionsSpeakForOne == Spec => SessionSpeaksForEmail
<1> DEFINE Speaks == \A t \in Tokens :
             sessions[t] # NoSession =>
               admins'[sessions[t].admin] # NoAdmin 
               /\ admins'[sessions[t].admin].email = admins[sessions[t].admin].email
<1>1. IInv /\ [Next]_vars => Speaks
  <2> SUFFICES ASSUME IInv, [Next]_vars PROVE Speaks
    OBVIOUS
  <2>1. \A t \in Tokens : sessions[t] # NoSession => 
          sessions[t].admin \in AdminIds /\ admins[sessions[t].admin] # NoAdmin
    BY DEF IInv, TypeOK, Session, Owned
  <2>2. CASE BootstrapAdmin
    BY <2>1, <2>2, Bootstrapped
  <2>3. CASE ~BootstrapAdmin
    <3>1. admins' = admins
      BY <2>3 DEF Next, vars, Tick, Login, Allow, Compare, Reset, CreateSession, RequireAuth, 
                  Serve, Logout, Touch, Crash, stored
    <3> QED BY <2>1, <3>1
  <2> QED BY <2>2, <2>3
<1>2. IInv /\ [Next]_vars => [Speaks]_vars
  BY <1>1
<1> QED BY <1>2, InitHolds, NextKeeps, PTL DEF Spec, SessionSpeaksForEmail

Justified ==
  \A r \in Requests :
    pc[r] = "allow" /\ pc'[r] = "denied" =>
      SumFunctionOnSet(admitted[req[r].key], {s \in Times : s > req[r].now - Window}) >= Burst

LEMMA DenialJustified == 
  ASSUME IInv, NEW r \in Requests, Allow(r), pc'[r] = "denied" 
  PROVE  SumFunctionOnSet(admitted[req[r].key], {s \in Times : s > req[r].now - Window}) >= Burst
<1>1. req[r] \in Attempt /\ pc[r] = "allow"
  BY DEF IInv, TypeOK, Rest, Allow
<1> PICK k \in Addresses : k = req[r].key
  BY <1>1 DEF Attempt
<1> PICK n \in Times : n = req[r].now
  BY <1>1 DEF Attempt
<1> DEFINE recent == Recent(attempts[k], n)
           late == {s \in Times : s > n - Window}
<1>2. SumFunction(recent) >= Burst
  BY Movements, PlacesListed DEF Allow
<1>3. SumFunction(recent) = SumFunctionOnSet(recent, Times)
  BY RecentFacts
<1>4. \A s \in Times \ late : recent[s] = 0
  BY DEF Recent
<1>5. \A s \in Times : recent[s] \in Int
  BY RecentFacts
<1>6. late \in SUBSET Times /\ IsFiniteSet(late)
  BY TimesFinite, FS_Subset
<1>7. \A s \in late : recent[s] <= admitted[k][s] /\ admitted[k][s] \in Int
  <2> SUFFICES ASSUME NEW s \in late PROVE recent[s] <= admitted[k][s] /\ admitted[k][s] \in Int
    OBVIOUS
  <2>1. recent[s] = attempts[k][s]
    BY DEF Recent
  <2>2. attempts[k][s] <= admitted[k][s]
    BY DEF IInv, Within
  <2>3. admitted[k] \in [Times -> Nat]
    BY DEF IInv, TypeOK
  <2> QED BY <2>1, <2>2, <2>3
<1> HIDE DEF recent, late
<1>8. SumFunctionOnSet(recent, Times) = SumFunctionOnSet(recent, late)
  BY <1>4, <1>5, <1>6, TimesFinite, SumPadded
<1>9. \A s \in late : recent[s] \in Int
  BY <1>5, <1>6
<1>10. SumFunctionOnSet(recent, late) <= SumFunctionOnSet(admitted[k], late)
  BY <1>6, <1>7, <1>9, SumMonotone
<1>11. SumFunctionOnSet(recent, late) \in Int /\ SumFunctionOnSet(admitted[k], late) \in Int
  BY <1>6, <1>7, <1>9, SumInt
<1>12. SumFunctionOnSet(admitted[k], late) >= Burst
  BY <1>2, <1>3, <1>8, <1>10, <1>11, TimesAssumption
<1> QED BY <1>12 DEF late

\* An attempt is denied only if as many as the burst were let through since
\* its window began: refused attempts do not lock an address out further.
THEOREM DenialsAreJustified == Spec => DenialsJustified
<1>1. IInv /\ [Next]_vars => Justified
  <2> SUFFICES ASSUME IInv, [Next]_vars, NEW r \in Requests, pc[r] = "allow", pc'[r] = "denied"
               PROVE  Allow(r)
    BY DenialJustified DEF Justified
  <2> USE PlacesListed
  <2>1. pc' # pc /\ ~Tick /\ ~BootstrapAdmin /\ ~Crash /\ \A t \in Tokens : ~Touch(t)
    BY DEF Tick, BootstrapAdmin, Crash, Touch
  <2>2. ASSUME NEW s \in Requests, 
               \/ Login(s) \/ Allow(s) \/ Compare(s) \/ Reset(s) \/ CreateSession(s)
               \/ RequireAuth(s) \/ Serve(s) \/ Logout(s)
        PROVE  s = r
    <3>1. \E l \in Places : \E q : Move(s, l, q)
      BY <2>1, <2>2 DEF Login, Allow, Compare, Reset, CreateSession, RequireAuth, Serve, Logout
    <3> QED BY <3>1, Movements
  <2>3. ~Login(r) /\ ~Compare(r) /\ ~Reset(r) /\ ~CreateSession(r)
        /\ ~RequireAuth(r) /\ ~Serve(r) /\ ~Logout(r)
    <3>1. ~Login(r) /\ ~Compare(r) /\ ~Reset(r) /\ ~CreateSession(r) /\ ~Serve(r) /\ ~Logout(r)
      BY DEF Login, Compare, Reset, CreateSession, Serve, Logout
    <3>2. ~RequireAuth(r)
      BY <2>1 DEF RequireAuth
    <3> QED BY <3>1, <3>2
  <2> QED BY <2>1, <2>2, <2>3 DEF Next, vars
<1>2. IInv /\ [Next]_vars => [Justified]_vars
  BY <1>1
<1> QED BY <1>2, InitHolds, NextKeeps, PTL DEF Spec, DenialsJustified, Justified
=============================================================================
