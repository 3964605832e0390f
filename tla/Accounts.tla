------------------------------ MODULE Accounts ------------------------------
(***************************************************************************)
(* Sign-in, registration, sessions and the sign-in throttle: src/lib/auth  *)
(* and the auth routes.                                                    *)
(*                                                                         *)
(* One request of a browser is a chain of queries, each a step of its own: *)
(* the throttle is counted, the password is checked, the outcome is        *)
(* recorded, the session is opened.  Time is counted in ticks; the five    *)
(* durations of the code are constants.  A session is known by the number  *)
(* of its row, which the browser holds in its cookie.                      *)
(***************************************************************************)
EXTENDS Integers, FiniteSets

CONSTANTS
  BROWSERS,       \* the cookie jars
  EMAILS,         \* the addresses people type
  REGISTERED,     \* those that have an account at the start
  IpOf,           \* the address each browser is seen from
  ABSOLUTE,       \* ABSOLUTE_DAYS
  IDLE,           \* IDLE_DAYS
  REFRESH,        \* the hour between two writes of lastUsedAt
  WINDOW,         \* ATTEMPT_WINDOW_MINUTES
  BACKOFF_AFTER,
  LOCKOUT_AFTER,
  MAX_SESSIONS,   \* bound: rows ever opened
  MAX_GUESSES,    \* bound: failed attempts that stand
  MAX_TIME        \* bound: ticks

ASSUME AccountsAssumption ==
  /\ REGISTERED \subseteq EMAILS
  /\ {ABSOLUTE, IDLE, REFRESH, WINDOW} \subseteq Nat
  /\ {BACKOFF_AFTER, LOCKOUT_AFTER} \subseteq Nat \ {0}
  /\ {MAX_SESSIONS, MAX_GUESSES, MAX_TIME} \subseteq Nat
  /\ REFRESH < IDLE
  /\ IsFiniteSet(BROWSERS)

None == 0
Idle == [step |-> "idle"]

VARIABLES
  now,
  users,      \* addresses with an account
  sessions,   \* the session table: number -> row
  opened,     \* how many rows were ever opened
  jar,        \* the cookie of each browser
  failures,   \* the failed attempts in the table
  req,        \* the request each browser has under way
  visits,     \* history: when each session was opened and last accepted
  standing,   \* history: the failed attempts since which nobody signed in to their address
  ended,      \* history: sessions refused as expired, or signed out
  skewed      \* history: the system clock was set back

vars == <<now, users, sessions, opened, jar, failures, req, visits, standing, ended, skewed>>

Issued == 1..opened

-----------------------------------------------------------------------------
(* The throttle. *)

Recent(rows, t) == Cardinality({f \in rows : f.at > t - WINDOW})

FailuresOf(email) == {f \in failures : f.email = email}
FailuresFrom(ip)  == {f \in failures : f.ip = ip}

\* Defect: counted over the address alone.
FailuresOnAddress(email, ip, t) == Recent(FailuresOf(email), t)

\* Over the address and over the place it is typed from, the larger of the two.
Failures(email, ip, t) ==
  LET byEmail == Recent(FailuresOf(email), t)
      byIp    == Recent(FailuresFrom(ip), t)
  IN  IF byEmail > byIp THEN byEmail ELSE byIp

\* How long the wait is, only the answer says: nothing remembers it.
ThrottleFor(email, ip, t) ==
  LET n == Failures(email, ip, t)
  IN  CASE n >= LOCKOUT_AFTER                        -> "lockout"
        [] n >= BACKOFF_AFTER /\ n < LOCKOUT_AFTER -> "backoff"
        [] OTHER                                     -> "proceed"

(* A failed attempt is recorded, a row of its own beside those like it. *)
RecordFailure(email, ip) ==
  LET alike   == {f \in failures : f.email = email /\ f.ip = ip /\ f.at = now}
      attempt == [email |-> email, ip |-> ip, at |-> now, nth |-> Cardinality(alike) + 1]
  IN  /\ Cardinality(failures) < MAX_GUESSES
      /\ failures' = failures \union {attempt}
      /\ standing' = standing \union {attempt}

(* A correct password clears the failures of the address, wherever they    *)
(* came from; those on other addresses stay with the place.                *)
RecordSuccess(email) ==
  /\ failures' = {f \in failures : f.email # email}
  /\ standing' = {g \in standing : g.email # email}

-----------------------------------------------------------------------------
(* Sessions. *)

\* Defect: the idle limit counted from the sign-in.
ExpiredSinceSignIn(row) == row.createdAt + ABSOLUTE < now \/ row.createdAt + IDLE < now

Expired(row) == row.createdAt + ABSOLUTE < now \/ row.lastUsedAt + IDLE < now

(* What the row of the cookie says when a request arrives. *)
Gone(b)  == jar[b] \notin DOMAIN sessions
Valid(b) == ~Gone(b) /\ ~Expired(sessions[jar[b]])

Rows(keep(_)) == [s \in {t \in DOMAIN sessions : keep(t)} |-> sessions[s]]

CreateSession(b, email) ==
  LET s == opened + 1
  IN  /\ opened < MAX_SESSIONS
      /\ opened' = s
      /\ sessions' = [t \in DOMAIN sessions \union {s} |->
                        IF t = s THEN [user |-> email, createdAt |-> now, lastUsedAt |-> now]
                                 ELSE sessions[t]]
      /\ jar' = [jar EXCEPT ![b] = s]
      /\ visits' = [visits EXCEPT ![s] = [since |-> now, last |-> now]]

-----------------------------------------------------------------------------
Init ==
  /\ now = 0
  /\ users = REGISTERED
  /\ sessions = <<>>
  /\ opened = 0
  /\ jar = [b \in BROWSERS |-> None]
  /\ failures = {}
  /\ standing = {}
  /\ req = [b \in BROWSERS |-> Idle]
  /\ visits = [s \in 1..MAX_SESSIONS |-> [since |-> 0, last |-> 0]]
  /\ ended = {}
  /\ skewed = FALSE

Answer(b) == req' = [req EXCEPT ![b] = Idle]

(* The form is submitted: the throttle answers 429, or lets the attempt     *)
(* through.                                                                *)
Submit(b, mode, email) ==
  /\ req[b] = Idle
  /\ jar[b] = None \/ Gone(b)
  /\ IF ThrottleFor(email, IpOf[b], now) # "proceed"
     THEN UNCHANGED req
     ELSE req' = [req EXCEPT ![b] = [step |-> mode, email |-> email]]
  /\ UNCHANGED <<now, users, sessions, opened, jar, failures, standing, visits, ended, skewed>>

(* No such user or the wrong password; or, on registration, the address is *)
(* taken.                                                                  *)
Fails(b) ==
  /\ \/ req[b].step = "login"
     \/ req[b].step = "register" /\ req[b].email \in users
  /\ RecordFailure(req[b].email, IpOf[b])
  /\ Answer(b)
  /\ UNCHANGED <<now, users, sessions, opened, jar, visits, ended, skewed>>

(* The password is right: recordAttempt(true), then the session.           *)
Succeeds(b) ==
  /\ req[b].step = "login"
  /\ req[b].email \in users
  /\ RecordSuccess(req[b].email)
  /\ req' = [req EXCEPT ![b].step = "session"]
  /\ UNCHANGED <<now, users, sessions, opened, jar, visits, ended, skewed>>

(* findUnique: the address is free. *)
FindsAddressFree(b) ==
  /\ req[b].step = "register"
  /\ req[b].email \notin users
  /\ req' = [req EXCEPT ![b].step = "create"]
  /\ UNCHANGED <<now, users, sessions, opened, jar, failures, standing, visits, ended, skewed>>

(* The account and its watchlist are created; where another request has     *)
(* taken the address meanwhile, the create throws and nothing is recorded. *)
CreatesAccount(b) ==
  /\ req[b].step = "create"
  /\ IF req[b].email \in users
     THEN /\ Answer(b)
          /\ UNCHANGED users
     ELSE /\ users' = users \union {req[b].email}
          /\ req' = [req EXCEPT ![b].step = "welcome"]
  /\ UNCHANGED <<now, sessions, opened, jar, failures, standing, visits, ended, skewed>>

Welcomed(b) ==
  /\ req[b].step = "welcome"
  /\ RecordSuccess(req[b].email)
  /\ req' = [req EXCEPT ![b].step = "session"]
  /\ UNCHANGED <<now, users, sessions, opened, jar, visits, ended, skewed>>

(* passwordProblem refuses a weak password before anything is written.     *)
RefusesPassword(b) ==
  /\ req[b].step = "register"
  /\ Answer(b)
  /\ UNCHANGED <<now, users, sessions, opened, jar, failures, standing, visits, ended, skewed>>

OpensSession(b) ==
  /\ req[b].step = "session"
  /\ CreateSession(b, req[b].email)
  /\ Answer(b)
  /\ UNCHANGED <<now, users, failures, standing, ended, skewed>>

-----------------------------------------------------------------------------
\* What follows a request that was let in: a page is read, or every session
\* of its user is revoked.
Onwards(b, wants) ==
  IF wants = "leave" THEN [step |-> "revoke", email |-> sessions[jar[b]].user] ELSE Idle

\* Defect: the expired row is ignored and stays.
RefusedOnly(b) ==
  /\ req[b] = Idle
  /\ jar[b] # None
  /\ ~Valid(b)
  /\ ended' = ended \union {jar[b]}
  /\ UNCHANGED <<now, users, sessions, opened, jar, failures, standing, req, visits, skewed>>

(* currentUser without an answer: an expired row is deleted, not ignored.  *)
Refused(b) ==
  /\ req[b] = Idle
  /\ jar[b] # None
  /\ ~Valid(b)
  /\ sessions' = Rows(LAMBDA s : s # jar[b])
  /\ ended' = ended \union {jar[b]}
  /\ UNCHANGED <<now, users, opened, jar, failures, standing, req, visits, skewed>>

(* currentUser with an answer: lastUsedAt is written when the row is older *)
(* than the hour, with the time this request read.                         *)
Accepted(b, wants) ==
  /\ req[b] = Idle
  /\ jar[b] # None
  /\ Valid(b)
  /\ visits' = [visits EXCEPT ![jar[b]].last = now]
  /\ req' = [req EXCEPT ![b] =
               IF now - sessions[jar[b]].lastUsedAt > REFRESH
               THEN [step |-> "touch", at |-> now, then |-> Onwards(b, wants)]
               ELSE Onwards(b, wants)]
  /\ UNCHANGED <<now, users, sessions, opened, jar, failures, standing, ended, skewed>>

(* The update throws when the row is gone meanwhile: the request fails.    *)
Touch(b) ==
  /\ req[b].step = "touch"
  /\ IF Gone(b)
     THEN /\ Answer(b)
          /\ UNCHANGED sessions
     ELSE /\ sessions' = [sessions EXCEPT ![jar[b]].lastUsedAt = req[b].at]
          /\ req' = [req EXCEPT ![b] = req[b].then]
  /\ UNCHANGED <<now, users, opened, jar, failures, standing, visits, ended, skewed>>

(* logout: the row and the cookie go. *)
Logout(b) ==
  /\ req[b] = Idle
  /\ jar[b] # None
  /\ sessions' = Rows(LAMBDA s : s # jar[b])
  /\ ended' = ended \union {jar[b]}
  /\ jar' = [jar EXCEPT ![b] = None]
  /\ UNCHANGED <<now, users, opened, failures, standing, req, visits, skewed>>

(* logout-all: every row of the user, this one included. *)
LogoutAll(b) ==
  LET mine == {s \in DOMAIN sessions : sessions[s].user = req[b].email}
  IN  /\ req[b].step = "revoke"
      /\ sessions' = Rows(LAMBDA s : s \notin mine)
      /\ ended' = ended \union mine \union {jar[b]}
      /\ jar' = [jar EXCEPT ![b] = None]
      /\ Answer(b)
      /\ UNCHANGED <<now, users, opened, failures, standing, visits, skewed>>

(* The worker's maintenance job. *)
SweepExpiredSessions ==
  /\ \E s \in DOMAIN sessions : Expired(sessions[s])
  /\ sessions' = Rows(LAMBDA s : ~Expired(sessions[s]))
  /\ UNCHANGED <<now, users, opened, jar, failures, standing, req, visits, ended, skewed>>

(* A tick is long beside the write of a row: none is under way in it.      *)
Tick ==
  /\ now < MAX_TIME
  /\ \A b \in BROWSERS : req[b].step # "touch"
  /\ now' = now + 1
  /\ UNCHANGED <<users, sessions, opened, jar, failures, standing, req, visits, ended, skewed>>

(* The system clock is set back, once. *)
ClockBack ==
  /\ ~skewed
  /\ now > 0
  /\ now' = now - 1
  /\ skewed' = TRUE
  /\ UNCHANGED <<users, sessions, opened, jar, failures, standing, req, visits, ended>>

Next ==
  \/ \E b \in BROWSERS :
       \/ \E mode \in {"login", "register"}, email \in EMAILS : Submit(b, mode, email)
       \/ Fails(b) \/ Succeeds(b)
       \/ FindsAddressFree(b) \/ CreatesAccount(b) \/ Welcomed(b)
       \/ RefusesPassword(b) \/ OpensSession(b)
       \/ Refused(b) \/ Touch(b) \/ Logout(b) \/ LogoutAll(b)
       \/ \E wants \in {"read", "leave"} : Accepted(b, wants)
  \/ SweepExpiredSessions \/ Tick \/ ClockBack

Spec == Init /\ [][Next]_vars

-----------------------------------------------------------------------------
(* A session that was refused as expired or signed out is never accepted   *)
(* again, whatever request was under way and even when the clock is set    *)
(* back: currentUser deletes what it refuses, and its write of lastUsedAt  *)
(* cannot bring a row back.                                                *)
EndedStaysEnded == [][\A s \in ended : visits'[s] = visits[s]]_vars

(* While the clock only goes forward, who signed in within the absolute    *)
(* limit and was here within the idle limit, less the hour in which uses   *)
(* are not written down, is still signed in unless somebody signed that    *)
(* session out: neither a sweep nor a request on another browser takes it. *)
ActiveStaysSignedIn ==
  ~skewed => \A s \in Issued \ ended :
    ( /\ now - visits[s].since <= ABSOLUTE
      /\ now - visits[s].last <= IDLE - REFRESH ) => s \in DOMAIN sessions

(* However the attempts of several browsers interleave, and while the      *)
(* clock only goes forward, the wrong guesses of a window at one address,  *)
(* or from one place, since which nobody signed in to the address they     *)
(* were made at, are those the throttle allows and one for each other      *)
(* browser that was already past the count.  Signing in to one address     *)
(* buys no guess at another; the guesses at the address itself it forgives, *)
(* the place's as well.                                                    *)
GuessesAreBounded ==
  LET most(guessing) == BACKOFF_AFTER + Cardinality(guessing) - 1
      recent == {g \in standing : g.at > now - WINDOW}
  IN  ~skewed =>
        /\ \A e \in EMAILS : Cardinality({g \in recent : g.email = e}) <= most(BROWSERS)
        /\ \A b \in BROWSERS :
             Cardinality({g \in recent : g.ip = IpOf[b]})
               <= most({c \in BROWSERS : IpOf[c] = IpOf[b]})
=============================================================================
