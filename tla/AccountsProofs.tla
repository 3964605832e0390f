---------------------------- MODULE AccountsProofs ----------------------------
(***************************************************************************)
(* Theorems about Accounts for any number of browsers, addresses, sessions *)
(* and attempts, and any durations and limits.                             *)
(***************************************************************************)
EXTENDS Accounts, FiniteSetTheorems, TLAPS

(* Types. *)

RowRecords == [user : EMAILS, createdAt : Nat, lastUsedAt : Nat]

Revokes == [step : {"revoke"}, email : EMAILS]
Forms   == [step : {"login", "register", "create", "welcome", "session"}, email : EMAILS]
Touches == [step : {"touch"}, at : Nat, then : {Idle} \union Revokes]

Requests == {Idle} \union Forms \union Revokes \union Touches

Attempts == [email : EMAILS, ip : {IpOf[b] : b \in BROWSERS}, at : Nat, nth : Nat]

Typed ==
  /\ now \in Nat
  /\ users \subseteq EMAILS
  /\ opened \in 0..MAX_SESSIONS
  /\ DOMAIN sessions \subseteq Issued
  /\ sessions \in [DOMAIN sessions -> RowRecords]
  /\ jar \in [BROWSERS -> 0..opened]
  /\ failures \subseteq Attempts /\ IsFiniteSet(failures)
  /\ req \in [BROWSERS -> Requests]
  /\ visits \in [1..MAX_SESSIONS -> [since : Nat, last : Nat]]
  /\ ended \subseteq Issued
  /\ skewed \in BOOLEAN

LEMMA Constants ==
  /\ ABSOLUTE \in Nat /\ IDLE \in Nat /\ REFRESH \in Nat /\ WINDOW \in Nat
  /\ BACKOFF_AFTER \in Nat \ {0} /\ LOCKOUT_AFTER \in Nat \ {0}
  /\ MAX_SESSIONS \in Nat /\ MAX_GUESSES \in Nat
  /\ REFRESH < IDLE
  /\ REGISTERED \subseteq EMAILS
  /\ IsFiniteSet(BROWSERS)
  BY AccountsAssumption

(* The kinds of requests are told apart by their step. *)

LEMMA Kinds ==
  ASSUME NEW r \in Requests
  PROVE  /\ r \in Forms \/ r \in Revokes \/ r \in Touches \/ r = Idle
         /\ r = Idle <=> r.step = "idle"
         /\ r \in Revokes <=> r.step = "revoke"
         /\ r \in Touches <=> r.step = "touch"
         /\ r \in Forms <=> r.step \in {"login", "register", "create", "welcome", "session"}
         /\ r \in Forms \union Revokes => r.email \in EMAILS
         /\ r \in Touches => r.at \in Nat /\ r.then \in {Idle} \union Revokes
  BY DEF Requests, Forms, Revokes, Touches, Idle

LEMMA InitTyped == Init => Typed
  <1>. SUFFICES ASSUME Init PROVE Typed
    OBVIOUS
  <1>1. DOMAIN sessions = {} /\ sessions \in [{} -> RowRecords]
    BY DEF Init
  <1>2. req \in [BROWSERS -> Requests]
    BY DEF Init, Requests
  <1>3. failures \subseteq Attempts /\ IsFiniteSet(failures)
    BY FS_EmptySet DEF Init
  <1>4. visits \in [1..MAX_SESSIONS -> [since : Nat, last : Nat]]
    BY DEF Init
  <1>5. opened = 0 /\ opened \in 0..MAX_SESSIONS /\ jar \in [BROWSERS -> 0..opened]
    BY Constants DEF Init, None
  <1>6. now \in Nat /\ users \subseteq EMAILS /\ ended = {} /\ skewed \in BOOLEAN
    BY Constants DEF Init
  <1>. QED  BY <1>1, <1>2, <1>3, <1>4, <1>5, <1>6 DEF Typed

(* What the operators of the model leave behind. *)

LEMMA Kept ==
  ASSUME Typed, NEW S \in SUBSET DOMAIN sessions, sessions' = [s \in S |-> sessions[s]]
  PROVE  /\ DOMAIN sessions' = S
         /\ sessions' \in [DOMAIN sessions' -> RowRecords]
         /\ DOMAIN sessions' \subseteq Issued
  BY DEF Typed

LEMMA RenameForm ==
  ASSUME NEW r \in Forms, NEW n \in {"create", "welcome", "session"}
  PROVE  [r EXCEPT !.step = n] = [step |-> n, email |-> r.email]
  BY DEF Forms

LEMMA RequestStep ==
  ASSUME Typed, NEW b \in BROWSERS, NEW r \in Requests, req' = [req EXCEPT ![b] = r]
  PROVE  req' \in [BROWSERS -> Requests]
  BY DEF Typed

LEMMA AnswerStep ==
  ASSUME Typed, NEW b \in BROWSERS, Answer(b)
  PROVE  req' \in [BROWSERS -> Requests]
  BY RequestStep DEF Answer, Requests

LEMMA SubmitTyped ==
  ASSUME Typed, NEW b \in BROWSERS, NEW mode \in {"login", "register"}, NEW email \in EMAILS,
         Submit(b, mode, email)
  PROVE  Typed'
  <1>1. [step |-> mode, email |-> email] \in Requests
    BY DEF Requests, Forms
  <1>2. req' \in [BROWSERS -> Requests]
    BY <1>1, RequestStep DEF Submit, Typed
  <1>. QED  BY <1>2 DEF Submit, Typed, Issued

LEMMA FailsTyped ==
  ASSUME Typed, NEW b \in BROWSERS, Fails(b)
  PROVE  Typed'
  <1>. DEFINE alike == {f \in failures : f.email = req[b].email /\ f.ip = IpOf[b] /\ f.at = now}
              row == [email |-> req[b].email, ip |-> IpOf[b], at |-> now, nth |-> Cardinality(alike) + 1]
  <1>1. Cardinality(alike) \in Nat
    BY FS_Subset, FS_CardinalityType DEF Typed
  <1>2. req[b].email \in EMAILS
    BY Kinds DEF Fails, Typed
  <1>3. row \in Attempts
    BY <1>1, <1>2 DEF Attempts, Typed
  <1>4. failures' = failures \union {row}
    BY DEF Fails, RecordFailure
  <1>5. failures' \subseteq Attempts /\ IsFiniteSet(failures')
    BY <1>3, <1>4, FS_AddElement DEF Typed
  <1>. QED  BY <1>5, AnswerStep DEF Fails, Typed, Issued

LEMMA SucceedsTyped ==
  ASSUME Typed, NEW b \in BROWSERS,
         Succeeds(b) \/ FindsAddressFree(b) \/ CreatesAccount(b) \/ Welcomed(b)
  PROVE  Typed'
  <1>. USE DEF Succeeds, FindsAddressFree, CreatesAccount, Welcomed
  <1>1. req[b] \in Forms /\ req[b].email \in EMAILS
    BY Kinds DEF Typed
  <1>2. \A n \in {"create", "welcome", "session"} : [req[b] EXCEPT !.step = n] \in Requests
    BY <1>1, RenameForm DEF Requests, Forms
  <1>3. req' \in [BROWSERS -> Requests]
    BY <1>2, RequestStep, AnswerStep
  <1>4. failures' \subseteq failures
    BY DEF RecordSuccess
  <1>5. failures' \subseteq Attempts /\ IsFiniteSet(failures')
    BY <1>4, FS_Subset DEF Typed
  <1>6. users' \subseteq EMAILS /\ UNCHANGED <<now, sessions, opened, jar, visits, ended, skewed>>
    BY <1>1 DEF Typed
  <1>. HIDE DEF Succeeds, FindsAddressFree, CreatesAccount, Welcomed
  <1>. QED  BY <1>3, <1>5, <1>6 DEF Typed, Issued

LEMMA OpensTyped ==
  ASSUME Typed, NEW b \in BROWSERS, OpensSession(b)
  PROVE  /\ Typed'
         /\ opened + 1 \notin DOMAIN sessions
         /\ DOMAIN sessions' = DOMAIN sessions \union {opened + 1}
  <1>. DEFINE s == opened + 1
              row == [user |-> req[b].email, createdAt |-> now, lastUsedAt |-> now]
  <1>1. s \in 1..MAX_SESSIONS /\ opened' = s /\ s \notin Issued /\ Issued' = Issued \union {s}
    BY Constants DEF OpensSession, CreateSession, Typed, Issued
  <1>2. row \in RowRecords
    BY Kinds DEF OpensSession, Typed, RowRecords
  <1>3. sessions' = [t \in DOMAIN sessions \union {s} |-> IF t = s THEN row ELSE sessions[t]]
    BY DEF OpensSession, CreateSession
  <1>4. /\ DOMAIN sessions' = DOMAIN sessions \union {s}
        /\ sessions' \in [DOMAIN sessions' -> RowRecords]
        /\ DOMAIN sessions' \subseteq Issued'
    <2>. HIDE DEF s, row
    <2>. QED  BY <1>1, <1>2, <1>3 DEF Typed
  <1>5. jar' \in [BROWSERS -> 0..opened']
    BY <1>1 DEF OpensSession, CreateSession, Typed
  <1>6. visits' \in [1..MAX_SESSIONS -> [since : Nat, last : Nat]]
    BY <1>1 DEF OpensSession, CreateSession, Typed
  <1>7. opened' \in 0..MAX_SESSIONS /\ ended' \subseteq Issued' /\ s \notin DOMAIN sessions
    BY <1>1 DEF OpensSession, Typed
  <1>8. req' \in [BROWSERS -> Requests]
    BY AnswerStep DEF OpensSession
  <1>. QED  BY <1>4, <1>5, <1>6, <1>7, <1>8 DEF OpensSession, Typed

LEMMA HeldType ==
  ASSUME Typed, NEW b \in BROWSERS
  PROVE  /\ jar[b] # None => jar[b] \in Issued /\ jar[b] \in 1..MAX_SESSIONS
         /\ jar[b] \in DOMAIN sessions => jar[b] # None
         /\ \A s \in DOMAIN sessions : s \in 1..MAX_SESSIONS /\ sessions[s] \in RowRecords
  BY Constants DEF Typed, Issued, None

LEMMA RefusedTyped ==
  ASSUME Typed, NEW b \in BROWSERS, Refused(b) \/ Logout(b)
  PROVE  Typed'
  <1>1. sessions' = [s \in DOMAIN sessions \ {jar[b]} |-> sessions[s]]
    <2>1. {t \in DOMAIN sessions : t # jar[b]} = DOMAIN sessions \ {jar[b]}
      OBVIOUS
    <2>. QED  BY <2>1 DEF Refused, Logout, Rows
  <1>2. DOMAIN sessions' \subseteq Issued /\ sessions' \in [DOMAIN sessions' -> RowRecords]
    BY <1>1, Kept
  <1>3. jar[b] # None /\ (jar' = jar \/ jar' = [jar EXCEPT ![b] = None])
    BY DEF Refused, Logout
  <1>4. jar[b] \in Issued
    BY <1>3, HeldType
  <1>5. jar' \in [BROWSERS -> 0..opened]
    BY <1>3 DEF Typed, None
  <1>. QED  BY <1>2, <1>4, <1>5 DEF Refused, Logout, Typed, Issued

LEMMA LogoutAllTyped ==
  ASSUME Typed, NEW b \in BROWSERS, LogoutAll(b), jar[b] \in Issued
  PROVE  Typed'
  <1>. DEFINE mine == {s \in DOMAIN sessions : sessions[s].user = req[b].email}
  <1>1. sessions' = [s \in DOMAIN sessions \ mine |-> sessions[s]]
    <2>1. {t \in DOMAIN sessions : t \notin mine} = DOMAIN sessions \ mine
      OBVIOUS
    <2>. QED  BY <2>1 DEF LogoutAll, Rows
  <1>2. DOMAIN sessions' \subseteq Issued /\ sessions' \in [DOMAIN sessions' -> RowRecords]
    BY <1>1, Kept
  <1>3. jar' \in [BROWSERS -> 0..opened]
    BY DEF LogoutAll, Typed, None
  <1>4. ended' \subseteq Issued
    BY DEF LogoutAll, Typed
  <1>5. req' \in [BROWSERS -> Requests]
    BY AnswerStep DEF LogoutAll
  <1>. QED  BY <1>2, <1>3, <1>4, <1>5 DEF LogoutAll, Typed, Issued

LEMMA AcceptedTyped ==
  ASSUME Typed, NEW b \in BROWSERS, NEW wants, Accepted(b, wants)
  PROVE  Typed'
  <1>1. jar[b] \in DOMAIN sessions /\ sessions[jar[b]].user \in EMAILS
    BY HeldType DEF Accepted, Valid, Gone, RowRecords
  <1>2. Onwards(b, wants) \in {Idle} \union Revokes
    BY <1>1 DEF Onwards, Revokes
  <1>3. [step |-> "touch", at |-> now, then |-> Onwards(b, wants)] \in Touches
    BY <1>2 DEF Touches, Typed
  <1>4. req' \in [BROWSERS -> Requests]
    BY <1>2, <1>3, RequestStep DEF Accepted, Requests
  <1>5. [visits[jar[b]] EXCEPT !.last = now] \in [since : Nat, last : Nat]
    BY <1>1, HeldType DEF Typed
  <1>6. visits' = [visits EXCEPT ![jar[b]] = [visits[jar[b]] EXCEPT !.last = now]]
    BY DEF Accepted
  <1>7. visits' \in [1..MAX_SESSIONS -> [since : Nat, last : Nat]]
    BY <1>5, <1>6 DEF Typed
  <1>. QED  BY <1>4, <1>7 DEF Accepted, Typed, Issued

LEMMA TouchRow ==
  ASSUME Typed, NEW b \in BROWSERS, req[b].step = "touch", jar[b] \in DOMAIN sessions,
         sessions' = [sessions EXCEPT ![jar[b]].lastUsedAt = req[b].at]
  PROVE  /\ DOMAIN sessions' = DOMAIN sessions
         /\ sessions' \in [DOMAIN sessions -> RowRecords]
         /\ \A s \in DOMAIN sessions \ {jar[b]} : sessions'[s] = sessions[s]
         /\ sessions'[jar[b]].user = sessions[jar[b]].user
         /\ sessions'[jar[b]].createdAt = sessions[jar[b]].createdAt
         /\ sessions'[jar[b]].lastUsedAt = req[b].at
  <1>1. req[b].at \in Nat
    BY Kinds DEF Typed
  <1>2. sessions[jar[b]] \in RowRecords
    BY HeldType
  <1>3. [sessions[jar[b]] EXCEPT !.lastUsedAt = req[b].at] =
           [user |-> sessions[jar[b]].user, createdAt |-> sessions[jar[b]].createdAt,
            lastUsedAt |-> req[b].at]
    BY <1>2 DEF RowRecords
  <1>4. [sessions[jar[b]] EXCEPT !.lastUsedAt = req[b].at] \in RowRecords
    BY <1>1, <1>2, <1>3 DEF RowRecords
  <1>5. sessions' = [sessions EXCEPT ![jar[b]] = [sessions[jar[b]] EXCEPT !.lastUsedAt = req[b].at]]
    OBVIOUS
  <1>6. DOMAIN sessions' = DOMAIN sessions
    BY <1>5
  <1>. DEFINE row == [sessions[jar[b]] EXCEPT !.lastUsedAt = req[b].at]
  <1>7. /\ sessions' \in [DOMAIN sessions -> RowRecords]
        /\ \A s \in DOMAIN sessions \ {jar[b]} : sessions'[s] = sessions[s]
        /\ sessions'[jar[b]] = row
    <2>1. sessions' = [sessions EXCEPT ![jar[b]] = row] /\ row \in RowRecords
      BY <1>4, <1>5
    <2>. HIDE DEF row
    <2>. QED  BY <2>1 DEF Typed
  <1>. QED  BY <1>3, <1>6, <1>7

LEMMA TouchTyped ==
  ASSUME Typed, NEW b \in BROWSERS, Touch(b)
  PROVE  Typed'
  <1>1. CASE Gone(b)
    BY <1>1, AnswerStep DEF Touch, Typed, Issued
  <1>2. CASE ~Gone(b)
    <2>1. req[b].then \in Requests
      BY Kinds DEF Touch, Typed, Requests
    <2>2. req' \in [BROWSERS -> Requests]
      BY <1>2, <2>1, RequestStep DEF Touch
    <2>3. DOMAIN sessions' = DOMAIN sessions /\ sessions' \in [DOMAIN sessions -> RowRecords]
      BY <1>2, TouchRow DEF Touch, Gone
    <2>. QED  BY <2>2, <2>3 DEF Touch, Typed, Issued
  <1>. QED  BY <1>1, <1>2

LEMMA SweepTyped ==
  ASSUME Typed, SweepExpiredSessions
  PROVE  Typed'
  <1>. DEFINE kept == {s \in DOMAIN sessions : ~Expired(sessions[s])}
  <1>1. sessions' = [s \in kept |-> sessions[s]]
    BY DEF SweepExpiredSessions, Rows
  <1>2. DOMAIN sessions' \subseteq Issued /\ sessions' \in [DOMAIN sessions' -> RowRecords]
    BY <1>1, Kept
  <1>. QED  BY <1>2 DEF SweepExpiredSessions, Typed, Issued

-----------------------------------------------------------------------------
(* What has ended is out of the table, and whoever is about to revoke all  *)
(* sessions of a user is that user.                                        *)

Leaves(b, email) ==
  \/ req[b] \in Revokes /\ req[b].email = email
  \/ req[b] \in Touches /\ req[b].then \in Revokes /\ req[b].then.email = email

Own(b) ==
  /\ req[b] \in Revokes \union Touches => jar[b] \in Issued
  /\ \A email \in EMAILS :
       Leaves(b, email) /\ jar[b] \in DOMAIN sessions => sessions[jar[b]].user = email

EndedInv ==
  /\ ended \intersect DOMAIN sessions = {}
  /\ \A b \in BROWSERS : Own(b)

LEMMA InitEnded == Init => EndedInv
  BY DEF Init, EndedInv, Own, Leaves, Idle, Revokes, Touches

\* No step brings a row back or gives it to another user.
RowsKept ==
  /\ Issued \subseteq Issued'
  /\ \A s \in DOMAIN sessions' \intersect Issued :
       s \in DOMAIN sessions /\ sessions'[s].user = sessions[s].user

LEMMA FewerRows ==
  ASSUME Typed, NEW S \in SUBSET DOMAIN sessions, sessions' = [s \in S |-> sessions[s]], opened' = opened
  PROVE  RowsKept
  BY DEF RowsKept, Issued

LEMMA OwnKept ==
  ASSUME Typed, NEW c \in BROWSERS, Own(c), RowsKept, req'[c] = req[c], jar'[c] = jar[c]
  PROVE  Own(c)'
  <1>1. req[c] \in Revokes \union Touches => jar[c] \in Issued /\ jar[c] \in Issued'
    BY DEF Own, RowsKept
  <1>2. ASSUME NEW email \in EMAILS, Leaves(c, email)', jar'[c] \in DOMAIN sessions'
        PROVE  sessions'[jar'[c]].user = email
    <2>1. Leaves(c, email)
      BY <1>2 DEF Leaves, Revokes, Touches
    <2>2. jar[c] \in Issued
      BY <1>1, <2>1 DEF Leaves
    <2>. QED  BY <1>2, <2>1, <2>2 DEF Own, RowsKept
  <1>. QED  BY <1>1, <1>2 DEF Own, Revokes, Touches

\* A browser that is answered, or still at the form, revokes nothing.
LEMMA OwnFree ==
  ASSUME NEW c \in BROWSERS, req'[c] \in {Idle} \union Forms
  PROVE  Own(c)'
  <1>1. req'[c] \notin Revokes \union Touches
    BY DEF Idle, Forms, Revokes, Touches
  <1>2. \A email : ~Leaves(c, email)'
    BY <1>1 DEF Leaves, Revokes, Touches
  <1>. QED  BY <1>1, <1>2 DEF Own, Revokes, Touches

LEMMA FormsEnded ==
  ASSUME Typed, EndedInv, NEW b \in BROWSERS,
         \/ \E mode \in {"login", "register"}, email \in EMAILS : Submit(b, mode, email)
         \/ Fails(b) \/ Succeeds(b) \/ FindsAddressFree(b) \/ CreatesAccount(b) \/ Welcomed(b)
         \/ RefusesPassword(b)
  PROVE  EndedInv'
  <1>. USE DEF Submit, Fails, Succeeds, FindsAddressFree, CreatesAccount, Welcomed, RefusesPassword,
          Answer
  <1>1. UNCHANGED <<sessions, opened, jar, ended>>
    OBVIOUS
  <1>2. RowsKept
    BY <1>1 DEF RowsKept, Issued
  <1>3. \A c \in BROWSERS \ {b} : req'[c] = req[c]
    BY DEF Typed
  <1>4. req'[b] \in {Idle} \union Forms \/ req'[b] = req[b]
    <2>1. ASSUME NEW n \in {"create", "welcome", "session"}, req[b] \in Forms,
                 req' = [req EXCEPT ![b].step = n]
          PROVE  req'[b] \in Forms
      <3>1. req'[b] = [req[b] EXCEPT !.step = n]
        BY <2>1 DEF Typed
      <3>. QED  BY <2>1, <3>1, RenameForm DEF Forms
    <2>2. CASE \E mode \in {"login", "register"}, email \in EMAILS : Submit(b, mode, email)
      BY <2>2 DEF Typed, Forms
    <2>3. CASE Fails(b) \/ RefusesPassword(b)
      BY <2>3 DEF Typed
    <2>4. CASE Succeeds(b) \/ FindsAddressFree(b) \/ CreatesAccount(b) \/ Welcomed(b)
      <3>1. req[b] \in Forms
        BY <2>4, Kinds DEF Typed
      <3>2. \/ req' = [req EXCEPT ![b] = Idle]
            \/ \E n \in {"create", "welcome", "session"} : req' = [req EXCEPT ![b].step = n]
        BY <2>4
      <3>. QED  BY <2>1, <3>1, <3>2 DEF Typed
    <2>. QED  BY <2>2, <2>3, <2>4
  <1>. HIDE DEF Submit, Fails, Succeeds, FindsAddressFree, CreatesAccount, Welcomed, RefusesPassword,
          Answer
  <1>. QED  BY <1>1, <1>2, <1>3, <1>4, OwnKept, OwnFree DEF EndedInv

LEMMA OpensEnded ==
  ASSUME Typed, EndedInv, NEW b \in BROWSERS, OpensSession(b)
  PROVE  EndedInv'
  <1>1. /\ DOMAIN sessions' = DOMAIN sessions \union {opened + 1}
        /\ opened + 1 \notin Issued /\ Issued \subseteq Issued'
    BY OpensTyped DEF OpensSession, CreateSession, Typed, Issued
  <1>2. RowsKept
    BY <1>1 DEF OpensSession, CreateSession, RowsKept
  <1>3. \A c \in BROWSERS \ {b} : req'[c] = req[c] /\ jar'[c] = jar[c]
    BY DEF OpensSession, CreateSession, Answer, Typed
  <1>4. req'[b] = Idle
    BY DEF OpensSession, Answer, Typed
  <1>5. ended' \intersect DOMAIN sessions' = {}
    BY <1>1 DEF OpensSession, EndedInv, Typed
  <1>. QED  BY <1>2, <1>3, <1>4, <1>5, OwnKept, OwnFree DEF EndedInv

LEMMA RefusedEnded ==
  ASSUME Typed, EndedInv, NEW b \in BROWSERS, Refused(b) \/ Logout(b)
  PROVE  EndedInv'
  <1>1. sessions' = [s \in {t \in DOMAIN sessions : t # jar[b]} |-> sessions[s]]
    BY DEF Refused, Logout, Rows
  <1>2. RowsKept
    BY <1>1, FewerRows DEF Refused, Logout
  <1>3. \A c \in BROWSERS : req'[c] = req[c] /\ (c # b => jar'[c] = jar[c])
    BY DEF Refused, Logout, Typed
  <1>4. req'[b] = Idle
    BY DEF Refused, Logout
  <1>5. ended' \intersect DOMAIN sessions' = {}
    BY <1>1 DEF Refused, Logout, EndedInv
  <1>. QED  BY <1>2, <1>3, <1>4, <1>5, OwnKept, OwnFree DEF EndedInv

LEMMA LogoutAllEnded ==
  ASSUME Typed, EndedInv, NEW b \in BROWSERS, LogoutAll(b)
  PROVE  jar[b] \in Issued /\ EndedInv'
  <1>1. req[b] \in Revokes /\ req[b].email \in EMAILS
    BY Kinds DEF LogoutAll, Typed
  <1>2. jar[b] \in Issued /\ (jar[b] \in DOMAIN sessions => sessions[jar[b]].user = req[b].email)
    BY <1>1 DEF EndedInv, Own, Leaves
  <1>. DEFINE mine == {s \in DOMAIN sessions : sessions[s].user = req[b].email}
  <1>3. sessions' = [s \in {t \in DOMAIN sessions : t \notin mine} |-> sessions[s]]
    BY DEF LogoutAll, Rows
  <1>4. RowsKept
    BY <1>3, FewerRows DEF LogoutAll
  <1>5. \A c \in BROWSERS \ {b} : req'[c] = req[c] /\ jar'[c] = jar[c]
    BY DEF LogoutAll, Answer, Typed
  <1>6. req'[b] = Idle
    BY DEF LogoutAll, Answer, Typed
  <1>7. ended' = ended \union mine \union {jar[b]}
    BY DEF LogoutAll
  <1>8. ended' \intersect DOMAIN sessions' = {}
    BY <1>2, <1>3, <1>7 DEF EndedInv
  <1>. QED  BY <1>2, <1>4, <1>5, <1>6, <1>8, OwnKept, OwnFree DEF EndedInv

LEMMA AcceptedEnded ==
  ASSUME Typed, EndedInv, NEW b \in BROWSERS, NEW wants, Accepted(b, wants)
  PROVE  EndedInv'
  <1>1. UNCHANGED <<sessions, opened, jar, ended>> /\ jar[b] \in DOMAIN sessions
    BY DEF Accepted, Valid, Gone
  <1>2. RowsKept
    BY <1>1 DEF RowsKept, Issued
  <1>3. \A c \in BROWSERS \ {b} : req'[c] = req[c]
    BY DEF Accepted, Typed
  <1>4. \/ req'[b] = Onwards(b, wants)
        \/ req'[b] = [step |-> "touch", at |-> now, then |-> Onwards(b, wants)]
    BY DEF Accepted, Typed
  <1>5. \/ Onwards(b, wants) = Idle
        \/ Onwards(b, wants) = [step |-> "revoke", email |-> sessions[jar[b]].user]
    BY DEF Onwards
  <1>6. Own(b)'
    <2>1. ASSUME NEW email, Leaves(b, email)' PROVE sessions[jar[b]].user = email
      BY <1>4, <1>5, <2>1 DEF Leaves, Idle, Revokes, Touches
    <2>. QED  BY <1>1, <2>1 DEF Own, Typed, Issued, Revokes, Touches
  <1>. QED  BY <1>1, <1>2, <1>3, <1>6, OwnKept DEF EndedInv

LEMMA TouchEnded ==
  ASSUME Typed, EndedInv, NEW b \in BROWSERS, Touch(b)
  PROVE  EndedInv'
  <1>1. /\ DOMAIN sessions' = DOMAIN sessions
        /\ \A s \in DOMAIN sessions : sessions'[s].user = sessions[s].user
    <2>1. CASE Gone(b)
      BY <2>1 DEF Touch
    <2>2. CASE ~Gone(b)
      BY <2>2, TouchRow DEF Touch, Gone
    <2>. QED  BY <2>1, <2>2
  <1>2. RowsKept /\ UNCHANGED <<jar, ended, opened>>
    BY <1>1 DEF RowsKept, Touch, Issued
  <1>3. \A c \in BROWSERS \ {b} : req'[c] = req[c]
    BY DEF Touch, Answer, Typed
  <1>4. req'[b] = Idle \/ req'[b] = req[b].then
    BY DEF Touch, Answer, Typed
  <1>5. req[b] \in Touches /\ req[b].then \in {Idle} \union Revokes
    BY Kinds DEF Touch, Typed
  <1>6. Own(b)'
    <2>1. ASSUME NEW email, Leaves(b, email)' PROVE Leaves(b, email)
      BY <1>4, <1>5, <2>1 DEF Leaves, Idle, Revokes, Touches
    <2>2. Own(b) /\ jar[b] \in Issued
      BY <1>5 DEF EndedInv, Own
    <2>. QED  BY <1>1, <1>2, <2>1, <2>2 DEF Own, Typed, Issued, Revokes, Touches
  <1>. QED  BY <1>1, <1>2, <1>3, <1>6, OwnKept DEF EndedInv

LEMMA OthersEnded ==
  ASSUME Typed, EndedInv, SweepExpiredSessions \/ Tick \/ ClockBack \/ UNCHANGED vars
  PROVE  EndedInv'
  <1>1. UNCHANGED <<req, jar, opened, ended>>
    BY DEF SweepExpiredSessions, Tick, ClockBack, vars
  <1>2. RowsKept /\ DOMAIN sessions' \subseteq DOMAIN sessions
    <2>1. CASE SweepExpiredSessions
      <3>. DEFINE kept == {s \in DOMAIN sessions : ~Expired(sessions[s])}
      <3>1. sessions' = [s \in kept |-> sessions[s]]
        BY <2>1 DEF SweepExpiredSessions, Rows
      <3>. QED  BY <1>1, <3>1, FewerRows
    <2>2. CASE sessions' = sessions
      BY <1>1, <2>2 DEF RowsKept, Issued
    <2>. QED  BY <2>1, <2>2 DEF Tick, ClockBack, vars
  <1>. QED  BY <1>1, <1>2, OwnKept DEF EndedInv

LEMMA EndedStep == ASSUME Typed, EndedInv, [Next]_vars PROVE EndedInv'
  BY FormsEnded, OpensEnded, RefusedEnded, LogoutAllEnded, AcceptedEnded, TouchEnded, OthersEnded
     DEF Next

LEMMA TypedStep == ASSUME Typed, EndedInv, [Next]_vars PROVE Typed'
  <1>1. ASSUME NEW b \in BROWSERS, RefusesPassword(b) PROVE Typed'
    BY <1>1, AnswerStep DEF RefusesPassword, Typed, Issued
  <1>2. ASSUME Tick \/ ClockBack \/ UNCHANGED vars PROVE Typed'
    <2>0. now \in Nat /\ skewed \in BOOLEAN
      BY DEF Typed
    <2>1. now' \in Nat
      <3>1. CASE Tick
        <4>1. now' = now + 1
          BY <3>1 DEF Tick
        <4>. QED  BY <2>0, <4>1
      <3>2. CASE ClockBack
        <4>1. now > 0 /\ now' = now - 1
          BY <3>2 DEF ClockBack
        <4>. QED  BY <2>0, <4>1
      <3>3. CASE UNCHANGED vars
        BY <2>0, <3>3 DEF vars
      <3>. QED  BY <1>2, <3>1, <3>2, <3>3
    <2>3. skewed' \in BOOLEAN
      <3>1. skewed' = skewed \/ skewed' = TRUE
        BY <1>2 DEF Tick, ClockBack, vars
      <3>. QED  BY <2>0, <3>1
    <2>2. UNCHANGED <<users, sessions, opened, jar, failures, req, visits, ended>>
      BY <1>2 DEF Tick, ClockBack, vars
    <2>. QED  BY <2>1, <2>2, <2>3 DEF Typed, Issued
  <1>. QED
    BY <1>1, <1>2, SubmitTyped, FailsTyped, SucceedsTyped, OpensTyped, RefusedTyped, LogoutAllEnded,
       LogoutAllTyped, AcceptedTyped, TouchTyped, SweepTyped DEF Next

LEMMA EndedNotVisited ==
  ASSUME Typed, EndedInv, [Next]_vars, NEW s \in ended
  PROVE  visits'[s] = visits[s]
  <1>1. ASSUME NEW b \in BROWSERS, OpensSession(b) PROVE visits'[s] = visits[s]
    BY <1>1 DEF OpensSession, CreateSession, Typed, Issued
  <1>2. ASSUME NEW b \in BROWSERS, NEW wants, Accepted(b, wants) PROVE visits'[s] = visits[s]
    BY <1>2 DEF Accepted, Valid, Gone, EndedInv, Typed
  <1>. QED
    BY <1>1, <1>2 DEF Next, vars, Submit, Fails, Succeeds, FindsAddressFree, CreatesAccount, Welcomed,
       RefusesPassword, Refused, Touch, Logout, LogoutAll, SweepExpiredSessions, Tick, ClockBack

\* currentUser, destroySession and logout-all in auth.ts, for any number of browsers
\* and sessions, whatever request is under way and whatever the clock does: what was
\* refused or signed out is never accepted again.
THEOREM EndedIsForGood == Spec => EndedStaysEnded
  <1>1. Typed /\ EndedInv /\ [Next]_vars => [\A s \in ended : visits'[s] = visits[s]]_vars
    BY EndedNotVisited
  <1>. QED
    BY InitTyped, InitEnded, TypedStep, EndedStep, <1>1, PTL DEF Spec, EndedStaysEnded

-----------------------------------------------------------------------------
(* The rows of the table tell when a session was opened and, within the    *)
(* hour, last used; one that left the table without having ended is old.   *)

Touched(s) == \E b \in BROWSERS : req[b] \in Touches /\ jar[b] = s

TellsVisits(s) ==
  /\ sessions[s].createdAt = visits[s].since
  /\ visits[s].since <= now /\ visits[s].last <= now
  /\ sessions[s].lastUsedAt <= now
  /\ visits[s].last <= sessions[s].lastUsedAt + REFRESH \/ Touched(s)

FreshTouch(b) ==
  req[b] \in Touches =>
    /\ req[b].at = now
    /\ jar[b] \in DOMAIN sessions => ~Expired(sessions[jar[b]])

Old(s) == visits[s].since + ABSOLUTE < now \/ visits[s].last + IDLE < now + REFRESH

ActiveInv ==
  ~skewed =>
    /\ \A s \in DOMAIN sessions : TellsVisits(s)
    /\ \A b \in BROWSERS : FreshTouch(b)
    /\ \A s \in Issued \ (ended \union DOMAIN sessions) : Old(s)

LEMMA InitActive == Init => ActiveInv
  <1>. SUFFICES ASSUME Init PROVE ActiveInv
    OBVIOUS
  <1>1. DOMAIN sessions = {} /\ Issued = {}
    BY DEF Init, Issued
  <1>2. \A b \in BROWSERS : req[b] \notin Touches
    BY DEF Init, Idle, Touches
  <1>. QED  BY <1>1, <1>2 DEF ActiveInv, FreshTouch

LEMMA Times ==
  ASSUME Typed
  PROVE  /\ now \in Nat
         /\ \A s \in Issued : visits[s].since \in Nat /\ visits[s].last \in Nat
         /\ \A s \in DOMAIN sessions :
              s \in Issued /\ sessions[s].createdAt \in Nat /\ sessions[s].lastUsedAt \in Nat
  <1>1. Issued \subseteq 1..MAX_SESSIONS
    BY Constants DEF Typed, Issued
  <1>. QED  BY <1>1 DEF Typed, RowRecords

\* No write of lastUsedAt begins or ends in this step.
Quiet ==
  \A c \in BROWSERS :
    req[c] \in Touches \/ req'[c] \in Touches => req'[c] = req[c] /\ jar'[c] = jar[c]

LEMMA QuietFrom ==
  ASSUME Typed, NEW b \in BROWSERS, req[b] \notin Touches, req'[b] \notin Touches,
         \A c \in BROWSERS \ {b} : req'[c] = req[c] /\ jar'[c] = jar[c]
  PROVE  Quiet
  BY DEF Quiet

LEMMA NoTouch ==
  ASSUME NEW r \in {Idle} \union Forms \union Revokes
  PROVE  r \notin Touches
  BY DEF Idle, Forms, Revokes, Touches

LEMMA ActiveFewer ==
  ASSUME Typed, ActiveInv, NEW S \in SUBSET DOMAIN sessions,
         sessions' = [s \in S |-> sessions[s]],
         UNCHANGED <<now, opened, visits, skewed>>, Quiet, ended \subseteq ended',
         ~skewed => \A s \in DOMAIN sessions \ (S \union ended') : Old(s)
  PROVE  ActiveInv'
  <1>. SUFFICES ASSUME ~skewed PROVE ActiveInv'
    BY DEF ActiveInv
  <1>1. DOMAIN sessions' = S /\ \A s \in S : sessions'[s] = sessions[s]
    OBVIOUS
  <1>2. \A s \in S : Touched(s) => Touched(s)'
    BY DEF Quiet, Touched, Touches, Revokes
  <1>3. ASSUME NEW s \in DOMAIN sessions' PROVE TellsVisits(s)'
    BY <1>1, <1>2 DEF ActiveInv, TellsVisits
  <1>4. ASSUME NEW b \in BROWSERS, req'[b] \in Touches
        PROVE  req'[b].at = now' /\ (jar'[b] \in DOMAIN sessions' => ~Expired(sessions[jar[b]]))
    BY <1>1, <1>4 DEF ActiveInv, FreshTouch, Quiet
  <1>5. ASSUME NEW b \in BROWSERS PROVE FreshTouch(b)'
    BY <1>1, <1>4 DEF FreshTouch, Quiet, Expired, Touches, Revokes
  <1>6. ASSUME NEW s \in Issued \ (ended' \union S) PROVE Old(s)
    BY <1>6 DEF ActiveInv
  <1>. QED  BY <1>1, <1>3, <1>5, <1>6 DEF ActiveInv, Old, Issued

LEMMA FormsActive ==
  ASSUME Typed, ActiveInv, NEW b \in BROWSERS,
         \/ \E mode \in {"login", "register"}, email \in EMAILS : Submit(b, mode, email)
         \/ Fails(b) \/ Succeeds(b) \/ FindsAddressFree(b) \/ CreatesAccount(b) \/ Welcomed(b)
         \/ RefusesPassword(b)
  PROVE  ActiveInv'
  <1>. USE DEF Submit, Fails, Succeeds, FindsAddressFree, CreatesAccount, Welcomed, RefusesPassword,
          Answer
  <1>1. UNCHANGED <<now, sessions, opened, jar, visits, ended, skewed>>
    OBVIOUS
  <1>2. \A c \in BROWSERS \ {b} : req'[c] = req[c]
    BY DEF Typed
  <1>3. req[b].step \in {"idle", "login", "register", "create", "welcome"}
    BY DEF Idle
  <1>4. req[b] \in {Idle} \union Forms
    BY <1>3, Kinds DEF Typed
  <1>5. req'[b] \in {Idle} \union Forms
    <2>1. CASE \E mode \in {"login", "register"}, email \in EMAILS : Submit(b, mode, email)
      BY <1>4, <2>1 DEF Typed, Forms
    <2>2. CASE Fails(b) \/ RefusesPassword(b)
      BY <2>2 DEF Typed
    <2>3. CASE Succeeds(b) \/ FindsAddressFree(b) \/ CreatesAccount(b) \/ Welcomed(b)
      <3>1. req[b] \in Forms
        BY <1>4, <2>3 DEF Idle
      <3>2. \/ req' = [req EXCEPT ![b] = Idle]
            \/ \E n \in {"create", "welcome", "session"} : req' = [req EXCEPT ![b].step = n]
        BY <2>3
      <3>3. \/ req'[b] = Idle
            \/ \E n \in {"create", "welcome", "session"} : req'[b] = [req[b] EXCEPT !.step = n]
        BY <3>2 DEF Typed
      <3>. QED  BY <3>1, <3>3, RenameForm DEF Forms
    <2>. QED  BY <2>1, <2>2, <2>3
  <1>. HIDE DEF Submit, Fails, Succeeds, FindsAddressFree, CreatesAccount, Welcomed, RefusesPassword,
          Answer
  <1>6. Quiet
    BY <1>1, <1>2, <1>4, <1>5, NoTouch, QuietFrom
  <1>7. sessions' = [s \in DOMAIN sessions |-> sessions[s]]
    BY <1>1 DEF Typed
  <1>. QED  BY <1>1, <1>6, <1>7, ActiveFewer

LEMMA RefusedActive ==
  ASSUME Typed, ActiveInv, NEW b \in BROWSERS, Refused(b) \/ Logout(b)
  PROVE  ActiveInv'
  <1>. DEFINE S == {t \in DOMAIN sessions : t # jar[b]}
  <1>1. sessions' = [s \in S |-> sessions[s]]
    BY DEF Refused, Logout, Rows
  <1>2. Quiet
    BY NoTouch, QuietFrom DEF Refused, Logout, Typed
  <1>3. ended' = ended \union {jar[b]} /\ UNCHANGED <<now, opened, visits, skewed>>
    BY DEF Refused, Logout
  <1>. QED  BY <1>1, <1>2, <1>3, ActiveFewer

LEMMA LogoutAllActive ==
  ASSUME Typed, ActiveInv, NEW b \in BROWSERS, LogoutAll(b)
  PROVE  ActiveInv'
  <1>. DEFINE mine == {s \in DOMAIN sessions : sessions[s].user = req[b].email}
              S == {t \in DOMAIN sessions : t \notin mine}
  <1>1. sessions' = [s \in S |-> sessions[s]]
    BY DEF LogoutAll, Rows
  <1>2. req[b] \in Revokes /\ req'[b] = Idle
    BY Kinds DEF LogoutAll, Answer, Typed
  <1>3. Quiet
    BY <1>2, NoTouch, QuietFrom DEF LogoutAll, Answer, Typed
  <1>4. ended' = ended \union mine \union {jar[b]} /\ UNCHANGED <<now, opened, visits, skewed>>
    BY DEF LogoutAll
  <1>. QED  BY <1>1, <1>3, <1>4, ActiveFewer

LEMMA SweepActive ==
  ASSUME Typed, ActiveInv, SweepExpiredSessions
  PROVE  ActiveInv'
  <1>. DEFINE S == {s \in DOMAIN sessions : ~Expired(sessions[s])}
  <1>1. sessions' = [s \in S |-> sessions[s]]
    BY DEF SweepExpiredSessions, Rows
  <1>2. Quiet /\ ended' = ended /\ UNCHANGED <<now, opened, visits, skewed>>
    BY DEF SweepExpiredSessions, Quiet
  <1>3. ASSUME ~skewed, NEW s \in DOMAIN sessions, Expired(sessions[s])
        PROVE  Old(s)
    <2>1. TellsVisits(s) /\ ~Touched(s)
      BY <1>3 DEF ActiveInv, Touched, FreshTouch
    <2>. QED  BY <1>3, <2>1, Times, Constants DEF TellsVisits, Expired, Old
  <1>. QED  BY <1>1, <1>2, <1>3, ActiveFewer

LEMMA OpensActive ==
  ASSUME Typed, ActiveInv, NEW b \in BROWSERS, OpensSession(b)
  PROVE  ActiveInv'
  <1>. SUFFICES ASSUME ~skewed PROVE ActiveInv'
    BY DEF ActiveInv, OpensSession
  <1>. DEFINE s == opened + 1
  <1>1. /\ DOMAIN sessions' = DOMAIN sessions \union {s}
        /\ s \notin Issued /\ s \notin DOMAIN sessions /\ Issued' = Issued \union {s}
        /\ s \in 1..MAX_SESSIONS
    <2>1. opened < MAX_SESSIONS /\ opened' = s /\ opened \in Nat /\ MAX_SESSIONS \in Nat
      BY Constants DEF OpensSession, CreateSession, Typed
    <2>2. DOMAIN sessions' = DOMAIN sessions \union {s} /\ s \notin DOMAIN sessions
      BY OpensTyped
    <2>. QED  BY <2>1, <2>2 DEF Issued
  <1>2. /\ \A t \in DOMAIN sessions : sessions'[t] = sessions[t]
        /\ sessions'[s].createdAt = now /\ sessions'[s].lastUsedAt = now
    BY <1>1 DEF OpensSession, CreateSession
  <1>3. /\ visits'[s].since = now /\ visits'[s].last = now
        /\ \A t \in Issued : visits'[t] = visits[t]
    <2>1. visits' = [visits EXCEPT ![s] = [since |-> now, last |-> now]]
      BY DEF OpensSession, CreateSession
    <2>. QED  BY <1>1, <2>1, Constants DEF Typed, Issued
  <1>4. now' = now /\ ended' = ended /\ skewed' = skewed
    BY DEF OpensSession
  <1>5. /\ req[b] \in Forms /\ req'[b] = Idle
        /\ \A c \in BROWSERS \ {b} : req'[c] = req[c] /\ jar'[c] = jar[c]
    BY Kinds DEF OpensSession, CreateSession, Answer, Typed
  <1>6. Quiet
    BY <1>5, NoTouch, QuietFrom
  <1>7. ASSUME NEW t \in DOMAIN sessions' PROVE TellsVisits(t)'
    <2>1. CASE t = s
      BY <1>1, <1>2, <1>3, <1>4, <2>1, Times, Constants DEF TellsVisits
    <2>2. CASE t # s
      <3>1. t \in DOMAIN sessions /\ TellsVisits(t) /\ t \in Issued
        BY <1>1, <1>7, <2>2 DEF ActiveInv, Typed
      <3>2. Touched(t) => Touched(t)'
        BY <1>6 DEF Quiet, Touched, Touches, Revokes
      <3>. QED  BY <1>2, <1>3, <1>4, <3>1, <3>2 DEF TellsVisits
    <2>. QED  BY <2>1, <2>2
  <1>8. ASSUME NEW c \in BROWSERS PROVE FreshTouch(c)'
    <2>. SUFFICES ASSUME req'[c] \in Touches PROVE FreshTouch(c)'
      BY DEF FreshTouch, Touches, Revokes
    <2>1. req'[c] = req[c] /\ jar'[c] = jar[c] /\ FreshTouch(c)
      BY <1>6 DEF Quiet, ActiveInv
    <2>2. jar[c] # s
      BY <1>1 DEF Typed, Issued
    <2>. QED  BY <1>1, <1>2, <1>4, <2>1, <2>2 DEF FreshTouch, Expired
  <1>9. ASSUME NEW t \in Issued' \ (ended' \union DOMAIN sessions') PROVE Old(t)'
    BY <1>1, <1>3, <1>4, <1>9 DEF ActiveInv, Old
  <1>. QED  BY <1>7, <1>8, <1>9 DEF ActiveInv

LEMMA AcceptedActive ==
  ASSUME Typed, ActiveInv, NEW b \in BROWSERS, NEW wants, Accepted(b, wants)
  PROVE  ActiveInv'
  <1>. SUFFICES ASSUME ~skewed PROVE ActiveInv'
    BY DEF ActiveInv, Accepted
  <1>. DEFINE s == jar[b]
  <1>1. s \in DOMAIN sessions /\ ~Expired(sessions[s]) /\ req[b] = Idle /\ s \in 1..MAX_SESSIONS
    BY HeldType DEF Accepted, Valid, Gone
  <1>2. UNCHANGED <<now, sessions, opened, jar, ended, skewed>>
    BY DEF Accepted
  <1>3. /\ visits'[s].since = visits[s].since /\ visits'[s].last = now
        /\ \A t \in Issued \ {s} : visits'[t] = visits[t]
    <2>1. visits' = [visits EXCEPT ![s] = [visits[s] EXCEPT !.last = now]]
      BY DEF Accepted
    <2>. HIDE DEF s
    <2>2. Issued \subseteq 1..MAX_SESSIONS
      BY Constants DEF Typed, Issued
    <2>. QED  BY <1>1, <2>1, <2>2 DEF Typed
  <1>4. \A c \in BROWSERS \ {b} : req'[c] = req[c]
    BY DEF Accepted, Typed
  <1>5. IF now - sessions[s].lastUsedAt > REFRESH
        THEN req'[b] = [step |-> "touch", at |-> now, then |-> Onwards(b, wants)]
        ELSE req'[b] = Onwards(b, wants)
    BY DEF Accepted, Typed
  <1>6. Onwards(b, wants) \in {Idle} \union Revokes
    BY <1>1, Times, HeldType DEF Onwards, Revokes, RowRecords
  <1>7. ASSUME NEW t \in DOMAIN sessions PROVE TellsVisits(t)'
    <2>1. t \in Issued /\ TellsVisits(t)
      BY Times DEF ActiveInv
    <2>2. CASE t = s
      <3>1. CASE now - sessions[s].lastUsedAt > REFRESH
        <4>1. Touched(s)'
          BY <1>2, <1>5, <1>6, <3>1 DEF Touched, Touches, Revokes, Typed
        <4>. QED  BY <1>2, <1>3, <2>1, <2>2, <4>1, Times DEF TellsVisits
      <3>2. CASE ~(now - sessions[s].lastUsedAt > REFRESH)
        BY <1>1, <1>2, <1>3, <2>1, <2>2, <3>2, Times, Constants DEF TellsVisits
      <3>. QED  BY <3>1, <3>2
    <2>3. CASE t # s
      <3>1. Touched(t) => Touched(t)'
        BY <1>1, <1>2, <1>4, NoTouch DEF Touched, Touches, Revokes
      <3>. QED  BY <1>2, <1>3, <2>1, <2>3, <3>1 DEF TellsVisits
    <2>. QED  BY <2>2, <2>3
  <1>8. ASSUME NEW c \in BROWSERS PROVE FreshTouch(c)'
    <2>1. CASE c = b
      <3>1. req'[b] \in Touches => req'[b].at = now
        BY <1>5, <1>6, NoTouch
      <3>. QED  BY <1>1, <1>2, <2>1, <3>1 DEF FreshTouch, Expired, Touches, Revokes
    <2>2. CASE c # b
      BY <1>2, <1>4, <2>2 DEF ActiveInv, FreshTouch, Expired, Touches, Revokes
    <2>. QED  BY <2>1, <2>2
  <1>9. ASSUME NEW t \in Issued \ (ended \union DOMAIN sessions) PROVE Old(t)'
    BY <1>1, <1>2, <1>3, <1>9 DEF ActiveInv, Old
  <1>. QED  BY <1>2, <1>7, <1>8, <1>9 DEF ActiveInv, Issued

LEMMA TouchActive ==
  ASSUME Typed, ActiveInv, NEW b \in BROWSERS, Touch(b)
  PROVE  ActiveInv'
  <1>. SUFFICES ASSUME ~skewed PROVE ActiveInv'
    BY DEF ActiveInv, Touch
  <1>. DEFINE s == jar[b]
  <1>1. req[b] \in Touches /\ req[b].step = "touch" /\ req[b].then \in {Idle} \union Revokes
    BY Kinds DEF Touch, Typed
  <1>2. UNCHANGED <<now, opened, jar, visits, ended, skewed>>
    BY DEF Touch
  <1>3. req[b].at = now
    BY <1>1 DEF ActiveInv, FreshTouch
  <1>4. /\ DOMAIN sessions' = DOMAIN sessions
        /\ \A t \in DOMAIN sessions \ {s} : sessions'[t] = sessions[t]
        /\ s \in DOMAIN sessions => /\ sessions'[s].createdAt = sessions[s].createdAt
                                    /\ sessions'[s].lastUsedAt = now
    <2>1. CASE Gone(b)
      BY <2>1 DEF Touch, Gone
    <2>2. CASE ~Gone(b)
      BY <1>1, <1>3, <2>2, TouchRow DEF Touch, Gone
    <2>. QED  BY <2>1, <2>2
  <1>5. \A c \in BROWSERS \ {b} : req'[c] = req[c]
    BY DEF Touch, Answer, Typed
  <1>6. req'[b] \notin Touches
    <2>1. req'[b] = Idle \/ req'[b] = req[b].then
      BY DEF Touch, Answer, Typed
    <2>. QED  BY <1>1, <2>1, NoTouch
  <1>7. ASSUME NEW t \in DOMAIN sessions PROVE TellsVisits(t)'
    <2>1. t \in Issued /\ TellsVisits(t)
      BY Times DEF ActiveInv
    <2>2. CASE t = s
      BY <1>2, <1>4, <2>1, <2>2, Times, Constants DEF TellsVisits
    <2>3. CASE t # s
      <3>1. Touched(t) => Touched(t)'
        BY <1>2, <1>5, <2>3 DEF Touched, Touches, Revokes
      <3>. QED  BY <1>2, <1>4, <2>1, <2>3, <3>1 DEF TellsVisits
    <2>. QED  BY <2>2, <2>3
  <1>8. ASSUME NEW c \in BROWSERS PROVE FreshTouch(c)'
    <2>. SUFFICES ASSUME req'[c] \in Touches PROVE FreshTouch(c)'
      BY DEF FreshTouch, Touches, Revokes
    <2>1. req'[c] = req[c] /\ FreshTouch(c)
      BY <1>5, <1>6 DEF ActiveInv
    <2>2. CASE jar[c] = s /\ s \in DOMAIN sessions
      <3>1. ~Expired(sessions[s])
        BY <1>1, <2>2 DEF ActiveInv, FreshTouch
      <3>2. ~Expired(sessions[s])'
        BY <1>2, <1>4, <2>2, <3>1, Times, Constants DEF Expired
      <3>. QED  BY <1>2, <2>1, <2>2, <3>2 DEF FreshTouch
    <2>3. CASE jar[c] # s \/ s \notin DOMAIN sessions
      BY <1>2, <1>4, <2>1, <2>3 DEF FreshTouch, Expired
    <2>. QED  BY <2>2, <2>3
  <1>9. ASSUME NEW t \in Issued \ (ended \union DOMAIN sessions) PROVE Old(t)'
    BY <1>2, <1>9 DEF ActiveInv, Old
  <1>. QED  BY <1>2, <1>4, <1>7, <1>8, <1>9 DEF ActiveInv, Issued

LEMMA TickActive ==
  ASSUME Typed, ActiveInv, Tick
  PROVE  ActiveInv'
  <1>. SUFFICES ASSUME ~skewed PROVE ActiveInv'
    BY DEF ActiveInv, Tick
  <1>1. now' = now + 1 /\ UNCHANGED <<sessions, opened, jar, req, visits, ended, skewed>>
    BY DEF Tick
  <1>2. \A b \in BROWSERS : req[b] \notin Touches
    BY DEF Tick, Touches
  <1>3. ASSUME NEW s \in DOMAIN sessions PROVE TellsVisits(s)'
    <2>1. TellsVisits(s) /\ ~Touched(s) /\ s \in Issued
      BY <1>2, Times DEF ActiveInv, Touched
    <2>. QED  BY <1>1, <2>1, Times, Constants DEF TellsVisits
  <1>4. ASSUME NEW b \in BROWSERS PROVE FreshTouch(b)'
    BY <1>1, <1>2 DEF FreshTouch, Touches, Revokes
  <1>5. ASSUME NEW s \in Issued \ (ended \union DOMAIN sessions) PROVE Old(s)'
    <2>1. Old(s)
      BY <1>5 DEF ActiveInv
    <2>. QED  BY <1>1, <1>5, <2>1, Times, Constants DEF Old
  <1>. QED  BY <1>1, <1>3, <1>4, <1>5 DEF ActiveInv, Issued

LEMMA ActiveStep == ASSUME Typed, ActiveInv, [Next]_vars PROVE ActiveInv'
  <1>1. ASSUME ClockBack PROVE ActiveInv'
    BY <1>1 DEF ClockBack, ActiveInv
  <1>2. ASSUME UNCHANGED vars PROVE ActiveInv'
    <2>1. sessions' = [s \in DOMAIN sessions |-> sessions[s]]
      BY <1>2 DEF vars, Typed
    <2>. QED  BY <1>2, <2>1, ActiveFewer DEF vars, Quiet
  <1>. QED
    BY <1>1, <1>2, FormsActive, OpensActive, RefusedActive, LogoutAllActive, AcceptedActive,
       TouchActive, SweepActive, TickActive DEF Next

\* The limits of currentUser, its hourly write of lastUsedAt and the sweep of the
\* maintenance job, for any durations and any number of browsers: nobody who comes
\* back in time has to sign in again.
THEOREM ActiveIsNotSignedOut == Spec => []ActiveStaysSignedIn
  <1>1. Typed /\ ActiveInv => ActiveStaysSignedIn
    <2>. SUFFICES ASSUME Typed, ActiveInv, ~skewed, NEW s \in Issued \ ended,
                         s \notin DOMAIN sessions,
                         now - visits[s].since <= ABSOLUTE,
                         now - visits[s].last <= IDLE - REFRESH
                  PROVE  FALSE
      BY DEF ActiveStaysSignedIn
    <2>1. Old(s)
      BY DEF ActiveInv
    <2>. QED  BY <2>1, Times, Constants DEF Old
  <1>. QED
    BY InitTyped, InitEnded, InitActive, TypedStep, EndedStep, ActiveStep, <1>1, PTL DEF Spec

-----------------------------------------------------------------------------
(* The guesses that were let in are counted with those that were recorded. *)

Guessing == {b \in BROWSERS : req[b] \in Forms /\ req[b].step \in {"login", "register"}}

GuessingOn(e)   == {b \in Guessing : req[b].email = e}
GuessingFrom(a) == {b \in Guessing : IpOf[b] = a}
Behind(a)       == {b \in BROWSERS : IpOf[b] = a}

NearOn(e)   == {f \in FailuresOf(e) : f.at > now - WINDOW}
NearFrom(a) == {f \in FailuresFrom(a) : f.at > now - WINDOW}

\* The two bounds, of an address and of a place.
BoundOn    == BACKOFF_AFTER - 1 + Cardinality(BROWSERS)
BoundFrom(a) == BACKOFF_AFTER - 1 + Cardinality(Behind(a))

OnBounded(e)   == Cardinality(NearOn(e)) + Cardinality(GuessingOn(e)) <= BoundOn
FromBounded(a) == Cardinality(NearFrom(a)) + Cardinality(GuessingFrom(a)) <= BoundFrom(a)

GuessInv ==
  ~skewed => /\ \A e \in EMAILS : OnBounded(e)
             /\ \A b \in BROWSERS : FromBounded(IpOf[b])

LEMMA FiniteParts ==
  ASSUME Typed, NEW e, NEW a
  PROVE  /\ IsFiniteSet(NearOn(e)) /\ IsFiniteSet(NearFrom(a))
         /\ IsFiniteSet(GuessingOn(e)) /\ IsFiniteSet(GuessingFrom(a)) /\ IsFiniteSet(Behind(a))
  <1>1. NearOn(e) \subseteq failures /\ NearFrom(a) \subseteq failures
    BY DEF NearOn, NearFrom, FailuresOf, FailuresFrom
  <1>2. /\ GuessingOn(e) \subseteq BROWSERS /\ GuessingFrom(a) \subseteq BROWSERS
        /\ Behind(a) \subseteq BROWSERS
    BY DEF GuessingOn, GuessingFrom, Behind, Guessing
  <1>. QED  BY <1>1, <1>2, FS_Subset, Constants DEF Typed

\* The two ways a sum of two counts stays below a bound.

LEMMA NeitherGrows ==
  ASSUME NEW R, NEW G, NEW R2 \in SUBSET R, NEW G2 \in SUBSET G, IsFiniteSet(R), IsFiniteSet(G),
         NEW n \in Int, Cardinality(R) + Cardinality(G) <= n
  PROVE  Cardinality(R2) + Cardinality(G2) <= n
  <1>1. Cardinality(R2) <= Cardinality(R) /\ Cardinality(G2) <= Cardinality(G)
    BY FS_Subset
  <1>2. /\ Cardinality(R) \in Nat /\ Cardinality(G) \in Nat
        /\ Cardinality(R2) \in Nat /\ Cardinality(G2) \in Nat
    BY FS_Subset, FS_CardinalityType
  <1>. QED  BY <1>1, <1>2

LEMMA OneForTheOther ==
  ASSUME NEW R, NEW G, NEW x, NEW b \in G, NEW R2 \in SUBSET (R \union {x}), NEW G2 \in SUBSET (G \ {b}),
         IsFiniteSet(R), IsFiniteSet(G), NEW n \in Int, Cardinality(R) + Cardinality(G) <= n
  PROVE  Cardinality(R2) + Cardinality(G2) <= n
  <1>1. /\ IsFiniteSet(R \union {x})
        /\ Cardinality(R \union {x}) \in {Cardinality(R), Cardinality(R) + 1}
    BY FS_AddElement
  <1>2. IsFiniteSet(G \ {b}) /\ Cardinality(G \ {b}) = Cardinality(G) - 1
    BY FS_RemoveElement
  <1>3. /\ Cardinality(R2) <= Cardinality(R \union {x}) /\ Cardinality(G2) <= Cardinality(G \ {b})
        /\ IsFiniteSet(R2) /\ IsFiniteSet(G2)
    BY <1>1, <1>2, FS_Subset
  <1>4. /\ Cardinality(R) \in Nat /\ Cardinality(G) \in Nat
        /\ Cardinality(R2) \in Nat /\ Cardinality(G2) \in Nat
    BY <1>3, FS_CardinalityType
  <1>. QED  BY <1>1, <1>2, <1>3, <1>4

LEMMA Bounds ==
  ASSUME Typed, NEW a
  PROVE  BoundOn \in Int /\ BoundFrom(a) \in Int
  BY FiniteParts, FS_CardinalityType, Constants DEF BoundOn, BoundFrom

LEMMA InitGuess == Init => GuessInv
  <1>. SUFFICES ASSUME Init PROVE GuessInv
    OBVIOUS
  <1>1. ASSUME NEW e, NEW a
        PROVE  NearOn(e) = {} /\ NearFrom(a) = {} /\ GuessingOn(e) = {} /\ GuessingFrom(a) = {}
    BY DEF Init, NearOn, NearFrom, FailuresOf, FailuresFrom, GuessingOn, GuessingFrom, Guessing, Idle, Forms
  <1>2. ASSUME NEW a PROVE 0 <= BoundOn /\ 0 <= BoundFrom(a)
    BY InitTyped, FiniteParts, FS_CardinalityType, Constants DEF BoundOn, BoundFrom
  <1>. QED  BY <1>1, <1>2, FS_EmptySet DEF OnBounded, FromBounded, GuessInv

\* A step that records no failure and lets no attempt through.
LEMMA GuessFewer ==
  ASSUME Typed, GuessInv, failures' \subseteq failures, Guessing' \subseteq Guessing,
         \A b \in Guessing' : req'[b].email = req[b].email,
         now' \in Nat, now' >= now \/ skewed', skewed => skewed'
  PROVE  GuessInv'
  <1>. SUFFICES ASSUME ~skewed' PROVE GuessInv'
    BY DEF GuessInv
  <1>1. now' >= now /\ now \in Nat /\ WINDOW \in Nat /\ ~skewed
    BY Constants DEF Typed
  <1>2. \A f \in failures : f.at \in Nat
    BY DEF Typed, Attempts
  <1>3. ASSUME NEW e \in EMAILS PROVE OnBounded(e)'
    <2>1. NearOn(e)' \subseteq NearOn(e) /\ GuessingOn(e)' \subseteq GuessingOn(e)
      BY <1>1, <1>2 DEF NearOn, FailuresOf, GuessingOn
    <2>. QED
      BY <1>1, <2>1, FiniteParts, NeitherGrows, Bounds DEF OnBounded, BoundOn, GuessInv
  <1>4. ASSUME NEW b \in BROWSERS PROVE FromBounded(IpOf[b])'
    <2>1. /\ NearFrom(IpOf[b])' \subseteq NearFrom(IpOf[b])
          /\ GuessingFrom(IpOf[b])' \subseteq GuessingFrom(IpOf[b])
      BY <1>1, <1>2 DEF NearFrom, FailuresFrom, GuessingFrom
    <2>. QED
      BY <1>1, <2>1, FiniteParts, NeitherGrows, Bounds DEF FromBounded, BoundFrom, Behind, GuessInv
  <1>. QED  BY <1>3, <1>4 DEF GuessInv

LEMMA FailsGuess ==
  ASSUME Typed, GuessInv, NEW b \in BROWSERS, Fails(b)
  PROVE  GuessInv'
  <1>. SUFFICES ASSUME ~skewed PROVE GuessInv'
    BY DEF Fails, GuessInv
  <1>1. b \in Guessing /\ Guessing' = Guessing \ {b} /\ \A c \in Guessing' : req'[c] = req[c]
    <2>1. b \in Guessing
      BY Kinds DEF Fails, Typed, Guessing
    <2>2. req'[b] = Idle /\ \A c \in BROWSERS \ {b} : req'[c] = req[c]
      BY DEF Fails, Answer, Typed
    <2>. QED  BY <2>1, <2>2 DEF Guessing, Forms, Idle
  <1>2. PICK x : /\ failures' = failures \union {x}
                 /\ x.email = req[b].email /\ x.ip = IpOf[b]
    <2>. DEFINE alike == {f \in failures : f.email = req[b].email /\ f.ip = IpOf[b] /\ f.at = now}
                row == [email |-> req[b].email, ip |-> IpOf[b], at |-> now, nth |-> Cardinality(alike) + 1]
    <2>1. failures' = failures \union {row}
      BY DEF Fails, RecordFailure
    <2>2. row.email = req[b].email /\ row.ip = IpOf[b]
      OBVIOUS
    <2>. QED  BY <2>1, <2>2
  <1>3. now' = now /\ ~skewed'
    BY DEF Fails
  <1>4. ASSUME NEW e \in EMAILS PROVE OnBounded(e)'
    <2>0. OnBounded(e) /\ IsFiniteSet(NearOn(e)) /\ IsFiniteSet(GuessingOn(e)) /\ BoundOn \in Int
      BY FiniteParts, Bounds DEF GuessInv
    <2>1. CASE e = req[b].email
      <3>1. /\ NearOn(e)' \subseteq NearOn(e) \union {x}
            /\ GuessingOn(e)' \subseteq GuessingOn(e) \ {b} /\ b \in GuessingOn(e)
        BY <1>1, <1>2, <1>3, <2>1 DEF NearOn, FailuresOf, GuessingOn
      <3>2. Cardinality(NearOn(e)') + Cardinality(GuessingOn(e)') <= BoundOn
        BY <2>0, <3>1, OneForTheOther DEF OnBounded
      <3>. QED  BY <3>2 DEF OnBounded, BoundOn
    <2>2. CASE e # req[b].email
      <3>1. NearOn(e)' \subseteq NearOn(e) /\ GuessingOn(e)' \subseteq GuessingOn(e)
        BY <1>1, <1>2, <1>3, <2>2 DEF NearOn, FailuresOf, GuessingOn
      <3>. QED  BY <2>0, <3>1, NeitherGrows DEF OnBounded, BoundOn
    <2>. QED  BY <2>1, <2>2
  <1>5. ASSUME NEW c \in BROWSERS PROVE FromBounded(IpOf[c])'
    <2>. DEFINE a == IpOf[c]
    <2>0. FromBounded(a) /\ IsFiniteSet(NearFrom(a)) /\ IsFiniteSet(GuessingFrom(a)) /\ BoundFrom(a) \in Int
      BY FiniteParts, Bounds DEF GuessInv
    <2>1. CASE a = IpOf[b]
      <3>1. /\ NearFrom(a)' \subseteq NearFrom(a) \union {x}
            /\ GuessingFrom(a)' \subseteq GuessingFrom(a) \ {b} /\ b \in GuessingFrom(a)
        BY <1>1, <1>2, <1>3, <2>1 DEF NearFrom, FailuresFrom, GuessingFrom
      <3>2. Cardinality(NearFrom(a)') + Cardinality(GuessingFrom(a)') <= BoundFrom(a)
        BY <2>0, <3>1, OneForTheOther DEF FromBounded
      <3>. QED  BY <3>2 DEF FromBounded, BoundFrom, Behind
    <2>2. CASE a # IpOf[b]
      <3>1. NearFrom(a)' \subseteq NearFrom(a) /\ GuessingFrom(a)' \subseteq GuessingFrom(a)
        BY <1>1, <1>2, <1>3, <2>2 DEF NearFrom, FailuresFrom, GuessingFrom
      <3>. QED  BY <2>0, <3>1, NeitherGrows DEF FromBounded, BoundFrom, Behind
    <2>. QED  BY <2>1, <2>2
  <1>. QED  BY <1>4, <1>5 DEF GuessInv

\* Whom the throttle lets through has few failures, by address and by place.
LEMMA NotThrottled ==
  ASSUME Typed, NEW e, NEW a, ThrottleFor(e, a, now) = "proceed"
  PROVE  Cardinality(NearOn(e)) <= BACKOFF_AFTER - 1 /\ Cardinality(NearFrom(a)) <= BACKOFF_AFTER - 1
  <1>1. Cardinality(NearOn(e)) \in Nat /\ Cardinality(NearFrom(a)) \in Nat
    BY FiniteParts, FS_CardinalityType
  <1>2. Failures(e, a, now) = IF Cardinality(NearOn(e)) > Cardinality(NearFrom(a))
                              THEN Cardinality(NearOn(e)) ELSE Cardinality(NearFrom(a))
    BY DEF Failures, Recent, NearOn, NearFrom
  <1>3. Failures(e, a, now) < BACKOFF_AFTER
    <2>. DEFINE n == Failures(e, a, now)
    <2>1. n \in Nat
      BY <1>1, <1>2
    <2>2. ThrottleFor(e, a, now) = CASE n >= LOCKOUT_AFTER                       -> "lockout"
                                     [] n >= BACKOFF_AFTER /\ n < LOCKOUT_AFTER -> "backoff"
                                     [] OTHER                                    -> "proceed"
      BY DEF ThrottleFor
    <2>. SUFFICES ASSUME n >= BACKOFF_AFTER PROVE FALSE
      BY <2>1, Constants
    <2>3. CASE n >= LOCKOUT_AFTER
      BY <2>2, <2>3, <2>1, Constants
    <2>4. CASE ~(n >= LOCKOUT_AFTER)
      BY <2>2, <2>4, <2>1, Constants
    <2>. QED  BY <2>3, <2>4
  <1>. QED  BY <1>1, <1>2, <1>3, Constants

LEMMA SubmitGuess ==
  ASSUME Typed, GuessInv, NEW b \in BROWSERS, NEW mode \in {"login", "register"}, NEW email \in EMAILS,
         Submit(b, mode, email)
  PROVE  GuessInv'
  <1>. SUFFICES ASSUME ~skewed PROVE GuessInv'
    BY DEF Submit, GuessInv
  <1>1. UNCHANGED <<now, failures, skewed>> /\ now \in Nat
    BY DEF Submit, Typed
  <1>2. CASE req' = req
    BY <1>1, <1>2, GuessFewer DEF Guessing, Forms
  <1>3. CASE req' # req
    <2>1. /\ ThrottleFor(email, IpOf[b], now) = "proceed"
          /\ req' = [req EXCEPT ![b] = [step |-> mode, email |-> email]]
      BY <1>3 DEF Submit
    <2>2. /\ req'[b].email = email /\ \A c \in BROWSERS \ {b} : req'[c] = req[c]
          /\ Guessing' = Guessing \union {b}
      BY <2>1 DEF Typed, Guessing, Forms
    <2>3. ASSUME NEW e \in EMAILS PROVE OnBounded(e)'
      <3>0. /\ OnBounded(e) /\ NearOn(e)' = NearOn(e)
            /\ IsFiniteSet(NearOn(e)) /\ IsFiniteSet(GuessingOn(e)) /\ BoundOn \in Int
        BY <1>1, FiniteParts, Bounds DEF NearOn, FailuresOf, GuessInv
      <3>1. CASE e = email
        <4>1. Cardinality(NearOn(e)) <= BACKOFF_AFTER - 1
          BY <2>1, <3>1, NotThrottled
        <4>2. /\ Cardinality(GuessingOn(e)') <= Cardinality(BROWSERS)
              /\ IsFiniteSet(GuessingOn(e)')
          <5>1. GuessingOn(e)' \subseteq BROWSERS
            BY DEF GuessingOn, Guessing
          <5>. QED  BY <5>1, FS_Subset, Constants
        <4>3. /\ Cardinality(NearOn(e)) \in Nat /\ Cardinality(BROWSERS) \in Nat
              /\ Cardinality(GuessingOn(e)') \in Nat
          BY <3>0, <4>2, FS_CardinalityType, Constants
        <4>. QED  BY <3>0, <4>1, <4>2, <4>3, Constants DEF OnBounded, BoundOn
      <3>2. CASE e # email
        <4>1. GuessingOn(e)' \subseteq GuessingOn(e)
          BY <2>2, <3>2 DEF GuessingOn, Guessing
        <4>. QED  BY <3>0, <4>1, NeitherGrows DEF OnBounded, BoundOn
      <3>. QED  BY <3>1, <3>2
    <2>4. ASSUME NEW c \in BROWSERS PROVE FromBounded(IpOf[c])'
      <3>. DEFINE a == IpOf[c]
      <3>0. /\ FromBounded(a) /\ NearFrom(a)' = NearFrom(a)
            /\ IsFiniteSet(NearFrom(a)) /\ IsFiniteSet(GuessingFrom(a)) /\ IsFiniteSet(Behind(a))
            /\ BoundFrom(a) \in Int /\ Behind(a)' = Behind(a)
        BY <1>1, FiniteParts, Bounds DEF NearFrom, FailuresFrom, Behind, GuessInv
      <3>1. CASE a = IpOf[b]
        <4>1. Cardinality(NearFrom(a)) <= BACKOFF_AFTER - 1
          BY <2>1, <3>1, NotThrottled
        <4>2. /\ Cardinality(GuessingFrom(a)') <= Cardinality(Behind(a))
              /\ IsFiniteSet(GuessingFrom(a)')
          <5>1. GuessingFrom(a)' \subseteq Behind(a)
            BY DEF GuessingFrom, Guessing, Behind
          <5>. QED  BY <3>0, <5>1, FS_Subset
        <4>3. /\ Cardinality(NearFrom(a)) \in Nat /\ Cardinality(Behind(a)) \in Nat
              /\ Cardinality(GuessingFrom(a)') \in Nat
          BY <3>0, <4>2, FS_CardinalityType
        <4>. QED  BY <3>0, <4>1, <4>2, <4>3, Constants DEF FromBounded, BoundFrom
      <3>2. CASE a # IpOf[b]
        <4>1. GuessingFrom(a)' \subseteq GuessingFrom(a)
          BY <2>2, <3>2 DEF GuessingFrom
        <4>. QED  BY <3>0, <4>1, NeitherGrows DEF FromBounded, BoundFrom, Behind
      <3>. QED  BY <3>1, <3>2
    <2>. QED  BY <2>3, <2>4 DEF GuessInv
  <1>. QED  BY <1>2, <1>3

LEMMA GuessStep == ASSUME Typed, Typed', GuessInv, [Next]_vars PROVE GuessInv'
  <1>0. now \in Nat /\ now' \in Nat
    BY DEF Typed
  <1>1. ASSUME NEW b \in BROWSERS,
               Succeeds(b) \/ FindsAddressFree(b) \/ CreatesAccount(b) \/ Welcomed(b)
        PROVE  GuessInv'
    <2>. USE <1>1 DEF Succeeds, FindsAddressFree, CreatesAccount, Welcomed
    <2>1. req[b] \in Forms
      BY Kinds DEF Typed
    <2>2. \/ req' = [req EXCEPT ![b] = Idle]
          \/ \E n \in {"create", "welcome", "session"} : req' = [req EXCEPT ![b].step = n]
      BY DEF Answer
    <2>3. /\ req'[b].step \in {"idle", "create", "welcome", "session"}
          /\ \A c \in BROWSERS \ {b} : req'[c] = req[c]
      BY <2>1, <2>2 DEF Typed, Idle, Forms
    <2>4. UNCHANGED <<now, skewed>> /\ failures' \subseteq failures
      BY DEF RecordSuccess
    <2>. HIDE DEF Succeeds, FindsAddressFree, CreatesAccount, Welcomed
    <2>5. Guessing' \subseteq Guessing /\ \A c \in Guessing' : req'[c].email = req[c].email
      BY <2>3 DEF Guessing, Forms
    <2>. QED  BY <1>0, <2>4, <2>5, GuessFewer
  <1>2. ASSUME NEW b \in BROWSERS, \A c \in BROWSERS \ {b} : req'[c] = req[c],
               req'[b] \notin Forms, UNCHANGED <<now, skewed, failures>>
        PROVE  GuessInv'
    <2>1. Guessing' \subseteq Guessing /\ \A c \in Guessing' : req'[c].email = req[c].email
      BY <1>2 DEF Guessing, Forms
    <2>. QED  BY <1>0, <1>2, <2>1, GuessFewer
  <1>3. ASSUME NEW b \in BROWSERS, RefusesPassword(b) \/ OpensSession(b) \/ LogoutAll(b)
        PROVE  GuessInv'
    BY <1>2, <1>3 DEF RefusesPassword, OpensSession, LogoutAll, Answer, Typed, Idle, Forms
  <1>4. ASSUME NEW b \in BROWSERS, NEW wants, Accepted(b, wants) PROVE GuessInv'
    <2>1. req'[b] \notin Forms
      BY <1>4 DEF Accepted, Onwards, Idle, Forms, Typed
    <2>. QED  BY <1>2, <1>4, <2>1 DEF Accepted, Typed
  <1>5. ASSUME NEW b \in BROWSERS, Touch(b) PROVE GuessInv'
    <2>1. req'[b] = Idle \/ req'[b] \in {Idle} \union Revokes
      BY <1>5, Kinds DEF Touch, Answer, Typed
    <2>2. req'[b] \notin Forms
      BY <2>1 DEF Idle, Revokes, Forms
    <2>. QED  BY <1>2, <1>5, <2>2 DEF Touch, Answer, Typed
  <1>6. ASSUME UNCHANGED <<req, failures>>, now' >= now \/ skewed', skewed => skewed' PROVE GuessInv'
    <2>1. Guessing' = Guessing
      BY <1>6 DEF Guessing, Forms
    <2>. QED  BY <1>0, <1>6, <2>1, GuessFewer
  <1>7. ASSUME NEW b \in BROWSERS, Refused(b) \/ Logout(b) PROVE GuessInv'
    BY <1>6, <1>7 DEF Refused, Logout, Typed
  <1>8. ASSUME SweepExpiredSessions \/ Tick \/ ClockBack \/ UNCHANGED vars PROVE GuessInv'
    BY <1>6, <1>8 DEF SweepExpiredSessions, Tick, ClockBack, vars, Typed
  <1>. QED
    BY <1>1, <1>3, <1>4, <1>5, <1>7, <1>8, SubmitGuess, FailsGuess DEF Next

(* What stands in the table is what nobody has answered for: a sign-in     *)
(* takes back the guesses at its own address and no others.                *)

Stands == failures = standing

LEMMA StandsStep == ASSUME Stands, [Next]_vars PROVE Stands'
  <1>1. ASSUME NEW b \in BROWSERS, Fails(b) PROVE Stands'
    BY <1>1 DEF Fails, RecordFailure, Stands
  <1>2. ASSUME NEW b \in BROWSERS, Succeeds(b) \/ Welcomed(b) PROVE Stands'
    BY <1>2 DEF Succeeds, Welcomed, RecordSuccess, Stands
  <1>3. ASSUME UNCHANGED <<failures, standing>> PROVE Stands'
    BY <1>3 DEF Stands
  <1>. QED
    BY <1>1, <1>2, <1>3 DEF Next, vars, Submit, FindsAddressFree, CreatesAccount, RefusesPassword,
       OpensSession, Refused, Accepted, Touch, Logout, LogoutAll, SweepExpiredSessions, Tick, ClockBack

\* throttleFor and recordAttempt, for any number of browsers, places and limits and
\* any interleaving of their queries: the wrong guesses of a window since which nobody
\* signed in to the address they were made at are, at one address and from one place,
\* those the throttle allows and one for each other browser that was past the count.
THEOREM GuessesStayBounded == Spec => []GuessesAreBounded
  <1>1. Typed /\ GuessInv /\ Stands => GuessesAreBounded
    <2>. SUFFICES ASSUME Typed, GuessInv, Stands, ~skewed PROVE GuessesAreBounded
      BY DEF GuessesAreBounded
    <2>. DEFINE recent == {g \in standing : g.at > now - WINDOW}
    <2>1. ASSUME NEW e \in EMAILS
          PROVE  Cardinality({g \in recent : g.email = e}) <= BACKOFF_AFTER + Cardinality(BROWSERS) - 1
      <3>1. /\ Cardinality(NearOn(e)) \in Nat /\ Cardinality(GuessingOn(e)) \in Nat
            /\ Cardinality(BROWSERS) \in Nat
        BY FiniteParts, FS_CardinalityType, Constants
      <3>2. {g \in recent : g.email = e} = NearOn(e)
        BY DEF Stands, NearOn, FailuresOf
      <3>3. Cardinality(NearOn(e)) <= BACKOFF_AFTER + Cardinality(BROWSERS) - 1
        BY <3>1, Constants DEF GuessInv, OnBounded, BoundOn
      <3>. QED  BY <3>2, <3>3
    <2>2. ASSUME NEW b \in BROWSERS
          PROVE  Cardinality({g \in recent : g.ip = IpOf[b]})
                   <= BACKOFF_AFTER + Cardinality({c \in BROWSERS : IpOf[c] = IpOf[b]}) - 1
      <3>1. /\ Cardinality(NearFrom(IpOf[b])) \in Nat /\ Cardinality(GuessingFrom(IpOf[b])) \in Nat
            /\ Cardinality(Behind(IpOf[b])) \in Nat
        BY FiniteParts, FS_CardinalityType
      <3>2. Cardinality(NearFrom(IpOf[b])) <= BACKOFF_AFTER + Cardinality(Behind(IpOf[b])) - 1
        BY <3>1, Constants DEF GuessInv, FromBounded, BoundFrom
      <3>3. {g \in recent : g.ip = IpOf[b]} = NearFrom(IpOf[b])
        BY DEF Stands, NearFrom, FailuresFrom
      <3>. QED  BY <3>2, <3>3 DEF Behind
    <2>. QED  BY <2>1, <2>2 DEF GuessesAreBounded
  <1>2. Init => Stands
    BY DEF Init, Stands
  <1>. QED
    BY InitTyped, InitEnded, InitGuess, TypedStep, EndedStep, GuessStep, StandsStep, <1>1, <1>2,
       PTL DEF Spec
=============================================================================
