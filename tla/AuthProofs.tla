------------------------------ MODULE AuthProofs ------------------------------
(***************************************************************************)
(* Logging in, for any phones, emails, codes, concurrent requests and any  *)
(* number of failures: every session was opened by a request that          *)
(* presented the code sent to its phone or its email's password, a code    *)
(* that no two requests compared at once opens one session, and a logout   *)
(* is final unless its DELETE failed.                                      *)
(***************************************************************************)
EXTENDS Auth, FiniteSetTheorems, TLAPS

(* The rows of otp_codes and sessions, and where a request stands.         *)
OtpType == [phone : Phones \cup {Nobody}, code : Codes \cup {Nobody},
            attempts : Nat, expires : 0..(MaxTime + OtpTTL), consumed : BOOLEAN]
Statuses == {"none", "live", "deleted"}
SessionType == [status : Statuses, user : UserIds, expires : 0..(MaxTime + SessionTTL),
                who : Identities \cup {Nobody}, otp : 0..MaxOtps,
                given : Secrets \cup {Nobody}, at : 0..MaxTime]
PCs == {"idle", "increment", "consume", "upsert", "session"}
RequestType == [pc : PCs, who : Identities \cup {Nobody}, otp : 0..MaxOtps, user : UserIds,
                given : Secrets \cup {Nobody}, at : 0..MaxTime]

Types == /\ now \in 0..MaxTime /\ faults \in 0..MaxFaults
         /\ otp \in [Otps -> OtpType] /\ user \in [Identities -> UserIds]
         /\ password \in [Emails -> Passwords \cup {Nobody}]
         /\ session \in [Tokens -> SessionType] /\ req \in [Handlers -> RequestType]
         /\ loggedOut \in SUBSET Tokens /\ shared \in SUBSET Otps

\* What RequestIsEarned says of one request, and SessionHasUser and SessionIsEarned of
\* one session.
Sound(h) ==
    /\ req[h].pc \in {"increment", "consume", "upsert"} =>
          /\ req[h].who \in Phones /\ req[h].otp \in Otps
          /\ otp[req[h].otp].phone = req[h].who
    /\ req[h].pc = "consume" => /\ otp[req[h].otp].code = req[h].given
                                /\ req[h].at < otp[req[h].otp].expires
    /\ req[h].pc = "upsert" => Claim(h)
    /\ req[h].pc = "session" =>
          /\ req[h].who \in Identities /\ req[h].user # 0
          /\ req[h].user = user[req[h].who]
          /\ Claim(h)
Owned(t) ==
    session[t] # NoSession =>
        /\ session[t].who \in Identities /\ session[t].user # 0
        /\ session[t].user = user[session[t].who]
        /\ Proven(session[t].who, session[t].otp, session[t].given, session[t].at)

(* The inductive invariant. AuthInv is what it implies; it holds request   *)
(* by request and session by session, as the steps change one of them at a *)
(* time.                                                                   *)
IInv == /\ Types /\ UsersAreDistinct /\ PasswordHasUser
        /\ (\A h \in Handlers : Sound(h)) /\ (\A t \in Tokens : Owned(t))
        /\ GuessesReserved /\ SoleHolder /\ ConsumedLogsIn /\ LogoutIsFinal

(* What the rows are before anything is written to them.                   *)
LEMMA RowFacts ==
    /\ NoOtp.phone = Nobody /\ NoOtp.consumed = FALSE /\ NoOtp.attempts = 0
    /\ NoSession.status = "none" /\ Idle.pc = "idle" /\ Idle \in RequestType
    /\ NoOtp \in OtpType /\ NoSession \in SessionType
    /\ Nobody \notin Phones /\ Nobody \notin Identities
<1>1. Cardinality(Identities) \in Nat
  BY Zenon, AuthAssumption, FS_CardinalityType
<1> QED  BY <1>1, AuthAssumption DEF NoOtp, NoSession, Idle, RequestType, PCs, OtpType, SessionType, Statuses,
     UserIds, Identities, Secrets

(* The invariant says what the service promises.                           *)
LEMMA InvMeaning ==
    ASSUME IInv  PROVE AuthInv /\ SessionIsEarned /\ CodeIsSingleUse
<1>1. AuthTypeOK
  BY Zenon DEF IInv, Types, AuthTypeOK, OtpType, SessionType, RequestType, PCs, Statuses
<1>2. RequestIsEarned /\ SessionHasUser
  BY Zenon DEF IInv, Sound, Owned, RequestIsEarned, SessionHasUser, At, Issued
<1>3. SessionIsEarned
  BY Zenon DEF IInv, Owned, SessionIsEarned, Issued
<1>4. OneUserPerIdentity
  BY <1>2 DEF IInv, OneUserPerIdentity, SessionHasUser, UsersAreDistinct
<1>5. CodeIsSingleUse
  <2>1. ASSUME NEW t \in Issued  PROVE session[t].otp \in {0} \cup Otps
    BY Zenon, <1>3, <2>1 DEF SessionIsEarned, Proven
  <2> QED  BY Zenon, <2>1 DEF IInv, CodeIsSingleUse, SoleHolder, Sole
<1>6. AttemptsBounded
  <2> SUFFICES ASSUME NEW i \in Otps  PROVE otp[i].attempts < MaxAttempts + Cardinality(Handlers)
    BY Zenon DEF AttemptsBounded
  <2>1. Guessing(i) \subseteq Handlers /\ IsFiniteSet(Handlers)
    BY Zenon, AuthAssumption DEF Guessing
  <2>2. Cardinality(Guessing(i)) \in Nat /\ Cardinality(Handlers) \in Nat
    BY Zenon, <2>1, FS_Subset, FS_CardinalityType
  <2>3. otp[i].attempts \in Nat
    BY Zenon DEF IInv, Types, OtpType
  <2>4. otp[i].attempts + Cardinality(Guessing(i)) < MaxAttempts + Cardinality(Handlers)
    BY Zenon DEF IInv, GuessesReserved
  <2> QED  BY <2>2, <2>3, <2>4, AuthAssumption
<1> QED  BY Zenon, <1>1, <1>2, <1>3, <1>4, <1>5, <1>6 DEF AuthInv, IInv

\* What no step takes back.
Kept ==
    /\ \A i \in Otps : otp[i].phone \in Phones =>
          /\ otp'[i].phone = otp[i].phone /\ (otp[i].consumed => otp'[i].consumed)
          /\ otp'[i].code = otp[i].code /\ otp'[i].expires = otp[i].expires
    /\ \A w \in Identities : user[w] # 0 => user'[w] = user[w]
    /\ \A e \in Emails : /\ password[e] # Nobody => password'[e] = password[e]
                         /\ password'[e] # password[e] => user'[e] # 0

(* Nobody loses the proof that a phone or an email is theirs.              *)
LEMMA ProofStays ==
    ASSUME Kept, NEW w \in Identities, NEW i, NEW c, NEW n, Proven(w, i, c, n)
    PROVE  Proven(w, i, c, n)'
BY Zenon DEF Kept, Proven, Identities

(* A password stays the one of a row.                                      *)
LEMMA PasswordsStay == ASSUME Kept, PasswordHasUser  PROVE PasswordHasUser'
BY Zenon DEF Kept, PasswordHasUser, Identities

(* A request that does not move stays sound while others do.               *)
LEMMA SoundStays ==
    ASSUME Kept, NEW h \in Handlers, Sound(h), req'[h] = req[h]
    PROVE  Sound(h)'
<1>1. \A w, i, c, n : w \in Identities /\ Proven(w, i, c, n) => Proven(w, i, c, n)'
  BY Zenon, ProofStays
<1>2. Phones \subseteq Identities
  BY Zenon DEF Identities
<1> QED  BY <1>1, <1>2 DEF Sound, Claim, Kept

(* A session that nobody writes keeps its user.                            *)
LEMMA OwnedStays ==
    ASSUME Kept, NEW t \in Tokens, Owned(t), session'[t] = session[t]
    PROVE  Owned(t)'
<1>1. \A w, i, c, n : w \in Identities /\ Proven(w, i, c, n) => Proven(w, i, c, n)'
  BY Zenon, ProofStays
<1> QED  BY <1>1 DEF Owned, Kept

\* A request that has compared code i and goes on with it; one about to open a
\* session for it.
Holding(q, i) == q.pc \in {"consume", "upsert", "session"} /\ q.otp = i
Opening(q, i) == q.pc \in {"upsert", "session"} /\ q.otp = i

(* A code that gets neither a guess nor a count keeps its distance to the  *)
(* cap.                                                                    *)
LEMMA GuessesStay ==
    ASSUME GuessesReserved, Types, NEW i \in Otps, otp'[i].attempts \in Nat,
           otp'[i].attempts <= otp[i].attempts, Guessing(i)' \subseteq Guessing(i)
    PROVE  otp'[i].attempts + Cardinality(Guessing(i)') < MaxAttempts + Cardinality(Handlers)
<1>1. Guessing(i) \subseteq Handlers /\ IsFiniteSet(Handlers)
  BY Zenon, AuthAssumption DEF Guessing
<1>2. IsFiniteSet(Guessing(i)) /\ Cardinality(Handlers) \in Nat
  BY Zenon, <1>1, FS_Subset, FS_CardinalityType
<1>3. /\ Cardinality(Guessing(i)) \in Nat /\ Cardinality(Guessing(i)') \in Nat
      /\ Cardinality(Guessing(i)') <= Cardinality(Guessing(i))
  BY Zenon, <1>2, FS_Subset, FS_CardinalityType
<1>4. otp[i].attempts + Cardinality(Guessing(i)) < MaxAttempts + Cardinality(Handlers)
  BY Zenon DEF GuessesReserved
<1>5. otp[i].attempts \in Nat
  BY Zenon DEF Types, OtpType
<1> QED  BY <1>2, <1>3, <1>4, <1>5, AuthAssumption

(* The same for all codes.                                                 *)
LEMMA GuessesKept ==
    ASSUME GuessesReserved, Types, Types',
           \A i \in Otps : otp'[i].attempts <= otp[i].attempts /\ Guessing(i)' \subseteq Guessing(i)
    PROVE  GuessesReserved'
<1>1. \A i \in Otps : otp'[i].attempts \in Nat
  BY Zenon DEF Types, OtpType
<1> QED  BY Zenon, <1>1, GuessesStay DEF GuessesReserved

(* Who holds a code, as long as nobody takes one up and no session is      *)
(* opened.                                                                 *)
LEMMA HoldersKept ==
    ASSUME SoleHolder, shared' = shared,
           \A h \in Handlers, i \in Otps : Holding(req'[h], i) => Holding(req[h], i),
           \A t \in Tokens : /\ session'[t] # NoSession <=> session[t] # NoSession
                            /\ session'[t].otp = session[t].otp
    PROVE  SoleHolder'
BY DEF SoleHolder, Sole, Holds, Holding, Issued

(* The users' ids are distinct as long as no user is inserted.             *)
LEMMA UsersKept ==
    ASSUME UsersAreDistinct, user' = user  PROVE UsersAreDistinct'
<1>1. FreshUser' = FreshUser
  BY Zenon DEF FreshUser
<1> QED  BY Zenon, <1>1 DEF UsersAreDistinct

\* A step in which request h becomes q, and no session does.
Becomes(h, q) ==
    /\ q \in RequestType /\ req' = [req EXCEPT ![h] = q]
    /\ UNCHANGED <<now, session, loggedOut>> /\ Kept
    /\ otp' \in [Otps -> OtpType] /\ user' \in [Identities -> UserIds]
    /\ password' \in [Emails -> Passwords \cup {Nobody}]
    /\ shared' \in SUBSET Otps /\ faults' \in 0..MaxFaults /\ faults' >= faults
    /\ \A i \in Otps :
          /\ otp'[i].consumed => otp[i].consumed \/ Opening(q, i)
          /\ Opening(req[h], i) => Opening(q, i) \/ faults' > 0

(* A request's step keeps the types and leaves the other requests where    *)
(* they are.                                                               *)
LEMMA RequestTypes ==
    ASSUME Types, NEW h \in Handlers, NEW q, Becomes(h, q)
    PROVE  /\ Types' /\ req'[h] = q /\ \A g \in Handlers : g # h => req'[g] = req[g]
BY Zenon DEF Types, Becomes

(* A request's step keeps the invariant if it leaves the request sound,    *)
(* the users distinct, the guesses reserved and the holders sole.          *)
LEMMA RequestStep ==
    ASSUME IInv, NEW h \in Handlers, NEW q, Becomes(h, q),
           Sound(h)', UsersAreDistinct', GuessesReserved', SoleHolder'
    PROVE  IInv'
<1>1. /\ Types' /\ req'[h] = q /\ \A g \in Handlers : g # h => req'[g] = req[g]
  BY Zenon, RequestTypes DEF IInv
<1>2. Kept /\ session' = session /\ loggedOut' = loggedOut
  BY Zenon DEF Becomes
<1>3. \A g \in Handlers : Sound(g)'
  BY Zenon, <1>1, <1>2, SoundStays DEF IInv
<1>4. \A t \in Tokens : Owned(t)'
  BY Zenon, <1>2, OwnedStays DEF IInv
<1>5. LogoutIsFinal' /\ PasswordHasUser'
  <2>1. faults > 0 => faults' > 0
    BY DEF IInv, Types, Becomes
  <2> QED  BY Zenon, <1>2, <2>1, PasswordsStay DEF IInv, LogoutIsFinal, Issued
<1>6. ConsumedLogsIn'
  <2> SUFFICES ASSUME NEW i \in Otps, otp'[i].consumed, ~(faults' > 0)
               PROVE  \/ \E t \in Issued' : session'[t].otp = i
                      \/ \E g \in Handlers : Opening(req'[g], i)
    BY Zenon DEF ConsumedLogsIn, Opening
  <2>1. CASE Opening(q, i)
    BY Zenon, <1>1, <2>1
  <2>2. CASE ~Opening(q, i)
    <3>1. otp[i].consumed /\ ~Opening(req[h], i)
      BY Zenon, <2>2 DEF Becomes
    <3>2. ~(faults > 0)
      BY DEF IInv, Types, Becomes
    <3>3. \/ \E t \in Issued : session[t].otp = i
          \/ \E g \in Handlers : Opening(req[g], i)
      BY Zenon, <3>1, <3>2 DEF IInv, ConsumedLogsIn, Opening
    <3>4. Issued' = Issued
      BY Zenon, <1>2 DEF Issued
    <3> QED  BY Zenon, <1>1, <1>2, <3>1, <3>3, <3>4
  <2> QED  BY Zenon, <2>1, <2>2
<1> QED  BY Zenon, <1>1, <1>3, <1>4, <1>5, <1>6 DEF IInv

\* A request that neither guesses nor takes up a code.
LEMMA PlainStep ==
    ASSUME IInv, NEW h \in Handlers, NEW q, Becomes(h, q), Sound(h)', UsersAreDistinct',
           shared' = shared, q.pc # "increment",
           \A i \in Otps : /\ otp'[i].attempts <= otp[i].attempts
                           /\ Holding(q, i) => Holding(req[h], i)
    PROVE  IInv'
<1>1. /\ Types' /\ req'[h] = q /\ \A g \in Handlers : g # h => req'[g] = req[g]
  BY Zenon, RequestTypes DEF IInv
<1>2. \A i \in Otps : Guessing(i)' \subseteq Guessing(i)
  BY Zenon, <1>1 DEF Guessing, At
<1>3. GuessesReserved'
  BY Zenon, <1>1, <1>2, GuessesKept DEF IInv
<1>4. SoleHolder'
  BY <1>1, HoldersKept DEF IInv, Becomes
<1> QED  BY Zenon, <1>3, <1>4, RequestStep

(* An inserted user gets an id that no other row has.                      *)
LEMMA NewUser ==
    ASSUME Types, UsersAreDistinct, NEW w \in Identities, user[w] = 0,
           user' = [user EXCEPT ![w] = FreshUser]
    PROVE  /\ FreshUser \in UserIds \ {0} /\ UsersAreDistinct'
           /\ user' \in [Identities -> UserIds]
           /\ \A v \in Identities : user[v] # 0 => user'[v] = user[v]
<1> DEFINE S == {v \in Identities : user[v] # 0}
           T == {v \in Identities : user'[v] # 0}
<1>1. user \in [Identities -> UserIds] /\ IsFiniteSet(Identities)
  BY Zenon, AuthAssumption DEF Types
<1>2. S \subseteq Identities /\ IsFiniteSet(S) /\ Cardinality(S) \in Nat /\ FreshUser = 1 + Cardinality(S)
  BY Zenon, <1>1, FS_Subset, FS_CardinalityType DEF FreshUser
<1>3. w \notin S /\ S \cup {w} \subseteq Identities
  BY Zenon
<1>4. Cardinality(S \cup {w}) = Cardinality(S) + 1
  BY Zenon, <1>2, <1>3, FS_AddElement
<1>5. Cardinality(S \cup {w}) <= Cardinality(Identities) /\ Cardinality(Identities) \in Nat
  BY Zenon, <1>1, <1>3, FS_Subset, FS_CardinalityType
<1>6. FreshUser \in UserIds \ {0}
  BY <1>2, <1>4, <1>5 DEF UserIds
<1>7. user' \in [Identities -> UserIds] /\ user'[w] = FreshUser
      /\ \A v \in Identities : v # w => user'[v] = user[v]
  BY Zenon, <1>1, <1>6
<1>8. T = S \cup {w}
  BY Zenon, <1>6, <1>7
<1>9. FreshUser' = FreshUser + 1
  BY <1>2, <1>4, <1>8 DEF FreshUser
<1>10. \A v \in Identities : user[v] \in Nat /\ user[v] < FreshUser
  BY <1>1, <1>5 DEF UsersAreDistinct, UserIds
<1>11. FreshUser \in Nat
  BY <1>2
<1> HIDE DEF S, T
<1> QED  BY <1>6, <1>7, <1>9, <1>10, <1>11 DEF UsersAreDistinct

(* What the calls write: to a code, to a request and to a session.         *)
Guessed(q, k) == [q EXCEPT !.attempts = k]
Spent(q) == [q EXCEPT !.consumed = TRUE]
Comparing(p, i, l, c) ==
    [Idle EXCEPT !.pc = l, !.who = p, !.otp = i, !.given = c, !.at = now]
Looking(q) == [q EXCEPT !.pc = "upsert"]
Found(q, u) == [q EXCEPT !.pc = "session", !.user = u]
Entering(e, u, pw) ==
    [Idle EXCEPT !.pc = "session", !.who = e, !.user = u, !.given = pw]
Deleted(s) == [s EXCEPT !.status = "deleted"]

(* The columns of a code's row.                                            *)
LEMMA OtpRow ==
    ASSUME NEW q \in OtpType
    PROVE  /\ q.attempts \in Nat /\ q.consumed \in BOOLEAN /\ q.phone \in Phones \cup {Nobody}
           /\ q.expires \in 0..(MaxTime + OtpTTL)
BY Zenon DEF OtpType

(* IncrementOTPAttempts writes the count and nothing else.                 *)
LEMMA GuessedRow ==
    ASSUME NEW q \in OtpType, NEW k \in Nat
    PROVE  LET r == Guessed(q, k) IN
           /\ r \in OtpType /\ r.attempts = k /\ r.phone = q.phone /\ r.consumed = q.consumed
           /\ r.code = q.code /\ r.expires = q.expires
BY Zenon DEF OtpType, Guessed

(* ConsumeOTP marks the row and nothing else.                              *)
LEMMA SpentRow ==
    ASSUME NEW q \in OtpType
    PROVE  LET r == Spent(q) IN
           /\ r \in OtpType /\ r.attempts = q.attempts /\ r.phone = q.phone /\ r.consumed = TRUE
           /\ r.code = q.code /\ r.expires = q.expires
BY Zenon DEF OtpType, Spent

(* Untouched codes have no more guesses than before.                       *)
LEMMA AttemptsKept ==
    ASSUME Types, otp' = otp  PROVE \A i \in Otps : otp'[i].attempts <= otp[i].attempts
<1>1. \A i \in Otps : otp[i].attempts \in Nat
  BY Zenon, OtpRow DEF Types
<1> QED  BY <1>1

(* A request that has compared a code.                                     *)
LEMMA ComparingRow ==
    ASSUME NEW p \in Phones, NEW i \in Otps, NEW l \in PCs, NEW c \in Codes, now \in 0..MaxTime
    PROVE  LET r == Comparing(p, i, l, c) IN
           /\ r \in RequestType /\ r.pc = l /\ r.who = p /\ r.otp = i
           /\ r.given = c /\ r.at = now
<1>1. /\ p \in Identities \cup {Nobody} /\ i \in 0..MaxOtps /\ 0 \in UserIds
      /\ c \in Secrets \cup {Nobody}
  BY AuthAssumption, FS_CardinalityType DEF Identities, Otps, UserIds, Secrets
<1> QED  BY Zenon, <1>1, Zenon DEF Comparing, Idle, RequestType

(* A request that has consumed its code and looks for the user.            *)
LEMMA LookingRow ==
    ASSUME NEW q \in RequestType
    PROVE  LET r == Looking(q) IN
           /\ r \in RequestType /\ r.pc = "upsert" /\ r.who = q.who /\ r.otp = q.otp
           /\ r.given = q.given /\ r.at = q.at
<1>1. "upsert" \in PCs
  BY Zenon DEF PCs
<1> QED  BY Zenon, <1>1, Zenon DEF Looking, RequestType

(* A request that has its user.                                            *)
LEMMA FoundRow ==
    ASSUME NEW q \in RequestType, NEW u \in UserIds
    PROVE  LET r == Found(q, u) IN
           /\ r \in RequestType /\ r.pc = "session" /\ r.who = q.who /\ r.otp = q.otp /\ r.user = u
           /\ r.given = q.given /\ r.at = q.at
<1>1. "session" \in PCs
  BY Zenon DEF PCs
<1> QED  BY Zenon, <1>1, Zenon DEF Found, RequestType

(* A request that has checked a password.                                  *)
LEMMA EnteringRow ==
    ASSUME NEW e \in Emails, NEW u \in UserIds, NEW pw \in Passwords \cup Weak
    PROVE  LET r == Entering(e, u, pw) IN
           /\ r \in RequestType /\ r.pc = "session" /\ r.who = e /\ r.otp = 0 /\ r.user = u
           /\ r.given = pw
<1>1. /\ "session" \in PCs /\ e \in Identities \cup {Nobody} /\ 0 \in 0..MaxOtps
      /\ 0 \in 0..MaxTime /\ pw \in Secrets \cup {Nobody}
  BY AuthAssumption DEF PCs, Identities, Secrets
<1> QED  BY Zenon, <1>1, Zenon DEF Entering, Idle, RequestType

(* A deleted session keeps what it stood for.                              *)
LEMMA DeletedRow ==
    ASSUME NEW s \in SessionType
    PROVE  LET r == Deleted(s) IN
           /\ r \in SessionType /\ r.status = "deleted" /\ r.who = s.who /\ r.otp = s.otp
           /\ r.user = s.user /\ r.given = s.given /\ r.at = s.at
<1>1. "deleted" \in Statuses
  BY Zenon DEF Statuses
<1> QED  BY Zenon, <1>1, Zenon DEF Deleted, SessionType

(* A failed call is counted.                                               *)
LEMMA FaultStep ==
    ASSUME Fault, Types  PROVE faults' \in 0..MaxFaults /\ faults' >= faults /\ faults' > 0
BY AuthAssumption DEF Fault, Types

(* Steps that write neither codes nor users take nothing back.             *)
LEMMA KeptRepo == ASSUME UNCHANGED <<otp, user, password>>  PROVE Kept
BY Zenon DEF Kept

(* A request whose call to the store fails gives up what it holds.         *)
LEMMA RequestFailsStep ==
    ASSUME IInv, NEW h \in Handlers, RequestFails(h)
    PROVE  IInv'
<1>1. UNCHANGED <<now, otp, user, password, session, loggedOut, shared>> /\ req' = [req EXCEPT ![h] = Idle]
      /\ Types /\ Fault
  BY Zenon DEF RequestFails, Return, repo, history, IInv
<1>2. Becomes(h, Idle)
  BY Zenon, <1>1, FaultStep, RowFacts, KeptRepo DEF Becomes, Types
<1>3. Sound(h)'
  BY Zenon, <1>1, <1>2, RequestTypes, RowFacts DEF Sound
<1>4. UsersAreDistinct'
  BY Zenon, <1>1, UsersKept DEF IInv
<1>5. \A i \in Otps : otp'[i].attempts <= otp[i].attempts /\ ~Holding(Idle, i)
  BY Zenon, <1>1, RowFacts, AttemptsKept DEF Holding
<1> QED  BY Zenon, <1>1, <1>2, <1>3, <1>4, <1>5, RowFacts, PlainStep

(* Register and Login: the email has a password and a user before a        *)
(* session is asked for.                                                   *)
LEMMA EnterStep ==
    ASSUME IInv, NEW h \in Handlers, NEW e \in Emails, NEW pw \in Passwords \cup Weak,
           Register(h, e, pw) \/ Login(h, e, pw)
    PROVE  IInv'
<1> DEFINE u == user'[e]
           q == Entering(e, u, pw)
<1>1. /\ UNCHANGED <<now, otp, session, loggedOut, shared, faults>> /\ req[h].pc = "idle"
      /\ Types /\ UsersAreDistinct /\ e \in Identities /\ e \notin Phones
  BY Zenon, AuthAssumption DEF Register, Login, repo, history, IInv, At, Identities
<1>2. /\ user' \in [Identities -> UserIds] /\ u \in UserIds \ {0} /\ UsersAreDistinct'
      /\ \A v \in Identities : user[v] # 0 => user'[v] = user[v]
      /\ req' = [req EXCEPT ![h] = q]
      /\ password' \in [Emails -> Passwords \cup {Nobody}] /\ password'[e] = pw
      /\ \A d \in Emails : /\ password[d] # Nobody => password'[d] = password[d]
                           /\ password'[d] # password[d] => d = e
  <2>1. CASE Register(h, e, pw)
    <3>1. /\ user[e] = 0 /\ user' = [user EXCEPT ![e] = FreshUser] /\ pw \in Passwords
          /\ password' = [password EXCEPT ![e] = pw]
          /\ req' = [req EXCEPT ![h] = Entering(e, FreshUser, pw)]
      BY Zenon, <2>1 DEF Register, CreateUserWithPassword, Entering
    <3>2. /\ FreshUser \in UserIds \ {0} /\ UsersAreDistinct' /\ user' \in [Identities -> UserIds]
          /\ \A v \in Identities : user[v] # 0 => user'[v] = user[v]
      BY Zenon, <1>1, <3>1, NewUser
    <3>3. u = FreshUser
      BY Zenon, <1>1, <3>1 DEF Types
    <3>4. /\ password' \in [Emails -> Passwords \cup {Nobody}] /\ password'[e] = pw
          /\ \A d \in Emails : /\ password[d] # Nobody => password'[d] = password[d]
                               /\ password'[d] # password[d] => d = e
      BY Zenon, <1>1, <3>1 DEF Types, IInv, PasswordHasUser
    <3> QED  BY Zenon, <3>1, <3>2, <3>3, <3>4
  <2>2. CASE Login(h, e, pw)
    <3>1. /\ user[e] # 0 /\ password[e] = pw /\ UNCHANGED <<user, password>>
          /\ req' = [req EXCEPT ![h] = Entering(e, user[e], pw)]
      BY Zenon, <2>2 DEF Login, Enter, repo, Entering
    <3> QED  BY Zenon, <1>1, <3>1, UsersKept, AuthAssumption DEF Types
  <2> QED  BY Zenon, <2>1, <2>2
<1>3. /\ q \in RequestType /\ q.pc = "session" /\ q.who = e /\ q.otp = 0 /\ q.user = u
      /\ q.given = pw /\ pw # Nobody
  <2>1. pw # Nobody /\ u \in UserIds
    BY Zenon, <1>2, AuthAssumption
  <2> HIDE DEF u
  <2> QED  BY <2>1, EnteringRow
<1> HIDE DEF q
<1>4. Kept
  BY Zenon, <1>1, <1>2 DEF Kept
<1>5. 0 \notin Otps
  BY DEF Otps
<1>6. Becomes(h, q)
  BY <1>1, <1>2, <1>3, <1>4 DEF Becomes, Types, Opening
<1>7. Sound(h)'
  <2>1. req'[h] = q
    BY Zenon, <1>1, <1>6, RequestTypes
  <2> QED  BY ZenonT(60), <1>1, <1>2, <1>3, <2>1 DEF Sound, Claim, Proven
<1>8. \A i \in Otps : otp'[i].attempts <= otp[i].attempts /\ ~Holding(q, i)
  BY Zenon, <1>1, <1>3, <1>5, AttemptsKept DEF Holding
<1> QED  BY Zenon, <1>1, <1>2, <1>3, <1>6, <1>7, <1>8, PlainStep

(* ConsumeOTP: from here on the phone has been proven.                     *)
LEMMA ConsumeStep ==
    ASSUME IInv, NEW h \in Handlers, ConsumeOTP(h)
    PROVE  IInv'
<1> DEFINE i == req[h].otp
           q == Looking(req[h])
           row == Spent(otp[i])
<1>1. /\ UNCHANGED <<now, user, password, session, faults, loggedOut, shared>>
      /\ req[h].pc = "consume" /\ Types /\ Sound(h)
      /\ otp' = [otp EXCEPT ![i] = row] /\ req' = [req EXCEPT ![h] = q]
  BY Zenon DEF ConsumeOTP, At, history, IInv, Looking, Spent
<1>2. i \in Otps /\ req[h].who \in Phones /\ otp[i].phone = req[h].who /\ otp[i] \in OtpType
      /\ req[h] \in RequestType
      /\ otp[i].code = req[h].given /\ req[h].at < otp[i].expires
  BY Zenon, <1>1 DEF Sound, Types
<1>3. /\ q \in RequestType /\ q.pc = "upsert" /\ q.who = req[h].who /\ q.otp = i
      /\ q.given = req[h].given /\ q.at = req[h].at
  BY Zenon, <1>2, LookingRow
<1>4. /\ row \in OtpType /\ row.attempts = otp[i].attempts /\ row.phone = otp[i].phone
      /\ row.consumed = TRUE /\ row.code = otp[i].code /\ row.expires = otp[i].expires
  BY Zenon, <1>2, SpentRow, Zenon
<1> HIDE DEF q, row, i
<1>5. /\ otp' \in [Otps -> OtpType] /\ otp'[i] = row /\ \A j \in Otps : j # i => otp'[j] = otp[j]
  BY Zenon, <1>1, <1>2, <1>4 DEF Types
<1>6. Kept
  BY Zenon, <1>1, <1>4, <1>5 DEF Kept
<1>7. Becomes(h, q)
  BY <1>1, <1>3, <1>5, <1>6 DEF Becomes, Types, Opening
<1>8. Sound(h)'
  <2>1. req'[h] = q
    BY Zenon, <1>1, <1>7, RequestTypes
  <2> QED  BY Zenon, <1>2, <1>3, <1>4, <1>5, <2>1 DEF Sound, Claim, Proven
<1>9. UsersAreDistinct'
  BY Zenon, <1>1, UsersKept DEF IInv
<1>10. \A j \in Otps : /\ otp'[j].attempts <= otp[j].attempts
                       /\ Holding(q, j) => Holding(req[h], j)
  <2>1. \A j \in Otps : otp[j].attempts \in Nat
    BY Zenon, <1>1, OtpRow DEF Types
  <2> QED  BY <1>1, <1>3, <1>4, <1>5, <2>1 DEF Holding, i
<1> QED  BY Zenon, <1>1, <1>3, <1>7, <1>8, <1>9, <1>10, PlainStep

(* UpsertUserByPhone finds the phone's user or inserts one.                *)
LEMMA UpsertStep ==
    ASSUME IInv, NEW h \in Handlers, UpsertUserByPhone(h)
    PROVE  IInv'
<1> DEFINE w == req[h].who
           u == IF user[w] = 0 THEN FreshUser ELSE user[w]
           q == Found(req[h], u)
<1>1. /\ UNCHANGED <<now, otp, password, session, faults, loggedOut, shared>>
      /\ req[h].pc = "upsert" /\ Types /\ Sound(h) /\ UsersAreDistinct
      /\ user' = [user EXCEPT ![w] = u] /\ req' = [req EXCEPT ![h] = q]
  BY Zenon DEF UpsertUserByPhone, At, history, IInv, Found
<1>2. w \in Phones /\ w \in Identities /\ req[h] \in RequestType /\ req[h].otp \in Otps
      /\ Proven(w, req[h].otp, req[h].given, req[h].at)
  BY Zenon, <1>1 DEF Sound, Claim, Types, Identities
<1>3. /\ u \in UserIds \ {0} /\ UsersAreDistinct' /\ user' \in [Identities -> UserIds]
      /\ \A v \in Identities : user[v] # 0 => user'[v] = user[v]
      /\ user'[w] = u
  <2>1. CASE user[w] = 0
    <3>1. user' = [user EXCEPT ![w] = FreshUser]
      BY Zenon, <1>1, <2>1
    <3> QED  BY Zenon, <1>1, <1>2, <2>1, <3>1, NewUser, Zenon DEF Types
  <2>2. CASE user[w] # 0
    <3>1. user' = user
      BY Zenon, <1>1, <1>2, <2>2 DEF Types
    <3> QED  BY Zenon, <1>1, <1>2, <2>2, <3>1, UsersKept DEF Types
  <2> QED  BY Zenon, <2>1, <2>2
<1>4. /\ q \in RequestType /\ q.pc = "session" /\ q.who = w /\ q.otp = req[h].otp /\ q.user = u
      /\ q.given = req[h].given /\ q.at = req[h].at
  BY SMTT(60), ZenonT(60), <1>2, <1>3, FoundRow
<1> HIDE DEF q, u
<1>5. Kept
  BY Zenon, <1>1, <1>3 DEF Kept
<1>6. Becomes(h, q)
  BY SMTT(30), <1>1, <1>3, <1>4, <1>5 DEF Becomes, Types, Opening
<1>7. Sound(h)'
  <2>1. req'[h] = q
    BY Zenon, <1>1, <1>6, RequestTypes
  <2>2. \A v, i, c, n : v \in Identities /\ Proven(v, i, c, n) => Proven(v, i, c, n)'
    BY Zenon, <1>5, ProofStays
  <2> QED  BY Zenon, <1>2, <1>3, <1>4, <2>1, <2>2 DEF Sound, Claim
<1>8. \A i \in Otps : otp'[i].attempts <= otp[i].attempts /\ (Holding(q, i) => Holding(req[h], i))
  BY Zenon, <1>1, <1>4, AttemptsKept DEF Holding
<1> QED  BY Zenon, <1>1, <1>3, <1>4, <1>6, <1>7, <1>8, PlainStep

(* A wrong guess moves from the requests to the row: their sum stays.      *)
LEMMA IncrementStep ==
    ASSUME IInv, NEW h \in Handlers, IncrementOTPAttempts(h)
    PROVE  IInv'
<1> DEFINE i == req[h].otp
           row == Guessed(otp[i], otp[i].attempts + 1)
<1>1. /\ UNCHANGED <<now, user, password, session, faults, loggedOut, shared>>
      /\ req[h].pc = "increment" /\ Types /\ Sound(h)
      /\ otp' = [otp EXCEPT ![i] = row] /\ req' = [req EXCEPT ![h] = Idle]
  BY Zenon DEF IncrementOTPAttempts, Return, At, history, IInv, Guessed
<1>2. i \in Otps /\ otp[i] \in OtpType /\ otp[i].attempts \in Nat
  BY Zenon, <1>1, OtpRow DEF Sound, Types
<1>3. /\ row \in OtpType /\ row.attempts = otp[i].attempts + 1 /\ row.phone = otp[i].phone
      /\ row.consumed = otp[i].consumed /\ row.code = otp[i].code /\ row.expires = otp[i].expires
  <2>1. otp[i].attempts + 1 \in Nat
    BY <1>2
  <2> QED  BY Zenon, <1>2, <2>1, GuessedRow, Zenon
<1> HIDE DEF row, i
<1>4. /\ otp' \in [Otps -> OtpType] /\ otp'[i] = row /\ \A j \in Otps : j # i => otp'[j] = otp[j]
  BY Zenon, <1>1, <1>2, <1>3 DEF Types
<1>5. Kept
  BY Zenon, <1>1, <1>3, <1>4 DEF Kept
<1>6. Becomes(h, Idle)
  BY <1>1, <1>3, <1>4, <1>5, RowFacts DEF Becomes, Types, Opening
<1>7. /\ Types' /\ req'[h] = Idle /\ \A g \in Handlers : g # h => req'[g] = req[g]
  BY Zenon, <1>1, <1>6, RequestTypes
<1>8. Sound(h)' /\ UsersAreDistinct'
  BY Zenon, <1>1, <1>7, RowFacts, UsersKept DEF Sound, IInv
<1>9. SoleHolder'
  BY Zenon, <1>1, <1>7, RowFacts, HoldersKept DEF IInv, Holding
<1>10. GuessesReserved'
  <2>1. \A j \in Otps : Guessing(j)' = IF j = i THEN Guessing(j) \ {h} ELSE Guessing(j)
    BY Zenon, <1>1, <1>7, RowFacts DEF Guessing, At, i
  <2>2. \A j \in Otps : j # i =>
          otp'[j].attempts + Cardinality(Guessing(j)') < MaxAttempts + Cardinality(Handlers)
    BY Zenon, <1>4, <2>1 DEF IInv, GuessesReserved
  <2>3. Guessing(i) \subseteq Handlers /\ h \in Guessing(i) /\ IsFiniteSet(Handlers)
    BY Zenon, <1>1, AuthAssumption DEF Guessing, At, i
  <2>4. /\ Cardinality(Guessing(i) \ {h}) = Cardinality(Guessing(i)) - 1
        /\ Cardinality(Guessing(i)) \in Nat
    BY Zenon, <2>3, FS_Subset, FS_RemoveElement, FS_CardinalityType
  <2>5. otp[i].attempts + Cardinality(Guessing(i)) < MaxAttempts + Cardinality(Handlers)
    BY Zenon, <1>2 DEF IInv, GuessesReserved
  <2>6. otp'[i].attempts + Cardinality(Guessing(i) \ {h}) =
          otp[i].attempts + Cardinality(Guessing(i))
    BY <1>2, <1>3, <1>4, <2>4
  <2> QED  BY Zenon, <1>2, <2>1, <2>2, <2>5, <2>6 DEF GuessesReserved
<1> QED  BY Zenon, <1>6, <1>8, <1>9, <1>10, RequestStep

(* VerifyOTP reads the newest code: a right guess takes it up, a wrong one *)
(* is on its way to be counted, and two requests that take up one code at  *)
(* once are recorded as sharing it.                                        *)
LEMMA VerifyStep ==
    ASSUME IInv, NEW h \in Handlers, NEW p \in Phones, NEW c \in Codes, VerifyOTP(h, p, c)
    PROVE  IInv'
<1>1. /\ UNCHANGED <<now, otp, user, password, session, faults, loggedOut>>
      /\ req[h].pc = "idle" /\ Types
  BY Zenon DEF VerifyOTP, At, repo, IInv
<1>2. PICK i \in Live(p) :
         /\ ~Exhausted(i)
         /\ req' = [req EXCEPT ![h] =
                        Comparing(p, i, IF otp[i].code = c THEN "consume" ELSE "increment", c)]
         /\ shared' = IF otp[i].code = c /\ \E g \in Handlers : At(g, "consume") /\ req[g].otp = i
                        THEN shared \cup {i} ELSE shared
  BY Zenon DEF VerifyOTP, Comparing
<1> DEFINE l == IF otp[i].code = c THEN "consume" ELSE "increment"
           q == Comparing(p, i, l, c)
<1>3. i \in Otps /\ otp[i].phone = p /\ ~otp[i].consumed /\ otp[i].attempts \in Nat
      /\ otp[i].attempts < MaxAttempts /\ now < otp[i].expires
  BY <1>1, <1>2, OtpRow, AuthAssumption DEF Live, Exhausted, Types
<1>4. l \in PCs
  BY Zenon DEF PCs
<1>5. q \in RequestType /\ q.pc = l /\ q.who = p /\ q.otp = i /\ q.given = c /\ q.at = now
  <2> HIDE DEF l
  <2> QED  BY <1>1, <1>3, <1>4, ComparingRow DEF Types
<1> HIDE DEF q
<1>6. Becomes(h, q)
  <2>1. req' = [req EXCEPT ![h] = q] /\ shared' \in SUBSET Otps
    BY Zenon, <1>1, <1>2, <1>3 DEF Types, q
  <2> QED  BY <1>1, <1>5, <2>1, KeptRepo DEF Becomes, Types, Opening
<1>7. /\ Types' /\ req'[h] = q /\ \A g \in Handlers : g # h => req'[g] = req[g]
  BY Zenon, <1>1, <1>6, RequestTypes
<1>8. Sound(h)' /\ UsersAreDistinct'
  BY Zenon, <1>1, <1>3, <1>5, <1>7, UsersKept DEF Sound, IInv
<1>9. GuessesReserved'
  <2>1. ASSUME NEW j \in Otps, ~(j = i /\ l = "increment")
        PROVE  otp'[j].attempts + Cardinality(Guessing(j)') < MaxAttempts + Cardinality(Handlers)
    <3>1. Guessing(j)' \subseteq Guessing(j)
      BY Zenon, <1>5, <1>7, <2>1 DEF Guessing, At
    <3> QED  BY Zenon, <1>1, <3>1, AttemptsKept, OtpRow, GuessesStay DEF IInv, Types
  <2>2. otp'[i].attempts + Cardinality(Guessing(i)') < MaxAttempts + Cardinality(Handlers)
    <3>1. Guessing(i)' \subseteq Handlers /\ IsFiniteSet(Handlers)
      BY Zenon, AuthAssumption DEF Guessing
    <3>2. /\ Cardinality(Guessing(i)') <= Cardinality(Handlers)
          /\ Cardinality(Guessing(i)') \in Nat /\ Cardinality(Handlers) \in Nat
      BY Zenon, <3>1, FS_Subset, FS_CardinalityType
    <3> QED  BY SMTT(30), <1>1, <1>3, <3>2, AuthAssumption
  <2> QED  BY Zenon, <2>1, <2>2 DEF GuessesReserved
<1>10. SoleHolder'
  <2>1. ASSUME NEW j \in Otps, j \notin shared'
        PROVE  j \notin shared /\ \A g \in Handlers : Holding(req'[g], j) =>
                  \/ Holding(req[g], j)
                  \/ /\ g = h /\ \A f \in Handlers : ~Holding(req[f], j)
                     /\ \A t \in Tokens : session[t] # NoSession => session[t].otp # j
    <3>1. j \notin shared
      BY Zenon, <1>2, <2>1
    <3>2. ASSUME Holding(q, j)
          PROVE  /\ \A f \in Handlers : ~Holding(req[f], j)
                 /\ \A t \in Tokens : session[t] # NoSession => session[t].otp # j
      <4>1. j = i /\ l = "consume" /\ otp[i].code = c
        BY Zenon, <1>5, <3>2 DEF Holding
      <4>2. \A f \in Handlers : ~(req[f].pc = "consume" /\ req[f].otp = i)
        BY Zenon, <1>2, <2>1, <4>1 DEF At
      <4>3. \A w \in Identities : \A d, n : ~Proven(w, i, d, n)
        BY <1>3 DEF Proven, Otps
      <4>4. \A f \in Handlers : ~(req[f].pc \in {"upsert", "session"} /\ req[f].otp = i)
        BY Zenon, <4>3 DEF IInv, Sound, Claim, Identities
      <4>5. \A t \in Tokens : session[t] # NoSession => session[t].otp # i
        BY Zenon, <4>3 DEF IInv, Owned
      <4> QED  BY Zenon, <4>1, <4>2, <4>4, <4>5 DEF Holding
    <3> QED  BY Zenon, <1>7, <3>1, <3>2
  <2> SUFFICES ASSUME NEW j \in Otps, j \notin shared'  PROVE Sole(j)'
    BY Zenon DEF SoleHolder
  <2>2. Sole(j)
    BY Zenon, <2>1 DEF IInv, SoleHolder
  <2> QED  BY SMTT(30), <1>1, <2>1, <2>2 DEF Sole, Holds, Holding, Issued
<1> QED  BY Zenon, <1>6, <1>8, <1>9, <1>10, RequestStep

(* CreateSession hands the request's code and user over to a token.        *)
LEMMA CreateSessionStep ==
    ASSUME IInv, NEW h \in Handlers, CreateSession(h)
    PROVE  IInv'
<1> DEFINE row == [status |-> "live", user |-> req[h].user, expires |-> now + SessionTTL,
                   who |-> req[h].who, otp |-> req[h].otp,
                   given |-> req[h].given, at |-> req[h].at]
<1>1. /\ UNCHANGED <<now, otp, user, password, faults, loggedOut, shared>> /\ Kept
      /\ req[h].pc = "session" /\ Types /\ Sound(h) /\ req' = [req EXCEPT ![h] = Idle]
  BY Zenon, KeptRepo DEF CreateSession, At, Return, history, IInv
<1>2. PICK t \in Tokens : session[t] = NoSession /\ session' = [session EXCEPT ![t] = row]
  BY Zenon DEF CreateSession
<1>3. row \in SessionType /\ row # NoSession /\ row.status = "live" /\ row.user = req[h].user
      /\ row.who = req[h].who /\ row.otp = req[h].otp /\ row.given = req[h].given /\ row.at = req[h].at
  <2>1. req[h] \in RequestType /\ now \in 0..MaxTime /\ SessionTTL \in Nat /\ MaxTime \in Nat
    BY Zenon, <1>1, AuthAssumption DEF Types
  <2>2. now + SessionTTL \in 0..(MaxTime + SessionTTL)
    BY SMTT(30), <2>1
  <2> QED  BY SMTT(60), ZenonT(60), <2>1, <2>2, RowFacts DEF SessionType, RequestType, Statuses
<1> HIDE DEF row
<1>4. /\ session' \in [Tokens -> SessionType] /\ session'[t] = row
      /\ \A s \in Tokens : s # t => session'[s] = session[s]
      /\ req' \in [Handlers -> RequestType] /\ req'[h] = Idle
      /\ \A g \in Handlers : g # h => req'[g] = req[g]
  BY Zenon, <1>1, <1>2, <1>3, RowFacts DEF Types
<1>5. Types' /\ UsersAreDistinct'
  BY Zenon, <1>1, <1>4, UsersKept DEF IInv, Types
<1>6. \A g \in Handlers : Sound(g)'
  <2>1. Sound(h)'
    BY Zenon, <1>4, RowFacts DEF Sound
  <2> QED  BY Zenon, <1>1, <1>4, <2>1, SoundStays DEF IInv
<1>7. \A s \in Tokens : Owned(s)'
  <2>1. Owned(t)'
    <3>1. /\ req[h].who \in Identities /\ req[h].user # 0 /\ req[h].user = user[req[h].who]
          /\ Proven(req[h].who, req[h].otp, req[h].given, req[h].at)
      BY Zenon, <1>1 DEF Sound, Claim
    <3>2. \A w, i, c, n : w \in Identities /\ Proven(w, i, c, n) => Proven(w, i, c, n)'
      BY Zenon, <1>1, ProofStays
    <3> QED  BY Zenon, <1>1, <1>3, <1>4, <3>1, <3>2 DEF Owned
  <2> QED  BY Zenon, <1>1, <1>4, <2>1, OwnedStays DEF IInv
<1>8. GuessesReserved'
  <2>1. \A i \in Otps : Guessing(i)' \subseteq Guessing(i)
    BY Zenon, <1>4, RowFacts DEF Guessing, At
  <2> QED  BY Zenon, <1>1, <1>5, <2>1, AttemptsKept, GuessesKept DEF IInv
<1>9. SoleHolder'
  <2>1. \A g \in Handlers, i \in Otps : Holding(req'[g], i) => g # h /\ Holding(req[g], i)
    BY Zenon, <1>4, RowFacts DEF Holding
  <2>2. \A i \in Otps : row.otp = i => Holding(req[h], i)
    BY Zenon, <1>1, <1>3 DEF Holding
  <2> SUFFICES ASSUME NEW i \in Otps, i \notin shared  PROVE Sole(i)'
    BY Zenon, <1>1 DEF SoleHolder
  <2>3. Sole(i)
    BY Zenon DEF IInv, SoleHolder
  <2>4. \A s \in Tokens : session'[s] # NoSession /\ session'[s].otp = i =>
           \/ s # t /\ session[s] # NoSession /\ session[s].otp = i
           \/ s = t /\ Holding(req[h], i)
    BY Zenon, <1>4, <2>2
  <2> QED  BY SMTT(30), <2>1, <2>3, <2>4 DEF Sole, Holds, Holding, Issued
<1>10. ConsumedLogsIn'
  <2>1. \A s \in Issued : s \in Issued' /\ session'[s].otp = session[s].otp
    BY Zenon, <1>2, <1>4 DEF Issued
  <2>2. t \in Issued' /\ session'[t].otp = req[h].otp
    BY Zenon, <1>3, <1>4 DEF Issued
  <2> QED  BY <1>1, <1>4, <2>1, <2>2 DEF IInv, ConsumedLogsIn
<1>11. LogoutIsFinal' /\ PasswordHasUser'
  <2>1. LogoutIsFinal /\ session[t].status = "none" /\ row.status = "live"
    BY Zenon, <1>2, <1>3, RowFacts DEF IInv
  <2>2. \A s \in loggedOut : session'[s].status = "deleted" \/ faults' > 0
    BY <1>1, <1>4, <2>1 DEF LogoutIsFinal, Types
  <2>3. \A s \in Issued' : session'[s].status # "live" => s \in loggedOut
    BY Zenon, <1>4, <2>1 DEF LogoutIsFinal, Issued
  <2> QED  BY Zenon, <1>1, <2>2, <2>3, PasswordsStay DEF IInv, LogoutIsFinal
<1> QED  BY Zenon, <1>5, <1>6, <1>7, <1>8, <1>9, <1>10, <1>11 DEF IInv

(* RequestOTP stores a fresh code that nobody holds.                       *)
LEMMA RequestOTPStep ==
    ASSUME IInv, NEW p \in Phones, NEW c \in Codes, RequestOTP(p, c)
    PROVE  IInv'
<1> DEFINE row == [phone |-> p, code |-> c, attempts |-> 0, expires |-> now + OtpTTL,
                   consumed |-> FALSE]
<1>1. /\ UNCHANGED <<now, user, password, session, req, faults, loggedOut, shared>> /\ Types
  BY Zenon DEF RequestOTP, history, IInv
<1>2. PICK i \in Otps : otp[i] = NoOtp /\ otp' = [otp EXCEPT ![i] = row]
  BY Zenon DEF RequestOTP, InsertOTP
<1>3. row \in OtpType /\ row.attempts = 0 /\ row.consumed = FALSE
  <2>1. now \in 0..MaxTime
    BY Zenon, <1>1 DEF Types
  <2>2. now + OtpTTL \in 0..(MaxTime + OtpTTL)
    BY <2>1, AuthAssumption
  <2> QED  BY Zenon, <2>2 DEF OtpType
<1> HIDE DEF row
<1>4. /\ otp' \in [Otps -> OtpType] /\ otp'[i] = row /\ \A j \in Otps : j # i => otp'[j] = otp[j]
  BY Zenon, <1>1, <1>2, <1>3 DEF Types
<1>5. Kept
  BY Zenon, <1>1, <1>2, <1>4, RowFacts DEF Kept
<1>6. Types' /\ UsersAreDistinct'
  BY Zenon, <1>1, <1>4, UsersKept DEF IInv, Types
<1>7. (\A h \in Handlers : Sound(h)') /\ (\A t \in Tokens : Owned(t)')
  BY Zenon, <1>1, <1>5, SoundStays, OwnedStays DEF IInv
<1>8. GuessesReserved'
  <2>1. \A j \in Otps : otp[j].attempts \in Nat
    BY Zenon, <1>1, OtpRow DEF Types
  <2>2. \A j \in Otps : otp'[j].attempts <= otp[j].attempts /\ Guessing(j)' \subseteq Guessing(j)
    BY <1>1, <1>3, <1>4, <2>1 DEF Guessing, At
  <2> QED  BY Zenon, <1>1, <1>6, <2>2, GuessesKept DEF IInv
<1>9. SoleHolder' /\ LogoutIsFinal' /\ PasswordHasUser'
  <2>1. SoleHolder /\ LogoutIsFinal /\ PasswordHasUser
    BY Zenon DEF IInv
  <2> QED  BY Zenon, <1>1, <1>5, <2>1, HoldersKept, PasswordsStay DEF Issued, LogoutIsFinal
<1>10. ConsumedLogsIn'
  BY <1>1, <1>3, <1>4 DEF IInv, ConsumedLogsIn, Issued
<1> QED  BY Zenon, <1>6, <1>7, <1>8, <1>9, <1>10 DEF IInv

(* Logout ends the session of its token and no other.                      *)
LEMMA LogoutStep ==
    ASSUME IInv, NEW t \in Tokens, Logout(t)
    PROVE  IInv'
<1> DEFINE row == Deleted(session[t])
<1>1. /\ UNCHANGED <<now, otp, user, password, req, faults, shared>> /\ Types /\ Kept
      /\ session[t] # NoSession /\ session' = [session EXCEPT ![t] = row]
      /\ loggedOut' = loggedOut \cup {t}
  BY Zenon, KeptRepo DEF Logout, DeleteSession, Deleted, IInv
<1>2. /\ row \in SessionType /\ row.status = "deleted" /\ row.who = session[t].who
      /\ row.otp = session[t].otp /\ row.user = session[t].user
      /\ row.given = session[t].given /\ row.at = session[t].at
  BY Zenon, <1>1, DeletedRow DEF Types
<1> HIDE DEF row
<1>3. /\ session' \in [Tokens -> SessionType] /\ session'[t] = row /\ row # NoSession
      /\ \A s \in Tokens : s # t => session'[s] = session[s]
  BY Zenon, <1>1, <1>2, RowFacts DEF Types
<1>4. Types' /\ UsersAreDistinct'
  BY Zenon, <1>1, <1>3, UsersKept DEF IInv, Types
<1>5. \A h \in Handlers : Sound(h)'
  BY Zenon, <1>1, SoundStays DEF IInv
<1>6. \A s \in Tokens : Owned(s)'
  <2>1. Owned(t)'
    <3>1. \A w, i, c, n : w \in Identities /\ Proven(w, i, c, n) => Proven(w, i, c, n)'
      BY Zenon, <1>1, ProofStays
    <3> QED  BY Zenon, <1>1, <1>2, <1>3, <3>1 DEF IInv, Owned
  <2> QED  BY Zenon, <1>1, <1>3, <2>1, OwnedStays DEF IInv
<1>7. \A s \in Tokens : /\ session'[s] # NoSession <=> session[s] # NoSession
                        /\ session'[s].otp = session[s].otp
  BY Zenon, <1>1, <1>2, <1>3
<1>8. GuessesReserved'
  <2>1. \A j \in Otps : Guessing(j)' \subseteq Guessing(j)
    BY Zenon, <1>1 DEF Guessing, At
  <2> QED  BY Zenon, <1>1, <1>4, <2>1, AttemptsKept, GuessesKept DEF IInv
<1>9. SoleHolder'
  BY Zenon, <1>1, <1>7, HoldersKept DEF IInv
<1>10. ConsumedLogsIn'
  BY <1>1, <1>7 DEF IInv, ConsumedLogsIn, Issued
<1>11. LogoutIsFinal' /\ PasswordHasUser'
  <2>1. LogoutIsFinal /\ loggedOut \subseteq Tokens
    BY Zenon, <1>1 DEF IInv, Types
  <2>2. \A s \in loggedOut' : session'[s].status = "deleted" \/ faults' > 0
    BY <1>1, <1>2, <1>3, <2>1 DEF LogoutIsFinal
  <2>3. \A s \in Issued' : session'[s].status # "live" => s \in loggedOut'
    BY Zenon, <1>1, <1>3, <2>1 DEF LogoutIsFinal, Issued
  <2> QED  BY Zenon, <1>1, <2>2, <2>3, PasswordsStay DEF IInv, LogoutIsFinal
<1> QED  BY Zenon, <1>4, <1>5, <1>6, <1>8, <1>9, <1>10, <1>11 DEF IInv

(* Time passes, or a logout fails: its session stays as it is.             *)
LEMMA OutsideStep ==
    ASSUME IInv, \/ UNCHANGED vars \/ Tick \/ \E t \in Tokens : LogoutFails(t)
    PROVE  IInv'
<1>1. /\ UNCHANGED <<otp, user, password, session, req, shared>>
      /\ Types /\ Types' /\ faults' >= faults
      /\ loggedOut \subseteq loggedOut' /\ (loggedOut' = loggedOut \/ faults' > 0)
  <2>1. UNCHANGED <<otp, user, password, session, req, shared>> /\ Types
    BY Zenon DEF vars, repo, history, Tick, LogoutFails, IInv
  <2>2. now' \in 0..MaxTime /\ faults' \in 0..MaxFaults /\ faults' >= faults
    BY <2>1, FaultStep, AuthAssumption DEF vars, Tick, LogoutFails, Types
  <2>3. /\ loggedOut \subseteq loggedOut' /\ loggedOut' \subseteq Tokens
        /\ loggedOut' = loggedOut \/ faults' > 0
    BY Zenon, <2>1, FaultStep DEF vars, history, Tick, LogoutFails, Types
  <2> QED  BY Zenon, <2>1, <2>2, <2>3 DEF Types
<1>2. (\A h \in Handlers : Sound(h)') /\ (\A t \in Tokens : Owned(t)')
  BY Zenon, <1>1, KeptRepo, SoundStays, OwnedStays DEF IInv
<1>3. UsersAreDistinct'
  BY Zenon, <1>1, UsersKept DEF IInv
<1>4. GuessesReserved' /\ SoleHolder' /\ LogoutIsFinal' /\ PasswordHasUser'
  <2>1. GuessesReserved /\ SoleHolder /\ LogoutIsFinal /\ PasswordHasUser
    BY Zenon DEF IInv
  <2>2. \A i \in Otps : Guessing(i)' = Guessing(i)
    BY Zenon, <1>1 DEF Guessing, At
  <2>3. GuessesReserved'
    BY Zenon, <1>1, <2>1, <2>2 DEF GuessesReserved
  <2>4. LogoutIsFinal'
    <3>1. faults > 0 => faults' > 0
      BY SMTT(30), <1>1 DEF Types
    <3> QED  BY Zenon, <1>1, <2>1, <3>1 DEF Issued, LogoutIsFinal
  <2> QED  BY Zenon, <1>1, <2>1, <2>3, <2>4, HoldersKept, KeptRepo, PasswordsStay
<1>5. ConsumedLogsIn'
  <2>1. faults > 0 => faults' > 0
    BY SMTT(30), <1>1 DEF Types
  <2> QED  BY Zenon, <1>1, <2>1 DEF IInv, ConsumedLogsIn, Issued
<1> QED  BY Zenon, <1>1, <1>2, <1>3, <1>4, <1>5 DEF IInv

(* An empty database.                                                      *)
LEMMA AuthStart == ASSUME Init  PROVE IInv
<1>1. /\ now = 0 /\ faults = 0 /\ loggedOut = {} /\ shared = {}
      /\ user = [w \in Identities |-> 0] /\ password = [e \in Emails |-> Nobody]
      /\ \A i \in Otps : otp[i] = NoOtp
      /\ \A t \in Tokens : session[t] = NoSession
      /\ \A h \in Handlers : req[h] = Idle
  BY Zenon DEF Init
<1>2. Types
  <2>1. 0 \in UserIds
    BY SMTT(30), AuthAssumption, FS_CardinalityType DEF UserIds
  <2> QED  BY <1>1, <2>1, RowFacts, AuthAssumption DEF Init, Types
<1>3. \A i \in Otps : Guessing(i) = {}
  BY Zenon, <1>1, RowFacts DEF Guessing, At
<1>4. GuessesReserved
  <2>1. Cardinality(Handlers) \in Nat
    BY Zenon, AuthAssumption, FS_CardinalityType
  <2> QED  BY SMTT(30), <1>1, <1>3, <2>1, RowFacts, FS_EmptySet, AuthAssumption DEF GuessesReserved
<1>5. UsersAreDistinct
  <2>1. {w \in Identities : user[w] # 0} = {}
    BY Zenon, <1>1
  <2>2. FreshUser = 1
    BY <2>1, FS_EmptySet DEF FreshUser
  <2> QED  BY <1>1, <2>2 DEF UsersAreDistinct
<1> QED  BY Zenon, <1>1, <1>2, <1>4, <1>5, RowFacts
         DEF IInv, Sound, Owned, SoleHolder, Sole, Holds, Issued, ConsumedLogsIn, LogoutIsFinal,
             PasswordHasUser

(* Every step keeps the invariant.                                         *)
LEMMA AuthStep == ASSUME IInv, [Next]_vars  PROVE IInv'
BY Zenon, RequestOTPStep, VerifyStep, EnterStep, IncrementStep, ConsumeStep, UpsertStep,
   CreateSessionStep, LogoutStep, OutsideStep, RequestFailsStep DEF Next, Step

(* Logging in keeps its invariant and its two promises in every run.       *)
THEOREM LoginIsSound == Spec => [](AuthInv /\ SessionIsEarned /\ CodeIsSingleUse)
BY AuthStart, AuthStep, InvMeaning, PTL DEF Spec

(* A phone or an email has one user however its requests overlap; a code   *)
(* takes at most one guess per concurrent request past the cap; a consumed *)
(* code opens its session unless a call failed; only its own logout ends a *)
(* session, and what an answered logout ended stays ended unless a call    *)
(* failed.                                                                 *)
THEOREM LoginInvariant == Spec => []AuthInv
BY LoginIsSound, PTL

(* Every session that was ever issued was opened by a request that         *)
(* presented the code sent to its phone before that code expired, and has  *)
(* consumed it, or that presented the password of its email.               *)
THEOREM SessionsAreEarned == Spec => []SessionIsEarned
BY LoginIsSound, PTL

(* A code that no two requests held at once opens at most one session.     *)
THEOREM CodesAreSingleUse == Spec => []CodeIsSingleUse
BY LoginIsSound, PTL
===============================================================================
