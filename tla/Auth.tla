--------------------------------- MODULE Auth ---------------------------------
(***************************************************************************)
(* Logging in and out (internal/service/auth, AuthRepo and the handlers of *)
(* transport/http/auth.go): codes texted to a phone, passwords of email    *)
(* accounts, and server-side sessions.  Every repository call is its own   *)
(* transaction and requests run concurrently.                              *)
(*                                                                         *)
(* Hashes are taken to be injective; a code is a member of Codes.          *)
(***************************************************************************)
EXTENDS Integers, FiniteSets

CONSTANTS
    Phones, Emails,
    Codes,        \* the one-time codes
    Passwords,    \* passwords of at least minPasswordLen characters,
    Weak,         \*   and shorter ones
    Handlers,     \* concurrent requests
    MaxAttempts,  \* wrong guesses a code survives, 5 in the code
    OtpTTL, SessionTTL,
    MaxOtps,      \* bound: codes requested
    MaxTokens,    \* bound: sessions issued
    MaxTime,      \* bound: the clock
    MaxFaults,    \* bound: failed repository calls
    Nobody

Identities == Phones \cup Emails
Secrets == Codes \cup Passwords \cup Weak   \* what a request may present

ASSUME AuthAssumption ==
    /\ Phones \cap Emails = {} /\ Passwords \cap Weak = {}
    /\ Nobody \notin Identities \cup Codes \cup Passwords \cup Weak
    /\ IsFiniteSet(Identities) /\ IsFiniteSet(Handlers)
    /\ MaxAttempts \in Nat \ {0}
    /\ {OtpTTL, SessionTTL, MaxOtps, MaxTokens, MaxTime, MaxFaults} \subseteq Nat

VARIABLES
    now,
    otp,       \* otp_codes, in the order of created_at
    user,      \* users: the id of the row with that phone or email, 0 if none
    password,  \* users.password_hash of an email's row
    session,   \* sessions: what a token stands for; history: who opened it with which
               \*   code row, what they presented (given) and when that was compared (at)
    req,       \* each request: where it is, for whom, its code and its user, and the same
               \*   history
    faults,
    loggedOut, \* history: tokens whose logout was answered
    shared     \* history: codes a request accepted while another held them

repo == <<otp, user, password, session>>
history == <<loggedOut, shared>>
vars == <<now, repo, req, faults, history>>

Otps == 1..MaxOtps
Tokens == 1..MaxTokens
UserIds == 0..Cardinality(Identities)
NoOtp == [phone |-> Nobody, code |-> Nobody, attempts |-> 0, expires |-> 0, consumed |-> FALSE]
NoSession == [status |-> "none", user |-> 0, expires |-> 0, who |-> Nobody, otp |-> 0,
              given |-> Nobody, at |-> 0]
Idle == [pc |-> "idle", who |-> Nobody, otp |-> 0, user |-> 0, given |-> Nobody, at |-> 0]

AuthTypeOK ==
    /\ now \in 0..MaxTime
    /\ otp \in [Otps -> [phone : Phones \cup {Nobody}, code : Codes \cup {Nobody},
                         attempts : Nat, expires : 0..(MaxTime + OtpTTL), consumed : BOOLEAN]]
    /\ user \in [Identities -> UserIds]
    /\ password \in [Emails -> Passwords \cup {Nobody}]
    /\ session \in [Tokens -> [status : {"none", "live", "deleted"}, user : UserIds,
                               expires : 0..(MaxTime + SessionTTL),
                               who : Identities \cup {Nobody}, otp : 0..MaxOtps,
                               given : Secrets \cup {Nobody}, at : 0..MaxTime]]
    /\ req \in [Handlers -> [pc : {"idle", "increment", "consume", "upsert", "session"},
                             who : Identities \cup {Nobody}, otp : 0..MaxOtps,
                             user : UserIds, given : Secrets \cup {Nobody},
                             at : 0..MaxTime]]
    /\ faults \in 0..MaxFaults
    /\ loggedOut \in SUBSET Tokens /\ shared \in SUBSET Otps

Init ==
    /\ now = 0
    /\ otp = [i \in Otps |-> NoOtp]
    /\ user = [w \in Identities |-> 0]
    /\ password = [e \in Emails |-> Nobody]
    /\ session = [t \in Tokens |-> NoSession]
    /\ req = [h \in Handlers |-> Idle]
    /\ faults = 0
    /\ loggedOut = {} /\ shared = {}

-------------------------------------------------------------------------------
Tick ==
    /\ now < MaxTime
    /\ now' = now + 1
    /\ UNCHANGED <<repo, req, faults, history>>

At(h, l) == req[h].pc = l
Return(h) == req' = [req EXCEPT ![h] = Idle]

(* A row id nobody has.                                                    *)
FreshUser == 1 + Cardinality({w \in Identities : user[w] # 0})

InsertOTP(p, c) ==
    \E i \in Otps :
        /\ otp[i] = NoOtp /\ \A j \in Otps : otp[j] = NoOtp => i <= j
        /\ otp' = [otp EXCEPT ![i] =
                      [phone |-> p, code |-> c, attempts |-> 0, expires |-> now + OtpTTL,
                       consumed |-> FALSE]]

(* RequestOTP stores a random code; the text message that follows changes  *)
(* nothing here.                                                           *)
RequestOTP(p, c) ==
    /\ InsertOTP(p, c)
    /\ UNCHANGED <<now, user, password, session, req, faults, history>>

\* Mutant: consumed codes are looked up as well.
LiveSpent(p) == {i \in Otps : otp[i].phone = p /\ otp[i].expires > now}

Live(p) ==
    {i \in Otps : otp[i].phone = p /\ ~otp[i].consumed /\ otp[i].expires > now}

\* Mutant: one guess too many.
OverCap(i) == otp[i].attempts > MaxAttempts

Exhausted(i) == otp[i].attempts >= MaxAttempts

(* VerifyOTP reads the newest live code and compares.                      *)
VerifyOTP(h, p, c) ==
    /\ At(h, "idle")
    /\ \E i \in Live(p) :
       /\ \A j \in Live(p) : j <= i
       /\ ~Exhausted(i)
       /\ req' = [req EXCEPT ![h] =
                     [Idle EXCEPT !.pc = IF otp[i].code = c THEN "consume" ELSE "increment",
                                  !.who = p, !.otp = i, !.given = c, !.at = now]]
       /\ shared' = IF otp[i].code = c /\ \E g \in Handlers : At(g, "consume") /\ req[g].otp = i
                      THEN shared \cup {i} ELSE shared
    /\ UNCHANGED <<now, repo, faults, loggedOut>>

IncrementOTPAttempts(h) ==
    /\ At(h, "increment")
    /\ otp' = [otp EXCEPT ![req[h].otp].attempts = @ + 1]
    /\ Return(h)
    /\ UNCHANGED <<now, user, password, session, faults, history>>

ConsumeOTP(h) ==
    /\ At(h, "consume")
    /\ otp' = [otp EXCEPT ![req[h].otp].consumed = TRUE]
    /\ req' = [req EXCEPT ![h].pc = "upsert"]
    /\ UNCHANGED <<now, user, password, session, faults, history>>

(* INSERT ... ON CONFLICT (phone) DO UPDATE ... RETURNING the row.         *)
UpsertUserByPhone(h) ==
    LET u == IF user[req[h].who] = 0 THEN FreshUser ELSE user[req[h].who] IN
    /\ At(h, "upsert")
    /\ user' = [user EXCEPT ![req[h].who] = u]
    /\ req' = [req EXCEPT ![h] = [@ EXCEPT !.pc = "session", !.user = u]]
    /\ UNCHANGED <<now, otp, password, session, faults, history>>

(* A taken email is refused by the unique index.                           *)
CreateUserWithPassword(h, e, pw) ==
    /\ user[e] = 0
    /\ user' = [user EXCEPT ![e] = FreshUser]
    /\ password' = [password EXCEPT ![e] = pw]
    /\ req' = [req EXCEPT ![h] = [Idle EXCEPT !.pc = "session", !.who = e,
                                                !.user = FreshUser, !.given = pw]]

(* Register: a weak password is refused.                                   *)
Register(h, e, pw) ==
    /\ At(h, "idle")
    /\ pw \notin Weak
    /\ CreateUserWithPassword(h, e, pw)
    /\ UNCHANGED <<now, otp, session, faults, history>>

(* UserByEmail found the row; a session is asked for.                      *)
Enter(h, e, pw) ==
    req' = [req EXCEPT ![h] = [Idle EXCEPT !.pc = "session", !.who = e, !.user = user[e],
                                           !.given = pw]]

\* Mutant: the password is not compared.
LoginUnchecked(h, e, pw) ==
    /\ At(h, "idle")
    /\ user[e] # 0
    /\ Enter(h, e, pw)
    /\ UNCHANGED <<now, repo, faults, history>>

Login(h, e, pw) ==
    /\ At(h, "idle")
    /\ user[e] # 0
    /\ password[e] = pw
    /\ Enter(h, e, pw)
    /\ UNCHANGED <<now, repo, faults, history>>

(* issueSession: a fresh token.                                            *)
CreateSession(h) ==
    /\ At(h, "session")
    /\ \E t \in Tokens :
          /\ session[t] = NoSession /\ \A s \in Tokens : session[s] = NoSession => t <= s
          /\ session' = [session EXCEPT ![t] =
                            [status |-> "live", user |-> req[h].user,
                             expires |-> now + SessionTTL,
                             who |-> req[h].who, otp |-> req[h].otp,
                             given |-> req[h].given, at |-> req[h].at]]
    /\ Return(h)
    /\ UNCHANGED <<now, otp, user, password, faults, history>>

DeleteSession(t) == session' = [session EXCEPT ![t].status = "deleted"]

(* Logout: the cookie is cleared whatever DeleteSession answers.           *)
Logout(t) ==
    /\ session[t] # NoSession
    /\ DeleteSession(t)
    /\ loggedOut' = loggedOut \cup {t}
    /\ UNCHANGED <<now, otp, user, password, req, faults, shared>>

-------------------------------------------------------------------------------
Fault == faults < MaxFaults /\ faults' = faults + 1

(* The DELETE fails; the handler clears the cookie and answers all the     *)
(* same.                                                                   *)
LogoutFails(t) ==
    /\ Fault
    /\ session[t] # NoSession
    /\ loggedOut' = loggedOut \cup {t}
    /\ UNCHANGED <<now, repo, req, shared>>

(* A failed call ends the request; a failed count of an attempt is passed  *)
(* over, with the same answer.                                             *)
RequestFails(h) ==
    /\ Fault
    /\ ~At(h, "idle")
    /\ Return(h)
    /\ UNCHANGED <<now, repo, history>>

Step(h) ==
    \/ IncrementOTPAttempts(h) \/ ConsumeOTP(h) \/ UpsertUserByPhone(h) \/ CreateSession(h)

Next ==
    \/ Tick
    \/ \E p \in Phones, c \in Codes : RequestOTP(p, c)
    \/ \E h \in Handlers, p \in Phones, c \in Codes : VerifyOTP(h, p, c)
    \/ \E h \in Handlers, e \in Emails, pw \in Passwords \cup Weak : Register(h, e, pw)
    \/ \E h \in Handlers, e \in Emails, pw \in Passwords \cup Weak : Login(h, e, pw)
    \/ \E h \in Handlers : Step(h)
    \/ \E t \in Tokens : Logout(t)
    \/ \E t \in Tokens : LogoutFails(t)
    \/ \E h \in Handlers : RequestFails(h)

Spec == Init /\ [][Next]_vars

-------------------------------------------------------------------------------
Issued == {t \in Tokens : session[t] # NoSession}

(* What entitles a phone or an email to a session: the request presented   *)
(* the very code that was sent to that phone, before it expired, and the   *)
(* code is spent; or it presented the password of the email.               *)
Proven(w, i, given, at) ==
    IF w \in Phones
      THEN /\ i \in Otps /\ otp[i].phone = w /\ otp[i].code = given
           /\ at < otp[i].expires /\ otp[i].consumed
      ELSE i = 0 /\ given # Nobody /\ password[w] = given

(* Every session was opened by a request that presented what its phone or  *)
(* email asks for, however many requests, codes and failures came between  *)
(* the comparison in VerifyOTP or Login and the session's row.             *)
SessionIsEarned ==
    \A t \in Issued : Proven(session[t].who, session[t].otp, session[t].given, session[t].at)

(* Concurrent first logins never make two users of one phone or email, nor *)
(* one user of two.                                                        *)
OneUserPerIdentity ==
    \A s, t \in Issued : session[s].user = session[t].user <=> session[s].who = session[t].who

(* The attempt cap, with requests racing between the check and the count:  *)
(* a code takes no more wrong guesses than the cap and one for each other  *)
(* request under way.                                                      *)
AttemptsBounded ==
    \A i \in Otps : otp[i].attempts < MaxAttempts + Cardinality(Handlers)

(* A code that has been consumed logs its user in, also one who exists     *)
(* already: unless a call fails, there is a session for it or a request    *)
(* about to open one.                                                      *)
ConsumedLogsIn ==
    \A i \in Otps : otp[i].consumed =>
        \/ \E t \in Issued : session[t].otp = i
        \/ \E h \in Handlers : req[h].pc \in {"upsert", "session"} /\ req[h].otp = i
        \/ faults > 0

(* The test's comment: the code is single-use.  It opens one session,      *)
(* unless a second request compares it before the first has consumed it.   *)
CodeIsSingleUse ==
    \A s, t \in Issued :
        session[s].otp = session[t].otp /\ session[s].otp \notin shared \cup {0} => s = t

(* Only its own logout ends a session before it expires: no other login,   *)
(* logout or code of the user does.  And a logout the handler answered is  *)
(* final: its session never serves again, unless the DELETE failed, which  *)
(* the handler passes over.                                                *)
LogoutIsFinal ==
    /\ \A t \in Issued : session[t].status # "live" => t \in loggedOut
    /\ \A t \in loggedOut : session[t].status = "deleted" \/ faults > 0

(* The id of a new row is one no other row has.                            *)
UsersAreDistinct ==
    /\ \A v, w \in Identities : user[v] = user[w] /\ user[v] # 0 => v = w
    /\ \A w \in Identities : user[w] < FreshUser

(* Only a row has a password, so a second Register finds it taken.         *)
PasswordHasUser == \A e \in Emails : password[e] # Nobody => user[e] # 0

(* What a request has found out when it comes to its next call: the code   *)
(* it was given is its phone's, and the user it opens a session for is the *)
(* row of a phone or an email that is entitled to it.                      *)
Claim(h) == Proven(req[h].who, req[h].otp, req[h].given, req[h].at)
RequestIsEarned ==
    \A h \in Handlers :
        /\ req[h].pc \in {"increment", "consume", "upsert"} =>
              /\ req[h].who \in Phones /\ req[h].otp \in Otps
              /\ otp[req[h].otp].phone = req[h].who
        /\ At(h, "consume") => /\ otp[req[h].otp].code = req[h].given
                               /\ req[h].at < otp[req[h].otp].expires
        /\ At(h, "upsert") => Claim(h)
        /\ At(h, "session") =>
              /\ req[h].who \in Identities /\ req[h].user # 0
              /\ req[h].user = user[req[h].who]
              /\ Claim(h)

(* A session is its phone's or its email's user's.                         *)
SessionHasUser ==
    \A t \in Issued : /\ session[t].who \in Identities /\ session[t].user # 0
                      /\ session[t].user = user[session[t].who]

(* The guesses a code has taken and the ones on their way to be counted:   *)
(* a request only guesses while the cap is not reached.                    *)
Guessing(i) == {h \in Handlers : At(h, "increment") /\ req[h].otp = i}
GuessesReserved ==
    \A i \in Otps :
        otp[i].attempts + Cardinality(Guessing(i)) < MaxAttempts + Cardinality(Handlers)

(* A code that no two requests compared at once is held by one request or  *)
(* one session.                                                            *)
Holds(h, i) == req[h].pc \in {"consume", "upsert", "session"} /\ req[h].otp = i
Sole(i) ==
    /\ \A g, h \in Handlers : Holds(g, i) /\ Holds(h, i) => g = h
    /\ \A h \in Handlers, t \in Issued : Holds(h, i) => session[t].otp # i
    /\ \A s, t \in Issued : session[s].otp = i /\ session[t].otp = i => s = t
SoleHolder == \A i \in Otps \ shared : Sole(i)

(* What holds of users, codes and sessions at every moment.                *)
AuthInv ==
    /\ AuthTypeOK
    /\ UsersAreDistinct
    /\ PasswordHasUser
    /\ RequestIsEarned
    /\ SessionHasUser
    /\ GuessesReserved
    /\ SoleHolder
    /\ OneUserPerIdentity
    /\ AttemptsBounded
    /\ ConsumedLogsIn
    /\ LogoutIsFinal
===============================================================================
