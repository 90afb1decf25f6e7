----------------------------- MODULE AuthServer -----------------------------
(***************************************************************************)
(* Sign-up, one-time codes, passwords and sessions: AuthService            *)
(* (auth/auth-service.ts) over its store (in-memory-auth-store.ts, and     *)
(* pg-auth-store.ts with the same compare-and-set updates).                *)
(*                                                                         *)
(* A handler in flight is a record in calls, whose pc names the await it   *)
(* is at; store methods are atomic.  A phone stands for its account.  A    *)
(* refresh token is the session and the number of rotations before it: the *)
(* store keeps one hash per session, so only the last token of a session   *)
(* is ever found.  Codes and tokens are never guessed.                     *)
(***************************************************************************)
EXTENDS Integers, FiniteSets

CONSTANTS Phones, Parties, Codes, Sessions, Devices, Requests,
          Calls,           \* slots for handlers in flight
          OtpMaxPerHour,   \* cfg.otpMaxPerHour
          MaxRotations,    \* bound on the rotations of one session
          Environments     \* the environments behaviours may start in

\* What clients and users do in a behaviour, and what may go wrong in it.
Doings == {"register", "code", "reset", "client", "sign_out", "block", "expire"}
FaultKinds == {"store_error", "lost_ack", "lost_answer", "kill"}

ASSUME AuthServerAssumption ==
    /\ Calls \subseteq Nat /\ Sessions \subseteq Nat /\ Parties \subseteq Nat
    /\ Codes \subseteq Nat \ {0}
    /\ Calls # {} /\ Parties # {}
    /\ IsFiniteSet(Calls) /\ IsFiniteSet(Codes)
    /\ OtpMaxPerHour \in Nat
    /\ MaxRotations \in Nat
    /\ Environments \subseteq [doings : SUBSET Doings, faults : SUBSET FaultKinds,
                               web : BOOLEAN, devices : SUBSET Devices,
                               requests : SUBSET Requests]

\* "none" is the device of a session that no app opened.
ASSUME DevicesAssumption == IsFiniteSet(Devices) /\ "none" \notin Devices

VARIABLES env,       \* the environment, never changed
          parties,   \* customers created in the registry
          users,     \* app_users: phone -> row
          otps,      \* otp_codes: code -> row
          sessions,  \* sessions: id -> row
          uses,      \* token -> how often it was exchanged for the next
          calls      \* handlers in flight

serverVars == <<env, parties, users, otps, sessions, uses, calls>>

NoUser == [status |-> "none"]
User == [status : {"active", "blocked"}, verified : BOOLEAN, password : Nat, party : Parties]

\* recent: created in the last hour.  A code that was saved but not sent is
\* known to nobody.
NoOtp == [status |-> "none"]
Otp == [status : {"saved", "sent", "consumed", "expired"}, phone : Phones, recent : BOOLEAN]

NoCode == 0
NoSession == [status |-> "none"]
Session == [status : {"live", "revoked"}, expired : BOOLEAN, phone : Phones,
            rotations : Nat, code : Codes \cup {NoCode}, device : Devices \cup {"none"}]

Token == Sessions \X (0..MaxRotations)
NoToken == <<>>

Nobody == <<>>
Idle == [pc |-> "idle"]

\* for: the device that waits for the answer, and in which of its activities.
Activities == {"enter", "refresh", "leave"}
Waiting == (Devices \X Activities) \cup {Nobody}

CallStates ==
    [pc : {"reg.party", "otp.count", "otp.save"}, phone : Phones, for : {Nobody}]
    \cup [pc : {"reg.user"}, phone : Phones, party : Parties, for : {Nobody}]
    \cup [pc : {"otp.send"}, phone : Phones, code : Codes, for : {Nobody}]
    \cup [pc : {"code.consume", "reset.password", "code.mark", "session.create"},
          phone : Phones, code : Codes \cup {NoCode}, reset : BOOLEAN,
          verified : BOOLEAN, for : Waiting]
    \cup [pc : {"refresh.user", "refresh.revoke", "refresh.rotate", "logout.revoke"},
          token : Token, for : Waiting]
    \cup [pc : {"reply"}, for : Waiting, ok : BOOLEAN, token : Token \cup {NoToken}]

-----------------------------------------------------------------------------
(* Handlers and awaits *)

At(c, pc) == calls[c].pc = pc
\* Slots, and fresh ids, codes and sessions, are taken in order: their names mean nothing.
First(S) == {x \in S : \A y \in S : x <= y}
Free(c) == c \in First({b \in Calls : calls[b] = Idle})

\* Who waits for the answer of c.
For(c) == IF calls[c] = Idle THEN Nobody ELSE calls[c].for
Starts(c, state) == calls' = [calls EXCEPT ![c] = state]
GoesTo(c, pc) == calls' = [calls EXCEPT ![c].pc = pc]
MayHappen(fault) == fault \in env.faults
Doing(d) == d \in env.doings

\* The handler answers; nobody may be waiting for it any more.
Answers(c, ok, token) ==
    Starts(c, IF calls[c].for = Nobody THEN Idle
              ELSE [pc |-> "reply", for |-> calls[c].for, ok |-> ok, token |-> token])
Throws(c) == Answers(c, FALSE, NoToken)

\* An awaited write resolves, or it throws without effect or after it.
AwaitsWrite(write, same, resolves, throws) ==
    \/ write /\ resolves
    \/ MayHappen("lost_ack") /\ write /\ throws
    \/ MayHappen("store_error") /\ same /\ throws

-----------------------------------------------------------------------------
(* registerCustomer: look up, create the party, create the user, send a code *)

Register(c, p) ==
    /\ Doing("register")
    /\ Free(c)
    /\ users[p] = NoUser
    /\ Starts(c, [pc |-> "reg.party", phone |-> p, for |-> Nobody])
    /\ UNCHANGED <<env, parties, users, otps, sessions, uses>>

\* createCustomerParty: an id that is taken is drawn again.
CreateParty(c) ==
    /\ At(c, "reg.party")
    /\ \E party \in First(Parties \ parties) :
          AwaitsWrite(parties' = parties \cup {party}, UNCHANGED parties,
                      Starts(c, [pc |-> "reg.user", phone |-> calls[c].phone,
                                 party |-> party, for |-> Nobody]),
                      Throws(c))
    /\ UNCHANGED <<env, users, otps, sessions, uses>>

NewUser(party) == [status |-> "active", verified |-> FALSE, password |-> 0, party |-> party]

\* createUser: the phone is unique; the loser's party stays without a login.
CreateUser(c) ==
    /\ At(c, "reg.user")
    /\ LET p == calls[c].phone
       IN IF users[p] # NoUser
          THEN UNCHANGED users /\ Throws(c)
          ELSE AwaitsWrite(users' = [users EXCEPT ![p] = NewUser(calls[c].party)],
                           UNCHANGED users,
                           Starts(c, [pc |-> "otp.count", phone |-> p, for |-> Nobody]),
                           Throws(c))
    /\ UNCHANGED <<env, parties, otps, sessions, uses>>

-----------------------------------------------------------------------------
(* issueOtp: count, save, send *)

\* requestOtp, and requestPasswordReset for an account that exists.
RequestOtp(c, p) ==
    /\ Doing("code")
    /\ Free(c)
    /\ users[p].status = "active"
    /\ Starts(c, [pc |-> "otp.count", phone |-> p, for |-> Nobody])
    /\ UNCHANGED <<env, parties, users, otps, sessions, uses>>

RecentCodes(p) == {k \in Codes : otps[k] # NoOtp /\ otps[k].phone = p /\ otps[k].recent}

\* Mutant of CountOtps: the limit itself is still let through.
CountOtpsOffByOne(c) ==
    /\ At(c, "otp.count")
    /\ IF Cardinality(RecentCodes(calls[c].phone)) > OtpMaxPerHour
       THEN Throws(c) ELSE GoesTo(c, "otp.save")
    /\ UNCHANGED <<env, parties, users, otps, sessions, uses>>

\* A verifier limits its own codes (Twilio Verify).
CountOtps(c) ==
    /\ At(c, "otp.count")
    /\ IF Cardinality(RecentCodes(calls[c].phone)) >= OtpMaxPerHour
       THEN Throws(c) ELSE GoesTo(c, "otp.save")
    /\ UNCHANGED <<env, parties, users, otps, sessions, uses>>

SaveOtp(c) ==
    /\ At(c, "otp.save")
    /\ \E k \in First({k \in Codes : otps[k] = NoOtp}) :
          AwaitsWrite(otps' = [otps EXCEPT ![k] = [status |-> "saved", recent |-> TRUE,
                                                   phone |-> calls[c].phone]],
                      UNCHANGED otps,
                      Starts(c, [pc |-> "otp.send", phone |-> calls[c].phone,
                                 code |-> k, for |-> Nobody]),
                      Throws(c))
    /\ UNCHANGED <<env, parties, users, sessions, uses>>

\* The sender may fail: the code counts and nobody has it.
SendOtp(c) ==
    /\ At(c, "otp.send")
    /\ \/ otps' = [otps EXCEPT ![calls[c].code].status =
                      IF @ = "saved" THEN "sent" ELSE @]
       \/ MayHappen("lost_answer") /\ UNCHANGED otps
    /\ Throws(c)
    /\ UNCHANGED <<env, parties, users, sessions, uses>>

\* An hour passes without a new code for p; codes live shorter than that.
HourPasses(p) ==
    /\ Doing("expire")
    /\ RecentCodes(p) # {}
    /\ otps' = [k \in Codes |->
          IF k \notin RecentCodes(p) THEN otps[k]
          ELSE [otps[k] EXCEPT !.recent = FALSE,
                               !.status = IF @ = "consumed" THEN @ ELSE "expired"]]
    /\ UNCHANGED <<env, parties, users, sessions, uses, calls>>

-----------------------------------------------------------------------------
(* verifyOtp and resetPassword: consume the code, then a session *)

\* Where a handler is once a code or a password was accepted.
PastCode == {"reset.password", "code.mark", "session.create"}

\* Bound: no more logins are begun than there are sessions left for them.
LoginsLeft ==
    Cardinality({s \in Sessions : sessions[s] = NoSession}) >
    Cardinality({c \in Calls : At(c, "code.consume") \/ calls[c].pc \in PastCode})

\* The account is read first; whether it was verified is remembered.
EnterCode(c, p, k, reset, for) ==
    /\ Free(c)
    /\ LoginsLeft
    /\ users[p].status = "active"
    /\ otps[k].status \in {"sent", "consumed", "expired"}
    /\ Starts(c, [pc |-> "code.consume", phone |-> p, code |-> k, reset |-> reset,
                  verified |-> users[p].verified, for |-> for])
    /\ UNCHANGED <<env, parties, users, otps, sessions, uses>>

AfterCode(c) ==
    IF calls[c].reset THEN "reset.password"
    ELSE IF calls[c].verified THEN "session.create" ELSE "code.mark"

\* consumeOtp, or the verifier's check, whose every failure reads as a wrong code.
ConsumeOtp(c) ==
    /\ At(c, "code.consume")
    /\ LET k == calls[c].code
       IN IF otps[k].phone = calls[c].phone /\ otps[k].status = "sent"
          THEN AwaitsWrite(otps' = [otps EXCEPT ![k].status = "consumed"],
                           UNCHANGED otps, GoesTo(c, AfterCode(c)), Throws(c))
          ELSE UNCHANGED otps /\ Throws(c)
    /\ UNCHANGED <<env, parties, users, sessions, uses>>

\* setPasswordHash; a password is the number of resets before it.
SetPassword(c) ==
    /\ At(c, "reset.password")
    /\ AwaitsWrite(users' = [users EXCEPT ![calls[c].phone].password = @ + 1],
                   UNCHANGED users,
                   GoesTo(c, IF calls[c].verified THEN "session.create" ELSE "code.mark"),
                   Throws(c))
    /\ UNCHANGED <<env, parties, otps, sessions, uses>>

MarkPhoneVerified(c) ==
    /\ At(c, "code.mark")
    /\ AwaitsWrite(users' = [users EXCEPT ![calls[c].phone].verified = TRUE],
                   UNCHANGED users, GoesTo(c, "session.create"), Throws(c))
    /\ UNCHANGED <<env, parties, otps, sessions, uses>>

-----------------------------------------------------------------------------
(* Sessions: start, refresh by rotation, revoke *)

\* loginWithPassword: the password is right and the account is not blocked.
LoginWithPassword(c, p, for) ==
    /\ Free(c) /\ LoginsLeft
    /\ users[p].status = "active"
    /\ Starts(c, [pc |-> "session.create", phone |-> p, code |-> NoCode, reset |-> FALSE,
                  verified |-> users[p].verified, for |-> for])
    /\ UNCHANGED <<env, parties, users, otps, sessions, uses>>

\* startSession, for the user read when the handler started.
CreateSession(c) ==
    /\ At(c, "session.create")
    /\ \E s \in First({s \in Sessions : sessions[s] = NoSession}) :
          AwaitsWrite(sessions' = [sessions EXCEPT ![s] =
                         [status |-> "live", expired |-> FALSE, phone |-> calls[c].phone,
                          rotations |-> 0, code |-> calls[c].code,
                          device |-> IF calls[c].for = Nobody THEN "none" ELSE calls[c].for[1]]],
                      UNCHANGED sessions,
                      Answers(c, TRUE, <<s, 0>>), Throws(c))
    /\ UNCHANGED <<env, parties, users, otps, uses>>

\* getSessionByRefreshHash
Found(token) ==
    /\ token # NoToken
    /\ sessions[token[1]] # NoSession
    /\ sessions[token[1]].rotations = token[2]

\* The start of refresh(); the session is read here, the account later.
Refresh(c, token, for) ==
    /\ Free(c)
    /\ Starts(c, IF /\ Found(token)
                    /\ sessions[token[1]].status = "live" /\ ~sessions[token[1]].expired
                 THEN [pc |-> "refresh.user", token |-> token, for |-> for]
                 ELSE [pc |-> "reply", for |-> for, ok |-> FALSE, token |-> NoToken])
    /\ UNCHANGED <<env, parties, users, otps, sessions, uses>>

RefreshUser(c) ==
    /\ At(c, "refresh.user")
    /\ GoesTo(c, IF users[sessions[calls[c].token[1]].phone].status = "blocked"
                 THEN "refresh.revoke" ELSE "refresh.rotate")
    /\ UNCHANGED <<env, parties, users, otps, sessions, uses>>

\* revokeSession: only a session that is not revoked yet.
RevokeSession(c) ==
    /\ calls[c].pc \in {"refresh.revoke", "logout.revoke"}
    /\ AwaitsWrite(sessions' = [sessions EXCEPT ![calls[c].token[1]].status = "revoked"],
                   UNCHANGED sessions, Answers(c, At(c, "logout.revoke"), NoToken), Throws(c))
    /\ UNCHANGED <<env, parties, users, otps, uses>>

NextToken(token) == <<token[1], token[2] + 1>>

\* Mutant of RotateSession: the old hash is not compared.
RotateSessionBlindly(c) ==
    /\ At(c, "refresh.rotate")
    /\ LET token == calls[c].token
           s == token[1]
       IN IF sessions[s].status = "live" /\ sessions[s].rotations < MaxRotations
          THEN /\ sessions' = [sessions EXCEPT ![s].rotations = @ + 1]
               /\ uses' = [uses EXCEPT ![token] = @ + 1]
               /\ Answers(c, TRUE, NextToken(token))
          ELSE UNCHANGED <<sessions, uses>> /\ Throws(c)
    /\ UNCHANGED <<env, parties, users, otps>>

\* Mutant of RotateSession: a revoked session is not noticed.
RotateSessionRevoked(c) ==
    /\ At(c, "refresh.rotate")
    /\ LET token == calls[c].token
           s == token[1]
       IN IF sessions[s].rotations = token[2] /\ token[2] < MaxRotations
          THEN /\ sessions' = [sessions EXCEPT ![s].rotations = @ + 1, ![s].status = "live"]
               /\ uses' = [uses EXCEPT ![token] = @ + 1]
               /\ Answers(c, TRUE, NextToken(token))
          ELSE UNCHANGED <<sessions, uses>> /\ Throws(c)
    /\ UNCHANGED <<env, parties, users, otps>>

\* rotateSession: only if the old hash still matches and the session is live.
RotateSession(c) ==
    /\ At(c, "refresh.rotate")
    /\ LET token == calls[c].token
           s == token[1]
       IN IF sessions[s].status = "live" /\ sessions[s].rotations = token[2]
          THEN /\ token[2] < MaxRotations
               /\ AwaitsWrite(/\ sessions' = [sessions EXCEPT ![s].rotations = @ + 1,
                                                               ![s].expired = FALSE]
                              /\ uses' = [uses EXCEPT ![token] = @ + 1],
                              UNCHANGED <<sessions, uses>>,
                              Answers(c, TRUE, NextToken(token)), Throws(c))
          ELSE UNCHANGED <<sessions, uses>> /\ Throws(c)
    /\ UNCHANGED <<env, parties, users, otps>>

\* Mutant of Logout: the answer does not wait for the session to be revoked.
LogoutUnawaited(c, token, for) ==
    /\ Free(c)
    /\ Starts(c, [pc |-> "reply", for |-> for, ok |-> TRUE, token |-> NoToken])
    /\ UNCHANGED <<env, parties, users, otps, sessions, uses>>

\* logout: a token that is not found is not an error.
Logout(c, token, for) ==
    /\ Free(c)
    /\ Starts(c, IF Found(token)
                 THEN [pc |-> "logout.revoke", token |-> token, for |-> for]
                 ELSE [pc |-> "reply", for |-> for, ok |-> TRUE, token |-> NoToken])
    /\ UNCHANGED <<env, parties, users, otps, sessions, uses>>

\* The refresh token's TTL runs out.
SessionExpires(s) ==
    /\ Doing("expire")
    /\ sessions[s] # NoSession /\ ~sessions[s].expired
    /\ sessions' = [sessions EXCEPT ![s].expired = TRUE]
    /\ UNCHANGED <<env, parties, users, otps, uses, calls>>

\* The status of a login is changed in the database; no handler changes it.
Block(p) ==
    /\ Doing("block")
    /\ users[p].status = "active"
    /\ users' = [users EXCEPT ![p].status = "blocked"]
    /\ UNCHANGED <<env, parties, otps, sessions, uses, calls>>

-----------------------------------------------------------------------------

\* Where apps run, the customer has registered and verified the phone before.
Customer == [status |-> "active", verified |-> TRUE, password |-> 1,
             party |-> CHOOSE q \in Parties : TRUE]

ServerInit ==
    /\ env \in Environments
    /\ users = [p \in Phones |-> IF Doing("client") THEN Customer ELSE NoUser]
    /\ parties = {users[p].party : p \in {p \in Phones : users[p] # NoUser}}
    /\ otps = [k \in Codes |-> NoOtp]
    /\ sessions = [s \in Sessions |-> NoSession]
    /\ uses = [t \in Token |-> 0]
    /\ calls = [c \in Calls |-> Idle]

ServerArrivals ==
    \/ \E p \in Phones : HourPasses(p) \/ Block(p)
    \/ \E s \in Sessions : SessionExpires(s)
    \/ \E c \in Calls, p \in Phones :
        \/ Register(c, p)
        \/ RequestOtp(c, p)
        \/ \E k \in Codes :
              \/ Doing("code") /\ EnterCode(c, p, k, FALSE, Nobody)
              \/ Doing("reset") /\ EnterCode(c, p, k, TRUE, Nobody)

ServerProceeds(c) ==
    \/ CreateParty(c) \/ CreateUser(c)
    \/ CountOtps(c) \/ SaveOtp(c) \/ SendOtp(c)
    \/ ConsumeOtp(c) \/ SetPassword(c) \/ MarkPhoneVerified(c)
    \/ CreateSession(c) \/ RefreshUser(c) \/ RevokeSession(c) \/ RotateSession(c)

ServerTypeOK ==
    /\ env \in Environments
    /\ parties \subseteq Parties
    /\ users \in [Phones -> User \cup {NoUser}]
    /\ otps \in [Codes -> Otp \cup {NoOtp}]
    /\ sessions \in [Sessions -> Session \cup {NoSession}]
    /\ uses \in [Token -> Nat]
    /\ calls \in [Calls -> CallStates \cup {Idle}]
=============================================================================
