------------------------------ MODULE AuthProofs ------------------------------
(***************************************************************************)
(* Theorems about AuthClients, the server's handlers and the apps          *)
(* together, for every number of handlers, devices, requests, codes and    *)
(* sessions, and in every environment AuthServerAssumption allows.         *)
(*                                                                         *)
(* A handler and an app go on from what they read before an await, so the  *)
(* inductive invariant IInv says what that still is worth: the accounts    *)
(* and tokens they hold exist (CallsHoldIssued, AppsHoldIssued), an        *)
(* activity of an app is answered by one handler, which owes it tokens or  *)
(* a failure, or the end of the session it leaves (CallsAwaited), and a    *)
(* request that is sent again has not been run (RequestsRunOnce).          *)
(*                                                                         *)
(* Each handler's step is first put down to what it may do to the tables   *)
(* (ServerMoves: open, end or rotate one session, create or change one     *)
(* account, save, turn or age codes, move one handler), each app's step to *)
(* what the app then holds (ClientsFine).  The theorems rest on these      *)
(* effects and not on the handlers one by one.                             *)
(*                                                                         *)
(* That an undisturbed app stays signed in is a matter of the steps one by *)
(* one: Calm says of each app that it is Outside, Enters or is Inside its  *)
(* one session, and which handler works for it (CallIsCalm).               *)
(***************************************************************************)
EXTENDS AuthClients, FiniteSetTheorems, TLAPS

-----------------------------------------------------------------------------
(* The inductive invariant *)

PhonePcs == {"reg.party", "otp.count", "otp.save"}
CodePcs == {"code.consume"} \cup PastCode
RevokingPcs == {"refresh.revoke", "logout.revoke"}
TokenPcs == {"refresh.user", "refresh.rotate"} \cup RevokingPcs

PhoneCall == [pc : PhonePcs, phone : Phones, for : {Nobody}]
UserCall == [pc : {"reg.user"}, phone : Phones, party : Parties, for : {Nobody}]
SendCall == [pc : {"otp.send"}, phone : Phones, code : Codes, for : {Nobody}]
CodeCall == [pc : CodePcs, phone : Phones, code : Codes \cup {NoCode}, reset : BOOLEAN,
             verified : BOOLEAN, for : Waiting]
TokenCall == [pc : TokenPcs, token : Token, for : Waiting]
ReplyCall == [pc : {"reply"}, for : Waiting, ok : BOOLEAN, token : Token \cup {NoToken}]

CallState == CallStates \cup {Idle}

\* A token that the server has issued, and the session it belongs to.
Issued(token) ==
    sessions[token[1]] # NoSession /\ token[2] <= sessions[token[1]].rotations

IssuedOrNone(token) == token = NoToken \/ Issued(token)

\* What handlers and apps hold exists: accounts, sessions and tokens.
CallsHoldIssued ==
    \A c \in Calls :
        /\ calls[c].pc \in CodePcs => users[calls[c].phone] # NoUser
        /\ At(c, "code.consume") => calls[c].code \in Codes
        /\ calls[c].pc \in TokenPcs => Issued(calls[c].token)
        /\ calls[c].pc = "reply" => IssuedOrNone(calls[c].token)

AppHolds(app) == IssuedOrNone(app.mem) /\ IssuedOrNone(app.access)
ActHolds(act) ==
    act.at \in {"storing", "applying", "leaving", "removing", "clearing"} =>
        IssuedOrNone(act.token)

AppsHoldIssued ==
    /\ \A d \in Devices : AppHolds(apps[d])
    /\ \A k \in Devices \cup {Jar} : IssuedOrNone(stored[k])
    /\ \A d \in Devices, a \in Activities : ActHolds(acts[d][a])

\* A token whose session was revoked, or moved on to the next token.
Gone(token) ==
    token # NoToken =>
        sessions[token[1]].status = "revoked" \/ sessions[token[1]].rotations > token[2]

\* What a handler owes to the activity that waits for it: tokens or a failure to one
\* that asks, the end of the session to one that leaves.
Asked(call) ==
    \/ call.pc \in CodePcs \cup {"refresh.user", "refresh.revoke", "refresh.rotate"}
    \/ call.pc = "reply" /\ (call.ok => call.token # NoToken)
Leaves(call, token) ==
    \/ call.pc = "logout.revoke" /\ call.token = token
    \/ call.pc = "reply" /\ (env.faults = {} => Gone(token))
AwaitedBy(call, act) ==
    \/ act.at = "asking" /\ Asked(call)
    \/ act.at = "leaving" /\ Leaves(call, act.token)

\* No two handlers answer to one activity.
CallsAwaited ==
    \A c \in Calls : For(c) # Nobody =>
        /\ AwaitedBy(calls[c], acts[For(c)[1]][For(c)[2]])
        /\ \A e \in Calls \ {c} : For(e) # For(c)

\* A request that is sent, refused or waiting has not been run.
NotRunYet(request) == request.at \in {"sent", "refused", "waiting"} => request.runs = 0
RequestsRunOnce ==
    \A r \in Requests : requests[r] # NoRequest =>
        NotRunYet(requests[r]) /\ requests[r].runs <= 1

IInv == TypeOK /\ CallsHoldIssued /\ AppsHoldIssued /\ RequestsRunOnce /\ CallsAwaited

-----------------------------------------------------------------------------
(* Typing *)

LEMMA CallKinds ==
    CallStates = PhoneCall \cup UserCall \cup SendCall \cup CodeCall \cup TokenCall
                    \cup ReplyCall
BY DEF CallStates, PhoneCall, UserCall, SendCall, CodeCall, TokenCall, ReplyCall,
       PhonePcs, CodePcs, PastCode, TokenPcs, RevokingPcs

\* The kind of a handler is told by its pc.
LEMMA CallTypes ==
    ASSUME ServerTypeOK, NEW c \in Calls
    PROVE  /\ calls[c].pc \in PhonePcs => calls[c] \in PhoneCall
           /\ calls[c].pc = "reg.user" => calls[c] \in UserCall
           /\ calls[c].pc = "otp.send" => calls[c] \in SendCall
           /\ calls[c].pc \in CodePcs => calls[c] \in CodeCall
           /\ calls[c].pc \in TokenPcs => calls[c] \in TokenCall
           /\ calls[c].pc = "reply" => calls[c] \in ReplyCall
           /\ calls[c].pc = "idle" => calls[c] = Idle
           /\ calls[c] # Idle => calls[c].for \in Waiting /\ calls[c].pc # "idle"
<1>1. calls[c] \in CallStates \cup {Idle}
    BY DEF ServerTypeOK
<1>2. calls[c] = Idle \/ calls[c] \in PhoneCall \/ calls[c] \in UserCall \/ calls[c] \in SendCall
      \/ calls[c] \in CodeCall \/ calls[c] \in TokenCall \/ calls[c] \in ReplyCall
    BY <1>1, CallKinds
<1> QED
    BY <1>2 DEF Idle, PhoneCall, UserCall, SendCall, CodeCall, TokenCall, ReplyCall,
       PhonePcs, CodePcs, PastCode, TokenPcs, RevokingPcs, Waiting

\* The state of a handler that has answered.
AnswerOf(c, ok, token) ==
    IF calls[c].for = Nobody THEN Idle
    ELSE [pc |-> "reply", for |-> calls[c].for, ok |-> ok, token |-> token]

LEMMA AnswerTyped ==
    ASSUME ServerTypeOK, NEW c \in Calls, calls[c] # Idle, NEW ok \in BOOLEAN,
           NEW token \in Token \cup {NoToken}
    PROVE  AnswerOf(c, ok, token) \in CallState
BY CallTypes, CallKinds DEF AnswerOf, CallState, ReplyCall

LEMMA OneCallTyped ==
    ASSUME ServerTypeOK, NEW c \in Calls, NEW state \in CallState, Starts(c, state)
    PROVE  /\ calls' \in [Calls -> CallState]
           /\ calls'[c] = state
           /\ \A e \in Calls \ {c} : calls'[e] = calls[e]
BY DEF Starts, ServerTypeOK, CallState

\* A handler goes on to its next step.
LEMMA PhoneGoesOn ==
    ASSUME NEW c \in Calls, NEW pc, GoesTo(c, pc), calls[c] \in PhoneCall
    PROVE  Starts(c, [pc |-> pc, phone |-> calls[c].phone, for |-> Nobody])
<1>1. [calls[c] EXCEPT !.pc = pc] = [pc |-> pc, phone |-> calls[c].phone, for |-> Nobody]
    BY DEF PhoneCall
<1> QED
    BY <1>1 DEF GoesTo, Starts

LEMMA CodeGoesOn ==
    ASSUME NEW c \in Calls, NEW pc, GoesTo(c, pc), calls[c] \in CodeCall
    PROVE  Starts(c, [pc |-> pc, phone |-> calls[c].phone, code |-> calls[c].code,
                      reset |-> calls[c].reset, verified |-> calls[c].verified,
                      for |-> calls[c].for])
<1>1. [calls[c] EXCEPT !.pc = pc]
         = [pc |-> pc, phone |-> calls[c].phone, code |-> calls[c].code,
            reset |-> calls[c].reset, verified |-> calls[c].verified, for |-> calls[c].for]
    BY DEF CodeCall
<1> QED
    BY <1>1 DEF GoesTo, Starts

LEMMA TokenGoesOn ==
    ASSUME NEW c \in Calls, NEW pc, GoesTo(c, pc), calls[c] \in TokenCall
    PROVE  Starts(c, [pc |-> pc, token |-> calls[c].token, for |-> calls[c].for])
<1>1. [calls[c] EXCEPT !.pc = pc]
         = [pc |-> pc, token |-> calls[c].token, for |-> calls[c].for]
    BY DEF TokenCall
<1> QED
    BY <1>1 DEF GoesTo, Starts

-----------------------------------------------------------------------------
(* What a step does to the server's state *)

\* A session is opened by a login ...
Opens(c, s) ==
    /\ At(c, "session.create") /\ calls'[c].pc \notin PastCode
    /\ sessions[s] = NoSession
    /\ \E row \in Session :
          /\ row.status = "live" /\ row.rotations = 0 /\ row.code = calls[c].code
          /\ sessions' = [sessions EXCEPT ![s] = row]
    /\ UNCHANGED uses

SameSession(s, row) ==
    row.phone = sessions[s].phone /\ row.code = sessions[s].code /\ row.device = sessions[s].device

\* ... revoked or expired ...
Ends(s) ==
    /\ sessions[s] # NoSession
    /\ \E row \in Session :
          /\ SameSession(s, row) /\ row.rotations = sessions[s].rotations
          /\ row.status \in {sessions[s].status, "revoked"}
          /\ sessions' = [sessions EXCEPT ![s] = row]
    /\ UNCHANGED uses

\* ... or moved on to its next token.
Rotates(s) ==
    /\ sessions[s] # NoSession /\ sessions[s].status = "live"
    /\ sessions[s].rotations < MaxRotations
    /\ \E row \in Session :
          /\ SameSession(s, row) /\ row.rotations = sessions[s].rotations + 1
          /\ row.status = "live"
          /\ sessions' = [sessions EXCEPT ![s] = row]
    /\ uses' = [uses EXCEPT ![<<s, sessions[s].rotations>>] = @ + 1]

SessionsMove ==
    \/ UNCHANGED <<sessions, uses>>
    \/ \E c \in Calls, s \in Sessions : Opens(c, s)
    \/ \E s \in Sessions : Ends(s) \/ Rotates(s)

\* An account is created once and keeps its party.
UsersMove ==
    \/ UNCHANGED users
    \/ \E p \in Phones, row \in User :
          /\ users[p] # NoUser => row.party = users[p].party
          /\ users' = [users EXCEPT ![p] = row]

Saves(c, k) ==
    /\ At(c, "otp.save") /\ calls'[c].pc # "otp.save"
    /\ otps[k] = NoOtp
    /\ \E row \in Otp : row.phone = calls[c].phone /\ otps' = [otps EXCEPT ![k] = row]

\* A code is sent, or consumed.
Turns(k) ==
    /\ otps[k] # NoOtp
    /\ \E row \in Otp : /\ row.phone = otps[k].phone /\ row.recent = otps[k].recent
                        /\ otps[k].status = "consumed" => row.status = "consumed"
                        /\ otps' = [otps EXCEPT ![k] = row]

\* Codes grow old.
Ages ==
    /\ otps' \in [Codes -> Otp \cup {NoOtp}]
    /\ \A k \in Codes : \/ otps'[k] = otps[k]
                        \/ /\ otps[k] # NoOtp /\ otps'[k] # NoOtp
                           /\ otps'[k].phone = otps[k].phone /\ ~otps'[k].recent
                           /\ otps[k].status = "consumed" => otps'[k].status = "consumed"
    /\ UNCHANGED calls

OtpsMove ==
    \/ UNCHANGED otps
    \/ \E c \in Calls, k \in Codes : Saves(c, k)
    \/ \E k \in Codes : Turns(k)
    \/ Ages

SameLogin(c) ==
    calls'[c].phone = calls[c].phone /\ calls'[c].code = calls[c].code

\* The steps of one handler.
Begins(c) ==
    /\ calls[c] = Idle
    /\ \/ calls'[c].pc \in {"reg.party", "otp.count"}
       \/ /\ calls'[c].pc = "code.consume" /\ calls'[c].code \in Codes
          /\ users[calls'[c].phone] # NoUser
       \/ /\ calls'[c].pc = "session.create" /\ calls'[c].code = NoCode
          /\ users[calls'[c].phone] # NoUser
       \/ /\ calls'[c].pc \in {"refresh.user", "logout.revoke"}
          /\ Found(calls'[c].token)
       \/ /\ calls'[c].pc = "reply"
          /\ calls'[c].token = NoToken

ProceedsTo(c) ==
    /\ calls[c] # Idle
    /\ \/ calls'[c].pc \in {"reg.user", "otp.send", "otp.count"}
       \/ /\ At(c, "otp.count") /\ calls'[c].pc = "otp.save"
          /\ calls'[c].phone = calls[c].phone
          /\ ~(Cardinality(RecentCodes(calls[c].phone)) >= OtpMaxPerHour)
       \/ /\ At(c, "code.consume") /\ calls'[c].pc \in PastCode /\ SameLogin(c)
          /\ otps[calls[c].code].status = "sent" /\ otps'[calls[c].code].status = "consumed"
       \/ /\ calls[c].pc \in PastCode /\ calls'[c].pc \in PastCode
          /\ SameLogin(c)
       \/ /\ At(c, "refresh.user") /\ calls'[c].pc \in {"refresh.rotate", "refresh.revoke"}
          /\ calls'[c].token = calls[c].token
       \/ /\ calls'[c].pc = "reply"
          /\ calls'[c].token = NoToken \/ Issued(calls[c].token)'

\* The client gives up waiting, and the handler goes on or its answer is dropped.
Detaches(c) ==
    \/ calls'[c] = Idle
    \/ /\ calls[c] # Idle /\ calls[c].pc # "reply"
       /\ calls'[c] = [calls[c] EXCEPT !.for = Nobody]

CallsMove ==
    /\ calls' \in [Calls -> CallState]
    /\ \/ \A c \in Calls : calls'[c] = calls[c] \/ Detaches(c)
       \/ \E c \in Calls : /\ \A e \in Calls \ {c} : calls'[e] = calls[e]
                           /\ Begins(c) \/ ProceedsTo(c) \/ Detaches(c)

ServerMoves ==
    /\ SessionsMove /\ UsersMove /\ OtpsMove /\ CallsMove
    /\ env' = env /\ parties' \subseteq Parties

\* A step of one handler that touches no table.
LEMMA QuietlyMoves ==
    ASSUME IInv, NEW c \in Calls, NEW state \in CallState, Starts(c, state),
           Begins(c) \/ ProceedsTo(c) \/ Detaches(c)
    PROVE  CallsMove
BY OneCallTyped DEF IInv, TypeOK, CallsMove

LEMMA NothingWritten ==
    ASSUME IInv, UNCHANGED <<env, parties, users, otps, sessions, uses>>, CallsMove
    PROVE  ServerMoves
BY DEF ServerMoves, SessionsMove, UsersMove, OtpsMove, IInv, TypeOK, ServerTypeOK

\* A handler answers.
LEMMA AnswersMove ==
    ASSUME IInv, NEW c \in Calls, calls[c] # Idle, NEW ok \in BOOLEAN,
           NEW token \in Token \cup {NoToken}, Answers(c, ok, token),
           token = NoToken \/ Issued(token)'
    PROVE  /\ CallsMove
           /\ calls'[c].pc \in {"idle", "reply"}
           /\ \A e \in Calls \ {c} : calls'[e] = calls[e]
<1> DEFINE state == AnswerOf(c, ok, token)
<1>1. ServerTypeOK
    BY DEF IInv, TypeOK
<1>2. state \in CallState /\ Starts(c, state)
    BY <1>1, AnswerTyped DEF Answers, AnswerOf
<1>3. state = Idle \/ (state.pc = "reply" /\ state.token = token)
    BY DEF AnswerOf
<1> HIDE DEF state
<1>4. calls'[c] = state /\ \A e \in Calls \ {c} : calls'[e] = calls[e]
    BY <1>1, <1>2, OneCallTyped
<1>5. ProceedsTo(c) \/ Detaches(c)
    BY <1>3, <1>4 DEF ProceedsTo, Detaches
<1> QED
    BY <1>2, <1>3, <1>4, <1>5, QuietlyMoves DEF Idle

LEMMA ThrowsMove ==
    ASSUME IInv, NEW c \in Calls, calls[c] # Idle, Throws(c)
    PROVE  /\ CallsMove
           /\ calls'[c].pc \in {"idle", "reply"}
           /\ \A e \in Calls \ {c} : calls'[e] = calls[e]
BY AnswersMove DEF Throws

-----------------------------------------------------------------------------
(* Every handler's step is one of them *)

LEMMA PhoneCallAt ==
    ASSUME IInv, NEW c \in Calls, calls[c].pc \in PhonePcs
    PROVE  calls[c] \in PhoneCall /\ calls[c] # Idle /\ calls[c].phone \in Phones
BY CallTypes DEF IInv, TypeOK, PhoneCall, PhonePcs, Idle

LEMMA CodeCallAt ==
    ASSUME IInv, NEW c \in Calls, calls[c].pc \in CodePcs
    PROVE  /\ calls[c] \in CodeCall /\ calls[c] # Idle /\ calls[c].phone \in Phones
           /\ users[calls[c].phone] # NoUser /\ users[calls[c].phone] \in User
<1>1. calls[c] \in CodeCall /\ users[calls[c].phone] # NoUser
    BY CallTypes DEF IInv, TypeOK, CallsHoldIssued
<1> QED
    BY <1>1 DEF IInv, TypeOK, ServerTypeOK, CodeCall, CodePcs, PastCode, Idle

LEMMA TokenCallAt ==
    ASSUME IInv, NEW c \in Calls, calls[c].pc \in TokenPcs
    PROVE  /\ calls[c] \in TokenCall /\ calls[c] # Idle
           /\ calls[c].token \in Token /\ Issued(calls[c].token)
           /\ calls[c].token[1] \in Sessions /\ sessions[calls[c].token[1]] \in Session
           /\ sessions[calls[c].token[1]] # NoSession
<1>1. calls[c] \in TokenCall /\ Issued(calls[c].token)
    BY CallTypes DEF IInv, TypeOK, CallsHoldIssued
<1> QED
    BY <1>1 DEF IInv, TypeOK, ServerTypeOK, TokenCall, TokenPcs, RevokingPcs, Idle, Token, Issued

LEMMA CreatePartyMoves ==
    ASSUME IInv, NEW c \in Calls, CreateParty(c)
    PROVE  ServerMoves
<1>1. calls[c] \in PhoneCall /\ calls[c] # Idle /\ calls[c].phone \in Phones
    BY PhoneCallAt DEF CreateParty, At, PhonePcs
<1>2. PICK party \in Parties :
         AwaitsWrite(parties' = parties \cup {party}, UNCHANGED parties,
                     Starts(c, [pc |-> "reg.user", phone |-> calls[c].phone,
                                party |-> party, for |-> Nobody]),
                     Throws(c))
    BY DEF CreateParty, First
<1>3. parties' \subseteq Parties
    BY <1>2 DEF AwaitsWrite, IInv, TypeOK, ServerTypeOK
<1>4. CallsMove
  <2>1. CASE Throws(c)
    BY <2>1, <1>1, ThrowsMove
  <2>2. CASE Starts(c, [pc |-> "reg.user", phone |-> calls[c].phone,
                        party |-> party, for |-> Nobody])
    <3> DEFINE state == [pc |-> "reg.user", phone |-> calls[c].phone,
                         party |-> party, for |-> Nobody]
    <3>1. state \in CallState /\ state.pc = "reg.user"
        BY <1>1, CallKinds DEF CallState, UserCall
    <3>2. Starts(c, state)
        BY <2>2
    <3> HIDE DEF state
    <3>3. ProceedsTo(c)
        BY <1>1, <3>1, <3>2, OneCallTyped DEF ProceedsTo, IInv, TypeOK
    <3> QED
        BY <3>1, <3>2, <3>3, QuietlyMoves
  <2> QED
    BY <1>2, <2>1, <2>2 DEF AwaitsWrite
<1>5. UNCHANGED <<env, users, otps, sessions, uses>>
    BY DEF CreateParty
<1> QED
    BY <1>3, <1>4, <1>5 DEF ServerMoves, SessionsMove, UsersMove, OtpsMove

\* The phone goes on to the next step of sign-up.
LEMMA PhoneProceeds ==
    ASSUME IInv, NEW c \in Calls, calls[c] # Idle, NEW p \in Phones,
           Starts(c, [pc |-> "otp.count", phone |-> p, for |-> Nobody])
    PROVE  CallsMove
<1> DEFINE state == [pc |-> "otp.count", phone |-> p, for |-> Nobody]
<1>1. state \in CallState /\ state.pc = "otp.count"
    BY CallKinds DEF CallState, PhoneCall, PhonePcs
<1>2. Starts(c, state)
    OBVIOUS
<1> HIDE DEF state
<1>3. ProceedsTo(c)
    BY <1>1, <1>2, OneCallTyped DEF ProceedsTo, IInv, TypeOK
<1> QED
    BY <1>1, <1>2, <1>3, QuietlyMoves

LEMMA CreateUserMoves ==
    ASSUME IInv, NEW c \in Calls, CreateUser(c)
    PROVE  ServerMoves
<1> DEFINE phone == calls[c].phone
           row == NewUser(calls[c].party)
<1>1. calls[c] # Idle /\ phone \in Phones /\ row \in User
    BY CallTypes DEF IInv, TypeOK, CreateUser, At, UserCall, NewUser, User, Idle
<1>2. /\ users' = users \/ (users[phone] = NoUser /\ users' = [users EXCEPT ![phone] = row])
      /\ Throws(c) \/ Starts(c, [pc |-> "otp.count", phone |-> phone, for |-> Nobody])
      /\ UNCHANGED <<env, parties, otps, sessions, uses>>
    BY DEF CreateUser, AwaitsWrite
<1> HIDE DEF phone, row
<1>3. CallsMove
    BY <1>1, <1>2, ThrowsMove, PhoneProceeds
<1>4. UsersMove
    BY <1>1, <1>2 DEF UsersMove
<1> QED
    BY <1>2, <1>3, <1>4 DEF ServerMoves, SessionsMove, OtpsMove, IInv, TypeOK, ServerTypeOK

LEMMA CountOtpsMoves ==
    ASSUME IInv, NEW c \in Calls, CountOtps(c)
    PROVE  ServerMoves
<1>1. calls[c] \in PhoneCall /\ calls[c] # Idle /\ calls[c].phone \in Phones
    BY PhoneCallAt DEF CountOtps, At, PhonePcs
<1>2. CASE Throws(c)
    BY <1>1, <1>2, ThrowsMove, NothingWritten DEF CountOtps
<1>3. CASE /\ ~(Cardinality(RecentCodes(calls[c].phone)) >= OtpMaxPerHour)
           /\ GoesTo(c, "otp.save")
  <2> DEFINE state == [pc |-> "otp.save", phone |-> calls[c].phone, for |-> Nobody]
  <2>1. state \in CallState /\ state.pc = "otp.save" /\ state.phone = calls[c].phone
    BY <1>1, CallKinds DEF CallState, PhoneCall, PhonePcs
  <2>2. Starts(c, state)
    BY <1>1, <1>3, PhoneGoesOn
  <2> HIDE DEF state
  <2>3. ProceedsTo(c)
    BY <1>1, <1>3, <2>1, <2>2, OneCallTyped DEF ProceedsTo, IInv, TypeOK, CountOtps
  <2> QED
    BY <2>1, <2>2, <2>3, QuietlyMoves, NothingWritten DEF CountOtps
<1> QED
    BY <1>2, <1>3 DEF CountOtps

LEMMA SaveOtpMoves ==
    ASSUME IInv, NEW c \in Calls, SaveOtp(c)
    PROVE  ServerMoves
<1>1. calls[c] \in PhoneCall /\ calls[c] # Idle /\ calls[c].phone \in Phones
    BY PhoneCallAt DEF SaveOtp, At, PhonePcs
<1> DEFINE row == [status |-> "saved", recent |-> TRUE, phone |-> calls[c].phone]
           Sending(k) == [pc |-> "otp.send", phone |-> calls[c].phone, code |-> k,
                          for |-> Nobody]
<1>2. PICK k \in Codes :
         /\ otps[k] = NoOtp
         /\ AwaitsWrite(otps' = [otps EXCEPT ![k] = row], UNCHANGED otps,
                        Starts(c, Sending(k)), Throws(c))
    BY DEF SaveOtp, First
<1> DEFINE state == Sending(k)
<1>3. state \in CallState /\ state.pc = "otp.send"
    BY <1>1, CallKinds DEF CallState, SendCall
<1>4. row \in Otp /\ row.phone = calls[c].phone
    BY <1>1 DEF Otp
<1>5. Throws(c) \/ Starts(c, state)
    BY <1>2 DEF AwaitsWrite
<1>6. otps' = otps \/ otps' = [otps EXCEPT ![k] = row]
    BY <1>2 DEF AwaitsWrite
<1> HIDE DEF state, row
<1>7. CallsMove /\ calls'[c].pc \in {"idle", "reply", "otp.send"}
  <2>1. CASE Throws(c)
    BY <2>1, <1>1, ThrowsMove
  <2>2. CASE Starts(c, state)
    <3>1. calls'[c] = state
        BY <2>2, <1>3, OneCallTyped DEF IInv, TypeOK
    <3>2. ProceedsTo(c)
        BY <3>1, <1>1, <1>3 DEF ProceedsTo
    <3> QED
        BY <2>2, <3>1, <3>2, <1>3, QuietlyMoves
  <2> QED
    BY <1>5, <2>1, <2>2
<1>8. OtpsMove
    BY <1>2, <1>4, <1>6, <1>7 DEF OtpsMove, Saves, SaveOtp
<1>9. UNCHANGED <<env, parties, users, sessions, uses>>
    BY DEF SaveOtp
<1> QED
    BY <1>7, <1>8, <1>9 DEF ServerMoves, SessionsMove, UsersMove, IInv, TypeOK, ServerTypeOK

LEMMA SendOtpMoves ==
    ASSUME IInv, NEW c \in Calls, SendOtp(c)
    PROVE  ServerMoves
<1> DEFINE k == calls[c].code
           row == [otps[k] EXCEPT !.status = IF @ = "saved" THEN "sent" ELSE @]
<1>1. calls[c] # Idle /\ k \in Codes /\ otps[k] \in Otp \cup {NoOtp}
    BY CallTypes DEF IInv, TypeOK, ServerTypeOK, SendOtp, At, SendCall, Idle
<1>2. OtpsMove
  <2>1. CASE otps' = otps
    BY <2>1 DEF OtpsMove
  <2>2. CASE otps' = [otps EXCEPT ![k] = row]
    <3>1. CASE otps[k] = NoOtp
      <4>1. row = otps[k]
        BY <3>1 DEF NoOtp
      <4> QED
        BY <4>1, <2>2, <1>1 DEF OtpsMove, IInv, TypeOK, ServerTypeOK
    <3>2. CASE otps[k] # NoOtp
      <4>1. /\ row \in Otp /\ row.phone = otps[k].phone /\ row.recent = otps[k].recent
            /\ otps[k].status = "consumed" => row.status = "consumed"
        BY <3>2, <1>1 DEF Otp
      <4> HIDE DEF row
      <4> QED
        BY <4>1, <3>2, <2>2, <1>1 DEF OtpsMove, Turns
    <3> QED
        BY <3>1, <3>2
  <2> QED
    BY <2>1, <2>2 DEF SendOtp
<1>3. CallsMove
    BY <1>1, ThrowsMove DEF SendOtp
<1> QED
    BY <1>2, <1>3 DEF SendOtp, ServerMoves, SessionsMove, UsersMove, IInv, TypeOK, ServerTypeOK

\* A login goes on to its next step.
LEMMA CodeProceeds ==
    ASSUME IInv, NEW c \in Calls, calls[c].pc \in CodePcs, NEW pc \in PastCode, GoesTo(c, pc),
           \/ calls[c].pc \in PastCode
           \/ /\ At(c, "code.consume")
              /\ otps[calls[c].code].status = "sent" /\ otps'[calls[c].code].status = "consumed"
    PROVE  CallsMove
<1> DEFINE state == [pc |-> pc, phone |-> calls[c].phone, code |-> calls[c].code,
                     reset |-> calls[c].reset, verified |-> calls[c].verified,
                     for |-> calls[c].for]
<1>1. calls[c] \in CodeCall /\ calls[c] # Idle
    BY CodeCallAt
<1>2. state \in CallState /\ state.pc = pc /\ state.phone = calls[c].phone
      /\ state.code = calls[c].code
    BY <1>1, CallKinds DEF CallState, CodeCall, CodePcs
<1>3. Starts(c, state)
    BY <1>1, CodeGoesOn
<1> HIDE DEF state
<1>4. calls'[c] = state
    BY <1>2, <1>3, OneCallTyped DEF IInv, TypeOK
<1>5. ProceedsTo(c)
    BY <1>1, <1>2, <1>4 DEF ProceedsTo, SameLogin
<1> QED
    BY <1>2, <1>3, <1>5, QuietlyMoves

LEMMA ConsumeOtpMoves ==
    ASSUME IInv, NEW c \in Calls, ConsumeOtp(c)
    PROVE  ServerMoves
<1> DEFINE k == calls[c].code
           row == [otps[k] EXCEPT !.status = "consumed"]
<1>1. calls[c] \in CodeCall /\ calls[c] # Idle /\ calls[c].pc \in CodePcs
    BY CodeCallAt DEF ConsumeOtp, At, CodePcs
<1>2. AfterCode(c) \in PastCode
    BY DEF AfterCode, PastCode
<1>3. CASE UNCHANGED otps /\ Throws(c)
    BY <1>1, <1>3, ThrowsMove, NothingWritten DEF ConsumeOtp
<1>4. CASE /\ otps[k].status = "sent" /\ otps' = [otps EXCEPT ![k].status = "consumed"]
           /\ Throws(c) \/ GoesTo(c, AfterCode(c))
  <2>1. otps[k] \in Otp /\ otps[k] # NoOtp /\ k \in Codes
    <3>1. k \in Codes
        BY DEF ConsumeOtp, IInv, CallsHoldIssued
    <3> QED
        BY <3>1, <1>4 DEF IInv, TypeOK, ServerTypeOK, NoOtp
  <2>2. /\ row \in Otp /\ row.phone = otps[k].phone /\ row.recent = otps[k].recent
        /\ row.status = "consumed"
    BY <2>1 DEF Otp
  <2>3. otps' = [otps EXCEPT ![k] = row]
    BY <1>4, <2>1 DEF IInv, TypeOK, ServerTypeOK
  <2> HIDE DEF row
  <2>4. OtpsMove
    BY <2>1, <2>2, <2>3 DEF OtpsMove, Turns
  <2>5. otps'[k].status = "consumed"
    BY <2>1, <2>2, <2>3 DEF IInv, TypeOK, ServerTypeOK
  <2> HIDE DEF k
  <2>6. CASE Throws(c)
    BY <1>1, <2>4, <2>6, ThrowsMove
            DEF ConsumeOtp, ServerMoves, SessionsMove, UsersMove, IInv, TypeOK, ServerTypeOK
  <2>7. CASE GoesTo(c, AfterCode(c))
    <3>1. CallsMove
        BY <1>1, <1>2, <1>4, <2>5, <2>7, CodeProceeds DEF ConsumeOtp, k
    <3> QED
        BY <3>1, <2>4
            DEF ConsumeOtp, ServerMoves, SessionsMove, UsersMove, IInv, TypeOK, ServerTypeOK
  <2> QED
    BY <1>4, <2>6, <2>7
<1> QED
    BY <1>1, <1>3, <1>4 DEF ConsumeOtp, AwaitsWrite

\* A login past its code writes a row of its account that keeps the party.
LEMMA AccountWritten ==
    ASSUME IInv, NEW c \in Calls, calls[c].pc \in PastCode, NEW pc \in PastCode,
           NEW row \in User, row.party = users[calls[c].phone].party,
           UNCHANGED users \/ users' = [users EXCEPT ![calls[c].phone] = row],
           Throws(c) \/ GoesTo(c, pc),
           UNCHANGED <<env, parties, otps, sessions, uses>>
    PROVE  ServerMoves
<1>1. calls[c] # Idle /\ calls[c].pc \in CodePcs /\ calls[c].phone \in Phones
    BY CodeCallAt DEF CodePcs
<1>2. CallsMove
    BY <1>1, ThrowsMove, CodeProceeds
<1>3. UsersMove
    BY <1>1 DEF UsersMove
<1> QED
    BY <1>2, <1>3 DEF ServerMoves, SessionsMove, OtpsMove, IInv, TypeOK, ServerTypeOK

LEMMA SetPasswordMoves ==
    ASSUME IInv, NEW c \in Calls, SetPassword(c)
    PROVE  ServerMoves
<1> DEFINE p == calls[c].phone
           row == [users[p] EXCEPT !.password = @ + 1]
           pc == IF calls[c].verified THEN "session.create" ELSE "code.mark"
<1>1. calls[c].pc \in PastCode /\ pc \in PastCode
    BY DEF SetPassword, At, PastCode
<1>2. p \in Phones /\ users[p] \in User
    BY <1>1, CodeCallAt DEF CodePcs
<1>3. row \in User /\ row.party = users[p].party
    BY <1>2 DEF User
<1>4. UNCHANGED users \/ users' = [users EXCEPT ![p] = row]
    BY <1>2 DEF SetPassword, AwaitsWrite, IInv, TypeOK, ServerTypeOK
<1>5. Throws(c) \/ GoesTo(c, pc)
    BY DEF SetPassword, AwaitsWrite
<1>6. UNCHANGED <<env, parties, otps, sessions, uses>>
    BY DEF SetPassword
<1> HIDE DEF row, pc
<1> QED
    BY <1>1, <1>3, <1>4, <1>5, <1>6, AccountWritten

LEMMA MarkPhoneVerifiedMoves ==
    ASSUME IInv, NEW c \in Calls, MarkPhoneVerified(c)
    PROVE  ServerMoves
<1> DEFINE p == calls[c].phone
           row == [users[p] EXCEPT !.verified = TRUE]
<1>1. calls[c].pc \in PastCode /\ "session.create" \in PastCode
    BY DEF MarkPhoneVerified, At, PastCode
<1>2. p \in Phones /\ users[p] \in User
    BY <1>1, CodeCallAt DEF CodePcs
<1>3. row \in User /\ row.party = users[p].party
    BY <1>2 DEF User
<1>4. UNCHANGED users \/ users' = [users EXCEPT ![p] = row]
    BY <1>2 DEF MarkPhoneVerified, AwaitsWrite, IInv, TypeOK, ServerTypeOK
<1>5. Throws(c) \/ GoesTo(c, "session.create")
    BY DEF MarkPhoneVerified, AwaitsWrite
<1>6. UNCHANGED <<env, parties, otps, sessions, uses>>
    BY DEF MarkPhoneVerified
<1> HIDE DEF row
<1> QED
    BY <1>1, <1>3, <1>4, <1>5, <1>6, AccountWritten

LEMMA CreateSessionMoves ==
    ASSUME IInv, NEW c \in Calls, CreateSession(c)
    PROVE  ServerMoves
<1> DEFINE row == [status |-> "live", expired |-> FALSE, phone |-> calls[c].phone,
                   rotations |-> 0, code |-> calls[c].code,
                   device |-> IF calls[c].for = Nobody THEN "none" ELSE calls[c].for[1]]
<1>1. calls[c] \in CodeCall /\ calls[c] # Idle /\ calls[c].phone \in Phones
    BY CodeCallAt DEF CreateSession, At, CodePcs, PastCode
<1>2. row \in Session /\ row.status = "live" /\ row.rotations = 0 /\ row.code = calls[c].code
    BY <1>1 DEF Session, CodeCall, Waiting
<1>3. PICK s \in Sessions :
         /\ sessions[s] = NoSession
         /\ AwaitsWrite(sessions' = [sessions EXCEPT ![s] = row], UNCHANGED sessions,
                        Answers(c, TRUE, <<s, 0>>), Throws(c))
    BY DEF CreateSession, First
<1> HIDE DEF row
<1>4. UNCHANGED <<env, parties, users, otps, uses>>
    BY DEF CreateSession
<1>5. <<s, 0>> \in Token
    BY AuthServerAssumption DEF Token
<1>6. CASE sessions' = [sessions EXCEPT ![s] = row] /\ Answers(c, TRUE, <<s, 0>>)
  <2>1. sessions'[s] = row
    BY <1>6 DEF IInv, TypeOK, ServerTypeOK
  <2>2. Issued(<<s, 0>>)'
    BY <1>2, <2>1 DEF Issued, NoSession
  <2>3. CallsMove /\ calls'[c].pc \in {"idle", "reply"}
    BY <1>1, <1>5, <1>6, <2>2, AnswersMove
  <2> QED
    BY <1>2, <1>3, <1>4, <1>6, <2>3 DEF ServerMoves, SessionsMove, Opens, UsersMove, OtpsMove,
        CreateSession, PastCode, IInv, TypeOK, ServerTypeOK
<1>7. CASE sessions' = [sessions EXCEPT ![s] = row] /\ Throws(c)
  <2>1. CallsMove /\ calls'[c].pc \in {"idle", "reply"}
    BY <1>1, <1>7, ThrowsMove
  <2> QED
    BY <1>2, <1>3, <1>4, <1>7, <2>1 DEF ServerMoves, SessionsMove, Opens, UsersMove, OtpsMove,
        CreateSession, PastCode, IInv, TypeOK, ServerTypeOK
<1>8. CASE UNCHANGED sessions /\ Throws(c)
    BY <1>1, <1>4, <1>8, ThrowsMove, NothingWritten
<1> QED
    BY <1>3, <1>6, <1>7, <1>8 DEF AwaitsWrite

LEMMA RefreshUserMoves ==
    ASSUME IInv, NEW c \in Calls, RefreshUser(c)
    PROVE  ServerMoves
<1> DEFINE pc == IF users[sessions[calls[c].token[1]].phone].status = "blocked"
                 THEN "refresh.revoke" ELSE "refresh.rotate"
           state == [pc |-> pc, token |-> calls[c].token, for |-> calls[c].for]
<1>1. calls[c] \in TokenCall /\ calls[c] # Idle
    BY TokenCallAt DEF RefreshUser, At, TokenPcs
<1>2. pc \in {"refresh.rotate", "refresh.revoke"}
    OBVIOUS
<1>3. GoesTo(c, pc)
    BY DEF RefreshUser
<1> HIDE DEF pc
<1>4. state \in CallState /\ state.pc = pc /\ state.token = calls[c].token
    BY <1>1, <1>2, CallKinds DEF CallState, TokenCall, TokenPcs, RevokingPcs
<1>5. Starts(c, state)
    BY <1>1, <1>3, TokenGoesOn
<1> HIDE DEF state
<1>6. calls'[c] = state
    BY <1>4, <1>5, OneCallTyped DEF IInv, TypeOK
<1>7. ProceedsTo(c)
    BY <1>1, <1>2, <1>4, <1>6 DEF ProceedsTo, RefreshUser
<1> QED
    BY <1>4, <1>5, <1>7, QuietlyMoves, NothingWritten DEF RefreshUser

LEMMA RevokeSessionMoves ==
    ASSUME IInv, NEW c \in Calls, RevokeSession(c)
    PROVE  ServerMoves
<1> DEFINE s == calls[c].token[1]
           row == [sessions[s] EXCEPT !.status = "revoked"]
<1>1. calls[c] # Idle /\ s \in Sessions /\ sessions[s] \in Session /\ sessions[s] # NoSession
    BY TokenCallAt DEF RevokeSession, TokenPcs, RevokingPcs
<1>2. /\ row \in Session /\ SameSession(s, row) /\ row.rotations = sessions[s].rotations
      /\ row.status = "revoked"
    BY <1>1 DEF Session, SameSession
<1>3. UNCHANGED sessions \/ sessions' = [sessions EXCEPT ![s] = row]
    BY <1>1 DEF RevokeSession, AwaitsWrite, IInv, TypeOK, ServerTypeOK
<1>4. Throws(c) \/ Answers(c, At(c, "logout.revoke"), NoToken)
    BY DEF RevokeSession, AwaitsWrite
<1>5. UNCHANGED <<env, parties, users, otps, uses>>
    BY DEF RevokeSession
<1> HIDE DEF row, s
<1>6. CallsMove
    BY <1>1, <1>4, ThrowsMove, AnswersMove DEF At
<1>7. SessionsMove
    BY <1>1, <1>2, <1>3, <1>5 DEF SessionsMove, Ends
<1> QED
    BY <1>5, <1>6, <1>7 DEF ServerMoves, UsersMove, OtpsMove, IInv, TypeOK, ServerTypeOK

LEMMA RotatedRow ==
    ASSUME NEW row \in Session, NEW n \in Nat
    PROVE  /\ [row EXCEPT !.rotations = n, !.expired = FALSE] \in Session
           /\ [row EXCEPT !.rotations = n, !.expired = FALSE].rotations = n
           /\ [row EXCEPT !.rotations = n, !.expired = FALSE].status = row.status
           /\ [row EXCEPT !.rotations = n, !.expired = FALSE].phone = row.phone
           /\ [row EXCEPT !.rotations = n, !.expired = FALSE].code = row.code
           /\ [row EXCEPT !.rotations = n, !.expired = FALSE].device = row.device
BY DEF Session

\* A session is moved on to its next token.
LEMMA Rotation ==
    ASSUME IInv, NEW c \in Calls, calls[c] # Idle,
           NEW s \in Sessions, sessions[s] \in Session, sessions[s].status = "live",
           NEW n \in 0..MaxRotations, sessions[s].rotations = n, n < MaxRotations,
           sessions' = [sessions EXCEPT ![s].rotations = @ + 1, ![s].expired = FALSE],
           uses' = [uses EXCEPT ![<<s, n>>] = @ + 1],
           Throws(c) \/ Answers(c, TRUE, <<s, n + 1>>),
           UNCHANGED <<env, parties, users, otps>>
    PROVE  ServerMoves
<1> DEFINE row == [sessions[s] EXCEPT !.rotations = n + 1, !.expired = FALSE]
<1>1. n + 1 \in 0..MaxRotations /\ n + 1 \in Nat
    BY AuthServerAssumption
<1>2. row \in Session /\ row.rotations = n + 1 /\ row.status = "live"
    BY <1>1, RotatedRow
<1>3. SameSession(s, row)
    BY <1>1, RotatedRow DEF SameSession
<1>4. sessions' = [sessions EXCEPT ![s] = row]
    BY DEF IInv, TypeOK, ServerTypeOK
<1>5. sessions'[s] = row
    BY <1>4 DEF IInv, TypeOK, ServerTypeOK
<1> HIDE DEF row
<1>6. SessionsMove
  <2>1. sessions[s] # NoSession
    BY DEF NoSession
  <2>2. Rotates(s)
    BY <1>2, <1>3, <1>4, <2>1 DEF Rotates
  <2> QED
    BY <2>2 DEF SessionsMove
<1>7. Issued(<<s, n + 1>>)'
    BY <1>1, <1>2, <1>5 DEF Issued, NoSession
<1>8. <<s, n + 1>> \in Token
    BY <1>1 DEF Token
<1>9. CallsMove
    BY <1>7, <1>8, ThrowsMove, AnswersMove
<1> QED
    BY <1>6, <1>9 DEF ServerMoves, UsersMove, OtpsMove, IInv, TypeOK, ServerTypeOK

LEMMA RotateSessionMoves ==
    ASSUME IInv, NEW c \in Calls, RotateSession(c)
    PROVE  ServerMoves
<1>1. /\ calls[c] # Idle /\ calls[c].token \in Token
      /\ calls[c].token[1] \in Sessions /\ sessions[calls[c].token[1]] \in Session
    BY TokenCallAt DEF RotateSession, At, TokenPcs
<1>2. PICK s \in Sessions, n \in 0..MaxRotations : calls[c].token = <<s, n>>
    BY <1>1 DEF Token
<1>3. /\ calls[c].token[1] = s /\ calls[c].token[2] = n
      /\ NextToken(calls[c].token) = <<s, n + 1>>
    BY <1>2 DEF NextToken
<1>4. \/ UNCHANGED <<sessions, uses>> /\ Throws(c)
      \/ /\ sessions[s].status = "live" /\ sessions[s].rotations = n
         /\ n < MaxRotations
         /\ sessions' = [sessions EXCEPT ![s].rotations = @ + 1, ![s].expired = FALSE]
         /\ uses' = [uses EXCEPT ![<<s, n>>] = @ + 1]
         /\ Throws(c) \/ Answers(c, TRUE, <<s, n + 1>>)
  <2>1. CASE sessions[s].status = "live" /\ sessions[s].rotations = n
    <3>1. /\ n < MaxRotations
          /\ AwaitsWrite(/\ sessions' = [sessions EXCEPT ![s].rotations = @ + 1,
                                                         ![s].expired = FALSE]
                         /\ uses' = [uses EXCEPT ![<<s, n>>] = @ + 1],
                         UNCHANGED <<sessions, uses>>,
                         Answers(c, TRUE, <<s, n + 1>>), Throws(c))
        BY <1>2, <1>3, <2>1 DEF RotateSession
    <3> QED
        BY <2>1, <3>1 DEF AwaitsWrite
  <2>2. CASE ~(sessions[s].status = "live" /\ sessions[s].rotations = n)
    BY <1>3, <2>2 DEF RotateSession
  <2> QED
    BY <2>1, <2>2
<1>5. UNCHANGED <<env, parties, users, otps>>
    BY DEF RotateSession
<1>6. sessions[s] \in Session
    BY <1>1, <1>3
<1>7. CASE UNCHANGED <<sessions, uses>> /\ Throws(c)
    BY <1>1, <1>5, <1>7, ThrowsMove, NothingWritten
<1> QED
    BY <1>1, <1>4, <1>5, <1>6, <1>7, Rotation

LEMMA ProceedsMoves ==
    ASSUME IInv, NEW c \in Calls, ServerProceeds(c)
    PROVE  ServerMoves
BY CreatePartyMoves, CreateUserMoves, CountOtpsMoves, SaveOtpMoves, SendOtpMoves,
   ConsumeOtpMoves, SetPasswordMoves, MarkPhoneVerifiedMoves, CreateSessionMoves,
   RefreshUserMoves, RevokeSessionMoves, RotateSessionMoves DEF ServerProceeds

-----------------------------------------------------------------------------
(* So is what arrives, and what the apps call *)

LEMMA CallsKept ==
    ASSUME IInv, UNCHANGED calls
    PROVE  CallsMove
BY DEF CallsMove, IInv, TypeOK, ServerTypeOK, CallState

\* A free slot is taken by a handler.
LEMMA FreeSlot ==
    ASSUME NEW c \in Calls, Free(c)
    PROVE  calls[c] = Idle
BY DEF Free, First

LEMMA BeginsMove ==
    ASSUME IInv, NEW c \in Calls, Free(c), NEW state \in CallState, Starts(c, state),
           Begins(c), UNCHANGED <<env, parties, users, otps, sessions, uses>>
    PROVE  ServerMoves
BY QuietlyMoves, NothingWritten

LEMMA PhoneBegins ==
    ASSUME IInv, NEW c \in Calls, Free(c), NEW p \in Phones, NEW pc \in {"reg.party", "otp.count"},
           Starts(c, [pc |-> pc, phone |-> p, for |-> Nobody]),
           UNCHANGED <<env, parties, users, otps, sessions, uses>>
    PROVE  ServerMoves
<1> DEFINE state == [pc |-> pc, phone |-> p, for |-> Nobody]
<1>1. state \in CallState /\ state.pc = pc
    BY CallKinds DEF CallState, PhoneCall, PhonePcs
<1>2. Starts(c, state)
    OBVIOUS
<1> HIDE DEF state
<1>3. calls'[c] = state
    BY <1>1, <1>2, OneCallTyped DEF IInv, TypeOK
<1>4. Begins(c)
    BY <1>1, <1>3, FreeSlot DEF Begins
<1> QED
    BY <1>1, <1>2, <1>4, BeginsMove

LEMMA LoginBegins ==
    ASSUME IInv, NEW c \in Calls, Free(c), NEW p \in Phones, users[p].status = "active",
           NEW k \in Codes \cup {NoCode}, NEW reset \in BOOLEAN, NEW for \in Waiting,
           NEW pc, \/ pc = "code.consume" /\ k \in Codes
                   \/ pc = "session.create" /\ k = NoCode,
           Starts(c, [pc |-> pc, phone |-> p, code |-> k, reset |-> reset,
                      verified |-> users[p].verified, for |-> for]),
           UNCHANGED <<env, parties, users, otps, sessions, uses>>
    PROVE  ServerMoves
<1> DEFINE state == [pc |-> pc, phone |-> p, code |-> k, reset |-> reset,
                     verified |-> users[p].verified, for |-> for]
<1>1. users[p] # NoUser /\ users[p].verified \in BOOLEAN
    BY DEF NoUser, User, IInv, TypeOK, ServerTypeOK
<1>2. state \in CallState
    BY <1>1, CallKinds DEF CallState, CodeCall, CodePcs, PastCode
<1>3. state.pc = pc /\ state.phone = p /\ state.code = k
    OBVIOUS
<1>4. Starts(c, state)
    OBVIOUS
<1> HIDE DEF state
<1>5. calls'[c] = state
    BY <1>2, <1>4, OneCallTyped DEF IInv, TypeOK
<1>6. Begins(c)
    BY <1>1, <1>3, <1>5, FreeSlot DEF Begins
<1> QED
    BY <1>2, <1>4, <1>6, BeginsMove

LEMMA EnterCodeMoves ==
    ASSUME IInv, NEW c \in Calls, NEW p \in Phones, NEW k \in Codes, NEW reset \in BOOLEAN,
           NEW for \in Waiting, EnterCode(c, p, k, reset, for)
    PROVE  ServerMoves
BY LoginBegins DEF EnterCode

LEMMA LoginWithPasswordMoves ==
    ASSUME IInv, NEW c \in Calls, NEW p \in Phones, NEW for \in Waiting,
           LoginWithPassword(c, p, for)
    PROVE  ServerMoves
BY LoginBegins DEF LoginWithPassword

\* A call with a token: a handler begins if the token is found, or the answer is there.
LEMMA TokenBegins ==
    ASSUME IInv, NEW c \in Calls, Free(c), NEW token \in Token \cup {NoToken},
           NEW for \in Waiting, NEW ok \in BOOLEAN,
           NEW pc \in {"refresh.user", "logout.revoke"},
           \/ /\ Found(token)
              /\ Starts(c, [pc |-> pc, token |-> token, for |-> for])
           \/ Starts(c, [pc |-> "reply", for |-> for, ok |-> ok, token |-> NoToken]),
           UNCHANGED <<env, parties, users, otps, sessions, uses>>
    PROVE  ServerMoves
<1>1. CASE Found(token) /\ Starts(c, [pc |-> pc, token |-> token, for |-> for])
  <2> DEFINE state == [pc |-> pc, token |-> token, for |-> for]
  <2>1. state \in CallState
    <3>1. token \in Token
        BY <1>1 DEF Found
    <3> QED
        BY <3>1, CallKinds DEF CallState, TokenCall, TokenPcs, RevokingPcs
  <2>2. state.pc = pc /\ state.token = token /\ Starts(c, state)
    BY <1>1
  <2> HIDE DEF state
  <2>3. calls'[c] = state
    BY <2>1, <2>2, OneCallTyped DEF IInv, TypeOK
  <2>4. Begins(c)
    BY <1>1, <2>2, <2>3, FreeSlot DEF Begins
  <2> QED
    BY <2>1, <2>2, <2>4, BeginsMove
<1>2. CASE Starts(c, [pc |-> "reply", for |-> for, ok |-> ok, token |-> NoToken])
  <2> DEFINE state == [pc |-> "reply", for |-> for, ok |-> ok, token |-> NoToken]
  <2>1. state \in CallState
    BY CallKinds DEF CallState, ReplyCall
  <2>2. state.pc = "reply" /\ state.token = NoToken /\ Starts(c, state)
    BY <1>2
  <2> HIDE DEF state
  <2>3. calls'[c] = state
    BY <2>1, <2>2, OneCallTyped DEF IInv, TypeOK
  <2>4. Begins(c)
    BY <2>2, <2>3, FreeSlot DEF Begins
  <2> QED
    BY <2>1, <2>2, <2>4, BeginsMove
<1> QED
    BY <1>1, <1>2

LEMMA RefreshMoves ==
    ASSUME IInv, NEW c \in Calls, NEW token \in Token \cup {NoToken}, NEW for \in Waiting,
           Refresh(c, token, for)
    PROVE  ServerMoves
BY TokenBegins DEF Refresh

LEMMA LogoutMoves ==
    ASSUME IInv, NEW c \in Calls, NEW token \in Token \cup {NoToken}, NEW for \in Waiting,
           Logout(c, token, for)
    PROVE  ServerMoves
BY TokenBegins DEF Logout

LEMMA HourPassesMoves ==
    ASSUME IInv, NEW p \in Phones, HourPasses(p)
    PROVE  ServerMoves
<1> DEFINE Old(k) == [otps[k] EXCEPT !.recent = FALSE,
                                     !.status = IF @ = "consumed" THEN @ ELSE "expired"]
<1>1. ASSUME NEW k \in Codes, k \in RecentCodes(p)
      PROVE  /\ otps[k] \in Otp /\ otps[k] # NoOtp
             /\ Old(k) \in Otp /\ Old(k).phone = otps[k].phone /\ ~Old(k).recent
             /\ otps[k].status = "consumed" => Old(k).status = "consumed"
  <2>1. otps[k] \in Otp \cup {NoOtp} /\ otps[k] # NoOtp
    BY <1>1 DEF RecentCodes, IInv, TypeOK, ServerTypeOK
  <2>2. otps[k] \in Otp
    BY <2>1
  <2> QED
    BY <2>1, <2>2 DEF Otp
<1>2. otps' = [k \in Codes |-> IF k \notin RecentCodes(p) THEN otps[k] ELSE Old(k)]
    BY DEF HourPasses
<1> HIDE DEF Old
<1>0. NoOtp \notin Otp
    BY DEF Otp, NoOtp
<1>3. ASSUME NEW k \in Codes
      PROVE  /\ otps'[k] \in Otp \cup {NoOtp}
             /\ \/ otps'[k] = otps[k]
                \/ /\ otps[k] # NoOtp /\ otps'[k] # NoOtp
                   /\ otps'[k].phone = otps[k].phone /\ ~otps'[k].recent
                   /\ otps[k].status = "consumed" => otps'[k].status = "consumed"
  <2>1. CASE k \notin RecentCodes(p)
    BY <1>2, <2>1 DEF IInv, TypeOK, ServerTypeOK
  <2>2. CASE k \in RecentCodes(p)
    <3>1. otps'[k] = Old(k)
        BY <1>2, <2>2
    <3>2. Old(k) # NoOtp
        BY <1>0, <1>1, <2>2
    <3> QED
        BY <1>1, <2>2, <3>1, <3>2
  <2> QED
    BY <2>1, <2>2
<1>4. Ages
    BY <1>2, <1>3 DEF Ages, HourPasses
<1> QED
    BY <1>4, CallsKept DEF HourPasses, ServerMoves, SessionsMove, UsersMove, OtpsMove,
        IInv, TypeOK, ServerTypeOK

LEMMA SessionExpiresMoves ==
    ASSUME IInv, NEW s \in Sessions, SessionExpires(s)
    PROVE  ServerMoves
<1> DEFINE row == [sessions[s] EXCEPT !.expired = TRUE]
<1>1. sessions[s] # NoSession /\ sessions[s] \in Session
    BY DEF SessionExpires, IInv, TypeOK, ServerTypeOK
<1>2. /\ row \in Session /\ SameSession(s, row) /\ row.rotations = sessions[s].rotations
      /\ row.status = sessions[s].status
    BY <1>1 DEF Session, SameSession
<1>3. sessions' = [sessions EXCEPT ![s] = row] /\ UNCHANGED uses
    BY DEF SessionExpires, IInv, TypeOK, ServerTypeOK
<1> HIDE DEF row
<1>4. SessionsMove
    BY <1>1, <1>2, <1>3 DEF SessionsMove, Ends
<1> QED
    BY <1>4, CallsKept DEF SessionExpires, ServerMoves, UsersMove, OtpsMove,
        IInv, TypeOK, ServerTypeOK

LEMMA BlockMoves ==
    ASSUME IInv, NEW p \in Phones, Block(p)
    PROVE  ServerMoves
<1> DEFINE row == [users[p] EXCEPT !.status = "blocked"]
<1>1. users[p] \in User
    BY DEF Block, IInv, TypeOK, ServerTypeOK, NoUser
<1>2. row \in User /\ row.party = users[p].party
    BY <1>1 DEF User
<1>3. users' = [users EXCEPT ![p] = row]
    BY DEF Block, IInv, TypeOK, ServerTypeOK
<1> HIDE DEF row
<1>4. UsersMove
    BY <1>2, <1>3 DEF UsersMove
<1> QED
    BY <1>4, CallsKept DEF Block, ServerMoves, SessionsMove, OtpsMove,
        IInv, TypeOK, ServerTypeOK

LEMMA ServerStepsMove ==
    ASSUME IInv, ServerSteps
    PROVE  ServerMoves
<1>1. CASE \E c \in Calls : ServerProceeds(c)
    BY <1>1, ProceedsMoves
<1>2. CASE ServerArrivals
  <2>1. CASE \E p \in Phones : HourPasses(p) \/ Block(p)
    BY <2>1, HourPassesMoves, BlockMoves
  <2>2. CASE \E s \in Sessions : SessionExpires(s)
    BY <2>2, SessionExpiresMoves
  <2>3. CASE \E c \in Calls, p \in Phones : Register(c, p) \/ RequestOtp(c, p)
    BY <2>3, PhoneBegins DEF Register, RequestOtp
  <2>4. CASE \E c \in Calls, p \in Phones, k \in Codes, reset \in BOOLEAN :
                EnterCode(c, p, k, reset, Nobody)
    BY <2>4, EnterCodeMoves DEF Waiting
  <2> QED
    BY <1>2, <2>1, <2>2, <2>3, <2>4 DEF ServerArrivals
<1> QED
    BY <1>1, <1>2 DEF ServerSteps

-----------------------------------------------------------------------------
(* What the apps' steps do *)

App == [status : {"loading", "authenticated", "unauthenticated"},
        mem : Token \cup {NoToken}, access : Token \cup {NoToken}]

AppsFine == apps \in [Devices -> App] /\ \A d \in Devices : AppHolds(apps[d])
ActsFine ==
    /\ acts \in [Devices -> [Activities -> ActStates]]
    /\ \A d \in Devices, a \in Activities : ActHolds(acts[d][a])
StoredFine ==
    /\ stored \in [Devices \cup {Jar} -> Token \cup {NoToken}]
    /\ \A k \in Devices \cup {Jar} : IssuedOrNone(stored[k])
RequestsFine == requests \in [Requests -> Request \cup {NoRequest}] /\ RequestsRunOnce

ClientsFine == AppsFine /\ ActsFine /\ StoredFine /\ RequestsFine /\ dead \subseteq Token

LEMMA ClientsAreFine ==
    ASSUME IInv
    PROVE  ClientsFine
BY DEF IInv, TypeOK, AppsHoldIssued, ClientsFine, AppsFine, ActsFine, StoredFine, RequestsFine, App

LEMMA FineClients ==
    ASSUME ServerTypeOK, CallsHoldIssued, CallsAwaited, ClientsFine
    PROVE  IInv
BY DEF IInv, TypeOK, AppsHoldIssued, ClientsFine, AppsFine, ActsFine, StoredFine, RequestsFine, App

\* As long as the sessions stay, so does what is issued.
LEMMA FineApps ==
    ASSUME IInv, UNCHANGED sessions, NEW d \in Devices, NEW row \in App, AppHolds(row),
           apps' = [apps EXCEPT ![d] = row]
    PROVE  AppsFine'
BY ClientsAreFine DEF ClientsFine, AppsFine, AppHolds, IssuedOrNone, Issued

LEMMA SameApps ==
    ASSUME IInv, UNCHANGED <<sessions, apps>>
    PROVE  AppsFine'
BY ClientsAreFine DEF ClientsFine, AppsFine, AppHolds, IssuedOrNone, Issued

LEMMA FineActs ==
    ASSUME IInv, UNCHANGED sessions, NEW d \in Devices, NEW a \in Activities,
           NEW state \in ActStates, ActHolds(state), Goes(d, a, state)
    PROVE  ActsFine'
<1>1. acts \in [Devices -> [Activities -> ActStates]]
    BY ClientsAreFine DEF ClientsFine, ActsFine
<1>2. acts' \in [Devices -> [Activities -> ActStates]]
    BY <1>1 DEF Goes
<1>3. ASSUME NEW e \in Devices, NEW b \in Activities
      PROVE  acts'[e][b] = acts[e][b] \/ acts'[e][b] = state
    BY <1>1 DEF Goes
<1>4. ASSUME NEW act, ActHolds(act) PROVE ActHolds(act)'
    BY <1>4 DEF ActHolds, IssuedOrNone, Issued
<1>5. \A e \in Devices, b \in Activities : ActHolds(acts[e][b])
    BY ClientsAreFine DEF ClientsFine, ActsFine
<1>6. ASSUME NEW e \in Devices, NEW b \in Activities PROVE ActHolds(acts[e][b])'
    BY <1>3, <1>5 DEF ActHolds, IssuedOrNone, Issued
<1> QED
    BY <1>2, <1>6 DEF ActsFine

LEMMA SameActs ==
    ASSUME IInv, UNCHANGED <<sessions, acts>>
    PROVE  ActsFine'
BY ClientsAreFine DEF ClientsFine, ActsFine, ActHolds, IssuedOrNone, Issued

LEMMA FineStored ==
    ASSUME IInv, UNCHANGED sessions, NEW k \in Devices \cup {Jar},
           NEW token \in Token \cup {NoToken}, IssuedOrNone(token),
           stored' = [stored EXCEPT ![k] = token]
    PROVE  StoredFine'
BY ClientsAreFine DEF ClientsFine, StoredFine, IssuedOrNone, Issued

LEMMA SameStored ==
    ASSUME IInv, UNCHANGED <<sessions, stored>>
    PROVE  StoredFine'
BY ClientsAreFine DEF ClientsFine, StoredFine, IssuedOrNone, Issued

\* One request changes, or those of one device do.
LEMMA FineRequest ==
    ASSUME IInv, NEW r \in Requests, NEW row \in Request, NotRunYet(row), row.runs <= 1,
           requests' = [requests EXCEPT ![r] = row]
    PROVE  RequestsFine'
BY ClientsAreFine DEF ClientsFine, RequestsFine, RequestsRunOnce, NotRunYet

LEMMA SameRequests ==
    ASSUME IInv, UNCHANGED requests
    PROVE  RequestsFine'
BY ClientsAreFine DEF ClientsFine, RequestsFine, RequestsRunOnce, NotRunYet

LEMMA ActTypes ==
    ASSUME IInv, NEW d \in Devices, NEW a \in Activities
    PROVE  /\ acts[d][a] \in ActStates /\ ActHolds(acts[d][a])
           /\ acts[d][a].at \in {"storing", "applying"} =>
                 acts[d][a] \in [at : {"storing", "applying"}, token : Token]
           /\ acts[d][a].at \in {"leaving", "removing", "clearing"} =>
                 acts[d][a] \in [at : {"leaving", "removing", "clearing"},
                                 token : Token \cup {NoToken}]
<1>1. acts[d][a] \in ActStates /\ ActHolds(acts[d][a])
    BY ClientsAreFine DEF ClientsFine, ActsFine
<1> QED
    BY <1>1 DEF ActStates, Resting

LEMMA StoreTokenFine ==
    ASSUME IInv, NEW d \in Devices, NEW a \in Activities, StoreToken(d, a)
    PROVE  ServerMoves /\ ClientsFine'
<1>1. PICK token \in Token :
         acts[d][a] = [at |-> "storing", token |-> token] /\ IssuedOrNone(token)
  <2>1. /\ acts[d][a] \in [at : {"storing", "applying"}, token : Token]
        /\ acts[d][a].at = "storing"
        /\ IssuedOrNone(acts[d][a].token)
    BY ActTypes DEF StoreToken, In, ActHolds
  <2>2. acts[d][a] = [at |-> "storing", token |-> acts[d][a].token]
    BY <2>1
  <2> QED
    BY <2>1, <2>2
<1>2. /\ stored' = [stored EXCEPT ![d] = token]
      /\ Goes(d, a, [at |-> "applying", token |-> token])
      /\ UNCHANGED <<exceptSessions, calls, apps, dead, requests>>
    BY <1>1 DEF StoreToken
<1>3. ActsFine'
  <2> DEFINE state == [at |-> "applying", token |-> token]
  <2>1. state \in ActStates /\ ActHolds(state)
    BY <1>1 DEF ActStates, ActHolds
  <2> HIDE DEF state
  <2> QED
    BY <1>2, <2>1, FineActs DEF exceptSessions, state
<1>4. StoredFine'
    BY <1>1, <1>2, FineStored DEF exceptSessions
<1> QED
    BY <1>2, <1>3, <1>4, SameApps, SameRequests, CallsKept, NothingWritten, ClientsAreFine
        DEF exceptSessions, ClientsFine

LEMMA ResumedFine ==
    ASSUME IInv, NEW d \in Devices, NEW refreshed \in BOOLEAN, requests' = Resumed(d, refreshed),
           NEW access \in Token \cup {NoToken}, apps'[d].access = access
    PROVE  RequestsFine'
<1>1. RequestsFine
    BY ClientsAreFine DEF ClientsFine
<1>2. ASSUME NEW r \in Requests
      PROVE  /\ requests'[r] \in Request \cup {NoRequest}
             /\ requests'[r] # NoRequest => NotRunYet(requests'[r]) /\ requests'[r].runs <= 1
  <2> DEFINE Again == [requests[r] EXCEPT !.at = "sent", !.retried = TRUE, !.access = access]
             Failed == [requests[r] EXCEPT !.at = "failed"]
  <2>1. requests[r] \in Request \cup {NoRequest}
    BY <1>1 DEF RequestsFine
  <2>2. requests'[r] = IF requests[r].at = "waiting" /\ requests[r].device = d
                       THEN IF refreshed THEN Again ELSE Failed
                       ELSE requests[r]
    BY DEF Resumed
  <2>3. CASE requests[r].at = "waiting" /\ requests[r].device = d
    <3>1. requests[r] \in Request /\ requests[r].runs = 0
        BY <1>1, <2>1, <2>3 DEF NoRequest, RequestsFine, RequestsRunOnce, NotRunYet
    <3>2. Again \in Request /\ Again.runs = 0
        BY <3>1 DEF Request
    <3>3. Failed \in Request /\ Failed.runs = 0
        BY <3>1 DEF Request
    <3> HIDE DEF Again, Failed
    <3> QED
        BY <2>2, <2>3, <3>2, <3>3 DEF NotRunYet
  <2>4. CASE ~(requests[r].at = "waiting" /\ requests[r].device = d)
    BY <1>1, <2>1, <2>2, <2>4 DEF RequestsFine, RequestsRunOnce
  <2> QED
    BY <2>3, <2>4
<1>3. requests' = [r \in Requests |-> requests'[r]]
    BY DEF Resumed
<1>4. requests' \in [Requests -> Request \cup {NoRequest}]
    BY <1>2, <1>3
<1> QED
    BY <1>2, <1>4 DEF RequestsFine, RequestsRunOnce, NotRunYet

LEMMA ApplyTokensFine ==
    ASSUME IInv, NEW d \in Devices, NEW a \in Activities, ApplyTokens(d, a)
    PROVE  ServerMoves /\ ClientsFine'
<1>1. PICK token \in Token : acts[d][a].token = token /\ IssuedOrNone(token)
    BY ActTypes DEF ApplyTokens, In, ActHolds
<1> DEFINE row == [apps[d] EXCEPT !.mem = InMemory(token), !.access = token,
                                  !.status = IF a = "enter" THEN "authenticated" ELSE @]
<1>2. apps \in [Devices -> App]
    BY ClientsAreFine DEF ClientsFine, AppsFine
<1>3. row \in App /\ row.access = token /\ (row.mem = token \/ row.mem = NoToken)
    BY <1>2 DEF App, InMemory
<1>4. apps' = [apps EXCEPT ![d] = row]
    BY <1>1, <1>2 DEF ApplyTokens
<1>5. UNCHANGED <<exceptSessions, calls, stored, dead>> /\ Goes(d, a, Resting)
    BY DEF ApplyTokens
<1> HIDE DEF row
<1>6. AppsFine'
    BY <1>1, <1>3, <1>4, <1>5, FineApps DEF AppHolds, IssuedOrNone, exceptSessions
<1>7. ActsFine'
    BY <1>5, FineActs DEF ActStates, ActHolds, Resting, exceptSessions
<1>8. RequestsFine'
  <2>1. apps'[d].access = token
    BY <1>2, <1>3, <1>4
  <2> QED
    BY <2>1, ResumedFine, SameRequests DEF ApplyTokens
<1> QED
    BY <1>5, <1>6, <1>7, <1>8, SameStored, CallsKept, NothingWritten, ClientsAreFine
        DEF exceptSessions, ClientsFine

\* An activity that leaves a session goes on, with the same token.
LEMMA LeavingGoesOn ==
    ASSUME IInv, UNCHANGED sessions, NEW d \in Devices, NEW a \in Activities,
           acts[d][a].at \in {"leaving", "removing", "clearing"},
           NEW at \in {"leaving", "removing", "clearing"},
           Goes(d, a, [acts[d][a] EXCEPT !.at = at])
    PROVE  ActsFine'
<1>1. PICK token \in Token \cup {NoToken} : acts[d][a].token = token /\ IssuedOrNone(token)
    BY ActTypes DEF ActHolds
<1> DEFINE state == [at |-> at, token |-> token]
<1>2. [acts[d][a] EXCEPT !.at = at] = state
    BY <1>1, ActTypes
<1>3. state \in ActStates /\ ActHolds(state)
    BY <1>1 DEF ActStates, ActHolds
<1> HIDE DEF state
<1> QED
    BY <1>2, <1>3, FineActs

LEMMA RemoveTokenFine ==
    ASSUME IInv, NEW d \in Devices, NEW a \in Activities, RemoveToken(d, a)
    PROVE  ServerMoves /\ ClientsFine'
<1>1. /\ acts[d][a].at = "removing" /\ Goes(d, a, [acts[d][a] EXCEPT !.at = "clearing"])
      /\ stored' = [stored EXCEPT ![d] = NoToken]
      /\ UNCHANGED <<exceptSessions, calls, apps, dead, requests>>
    BY DEF RemoveToken, In
<1>2. ActsFine'
    BY <1>1, LeavingGoesOn DEF exceptSessions
<1>3. StoredFine'
    BY <1>1, FineStored DEF exceptSessions, IssuedOrNone
<1> QED
    BY <1>1, <1>2, <1>3, SameApps, SameRequests, CallsKept, NothingWritten, ClientsAreFine
        DEF exceptSessions, ClientsFine

LEMMA ClearStateFine ==
    ASSUME IInv, NEW d \in Devices, NEW a \in Activities, ClearState(d, a)
    PROVE  ServerMoves /\ ClientsFine'
<1>1. UNCHANGED <<exceptSessions, calls, stored, dead>> /\ Goes(d, a, Resting)
      /\ apps' = [apps EXCEPT ![d] = SignedOut]
    BY DEF ClearState
<1>2. SignedOut \in App /\ AppHolds(SignedOut) /\ SignedOut.access = NoToken
    BY DEF SignedOut, App, AppHolds, IssuedOrNone
<1>3. AppsFine'
    BY <1>1, <1>2, FineApps DEF exceptSessions
<1>4. ActsFine'
    BY <1>1, FineActs DEF ActStates, ActHolds, Resting, exceptSessions
<1>5. RequestsFine'
  <2>1. apps'[d].access = NoToken
    BY <1>1, <1>2, ClientsAreFine DEF ClientsFine, AppsFine
  <2> QED
    BY <2>1, ResumedFine, SameRequests DEF ClearState
<1> QED
    BY <1>1, <1>3, <1>4, <1>5, SameStored, CallsKept, NothingWritten, ClientsAreFine
        DEF exceptSessions, ClientsFine

LEMMA DetachedTyped ==
    ASSUME NEW call \in CallState, call # Idle, call.pc # "reply"
    PROVE  [call EXCEPT !.for = Nobody] \in CallState
<1>1. CASE call \in PhoneCall
    BY <1>1, CallKinds DEF PhoneCall, CallState
<1>2. CASE call \in UserCall
    BY <1>2, CallKinds DEF UserCall, CallState
<1>3. CASE call \in SendCall
    BY <1>3, CallKinds DEF SendCall, CallState
<1>4. CASE call \in CodeCall
  <2>1. [call EXCEPT !.for = Nobody] \in CodeCall
    BY <1>4 DEF CodeCall, Waiting
  <2> QED
    BY <2>1, CallKinds DEF CallState
<1>5. CASE call \in TokenCall
  <2>1. [call EXCEPT !.for = Nobody] \in TokenCall
    BY <1>5 DEF TokenCall, Waiting
  <2> QED
    BY <2>1, CallKinds DEF CallState
<1> QED
    BY <1>1, <1>2, <1>3, <1>4, <1>5, CallKinds DEF CallState, ReplyCall

\* An app gets its answer, or the connection breaks.
LEMMA AnswerTaken ==
    ASSUME IInv, NEW c \in Calls, For(c) # Nobody,
           \/ At(c, "reply") /\ Starts(c, Idle)
           \/ ~At(c, "reply") /\ calls' = [calls EXCEPT ![c].for = Nobody],
           UNCHANGED exceptSessions
    PROVE  ServerMoves
<1>1. calls \in [Calls -> CallState] /\ calls[c] \in CallState /\ calls[c] # Idle
    BY DEF For, IInv, TypeOK, ServerTypeOK, CallState
<1>2. CASE Starts(c, Idle)
  <2>1. Idle \in CallState /\ calls'[c] = Idle
    BY <1>1, <1>2 DEF CallState, Starts
  <2>2. Detaches(c)
    BY <2>1 DEF Detaches
  <2> QED
    BY <1>2, <2>1, <2>2, QuietlyMoves, NothingWritten DEF exceptSessions
<1>3. CASE ~At(c, "reply") /\ calls' = [calls EXCEPT ![c].for = Nobody]
  <2> DEFINE state == [calls[c] EXCEPT !.for = Nobody]
  <2>1. state \in CallState
    BY <1>1, <1>3, DetachedTyped DEF At
  <2>2. Starts(c, state)
    BY <1>1, <1>3 DEF Starts
  <2>3. calls'[c] = state
    BY <1>1, <2>2 DEF Starts
  <2>4. Detaches(c)
    BY <1>1, <1>3, <2>3 DEF Detaches, At
  <2> HIDE DEF state
  <2> QED
    BY <2>1, <2>2, <2>4, QuietlyMoves, NothingWritten DEF exceptSessions
<1> QED
    BY <1>2, <1>3

LEMMA ReceiveFailureFine ==
    ASSUME IInv, NEW c \in Calls, NEW d \in Devices, NEW a \in Activities, ReceiveFailure(c, d, a)
    PROVE  ServerMoves /\ ClientsFine'
<1>1. UNCHANGED <<exceptSessions, apps, stored, dead, requests>>
      /\ Goes(d, a, AfterFailure(d, a))
    BY DEF ReceiveFailure
<1>2. AfterFailure(d, a) \in ActStates /\ ActHolds(AfterFailure(d, a))
    BY DEF AfterFailure, ActStates, Resting, ActHolds, IssuedOrNone
<1>3. ActsFine'
    BY <1>1, <1>2, FineActs DEF exceptSessions
<1>4. For(c) # Nobody
    BY DEF ReceiveFailure, Nobody
<1>5. ServerMoves
    BY <1>1, <1>4, AnswerTaken DEF ReceiveFailure
<1> QED
    BY <1>1, <1>3, <1>5, SameApps, SameStored, SameRequests, ClientsAreFine
        DEF exceptSessions, ClientsFine

LEMMA WaitingFor ==
    ASSUME NEW d \in Devices, NEW a \in Activities
    PROVE  <<d, a>> \in Waiting
BY DEF Waiting

LEMMA ReceiveTokensFine ==
    ASSUME IInv, NEW c \in Calls, NEW d \in Devices, NEW a \in Activities, ReceiveTokens(c, d, a)
    PROVE  ServerMoves /\ ClientsFine'
<1>1. At(c, "reply") /\ For(c) # Nobody /\ Starts(c, Idle) /\ calls[c] \in ReplyCall
      /\ UNCHANGED <<exceptSessions, apps, dead, requests>>
    BY CallTypes DEF ReceiveTokens, Nobody, At, IInv, TypeOK
<1>2. PICK token \in Token : calls[c].token = token /\ IssuedOrNone(token)
  <2>1. AwaitedBy(calls[c], acts[d][a])
    <3>1. For(c)[1] = d /\ For(c)[2] = a
        BY DEF ReceiveTokens
    <3> QED
        BY <1>1, <3>1 DEF IInv, CallsAwaited
  <2>2. calls[c].token # NoToken
    BY <1>1, <2>1 DEF ReceiveTokens, In, At, AwaitedBy, Asked, CodePcs, PastCode
  <2> QED
    BY <1>1, <2>2 DEF ReplyCall, At, IInv, CallsHoldIssued
<1>3. ServerMoves
    BY <1>1, AnswerTaken
<1> DEFINE state == [at |-> IF env.web THEN "applying" ELSE "storing", token |-> token]
<1>4. Goes(d, a, state)
      /\ stored' = IF env.web THEN [stored EXCEPT ![Jar] = token] ELSE stored
    BY <1>2 DEF ReceiveTokens
<1>5. state \in ActStates /\ ActHolds(state)
    BY <1>2 DEF ActStates, ActHolds
<1> HIDE DEF state
<1>6. ActsFine'
    BY <1>1, <1>4, <1>5, FineActs DEF exceptSessions
<1>7. StoredFine'
    BY <1>1, <1>2, <1>4, FineStored, SameStored DEF exceptSessions
<1> QED
    BY <1>1, <1>3, <1>6, <1>7, SameApps, SameRequests, ClientsAreFine
        DEF exceptSessions, ClientsFine

LEMMA SignOutFine ==
    ASSUME IInv, NEW c \in Calls, NEW d \in Devices, NEW a \in Activities, SignOut(c, d, a)
    PROVE  ServerMoves /\ ClientsFine'
<1>1. PICK token \in Token \cup {NoToken} :
         /\ token = IF env.web THEN stored[Jar] ELSE apps[d].mem
         /\ IssuedOrNone(token)
    BY ClientsAreFine DEF ClientsFine, StoredFine, AppsFine, AppHolds, App
<1> DEFINE state == [at |-> "leaving", token |-> token]
<1>2. Logout(c, token, <<d, a>>) /\ Goes(d, a, state) /\ UNCHANGED <<apps, stored, dead, requests>>
    BY <1>1 DEF SignOut
<1>3. state \in ActStates /\ ActHolds(state)
    BY <1>1 DEF ActStates, ActHolds
<1> HIDE DEF state
<1>4. ServerMoves /\ UNCHANGED sessions
    BY <1>2, WaitingFor, LogoutMoves DEF Logout
<1>5. ActsFine'
    BY <1>2, <1>3, <1>4, FineActs
<1> QED
    BY <1>2, <1>4, <1>5, SameApps, SameStored, SameRequests, ClientsAreFine DEF ClientsFine

LEMMA LoggedOutFine ==
    ASSUME IInv, NEW c \in Calls, NEW d \in Devices, NEW a \in Activities, LoggedOut(c, d, a)
    PROVE  ServerMoves /\ ClientsFine'
<1>1. /\ acts[d][a].at = "leaving" /\ For(c) # Nobody
      /\ UNCHANGED <<exceptSessions, apps, dead, requests>>
      /\ Goes(d, a, [acts[d][a] EXCEPT !.at = IF env.web THEN "clearing" ELSE "removing"])
    BY DEF LoggedOut, In, Nobody
<1>2. ServerMoves
    BY <1>1, AnswerTaken DEF LoggedOut
<1>3. ActsFine'
    BY <1>1, LeavingGoesOn DEF exceptSessions
<1>4. StoredFine'
    BY <1>1, FineStored, SameStored DEF LoggedOut, exceptSessions, IssuedOrNone
<1> QED
    BY <1>1, <1>2, <1>3, <1>4, SameApps, SameRequests, ClientsAreFine
        DEF exceptSessions, ClientsFine

LEMMA BootstrapFine ==
    ASSUME IInv, NEW c \in Calls, NEW d \in Devices, Bootstrap(c, d)
    PROVE  ServerMoves /\ ClientsFine'
<1>1. UNCHANGED <<stored, dead, requests>>
    BY DEF Bootstrap
<1>2. CASE /\ apps' = [apps EXCEPT ![d].status = "unauthenticated"]
           /\ UNCHANGED <<env, parties, users, otps, sessions, uses, calls, acts>>
  <2> DEFINE row == [apps[d] EXCEPT !.status = "unauthenticated"]
  <2>1. apps \in [Devices -> App] /\ AppHolds(apps[d])
    BY ClientsAreFine DEF ClientsFine, AppsFine
  <2>2. row \in App /\ AppHolds(row)
    BY <2>1 DEF App, AppHolds
  <2>3. apps' = [apps EXCEPT ![d] = row]
    BY <1>2, <2>1
  <2> HIDE DEF row
  <2>4. AppsFine'
    BY <1>2, <2>2, <2>3, FineApps
  <2> QED
    BY <1>1, <1>2, <2>4, SameActs, SameStored, SameRequests, CallsKept, NothingWritten,
        ClientsAreFine DEF ClientsFine
<1>3. CASE /\ Refresh(c, stored[Store(d)], <<d, "enter">>)
           /\ Goes(d, "enter", [at |-> "asking"]) /\ UNCHANGED apps
  <2>1. stored[Store(d)] \in Token \cup {NoToken}
    BY ClientsAreFine DEF ClientsFine, StoredFine, Store
  <2>2. ServerMoves /\ UNCHANGED sessions
    BY <1>3, <2>1, WaitingFor, RefreshMoves DEF Refresh, Activities
  <2>3. ActsFine'
    BY <1>3, <2>2, FineActs DEF ActStates, ActHolds, Activities
  <2> QED
    BY <1>1, <1>3, <2>2, <2>3, SameApps, SameStored, SameRequests, ClientsAreFine
        DEF ClientsFine
<1> QED
    BY <1>2, <1>3 DEF Bootstrap

LEMMA LoginFine ==
    ASSUME IInv, NEW c \in Calls, NEW d \in Devices, NEW p \in Phones, Login(c, d, p)
    PROVE  ServerMoves /\ ClientsFine'
<1>1. ServerMoves /\ UNCHANGED sessions
    BY WaitingFor, LoginWithPasswordMoves, EnterCodeMoves
        DEF Login, LoginWithPassword, EnterCode, Activities
<1>2. ActsFine'
    BY <1>1, FineActs DEF Login, ActStates, ActHolds, Activities
<1> QED
    BY <1>1, <1>2, SameApps, SameStored, SameRequests, ClientsAreFine DEF Login, ClientsFine

LEMMA SendRequestFine ==
    ASSUME IInv, NEW r \in Requests, NEW d \in Devices, SendRequest(r, d)
    PROVE  ServerMoves /\ ClientsFine'
<1> DEFINE row == [at |-> "sent", device |-> d, runs |-> 0, retried |-> FALSE,
                   access |-> apps[d].access]
<1>1. row \in Request /\ NotRunYet(row) /\ row.runs <= 1
    BY ClientsAreFine DEF ClientsFine, AppsFine, App, Request, NotRunYet
<1>2. /\ requests' = [requests EXCEPT ![r] = row]
      /\ UNCHANGED <<exceptSessions, calls, apps, acts, stored, dead>>
    BY DEF SendRequest
<1> HIDE DEF row
<1>3. RequestsFine'
    BY <1>1, <1>2, FineRequest
<1> QED
    BY <1>2, <1>3, SameApps, SameActs, SameStored, CallsKept, NothingWritten, ClientsAreFine
        DEF exceptSessions, ClientsFine

LEMMA RequestRow ==
    ASSUME IInv, NEW r \in Requests, requests[r] # NoRequest
    PROVE  /\ requests \in [Requests -> Request \cup {NoRequest}]
           /\ requests[r] \in Request /\ NotRunYet(requests[r]) /\ requests[r].runs <= 1
BY ClientsAreFine DEF ClientsFine, RequestsFine, RequestsRunOnce

LEMMA RefusedRow ==
    ASSUME NEW row \in Request, row.runs = 0
    PROVE  /\ [row EXCEPT !.at = "refused"] \in Request
           /\ NotRunYet([row EXCEPT !.at = "refused"])
           /\ [row EXCEPT !.at = "refused"].runs <= 1
BY DEF Request, NotRunYet

LEMMA RanRow ==
    ASSUME NEW row \in Request, NEW n \in Nat
    PROVE  /\ [row EXCEPT !.at = "ran", !.runs = n] \in Request
           /\ [row EXCEPT !.at = "ran", !.runs = n].at = "ran"
           /\ [row EXCEPT !.at = "ran", !.runs = n].runs = n
BY DEF Request

LEMMA VerifyAccessFine ==
    ASSUME IInv, NEW r \in Requests, VerifyAccess(r)
    PROVE  ServerMoves /\ ClientsFine'
<1> DEFINE old == requests[r]
           refused == [old EXCEPT !.at = "refused"]
           ran == [old EXCEPT !.at = "ran", !.runs = old.runs + 1]
<1>1. old \in Request /\ old.runs = 0
    BY RequestRow DEF VerifyAccess, NoRequest, NotRunYet
<1>2. old.runs + 1 \in Nat /\ old.runs + 1 = 1
    BY <1>1
<1>3. requests' = [requests EXCEPT ![r] = refused] \/ requests' = [requests EXCEPT ![r] = ran]
  <2>1. requests \in [Requests -> Request \cup {NoRequest}]
    BY ClientsAreFine DEF ClientsFine, RequestsFine
  <2> QED
    BY <2>1 DEF VerifyAccess
<1>4. refused \in Request /\ NotRunYet(refused) /\ refused.runs <= 1
    BY <1>1, RefusedRow
<1>5. ran \in Request /\ NotRunYet(ran) /\ ran.runs <= 1
  <2>1. ran \in Request /\ ran.at = "ran" /\ ran.runs = old.runs + 1
    BY <1>1, <1>2, RanRow
  <2> HIDE DEF ran
  <2> QED
    BY <1>2, <2>1 DEF NotRunYet
<1>6. UNCHANGED <<exceptSessions, calls, apps, acts, stored, dead>>
    BY DEF VerifyAccess
<1> HIDE DEF refused, ran
<1>7. RequestsFine'
    BY <1>3, <1>4, <1>5, FineRequest
<1> QED
    BY <1>6, <1>7, SameApps, SameActs, SameStored, CallsKept, NothingWritten, ClientsAreFine
        DEF exceptSessions, ClientsFine

\* A request moves on without being run.
LEMMA RequestGoesOn ==
    ASSUME IInv, NEW r \in Requests, requests[r] # NoRequest,
           NEW at \in {"waiting", "done", "failed"},
           at = "waiting" => requests[r].at = "refused",
           requests' = [requests EXCEPT ![r].at = at]
    PROVE  RequestsFine'
<1> DEFINE row == [requests[r] EXCEPT !.at = at]
<1>1. row \in Request /\ NotRunYet(row) /\ row.runs <= 1
    BY RequestRow DEF Request, NotRunYet
<1>2. requests' = [requests EXCEPT ![r] = row]
    BY RequestRow
<1> HIDE DEF row
<1> QED
    BY <1>1, <1>2, FineRequest

LEMMA ReceiveAnswerFine ==
    ASSUME IInv, NEW r \in Requests, NEW c \in Calls, ReceiveAnswer(r, c)
    PROVE  ServerMoves /\ ClientsFine'
<1>1. requests[r] # NoRequest
    BY DEF ReceiveAnswer, NoRequest
<1>2. CASE /\ \/ requests' = [requests EXCEPT ![r].at = "done"]
              \/ requests' = [requests EXCEPT ![r].at = "failed"]
              \/ /\ requests' = [requests EXCEPT ![r].at = "waiting"]
                 /\ requests[r].at = "refused"
           /\ UNCHANGED <<exceptSessions, calls, acts>>
  <2>1. RequestsFine'
    BY <1>1, <1>2, RequestGoesOn
  <2> QED
    BY <1>2, <2>1, SameApps, SameActs, SameStored, CallsKept, NothingWritten, ClientsAreFine
        DEF ReceiveAnswer, exceptSessions, ClientsFine
<1>3. ASSUME NEW d \in Devices, requests[r].at = "refused",
             requests' = [requests EXCEPT ![r].at = "waiting"],
             Refresh(c, IF env.web THEN stored[Jar] ELSE apps[d].mem, <<d, "refresh">>),
             Goes(d, "refresh", [at |-> "asking"])
      PROVE  ServerMoves /\ ClientsFine'
  <2>1. (IF env.web THEN stored[Jar] ELSE apps[d].mem) \in Token \cup {NoToken}
    BY ClientsAreFine DEF ClientsFine, StoredFine, AppsFine, App
  <2>2. ServerMoves /\ UNCHANGED sessions
    BY <1>3, <2>1, WaitingFor, RefreshMoves DEF Refresh, Activities
  <2>3. ActsFine'
    BY <1>3, <2>2, FineActs DEF ActStates, ActHolds, Activities
  <2>4. RequestsFine'
    BY <1>1, <1>3, RequestGoesOn
  <2> QED
    BY <2>2, <2>3, <2>4, SameApps, SameStored, ClientsAreFine DEF ReceiveAnswer, ClientsFine
<1>4. requests[r].device \in Devices
    BY <1>1, RequestRow DEF Request
<1> QED
    BY <1>2, <1>3, <1>4 DEF ReceiveAnswer, RunRefresh

LEMMA AccessExpiresFine ==
    ASSUME IInv, NEW d \in Devices, AccessExpires(d)
    PROVE  ServerMoves /\ ClientsFine'
<1>1. UNCHANGED <<exceptSessions, calls, apps, acts, stored, requests>>
    BY DEF AccessExpires
<1>2. dead' \subseteq Token
    BY ClientsAreFine DEF AccessExpires, ClientsFine, AppsFine, App
<1> QED
    BY <1>1, <1>2, SameApps, SameActs, SameStored, SameRequests, CallsKept, NothingWritten
        DEF exceptSessions, ClientsFine

\* An app that is closed gives up all its calls.
LEMMA RelaunchFine ==
    ASSUME IInv, NEW d \in Devices, Relaunch(d)
    PROVE  /\ ServerMoves /\ ClientsFine'
           /\ \A c \in Calls : IF For(c) # Nobody /\ For(c)[1] = d
                               THEN For(c)' = Nobody ELSE calls'[c] = calls[c]
           /\ \A e \in Devices \ {d} : acts'[e] = acts[e]
<1>1. /\ UNCHANGED <<exceptSessions, stored, dead>>
      /\ apps' = [apps EXCEPT ![d] = Loading]
      /\ acts' = [acts EXCEPT ![d] = [a \in Activities |-> Resting]]
    BY DEF Relaunch
<1>2. ASSUME NEW c \in Calls
      PROVE  /\ calls'[c] \in CallState
             /\ calls'[c] = calls[c] \/ Detaches(c)
             /\ IF For(c) # Nobody /\ For(c)[1] = d
                THEN For(c)' = Nobody ELSE calls'[c] = calls[c]
  <2>1. calls[c] \in CallState
    BY DEF IInv, TypeOK, ServerTypeOK, CallState
  <2>2. calls'[c] = IF For(c) = Nobody \/ For(c)[1] # d THEN calls[c]
                    ELSE IF At(c, "reply") THEN Idle ELSE [calls[c] EXCEPT !.for = Nobody]
    BY DEF Relaunch
  <2>3. CASE For(c) = Nobody \/ For(c)[1] # d
    BY <2>1, <2>2, <2>3
  <2>4. CASE ~(For(c) = Nobody \/ For(c)[1] # d)
    <3>1. calls[c] # Idle
        BY <2>4 DEF For
    <3>2. CASE At(c, "reply")
      <4>1. calls'[c] = Idle
        BY <2>2, <2>4, <3>2
      <4> QED
        BY <2>4, <4>1 DEF Detaches, For, CallState
    <3>3. CASE ~At(c, "reply")
      <4>1. calls'[c] = [calls[c] EXCEPT !.for = Nobody]
        BY <2>2, <2>4, <3>3
      <4>2. calls'[c] \in CallState
        BY <2>1, <3>1, <3>3, <4>1, DetachedTyped DEF At
      <4>3. calls'[c].for = Nobody
        <5>1. \A call \in CallState : call # Idle => [call EXCEPT !.for = Nobody].for = Nobody
            BY CallKinds DEF CallState, PhoneCall, UserCall, SendCall, CodeCall, TokenCall,
                ReplyCall
        <5> QED
            BY <2>1, <3>1, <4>1, <5>1
      <4> QED
        BY <2>4, <3>1, <3>3, <4>1, <4>2, <4>3 DEF Detaches, For, At
    <3> QED
        BY <3>2, <3>3
  <2> QED
    BY <2>3, <2>4
<1>3. calls' = [c \in Calls |-> calls'[c]]
    BY DEF Relaunch
<1>4. CallsMove
  <2>1. calls' \in [Calls -> CallState]
    BY <1>2, <1>3
  <2> QED
    BY <1>2, <2>1 DEF CallsMove
<1>5. ServerMoves
    BY <1>1, <1>4, NothingWritten DEF exceptSessions
<1>6. AppsFine'
    BY <1>1, FineApps DEF exceptSessions, Loading, App, AppHolds, IssuedOrNone
<1>7. /\ ActsFine'
      /\ \A e \in Devices \ {d} : acts'[e] = acts[e]
  <2>1. /\ acts \in [Devices -> [Activities -> ActStates]]
        /\ \A e \in Devices, a \in Activities : ActHolds(acts[e][a])
    BY ClientsAreFine DEF ClientsFine, ActsFine
  <2>2. Resting \in ActStates
    BY DEF ActStates
  <2>3. acts' \in [Devices -> [Activities -> ActStates]]
    BY <1>1, <2>1, <2>2
  <2>4. ASSUME NEW e \in Devices, NEW a \in Activities
        PROVE  acts'[e][a] = acts[e][a] \/ acts'[e][a] = Resting
    BY <1>1, <2>1
  <2>5. ASSUME NEW e \in Devices, NEW a \in Activities PROVE ActHolds(acts[e][a])'
    BY <1>1, <2>1, <2>4 DEF ActHolds, IssuedOrNone, Issued, exceptSessions, Resting
  <2> QED
    BY <1>1, <2>1, <2>3, <2>5 DEF ActsFine
<1>8. RequestsFine'
  <2>1. ASSUME NEW r \in Requests
        PROVE  /\ requests'[r] \in Request \cup {NoRequest}
               /\ requests'[r] # NoRequest => NotRunYet(requests'[r]) /\ requests'[r].runs <= 1
    <3> DEFINE failed == [requests[r] EXCEPT !.at = "failed"]
    <3>1. requests'[r] = IF requests[r] # NoRequest /\ requests[r].device = d
                         THEN failed ELSE requests[r]
        BY DEF Relaunch
    <3>2. CASE requests[r] = NoRequest
        BY <3>1, <3>2
    <3>3. CASE requests[r] # NoRequest
      <4>1. requests[r] \in Request /\ NotRunYet(requests[r]) /\ requests[r].runs <= 1
        BY <3>3, RequestRow
      <4>2. failed \in Request /\ NotRunYet(failed) /\ failed.runs <= 1
        BY <4>1 DEF Request, NotRunYet
      <4> HIDE DEF failed
      <4> QED
        BY <3>1, <3>3, <4>1, <4>2
    <3> QED
        BY <3>2, <3>3
  <2>2. requests' = [r \in Requests |-> requests'[r]]
    BY DEF Relaunch
  <2>3. requests' \in [Requests -> Request \cup {NoRequest}]
    BY <2>1, <2>2
  <2> QED
    BY <2>1, <2>3 DEF RequestsFine, RequestsRunOnce, NotRunYet
<1> QED
    BY <1>1, <1>2, <1>5, <1>6, <1>7, <1>8, SameStored, ClientsAreFine
        DEF exceptSessions, ClientsFine

-----------------------------------------------------------------------------
(* What is issued and what is gone stays so *)

LEMMA SessionTypes ==
    ASSUME IInv, NEW s \in Sessions
    PROVE  sessions \in [Sessions -> Session \cup {NoSession}]
           /\ (sessions[s] # NoSession => sessions[s] \in Session)
BY DEF IInv, TypeOK, ServerTypeOK

\* What may become of one session.
LEMMA OneSession ==
    ASSUME IInv, SessionsMove, NEW s \in Sessions
    PROVE  /\ sessions' \in [Sessions -> Session \cup {NoSession}]
           /\ sessions[s] # NoSession =>
                 /\ sessions'[s] \in Session /\ sessions'[s] # NoSession
                 /\ sessions'[s].rotations \in {sessions[s].rotations, sessions[s].rotations + 1}
                 /\ sessions[s].status = "revoked" =>
                       /\ sessions'[s].status = "revoked"
                       /\ sessions'[s].rotations = sessions[s].rotations
                 /\ sessions'[s].code = sessions[s].code
<1>1. \A row \in Session : row # NoSession
  <2>1. \A row \in Session : row.status # NoSession.status
    BY DEF Session, NoSession
  <2> QED
    BY <2>1
<1>2. CASE UNCHANGED <<sessions, uses>>
    BY <1>1, <1>2, SessionTypes
<1>3. ASSUME NEW c \in Calls, NEW t \in Sessions, Opens(c, t)
      PROVE  /\ sessions' \in [Sessions -> Session \cup {NoSession}]
             /\ sessions[s] # NoSession => sessions'[s] = sessions[s]
    BY <1>3, SessionTypes DEF Opens
<1>4. ASSUME NEW t \in Sessions, Ends(t)
      PROVE  \E row \in Session :
                /\ sessions' = [sessions EXCEPT ![t] = row]
                /\ row.rotations = sessions[t].rotations /\ row.code = sessions[t].code
                /\ sessions[t].status = "revoked" => row.status = "revoked"
    BY <1>4 DEF Ends, SameSession
<1>5. ASSUME NEW t \in Sessions, Rotates(t)
      PROVE  \E row \in Session :
                /\ sessions' = [sessions EXCEPT ![t] = row]
                /\ row.rotations = sessions[t].rotations + 1 /\ row.code = sessions[t].code
                /\ sessions[t].status = "live"
    BY <1>5 DEF Rotates, SameSession
<1>6. CASE \E t \in Sessions, row \in Session :
              /\ sessions' = [sessions EXCEPT ![t] = row]
              /\ row.code = sessions[t].code
              /\ \/ /\ row.rotations = sessions[t].rotations
                    /\ sessions[t].status = "revoked" => row.status = "revoked"
                 \/ row.rotations = sessions[t].rotations + 1 /\ sessions[t].status = "live"
  <2>1. PICK t \in Sessions, row \in Session :
              /\ sessions' = [sessions EXCEPT ![t] = row]
              /\ row.code = sessions[t].code
              /\ \/ /\ row.rotations = sessions[t].rotations
                    /\ sessions[t].status = "revoked" => row.status = "revoked"
                 \/ row.rotations = sessions[t].rotations + 1 /\ sessions[t].status = "live"
    BY <1>6
  <2>2. sessions \in [Sessions -> Session \cup {NoSession}]
    BY SessionTypes
  <2>3. CASE s = t
    BY <1>1, <2>1, <2>2, <2>3
  <2>4. CASE s # t
    BY <1>1, <2>1, <2>2, <2>4
  <2> QED
    BY <2>3, <2>4
<1> QED
    BY <1>1, <1>2, <1>3, <1>4, <1>5, <1>6, SessionTypes DEF SessionsMove

LEMMA TokenParts ==
    ASSUME NEW token \in Token
    PROVE  /\ token # NoToken /\ token[1] \in Sessions /\ token[2] \in Nat
           /\ token = <<token[1], token[2]>>
<1>1. PICK s \in Sessions, n \in 0..MaxRotations : token = <<s, n>>
    BY DEF Token
<1> QED
    BY <1>1, AuthServerAssumption DEF NoToken

LEMMA IssuedStays ==
    ASSUME IInv, SessionsMove, NEW token \in Token, Issued(token)
    PROVE  Issued(token)'
<1>1. PICK s \in Sessions, n \in Nat : token[1] = s /\ token[2] = n
    BY TokenParts
<1>2. sessions[s] # NoSession /\ sessions[s] \in Session /\ n <= sessions[s].rotations
    BY <1>1, SessionTypes DEF Issued
<1>3. PICK r \in Nat : sessions[s].rotations = r
    BY <1>2 DEF Session
<1>4. sessions'[s] # NoSession /\ sessions'[s].rotations \in {r, r + 1}
    BY <1>2, <1>3, OneSession
<1>5. n <= sessions'[s].rotations
    BY <1>2, <1>3, <1>4
<1> QED
    BY <1>1, <1>4, <1>5 DEF Issued

LEMMA GoneStays ==
    ASSUME IInv, SessionsMove, NEW token \in Token \cup {NoToken}, IssuedOrNone(token),
           Gone(token)
    PROVE  Gone(token)'
<1>1. CASE token = NoToken
    BY <1>1 DEF Gone
<1>2. CASE token \in Token
  <2>1. PICK s \in Sessions, n \in Nat : token[1] = s /\ token[2] = n /\ token # NoToken
    BY <1>2, TokenParts
  <2>2. sessions[s] # NoSession /\ sessions[s] \in Session
    BY <2>1, SessionTypes DEF IssuedOrNone, Issued
  <2>3. PICK r \in Nat : sessions[s].rotations = r
    BY <2>2 DEF Session
  <2>4. sessions[s].status = "revoked" \/ r > n
    BY <2>1, <2>3 DEF Gone
  <2>5. /\ sessions'[s].rotations \in {r, r + 1}
        /\ sessions[s].status = "revoked" => sessions'[s].status = "revoked"
    BY <2>2, <2>3, OneSession
  <2>6. sessions'[s].status = "revoked" \/ sessions'[s].rotations > n
    BY <2>4, <2>5
  <2> QED
    BY <2>1, <2>6 DEF Gone
<1> QED
    BY <1>1, <1>2

-----------------------------------------------------------------------------
(* The server's part of the invariant *)

LEMMA ServerTyped ==
    ASSUME IInv, ServerMoves
    PROVE  ServerTypeOK'
<1>1. ServerTypeOK
    BY DEF IInv, TypeOK
<1>2. sessions' \in [Sessions -> Session \cup {NoSession}]
    BY OneSession, <1>1 DEF ServerMoves, SessionsMove, ServerTypeOK, Opens, Ends, Rotates
<1>3. uses' \in [Token -> Nat]
  <2>1. ASSUME NEW s \in Sessions, Rotates(s) PROVE uses' \in [Token -> Nat]
    <3>1. sessions[s].rotations \in 0..MaxRotations
      <4>1. sessions[s] \in Session /\ sessions[s].rotations < MaxRotations
        BY <2>1, SessionTypes DEF Rotates
      <4>2. sessions[s].rotations \in Nat
        BY <4>1 DEF Session
      <4> QED
        BY <4>1, <4>2, AuthServerAssumption
    <3>2. <<s, sessions[s].rotations>> \in Token
        BY <3>1 DEF Token
    <3> QED
        BY <2>1, <3>2, <1>1 DEF Rotates, ServerTypeOK
  <2> QED
    BY <1>1, <2>1 DEF ServerMoves, SessionsMove, ServerTypeOK, Opens, Ends
<1>4. users' \in [Phones -> User \cup {NoUser}]
    BY <1>1 DEF ServerMoves, UsersMove, ServerTypeOK
<1>5. otps' \in [Codes -> Otp \cup {NoOtp}]
    BY <1>1 DEF ServerMoves, OtpsMove, ServerTypeOK, Saves, Turns, Ages
<1> QED
    BY <1>1, <1>2, <1>3, <1>4, <1>5 DEF ServerMoves, ServerTypeOK, CallsMove, CallState

\* Accounts stay.
LEMMA AccountsStay ==
    ASSUME IInv, UsersMove, NEW p \in Phones, users[p] # NoUser
    PROVE  users'[p] # NoUser /\ users'[p].party = users[p].party
BY DEF UsersMove, User, NoUser, IInv, TypeOK, ServerTypeOK

LEMMA CallsStayIssued ==
    ASSUME IInv, ServerMoves
    PROVE  CallsHoldIssued'
<1> SUFFICES ASSUME NEW c \in Calls
             PROVE  /\ calls'[c].pc \in CodePcs => users'[calls'[c].phone] # NoUser
                    /\ calls'[c].pc = "code.consume" => calls'[c].code \in Codes
                    /\ calls'[c].pc \in TokenPcs => Issued(calls[c].token)'
                    /\ calls'[c].pc = "reply" => IssuedOrNone(calls[c].token)'
    BY DEF CallsHoldIssued, At
<1>1. ServerTypeOK /\ CallsHoldIssued /\ SessionsMove /\ UsersMove /\ CallsMove
    BY DEF IInv, TypeOK, ServerMoves
<1>2. ServerTypeOK'
    BY ServerTyped
<1>3. ASSUME NEW token \in Token, Issued(token) PROVE Issued(token)'
    BY <1>1, <1>3, IssuedStays
<1>4. CASE calls'[c].pc = calls[c].pc /\ calls'[c].pc # "idle"
           /\ (calls[c].pc \in CodePcs => /\ calls'[c].phone = calls[c].phone
                                          /\ calls'[c].code = calls[c].code)
           /\ (calls[c].pc \in TokenPcs \cup {"reply"} => calls'[c].token = calls[c].token)
  <2>1. CASE calls[c].pc \in CodePcs
    <3>1. calls[c].phone \in Phones /\ users[calls[c].phone] # NoUser
        BY <2>1, CodeCallAt
    <3> QED
        BY <1>1, <1>4, <2>1, <3>1, AccountsStay DEF CallsHoldIssued, At, CodePcs, PastCode,
            TokenPcs, RevokingPcs
  <2>2. CASE calls[c].pc \in TokenPcs
    <3>1. PICK token \in Token : token = calls[c].token /\ Issued(token)
        BY <2>2, TokenCallAt
    <3>2. Issued(token)' /\ calls'[c].token = token
        BY <1>3, <1>4, <2>2, <3>1
    <3> QED
        BY <1>4, <2>2, <3>2 DEF Issued, TokenPcs, RevokingPcs, CodePcs, PastCode
  <2>3. CASE calls[c].pc = "reply"
    <3>1. PICK token \in Token \cup {NoToken} : token = calls[c].token /\ IssuedOrNone(token)
        BY <1>1, <2>3, CallTypes DEF ReplyCall, CallsHoldIssued
    <3>2. IssuedOrNone(token)' /\ calls'[c].token = token
        BY <1>3, <1>4, <2>3, <3>1 DEF IssuedOrNone
    <3> QED
        BY <1>4, <2>3, <3>2 DEF IssuedOrNone, Issued, TokenPcs, RevokingPcs, CodePcs, PastCode
  <2> QED
    BY <1>4, <2>1, <2>2, <2>3 DEF CodePcs
<1>5. CASE calls'[c] = calls[c]
    BY <1>4, <1>5 DEF Idle, CodePcs, PastCode, TokenPcs, RevokingPcs
<1>6. CASE Detaches(c)
  <2>1. CASE calls'[c] = Idle
    BY <2>1 DEF Idle, CodePcs, PastCode, TokenPcs, RevokingPcs
  <2>2. CASE calls[c] # Idle /\ calls'[c] = [calls[c] EXCEPT !.for = Nobody]
    <3>1. /\ calls[c].pc \in CodePcs => calls[c] \in CodeCall
          /\ calls[c].pc \in TokenPcs => calls[c] \in TokenCall
          /\ calls[c].pc = "reply" => calls[c] \in ReplyCall
          /\ calls[c].pc # "idle"
        BY <1>1, <2>2, CallTypes
    <3>2. calls'[c].pc = calls[c].pc
        BY <1>1, <2>2, CallKinds DEF ServerTypeOK, PhoneCall, UserCall, SendCall, CodeCall,
            TokenCall, ReplyCall
    <3> QED
        BY <1>4, <2>2, <3>1, <3>2 DEF CodeCall, TokenCall, ReplyCall
  <2> QED
    BY <1>6, <2>1, <2>2 DEF Detaches
<1>7. CASE Begins(c)
  <2>1. CASE calls'[c].pc \in {"refresh.user", "logout.revoke"} /\ Found(calls'[c].token)
    <3>1. calls'[c] \in TokenCall
        BY <2>1, <1>2, CallKinds
            DEF ServerTypeOK, Idle, PhoneCall, UserCall, SendCall, CodeCall, TokenCall, ReplyCall,
                PhonePcs, CodePcs, PastCode
    <3>2. PICK token \in Token : token = calls'[c].token /\ Issued(token)
      <4>1. PICK token \in Token : token = calls'[c].token
        BY <3>1 DEF TokenCall
      <4>2. token[2] \in Nat /\ sessions[token[1]] # NoSession /\ sessions[token[1]].rotations = token[2]
        BY <2>1, <4>1, TokenParts DEF Found
      <4>3. Issued(token)
        BY <4>2 DEF Issued
      <4> QED
        BY <4>1, <4>3
    <3>3. Issued(token)'
        BY <1>3, <3>2
    <3> QED
        BY <2>1, <3>2, <3>3 DEF Issued, CodePcs, PastCode
  <2>2. CASE calls'[c].pc \in {"code.consume", "session.create"}
             /\ users[calls'[c].phone] # NoUser
             /\ (calls'[c].pc = "code.consume" => calls'[c].code \in Codes)
    <3>1. calls'[c] \in CodeCall
        BY <2>2, <1>2, CallKinds
            DEF ServerTypeOK, Idle, PhoneCall, UserCall, SendCall, CodeCall, TokenCall, ReplyCall,
                PhonePcs, TokenPcs, RevokingPcs
    <3> QED
        BY <2>2, <3>1, <1>1, AccountsStay DEF CodeCall, TokenPcs, RevokingPcs
  <2>3. CASE calls'[c].pc = "reply" /\ calls'[c].token = NoToken
    BY <2>3 DEF IssuedOrNone, CodePcs, PastCode, TokenPcs, RevokingPcs
  <2>4. CASE calls'[c].pc \in {"reg.party", "otp.count"}
    BY <2>4 DEF CodePcs, PastCode, TokenPcs, RevokingPcs
  <2> QED
    BY <1>7, <2>1, <2>2, <2>3, <2>4 DEF Begins
<1>8. CASE ProceedsTo(c)
  <2>1. CASE calls'[c].pc \in {"reg.user", "otp.send", "otp.count", "otp.save"}
    BY <2>1 DEF CodePcs, PastCode, TokenPcs, RevokingPcs
  <2>2. CASE calls[c].pc \in CodePcs /\ calls'[c].pc \in PastCode /\ SameLogin(c)
    <3>1. calls[c].phone \in Phones /\ users[calls[c].phone] # NoUser
        BY <2>2, CodeCallAt
    <3> QED
        BY <1>1, <2>2, <3>1, AccountsStay DEF SameLogin, PastCode, TokenPcs, RevokingPcs
  <2>3. CASE /\ At(c, "refresh.user") /\ calls'[c].pc \in {"refresh.rotate", "refresh.revoke"}
             /\ calls'[c].token = calls[c].token
    <3>1. PICK token \in Token : token = calls[c].token /\ Issued(token)
        BY <2>3, TokenCallAt DEF At, TokenPcs
    <3>2. Issued(token)'
        BY <1>3, <3>1
    <3> QED
        BY <2>3, <3>1, <3>2 DEF Issued, CodePcs, PastCode
  <2>4. CASE /\ calls'[c].pc = "reply"
             /\ calls'[c].token = NoToken \/ Issued(calls[c].token)'
    BY <2>4 DEF IssuedOrNone, CodePcs, PastCode, TokenPcs, RevokingPcs
  <2> QED
    BY <1>8, <2>1, <2>2, <2>3, <2>4 DEF ProceedsTo, At, CodePcs
<1> QED
    BY <1>1, <1>5, <1>6, <1>7, <1>8 DEF CallsMove

-----------------------------------------------------------------------------
(* What handlers owe to the activities that wait for them *)

\* A handler's step keeps who waits for it, and what it owes.
Served(c) ==
    /\ For(c)' = For(c)
    /\ For(c) # Nobody =>
          /\ ~At(c, "reply")
          /\ Asked(calls[c]) => Asked(calls'[c])
          /\ At(c, "logout.revoke") =>
                /\ calls'[c].pc = "reply"
                /\ env.faults = {} => sessions'[calls[c].token[1]].status = "revoked"

CallsServed == \A c \in Calls : calls'[c] = calls[c] \/ Served(c)

\* The handler has not answered yet, and does not end a session for a sign-out.
Works(c) == calls[c].pc \notin {"logout.revoke", "reply"}

LEMMA AnswerIs ==
    ASSUME IInv, NEW c \in Calls, calls[c] # Idle, NEW ok \in BOOLEAN,
           NEW token \in Token \cup {NoToken}, Answers(c, ok, token)
    PROVE  /\ \A e \in Calls \ {c} : calls'[e] = calls[e]
           /\ For(c)' = For(c)
           /\ For(c) # Nobody =>
                 calls'[c].pc = "reply" /\ calls'[c].ok = ok /\ calls'[c].token = token
<1> DEFINE state == AnswerOf(c, ok, token)
<1>1. ServerTypeOK
    BY DEF IInv, TypeOK
<1>2. state \in CallState /\ Starts(c, state)
    BY <1>1, AnswerTyped DEF Answers, AnswerOf
<1>3. IF calls[c].for = Nobody THEN state = Idle
      ELSE /\ state.pc = "reply" /\ state.ok = ok /\ state.token = token
           /\ state.for = calls[c].for
    BY DEF AnswerOf
<1> HIDE DEF state
<1>4. calls'[c] = state /\ \A e \in Calls \ {c} : calls'[e] = calls[e]
    BY <1>1, <1>2, OneCallTyped
<1>5. state.pc = "reply" => state # Idle
    BY DEF Idle
<1> QED
    BY <1>3, <1>4, <1>5 DEF For

LEMMA AnswersServed ==
    ASSUME IInv, NEW c \in Calls, calls[c] # Idle, NEW ok \in BOOLEAN,
           NEW token \in Token \cup {NoToken}, Answers(c, ok, token), ok => token # NoToken,
           Works(c)
    PROVE  CallsServed
BY AnswerIs DEF CallsServed, Served, Asked, Works, At

LEMMA ThrowsServed ==
    ASSUME IInv, NEW c \in Calls, calls[c] # Idle, Throws(c), Works(c)
    PROVE  CallsServed
BY AnswersServed DEF Throws

\* No one waits for the answer.
LEMMA UnawaitedServed ==
    ASSUME IInv, NEW c \in Calls, For(c) = Nobody, NEW state, Starts(c, state),
           state.for = Nobody
    PROVE  CallsServed
<1>1. \A e \in Calls : calls'[e] = IF e = c THEN state ELSE calls[e]
    BY DEF Starts, IInv, TypeOK, ServerTypeOK
<1> QED
    BY <1>1 DEF CallsServed, Served, For

LEMMA GoesOnServed ==
    ASSUME IInv, NEW c \in Calls, calls[c] \in CodeCall \cup TokenCall,
           NEW pc \in CodePcs \cup {"refresh.revoke", "refresh.rotate"}, GoesTo(c, pc),
           Works(c)
    PROVE  CallsServed
<1> DEFINE state == [calls[c] EXCEPT !.pc = pc]
<1>1. \A e \in Calls : calls'[e] = IF e = c THEN state ELSE calls[e]
    BY DEF GoesTo, IInv, TypeOK, ServerTypeOK
<1>2. state.pc = pc /\ state.for = calls[c].for
    BY DEF CodeCall, TokenCall
<1>3. calls[c] # Idle
    BY DEF CodeCall, TokenCall, Idle, CodePcs, PastCode, TokenPcs, RevokingPcs
<1>4. pc # "idle"
    BY DEF CodePcs, PastCode
<1> HIDE DEF state
<1>5. state # Idle
    BY <1>2, <1>4 DEF Idle
<1> QED
    BY <1>1, <1>2, <1>3, <1>5 DEF CallsServed, Served, For, Asked, Works, At

\* The handlers of sign-up and of codes answer to nobody.
LEMMA PhoneUnawaited ==
    ASSUME IInv, NEW c \in Calls,
           calls[c].pc \in PhonePcs \/ calls[c].pc \in {"reg.user", "otp.send"}
    PROVE  calls[c] # Idle /\ For(c) = Nobody /\ Works(c)
BY CallTypes DEF IInv, TypeOK, For, Works, Idle, PhoneCall, UserCall, SendCall, PhonePcs

LEMMA PhoneServed ==
    ASSUME IInv, NEW c \in Calls,
           CreateParty(c) \/ CreateUser(c) \/ CountOtps(c) \/ SaveOtp(c) \/ SendOtp(c)
    PROVE  CallsServed
<1>1. calls[c].pc \in PhonePcs \/ calls[c].pc \in {"reg.user", "otp.send"}
    BY DEF CreateParty, CreateUser, CountOtps, SaveOtp, SendOtp, At, PhonePcs
<1>2. calls[c] # Idle /\ For(c) = Nobody /\ Works(c)
    BY <1>1, PhoneUnawaited
<1>3. CASE Throws(c)
    BY <1>2, <1>3, ThrowsServed
<1>4. ASSUME NEW state, Starts(c, state), state.for = Nobody PROVE CallsServed
    BY <1>2, <1>4, UnawaitedServed
<1>5. CASE CreateParty(c)
  <2>1. CASE \E party \in Parties : Starts(c, [pc |-> "reg.user", phone |-> calls[c].phone,
                                               party |-> party, for |-> Nobody])
    <3>1. PICK party \in Parties : Starts(c, [pc |-> "reg.user", phone |-> calls[c].phone,
                                               party |-> party, for |-> Nobody])
        BY <2>1
    <3> QED
        BY <3>1, <1>4
  <2> QED
    BY <1>3, <1>5, <2>1 DEF CreateParty, AwaitsWrite, First
<1>6. CASE CreateUser(c)
  <2>1. CASE Starts(c, [pc |-> "otp.count", phone |-> calls[c].phone, for |-> Nobody])
    BY <2>1, <1>4
  <2> QED
    BY <1>3, <1>6, <2>1 DEF CreateUser, AwaitsWrite
<1>7. CASE CountOtps(c)
  <2>1. CASE GoesTo(c, "otp.save")
    <3>1. calls[c] \in PhoneCall
        BY <1>7, PhoneCallAt DEF CountOtps, At, PhonePcs
    <3>2. Starts(c, [pc |-> "otp.save", phone |-> calls[c].phone, for |-> Nobody])
        BY <2>1, <3>1, PhoneGoesOn
    <3> QED
        BY <3>2, <1>4
  <2> QED
    BY <1>3, <1>7, <2>1 DEF CountOtps
<1>8. CASE SaveOtp(c)
  <2>1. CASE \E k \in Codes : Starts(c, [pc |-> "otp.send", phone |-> calls[c].phone,
                                         code |-> k, for |-> Nobody])
    <3>1. PICK k \in Codes : Starts(c, [pc |-> "otp.send", phone |-> calls[c].phone,
                                        code |-> k, for |-> Nobody])
        BY <2>1
    <3> QED
        BY <3>1, <1>4
  <2> QED
    BY <1>3, <1>8, <2>1 DEF SaveOtp, AwaitsWrite, First
<1>9. CASE SendOtp(c)
    BY <1>3, <1>9 DEF SendOtp
<1> QED
    BY <1>5, <1>6, <1>7, <1>8, <1>9

LEMMA LoginServed ==
    ASSUME IInv, NEW c \in Calls,
           ConsumeOtp(c) \/ SetPassword(c) \/ MarkPhoneVerified(c) \/ CreateSession(c)
    PROVE  CallsServed
<1>1. calls[c] \in CodeCall /\ calls[c] # Idle /\ Works(c)
    BY CodeCallAt DEF ConsumeOtp, SetPassword, MarkPhoneVerified, CreateSession, At, CodePcs,
        PastCode, Works
<1>2. CASE Throws(c)
    BY <1>1, <1>2, ThrowsServed
<1>3. ASSUME NEW pc \in PastCode, GoesTo(c, pc) PROVE CallsServed
    BY <1>1, <1>3, GoesOnServed DEF CodePcs
<1>4. CASE ConsumeOtp(c)
  <2>1. AfterCode(c) \in PastCode
    BY DEF AfterCode, PastCode
  <2>2. Throws(c) \/ GoesTo(c, AfterCode(c))
    BY <1>4 DEF ConsumeOtp, AwaitsWrite
  <2> QED
    BY <1>2, <1>3, <2>1, <2>2
<1>5. CASE SetPassword(c)
  <2> DEFINE pc == IF calls[c].verified THEN "session.create" ELSE "code.mark"
  <2>1. pc \in PastCode
    BY DEF PastCode
  <2>2. Throws(c) \/ GoesTo(c, pc)
    BY <1>5 DEF SetPassword, AwaitsWrite
  <2> HIDE DEF pc
  <2> QED
    BY <1>2, <1>3, <2>1, <2>2
<1>6. CASE MarkPhoneVerified(c)
    BY <1>2, <1>3, <1>6 DEF MarkPhoneVerified, AwaitsWrite, PastCode
<1>7. CASE CreateSession(c)
  <2>1. CASE \E s \in Sessions : Answers(c, TRUE, <<s, 0>>)
    <3>1. PICK s \in Sessions : Answers(c, TRUE, <<s, 0>>)
        BY <2>1
    <3>2. <<s, 0>> \in Token
        BY AuthServerAssumption DEF Token
    <3> QED
        BY <1>1, <3>1, <3>2, TokenParts, AnswersServed
  <2> QED
    BY <1>2, <1>7, <2>1 DEF CreateSession, AwaitsWrite, First
<1> QED
    BY <1>4, <1>5, <1>6, <1>7

LEMMA TokenServed ==
    ASSUME IInv, NEW c \in Calls, RefreshUser(c) \/ RotateSession(c) \/ RevokeSession(c)
    PROVE  CallsServed
<1>1. /\ calls[c] \in TokenCall /\ calls[c] # Idle /\ calls[c].token \in Token
      /\ calls[c].token[1] \in Sessions
      /\ sessions[calls[c].token[1]] \in Session
    BY TokenCallAt DEF RefreshUser, RotateSession, RevokeSession, At, TokenPcs, RevokingPcs
<1>2. CASE Throws(c) /\ Works(c)
    BY <1>1, <1>2, ThrowsServed
<1>3. CASE RefreshUser(c)
  <2> DEFINE pc == IF users[sessions[calls[c].token[1]].phone].status = "blocked"
                   THEN "refresh.revoke" ELSE "refresh.rotate"
  <2>1. pc \in {"refresh.revoke", "refresh.rotate"}
    OBVIOUS
  <2>2. GoesTo(c, pc) /\ At(c, "refresh.user")
    BY <1>3, Zenon DEF RefreshUser
  <2> HIDE DEF pc
  <2>3. Works(c)
    BY <2>2 DEF At, Works
  <2> QED
    BY <1>1, <2>1, <2>2, <2>3, GoesOnServed
<1>4. CASE RotateSession(c)
  <2>1. Works(c)
    BY <1>4 DEF RotateSession, At, Works
  <2>2. CASE calls[c].token[2] < MaxRotations /\ Answers(c, TRUE, NextToken(calls[c].token))
    <3>1. PICK next \in Token : next = NextToken(calls[c].token)
        BY <1>1, <2>2, AuthServerAssumption DEF Token, NextToken
    <3> QED
        BY <1>1, <2>1, <2>2, <3>1, TokenParts, AnswersServed
  <2> QED
    BY <1>2, <1>4, <2>1, <2>2 DEF RotateSession, AwaitsWrite
<1>5. CASE RevokeSession(c)
  <2>1. CASE At(c, "refresh.revoke")
    <3>1. Answers(c, FALSE, NoToken)
        BY <1>5, <2>1 DEF RevokeSession, AwaitsWrite, At, Throws
    <3> QED
        BY <1>1, <2>1, <3>1, AnswersServed DEF At, Works
  <2>2. CASE At(c, "logout.revoke")
    <3>1. \E ok \in BOOLEAN : Answers(c, ok, NoToken)
        BY <1>5 DEF RevokeSession, AwaitsWrite, At, Throws
    <3>2. /\ \A e \in Calls \ {c} : calls'[e] = calls[e]
          /\ For(c)' = For(c)
          /\ For(c) # Nobody => calls'[c].pc = "reply"
        BY <1>1, <3>1, AnswerIs
    <3>3. ~Asked(calls[c])
        BY <2>2 DEF Asked, At, CodePcs, PastCode
    <3>4. env.faults = {} => sessions'[calls[c].token[1]].status = "revoked"
      <4>1. PICK s \in Sessions : s = calls[c].token[1]
        BY <1>1
      <4>2. sessions \in [Sessions -> Session \cup {NoSession}] /\ sessions[s] \in Session
        BY <1>1, <4>1, SessionTypes
      <4>3. ASSUME env.faults = {}
            PROVE  sessions' = [sessions EXCEPT ![s].status = "revoked"]
        BY <4>1, <4>3, <1>5 DEF RevokeSession, AwaitsWrite, MayHappen
      <4>4. env.faults = {} => sessions'[s].status = "revoked"
        BY <4>2, <4>3 DEF Session
      <4> QED
        BY <4>1, <4>4
    <3> QED
        BY <2>2, <3>2, <3>3, <3>4 DEF CallsServed, Served, At
  <2> QED
    BY <1>5, <2>1, <2>2 DEF RevokeSession, At
<1> QED
    BY <1>3, <1>4, <1>5

LEMMA StepsServe ==
    ASSUME IInv, ServerSteps
    PROVE  CallsServed
<1>1. CASE \E c \in Calls : ServerProceeds(c)
    BY <1>1, PhoneServed, LoginServed, TokenServed DEF ServerProceeds
<1>2. CASE UNCHANGED calls
    BY <1>2 DEF CallsServed
<1>3. ASSUME NEW c \in Calls, Free(c), NEW state, Starts(c, state), state.for = Nobody
      PROVE  CallsServed
    BY <1>3, FreeSlot, UnawaitedServed DEF For
<1>4. CASE \E c \in Calls, p \in Phones : Register(c, p) \/ RequestOtp(c, p)
  <2>1. PICK c \in Calls, p \in Phones : Register(c, p) \/ RequestOtp(c, p)
    BY <1>4
  <2> QED
    BY <2>1, <1>3 DEF Register, RequestOtp
<1>5. CASE \E c \in Calls, p \in Phones, k \in Codes, reset \in BOOLEAN :
              EnterCode(c, p, k, reset, Nobody)
  <2>1. PICK c \in Calls, p \in Phones, k \in Codes, reset \in BOOLEAN :
              EnterCode(c, p, k, reset, Nobody)
    BY <1>5
  <2> QED
    BY <2>1, <1>3 DEF EnterCode
<1> QED
    BY <1>1, <1>2, <1>4, <1>5
        DEF ServerSteps, ServerArrivals, HourPasses, Block, SessionExpires

\* Who waits is an activity of a device.
LEMMA AwaitingActs ==
    ASSUME IInv, NEW c \in Calls, For(c) # Nobody
    PROVE  /\ calls[c] # Idle /\ calls[c].for = For(c)
           /\ \E d \in Devices, a \in Activities : For(c) = <<d, a>>
<1>1. calls[c] # Idle /\ calls[c].for = For(c)
    BY DEF For
<1>2. calls[c].for \in Waiting
    BY <1>1, CallTypes DEF IInv, TypeOK
<1> QED
    BY <1>1, <1>2 DEF Waiting

\* Only who asks or leaves is waiting.
LEMMA NobodyWaits ==
    ASSUME IInv, NEW d \in Devices, NEW a \in Activities,
           acts[d][a].at \notin {"asking", "leaving"}
    PROVE  \A c \in Calls : For(c) # <<d, a>>
<1> SUFFICES ASSUME NEW c \in Calls, For(c) = <<d, a>> PROVE FALSE
    OBVIOUS
<1>1. For(c)[1] = d /\ For(c)[2] = a /\ For(c) # Nobody
    BY DEF Nobody
<1> QED
    BY <1>1 DEF IInv, CallsAwaited, AwaitedBy

LEMMA ServedAwaited ==
    ASSUME IInv, CallsServed, SessionsMove, UNCHANGED <<env, acts>>
    PROVE  CallsAwaited'
<1>1. ASSUME NEW c \in Calls
      PROVE  For(c)' = For(c)
    BY <1>1 DEF CallsServed, Served, For
<1>2. ASSUME NEW c \in Calls, For(c) # Nobody
      PROVE  AwaitedBy(calls[c], acts[For(c)[1]][For(c)[2]])'
  <2>1. PICK d \in Devices, a \in Activities : For(c) = <<d, a>>
    BY <1>2, AwaitingActs
  <2>2. AwaitedBy(calls[c], acts[d][a])
    BY <1>2, <2>1 DEF IInv, CallsAwaited
  <2>3. PICK act : act = acts[d][a]
    OBVIOUS
  <2>4. acts'[d][a] = act
    BY <2>3
  <2>5. CASE act.at = "asking" /\ Asked(calls[c])
    <3>1. Asked(calls'[c])
        BY <1>2, <2>5 DEF CallsServed, Served
    <3> QED
        BY <1>1, <2>1, <2>4, <2>5, <3>1 DEF AwaitedBy, Asked
  <2>6. CASE act.at = "leaving" /\ Leaves(calls[c], act.token)
    <3>1. PICK token \in Token \cup {NoToken} : act.token = token /\ IssuedOrNone(token)
        BY <2>3, <2>6, ActTypes DEF ActHolds
    <3>2. CASE At(c, "logout.revoke") /\ calls'[c] # calls[c]
      <4>1. calls'[c].pc = "reply"
            /\ (env.faults = {} => sessions'[calls[c].token[1]].status = "revoked")
        BY <1>2, <3>2 DEF CallsServed, Served
      <4>2. calls[c].token = token
        BY <2>6, <3>1, <3>2 DEF Leaves, At
      <4>3. env.faults = {} => Gone(token)'
        BY <4>1, <4>2 DEF Gone
      <4>4. Leaves(calls[c], token)'
        BY <4>1, <4>3 DEF Leaves
      <4> QED
        BY <1>1, <2>1, <2>4, <2>6, <3>1, <4>4 DEF AwaitedBy
    <3>3. CASE At(c, "logout.revoke") /\ calls'[c] = calls[c]
      <4>1. Leaves(calls[c], token)'
        BY <2>6, <3>1, <3>3 DEF Leaves, At
      <4> QED
        BY <1>1, <2>1, <2>4, <2>6, <3>1, <4>1 DEF AwaitedBy
    <3>4. CASE ~At(c, "logout.revoke")
      <4>1. calls[c].pc = "reply" /\ (env.faults = {} => Gone(token))
        BY <2>6, <3>1, <3>4 DEF Leaves, At
      <4>2. env.faults = {} => Gone(token)'
        BY <3>1, <4>1, GoneStays
      <4>3. calls'[c] = calls[c]
        BY <1>2, <4>1 DEF CallsServed, Served, At
      <4>4. Leaves(calls[c], token)'
        BY <4>1, <4>2, <4>3 DEF Leaves
      <4> QED
        BY <1>1, <2>1, <2>4, <2>6, <3>1, <4>4 DEF AwaitedBy
    <3> QED
        BY <3>2, <3>3, <3>4
  <2> QED
    BY <2>2, <2>3, <2>5, <2>6 DEF AwaitedBy
<1> QED
    BY <1>1, <1>2 DEF IInv, CallsAwaited

\* Activities go on for which no one works any more.
LEMMA ActGoesOn ==
    ASSUME IInv, UNCHANGED <<env, sessions>>, NEW D,
           \A e \in Devices, b \in Activities : <<e, b>> \notin D => acts'[e][b] = acts[e][b],
           \A c \in Calls : calls'[c] = calls[c] \/ For(c)' = Nobody,
           \A c \in Calls : For(c) \in D => For(c)' = Nobody
    PROVE  CallsAwaited'
<1>1. ASSUME NEW c \in Calls, For(c)' # Nobody
      PROVE  calls'[c] = calls[c] /\ For(c)' = For(c) /\ For(c) \notin D /\ For(c) # Nobody
    BY <1>1 DEF For
<1>2. ASSUME NEW c \in Calls, For(c)' # Nobody
      PROVE  AwaitedBy(calls[c], acts[For(c)[1]][For(c)[2]])'
  <2>1. PICK e \in Devices, b \in Activities : For(c) = <<e, b>>
    BY <1>1, <1>2, AwaitingActs
  <2>2. acts'[e][b] = acts[e][b]
    BY <1>1, <1>2, <2>1
  <2>3. AwaitedBy(calls[c], acts[e][b])
    BY <1>1, <1>2, <2>1 DEF IInv, CallsAwaited
  <2>4. AwaitedBy(calls[c], acts[e][b])'
    BY <1>1, <1>2, <2>2, <2>3 DEF AwaitedBy, Asked, Leaves, Gone
  <2> QED
    BY <1>1, <1>2, <2>1, <2>4
<1>3. ASSUME NEW c \in Calls, For(c)' # Nobody, NEW e \in Calls \ {c}
      PROVE  For(e)' # For(c)'
  <2>1. For(c) # Nobody /\ For(c)' = For(c) /\ For(e) # For(c)
    BY <1>1, <1>3 DEF IInv, CallsAwaited
  <2>2. For(e)' = For(e) \/ For(e)' = Nobody
    BY <1>3 DEF For
  <2> QED
    BY <2>1, <2>2
<1> QED
    BY <1>2, <1>3 DEF CallsAwaited

\* An activity begins to wait for a handler.
LEMMA ActBegins ==
    ASSUME IInv, UNCHANGED <<env, sessions>>, NEW d \in Devices, NEW a \in Activities,
           NEW state \in ActStates, Goes(d, a, state),
           acts[d][a].at \notin {"asking", "leaving"},
           NEW c \in Calls, Free(c), NEW call, Starts(c, call), call.for = <<d, a>>,
           AwaitedBy(call, state)
    PROVE  CallsAwaited'
<1>1. calls[c] = Idle /\ For(c) = Nobody
    BY FreeSlot DEF For
<1>2. calls'[c] = call /\ \A e \in Calls \ {c} : calls'[e] = calls[e]
    BY DEF Starts, IInv, TypeOK, ServerTypeOK
<1>3. call # Idle
    BY DEF AwaitedBy, Asked, Leaves, Idle, CodePcs, PastCode
<1>4. For(c)' = <<d, a>> /\ \A e \in Calls \ {c} : For(e)' = For(e)
    BY <1>2, <1>3 DEF For
<1>5. /\ acts'[d][a] = state
      /\ \A e \in Devices, b \in Activities : <<e, b>> # <<d, a>> => acts'[e][b] = acts[e][b]
    BY ClientsAreFine DEF Goes, ClientsFine, ActsFine
<1>6. \A e \in Calls : For(e) # <<d, a>>
    BY NobodyWaits
<1>7. AwaitedBy(calls[c], acts[For(c)[1]][For(c)[2]])'
  <2>1. AwaitedBy(call, state)'
    BY DEF AwaitedBy, Asked, Leaves, Gone
  <2> QED
    BY <1>2, <1>4, <1>5, <2>1
<1>8. ASSUME NEW e \in Calls \ {c}, For(e)' # Nobody
      PROVE  AwaitedBy(calls[e], acts[For(e)[1]][For(e)[2]])'
  <2>1. For(e) # Nobody /\ For(e)' = For(e) /\ calls'[e] = calls[e]
    BY <1>2, <1>4, <1>8
  <2>2. PICK f \in Devices, b \in Activities : For(e) = <<f, b>>
    BY <2>1, AwaitingActs
  <2>3. acts'[f][b] = acts[f][b]
    BY <1>5, <1>6, <2>2
  <2>4. AwaitedBy(calls[e], acts[f][b])
    BY <2>1, <2>2 DEF IInv, CallsAwaited
  <2>5. AwaitedBy(calls[e], acts[f][b])'
    BY <2>1, <2>3, <2>4 DEF AwaitedBy, Asked, Leaves, Gone
  <2> QED
    BY <2>1, <2>2, <2>5
<1>9. ASSUME NEW e \in Calls, NEW f \in Calls \ {e}, For(e)' # Nobody
      PROVE  For(f)' # For(e)'
  <2>1. CASE e = c
    BY <1>4, <1>6, <1>9, <2>1
  <2>2. CASE f = c
    BY <1>4, <1>6, <1>9, <2>2
  <2>3. CASE e # c /\ f # c
    BY <1>4, <1>9, <2>3 DEF IInv, CallsAwaited
  <2> QED
    BY <2>1, <2>2, <2>3
<1> QED
    BY <1>7, <1>8, <1>9 DEF CallsAwaited

Only(d, a) == {<<d, a>>}

LEMMA OneActChanges ==
    ASSUME IInv, NEW d \in Devices, NEW a \in Activities, NEW state, Goes(d, a, state)
    PROVE  \A e \in Devices, b \in Activities :
              <<e, b>> \notin Only(d, a) => acts'[e][b] = acts[e][b]
BY ClientsAreFine DEF Only, Goes, ClientsFine, ActsFine

\* The activity was waiting for nobody.
LEMMA IdleActGoesOn ==
    ASSUME IInv, UNCHANGED <<env, sessions, calls>>, NEW d \in Devices, NEW a \in Activities,
           acts[d][a].at \notin {"asking", "leaving"}, NEW state, Goes(d, a, state)
    PROVE  CallsAwaited'
<1>1. \A c \in Calls : For(c) \notin Only(d, a)
    BY NobodyWaits DEF Only
<1>2. \A e \in Devices, b \in Activities :
         <<e, b>> \notin Only(d, a) => acts'[e][b] = acts[e][b]
    BY OneActChanges
<1> QED
    BY <1>1, <1>2, ActGoesOn

\* The activity was waiting for this handler, and for no other.
LEMMA WaitIsOver ==
    ASSUME IInv, UNCHANGED <<env, sessions>>, NEW d \in Devices, NEW a \in Activities,
           NEW c \in Calls, For(c) = <<d, a>>, NEW state, Goes(d, a, state),
           Starts(c, Idle) \/ calls' = [calls EXCEPT ![c].for = Nobody]
    PROVE  CallsAwaited'
<1>1. For(c) # Nobody
    BY DEF Nobody
<1>2. \A e \in Calls \ {c} : For(e) # <<d, a>>
    BY <1>1 DEF IInv, CallsAwaited
<1>3. \A e \in Calls \ {c} : calls'[e] = calls[e]
    BY DEF Starts, IInv, TypeOK, ServerTypeOK
<1>4. For(c)' = Nobody
  <2>1. calls[c] \in CallState /\ calls[c] # Idle
    BY <1>1 DEF For, IInv, TypeOK, ServerTypeOK, CallState
  <2>2. CASE Starts(c, Idle)
    BY <2>2 DEF Starts, For, IInv, TypeOK, ServerTypeOK
  <2>3. CASE calls' = [calls EXCEPT ![c].for = Nobody]
    <3>1. calls'[c] = [calls[c] EXCEPT !.for = Nobody]
        BY <2>3 DEF IInv, TypeOK, ServerTypeOK
    <3>2. \A call \in CallState : call # Idle => [call EXCEPT !.for = Nobody].for = Nobody
        BY CallKinds DEF CallState, PhoneCall, UserCall, SendCall, CodeCall, TokenCall, ReplyCall
    <3> QED
        BY <2>1, <3>1, <3>2 DEF For
  <2> QED
    BY <2>2, <2>3
<1>5. \A e \in Calls : For(e) \in Only(d, a) => e = c
    BY <1>2 DEF Only
<1>6. \A e \in Devices, b \in Activities :
         <<e, b>> \notin Only(d, a) => acts'[e][b] = acts[e][b]
    BY OneActChanges
<1> QED
    BY <1>3, <1>4, <1>5, <1>6, ActGoesOn

LEMMA NotFoundIsGone ==
    ASSUME IInv, NEW token \in Token \cup {NoToken}, IssuedOrNone(token), ~Found(token)
    PROVE  Gone(token)
<1>1. CASE token = NoToken
    BY <1>1 DEF Gone
<1>2. CASE token \in Token
  <2>1. PICK s \in Sessions, n \in Nat : token[1] = s /\ token[2] = n /\ token # NoToken
    BY <1>2, TokenParts
  <2>2. sessions[s] # NoSession /\ sessions[s] \in Session /\ n <= sessions[s].rotations
    BY <2>1, SessionTypes DEF IssuedOrNone, Issued
  <2>3. sessions[s].rotations \in Nat /\ sessions[s].rotations # n
    BY <2>1, <2>2 DEF Found, Session
  <2> QED
    BY <2>1, <2>2, <2>3 DEF Gone
<1> QED
    BY <1>1, <1>2

\* A refresh is called for an activity.
LEMMA RefreshAwaited ==
    ASSUME IInv, NEW d \in Devices, NEW a \in Activities,
           acts[d][a].at \notin {"asking", "leaving"}, NEW c \in Calls,
           NEW token \in Token \cup {NoToken},
           Refresh(c, token, <<d, a>>), Goes(d, a, [at |-> "asking"])
    PROVE  CallsAwaited'
<1> DEFINE state == [at |-> "asking"]
           call == IF /\ Found(token)
                      /\ sessions[token[1]].status = "live" /\ ~sessions[token[1]].expired
                   THEN [pc |-> "refresh.user", token |-> token, for |-> <<d, a>>]
                   ELSE [pc |-> "reply", for |-> <<d, a>>, ok |-> FALSE, token |-> NoToken]
<1>1. state \in ActStates /\ state.at = "asking"
    BY DEF ActStates
<1>2. Starts(c, call) /\ Free(c) /\ UNCHANGED <<env, sessions>>
    BY DEF Refresh
<1>3. call.for = <<d, a>> /\ Asked(call)
    BY DEF Asked
<1> HIDE DEF call
<1> QED
    BY <1>1, <1>2, <1>3, ActBegins DEF AwaitedBy

LEMMA LoginAwaited ==
    ASSUME IInv, NEW c \in Calls, NEW d \in Devices, NEW p \in Phones, Login(c, d, p)
    PROVE  CallsAwaited'
<1> DEFINE state == [at |-> "asking"]
           Entering(pc, k) == [pc |-> pc, phone |-> p, code |-> k, reset |-> FALSE,
                               verified |-> users[p].verified, for |-> <<d, "enter">>]
<1>1. state \in ActStates /\ state.at = "asking" /\ "enter" \in Activities
    BY DEF ActStates, Activities
<1>2. /\ Goes(d, "enter", state)
      /\ acts[d]["enter"].at \notin {"asking", "leaving"}
    BY DEF Login, AtRest, Resting
<1>3. /\ Free(c) /\ UNCHANGED <<env, sessions>>
      /\ \E pc \in CodePcs, k \in Codes \cup {NoCode} : Starts(c, Entering(pc, k))
  <2>1. CASE LoginWithPassword(c, p, <<d, "enter">>)
    BY <2>1 DEF LoginWithPassword, CodePcs, PastCode
  <2>2. CASE \E k \in Codes : EnterCode(c, p, k, FALSE, <<d, "enter">>)
    BY <2>2 DEF EnterCode, CodePcs
  <2> QED
    BY <2>1, <2>2 DEF Login
<1>4. PICK pc \in CodePcs, k \in Codes \cup {NoCode} : Starts(c, Entering(pc, k))
    BY <1>3
<1> DEFINE call == Entering(pc, k)
<1>5. call.for = <<d, "enter">> /\ Asked(call) /\ Starts(c, call)
    BY <1>4 DEF Asked
<1> HIDE DEF call
<1> QED
    BY <1>1, <1>2, <1>3, <1>5, ActBegins DEF AwaitedBy

LEMMA SignOutAwaited ==
    ASSUME IInv, NEW c \in Calls, NEW d \in Devices, NEW a \in Activities, SignOut(c, d, a)
    PROVE  CallsAwaited'
<1>1. PICK token \in Token \cup {NoToken} :
         /\ token = IF env.web THEN stored[Jar] ELSE apps[d].mem
         /\ IssuedOrNone(token)
    BY ClientsAreFine DEF ClientsFine, StoredFine, AppsFine, AppHolds, App
<1> DEFINE state == [at |-> "leaving", token |-> token]
           call == IF Found(token)
                   THEN [pc |-> "logout.revoke", token |-> token, for |-> <<d, a>>]
                   ELSE [pc |-> "reply", for |-> <<d, a>>, ok |-> TRUE, token |-> NoToken]
<1>2. Logout(c, token, <<d, a>>) /\ Goes(d, a, state)
    BY <1>1 DEF SignOut
<1>3. state \in ActStates /\ state.at = "leaving" /\ state.token = token
    BY DEF ActStates
<1>4. acts[d][a].at \notin {"asking", "leaving"}
    BY DEF SignOut, In, AtRest, Resting
<1>5. Free(c) /\ Starts(c, call) /\ UNCHANGED <<env, sessions>>
    BY <1>2 DEF Logout
<1>6. call.for = <<d, a>> /\ Leaves(call, token)
  <2>1. CASE Found(token)
    BY <2>1 DEF Leaves
  <2>2. CASE ~Found(token)
    BY <1>1, <2>2, NotFoundIsGone DEF Leaves
  <2> QED
    BY <2>1, <2>2
<1> HIDE DEF state, call
<1> QED
    BY <1>2, <1>3, <1>4, <1>5, <1>6, ActBegins DEF AwaitedBy

LEMMA UntouchedAwaited ==
    ASSUME IInv, UNCHANGED <<exceptSessions, calls, acts>>
    PROVE  CallsAwaited'
BY ServedAwaited DEF exceptSessions, CallsServed, SessionsMove

LEMMA LeadingAwaited ==
    ASSUME IInv, NEW d \in Devices, NEW a \in Activities,
           StoreToken(d, a) \/ ApplyTokens(d, a) \/ RemoveToken(d, a) \/ ClearState(d, a)
    PROVE  CallsAwaited'
<1>1. \E state : Goes(d, a, state)
    BY DEF StoreToken, ApplyTokens, RemoveToken, ClearState
<1> QED
    BY <1>1, IdleActGoesOn
        DEF StoreToken, ApplyTokens, RemoveToken, ClearState, In, exceptSessions

LEMMA AnswerAwaited ==
    ASSUME IInv, NEW c \in Calls, NEW d \in Devices, NEW a \in Activities,
           ReceiveFailure(c, d, a) \/ ReceiveTokens(c, d, a) \/ LoggedOut(c, d, a)
    PROVE  CallsAwaited'
<1>1. \E state : Goes(d, a, state)
    BY DEF ReceiveFailure, ReceiveTokens, LoggedOut
<1> QED
    BY <1>1, WaitIsOver DEF ReceiveFailure, ReceiveTokens, LoggedOut, exceptSessions

LEMMA BootstrapAwaited ==
    ASSUME IInv, NEW c \in Calls, NEW d \in Devices, Bootstrap(c, d)
    PROVE  CallsAwaited'
<1>1. CASE UNCHANGED <<env, parties, users, otps, sessions, uses, calls, acts>>
    BY <1>1, UntouchedAwaited DEF exceptSessions
<1>2. CASE /\ Refresh(c, stored[Store(d)], <<d, "enter">>)
           /\ Goes(d, "enter", [at |-> "asking"])
  <2>1. stored[Store(d)] \in Token \cup {NoToken}
    BY ClientsAreFine DEF ClientsFine, StoredFine, Store
  <2>2. acts[d]["enter"].at \notin {"asking", "leaving"} /\ "enter" \in Activities
    BY DEF Bootstrap, AtRest, Resting, Activities
  <2> QED
    BY <1>2, <2>1, <2>2, RefreshAwaited
<1> QED
    BY <1>1, <1>2 DEF Bootstrap

LEMMA ReceiveAnswerAwaited ==
    ASSUME IInv, NEW r \in Requests, NEW c \in Calls, ReceiveAnswer(r, c)
    PROVE  CallsAwaited'
<1>1. requests[r].device \in Devices
    BY RequestRow DEF Request, ReceiveAnswer, NoRequest
<1>2. CASE UNCHANGED <<exceptSessions, calls, acts>>
    BY <1>2, UntouchedAwaited
<1>3. ASSUME NEW d \in Devices, AtRest(d, "refresh"),
             Refresh(c, IF env.web THEN stored[Jar] ELSE apps[d].mem, <<d, "refresh">>),
             Goes(d, "refresh", [at |-> "asking"])
      PROVE  CallsAwaited'
  <2>1. PICK token \in Token \cup {NoToken} :
           token = IF env.web THEN stored[Jar] ELSE apps[d].mem
    BY ClientsAreFine DEF ClientsFine, StoredFine, AppsFine, App
  <2>2. acts[d]["refresh"].at \notin {"asking", "leaving"} /\ "refresh" \in Activities
    BY <1>3 DEF AtRest, Resting, Activities
  <2> QED
    BY <1>3, <2>1, <2>2, RefreshAwaited
<1> QED
    BY <1>1, <1>2, <1>3 DEF ReceiveAnswer, RunRefresh

ActsOf(d) == {d} \X Activities

LEMMA RelaunchAwaited ==
    ASSUME IInv, NEW d \in Devices, Relaunch(d)
    PROVE  CallsAwaited'
<1>1. \A c \in Calls : For(c) \in ActsOf(d) => For(c) # Nobody /\ For(c)[1] = d
    BY DEF ActsOf, Nobody
<1>2. \A e \in Devices, b \in Activities : <<e, b>> \notin ActsOf(d) => e # d
    BY DEF ActsOf
<1>3. UNCHANGED <<env, sessions>>
    BY DEF Relaunch, exceptSessions
<1> QED
    BY <1>1, <1>2, <1>3, RelaunchFine, ActGoesOn

-----------------------------------------------------------------------------
(* The invariant is inductive *)

\* Whatever the server does, what the apps hold stays issued.
LEMMA AppsStayFine ==
    ASSUME IInv, SessionsMove, UNCHANGED clientVars
    PROVE  ClientsFine'
<1>1. ASSUME NEW token \in Token \cup {NoToken}, IssuedOrNone(token)
      PROVE  IssuedOrNone(token)'
    BY <1>1, IssuedStays DEF IssuedOrNone
<1>2. AppsFine'
  <2>1. apps \in [Devices -> App] /\ \A d \in Devices : AppHolds(apps[d])
    BY ClientsAreFine DEF ClientsFine, AppsFine
  <2>2. ASSUME NEW d \in Devices PROVE AppHolds(apps[d])'
    <3>1. PICK mem \in Token \cup {NoToken}, access \in Token \cup {NoToken} :
             apps[d].mem = mem /\ apps[d].access = access
        BY <2>1 DEF App
    <3>2. IssuedOrNone(mem)' /\ IssuedOrNone(access)'
        BY <1>1, <2>1, <3>1 DEF AppHolds
    <3> QED
        BY <3>1, <3>2 DEF AppHolds, clientVars
  <2> QED
    BY <2>1, <2>2 DEF AppsFine, clientVars
<1>3. ActsFine'
  <2>1. ASSUME NEW d \in Devices, NEW a \in Activities PROVE ActHolds(acts[d][a])'
    <3>1. CASE acts[d][a].at \in {"storing", "applying", "leaving", "removing", "clearing"}
      <4>1. PICK token \in Token \cup {NoToken} :
               acts[d][a].token = token /\ IssuedOrNone(token)
        BY <3>1, ActTypes DEF ActHolds
      <4> QED
        BY <1>1, <4>1 DEF ActHolds, clientVars
    <3>2. CASE acts[d][a].at \notin {"storing", "applying", "leaving", "removing", "clearing"}
        BY <3>2 DEF ActHolds, clientVars
    <3> QED
        BY <3>1, <3>2
  <2> QED
    BY <2>1, ClientsAreFine DEF ClientsFine, ActsFine, clientVars
<1>4. StoredFine'
  <2>1. stored \in [Devices \cup {Jar} -> Token \cup {NoToken}]
        /\ \A k \in Devices \cup {Jar} : IssuedOrNone(stored[k])
    BY ClientsAreFine DEF ClientsFine, StoredFine
  <2>2. ASSUME NEW k \in Devices \cup {Jar} PROVE IssuedOrNone(stored[k])'
    <3>1. PICK token \in Token \cup {NoToken} : stored[k] = token /\ IssuedOrNone(token)
        BY <2>1
    <3> QED
        BY <1>1, <3>1 DEF clientVars
  <2> QED
    BY <2>1, <2>2 DEF StoredFine, clientVars
<1> QED
    BY <1>2, <1>3, <1>4, SameRequests, ClientsAreFine DEF ClientsFine, clientVars

\* The environment names devices and requests there are.
LEMMA EnvironmentTypes ==
    ASSUME IInv
    PROVE  env.devices \subseteq Devices /\ env.requests \subseteq Requests
           /\ env.faults \subseteq FaultKinds
BY AuthServerAssumption DEF IInv, TypeOK, ServerTypeOK

\* Every step is one of the server's or one of these.
ClientStep(d) ==
    \/ \E c \in Calls : Bootstrap(c, d) \/ \E p \in Phones : Login(c, d, p)
    \/ \E r \in Requests : SendRequest(r, d)
    \/ AccessExpires(d) \/ Relaunch(d) \/ Continues(d)

LEMMA Steps ==
    ASSUME IInv, Next
    PROVE  \/ ServerSteps
           \/ \E d \in Devices : ClientStep(d)
           \/ \E r \in Requests : VerifyAccess(r) \/ \E c \in Calls : ReceiveAnswer(r, c)
BY EnvironmentTypes DEF Next, Starting, ClientStep

LEMMA ClientStepsKeep ==
    ASSUME IInv, NEW d \in Devices, ClientStep(d)
    PROVE  ServerMoves /\ ClientsFine' /\ CallsAwaited'
<1>1. ASSUME NEW c \in Calls, Bootstrap(c, d)
      PROVE  ServerMoves /\ ClientsFine' /\ CallsAwaited'
    BY <1>1, BootstrapFine, BootstrapAwaited
<1>2. ASSUME NEW c \in Calls, NEW p \in Phones, Login(c, d, p)
      PROVE  ServerMoves /\ ClientsFine' /\ CallsAwaited'
    BY <1>2, LoginFine, LoginAwaited
<1>3. ASSUME NEW r \in Requests, SendRequest(r, d)
      PROVE  ServerMoves /\ ClientsFine' /\ CallsAwaited'
    BY <1>3, SendRequestFine, UntouchedAwaited DEF SendRequest
<1>4. ASSUME AccessExpires(d) PROVE ServerMoves /\ ClientsFine' /\ CallsAwaited'
    BY <1>4, AccessExpiresFine, UntouchedAwaited DEF AccessExpires
<1>5. ASSUME Relaunch(d) PROVE ServerMoves /\ ClientsFine' /\ CallsAwaited'
    BY <1>5, RelaunchFine, RelaunchAwaited
<1>6. ASSUME NEW a \in Activities,
             StoreToken(d, a) \/ ApplyTokens(d, a) \/ RemoveToken(d, a) \/ ClearState(d, a)
      PROVE  ServerMoves /\ ClientsFine' /\ CallsAwaited'
    BY <1>6, StoreTokenFine, ApplyTokensFine, RemoveTokenFine, ClearStateFine, LeadingAwaited
<1>7. ASSUME NEW a \in Activities, NEW c \in Calls,
             ReceiveFailure(c, d, a) \/ ReceiveTokens(c, d, a) \/ LoggedOut(c, d, a)
      PROVE  ServerMoves /\ ClientsFine' /\ CallsAwaited'
    BY <1>7, ReceiveFailureFine, ReceiveTokensFine, LoggedOutFine, AnswerAwaited
<1>8. ASSUME NEW a \in Activities, NEW c \in Calls, SignOut(c, d, a)
      PROVE  ServerMoves /\ ClientsFine' /\ CallsAwaited'
    BY <1>8, SignOutFine, SignOutAwaited
<1>9. CASE Continues(d)
    BY <1>6, <1>7, <1>8, <1>9 DEF Continues
<1> QED
    BY <1>1, <1>2, <1>3, <1>4, <1>5, <1>9 DEF ClientStep

LEMMA StutterMoves ==
    ASSUME IInv, UNCHANGED vars
    PROVE  ServerMoves /\ ClientsFine' /\ CallsAwaited'
<1>1. UNCHANGED <<exceptSessions, calls, acts>> /\ UNCHANGED clientVars /\ UNCHANGED sessions
    BY DEF vars, exceptSessions, clientVars
<1>2. CallsAwaited'
    BY <1>1, UntouchedAwaited
<1>3. ServerMoves
    BY <1>1, CallsKept, NothingWritten DEF exceptSessions
<1> QED
    BY <1>1, <1>2, <1>3, AppsStayFine DEF ServerMoves

LEMMA StepsKeep ==
    ASSUME IInv, [Next]_vars
    PROVE  ServerMoves /\ ClientsFine' /\ CallsAwaited'
<1>1. CASE ServerSteps
  <2>1. ServerMoves
    BY <1>1, ServerStepsMove
  <2>2. SessionsMove /\ env' = env /\ UNCHANGED clientVars
    BY <1>1, <2>1 DEF ServerMoves, ServerSteps
  <2>3. CallsAwaited'
    BY <1>1, <2>2, StepsServe, ServedAwaited DEF clientVars
  <2> QED
    BY <2>1, <2>2, <2>3, AppsStayFine
<1>2. CASE \E d \in Devices : ClientStep(d)
    BY <1>2, ClientStepsKeep
<1>3. ASSUME NEW r \in Requests, VerifyAccess(r)
      PROVE  ServerMoves /\ ClientsFine' /\ CallsAwaited'
    BY <1>3, VerifyAccessFine, UntouchedAwaited DEF VerifyAccess
<1>4. ASSUME NEW r \in Requests, NEW c \in Calls, ReceiveAnswer(r, c)
      PROVE  ServerMoves /\ ClientsFine' /\ CallsAwaited'
    BY <1>4, ReceiveAnswerFine, ReceiveAnswerAwaited
<1>5. CASE UNCHANGED vars
    BY <1>5, StutterMoves
<1> QED
    BY <1>1, <1>2, <1>3, <1>4, <1>5, Steps

LEMMA IInvNext ==
    ASSUME IInv, [Next]_vars
    PROVE  IInv'
<1>1. ServerMoves /\ ClientsFine' /\ CallsAwaited'
    BY StepsKeep
<1>2. ServerTypeOK' /\ CallsHoldIssued'
    BY <1>1, ServerTyped, CallsStayIssued
<1> QED
    BY <1>1, <1>2 DEF IInv, TypeOK, AppsHoldIssued, ClientsFine, AppsFine, ActsFine, StoredFine,
        RequestsFine, App

LEMMA CustomerTyped == Customer \in User
BY AuthServerAssumption DEF Customer, User

LEMMA IInvInit ==
    ASSUME Init
    PROVE  IInv
<1>1. ServerTypeOK
  <2>1. \A p \in Phones : users[p] \in {Customer, NoUser}
    BY DEF Init, ServerInit
  <2>2. users \in [Phones -> User \cup {NoUser}]
    BY CustomerTyped DEF Init, ServerInit
  <2>3. parties \subseteq Parties
    BY <2>2 DEF Init, ServerInit, User
  <2> QED
    BY <2>2, <2>3 DEF Init, ServerInit, ServerTypeOK
<1>2. CallsHoldIssued /\ CallsAwaited
    BY DEF Init, ServerInit, CallsHoldIssued, CallsAwaited, At, For, Idle, CodePcs, PastCode, TokenPcs,
        RevokingPcs
<1>3. AppsFine
    BY DEF Init, AppsFine, Loading, App, AppHolds, IssuedOrNone
<1>4. ActsFine
    BY DEF Init, ActsFine, ActStates, ActHolds, Resting
<1>5. StoredFine
    BY DEF Init, StoredFine, IssuedOrNone
<1>6. RequestsFine
    BY DEF Init, RequestsFine, RequestsRunOnce
<1>7. dead \subseteq Token
    BY DEF Init
<1> QED
    BY <1>1, <1>2, <1>3, <1>4, <1>5, <1>6, <1>7, FineClients DEF ClientsFine

\* Whatever clients, users and the store do, in whatever order, handlers, apps and
\* tables keep their types; and what a handler or an app holds exists, no two
\* handlers answer to one activity, and a request that was not run was not counted.
LEMMA InvariantHolds == Spec => []IInv
<1>1. Init => IInv
    BY IInvInit
<1>2. IInv /\ [Next]_vars => IInv'
    BY IInvNext
<1> QED
    BY <1>1, <1>2, PTL DEF Spec

THEOREM TypeCorrect == Spec => []TypeOK
<1>1. IInv => TypeOK
    BY DEF IInv
<1> QED
    BY <1>1, InvariantHolds, PTL

-----------------------------------------------------------------------------
(* What is settled stays settled *)

\* A logout and the block at a refresh are final: no rotation under way when a session
\* was revoked revives it or moves it on; and an account keeps the party, and with it
\* the wallet, that it was created with, however many sign-ups race for the phone.
THEOREM SettledIsFinal == Spec => SettledForGood
<1> DEFINE Revoked == \A s \in Sessions :
              sessions[s] # NoSession /\ sessions[s].status = "revoked"
                 => sessions'[s].status = "revoked" /\ sessions'[s].rotations = sessions[s].rotations
           Kept == \A p \in Phones : users[p] # NoUser => users'[p].party = users[p].party
<1>1. IInv /\ [Next]_vars => [Revoked]_sessions /\ [Kept]_users
  <2> SUFFICES ASSUME IInv, [Next]_vars PROVE Revoked /\ Kept
    OBVIOUS
  <2>1. SessionsMove /\ UsersMove
    BY StepsKeep DEF ServerMoves
  <2> QED
    BY <2>1, OneSession, AccountsStay
<1>2. RevokedIsFinal <=> [][Revoked]_sessions
    BY DEF RevokedIsFinal
<1>3. AccountKeepsItsParty <=> [][Kept]_users
    BY DEF AccountKeepsItsParty
<1> HIDE DEF Revoked, Kept
<1> QED
    BY <1>1, <1>2, <1>3, InvariantHolds, PTL DEF Spec, SettledForGood

-----------------------------------------------------------------------------
(* Tokens, codes and requests take effect once *)

\* A token was exchanged only if its session has moved on from it.
TokensSpent ==
    \A s \in Sessions, n \in 0..MaxRotations :
        /\ uses[<<s, n>>] <= 1
        /\ uses[<<s, n>>] # 0 => sessions[s] # NoSession /\ sessions[s].rotations > n

\* A handler that holds the accepted code, and a session opened with it.
Past(c, k) == calls[c].pc \in PastCode /\ calls[c].code = k
Opened(s, k) == sessions[s] # NoSession /\ sessions[s].code = k

\* An accepted code is consumed, and has led to one handler or to one session.
CodesSpent ==
    \A k \in Codes :
        /\ \A c, e \in Calls : Past(c, k) /\ Past(e, k) => c = e
        /\ \A s, t \in Sessions : Opened(s, k) /\ Opened(t, k) => s = t
        /\ \A c \in Calls, s \in Sessions : ~(Past(c, k) /\ Opened(s, k))
        /\ \A c \in Calls : Past(c, k) => otps[k].status = "consumed"
        /\ \A s \in Sessions : Opened(s, k) => otps[k].status = "consumed"

LEMMA UseTypes ==
    ASSUME IInv, NEW s \in Sessions, NEW n \in 0..MaxRotations
    PROVE  <<s, n>> \in Token /\ uses[<<s, n>>] \in Nat /\ n \in Nat
BY AuthServerAssumption DEF IInv, TypeOK, ServerTypeOK, Token

LEMMA TokensSpentNext ==
    ASSUME IInv, TokensSpent, SessionsMove
    PROVE  TokensSpent'
<1> SUFFICES ASSUME NEW s \in Sessions, NEW n \in 0..MaxRotations
             PROVE  /\ uses'[<<s, n>>] <= 1
                    /\ uses'[<<s, n>>] # 0 => sessions'[s] # NoSession /\ sessions'[s].rotations > n
    BY DEF TokensSpent
<1>1. PICK u \in Nat : uses[<<s, n>>] = u
    BY UseTypes
<1>2. /\ <<s, n>> \in Token /\ n \in Nat /\ u <= 1
      /\ u # 0 => sessions[s] # NoSession /\ sessions[s].rotations > n
    BY <1>1, UseTypes DEF TokensSpent
<1>3. u # 0 => sessions'[s] # NoSession /\ sessions'[s].rotations > n
  <2> SUFFICES ASSUME u # 0 PROVE sessions'[s] # NoSession /\ sessions'[s].rotations > n
    OBVIOUS
  <2>1. sessions[s] # NoSession /\ sessions[s] \in Session /\ sessions[s].rotations > n
    BY <1>2, SessionTypes
  <2>2. PICK r \in Nat : sessions[s].rotations = r
    BY <2>1 DEF Session
  <2>3. sessions'[s] # NoSession /\ sessions'[s].rotations \in {r, r + 1}
    BY <2>1, <2>2, OneSession
  <2> QED
    BY <1>2, <2>1, <2>2, <2>3
<1>4. CASE uses' = uses
    BY <1>1, <1>2, <1>3, <1>4
<1>5. ASSUME NEW t \in Sessions, Rotates(t)
      PROVE  /\ uses'[<<s, n>>] <= 1
             /\ uses'[<<s, n>>] # 0 => sessions'[s] # NoSession /\ sessions'[s].rotations > n
  <2>1. PICK r \in Nat : sessions[t].rotations = r
    BY <1>5, SessionTypes DEF Rotates, Session
  <2>2. uses' = [uses EXCEPT ![<<t, r>>] = @ + 1]
    BY <1>5, <2>1 DEF Rotates
  <2>3. CASE <<t, r>> # <<s, n>>
    <3>1. uses'[<<s, n>>] = u
        BY <1>1, <1>2, <2>2, <2>3 DEF IInv, TypeOK, ServerTypeOK
    <3> QED
        BY <1>2, <1>3, <3>1
  <2>4. CASE t = s /\ r = n
    <3>1. u = 0
        BY <1>2, <2>1, <2>4
    <3>2. uses'[<<s, n>>] = 1
        BY <1>1, <1>2, <2>2, <2>4, <3>1 DEF IInv, TypeOK, ServerTypeOK
    <3>3. PICK row \in Session :
             row.rotations = sessions[t].rotations + 1 /\ sessions' = [sessions EXCEPT ![t] = row]
        BY <1>5 DEF Rotates
    <3>4. sessions'[s] = row /\ row.rotations = r + 1
        BY <2>1, <2>4, <3>3, SessionTypes
    <3>5. sessions[s] # NoSession
        BY <1>5, <2>4 DEF Rotates
    <3>6. sessions'[s] # NoSession
        BY <1>5, <2>4, <3>5, OneSession
    <3> QED
        BY <2>4, <3>2, <3>4, <3>6
  <2> QED
    BY <2>3, <2>4
<1> QED
    BY <1>4, <1>5 DEF SessionsMove, Opens, Ends

LEMMA ConsumedStays ==
    ASSUME IInv, OtpsMove, NEW k \in Codes, otps[k].status = "consumed"
    PROVE  otps'[k].status = "consumed"
<1>1. otps[k] # NoOtp /\ otps \in [Codes -> Otp \cup {NoOtp}]
    BY DEF NoOtp, IInv, TypeOK, ServerTypeOK
<1>2. CASE \E c \in Calls, j \in Codes : Saves(c, j)
    BY <1>1, <1>2 DEF Saves
<1>3. CASE \E j \in Codes : Turns(j)
    BY <1>1, <1>3 DEF Turns
<1>4. CASE Ages
    BY <1>1, <1>4 DEF Ages
<1> QED
    BY <1>2, <1>3, <1>4 DEF OtpsMove

\* A handler comes past a code only by consuming it, ...
Consumes(c, k) ==
    /\ At(c, "code.consume") /\ otps[k].status = "sent" /\ otps'[k].status = "consumed"
    /\ \A e \in Calls \ {c} : calls'[e] = calls[e]

LEMMA ComesPast ==
    ASSUME IInv, CallsMove, NEW c \in Calls, NEW k \in Codes, Past(c, k)'
    PROVE  Past(c, k) \/ Consumes(c, k)
<1>1. calls'[c].pc \in PastCode /\ calls'[c].code = k /\ k # NoCode
    BY AuthServerAssumption DEF Past, NoCode
<1>2. CASE calls'[c] = calls[c]
    BY <1>1, <1>2 DEF Past
<1>3. CASE Detaches(c)
  <2>1. calls[c] # Idle /\ calls'[c] = [calls[c] EXCEPT !.for = Nobody]
    BY <1>1, <1>3 DEF Detaches, Idle, PastCode
  <2>2. calls'[c].pc = calls[c].pc
    BY <2>1, CallKinds DEF IInv, TypeOK, ServerTypeOK, PhoneCall, UserCall, SendCall, CodeCall,
        TokenCall, ReplyCall
  <2>3. calls[c] \in CodeCall
    BY <1>1, <2>2, CodeCallAt DEF CodePcs
  <2>4. calls'[c].code = calls[c].code
    BY <2>1, <2>3 DEF CodeCall
  <2> QED
    BY <1>1, <2>2, <2>4 DEF Past
<1>4. CASE Begins(c)
    BY <1>1, <1>4 DEF Begins, PastCode
<1>5. CASE ProceedsTo(c) /\ \A e \in Calls \ {c} : calls'[e] = calls[e]
    BY <1>1, <1>5 DEF ProceedsTo, PastCode, Past, Consumes, SameLogin
<1> QED
    BY <1>2, <1>3, <1>4, <1>5 DEF CallsMove

\* ... and a session is opened with it by a handler that is then done.
Opening(c, s) ==
    /\ calls'[c].pc \notin PastCode /\ sessions[s] = NoSession
    /\ \A t \in Sessions \ {s} : sessions'[t] = sessions[t]

LEMMA ComesOpen ==
    ASSUME IInv, SessionsMove, NEW s \in Sessions, NEW k \in Codes, Opened(s, k)'
    PROVE  Opened(s, k) \/ \E c \in Calls : Past(c, k) /\ Opening(c, s)
<1>1. sessions'[s] # NoSession /\ sessions'[s].code = k
    BY DEF Opened
<1>2. CASE sessions[s] # NoSession
    BY <1>1, <1>2, OneSession DEF Opened
<1>3. ASSUME NEW c \in Calls, NEW t \in Sessions, Opens(c, t), sessions[s] = NoSession
      PROVE  Past(c, k) /\ Opening(c, s)
  <2>1. PICK row \in Session : /\ row.code = calls[c].code
                               /\ sessions' = [sessions EXCEPT ![t] = row]
    BY <1>3 DEF Opens
  <2>2. s = t /\ sessions'[s] = row
    BY <1>1, <1>3, <2>1, SessionTypes
  <2>3. Past(c, k)
    BY <1>1, <1>3, <2>1, <2>2 DEF Past, Opens, At, PastCode
  <2>4. \A u \in Sessions \ {s} : sessions'[u] = sessions[u]
    BY <2>1, <2>2, SessionTypes
  <2> QED
    BY <1>3, <2>3, <2>4 DEF Opening, Opens
<1>4. CASE (UNCHANGED <<sessions, uses>>) /\ sessions[s] = NoSession
    BY <1>1, <1>4
<1>5. ASSUME NEW t \in Sessions, Ends(t) \/ Rotates(t), sessions[s] = NoSession
      PROVE  FALSE
  <2>1. s # t
    BY <1>5 DEF Ends, Rotates
  <2>2. sessions'[s] = sessions[s]
    BY <1>5, <2>1, SessionTypes DEF Ends, Rotates
  <2> QED
    BY <1>1, <1>5, <2>2
<1> QED
    BY <1>2, <1>3, <1>4, <1>5 DEF SessionsMove

LEMMA CodesSpentNext ==
    ASSUME IInv, CodesSpent, ServerMoves
    PROVE  CodesSpent'
<1>1. SessionsMove /\ OtpsMove /\ CallsMove
    BY DEF ServerMoves
<1> SUFFICES ASSUME NEW k \in Codes
             PROVE  /\ \A c, e \in Calls : Past(c, k)' /\ Past(e, k)' => c = e
                    /\ \A s, t \in Sessions : Opened(s, k)' /\ Opened(t, k)' => s = t
                    /\ \A c \in Calls, s \in Sessions : ~(Past(c, k)' /\ Opened(s, k)')
                    /\ \A c \in Calls : Past(c, k)' => otps'[k].status = "consumed"
                    /\ \A s \in Sessions : Opened(s, k)' => otps'[k].status = "consumed"
  <2>1. Codes' = Codes /\ Calls' = Calls /\ Sessions' = Sessions
    OBVIOUS
  <2> QED
    BY DEF CodesSpent, Past, Opened
<1>2. \A c \in Calls : Past(c, k)' => Past(c, k) \/ Consumes(c, k)
    BY <1>1, ComesPast
<1>3. \A s \in Sessions :
         Opened(s, k)' => Opened(s, k) \/ \E c \in Calls : Past(c, k) /\ Opening(c, s)
    BY <1>1, ComesOpen
<1>4. /\ \A c, e \in Calls : Past(c, k) /\ Past(e, k) => c = e
      /\ \A s, t \in Sessions : Opened(s, k) /\ Opened(t, k) => s = t
      /\ \A c \in Calls, s \in Sessions : ~(Past(c, k) /\ Opened(s, k))
      /\ \A c \in Calls : Past(c, k) => otps[k].status = "consumed"
      /\ \A s \in Sessions : Opened(s, k) => otps[k].status = "consumed"
    BY DEF CodesSpent
<1>5. ASSUME NEW c \in Calls, Consumes(c, k)
      PROVE  /\ \A e \in Calls : ~Past(e, k) /\ (e # c => ~Past(e, k)')
             /\ \A s \in Sessions : ~Opened(s, k) /\ ~Opened(s, k)'
             /\ otps'[k].status = "consumed"
  <2>1. \A e \in Calls : ~Past(e, k)
    BY <1>4, <1>5 DEF Consumes
  <2>2. \A e \in Calls \ {c} : ~Past(e, k)'
    BY <1>5, <2>1 DEF Consumes, Past
  <2>3. \A s \in Sessions : ~Opened(s, k)
    BY <1>4, <1>5 DEF Consumes
  <2> QED
    BY <1>3, <1>5, <2>1, <2>2, <2>3 DEF Consumes
<1>6. otps[k].status = "consumed" => otps'[k].status = "consumed"
    BY <1>1, ConsumedStays
<1>7. \A c, e \in Calls : Past(c, k)' /\ Past(e, k)' => c = e
    BY <1>2, <1>4, <1>5
<1>8. ASSUME NEW s \in Sessions, NEW t \in Sessions, Opened(s, k)', Opened(t, k)', s # t
      PROVE  FALSE
  <2>1. CASE Opened(s, k) /\ Opened(t, k)
    BY <1>4, <1>8, <2>1
  <2>2. ASSUME NEW c \in Calls, Past(c, k), NEW u \in Sessions, NEW v \in Sessions, u # v,
               Opening(c, u), Opened(v, k)'
        PROVE  FALSE
    <3>1. Opened(v, k)
        BY <2>2 DEF Opening, Opened
    <3> QED
        BY <1>4, <2>2, <3>1
  <2> QED
    BY <1>3, <1>8, <2>1, <2>2
<1>9. ASSUME NEW c \in Calls, NEW s \in Sessions, Past(c, k)', Opened(s, k)'
      PROVE  FALSE
  <2>1. Past(c, k)
    BY <1>2, <1>5, <1>9
  <2>2. PICK e \in Calls : Past(e, k) /\ Opening(e, s)
    BY <1>3, <1>4, <1>9, <2>1
  <2>3. e = c
    BY <1>4, <2>1, <2>2
  <2> QED
    BY <1>9, <2>2, <2>3 DEF Opening, Past
<1>10. \A c \in Calls : Past(c, k)' => otps'[k].status = "consumed"
    BY <1>2, <1>4, <1>5, <1>6
<1>11. \A s \in Sessions : Opened(s, k)' => otps'[k].status = "consumed"
    BY <1>3, <1>4, <1>6
<1> QED
    BY <1>7, <1>8, <1>9, <1>10, <1>11

\* At most one handler or session, counted.
LEMMA AtMostOne ==
    ASSUME NEW S, \A x, y \in S : x = y
    PROVE  IsFiniteSet(S) /\ Cardinality(S) \in 0..1 /\ (S = {} => Cardinality(S) = 0)
<1>1. CASE S = {}
    BY <1>1, FS_EmptySet
<1>2. CASE S # {}
  <2>1. PICK x : S = {x}
    BY <1>2
  <2> QED
    BY <1>2, <2>1, FS_Singleton
<1> QED
    BY <1>1, <1>2

LEMMA OnceCounted ==
    ASSUME IInv, TokensSpent, CodesSpent
    PROVE  NothingHappensTwice
<1>1. TokenIsUsedOnce
  <2> SUFFICES ASSUME NEW token \in Token PROVE uses[token] <= 1
    BY DEF TokenIsUsedOnce
  <2>1. PICK s \in Sessions, n \in 0..MaxRotations : token = <<s, n>>
    BY DEF Token
  <2> QED
    BY <2>1 DEF TokensSpent
<1>2. CodeIsUsedOnce
  <2> SUFFICES ASSUME NEW k \in Codes
               PROVE  Cardinality({c \in Calls : calls[c].pc \in PastCode /\ calls[c].code = k})
                      + Cardinality({s \in Sessions : sessions[s] # NoSession
                                                      /\ sessions[s].code = k}) <= 1
    BY DEF CodeIsUsedOnce
  <2> DEFINE C == {c \in Calls : calls[c].pc \in PastCode /\ calls[c].code = k}
             S == {s \in Sessions : sessions[s] # NoSession /\ sessions[s].code = k}
  <2>1. (\A x, y \in C : x = y) /\ (\A x, y \in S : x = y) /\ (C = {} \/ S = {})
    BY DEF CodesSpent, Past, Opened
  <2> HIDE DEF C, S
  <2>2. /\ Cardinality(C) \in 0..1 /\ (C = {} => Cardinality(C) = 0)
        /\ Cardinality(S) \in 0..1 /\ (S = {} => Cardinality(S) = 0)
    BY <2>1, AtMostOne
  <2>3. Cardinality(C) + Cardinality(S) <= 1
    BY <2>1, <2>2
  <2> QED
    BY <2>3 DEF C, S
<1>3. RequestRunsAtMostOnce
    BY DEF IInv, RequestsRunOnce, RequestRunsAtMostOnce
<1> QED
    BY <1>1, <1>2, <1>3 DEF NothingHappensTwice

\* However refreshes, code entries and replays overlap and whatever answers are lost:
\* a refresh token is exchanged at most once, a code opens at most one session or
\* allows at most one new password, and a request is run at most once.
THEOREM EverythingHappensOnce == Spec => []NothingHappensTwice
<1>1. Init => TokensSpent /\ CodesSpent
  <2> SUFFICES ASSUME Init PROVE TokensSpent /\ CodesSpent
    OBVIOUS
  <2>1. \A s \in Sessions, n \in 0..MaxRotations : uses[<<s, n>>] = 0
    BY IInvInit, UseTypes DEF Init, ServerInit
  <2>2. \A c \in Calls : calls[c].pc = "idle"
    BY DEF Init, ServerInit, Idle
  <2>3. \A s \in Sessions : sessions[s] = NoSession
    BY DEF Init, ServerInit
  <2> QED
    BY <2>1, <2>2, <2>3 DEF TokensSpent, CodesSpent, Past, Opened, PastCode
<1>2. IInv /\ TokensSpent /\ CodesSpent /\ [Next]_vars => TokensSpent' /\ CodesSpent'
    BY StepsKeep, TokensSpentNext, CodesSpentNext DEF ServerMoves
<1>3. IInv /\ TokensSpent /\ CodesSpent => NothingHappensTwice
    BY OnceCounted
<1> QED
    BY <1>1, <1>2, <1>3, InvariantHolds, PTL DEF Spec

-----------------------------------------------------------------------------
(* The limit on codes *)

\* The handlers that have counted the codes of a phone and not saved theirs yet.
Saving(p) == {c \in Calls : At(c, "otp.save") /\ calls[c].phone = p}

\* No code becomes recent but by a save.
LEMMA RecentCodesShrink ==
    ASSUME IInv, OtpsMove, \A c \in Calls, k \in Codes : ~Saves(c, k), NEW p
    PROVE  RecentCodes(p)' \subseteq RecentCodes(p)
<1> SUFFICES ASSUME NEW k \in Codes,
                    otps'[k] # NoOtp /\ otps'[k].phone = p /\ otps'[k].recent
             PROVE  otps[k] # NoOtp /\ otps[k].phone = p /\ otps[k].recent
    BY DEF RecentCodes
<1>1. otps \in [Codes -> Otp \cup {NoOtp}]
    BY DEF IInv, TypeOK, ServerTypeOK
<1>2. CASE \E j \in Codes : Turns(j)
    BY <1>1, <1>2 DEF Turns
<1>3. CASE Ages
    BY <1>1, <1>3 DEF Ages
<1> QED
    BY <1>2, <1>3 DEF OtpsMove

LEMMA RecentCodesGrow ==
    ASSUME IInv, NEW c \in Calls, NEW k \in Codes, Saves(c, k), NEW p
    PROVE  /\ RecentCodes(p)' \subseteq RecentCodes(p) \cup {k}
           /\ p # calls[c].phone => RecentCodes(p)' \subseteq RecentCodes(p)
<1>1. PICK row \in Otp : row.phone = calls[c].phone /\ otps' = [otps EXCEPT ![k] = row]
    BY DEF Saves
<1>2. otps \in [Codes -> Otp \cup {NoOtp}]
    BY DEF IInv, TypeOK, ServerTypeOK
<1> QED
    BY <1>1, <1>2 DEF RecentCodes

\* A handler comes to save only when it has counted fewer codes than the limit.
Counted(c, p) ==
    /\ At(c, "otp.count") /\ calls[c].phone = p
    /\ ~(Cardinality(RecentCodes(p)) >= OtpMaxPerHour)
    /\ \A e \in Calls \ {c} : calls'[e] = calls[e]

LEMMA SavingGrows ==
    ASSUME IInv, CallsMove, NEW p, NEW c \in Calls, c \in Saving(p)'
    PROVE  c \in Saving(p) \/ Counted(c, p)
<1>1. calls'[c].pc = "otp.save" /\ calls'[c].phone = p
    BY DEF Saving, At
<1>2. CASE calls'[c] = calls[c]
    BY <1>1, <1>2 DEF Saving, At
<1>3. CASE Detaches(c)
  <2>1. calls[c] # Idle /\ calls'[c] = [calls[c] EXCEPT !.for = Nobody]
    BY <1>1, <1>3 DEF Detaches, Idle
  <2>2. calls'[c].pc = calls[c].pc
    BY <2>1, CallKinds DEF IInv, TypeOK, ServerTypeOK, PhoneCall, UserCall, SendCall, CodeCall,
        TokenCall, ReplyCall
  <2>3. calls[c] \in PhoneCall
    BY <1>1, <2>2, PhoneCallAt DEF PhonePcs
  <2>4. calls'[c].phone = calls[c].phone
    BY <2>1, <2>3 DEF PhoneCall
  <2> QED
    BY <1>1, <2>2, <2>4 DEF Saving, At
<1>4. CASE Begins(c)
    BY <1>1, <1>4 DEF Begins
<1>5. CASE ProceedsTo(c) /\ \A e \in Calls \ {c} : calls'[e] = calls[e]
    BY <1>1, <1>5 DEF ProceedsTo, Counted, PastCode
<1> QED
    BY <1>2, <1>3, <1>4, <1>5 DEF CallsMove

\* Sizes of a set's parts.
LEMMA Sizes ==
    ASSUME NEW S, IsFiniteSet(S), NEW T, T \subseteq S
    PROVE  /\ IsFiniteSet(T) /\ Cardinality(T) \in Nat /\ Cardinality(S) \in Nat
           /\ Cardinality(T) <= Cardinality(S)
BY FS_Subset, FS_CardinalityType

LEMMA LimitNext ==
    ASSUME IInv, LimitExceededByConcurrentOnly, ServerMoves
    PROVE  LimitExceededByConcurrentOnly'
<1>1. OtpsMove /\ CallsMove
    BY DEF ServerMoves
<1> SUFFICES ASSUME NEW p \in Phones
             PROVE  Cardinality(RecentCodes(p)') + Cardinality(Saving(p)')
                       <= OtpMaxPerHour + Cardinality(Calls) - 1
    BY DEF LimitExceededByConcurrentOnly, Saving
<1>2. PICK R : R = RecentCodes(p)
    OBVIOUS
<1>3. PICK Rn : Rn = RecentCodes(p)'
    OBVIOUS
<1>4. PICK S : S = Saving(p)
    OBVIOUS
<1>5. PICK Sn : Sn = Saving(p)'
    OBVIOUS
<1>6. /\ R = RecentCodes(p) /\ Rn = RecentCodes(p)' /\ S = Saving(p) /\ Sn = Saving(p)'
      /\ R \subseteq Codes /\ Rn \subseteq Codes /\ S \subseteq Calls /\ Sn \subseteq Calls
    BY <1>2, <1>3, <1>4, <1>5 DEF RecentCodes, Saving
<1>7. IsFiniteSet(Codes) /\ IsFiniteSet(Calls) /\ OtpMaxPerHour \in Nat
    BY AuthServerAssumption
<1>8. /\ IsFiniteSet(R) /\ Cardinality(R) \in Nat /\ IsFiniteSet(S) /\ Cardinality(S) \in Nat
      /\ IsFiniteSet(Rn) /\ Cardinality(Rn) \in Nat /\ Cardinality(Sn) \in Nat
      /\ Cardinality(Sn) <= Cardinality(Calls) /\ Cardinality(Calls) \in Nat
    BY <1>6, <1>7, Sizes
<1>9. Cardinality(R) + Cardinality(S) <= OtpMaxPerHour + Cardinality(Calls) - 1
    BY <1>6 DEF LimitExceededByConcurrentOnly, Saving
<1>10. Cardinality(Rn) + Cardinality(Sn) <= OtpMaxPerHour + Cardinality(Calls) - 1
  <2>1. ASSUME NEW c \in Calls, Counted(c, p)
        PROVE  Cardinality(Rn) + Cardinality(Sn) <= OtpMaxPerHour + Cardinality(Calls) - 1
    <3>1. Cardinality(R) < OtpMaxPerHour
        BY <1>6, <1>7, <1>8, <2>1 DEF Counted
    <3>2. \A e \in Calls, k \in Codes : ~Saves(e, k)
        BY <2>1 DEF Saves, Counted, At
    <3>3. Rn \subseteq R
        BY <1>1, <1>6, <3>2, RecentCodesShrink
    <3>4. Cardinality(Rn) <= Cardinality(R)
        BY <1>8, <3>3, Sizes
    <3> QED
        BY <1>7, <1>8, <3>1, <3>4
  <2>2. CASE \A c \in Calls : ~Counted(c, p)
    <3>1. Sn \subseteq S
        BY <1>1, <1>6, <2>2, SavingGrows
    <3>2. Cardinality(Sn) <= Cardinality(S)
        BY <1>8, <3>1, Sizes
    <3>3. CASE Rn \subseteq R
      <4>1. Cardinality(Rn) <= Cardinality(R)
        BY <1>8, <3>3, Sizes
      <4> QED
        BY <1>7, <1>8, <1>9, <3>2, <4>1
    <3>4. ASSUME NEW c \in Calls, NEW k \in Codes, Saves(c, k), calls[c].phone = p
          PROVE  Cardinality(Rn) + Cardinality(Sn) <= OtpMaxPerHour + Cardinality(Calls) - 1
      <4>1. Rn \subseteq R \cup {k}
        BY <1>6, <3>4, RecentCodesGrow
      <4>2. c \in S /\ c \notin Sn
        BY <1>6, <3>4 DEF Saves, Saving, At
      <4>3. IsFiniteSet(R \cup {k}) /\ Cardinality(R \cup {k}) \in {Cardinality(R), Cardinality(R) + 1}
        BY <1>8, FS_AddElement
      <4>4. Cardinality(Rn) <= Cardinality(R) + 1
        BY <1>8, <4>1, <4>3, Sizes
      <4>5. IsFiniteSet(S \ {c}) /\ Cardinality(S \ {c}) = Cardinality(S) - 1
        BY <1>8, <4>2, FS_RemoveElement
      <4>6. Cardinality(Sn) <= Cardinality(S) - 1
        BY <3>1, <4>2, <4>5, Sizes
      <4> QED
        BY <1>7, <1>8, <1>9, <4>4, <4>6
    <3>5. Rn \subseteq R \/ \E c \in Calls, k \in Codes : Saves(c, k) /\ calls[c].phone = p
      <4>1. CASE \A c \in Calls, k \in Codes : ~Saves(c, k)
        BY <1>1, <1>6, <4>1, RecentCodesShrink
      <4>2. ASSUME NEW c \in Calls, NEW k \in Codes, Saves(c, k), calls[c].phone # p
            PROVE  Rn \subseteq R
        BY <1>6, <4>2, RecentCodesGrow
      <4> QED
        BY <4>1, <4>2
    <3> QED
        BY <3>3, <3>4, <3>5
  <2> QED
    BY <2>1, <2>2
<1> QED
    BY <1>6, <1>10

\* The hourly limit on codes is exceeded by at most the handlers that counted before
\* one of them had saved, for every number of handlers in flight.
THEOREM LimitIsKept == Spec => []LimitExceededByConcurrentOnly
<1>1. Init => LimitExceededByConcurrentOnly
  <2> SUFFICES ASSUME Init, NEW p \in Phones
               PROVE  Cardinality(RecentCodes(p)) + Cardinality(Saving(p))
                         <= OtpMaxPerHour + Cardinality(Calls) - 1
    BY DEF LimitExceededByConcurrentOnly, Saving
  <2>1. RecentCodes(p) = {} /\ Saving(p) = {}
    BY DEF Init, ServerInit, RecentCodes, Saving, At, Idle
  <2>2. Cardinality(Calls) \in Nat /\ Cardinality(Calls) # 0 /\ OtpMaxPerHour \in Nat
    BY AuthServerAssumption, FS_CardinalityType, FS_EmptySet
  <2>3. Cardinality({}) = 0
    BY FS_EmptySet
  <2> QED
    BY <2>1, <2>2, <2>3
<1>2. IInv /\ LimitExceededByConcurrentOnly /\ [Next]_vars => LimitExceededByConcurrentOnly'
    BY StepsKeep, LimitNext
<1> QED
    BY <1>1, <1>2, InvariantHolds, PTL DEF Spec

-----------------------------------------------------------------------------
(* Signing out *)

\* An app that forgets a token, after the answer to its logout, forgets one that is gone.
Forgets(act) == act.at \in {"removing", "clearing"}
LeftIsGone ==
    env.faults = {} =>
        \A d \in Devices, a \in Activities : Forgets(acts[d][a]) => Gone(acts[d][a].token)

\* The activity keeps its state, or goes to one that forgets nothing but what is gone.
LEMMA ForgetsWhatIsGone ==
    ASSUME IInv, LeftIsGone, UNCHANGED <<env, sessions>>, NEW d \in Devices, NEW a \in Activities,
           NEW state, Goes(d, a, state), env.faults = {} /\ Forgets(state) => Gone(state.token)
    PROVE  LeftIsGone'
<1> SUFFICES ASSUME env.faults = {}, NEW e \in Devices, NEW b \in Activities, Forgets(acts'[e][b])
             PROVE  Gone(acts[e][b].token)'
    BY DEF LeftIsGone, Forgets
<1>1. acts'[e][b] = acts[e][b] \/ acts'[e][b] = state
    BY ClientsAreFine DEF Goes, ClientsFine, ActsFine
<1>2. CASE acts'[e][b] = state
    BY <1>2 DEF Gone
<1>3. CASE acts'[e][b] = acts[e][b]
    BY <1>3 DEF LeftIsGone, Gone
<1> QED
    BY <1>1, <1>2, <1>3

LEMMA SameLeft ==
    ASSUME IInv, LeftIsGone, SessionsMove, UNCHANGED <<env, acts>>
    PROVE  LeftIsGone'
<1> SUFFICES ASSUME env.faults = {}, NEW e \in Devices, NEW b \in Activities, Forgets(acts[e][b])
             PROVE  Gone(acts[e][b].token)'
    BY DEF LeftIsGone, Forgets
<1>1. PICK token \in Token \cup {NoToken} :
         acts[e][b].token = token /\ IssuedOrNone(token) /\ Gone(token)
    BY ActTypes DEF LeftIsGone, Forgets, ActHolds
<1>2. Gone(token)'
    BY <1>1, GoneStays
<1> QED
    BY <1>1, <1>2 DEF Gone

\* An activity goes on from the answers it gets.
LEMMA LeftAfterStep ==
    ASSUME IInv, LeftIsGone, NEW d \in Devices, Continues(d)
    PROVE  LeftIsGone'
<1> SUFFICES ASSUME NEW a \in Activities, NEW c \in Calls,
                    \/ StoreToken(d, a) \/ ApplyTokens(d, a) \/ RemoveToken(d, a) \/ ClearState(d, a)
                    \/ ReceiveFailure(c, d, a) \/ ReceiveTokens(c, d, a)
                    \/ SignOut(c, d, a) \/ LoggedOut(c, d, a)
             PROVE  LeftIsGone'
    BY AuthServerAssumption DEF Continues
<1>1. CASE StoreToken(d, a)
  <2> DEFINE state == [acts[d][a] EXCEPT !.at = "applying"]
  <2>1. Goes(d, a, state) /\ UNCHANGED <<env, sessions>>
    BY <1>1 DEF StoreToken, exceptSessions
  <2>2. state.at = "applying"
    BY <1>1, ActTypes DEF StoreToken, In
  <2>3. ~Forgets(state)
    BY <2>2 DEF Forgets
  <2> HIDE DEF state
  <2> QED
    BY <2>1, <2>3, ForgetsWhatIsGone
<1>2. CASE ApplyTokens(d, a) \/ ClearState(d, a)
  <2>1. Goes(d, a, Resting) /\ UNCHANGED <<env, sessions>>
    BY <1>2 DEF ApplyTokens, ClearState, exceptSessions
  <2>2. ~Forgets(Resting)
    BY DEF Forgets, Resting
  <2> QED
    BY <2>1, <2>2, ForgetsWhatIsGone
<1>3. CASE RemoveToken(d, a)
  <2> DEFINE state == [acts[d][a] EXCEPT !.at = "clearing"]
  <2>1. Goes(d, a, state) /\ UNCHANGED <<env, sessions>> /\ acts[d][a].at = "removing"
    BY <1>3 DEF RemoveToken, In, exceptSessions
  <2>2. state.token = acts[d][a].token
    BY <2>1, ActTypes
  <2>3. env.faults = {} => Gone(acts[d][a].token)
    BY <2>1 DEF LeftIsGone, Forgets
  <2>4. env.faults = {} => Gone(state.token)
    BY <2>2, <2>3 DEF Gone
  <2> HIDE DEF state
  <2> QED
    BY <2>1, <2>4, ForgetsWhatIsGone
<1>4. CASE ReceiveFailure(c, d, a)
  <2>1. Goes(d, a, AfterFailure(d, a)) /\ UNCHANGED <<env, sessions>>
    BY <1>4 DEF ReceiveFailure, exceptSessions
  <2>2. Forgets(AfterFailure(d, a)) => AfterFailure(d, a).token = NoToken
    BY DEF AfterFailure, Forgets, Resting
  <2>3. Forgets(AfterFailure(d, a)) => Gone(AfterFailure(d, a).token)
    BY <2>2 DEF Gone
  <2> QED
    BY <2>1, <2>3, ForgetsWhatIsGone
<1>5. CASE ReceiveTokens(c, d, a)
  <2> DEFINE state == [at |-> IF env.web THEN "applying" ELSE "storing",
                       token |-> calls[c].token]
  <2>1. Goes(d, a, state) /\ UNCHANGED <<env, sessions>>
    BY <1>5 DEF ReceiveTokens, exceptSessions
  <2>2. ~Forgets(state)
    BY DEF Forgets
  <2> HIDE DEF state
  <2> QED
    BY <2>1, <2>2, ForgetsWhatIsGone
<1>6. CASE SignOut(c, d, a)
  <2>1. \E token : Goes(d, a, [at |-> "leaving", token |-> token])
    BY <1>6 DEF SignOut
  <2>2. PICK token : Goes(d, a, [at |-> "leaving", token |-> token])
    BY <2>1
  <2> DEFINE state == [at |-> "leaving", token |-> token]
  <2>3. ~Forgets(state) /\ Goes(d, a, state)
    BY <2>2 DEF Forgets
  <2>4. UNCHANGED <<env, sessions>>
    BY <1>6 DEF SignOut, Logout
  <2> HIDE DEF state
  <2> QED
    BY <2>3, <2>4, ForgetsWhatIsGone
<1>7. CASE LoggedOut(c, d, a)
  <2> DEFINE state == [acts[d][a] EXCEPT !.at = IF env.web THEN "clearing" ELSE "removing"]
  <2>1. Goes(d, a, state) /\ UNCHANGED <<env, sessions>> /\ acts[d][a].at = "leaving"
        /\ For(c) = <<d, a>>
    BY <1>7 DEF LoggedOut, In, exceptSessions
  <2>2. state.token = acts[d][a].token
    BY <2>1, ActTypes
  <2>3. Leaves(calls[c], acts[d][a].token)
    BY <2>1 DEF IInv, CallsAwaited, AwaitedBy, Nobody
  <2>4. env.faults = {} => At(c, "reply")
    BY <1>7 DEF LoggedOut, MayHappen
  <2>5. env.faults = {} => Gone(acts[d][a].token)
    BY <2>3, <2>4 DEF Leaves, At
  <2>6. env.faults = {} => Gone(state.token)
    BY <2>2, <2>5 DEF Gone
  <2> HIDE DEF state
  <2> QED
    BY <2>1, <2>6, ForgetsWhatIsGone
<1> QED
    BY <1>1, <1>2, <1>3, <1>4, <1>5, <1>6, <1>7

LEMMA LeftNext ==
    ASSUME IInv, LeftIsGone, [Next]_vars
    PROVE  LeftIsGone'
<1>1. SessionsMove /\ env' = env
    BY StepsKeep DEF ServerMoves
<1>2. CASE UNCHANGED acts
    BY <1>1, <1>2, SameLeft
<1>3. ASSUME NEW d \in Devices, Continues(d) PROVE LeftIsGone'
    BY <1>3, LeftAfterStep
<1>4. ASSUME NEW d \in Devices, NEW a \in Activities, Goes(d, a, [at |-> "asking"]),
             UNCHANGED <<env, sessions>>
      PROVE  LeftIsGone'
  <2> DEFINE state == [at |-> "asking"]
  <2>1. Goes(d, a, state) /\ ~Forgets(state)
    BY <1>4 DEF Forgets
  <2> HIDE DEF state
  <2> QED
    BY <1>4, <2>1, ForgetsWhatIsGone
<1>5. ASSUME NEW d \in Devices, Relaunch(d) PROVE LeftIsGone'
    BY <1>5 DEF Relaunch, MayHappen, LeftIsGone, exceptSessions
<1>6. ASSUME NEW d \in Devices, NEW c \in Calls, Bootstrap(c, d) PROVE LeftIsGone'
    BY <1>2, <1>4, <1>6 DEF Bootstrap, Refresh, Activities
<1>7. ASSUME NEW d \in Devices, NEW c \in Calls, NEW p \in Phones, Login(c, d, p)
      PROVE  LeftIsGone'
    BY <1>4, <1>7 DEF Login, LoginWithPassword, EnterCode, Activities
<1>8. ASSUME NEW r \in Requests, NEW c \in Calls, ReceiveAnswer(r, c) PROVE LeftIsGone'
  <2>1. requests[r].device \in Devices
    BY <1>8, RequestRow DEF Request, ReceiveAnswer, NoRequest
  <2> QED
    BY <1>2, <1>4, <1>8, <2>1 DEF ReceiveAnswer, RunRefresh, Refresh, Activities
<1> QED
    BY <1>2, <1>3, <1>5, <1>6, <1>7, <1>8, Steps
        DEF ClientStep, ServerSteps, clientVars, vars, SendRequest, AccessExpires, VerifyAccess

\* When nothing fails, an app that has the answer to its logout has ended the session it
\* named, unless a refresh had moved that session on to its next token before.
THEOREM SignOutEndsTheSession == Spec => []SignOutRevokes
<1>1. Init => LeftIsGone
    BY DEF Init, LeftIsGone, Forgets, Resting
<1>2. IInv /\ LeftIsGone /\ [Next]_vars => LeftIsGone'
    BY LeftNext
<1>3. IInv /\ LeftIsGone => SignOutRevokes
    BY EnvironmentTypes DEF LeftIsGone, SignOutRevokes, Forgets, Gone
<1> QED
    BY <1>1, <1>2, <1>3, InvariantHolds, PTL DEF Spec

-----------------------------------------------------------------------------
(* Staying signed in *)

\* The sessions of an app, and the last token of a session.
Mine(d, s) == sessions[s] # NoSession /\ sessions[s].device = d
HasSession(d) == \E s \in Sessions : Mine(d, s)
Current(s) == <<s, sessions[s].rotations>>

\* What an activity that brings tokens carries is current, and saved before it is applied.
Brings(act, d, s) ==
    /\ act.at \in {"storing", "applying"} => act.token = Current(s)
    /\ act.at = "applying" => stored[Store(d)] = Current(s)
    /\ act.at = "storing" => ~env.web

\* The app has nothing yet, ...
Outside(d) ==
    /\ apps[d].status # "authenticated" /\ stored[Store(d)] = NoToken
    /\ AtRest(d, "refresh")
    /\ acts[d]["enter"].at \in {"rest", "asking", "removing", "clearing"}
\* ... or is on its way in, ...
Enters(d, s) ==
    /\ apps[d].status = "unauthenticated"
    /\ AtRest(d, "refresh")
    /\ acts[d]["enter"].at \in {"asking", "storing", "applying"}
    /\ Brings(acts[d]["enter"], d, s)
\* ... or is in, with one refresh at most under way.
Inside(d, s) ==
    /\ apps[d].status = "authenticated"
    /\ AtRest(d, "enter")
    /\ acts[d]["refresh"].at \in {"rest", "asking", "storing", "applying"}
    /\ Brings(acts[d]["refresh"], d, s)
    /\ AtRest(d, "refresh") =>
          stored[Store(d)] = Current(s) /\ (~env.web => apps[d].mem = Current(s))

AppIsCalm(d) ==
    /\ AtRest(d, "leave")
    /\ ~HasSession(d) => Outside(d)
    /\ \A s \in Sessions : Mine(d, s) =>
          /\ sessions[s].status = "live" /\ ~sessions[s].expired
          /\ \A t \in Sessions : Mine(d, t) => t = s
          /\ Enters(d, s) \/ Inside(d, s)

\* The answer to an activity brings its session's last token, or there is no session yet.
Refreshes(call, d) ==
    \E s \in Sessions :
        /\ Mine(d, s) /\ Inside(d, s) /\ call.token = Current(s)
        /\ \/ call.pc \in {"refresh.user", "refresh.rotate"}
           \/ call.pc = "reply" /\ call.ok
LogsIn(call, d) ==
    \/ /\ ~HasSession(d)
       /\ \/ call.pc \in CodePcs /\ apps[d].status = "unauthenticated"
          \/ call.pc = "reply" /\ ~call.ok
    \/ /\ call.pc = "reply" /\ call.ok
       /\ \E s \in Sessions : Mine(d, s) /\ Enters(d, s) /\ call.token = Current(s)

CallIsCalm(c) ==
    /\ calls[c].pc \notin RevokingPcs
    /\ calls[c].pc \in TokenPcs => For(c) # Nobody
    /\ For(c) # Nobody =>
          \E d \in env.devices :
              \/ For(c) = <<d, "refresh">> /\ Refreshes(calls[c], d)
              \/ For(c) = <<d, "enter">> /\ LogsIn(calls[c], d)

RequestsAreCalm ==
    \A r \in Requests : requests[r] # NoRequest =>
        requests[r].device \in env.devices /\ apps[requests[r].device].status = "authenticated"

AllIsCalm ==
    /\ \A p \in Phones : users[p].status # "blocked"
    /\ \A d \in env.devices : AppIsCalm(d)
    /\ \A c \in Calls : CallIsCalm(c)
    /\ RequestsAreCalm

Calm == Undisturbed => AllIsCalm

LEMMA UndisturbedMeans ==
    ASSUME IInv, Undisturbed
    PROVE  /\ \A fault : ~MayHappen(fault)
           /\ ~Doing("sign_out") /\ ~Doing("block") /\ ~Doing("expire")
           /\ env.devices \subseteq Devices /\ "none" \notin env.devices
           /\ \A d, e \in env.devices : Store(d) = Store(e) => d = e
           /\ env.web \in BOOLEAN
<1>1. env.devices \subseteq Devices /\ env.web \in BOOLEAN
    BY AuthServerAssumption DEF IInv, TypeOK, ServerTypeOK
<1>2. IsFiniteSet(env.devices)
    BY <1>1, DevicesAssumption, FS_Subset
<1>3. env.web => \E d : env.devices = {d}
    BY <1>2, FS_Singleton DEF Undisturbed
<1> QED
    BY <1>1, <1>3, DevicesAssumption DEF Undisturbed, MayHappen, Doing, Store

\* Nothing that concerns the app changes.
SameFor(d) ==
    /\ env' = env /\ acts'[d] = acts[d] /\ apps'[d] = apps[d]
    /\ stored'[Store(d)] = stored[Store(d)]
    /\ \A s \in Sessions : IF Mine(d, s) THEN sessions'[s] = sessions[s] ELSE ~Mine(d, s)'

LEMMA SameForStays ==
    ASSUME NEW d, SameFor(d)
    PROVE  /\ AppIsCalm(d) => AppIsCalm(d)'
           /\ HasSession(d)' <=> HasSession(d)
           /\ \A s \in Sessions : Mine(d, s)' <=> Mine(d, s)
           /\ \A s \in Sessions : Mine(d, s) =>
                 /\ (Enters(d, s) => Enters(d, s)') /\ (Inside(d, s) => Inside(d, s)')
                 /\ Current(s)' = Current(s)
<1>1. \A s \in Sessions : Mine(d, s)' <=> Mine(d, s)
    BY DEF SameFor, Mine
<1>2. HasSession(d)' <=> HasSession(d)
    BY <1>1 DEF HasSession
<1>3. /\ env' = env /\ acts'[d] = acts[d] /\ apps'[d] = apps[d] /\ Store(d)' = Store(d)
      /\ stored'[Store(d)] = stored[Store(d)]
    BY DEF SameFor, Store
<1>4. ASSUME NEW s \in Sessions, Mine(d, s)
      PROVE  /\ (Enters(d, s) => Enters(d, s)') /\ (Inside(d, s) => Inside(d, s)')
             /\ Current(s)' = Current(s) /\ sessions'[s] = sessions[s]
  <2>1. sessions'[s] = sessions[s]
    BY <1>4 DEF SameFor
  <2>2. Current(s)' = Current(s)
    BY <2>1 DEF Current
  <2> QED
    BY <1>3, <2>1, <2>2 DEF Enters, Inside, Brings, AtRest
<1>5. Outside(d) => Outside(d)'
    BY <1>3 DEF Outside, AtRest
<1>6. AppIsCalm(d) => AppIsCalm(d)'
    BY <1>1, <1>2, <1>3, <1>4, <1>5 DEF AppIsCalm, AtRest
<1> QED
    BY <1>1, <1>2, <1>4, <1>6

\* A handler that does not move owes the same.
LEMMA SameCallStays ==
    ASSUME NEW c \in Calls, calls'[c] = calls[c], CallIsCalm(c), env' = env,
           \A d \in env.devices, a \in Activities : For(c) = <<d, a>> => SameFor(d)
    PROVE  CallIsCalm(c)'
<1>1. For(c)' = For(c)
    BY DEF For
<1>2. ASSUME NEW d \in env.devices, For(c) = <<d, "refresh">>, Refreshes(calls[c], d)
      PROVE  Refreshes(calls[c], d)'
  <2>1. SameFor(d)
    BY <1>2 DEF Activities
  <2> QED
    BY <1>2, <2>1, SameForStays DEF Refreshes
<1>3. ASSUME NEW d \in env.devices, For(c) = <<d, "enter">>, LogsIn(calls[c], d)
      PROVE  LogsIn(calls[c], d)'
  <2>1. SameFor(d)
    BY <1>3 DEF Activities
  <2> QED
    BY <1>3, <2>1, SameForStays DEF LogsIn, SameFor
<1> QED
    BY <1>1, <1>2, <1>3 DEF CallIsCalm

\* Requests keep their device, and apps stay signed in.
RequestsStay ==
    \A r \in Requests : requests'[r] # NoRequest =>
        requests[r] # NoRequest /\ requests'[r].device = requests[r].device
AppsStayIn ==
    \A d \in env.devices : apps[d].status = "authenticated" => apps'[d].status = "authenticated"

\* A handler that does not move and works for no activity of d.
Elsewhere(c, d) == calls'[c] = calls[c] /\ \A a \in Activities : For(c) # <<d, a>>

\* A step that concerns one app, and the handlers that work for it.
LEMMA OneAppMoves ==
    ASSUME Undisturbed, AllIsCalm, env' = env, users' = users, NEW d \in env.devices, AppIsCalm(d)',
           \A e \in env.devices \ {d} : SameFor(e),
           \A c \in Calls : CallIsCalm(c)' \/ Elsewhere(c, d),
           RequestsStay, AppsStayIn
    PROVE  AllIsCalm'
<1>1. \A e \in env.devices : AppIsCalm(e)'
    BY SameForStays DEF AllIsCalm
<1>2. ASSUME NEW c \in Calls PROVE CallIsCalm(c)'
  <2>1. CASE Elsewhere(c, d)
    <3>1. \A e \in env.devices, a \in Activities : For(c) = <<e, a>> => SameFor(e)
        BY <2>1 DEF Elsewhere
    <3> QED
        BY <2>1, <3>1, SameCallStays DEF AllIsCalm, Elsewhere
  <2> QED
    BY <2>1
<1>3. RequestsAreCalm'
    BY DEF RequestsAreCalm, RequestsStay, AppsStayIn, AllIsCalm
<1> QED
    BY <1>1, <1>2, <1>3 DEF AllIsCalm

\* A step that concerns no app.
LEMMA NoAppMoves ==
    ASSUME Undisturbed, AllIsCalm, env' = env, \A p \in Phones : users'[p].status # "blocked",
           \A d \in env.devices : SameFor(d),
           \A c \in Calls : CallIsCalm(c)' \/ calls'[c] = calls[c],
           RequestsAreCalm'
    PROVE  AllIsCalm'
<1>1. \A e \in env.devices : AppIsCalm(e)'
    BY SameForStays DEF AllIsCalm
<1>2. \A c \in Calls : CallIsCalm(c)'
    BY SameCallStays DEF AllIsCalm
<1> QED
    BY <1>1, <1>2 DEF AllIsCalm

-----------------------------------------------------------------------------
(* Staying signed in: the server's steps *)

\* A step that no app waits for.
LEMMA NoSessionMoves ==
    ASSUME Undisturbed, AllIsCalm, env' = env, UNCHANGED clientVars, UNCHANGED sessions,
           \A p \in Phones : users'[p].status # "blocked",
           \A c \in Calls : CallIsCalm(c)' \/ calls'[c] = calls[c]
    PROVE  AllIsCalm'
<1>1. UNCHANGED <<apps, acts, stored, requests>>
    BY DEF clientVars
<1>2. \A d \in env.devices : SameFor(d)
    BY <1>1 DEF SameFor, Mine
<1>3. RequestsAreCalm'
    BY <1>1 DEF RequestsAreCalm, AllIsCalm
<1> QED
    BY <1>2, <1>3, NoAppMoves

\* A handler of a token does not come from elsewhere.
LEMMA TokenHandlers ==
    ASSUME IInv, CallsMove, NEW c \in Calls, calls[c] # Idle, calls'[c].pc \in TokenPcs
    PROVE  calls[c].pc \in TokenPcs
<1>1. calls'[c] = calls[c] \/ Detaches(c) \/ ProceedsTo(c)
    BY DEF CallsMove, Begins
<1>2. CASE Detaches(c)
  <2>1. calls'[c] # Idle
    BY DEF Idle, TokenPcs, RevokingPcs
  <2>2. calls'[c] = [calls[c] EXCEPT !.for = Nobody]
    BY <1>2, <2>1 DEF Detaches
  <2>3. calls[c] \in PhoneCall \cup UserCall \cup SendCall \cup CodeCall \cup TokenCall \cup ReplyCall
    BY CallKinds DEF IInv, TypeOK, ServerTypeOK
  <2>4. [calls[c] EXCEPT !.for = Nobody].pc = calls[c].pc
    BY <2>3 DEF PhoneCall, UserCall, SendCall, CodeCall, TokenCall, ReplyCall
  <2> QED
    BY <2>2, <2>4
<1>3. CASE ProceedsTo(c)
    BY <1>3 DEF ProceedsTo, TokenPcs, RevokingPcs, At, PastCode
<1> QED
    BY <1>1, <1>2, <1>3

LEMMA OthersStay ==
    ASSUME IInv, NEW c \in Calls, ServerProceeds(c)
    PROVE  \A e \in Calls \ {c} : calls'[e] = calls[e]
<1>0. \A state : Starts(c, state) => \A e \in Calls \ {c} : calls'[e] = calls[e]
    BY DEF Starts, IInv, TypeOK, ServerTypeOK
<1>1. \A pc : GoesTo(c, pc) => Starts(c, [calls[c] EXCEPT !.pc = pc])
    BY DEF GoesTo, Starts
<1>2. \E state : Starts(c, state)
  <2>1. \A ok, token : Answers(c, ok, token) => \E state : Starts(c, state)
    BY DEF Answers
  <2>2. Throws(c) => \E state : Starts(c, state)
    BY <2>1 DEF Throws
  <2>3. CASE CreateParty(c) \/ CreateUser(c) \/ CountOtps(c) \/ SaveOtp(c) \/ SendOtp(c)
    BY <1>1, <2>2, <2>3 DEF CreateParty, CreateUser, CountOtps, SaveOtp, SendOtp, AwaitsWrite
  <2>4. CASE ConsumeOtp(c) \/ SetPassword(c) \/ MarkPhoneVerified(c)
    BY <1>1, <2>1, <2>2, <2>4 DEF ConsumeOtp, SetPassword, MarkPhoneVerified, AwaitsWrite
  <2>5. CASE CreateSession(c)
    BY <2>1, <2>2, <2>5 DEF CreateSession, AwaitsWrite
  <2>6. CASE RefreshUser(c) \/ RevokeSession(c)
    BY <1>1, <2>1, <2>2, <2>6 DEF RefreshUser, RevokeSession, AwaitsWrite
  <2>7. CASE RotateSession(c)
    BY <2>1, <2>2, <2>7 DEF RotateSession, AwaitsWrite
  <2> QED
    BY <2>3, <2>4, <2>5, <2>6, <2>7 DEF ServerProceeds
<1> QED
    BY <1>0, <1>2

LEMMA NobodyIsBlocked ==
    ASSUME IInv, AllIsCalm, NEW c \in Calls, ServerProceeds(c)
    PROVE  \A p \in Phones : users'[p].status # "blocked"
<1>1. CASE UNCHANGED users
    BY <1>1 DEF AllIsCalm
<1>2. ASSUME NEW p \in Phones, NEW row \in User, row.status # "blocked",
             users' = [users EXCEPT ![p] = row]
      PROVE  \A q \in Phones : users'[q].status # "blocked"
    BY <1>2 DEF AllIsCalm, IInv, TypeOK, ServerTypeOK
<1>3. CASE CreateUser(c)
  <2> DEFINE row == NewUser(calls[c].party)
  <2>1. calls[c].phone \in Phones /\ row \in User /\ row.status # "blocked"
    BY <1>3, CallTypes DEF IInv, TypeOK, CreateUser, At, UserCall, NewUser, User
  <2>2. UNCHANGED users \/ users' = [users EXCEPT ![calls[c].phone] = row]
    BY <1>3 DEF CreateUser, AwaitsWrite
  <2> HIDE DEF row
  <2> QED
    BY <1>1, <1>2, <2>1, <2>2
<1>4. ASSUME SetPassword(c) \/ MarkPhoneVerified(c)
      PROVE  \A q \in Phones : users'[q].status # "blocked"
  <2>1. PICK p \in Phones, old \in User : p = calls[c].phone /\ users[p] = old
    BY <1>4, CodeCallAt DEF SetPassword, MarkPhoneVerified, At, CodePcs, PastCode
  <2>2. old.status # "blocked"
    BY <2>1 DEF AllIsCalm
  <2>3. CASE SetPassword(c)
    <3> DEFINE row == [old EXCEPT !.password = @ + 1]
    <3>1. row \in User /\ row.status # "blocked"
        BY <2>2 DEF User
    <3>2. UNCHANGED users \/ users' = [users EXCEPT ![p] = row]
        BY <2>1, <2>3 DEF SetPassword, AwaitsWrite
    <3> HIDE DEF row
    <3> QED
        BY <1>1, <1>2, <3>1, <3>2
  <2>4. CASE MarkPhoneVerified(c)
    <3> DEFINE row == [old EXCEPT !.verified = TRUE]
    <3>1. row \in User /\ row.status # "blocked"
        BY <2>2 DEF User
    <3>2. UNCHANGED users \/ users' = [users EXCEPT ![p] = row]
        BY <2>1, <2>4 DEF MarkPhoneVerified, AwaitsWrite
    <3> HIDE DEF row
    <3> QED
        BY <1>1, <1>2, <3>1, <3>2
  <2> QED
    BY <1>4, <2>3, <2>4
<1>5. CASE SetPassword(c) \/ MarkPhoneVerified(c)
    BY <1>4, <1>5
<1> QED
    BY <1>1, <1>3, <1>5 DEF ServerProceeds, CreateParty, CountOtps, SaveOtp, SendOtp, ConsumeOtp,
        CreateSession, RefreshUser, RevokeSession, RotateSession

\* A handler that answers to nobody changes nothing for the apps; a session it opens is
\* nobody's.
LEMMA UnawaitedStaysCalm ==
    ASSUME IInv, Undisturbed, AllIsCalm, UNCHANGED clientVars, NEW c \in Calls, ServerProceeds(c),
           For(c) = Nobody
    PROVE  AllIsCalm'
<1>1. calls[c] # Idle /\ CallsMove /\ env' = env
  <2>1. calls[c].pc # "idle"
    BY DEF ServerProceeds, CreateParty, CreateUser, CountOtps, SaveOtp, SendOtp, ConsumeOtp,
        SetPassword, MarkPhoneVerified, CreateSession, RefreshUser, RevokeSession, RotateSession, At
  <2> QED
    <3>1. calls[c] # Idle
        BY <2>1 DEF Idle
    <3>2. CallsMove /\ env' = env
        BY ProceedsMoves, Zenon DEF ServerMoves
    <3> QED
        BY <3>1, <3>2
<1>2. calls[c].pc \notin TokenPcs
    BY DEF AllIsCalm, CallIsCalm
<1>3. calls'[c].pc \notin TokenPcs
    BY <1>1, <1>2, TokenHandlers
<1>4. For(c)' = Nobody
  <2>1. CallsServed
    BY PhoneServed, LoginServed, TokenServed DEF ServerProceeds
  <2>2. calls'[c] = calls[c] => For(c)' = For(c)
    BY DEF For
  <2> QED
    BY <2>1, <2>2 DEF CallsServed, Served
<1>5. CallIsCalm(c)'
    BY <1>3, <1>4 DEF CallIsCalm, TokenPcs
<1>6. \A e \in Calls : CallIsCalm(e)' \/ calls'[e] = calls[e]
    BY <1>5, OthersStay
<1>7. \A p \in Phones : users'[p].status # "blocked"
    BY NobodyIsBlocked
<1>8. CASE UNCHANGED sessions
    BY <1>1, <1>6, <1>7, <1>8, NoSessionMoves
<1>9. CASE CreateSession(c)
  <2>1. calls[c].for = Nobody
    BY <1>1 DEF For
  <2>2. \/ UNCHANGED sessions
        \/ \E s \in Sessions, row \in [device : {"none"}, status : {"live"}, rotations : {0},
                                       expired : {FALSE}, phone : {calls[c].phone},
                                       code : {calls[c].code}] :
              sessions[s] = NoSession /\ sessions' = [sessions EXCEPT ![s] = row]
    BY <1>9, <2>1 DEF CreateSession, AwaitsWrite, First
  <2>3. ASSUME NEW s \in Sessions, NEW row, row.device = "none", sessions[s] = NoSession,
               sessions' = [sessions EXCEPT ![s] = row]
        PROVE  AllIsCalm'
    <3>1. "none" \notin env.devices
        BY UndisturbedMeans
    <3>2. sessions'[s] = row /\ \A t \in Sessions \ {s} : sessions'[t] = sessions[t]
        BY <2>3, SessionTypes
    <3>3. \A d \in env.devices : SameFor(d)
        BY <1>1, <2>3, <3>1, <3>2 DEF SameFor, Mine, clientVars
    <3>4. RequestsAreCalm'
      <4>1. UNCHANGED <<env, apps, requests>>
        BY <1>1 DEF clientVars
      <4>2. RequestsAreCalm
        BY Zenon DEF AllIsCalm
      <4> QED
        BY <4>1, <4>2 DEF RequestsAreCalm
    <3> QED
        BY <1>1, <1>6, <1>7, <3>3, <3>4, NoAppMoves
  <2> QED
    BY <1>8, <2>2, <2>3
<1>10. UNCHANGED sessions \/ CreateSession(c)
    BY <1>2 DEF ServerProceeds, CreateParty, CreateUser, CountOtps, SaveOtp, SendOtp, ConsumeOtp,
        SetPassword, MarkPhoneVerified, RefreshUser, RevokeSession, RotateSession, At, TokenPcs,
        RevokingPcs
<1> QED
    BY <1>8, <1>9, <1>10

\* What arrives from elsewhere is for nobody.
LEMMA ArrivalsStayCalm ==
    ASSUME IInv, Undisturbed, AllIsCalm, UNCHANGED clientVars, ServerArrivals
    PROVE  AllIsCalm'
<1>1. ~Doing("block") /\ ~Doing("expire")
    BY UndisturbedMeans
<1>2. ASSUME NEW c \in Calls, NEW state, Starts(c, state), state.for = Nobody,
             state.pc \notin TokenPcs, UNCHANGED <<env, users, sessions>>
      PROVE  AllIsCalm'
  <2>1. \A e \in Calls : calls'[e] = IF e = c THEN state ELSE calls[e]
    BY <1>2 DEF Starts, IInv, TypeOK, ServerTypeOK
  <2>2. CallIsCalm(c)'
    BY <1>2, <2>1 DEF CallIsCalm, For, TokenPcs
  <2> QED
    BY <1>2, <2>1, <2>2, NoSessionMoves DEF AllIsCalm
<1>3. CASE \E c \in Calls, p \in Phones : Register(c, p) \/ RequestOtp(c, p)
  <2>1. PICK c \in Calls, p \in Phones : Register(c, p) \/ RequestOtp(c, p)
    BY <1>3
  <2> QED
    BY <1>2, <2>1 DEF Register, RequestOtp, TokenPcs, RevokingPcs
<1>4. CASE \E c \in Calls, p \in Phones, k \in Codes, reset \in BOOLEAN :
              EnterCode(c, p, k, reset, Nobody)
  <2>1. PICK c \in Calls, p \in Phones, k \in Codes, reset \in BOOLEAN :
              EnterCode(c, p, k, reset, Nobody)
    BY <1>4
  <2> QED
    BY <1>2, <2>1 DEF EnterCode, TokenPcs, RevokingPcs
<1> QED
    BY <1>1, <1>3, <1>4 DEF ServerArrivals, HourPasses, Block, SessionExpires

\* Who waits for a handler: a refresh of a signed-in app, or a login of one that is not.
LEMMA WaitersAre ==
    ASSUME AllIsCalm, NEW c \in Calls, For(c) # Nobody
    PROVE  \E d \in env.devices :
              \/ For(c) = <<d, "refresh">> /\ Refreshes(calls[c], d)
              \/ For(c) = <<d, "enter">> /\ LogsIn(calls[c], d)
BY DEF AllIsCalm, CallIsCalm

\* An activity with an answer to come asks.
LEMMA WhoWaitsAsks ==
    ASSUME IInv, AllIsCalm, NEW d \in env.devices, NEW a \in Activities, NEW c \in Calls,
           For(c) = <<d, a>>
    PROVE  acts[d][a].at = "asking"
<1>1. For(c)[1] = d /\ For(c)[2] = a /\ For(c) # Nobody
    BY DEF Nobody
<1>2. acts[d][a].at \in {"asking", "leaving"}
    BY <1>1 DEF IInv, CallsAwaited, AwaitedBy
<1>3. acts[d][a].at # "leaving"
  <2>1. a = "leave" => acts[d][a].at = "rest"
    BY DEF AllIsCalm, AppIsCalm, AtRest, Resting
  <2>2. CASE ~HasSession(d)
    BY <2>1, <2>2 DEF AllIsCalm, AppIsCalm, Outside, AtRest, Resting, Activities
  <2>3. CASE HasSession(d)
    BY <2>1, <2>3 DEF AllIsCalm, AppIsCalm, Enters, Inside, AtRest, Resting, Activities, HasSession
  <2> QED
    BY <2>2, <2>3
<1> QED
    BY <1>2, <1>3

\* While one activity of an app waits, no other handler works for the app.
LEMMA OneHandlerPerApp ==
    ASSUME IInv, AllIsCalm, NEW d \in env.devices, NEW a \in Activities, NEW c \in Calls,
           For(c) = <<d, a>>
    PROVE  \A e \in Calls \ {c}, b \in Activities : For(e) # <<d, b>>
<1> SUFFICES ASSUME NEW e \in Calls \ {c}, NEW b \in Activities, For(e) = <<d, b>> PROVE FALSE
    OBVIOUS
<1>1. For(c) # Nobody /\ For(e) # Nobody
    BY DEF Nobody
<1>2. a # b
    BY <1>1 DEF IInv, CallsAwaited
<1>3. acts[d][a].at = "asking" /\ acts[d][b].at = "asking"
    BY WhoWaitsAsks
<1>4. ~AtRest(d, a) /\ ~AtRest(d, b)
    BY <1>3 DEF AtRest, Resting
<1>5. AtRest(d, "leave") /\ (AtRest(d, "refresh") \/ AtRest(d, "enter"))
    BY DEF AllIsCalm, AppIsCalm, Outside, Enters, Inside, HasSession
<1> QED
    BY <1>2, <1>4, <1>5 DEF Activities

LEMMA NobodyCalls ==
    ASSUME IInv, AllIsCalm, NEW d \in env.devices,
           acts[d]["enter"].at # "asking", acts[d]["refresh"].at # "asking"
    PROVE  \A c \in Calls, a \in Activities : For(c) # <<d, a>>
<1>1. acts[d]["leave"].at # "asking"
    BY DEF AllIsCalm, AppIsCalm, AtRest, Resting
<1> QED
    BY <1>1, WhoWaitsAsks DEF Activities

\* A login that goes on, or fails, leaves the app outside.
LEMMA CodeStepIs ==
    ASSUME IInv, NEW c \in Calls, For(c) # Nobody,
           ConsumeOtp(c) \/ SetPassword(c) \/ MarkPhoneVerified(c)
    PROVE  /\ For(c)' = For(c)
           /\ calls'[c].pc \in PastCode \/ (calls'[c].pc = "reply" /\ ~calls'[c].ok)
<1>1. calls[c] \in CodeCall /\ calls[c] # Idle
    BY CodeCallAt DEF ConsumeOtp, SetPassword, MarkPhoneVerified, At, CodePcs, PastCode
<1>2. For(c)' = For(c)
  <2>1. calls'[c] = calls[c] => For(c)' = For(c)
    BY DEF For
  <2> QED
    BY <2>1, LoginServed DEF CallsServed, Served
<1>3. CASE Throws(c)
    BY <1>1, <1>2, <1>3, AnswerIs DEF Throws
<1>4. ASSUME NEW pc \in PastCode, GoesTo(c, pc)
      PROVE  calls'[c].pc \in PastCode
  <2>1. calls'[c] = [calls[c] EXCEPT !.pc = pc]
    BY <1>4 DEF GoesTo, IInv, TypeOK, ServerTypeOK
  <2>2. calls'[c].pc = pc
    BY <1>1, <2>1 DEF CodeCall
  <2> QED
    BY <2>2
<1>5. Throws(c) \/ \E pc \in PastCode : GoesTo(c, pc)
    BY DEF ConsumeOtp, SetPassword, MarkPhoneVerified, AwaitsWrite, AfterCode, PastCode
<1> QED
    BY <1>2, <1>3, <1>4, <1>5

LEMMA LoginGoesOnCalm ==
    ASSUME IInv, Undisturbed, AllIsCalm, UNCHANGED clientVars, NEW c \in Calls, ServerProceeds(c),
           NEW d \in env.devices, For(c) = <<d, "enter">>, LogsIn(calls[c], d),
           ConsumeOtp(c) \/ SetPassword(c) \/ MarkPhoneVerified(c)
    PROVE  AllIsCalm'
<1>1. For(c) # Nobody
    BY DEF Nobody
<1>2. /\ For(c)' = For(c)
      /\ calls'[c].pc \in PastCode \/ (calls'[c].pc = "reply" /\ ~calls'[c].ok)
    BY <1>1, CodeStepIs
<1>3. env' = env /\ sessions' = sessions /\ UNCHANGED <<apps, acts, stored>>
    BY DEF ConsumeOtp, SetPassword, MarkPhoneVerified, clientVars
<1>4. SameFor(d)
    BY <1>3 DEF SameFor, Mine
<1>5. ~HasSession(d) /\ apps[d].status = "unauthenticated"
    BY DEF LogsIn, ConsumeOtp, SetPassword, MarkPhoneVerified, At
<1>6. ~HasSession(d)' /\ apps'[d].status = "unauthenticated"
    BY <1>3, <1>4, <1>5, SameForStays
<1>7. LogsIn(calls[c], d)'
    BY <1>2, <1>6 DEF LogsIn, CodePcs
<1>8. calls'[c].pc \notin TokenPcs /\ calls'[c].pc \notin RevokingPcs
    BY <1>2 DEF PastCode, TokenPcs, RevokingPcs
<1>9. CallIsCalm(c)'
    BY <1>2, <1>3, <1>7, <1>8 DEF CallIsCalm
<1>10. \A e \in Calls : CallIsCalm(e)' \/ calls'[e] = calls[e]
    BY <1>9, OthersStay
<1> QED
    BY <1>3, <1>10, NobodyIsBlocked, NoSessionMoves

\* A login opens the session that the answer is about.
LEMMA LoginOpensCalm ==
    ASSUME IInv, Undisturbed, AllIsCalm, UNCHANGED clientVars, NEW c \in Calls,
           NEW d \in env.devices, For(c) = <<d, "enter">>, LogsIn(calls[c], d), CreateSession(c)
    PROVE  AllIsCalm'
<1> DEFINE row == [status |-> "live", expired |-> FALSE, phone |-> calls[c].phone,
                   rotations |-> 0, code |-> calls[c].code,
                   device |-> IF calls[c].for = Nobody THEN "none" ELSE calls[c].for[1]]
<1>1. calls[c] # Idle /\ calls[c].for = <<d, "enter">> /\ For(c) # Nobody
    BY DEF For, Nobody, Idle, CreateSession, At
<1>2. calls[c].for # Nobody /\ calls[c].for[1] = d
    BY <1>1 DEF For
<1>3. PICK s \in Sessions :
         /\ sessions[s] = NoSession
         /\ sessions' = [sessions EXCEPT ![s] = row]
         /\ Answers(c, TRUE, <<s, 0>>)
    BY UndisturbedMeans DEF CreateSession, AwaitsWrite, First
<1>4. /\ row.device = d /\ row.status = "live" /\ row.rotations = 0 /\ ~row.expired
      /\ row # NoSession
    BY <1>2 DEF NoSession
<1> HIDE DEF row
<1>5. sessions'[s] = row /\ \A t \in Sessions \ {s} : sessions'[t] = sessions[t]
    BY <1>3, SessionTypes
<1>6. env' = env /\ users' = users /\ UNCHANGED <<apps, acts, stored, requests>>
    BY DEF CreateSession, clientVars
<1>7. ~HasSession(d) /\ apps[d].status = "unauthenticated"
    BY DEF LogsIn, CreateSession, At
<1>8. /\ \A t \in Sessions : Mine(d, t)' <=> t = s
      /\ Current(s)' = <<s, 0>>
    BY <1>3, <1>4, <1>5, <1>7 DEF Mine, HasSession, Current
<1>9. acts[d]["enter"].at = "asking" /\ AtRest(d, "refresh") /\ AtRest(d, "leave")
    BY <1>7, WhoWaitsAsks DEF AllIsCalm, AppIsCalm, Outside, Activities
<1>10. Enters(d, s)'
    BY <1>6, <1>7, <1>9 DEF Enters, Brings, AtRest
<1>11. AppIsCalm(d)'
    BY <1>4, <1>5, <1>6, <1>8, <1>9, <1>10 DEF AppIsCalm, AtRest, HasSession
<1>12. <<s, 0>> \in Token
    BY AuthServerAssumption DEF Token
<1>13. /\ \A e \in Calls \ {c} : calls'[e] = calls[e]
       /\ For(c)' = <<d, "enter">>
       /\ calls'[c].pc = "reply" /\ calls'[c].ok = TRUE /\ calls'[c].token = <<s, 0>>
    BY <1>1, <1>3, <1>12, AnswerIs
<1>14. LogsIn(calls[c], d)'
    BY <1>8, <1>10, <1>13 DEF LogsIn
<1>15. CallIsCalm(c)'
    BY <1>6, <1>13, <1>14 DEF CallIsCalm, TokenPcs, RevokingPcs
<1>16. \A e \in Calls : CallIsCalm(e)' \/ Elsewhere(e, d)
    BY <1>13, <1>15, OneHandlerPerApp DEF Elsewhere, Activities
<1>17. \A e \in env.devices \ {d} : SameFor(e)
    BY <1>3, <1>4, <1>5, <1>6 DEF SameFor, Mine
<1>18. RequestsStay /\ AppsStayIn
    BY <1>6 DEF RequestsStay, AppsStayIn
<1> QED
    BY <1>6, <1>11, <1>16, <1>17, <1>18, OneAppMoves

\* A refresh is not stopped by a block, ...
LEMMA RefreshGoesOnCalm ==
    ASSUME IInv, Undisturbed, AllIsCalm, UNCHANGED clientVars, NEW c \in Calls,
           NEW d \in env.devices, For(c) = <<d, "refresh">>, Refreshes(calls[c], d), RefreshUser(c)
    PROVE  AllIsCalm'
<1>1. /\ calls[c] \in TokenCall /\ calls[c] # Idle
      /\ sessions[calls[c].token[1]] \in Session
    BY TokenCallAt DEF RefreshUser, At, TokenPcs
<1>2. GoesTo(c, "refresh.rotate")
  <2>1. sessions[calls[c].token[1]].phone \in Phones
    BY <1>1 DEF Session
  <2> QED
    BY <2>1 DEF RefreshUser, AllIsCalm
<1>3. Starts(c, [pc |-> "refresh.rotate", token |-> calls[c].token, for |-> calls[c].for])
    BY <1>1, <1>2, TokenGoesOn
<1>4. /\ calls'[c] = [pc |-> "refresh.rotate", token |-> calls[c].token, for |-> calls[c].for]
      /\ \A e \in Calls \ {c} : calls'[e] = calls[e]
    BY <1>3 DEF Starts, IInv, TypeOK, ServerTypeOK
<1>5. /\ calls'[c].pc = "refresh.rotate" /\ calls'[c].token = calls[c].token
      /\ For(c)' = <<d, "refresh">>
    BY <1>1, <1>4 DEF For, Idle
<1>6. env' = env /\ sessions' = sessions /\ users' = users /\ UNCHANGED <<apps, acts, stored>>
    BY DEF RefreshUser, clientVars
<1>7. SameFor(d)
    BY <1>6 DEF SameFor, Mine
<1>8. Refreshes(calls[c], d)'
    BY <1>5, <1>7, SameForStays DEF Refreshes
<1>9. CallIsCalm(c)'
    BY <1>5, <1>6, <1>8 DEF CallIsCalm, Nobody, RevokingPcs
<1>10. \A e \in Calls : CallIsCalm(e)' \/ calls'[e] = calls[e]
    BY <1>4, <1>9
<1> QED
    BY <1>6, <1>10, NoSessionMoves DEF AllIsCalm

\* ... and its token is still the session's last, so that it gets the next.
LEMMA RotationStaysCalm ==
    ASSUME IInv, Undisturbed, AllIsCalm, UNCHANGED clientVars, NEW c \in Calls,
           NEW d \in env.devices, For(c) = <<d, "refresh">>, Refreshes(calls[c], d),
           RotateSession(c)
    PROVE  AllIsCalm'
<1>1. PICK s \in Sessions : /\ Mine(d, s) /\ Inside(d, s) /\ calls[c].token = Current(s)
                            /\ calls[c].pc = "refresh.rotate"
    BY DEF Refreshes, RotateSession, At
<1>2. PICK old \in Session, n \in Nat : old = sessions[s] /\ n = old.rotations
    BY <1>1, SessionTypes DEF Mine, Session
<1>3. /\ calls[c] # Idle /\ calls[c].token = <<s, n>> /\ <<s, n>> \in Token
      /\ old.status = "live" /\ old.device = d
    BY <1>1, <1>2, TokenCallAt DEF TokenPcs, Current, Mine, AllIsCalm, AppIsCalm
<1>4. calls[c].token[1] = s /\ calls[c].token[2] = n /\ NextToken(calls[c].token) = <<s, n + 1>>
    BY <1>3 DEF NextToken
<1>5. /\ n < MaxRotations
      /\ sessions' = [sessions EXCEPT ![s].rotations = @ + 1, ![s].expired = FALSE]
      /\ Answers(c, TRUE, <<s, n + 1>>)
  <2>1. \A fault : ~MayHappen(fault)
    BY UndisturbedMeans
  <2> QED
    BY <1>2, <1>3, <1>4, <2>1 DEF RotateSession, AwaitsWrite
<1> DEFINE row == [old EXCEPT !.rotations = n + 1, !.expired = FALSE]
<1>6. sessions' = [sessions EXCEPT ![s] = row]
    BY <1>2, <1>5, SessionTypes
<1>7. row.device = d /\ row.status = "live" /\ ~row.expired /\ row.rotations = n + 1
      /\ row # NoSession
    BY <1>3 DEF Session, NoSession
<1> HIDE DEF row
<1>8. sessions'[s] = row /\ \A t \in Sessions \ {s} : sessions'[t] = sessions[t]
    BY <1>6, SessionTypes
<1>9. env' = env /\ users' = users /\ UNCHANGED <<apps, acts, stored, requests>>
    BY DEF RotateSession, clientVars
<1>10. /\ \A t \in Sessions : Mine(d, t)' <=> Mine(d, t)
       /\ Mine(d, s)' /\ Current(s)' = <<s, n + 1>>
    BY <1>1, <1>7, <1>8 DEF Mine, Current
<1>11. \A t \in Sessions : Mine(d, t)' => t = s
    BY <1>1, <1>10 DEF AllIsCalm, AppIsCalm
<1>12. acts[d]["refresh"].at = "asking" /\ AtRest(d, "leave")
    BY WhoWaitsAsks DEF AllIsCalm, AppIsCalm, Activities
<1>13. Inside(d, s)'
    BY <1>1, <1>9, <1>12 DEF Inside, Brings, AtRest, Resting
<1>14. AppIsCalm(d)'
    BY <1>7, <1>8, <1>9, <1>10, <1>11, <1>12, <1>13 DEF AppIsCalm, AtRest, HasSession
<1>15. <<s, n + 1>> \in Token
    BY <1>5, AuthServerAssumption DEF Token
<1>16. /\ \A e \in Calls \ {c} : calls'[e] = calls[e]
       /\ For(c)' = <<d, "refresh">>
       /\ calls'[c].pc = "reply" /\ calls'[c].ok = TRUE /\ calls'[c].token = <<s, n + 1>>
  <2>1. For(c) # Nobody
    BY DEF Nobody
  <2> QED
    BY <1>3, <1>5, <1>15, <2>1, AnswerIs
<1>17. Refreshes(calls[c], d)'
    BY <1>10, <1>13, <1>16 DEF Refreshes
<1>18. CallIsCalm(c)'
    BY <1>9, <1>16, <1>17 DEF CallIsCalm, TokenPcs, RevokingPcs
<1>19. \A e \in Calls : CallIsCalm(e)' \/ Elsewhere(e, d)
    BY <1>16, <1>18, OneHandlerPerApp DEF Elsewhere, Activities
<1>20. \A e \in env.devices \ {d} : SameFor(e)
    BY <1>1, <1>7, <1>8, <1>9 DEF SameFor, Mine
<1>21. RequestsStay /\ AppsStayIn
    BY <1>9 DEF RequestsStay, AppsStayIn
<1> QED
    BY <1>9, <1>14, <1>19, <1>20, <1>21, OneAppMoves

LEMMA ServerStaysCalm ==
    ASSUME IInv, Undisturbed, AllIsCalm, ServerSteps
    PROVE  AllIsCalm'
<1>1. UNCHANGED clientVars
    BY DEF ServerSteps
<1>2. ASSUME NEW c \in Calls, ServerProceeds(c), For(c) # Nobody
      PROVE  AllIsCalm'
  <2>1. PICK d \in env.devices :
           \/ For(c) = <<d, "refresh">> /\ Refreshes(calls[c], d)
           \/ For(c) = <<d, "enter">> /\ LogsIn(calls[c], d)
    BY <1>2, WaitersAre
  <2>2. /\ calls[c].pc \notin RevokingPcs
        /\ calls[c].pc \notin PhonePcs \cup {"reg.user", "otp.send"}
    BY <1>2, PhoneUnawaited DEF AllIsCalm, CallIsCalm
  <2>3. \/ ConsumeOtp(c) \/ SetPassword(c) \/ MarkPhoneVerified(c) \/ CreateSession(c)
        \/ RefreshUser(c) \/ RotateSession(c)
    BY <1>2, <2>2 DEF ServerProceeds, CreateParty, CreateUser, CountOtps, SaveOtp, SendOtp,
        RevokeSession, At, PhonePcs, RevokingPcs
  <2>4. CASE For(c) = <<d, "refresh">> /\ Refreshes(calls[c], d)
    <3>1. RefreshUser(c) \/ RotateSession(c)
        BY <2>3, <2>4 DEF Refreshes, ConsumeOtp, SetPassword, MarkPhoneVerified, CreateSession, At
    <3> QED
        BY <1>1, <2>4, <3>1, RefreshGoesOnCalm, RotationStaysCalm
  <2>5. CASE For(c) = <<d, "enter">> /\ LogsIn(calls[c], d)
    <3>1. ConsumeOtp(c) \/ SetPassword(c) \/ MarkPhoneVerified(c) \/ CreateSession(c)
        BY <2>3, <2>5 DEF LogsIn, RefreshUser, RotateSession, At, CodePcs, PastCode
    <3> QED
        BY <1>1, <1>2, <2>5, <3>1, LoginGoesOnCalm, LoginOpensCalm
  <2> QED
    BY <2>1, <2>4, <2>5
<1>3. ASSUME NEW c \in Calls, ServerProceeds(c) PROVE AllIsCalm'
    BY <1>1, <1>2, <1>3, UnawaitedStaysCalm
<1> QED
    BY <1>1, <1>3, ArrivalsStayCalm DEF ServerSteps

-----------------------------------------------------------------------------
(* Staying signed in: the apps' steps *)

LEMMA GoesIs ==
    ASSUME IInv, NEW d \in env.devices, NEW a \in Activities, NEW state, Goes(d, a, state)
    PROVE  /\ acts'[d][a] = state
           /\ \A b \in Activities \ {a} : acts'[d][b] = acts[d][b]
           /\ \A e \in env.devices \ {d} : acts'[e] = acts[e]
BY ClientsAreFine, EnvironmentTypes DEF Goes, ClientsFine, ActsFine

\* A step of one app, on sessions that stay as they are.
LEMMA OneAppActs ==
    ASSUME IInv, Undisturbed, AllIsCalm, NEW d \in env.devices, UNCHANGED exceptSessions,
           \A e \in env.devices \ {d} :
              /\ acts'[e] = acts[e] /\ apps'[e] = apps[e]
              /\ stored'[Store(e)] = stored[Store(e)],
           acts'[d]["leave"] = acts[d]["leave"],
           ~HasSession(d) => Outside(d)',
           \A s \in Sessions : Mine(d, s) => Enters(d, s)' \/ Inside(d, s)',
           \A c \in Calls : CallIsCalm(c)' \/ Elsewhere(c, d),
           RequestsStay,
           apps[d].status = "authenticated" => apps'[d].status = "authenticated"
    PROVE  AllIsCalm'
<1>1. env' = env /\ users' = users /\ sessions' = sessions
    BY DEF exceptSessions
<1>2. /\ \A e, s : Mine(e, s)' <=> Mine(e, s)
      /\ \A e : HasSession(e)' <=> HasSession(e)
    BY <1>1 DEF Mine, HasSession
<1>3. AppIsCalm(d)'
    BY <1>1, <1>2 DEF AppIsCalm, AllIsCalm, AtRest
<1>4. \A e \in env.devices \ {d} : SameFor(e)
    BY <1>1, <1>2 DEF SameFor
<1>5. AppsStayIn
    BY <1>1 DEF AppsStayIn
<1> QED
    BY <1>1, <1>3, <1>4, <1>5, OneAppMoves

\* The key that d writes is not another app's.
LEMMA OthersKeep ==
    ASSUME IInv, Undisturbed, NEW d \in env.devices, NEW token,
           stored' = [stored EXCEPT ![d] = token]
    PROVE  /\ \A e \in env.devices \ {d} : stored'[Store(e)] = stored[Store(e)]
           /\ stored'[Store(d)] = IF Store(d) = d THEN token ELSE stored[Store(d)]
<1>1. \A e \in env.devices : Store(e) \in Devices \cup {Jar}
    BY EnvironmentTypes DEF Store
<1>2. \A e \in env.devices \ {d} : Store(e) # d
    BY UndisturbedMeans DEF Store
<1>3. DOMAIN stored = Devices \cup {Jar}
    BY ClientsAreFine DEF ClientsFine, StoredFine
<1> QED
    BY <1>1, <1>2, <1>3

\* A handler that is started for d, and the others.
LEMMA CallStarts ==
    ASSUME IInv, AllIsCalm, NEW d \in env.devices, AtRest(d, "enter"), AtRest(d, "refresh"),
           NEW c \in Calls, Free(c), NEW state, Starts(c, state)
    PROVE  /\ calls'[c] = state /\ For(c)' = IF state = Idle THEN Nobody ELSE state.for
           /\ \A e \in Calls \ {c} : Elsewhere(e, d)
<1>1. \A e \in Calls : calls'[e] = IF e = c THEN state ELSE calls[e]
    BY DEF Starts, IInv, TypeOK, ServerTypeOK
<1>2. \A e \in Calls, a \in Activities : For(e) # <<d, a>>
    BY NobodyCalls DEF AtRest, Resting
<1> QED
    BY <1>1, <1>2 DEF For, Elsewhere

\* Who has tokens at hand has the session they belong to.
LEMMA BringsTokens ==
    ASSUME AllIsCalm, NEW d \in env.devices, NEW a \in Activities,
           acts[d][a].at \in {"storing", "applying"}
    PROVE  \E s \in Sessions :
              /\ Mine(d, s) /\ Brings(acts[d][a], d, s)
              /\ \A t \in Sessions : Mine(d, t) => t = s
              /\ \/ a = "enter" /\ Enters(d, s)
                 \/ a = "refresh" /\ Inside(d, s)
<1>1. a \in {"enter", "refresh"}
    BY DEF AllIsCalm, AppIsCalm, AtRest, Resting, Activities
<1>2. HasSession(d)
    BY <1>1 DEF AllIsCalm, AppIsCalm, Outside, AtRest, Resting
<1>3. PICK s \in Sessions : Mine(d, s)
    BY <1>2 DEF HasSession
<1>4. (\A t \in Sessions : Mine(d, t) => t = s) /\ (Enters(d, s) \/ Inside(d, s))
    BY <1>3 DEF AllIsCalm, AppIsCalm
<1>5. \/ a = "enter" /\ Enters(d, s)
      \/ a = "refresh" /\ Inside(d, s)
    BY <1>1, <1>4 DEF Enters, Inside, AtRest, Resting
<1>6. Brings(acts[d][a], d, s)
    BY <1>5 DEF Enters, Inside
<1> QED
    BY <1>3, <1>4, <1>5, <1>6

LEMMA StoreTokenCalm ==
    ASSUME IInv, Undisturbed, AllIsCalm, NEW d \in env.devices, NEW a \in Activities, StoreToken(d, a)
    PROVE  AllIsCalm'
<1>1. acts[d][a].at = "storing" /\ d \in Devices
    BY EnvironmentTypes DEF StoreToken, In
<1>2. PICK s \in Sessions :
         /\ Mine(d, s) /\ Brings(acts[d][a], d, s)
         /\ \A t \in Sessions : Mine(d, t) => t = s
         /\ \/ a = "enter" /\ Enters(d, s)
            \/ a = "refresh" /\ Inside(d, s)
    BY <1>1, BringsTokens
<1>3. acts[d][a].token = Current(s) /\ Store(d) = d
    BY <1>1, <1>2 DEF Brings, Store
<1> DEFINE next == [acts[d][a] EXCEPT !.at = "applying"]
<1>4. next.at = "applying" /\ next.token = Current(s) /\ Goes(d, a, next)
    BY <1>1, <1>3, ActTypes DEF StoreToken
<1> HIDE DEF next
<1>5. /\ acts'[d][a] = next
      /\ \A b \in Activities \ {a} : acts'[d][b] = acts[d][b]
      /\ \A e \in env.devices \ {d} : acts'[e] = acts[e]
    BY <1>4, GoesIs
<1>6. /\ stored' = [stored EXCEPT ![d] = Current(s)]
      /\ UNCHANGED exceptSessions /\ UNCHANGED <<calls, apps, requests>>
    BY <1>3 DEF StoreToken
<1>7. /\ stored'[Store(d)] = Current(s)
      /\ \A e \in env.devices \ {d} : stored'[Store(e)] = stored[Store(e)]
    BY <1>3, <1>6, OthersKeep
<1>8. Current(s)' = Current(s) /\ Store(d)' = Store(d) /\ env' = env
    BY <1>6 DEF Current, Store, exceptSessions
<1>9. Brings(acts[d][a], d, s)'
    BY <1>4, <1>5, <1>7, <1>8 DEF Brings
<1>10. CASE a = "enter"
  <2>1. Enters(d, s)
    BY <1>2, <1>10
  <2>2. acts'[d]["refresh"] = acts[d]["refresh"] /\ acts'[d]["leave"] = acts[d]["leave"]
    BY <1>5, <1>10 DEF Activities
  <2>3. Enters(d, s)'
    BY <1>4, <1>5, <1>6, <1>9, <1>10, <2>1, <2>2 DEF Enters, AtRest
  <2>4. acts[d]["enter"].at # "asking" /\ acts[d]["refresh"].at # "asking"
    BY <1>1, <1>10, <2>1 DEF Enters, AtRest, Resting
  <2>5. \A c \in Calls : Elsewhere(c, d)
    BY <1>6, <2>4, NobodyCalls DEF Elsewhere
  <2> QED
    BY <1>2, <1>5, <1>6, <1>7, <2>2, <2>3, <2>5, OneAppActs DEF HasSession, RequestsStay
<1>11. CASE a = "refresh"
  <2>1. Inside(d, s)
    BY <1>2, <1>11
  <2>2. acts'[d]["enter"] = acts[d]["enter"] /\ acts'[d]["leave"] = acts[d]["leave"]
    BY <1>5, <1>11 DEF Activities
  <2>3. Inside(d, s)'
    BY <1>4, <1>5, <1>6, <1>9, <1>11, <2>1, <2>2 DEF Inside, AtRest, Resting
  <2>4. acts[d]["enter"].at # "asking" /\ acts[d]["refresh"].at # "asking"
    BY <1>1, <1>11, <2>1 DEF Inside, AtRest, Resting
  <2>5. \A c \in Calls : Elsewhere(c, d)
    BY <1>6, <2>4, NobodyCalls DEF Elsewhere
  <2> QED
    BY <1>2, <1>5, <1>6, <1>7, <2>2, <2>3, <2>5, OneAppActs DEF HasSession, RequestsStay
<1> QED
    BY <1>2, <1>10, <1>11

LEMMA ResumedStays ==
    ASSUME IInv, NEW d \in Devices, NEW refreshed \in BOOLEAN, requests' = Resumed(d, refreshed)
    PROVE  RequestsStay
<1> SUFFICES ASSUME NEW r \in Requests, requests'[r] # NoRequest
             PROVE  requests[r] # NoRequest /\ requests'[r].device = requests[r].device
    BY DEF RequestsStay
<1>1. requests[r] # NoRequest => requests[r] \in Request
    BY RequestRow
<1>2. requests[r].at = "waiting" => requests[r] # NoRequest
    BY DEF NoRequest
<1>3. \/ requests'[r] = requests[r]
      \/ /\ requests[r] # NoRequest
         /\ \/ requests'[r] = [requests[r] EXCEPT !.at = "failed"]
            \/ \E access : requests'[r] = [requests[r] EXCEPT !.at = "sent", !.retried = TRUE,
                                                              !.access = access]
    BY <1>2 DEF Resumed
<1> QED
    BY <1>1, <1>3 DEF Request

LEMMA ApplyTokensCalm ==
    ASSUME IInv, Undisturbed, AllIsCalm, NEW d \in env.devices, NEW a \in Activities, ApplyTokens(d, a)
    PROVE  AllIsCalm'
<1>1. acts[d][a].at = "applying" /\ d \in Devices
    BY EnvironmentTypes DEF ApplyTokens, In
<1>2. PICK s \in Sessions :
         /\ Mine(d, s) /\ Brings(acts[d][a], d, s)
         /\ \A t \in Sessions : Mine(d, t) => t = s
         /\ \/ a = "enter" /\ Enters(d, s)
            \/ a = "refresh" /\ Inside(d, s)
    BY <1>1, BringsTokens
<1>3. acts[d][a].token = Current(s) /\ stored[Store(d)] = Current(s)
    BY <1>1, <1>2 DEF Brings
<1> DEFINE row == [apps[d] EXCEPT !.mem = InMemory(Current(s)), !.access = Current(s),
                                  !.status = IF a = "enter" THEN "authenticated" ELSE @]
<1>4. apps' = [apps EXCEPT ![d] = row]
    BY <1>3 DEF ApplyTokens
<1>5. apps \in [Devices -> App]
    BY ClientsAreFine DEF ClientsFine, AppsFine
<1>6. row.status = "authenticated" /\ (~env.web => row.mem = Current(s))
    BY <1>1, <1>2, <1>5 DEF App, InMemory, Inside
<1> HIDE DEF row
<1>7. apps'[d] = row /\ \A e \in env.devices \ {d} : apps'[e] = apps[e]
    BY <1>1, <1>4, <1>5, EnvironmentTypes
<1>8. /\ acts'[d][a] = Resting
      /\ \A b \in Activities \ {a} : acts'[d][b] = acts[d][b]
      /\ \A e \in env.devices \ {d} : acts'[e] = acts[e]
    BY GoesIs DEF ApplyTokens
<1>9. UNCHANGED exceptSessions /\ UNCHANGED <<calls, stored>>
    BY DEF ApplyTokens
<1>10. Current(s)' = Current(s) /\ Store(d)' = Store(d) /\ env' = env
       /\ \A e \in env.devices : stored'[Store(e)] = stored[Store(e)]
    BY <1>9 DEF Current, Store, exceptSessions
<1>11. RequestsStay
  <2>1. requests' = requests \/ requests' = Resumed(d, TRUE)
    BY DEF ApplyTokens
  <2> QED
    BY <1>1, <2>1, ResumedStays DEF RequestsStay
<1>12. /\ acts[d]["enter"].at # "asking" /\ acts[d]["refresh"].at # "asking"
       /\ acts'[d]["leave"] = acts[d]["leave"]
       /\ acts'[d]["enter"] = Resting /\ acts'[d]["refresh"] = Resting
    BY <1>1, <1>2, <1>8 DEF Enters, Inside, AtRest, Resting, Activities
<1>13. \A c \in Calls : Elsewhere(c, d)
    BY <1>9, <1>12, NobodyCalls DEF Elsewhere
<1>14. Inside(d, s)'
    BY <1>3, <1>6, <1>7, <1>9, <1>10, <1>12 DEF Inside, Brings, AtRest, Resting
<1> QED
    BY <1>2, <1>6, <1>7, <1>8, <1>9, <1>10, <1>11, <1>12, <1>13, <1>14, OneAppActs DEF HasSession

\* An app that gives up has no session.
LEMMA NoSessionOutside ==
    ASSUME AllIsCalm, NEW d \in env.devices, NEW a \in Activities,
           acts[d][a].at \in {"removing", "clearing"}
    PROVE  a = "enter" /\ ~HasSession(d) /\ Outside(d)
<1>1. a \in {"enter", "refresh"}
    BY DEF AllIsCalm, AppIsCalm, AtRest, Resting, Activities
<1>2. ~HasSession(d)
    BY <1>1 DEF AllIsCalm, AppIsCalm, Enters, Inside, AtRest, Resting, HasSession
<1>3. Outside(d)
    BY <1>2 DEF AllIsCalm, AppIsCalm
<1> QED
    BY <1>1, <1>2, <1>3 DEF Outside, AtRest, Resting

LEMMA GivingUpCalm ==
    ASSUME IInv, Undisturbed, AllIsCalm, NEW d \in env.devices, NEW a \in Activities,
           RemoveToken(d, a) \/ ClearState(d, a)
    PROVE  AllIsCalm'
<1>1. acts[d][a].at \in {"removing", "clearing"} /\ d \in Devices
    BY EnvironmentTypes DEF RemoveToken, ClearState, In
<1>2. a = "enter" /\ ~HasSession(d) /\ Outside(d)
    BY <1>1, NoSessionOutside
<1>3. PICK next : Goes(d, a, next) /\ next.at \in {"rest", "clearing"}
  <2>1. CASE RemoveToken(d, a)
    <3> DEFINE state == [acts[d][a] EXCEPT !.at = "clearing"]
    <3>1. Goes(d, a, state) /\ state.at = "clearing"
        BY <1>1, <2>1, ActTypes DEF RemoveToken
    <3> QED
        BY <3>1
  <2>2. CASE ClearState(d, a)
    BY <2>2 DEF ClearState, Resting
  <2> QED
    BY <2>1, <2>2
<1>4. /\ acts'[d][a] = next
      /\ \A b \in Activities \ {a} : acts'[d][b] = acts[d][b]
      /\ \A e \in env.devices \ {d} : acts'[e] = acts[e]
    BY <1>3, GoesIs
<1>5. /\ UNCHANGED exceptSessions /\ calls' = calls /\ requests' = requests
      /\ apps' = apps \/ apps' = [apps EXCEPT ![d] = SignedOut]
      /\ stored' = stored \/ stored' = [stored EXCEPT ![d] = NoToken]
    BY <1>2 DEF RemoveToken, ClearState
<1>6. /\ stored'[Store(d)] = NoToken
      /\ \A e \in env.devices \ {d} : stored'[Store(e)] = stored[Store(e)]
    BY <1>2, <1>5, OthersKeep DEF Outside
<1>7. apps'[d].status # "authenticated" /\ \A e \in env.devices \ {d} : apps'[e] = apps[e]
    BY <1>1, <1>2, <1>5, ClientsAreFine, EnvironmentTypes
        DEF Outside, SignedOut, ClientsFine, AppsFine
<1>8. env' = env /\ Store(d)' = Store(d)
    BY <1>5 DEF Store, exceptSessions
<1>9. acts'[d]["leave"] = acts[d]["leave"] /\ acts'[d]["refresh"] = acts[d]["refresh"]
    BY <1>2, <1>4 DEF Activities
<1>10. Outside(d)'
    BY <1>2, <1>3, <1>4, <1>6, <1>7, <1>8, <1>9 DEF Outside, AtRest
<1>11. acts[d]["enter"].at # "asking" /\ acts[d]["refresh"].at # "asking"
    BY <1>1, <1>2 DEF Outside, AtRest, Resting
<1>12. \A c \in Calls : Elsewhere(c, d)
    BY <1>5, <1>11, NobodyCalls DEF Elsewhere
<1> QED
    BY <1>2, <1>4, <1>5, <1>6, <1>7, <1>9, <1>10, <1>12, OneAppActs
        DEF HasSession, RequestsStay, Outside

\* A handler whose answer is in is done, and no other worked for the app.
LEMMA AnswerIsIn ==
    ASSUME IInv, AllIsCalm, NEW d \in env.devices, NEW a \in Activities, NEW c \in Calls,
           For(c) = <<d, a>>, Starts(c, Idle)
    PROVE  \A e \in Calls : CallIsCalm(e)' \/ Elsewhere(e, d)
<1>1. \A e \in Calls : calls'[e] = IF e = c THEN Idle ELSE calls[e]
    BY DEF Starts, IInv, TypeOK, ServerTypeOK
<1>2. CallIsCalm(c)'
    BY <1>1 DEF CallIsCalm, For, Idle, RevokingPcs, TokenPcs
<1>3. \A e \in Calls \ {c} : Elsewhere(e, d)
    BY <1>1, OneHandlerPerApp DEF Elsewhere
<1> QED
    BY <1>2, <1>3

\* The handler that an activity waits for.
LEMMA WaitedFor ==
    ASSUME AllIsCalm, NEW d \in env.devices, NEW a \in Activities, NEW c \in Calls,
           For(c) = <<d, a>>
    PROVE  \/ a = "refresh" /\ Refreshes(calls[c], d)
           \/ a = "enter" /\ LogsIn(calls[c], d)
<1>1. For(c) # Nobody
    BY DEF Nobody
<1> QED
    BY <1>1, WaitersAre

LEMMA ReceiveFailureCalm ==
    ASSUME IInv, Undisturbed, AllIsCalm, NEW d \in env.devices, NEW a \in Activities, NEW c \in Calls,
           ReceiveFailure(c, d, a)
    PROVE  AllIsCalm'
<1>1. For(c) = <<d, a>> /\ At(c, "reply") /\ ~calls[c].ok /\ Starts(c, Idle)
    BY UndisturbedMeans DEF ReceiveFailure
<1>2. a = "enter" /\ ~HasSession(d) /\ Outside(d)
  <2>1. a = "enter" /\ ~HasSession(d)
    BY <1>1, WaitedFor DEF Refreshes, LogsIn, At, CodePcs, PastCode
  <2> QED
    BY <2>1 DEF AllIsCalm, AppIsCalm
<1>3. PICK next : Goes(d, a, next) /\ next.at \in {"rest", "removing", "clearing"}
    BY <1>2 DEF ReceiveFailure, AfterFailure, Resting
<1>4. /\ acts'[d][a] = next
      /\ \A b \in Activities \ {a} : acts'[d][b] = acts[d][b]
      /\ \A e \in env.devices \ {d} : acts'[e] = acts[e]
    BY <1>3, GoesIs
<1>5. UNCHANGED exceptSessions /\ UNCHANGED <<apps, stored, requests>>
    BY DEF ReceiveFailure
<1>6. Store(d)' = Store(d)
    BY <1>5 DEF Store, exceptSessions
<1>7. acts'[d]["leave"] = acts[d]["leave"] /\ acts'[d]["refresh"] = acts[d]["refresh"]
    BY <1>2, <1>4 DEF Activities
<1>8. Outside(d)'
    BY <1>2, <1>3, <1>4, <1>5, <1>6, <1>7 DEF Outside, AtRest
<1>9. \A e \in Calls : CallIsCalm(e)' \/ Elsewhere(e, d)
    BY <1>1, AnswerIsIn
<1> QED
    BY <1>2, <1>4, <1>5, <1>7, <1>8, <1>9, OneAppActs DEF HasSession, RequestsStay

LEMMA ReceiveTokensCalm ==
    ASSUME IInv, Undisturbed, AllIsCalm, NEW d \in env.devices, NEW a \in Activities, NEW c \in Calls,
           ReceiveTokens(c, d, a)
    PROVE  AllIsCalm'
<1>1. For(c) = <<d, a>> /\ At(c, "reply") /\ calls[c].ok /\ Starts(c, Idle)
    BY DEF ReceiveTokens
<1>2. PICK s \in Sessions :
         /\ Mine(d, s) /\ calls[c].token = Current(s)
         /\ \/ a = "enter" /\ Enters(d, s)
            \/ a = "refresh" /\ Inside(d, s)
    BY <1>1, WaitedFor DEF Refreshes, LogsIn, At, CodePcs, PastCode
<1>3. \A t \in Sessions : Mine(d, t) => t = s
    BY <1>2 DEF AllIsCalm, AppIsCalm
<1> DEFINE next == [at |-> IF env.web THEN "applying" ELSE "storing", token |-> Current(s)]
<1>4. /\ next.at \in {"applying", "storing"} /\ next.token = Current(s)
      /\ next.at = "applying" <=> env.web
      /\ Goes(d, a, next)
    BY <1>2, UndisturbedMeans DEF ReceiveTokens
<1> HIDE DEF next
<1>5. /\ acts'[d][a] = next
      /\ \A b \in Activities \ {a} : acts'[d][b] = acts[d][b]
      /\ \A e \in env.devices \ {d} : acts'[e] = acts[e]
    BY <1>4, GoesIs
<1>6. UNCHANGED exceptSessions /\ UNCHANGED <<apps, requests>>
    BY DEF ReceiveTokens
<1>7. /\ env.web => stored'[Store(d)] = Current(s)
      /\ ~env.web => stored'[Store(d)] = stored[Store(d)]
      /\ \A e \in env.devices \ {d} : stored'[Store(e)] = stored[Store(e)]
  <2>1. CASE env.web
    <3>1. stored' = [stored EXCEPT ![Jar] = calls[c].token]
        BY <2>1 DEF ReceiveTokens
    <3>2. \A e \in env.devices : Store(e) = Jar
        BY <2>1 DEF Store
    <3>3. \A e \in env.devices : e = d
        BY <3>2, UndisturbedMeans
    <3>4. Jar \in DOMAIN stored
        BY ClientsAreFine DEF ClientsFine, StoredFine
    <3> QED
        BY <1>2, <2>1, <3>1, <3>2, <3>3, <3>4
  <2>2. CASE ~env.web
    BY <2>2 DEF ReceiveTokens
  <2> QED
    BY <2>1, <2>2
<1>8. Current(s)' = Current(s) /\ Store(d)' = Store(d) /\ env' = env
    BY <1>6 DEF Current, Store, exceptSessions
<1>9. Brings(acts[d][a], d, s)'
    BY <1>4, <1>5, <1>7, <1>8 DEF Brings
<1>10. \A e \in Calls : CallIsCalm(e)' \/ Elsewhere(e, d)
    BY <1>1, AnswerIsIn
<1>11. acts'[d]["leave"] = acts[d]["leave"]
    BY <1>2, <1>5 DEF Activities
<1>12. Enters(d, s)' \/ Inside(d, s)'
  <2>1. CASE a = "enter"
    <3>1. acts'[d]["refresh"] = acts[d]["refresh"] /\ Enters(d, s)
        BY <1>2, <1>5, <2>1 DEF Activities
    <3> QED
        BY <1>4, <1>5, <1>6, <1>9, <2>1, <3>1 DEF Enters, AtRest
  <2>2. CASE a = "refresh"
    <3>1. acts'[d]["enter"] = acts[d]["enter"] /\ Inside(d, s)
        BY <1>2, <1>5, <2>2 DEF Activities
    <3> QED
        BY <1>4, <1>5, <1>6, <1>9, <2>2, <3>1 DEF Inside, AtRest, Resting
  <2> QED
    BY <1>2, <2>1, <2>2
<1> QED
    BY <1>2, <1>3, <1>5, <1>6, <1>7, <1>10, <1>11, <1>12, OneAppActs DEF HasSession, RequestsStay

\* At launch there is nothing stored; the web asks and is refused.
LEMMA BootstrapCalm ==
    ASSUME IInv, Undisturbed, AllIsCalm, NEW d \in env.devices, NEW c \in Calls, Bootstrap(c, d)
    PROVE  AllIsCalm'
<1>1. apps[d].status = "loading" /\ AtRest(d, "enter") /\ d \in Devices
    BY EnvironmentTypes DEF Bootstrap
<1>2. ~HasSession(d) /\ Outside(d)
  <2>1. ~HasSession(d)
    BY <1>1 DEF AllIsCalm, AppIsCalm, Enters, Inside, HasSession
  <2> QED
    BY <2>1 DEF AllIsCalm, AppIsCalm
<1>3. AtRest(d, "refresh") /\ stored[Store(d)] = NoToken
    BY <1>2 DEF Outside
<1>4. acts[d]["enter"].at # "asking" /\ acts[d]["refresh"].at # "asking"
    BY <1>1, <1>3 DEF AtRest, Resting
<1>5. UNCHANGED exceptSessions /\ UNCHANGED <<stored, requests>>
    BY DEF Bootstrap, Refresh, exceptSessions
<1>6. Store(d)' = Store(d)
    BY <1>5 DEF Store, exceptSessions
<1>7. CASE ~env.web
  <2>1. apps' = [apps EXCEPT ![d].status = "unauthenticated"] /\ calls' = calls /\ acts' = acts
    BY <1>3, <1>7 DEF Bootstrap
  <2>2. apps'[d].status = "unauthenticated" /\ \A e \in env.devices \ {d} : apps'[e] = apps[e]
    BY <1>1, <2>1, ClientsAreFine, EnvironmentTypes DEF ClientsFine, AppsFine, App
  <2>3. Outside(d)'
    BY <1>2, <1>5, <1>6, <2>1, <2>2 DEF Outside, AtRest
  <2>4. \A e \in Calls : Elsewhere(e, d)
    BY <1>4, <2>1, NobodyCalls DEF Elsewhere
  <2> QED
    BY <1>1, <1>2, <1>5, <2>1, <2>2, <2>3, <2>4, OneAppActs DEF HasSession, RequestsStay
<1>8. CASE env.web
  <2> DEFINE next == [at |-> "asking"]
             state == [pc |-> "reply", for |-> <<d, "enter">>, ok |-> FALSE, token |-> NoToken]
  <2>1. Free(c) /\ Starts(c, state) /\ Goes(d, "enter", next) /\ apps' = apps
    BY <1>3, <1>8 DEF Bootstrap, Refresh, Found
  <2>2. next.at = "asking" /\ state # Idle /\ state.for = <<d, "enter">> /\ state.pc = "reply"
        /\ state.ok = FALSE
    BY DEF Idle
  <2> HIDE DEF next, state
  <2>3. /\ acts'[d]["enter"] = next
        /\ acts'[d]["refresh"] = acts[d]["refresh"] /\ acts'[d]["leave"] = acts[d]["leave"]
        /\ \A e \in env.devices \ {d} : acts'[e] = acts[e]
    BY <2>1, GoesIs DEF Activities
  <2>4. Outside(d)'
    BY <1>2, <1>5, <1>6, <2>1, <2>2, <2>3 DEF Outside, AtRest
  <2>5. /\ calls'[c] = state /\ For(c)' = <<d, "enter">>
        /\ \A e \in Calls \ {c} : Elsewhere(e, d)
    BY <1>1, <1>3, <2>1, <2>2, CallStarts
  <2>6. ~HasSession(d)'
    BY <1>2, <1>5 DEF HasSession, Mine, exceptSessions
  <2>7. LogsIn(calls[c], d)'
    BY <2>2, <2>5, <2>6 DEF LogsIn
  <2>8. CallIsCalm(c)'
    BY <1>5, <2>2, <2>5, <2>7 DEF CallIsCalm, RevokingPcs, TokenPcs, exceptSessions
  <2>9. \A e \in Calls : CallIsCalm(e)' \/ Elsewhere(e, d)
    BY <2>5, <2>8
  <2> QED
    BY <1>1, <1>2, <1>5, <2>1, <2>3, <2>4, <2>9, OneAppActs DEF HasSession, RequestsStay
<1> QED
    BY <1>7, <1>8

LEMMA LoginCalm ==
    ASSUME IInv, Undisturbed, AllIsCalm, NEW d \in env.devices, NEW c \in Calls, NEW p \in Phones,
           Login(c, d, p)
    PROVE  AllIsCalm'
<1>1. apps[d].status = "unauthenticated" /\ AtRest(d, "enter")
    BY DEF Login
<1>2. ~HasSession(d) /\ Outside(d)
  <2>1. ~HasSession(d)
    BY <1>1 DEF AllIsCalm, AppIsCalm, Enters, Inside, AtRest, Resting, HasSession
  <2> QED
    BY <2>1 DEF AllIsCalm, AppIsCalm
<1>3. AtRest(d, "refresh")
    BY <1>2 DEF Outside
<1>4. UNCHANGED exceptSessions /\ UNCHANGED <<apps, stored, requests>> /\ Free(c)
    BY DEF Login, LoginWithPassword, EnterCode, exceptSessions
<1>5. PICK state : /\ Starts(c, state) /\ state.pc \in CodePcs /\ state.for = <<d, "enter">>
                   /\ state # Idle
  <2>1. CASE LoginWithPassword(c, p, <<d, "enter">>)
    BY <2>1 DEF LoginWithPassword, CodePcs, PastCode, Idle
  <2>2. CASE \E k \in Codes : EnterCode(c, p, k, FALSE, <<d, "enter">>)
    BY <2>2 DEF EnterCode, CodePcs, Idle
  <2> QED
    BY <2>1, <2>2 DEF Login
<1> DEFINE next == [at |-> "asking"]
<1>6. Goes(d, "enter", next) /\ next.at = "asking"
    BY DEF Login
<1> HIDE DEF next
<1>7. /\ acts'[d]["enter"] = next
      /\ acts'[d]["refresh"] = acts[d]["refresh"] /\ acts'[d]["leave"] = acts[d]["leave"]
      /\ \A e \in env.devices \ {d} : acts'[e] = acts[e]
    BY <1>6, GoesIs DEF Activities
<1>8. Store(d)' = Store(d)
    BY <1>4 DEF Store, exceptSessions
<1>9. Outside(d)'
    BY <1>2, <1>4, <1>6, <1>7, <1>8 DEF Outside, AtRest
<1>10. /\ calls'[c] = state /\ For(c)' = <<d, "enter">>
       /\ \A e \in Calls \ {c} : Elsewhere(e, d)
    BY <1>1, <1>3, <1>4, <1>5, CallStarts
<1>11. ~HasSession(d)'
    BY <1>2, <1>4 DEF HasSession, Mine, exceptSessions
<1>12. LogsIn(calls[c], d)'
    BY <1>1, <1>4, <1>5, <1>10, <1>11 DEF LogsIn
<1>13. CallIsCalm(c)'
    BY <1>4, <1>5, <1>10, <1>12 DEF CallIsCalm, CodePcs, PastCode, RevokingPcs, TokenPcs, exceptSessions
<1>14. \A e \in Calls : CallIsCalm(e)' \/ Elsewhere(e, d)
    BY <1>10, <1>13
<1> QED
    BY <1>2, <1>4, <1>7, <1>9, <1>14, OneAppActs DEF HasSession, RequestsStay

\* Nobody signs out, and nothing fails that would.
LEMMA NobodySignsOut ==
    ASSUME IInv, Undisturbed, AllIsCalm, NEW d \in env.devices, NEW a \in Activities, NEW c \in Calls
    PROVE  ~SignOut(c, d, a) /\ ~LoggedOut(c, d, a)
<1>1. acts[d][a].at \notin {"failed", "leaving"}
  <2>1. a = "leave" => acts[d][a].at = "rest"
    BY DEF AllIsCalm, AppIsCalm, AtRest, Resting
  <2>2. CASE ~HasSession(d)
    BY <2>1, <2>2 DEF AllIsCalm, AppIsCalm, Outside, AtRest, Resting, Activities
  <2>3. CASE HasSession(d)
    BY <2>1, <2>3 DEF AllIsCalm, AppIsCalm, Enters, Inside, AtRest, Resting, Activities, HasSession
  <2> QED
    BY <2>2, <2>3
<1> QED
  <2>1. ~LoggedOut(c, d, a)
    BY <1>1 DEF LoggedOut, In
  <2>2. ~SignOut(c, d, a)
    BY <1>1, UndisturbedMeans DEF SignOut, In
  <2> QED
    BY <2>1, <2>2

-----------------------------------------------------------------------------
(* Staying signed in: requests *)

LEMMA OnlyRequestsCalm ==
    ASSUME Undisturbed, AllIsCalm, UNCHANGED exceptSessions, UNCHANGED <<calls, apps, acts, stored>>,
           RequestsAreCalm'
    PROVE  AllIsCalm'
<1>1. env' = env /\ users' = users /\ sessions' = sessions
    BY DEF exceptSessions
<1>2. \A d \in env.devices : SameFor(d)
    BY <1>1 DEF SameFor, Mine
<1>3. \A p \in Phones : users'[p].status # "blocked"
    BY <1>1 DEF AllIsCalm
<1> QED
    BY <1>1, <1>2, <1>3, NoAppMoves

\* Who is in and refreshes, does so with the session's last token.
LEMMA RefreshStartsCalm ==
    ASSUME IInv, Undisturbed, AllIsCalm, NEW d \in env.devices, apps[d].status = "authenticated",
           AtRest(d, "refresh"), NEW c \in Calls,
           Refresh(c, IF env.web THEN stored[Jar] ELSE apps[d].mem, <<d, "refresh">>),
           Goes(d, "refresh", [at |-> "asking"]), UNCHANGED <<apps, stored>>, RequestsStay
    PROVE  AllIsCalm'
<1>1. HasSession(d)
    BY DEF AllIsCalm, AppIsCalm, Outside
<1>2. PICK s \in Sessions : Mine(d, s)
    BY <1>1 DEF HasSession
<1>3. /\ sessions[s].status = "live" /\ ~sessions[s].expired /\ Inside(d, s)
      /\ \A t \in Sessions : Mine(d, t) => t = s
    BY <1>2 DEF AllIsCalm, AppIsCalm, Enters
<1>4. (IF env.web THEN stored[Jar] ELSE apps[d].mem) = Current(s)
    BY <1>3, UndisturbedMeans DEF Inside, Store
<1>5. Found(Current(s)) /\ Current(s)[1] = s
    BY <1>2 DEF Found, Current, NoToken, Mine
<1> DEFINE state == [pc |-> "refresh.user", token |-> Current(s), for |-> <<d, "refresh">>]
           next == [at |-> "asking"]
<1>6. Free(c) /\ Starts(c, state) /\ Goes(d, "refresh", next) /\ UNCHANGED exceptSessions
    BY <1>3, <1>4, <1>5 DEF Refresh, exceptSessions
<1>7. /\ next.at = "asking" /\ state # Idle /\ state.for = <<d, "refresh">>
      /\ state.pc = "refresh.user" /\ state.token = Current(s)
    BY DEF Idle
<1> HIDE DEF state, next
<1>8. /\ acts'[d]["refresh"] = next
      /\ acts'[d]["enter"] = acts[d]["enter"] /\ acts'[d]["leave"] = acts[d]["leave"]
      /\ \A e \in env.devices \ {d} : acts'[e] = acts[e]
    BY <1>6, GoesIs DEF Activities
<1>9. AtRest(d, "enter")
    BY <1>3 DEF Inside
<1>10. Mine(d, s)' /\ Current(s)' = Current(s)
    BY <1>2, <1>6 DEF Mine, Current, exceptSessions
<1>11. Inside(d, s)'
    BY <1>3, <1>7, <1>8 DEF Inside, Brings, AtRest, Resting
<1>12. /\ calls'[c] = state /\ For(c)' = <<d, "refresh">>
       /\ \A e \in Calls \ {c} : Elsewhere(e, d)
    BY <1>6, <1>7, <1>9, CallStarts
<1>13. Refreshes(calls[c], d)'
    BY <1>7, <1>10, <1>11, <1>12 DEF Refreshes
<1>14. CallIsCalm(c)'
    BY <1>6, <1>7, <1>12, <1>13 DEF CallIsCalm, RevokingPcs, TokenPcs, exceptSessions, Nobody
<1>15. \A e \in Calls : CallIsCalm(e)' \/ Elsewhere(e, d)
    BY <1>12, <1>14
<1> QED
    BY <1>1, <1>3, <1>6, <1>8, <1>11, <1>15, OneAppActs

LEMMA RequestsOfThoseIn ==
    ASSUME IInv, AllIsCalm, NEW r \in Requests, requests[r] # NoRequest
    PROVE  requests[r].device \in env.devices /\ apps[requests[r].device].status = "authenticated"
BY DEF AllIsCalm, RequestsAreCalm

\* A request moves on.
LEMMA RequestMoves ==
    ASSUME IInv, NEW r \in Requests, requests[r] # NoRequest, NEW row, row.device = requests[r].device,
           requests' = [requests EXCEPT ![r] = row]
    PROVE  RequestsStay
BY ClientsAreFine DEF ClientsFine, RequestsFine, RequestsStay

LEMMA RequestsStayCalm ==
    ASSUME AllIsCalm, RequestsStay, UNCHANGED <<env, apps>>
    PROVE  RequestsAreCalm'
BY DEF AllIsCalm, RequestsAreCalm, RequestsStay

LEMMA SendRequestCalm ==
    ASSUME IInv, Undisturbed, AllIsCalm, NEW d \in env.devices, NEW r \in Requests, SendRequest(r, d)
    PROVE  AllIsCalm'
<1> DEFINE row == [at |-> "sent", device |-> d, runs |-> 0, retried |-> FALSE,
                   access |-> apps[d].access]
<1>1. /\ requests' = [requests EXCEPT ![r] = row] /\ row.device = d
      /\ apps[d].status = "authenticated"
      /\ UNCHANGED exceptSessions /\ UNCHANGED <<calls, apps, acts, stored>>
    BY DEF SendRequest
<1> HIDE DEF row
<1>2. \A q \in Requests : requests'[q] = IF q = r THEN row ELSE requests[q]
    BY <1>1, ClientsAreFine DEF ClientsFine, RequestsFine
<1>3. RequestsAreCalm'
    BY <1>1, <1>2 DEF RequestsAreCalm, AllIsCalm, exceptSessions
<1> QED
    BY <1>1, <1>3, OnlyRequestsCalm

LEMMA VerifyAccessCalm ==
    ASSUME IInv, Undisturbed, AllIsCalm, NEW r \in Requests, VerifyAccess(r)
    PROVE  AllIsCalm'
<1>1. /\ requests[r] # NoRequest /\ requests[r] \in Request
      /\ UNCHANGED exceptSessions /\ UNCHANGED <<calls, apps, acts, stored>>
    BY RequestRow DEF VerifyAccess, NoRequest
<1>2. requests \in [Requests -> Request \cup {NoRequest}]
    BY <1>1, RequestRow
<1>3. RequestsStay
  <2>1. \A q \in Requests \ {r} : requests'[q] = requests[q]
    BY <1>2 DEF VerifyAccess
  <2>2. requests'[r].device = requests[r].device
    BY <1>1, <1>2 DEF VerifyAccess, Request
  <2> QED
    BY <1>1, <2>1, <2>2 DEF RequestsStay
<1>4. RequestsAreCalm'
    BY <1>1, <1>3, RequestsStayCalm DEF exceptSessions
<1> QED
    BY <1>1, <1>4, OnlyRequestsCalm

LEMMA AccessExpiresCalm ==
    ASSUME Undisturbed, AllIsCalm, NEW d \in env.devices, AccessExpires(d)
    PROVE  AllIsCalm'
<1>1. UNCHANGED exceptSessions /\ UNCHANGED <<calls, apps, acts, stored, requests>>
    BY DEF AccessExpires
<1>2. RequestsAreCalm'
    BY <1>1 DEF RequestsAreCalm, AllIsCalm, exceptSessions
<1> QED
    BY <1>1, <1>2, OnlyRequestsCalm

LEMMA ReceiveAnswerCalm ==
    ASSUME IInv, Undisturbed, AllIsCalm, NEW r \in Requests, NEW c \in Calls, ReceiveAnswer(r, c)
    PROVE  AllIsCalm'
<1> DEFINE d == requests[r].device
<1>1. requests[r] # NoRequest /\ requests[r] \in Request /\ UNCHANGED <<apps, stored>>
    BY RequestRow DEF ReceiveAnswer, NoRequest
<1>2. d \in env.devices /\ apps[d].status = "authenticated"
    BY <1>1, RequestsOfThoseIn
<1>3. PICK at : requests' = [requests EXCEPT ![r].at = at]
    BY DEF ReceiveAnswer, RunRefresh
<1>4. RequestsStay
  <2>1. requests' = [requests EXCEPT ![r] = [requests[r] EXCEPT !.at = at]]
    BY <1>3
  <2>2. [requests[r] EXCEPT !.at = at].device = requests[r].device
    BY <1>1 DEF Request
  <2> QED
    BY <1>1, <2>1, <2>2, RequestMoves
<1>5. CASE UNCHANGED exceptSessions /\ UNCHANGED <<calls, acts>>
  <2>1. RequestsAreCalm'
    BY <1>1, <1>4, <1>5, RequestsStayCalm DEF exceptSessions
  <2> QED
    BY <1>1, <1>5, <2>1, OnlyRequestsCalm
<1>6. CASE ~(UNCHANGED exceptSessions /\ UNCHANGED <<calls, acts>>)
  <2>1. /\ AtRest(d, "refresh")
        /\ Refresh(c, IF env.web THEN stored[Jar] ELSE apps[d].mem, <<d, "refresh">>)
        /\ Goes(d, "refresh", [at |-> "asking"])
    BY <1>6 DEF ReceiveAnswer, RunRefresh
  <2> QED
    BY <1>1, <1>2, <1>4, <2>1, RefreshStartsCalm
<1> QED
    BY <1>5, <1>6

-----------------------------------------------------------------------------
(* Staying signed in: all steps *)

LEMMA AppStepCalm ==
    ASSUME IInv, Undisturbed, AllIsCalm, NEW d \in env.devices, Starting(d) \/ Continues(d)
    PROVE  AllIsCalm'
<1>1. CASE Starting(d)
  <2>1. ~Relaunch(d)
    BY UndisturbedMeans DEF Relaunch
  <2>2. env.requests \subseteq Requests
    BY EnvironmentTypes
  <2> QED
    BY <1>1, <2>1, <2>2, BootstrapCalm, LoginCalm, SendRequestCalm, AccessExpiresCalm DEF Starting
<1>2. ASSUME NEW a \in Activities,
             StoreToken(d, a) \/ ApplyTokens(d, a) \/ RemoveToken(d, a) \/ ClearState(d, a)
      PROVE  AllIsCalm'
    BY <1>2, StoreTokenCalm, ApplyTokensCalm, GivingUpCalm
<1>3. ASSUME NEW a \in Activities, NEW c \in Calls,
             ReceiveFailure(c, d, a) \/ ReceiveTokens(c, d, a)
      PROVE  AllIsCalm'
    BY <1>3, ReceiveFailureCalm, ReceiveTokensCalm
<1>4. CASE Continues(d)
    BY <1>2, <1>3, <1>4, NobodySignsOut DEF Continues
<1> QED
    BY <1>1, <1>4

LEMMA CalmNext ==
    ASSUME IInv, Calm, [Next]_vars
    PROVE  Calm'
<1> SUFFICES ASSUME Undisturbed' PROVE AllIsCalm'
    BY DEF Calm
<1>1. env' = env
    BY StepsKeep DEF ServerMoves
<1>2. Undisturbed /\ AllIsCalm
    BY <1>1 DEF Undisturbed, Calm
<1>3. CASE ServerSteps
    BY <1>2, <1>3, ServerStaysCalm
<1>4. ASSUME NEW d \in env.devices, Starting(d) \/ Continues(d) PROVE AllIsCalm'
    BY <1>2, <1>4, AppStepCalm
<1>5. ASSUME NEW r \in Requests, VerifyAccess(r) \/ \E c \in Calls : ReceiveAnswer(r, c)
      PROVE  AllIsCalm'
    BY <1>2, <1>5, VerifyAccessCalm, ReceiveAnswerCalm
<1>6. CASE UNCHANGED vars
  <2>1. UNCHANGED exceptSessions /\ UNCHANGED <<calls, apps, acts, stored, requests>>
    BY <1>6 DEF vars, exceptSessions
  <2>2. RequestsAreCalm'
    BY <1>2, <2>1 DEF RequestsAreCalm, AllIsCalm, exceptSessions
  <2> QED
    BY <1>2, <2>1, <2>2, OnlyRequestsCalm
<1> QED
    BY <1>3, <1>4, <1>5, <1>6 DEF Next

LEMMA CalmInit ==
    ASSUME Init
    PROVE  Calm
<1> SUFFICES ASSUME Undisturbed PROVE AllIsCalm
    BY DEF Calm
<1>1. IInv
    BY IInvInit
<1>2. \A p \in Phones : users[p].status # "blocked"
    BY DEF Init, ServerInit, Customer, NoUser
<1>3. \A d, s : s \in Sessions => ~Mine(d, s)
    BY DEF Init, ServerInit, Mine
<1>4. ASSUME NEW d \in env.devices PROVE AppIsCalm(d)
  <2>1. d \in Devices /\ Store(d) \in Devices \cup {Jar}
    BY <1>1, EnvironmentTypes DEF Store
  <2>2. \A a \in Activities : AtRest(d, a)
    BY <2>1 DEF Init, AtRest
  <2>3. apps[d].status = "loading" /\ stored[Store(d)] = NoToken
    BY <2>1 DEF Init, Loading
  <2>4. acts[d]["enter"].at = "rest" /\ AtRest(d, "refresh") /\ AtRest(d, "leave")
    BY <2>2 DEF AtRest, Resting, Activities
  <2> QED
    BY <1>3, <2>3, <2>4 DEF AppIsCalm, Outside
<1>5. \A c \in Calls : CallIsCalm(c)
    BY DEF Init, ServerInit, CallIsCalm, For, Idle, RevokingPcs, TokenPcs
<1>6. RequestsAreCalm
    BY DEF Init, RequestsAreCalm
<1> QED
    BY <1>2, <1>4, <1>5, <1>6 DEF AllIsCalm

LEMMA CalmMeans ==
    ASSUME Calm
    PROVE  UndisturbedStaysSignedIn
<1> SUFFICES ASSUME Undisturbed, NEW d \in env.devices, NEW s \in Sessions, Mine(d, s),
                    AtRest(d, "enter")
             PROVE  /\ apps[d].status = "authenticated" /\ sessions[s].status = "live"
                    /\ AtRest(d, "refresh") => stored[Store(d)] = Current(s)
    BY DEF UndisturbedStaysSignedIn, Mine, Current
<1>1. sessions[s].status = "live" /\ (Enters(d, s) \/ Inside(d, s))
    BY DEF Calm, AllIsCalm, AppIsCalm
<1>2. ~Enters(d, s)
    BY DEF Enters, AtRest, Resting
<1> QED
    BY <1>1, <1>2 DEF Inside

\* When nothing fails and nobody signs out, an app that has logged in stays logged in and
\* holds its session's current token, however its requests and their refreshes overlap:
\* the refreshes of one app share one exchange, and it waits until the next token is stored.
THEOREM UndisturbedAppsStay == Spec => []UndisturbedStaysSignedIn
<1>1. Init => Calm
    BY CalmInit
<1>2. IInv /\ Calm /\ [Next]_vars => Calm'
    BY CalmNext
<1>3. Calm => UndisturbedStaysSignedIn
    BY CalmMeans
<1> QED
    BY <1>1, <1>2, <1>3, InvariantHolds, PTL DEF Spec
=============================================================================
