---------------------------- MODULE AuthClients ----------------------------
(***************************************************************************)
(* The mobile app's side of a session: the auth store                      *)
(* (mobile/packages/core/src/auth-store.ts) and the API client's silent    *)
(* refresh (mobile/packages/api-client/src/client.ts), against AuthServer. *)
(*                                                                         *)
(* A native app keeps its refresh token in memory and in secure storage.   *)
(* On the web the token is only in the cookie jar, which all tabs share.   *)
(* An access token goes by the refresh token it was issued with; it is     *)
(* good until it expires, whatever became of its session.                  *)
(***************************************************************************)
EXTENDS AuthServer

VARIABLES apps,      \* the store: status, refresh token in memory, access token
          acts,      \* the asynchronous methods of each app that are running
          stored,    \* secure storage, or the cookie jar
          dead,      \* access tokens that have expired
          requests

clientVars == <<apps, acts, stored, dead, requests>>
vars == <<env, parties, users, otps, sessions, uses, calls, apps, acts, stored, dead, requests>>
exceptSessions == <<env, parties, users, otps, sessions, uses>>

Jar == "jar"
Store(d) == IF env.web THEN Jar ELSE d
InMemory(token) == IF env.web THEN NoToken ELSE token

Resting == [at |-> "rest"]
AtRest(d, a) == acts[d][a] = Resting

\* asking: /auth/login, /auth/verify or /auth/refresh is called.  storing, applying:
\* applyTokens.  failed, leaving, removing, clearing: signOut, or bootstrap's catch.
ActStates == {Resting}
    \cup [at : {"asking", "failed"}]
    \cup [at : {"storing", "applying"}, token : Token]
    \cup [at : {"leaving", "removing", "clearing"}, token : Token \cup {NoToken}]

SignedOut == [status |-> "unauthenticated", mem |-> NoToken, access |-> NoToken]
Loading == [status |-> "loading", mem |-> NoToken, access |-> NoToken]

NoRequest == [at |-> "none"]
Request == [at : {"sent", "ran", "refused", "waiting", "done", "failed"}, device : Devices,
            access : Token \cup {NoToken}, runs : Nat, retried : BOOLEAN]

Goes(d, a, state) == acts' = [acts EXCEPT ![d][a] = state]
In(d, a, at) == acts[d][a].at = at

-----------------------------------------------------------------------------
(* Entering: bootstrap at launch, or a login *)

\* Nothing stored: the login screen.  The web cannot tell and asks.
Bootstrap(c, d) ==
    /\ apps[d].status = "loading" /\ AtRest(d, "enter")
    /\ IF stored[Store(d)] = NoToken /\ ~env.web
       THEN /\ apps' = [apps EXCEPT ![d].status = "unauthenticated"]
            /\ UNCHANGED <<env, parties, users, otps, sessions, uses, calls, acts>>
       ELSE /\ Refresh(c, stored[Store(d)], <<d, "enter">>)
            /\ Goes(d, "enter", [at |-> "asking"])
            /\ UNCHANGED apps
    /\ UNCHANGED <<stored, dead, requests>>

Login(c, d, p) ==
    /\ apps[d].status = "unauthenticated" /\ AtRest(d, "enter")
    /\ \/ LoginWithPassword(c, p, <<d, "enter">>)
       \/ Doing("code") /\ \E k \in Codes : EnterCode(c, p, k, FALSE, <<d, "enter">>)
    /\ Goes(d, "enter", [at |-> "asking"])
    /\ UNCHANGED <<apps, stored, dead, requests>>

-----------------------------------------------------------------------------
(* Silent refresh: one in flight for all requests of an app *)

\* The requests of d that wait for a refresh are sent again once, or fail.
Resumed(d, refreshed) ==
    [r \in Requests |->
        IF requests[r].at = "waiting" /\ requests[r].device = d
        THEN IF refreshed
             THEN [requests[r] EXCEPT !.at = "sent", !.retried = TRUE, !.access = apps'[d].access]
             ELSE [requests[r] EXCEPT !.at = "failed"]
        ELSE requests[r]]

\* Mutant of RunRefresh: every 401 runs a refresh of its own, with what is stored.
RunRefreshOfItsOwn(r, c, d) ==
    /\ requests' = [requests EXCEPT ![r].at = "waiting"]
    /\ Refresh(c, stored[Store(d)], <<d, "refresh">>)
    /\ Goes(d, "refresh", [at |-> "asking"])

\* runRefresh, and refresh() of the store up to its first await.
RunRefresh(r, c, d) ==
    \/ /\ ~AtRest(d, "refresh")
       /\ requests' = [requests EXCEPT ![r].at = "waiting"]
       /\ UNCHANGED <<exceptSessions, calls, acts>>
    \/ /\ AtRest(d, "refresh")
       /\ IF apps[d].mem = NoToken /\ ~env.web
          THEN /\ requests' = [requests EXCEPT ![r].at = "failed"]
               /\ UNCHANGED <<exceptSessions, calls, acts>>
          ELSE /\ requests' = [requests EXCEPT ![r].at = "waiting"]
               /\ Refresh(c, IF env.web THEN stored[Jar] ELSE apps[d].mem, <<d, "refresh">>)
               /\ Goes(d, "refresh", [at |-> "asking"])

-----------------------------------------------------------------------------
(* Answers to the auth calls *)

\* Mutant of AfterFailure: a failure is taken for tokens.
AfterFailureStored(d, a) == [at |-> "storing", token |-> NoToken]

AfterFailure(d, a) ==
    IF a = "refresh" THEN [at |-> "failed"]
    ELSE IF apps[d].status # "loading" THEN Resting
    ELSE [at |-> IF env.web THEN "clearing" ELSE "removing", token |-> NoToken]

\* A failure reaches the app; or the connection breaks, and the handler may go on.
ReceiveFailure(c, d, a) ==
    /\ For(c) = <<d, a>>
    /\ In(d, a, "asking")
    /\ \/ At(c, "reply") /\ ~calls[c].ok /\ Starts(c, Idle)
       \/ At(c, "reply") /\ MayHappen("lost_answer") /\ Starts(c, Idle)
       \/ ~At(c, "reply") /\ MayHappen("lost_answer")
          /\ calls' = [calls EXCEPT ![c].for = Nobody]
    /\ Goes(d, a, AfterFailure(d, a))
    /\ UNCHANGED <<exceptSessions, apps, stored, dead, requests>>

\* The web's cookie is set by the answer, and no write is awaited.
ReceiveTokens(c, d, a) ==
    /\ At(c, "reply") /\ For(c) = <<d, a>> /\ calls[c].ok
    /\ In(d, a, "asking")
    /\ Starts(c, Idle)
    /\ LET token == calls[c].token
       IN /\ Goes(d, a, [at |-> IF env.web THEN "applying" ELSE "storing", token |-> token])
          /\ stored' = IF env.web THEN [stored EXCEPT ![Jar] = token] ELSE stored
    /\ UNCHANGED <<exceptSessions, apps, dead, requests>>

StoreToken(d, a) ==
    /\ In(d, a, "storing")
    /\ stored' = [stored EXCEPT ![d] = acts[d][a].token]
    /\ Goes(d, a, [acts[d][a] EXCEPT !.at = "applying"])
    /\ UNCHANGED <<exceptSessions, calls, apps, dead, requests>>

\* A refresh leaves the status alone.
ApplyTokens(d, a) ==
    /\ In(d, a, "applying")
    /\ LET token == acts[d][a].token
       IN apps' = [apps EXCEPT ![d].mem = InMemory(token), ![d].access = token,
                               ![d].status = IF a = "enter" THEN "authenticated" ELSE @]
    /\ Goes(d, a, Resting)
    /\ requests' = IF a = "refresh" THEN Resumed(d, TRUE) ELSE requests
    /\ UNCHANGED <<exceptSessions, calls, stored, dead>>

-----------------------------------------------------------------------------
(* signOut: by the user, or after a failed refresh *)

\* The token is read when signOut runs.
SignOut(c, d, a) ==
    /\ \/ a = "refresh" /\ In(d, a, "failed")
       \/ a = "leave" /\ AtRest(d, a) /\ Doing("sign_out") /\ apps[d].status = "authenticated"
    /\ LET token == IF env.web THEN stored[Jar] ELSE apps[d].mem
       IN /\ Logout(c, token, <<d, a>>)
          /\ Goes(d, a, [at |-> "leaving", token |-> token])
    /\ UNCHANGED <<apps, stored, dead, requests>>

\* A failed logout is ignored; the web's cookie is then still there.
LoggedOut(c, d, a) ==
    /\ For(c) = <<d, a>>
    /\ In(d, a, "leaving")
    /\ \/ /\ At(c, "reply") /\ Starts(c, Idle)
          /\ stored' = IF env.web /\ calls[c].ok THEN [stored EXCEPT ![Jar] = NoToken] ELSE stored
       \/ /\ MayHappen("lost_answer")
          /\ IF At(c, "reply") THEN Starts(c, Idle) ELSE calls' = [calls EXCEPT ![c].for = Nobody]
          /\ UNCHANGED stored
    /\ Goes(d, a, [acts[d][a] EXCEPT !.at = IF env.web THEN "clearing" ELSE "removing"])
    /\ UNCHANGED <<exceptSessions, apps, dead, requests>>

RemoveToken(d, a) ==
    /\ In(d, a, "removing")
    /\ stored' = [stored EXCEPT ![d] = NoToken]
    /\ Goes(d, a, [acts[d][a] EXCEPT !.at = "clearing"])
    /\ UNCHANGED <<exceptSessions, calls, apps, dead, requests>>

ClearState(d, a) ==
    /\ In(d, a, "clearing")
    /\ apps' = [apps EXCEPT ![d] = SignedOut]
    /\ Goes(d, a, Resting)
    /\ requests' = IF a = "refresh" THEN Resumed(d, FALSE) ELSE requests
    /\ UNCHANGED <<exceptSessions, calls, stored, dead>>

-----------------------------------------------------------------------------
(* Requests *)

SendRequest(r, d) ==
    /\ requests[r] = NoRequest
    /\ apps[d].status = "authenticated"
    /\ requests' = [requests EXCEPT ![r] = [at |-> "sent", device |-> d, runs |-> 0,
                                            retried |-> FALSE, access |-> apps[d].access]]
    /\ UNCHANGED <<exceptSessions, calls, apps, acts, stored, dead>>

\* The boundary hook checks the signature and the expiry, and nothing else.
VerifyAccess(r) ==
    /\ requests[r].at = "sent"
    /\ requests' = IF requests[r].access = NoToken \/ requests[r].access \in dead
                   THEN [requests EXCEPT ![r].at = "refused"]
                   ELSE [requests EXCEPT ![r].at = "ran", ![r].runs = @ + 1]
    /\ UNCHANGED <<exceptSessions, calls, apps, acts, stored, dead>>

\* Mutant of ReceiveAnswer: a refused request waits although nobody refreshes for it.
ReceiveAnswerAndWait(r, c) ==
    /\ \/ /\ requests[r].at = "ran"
          /\ requests' = [requests EXCEPT ![r].at = "done"]
       \/ /\ requests[r].at = "refused"
          /\ requests' = [requests EXCEPT ![r].at = "waiting"]
    /\ UNCHANGED <<exceptSessions, calls, apps, acts, stored, dead>>

\* The tail of request(): one refresh and one replay after a 401.
ReceiveAnswer(r, c) ==
    /\ UNCHANGED <<apps, stored, dead>>
    /\ \/ /\ requests[r].at = "ran"
          /\ requests' = [requests EXCEPT ![r].at = "done"]
          /\ UNCHANGED <<exceptSessions, calls, acts>>
       \/ /\ requests[r].at \in {"sent", "ran"} /\ MayHappen("lost_answer")
          /\ requests' = [requests EXCEPT ![r].at = "failed"]
          /\ UNCHANGED <<exceptSessions, calls, acts>>
       \/ /\ requests[r].at = "refused" /\ requests[r].retried
          /\ requests' = [requests EXCEPT ![r].at = "failed"]
          /\ UNCHANGED <<exceptSessions, calls, acts>>
       \/ /\ requests[r].at = "refused" /\ ~requests[r].retried
          /\ RunRefresh(r, c, requests[r].device)

-----------------------------------------------------------------------------

\* An access token's quarter of an hour is over.
AccessExpires(d) ==
    /\ apps[d].access # NoToken /\ apps[d].access \notin dead
    /\ dead' = dead \cup {apps[d].access}
    /\ UNCHANGED <<exceptSessions, calls, apps, acts, stored, requests>>

\* Bound: every session has n rotations left.
RotationsLeft(n) ==
    \A s \in Sessions : sessions[s] # NoSession => sessions[s].rotations + n <= MaxRotations

\* The app is closed and opened again; what it had stored is still there.
Relaunch(d) ==
    /\ MayHappen("kill")
    /\ apps[d].status # "loading"
    /\ RotationsLeft(2)
    /\ apps' = [apps EXCEPT ![d] = Loading]
    /\ acts' = [acts EXCEPT ![d] = [a \in Activities |-> Resting]]
    /\ calls' = [c \in Calls |->
          IF For(c) = Nobody \/ For(c)[1] # d THEN calls[c]
          ELSE IF At(c, "reply") THEN Idle ELSE [calls[c] EXCEPT !.for = Nobody]]
    /\ requests' = [r \in Requests |->
          IF requests[r] # NoRequest /\ requests[r].device = d
          THEN [requests[r] EXCEPT !.at = "failed"] ELSE requests[r]]
    /\ UNCHANGED <<exceptSessions, stored, dead>>

Init ==
    /\ ServerInit
    /\ apps = [d \in Devices |-> Loading]
    /\ acts = [d \in Devices |-> [a \in Activities |-> Resting]]
    /\ stored = [k \in Devices \cup {Jar} |-> NoToken]
    /\ dead = {}
    /\ requests = [r \in Requests |-> NoRequest]

ServerSteps ==
    /\ UNCHANGED clientVars
    /\ ServerArrivals \/ \E c \in Calls : ServerProceeds(c)

\* What an app has begun goes on.
Continues(d) ==
    \E a \in Activities :
        \/ StoreToken(d, a) \/ ApplyTokens(d, a) \/ RemoveToken(d, a) \/ ClearState(d, a)
        \/ \E c \in Calls :
              \/ ReceiveFailure(c, d, a) \/ ReceiveTokens(c, d, a)
              \/ SignOut(c, d, a) \/ LoggedOut(c, d, a)

Starting(d) ==
    \/ \E c \in Calls : Bootstrap(c, d) \/ \E p \in Phones : Login(c, d, p)
    \/ \E r \in env.requests : SendRequest(r, d)
    \/ AccessExpires(d) \/ Relaunch(d)

Next ==
    \/ ServerSteps
    \/ Doing("client") /\ \E d \in env.devices : Starting(d) \/ Continues(d)
    \/ \E r \in Requests : VerifyAccess(r) \/ \E c \in Calls : ReceiveAnswer(r, c)

Spec == Init /\ [][Next]_vars

\* Handlers and apps go on by themselves; a free slot for a call comes back again and again.
Fairness ==
    /\ \A c \in Calls : WF_calls(UNCHANGED clientVars /\ ServerProceeds(c))
    /\ \A d \in Devices : SF_acts(Doing("client") /\ d \in env.devices /\ Continues(d))
    /\ \A r \in Requests : WF_requests(VerifyAccess(r))
                           /\ SF_requests(\E c \in Calls : ReceiveAnswer(r, c))

FairSpec == Spec /\ Fairness

-----------------------------------------------------------------------------
(* Properties *)

TypeOK ==
    /\ ServerTypeOK
    /\ apps \in [Devices -> [status : {"loading", "authenticated", "unauthenticated"},
                             mem : Token \cup {NoToken}, access : Token \cup {NoToken}]]
    /\ acts \in [Devices -> [Activities -> ActStates]]
    /\ stored \in [Devices \cup {Jar} -> Token \cup {NoToken}]
    /\ dead \subseteq Token
    /\ requests \in [Requests -> Request \cup {NoRequest}]

\* A refresh token is exchanged at most once, however many refreshes race with it
\* (the compare-and-set of rotateSession).
TokenIsUsedOnce == \A token \in Token : uses[token] <= 1

\* One code proves one thing: two concurrent attempts with the same code never
\* both get past consumeOtp, neither to a session nor to a new password.
CodeIsUsedOnce ==
    \A k \in Codes :
        Cardinality({c \in Calls : calls[c].pc \in PastCode /\ calls[c].code = k})
        + Cardinality({s \in Sessions : sessions[s] # NoSession /\ sessions[s].code = k}) <= 1

\* A request is replayed only after a refusal, so that the server runs it at most
\* once, whatever answers are lost.
RequestRunsAtMostOnce == \A r \in Requests : requests[r] # NoRequest => requests[r].runs <= 1

\* Tokens, codes and requests each take effect once.
NothingHappensTwice == TokenIsUsedOnce /\ CodeIsUsedOnce /\ RequestRunsAtMostOnce

\* A revoked session never comes back, whatever refresh was under way when it was
\* revoked: logout and the block at refresh are final.
RevokedIsFinal ==
    [][\A s \in Sessions :
          sessions[s] # NoSession /\ sessions[s].status = "revoked"
             => sessions'[s].status = "revoked" /\ sessions'[s].rotations = sessions[s].rotations]_sessions

\* Of two sign-ups with one phone only one gets the account: it keeps the party
\* it was created with, and with it the wallet.
AccountKeepsItsParty ==
    [][\A p \in Phones : users[p] # NoUser => users'[p].party = users[p].party]_users

\* Neither a refresh nor a second sign-up under way undoes what was settled.
SettledForGood == RevokedIsFinal /\ AccountKeepsItsParty

\* The hourly limit on codes is exceeded by no more than the requests that
\* counted together (count and save are two awaits).
LimitExceededByConcurrentOnly ==
    \A p \in Phones :
        Cardinality(RecentCodes(p)) + Cardinality({c \in Calls : At(c, "otp.save") /\ calls[c].phone = p})
            <= OtpMaxPerHour + Cardinality(Calls) - 1

Undisturbed ==
    /\ env.faults = {} /\ env.doings \cap {"sign_out", "block", "expire"} = {}
    /\ env.web => Cardinality(env.devices) = 1

\* When nothing fails and nobody signs out, an app that has logged in stays logged
\* in and holds the session's current token, however its requests and their
\* refreshes overlap: a second refresh with the same token would sign it out.
UndisturbedStaysSignedIn ==
    Undisturbed =>
        \A d \in env.devices, s \in Sessions :
            sessions[s] # NoSession /\ sessions[s].device = d /\ AtRest(d, "enter") =>
                /\ apps[d].status = "authenticated"
                /\ sessions[s].status = "live"
                /\ AtRest(d, "refresh") => stored[Store(d)] = <<s, sessions[s].rotations>>

\* When the answer to a sign-out is in and nothing failed, the session it named is
\* revoked, unless a refresh under way had moved it on to its next token before the
\* server looked (it then stays alive, and the app may store that token again).
SignOutRevokes ==
    env.faults = {} =>
        \A d \in env.devices, a \in Activities :
            acts[d][a].at \in {"removing", "clearing"} /\ acts[d][a].token # NoToken =>
                LET session == sessions[acts[d][a].token[1]]
                IN session.status = "revoked" \/ session.rotations > acts[d][a].token[2]

\* Every request comes to an end: no one is left waiting for a refresh that failed
\* or that somebody else had begun.
RequestsEnd ==
    \A r \in Requests : requests[r].at = "sent" ~> requests[r].at \in {"done", "failed"}
=============================================================================
