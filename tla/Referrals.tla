----------------------------- MODULE Referrals -----------------------------
(***************************************************************************)
(* Referrals: ReferralService (referrals/referral-service.ts) over its     *)
(* store, the settings and the ledger.  A user shares a code, a new user   *)
(* signs up with it, and on a transaction of the new user the referrer is  *)
(* paid a bonus whose amount and currency are two settings.                *)
(***************************************************************************)
EXTENDS ServiceCalls

CONSTANTS Users,          \* who refers and who is referred
          ReferralCodes,  \* what generateCode() may draw
          CodeAttempts,   \* draws before codeFor gives up (6 in the code)
          DefaultBonus,   \* what getBonus() says when nothing is set
          Bonuses         \* what the admin may set, [minor, currency]

RewardKey(u) == <<"referral", u>>    \* referral:${referredExternalId}

NoCode == "_"

ASSUME ReferralsAssumption ==
    /\ Users \subseteq Customers
    /\ NoCode \notin ReferralCodes
    /\ CodeAttempts \in Nat \ {0}
    /\ Bonuses \cup {DefaultBonus} \subseteq [minor : Nat, currency : Currencies]
    /\ {"referral"} \X Users \subseteq Keys

VARIABLES codes,      \* referral_codes: owner -> code
          shared,     \* the codes an owner has been shown, to share
          referrals,  \* referrals: referred -> row
          bonus       \* the two settings

referralVars == <<codes, shared, referrals, bonus>>

NoReferral == [status |-> "none"]
Referral == [status : {"pending"}, referrer : Users]
    \cup [status : {"rewarded"}, referrer : Users, reward : [minor : Nat, currency : Currencies]]

\* read: the settings a call has read so far.
ReferralCalls ==
    [pc : {"ref.create", "ref.again"}, owner : Users, attempts : 0..CodeAttempts]
    \cup [pc : {"ref.record"}, referred : Users, referrer : Users]
    \cup [pc : {"ref.bonus"}, referred : Users, referrer : Users]
    \cup [pc : {"ref.second", "ref.reward", "ref.mark"},
          referred : Users, referrer : Users, read : [minor : Nat, currency : Currencies]]
    \cup [pc : {"bonus.currency"}, bonus : [minor : Nat, currency : Currencies]]

-----------------------------------------------------------------------------
(* codeFor: get or create *)

Shows(owner, code) == shared' = [shared EXCEPT ![owner] = @ \cup {code}]

CodeFor(c, owner) ==
    /\ Receives(c, "referral")
    /\ IF codes[owner] # NoCode
       THEN Shows(owner, codes[owner]) /\ UNCHANGED calls
       ELSE /\ Starts(c, [pc |-> "ref.create", owner |-> owner, attempts |-> CodeAttempts])
            /\ UNCHANGED shared
    /\ UNCHANGED <<balance, journal, codes, referrals, bonus>>

\* The store refuses a code that is taken, and a second code for an owner.
Creatable(owner, code) == codes[owner] = NoCode /\ \A u \in Users : codes[u] # code

\* Mutant of CreateCode: a refused insert is not noticed.
CreateCodeUnchecked(c, code) ==
    /\ At(c, "ref.create")
    /\ LET owner == calls[c].owner
       IN /\ codes' = IF Creatable(owner, code) THEN [codes EXCEPT ![owner] = code] ELSE codes
          /\ Shows(owner, code)
          /\ Returns(c)
    /\ UNCHANGED <<balance, journal, referrals, bonus>>

CreateCode(c, code) ==
    /\ At(c, "ref.create")
    /\ LET owner == calls[c].owner
       IN IF Creatable(owner, code)
          THEN AwaitsWrite(codes' = [codes EXCEPT ![owner] = code], UNCHANGED codes,
                           Shows(owner, code) /\ Returns(c),
                           UNCHANGED shared /\ GoesTo(c, "ref.again"))
          ELSE UNCHANGED <<codes, shared>> /\ GoesTo(c, "ref.again")
    /\ UNCHANGED <<balance, journal, referrals, bonus>>

\* Mutant of ReadCodeAgain: nothing ends the loop.
ReadCodeAgainForever(c) ==
    /\ At(c, "ref.again")
    /\ LET owner == calls[c].owner
           left == calls[c].attempts - 1
       IN IF codes[owner] # NoCode
          THEN Shows(owner, codes[owner]) /\ Returns(c)
          ELSE /\ UNCHANGED shared
               /\ Starts(c, [pc |-> "ref.create", owner |-> owner, attempts |-> left])
    /\ UNCHANGED <<balance, journal, codes, referrals, bonus>>

\* The insert failed: the owner has a code by now, or the next draw is tried.
ReadCodeAgain(c) ==
    /\ At(c, "ref.again")
    /\ LET owner == calls[c].owner
           left == calls[c].attempts - 1
       IN IF codes[owner] # NoCode
          THEN Shows(owner, codes[owner]) /\ Returns(c)
          ELSE /\ UNCHANGED shared
               /\ IF left = 0 THEN Returns(c)
                  ELSE Starts(c, [pc |-> "ref.create", owner |-> owner, attempts |-> left])
    /\ UNCHANGED <<balance, journal, codes, referrals, bonus>>

-----------------------------------------------------------------------------
(* record: at signup *)

\* ownerForCode(); an unknown code and one's own are ignored.  A user signs up
\* once, with a code that was shown to its owner.
SignUp(c, u, code) ==
    /\ Receives(c, "referral")
    /\ referrals[u] = NoReferral
    /\ \A other \in Calls : calls[other].pc = "ref.record" => calls[other].referred # u
    /\ \E referrer \in Users \ {u} :
          /\ code \in shared[referrer] /\ codes[referrer] = code
          /\ Starts(c, [pc |-> "ref.record", referred |-> u, referrer |-> referrer])
    /\ UNCHANGED <<balance, journal, referralVars>>

\* The first referral is kept; a failure is ignored.
RecordReferral(c) ==
    /\ At(c, "ref.record")
    /\ LET u == calls[c].referred
       IN AwaitsWrite(referrals' = [referrals EXCEPT ![u] =
                         [status |-> "pending", referrer |-> calls[c].referrer]],
                      UNCHANGED referrals, Returns(c), Returns(c))
    /\ UNCHANGED <<balance, journal, codes, shared, bonus>>

-----------------------------------------------------------------------------
(* onReferredUserTransacted: read the referral and the bonus, pay, mark *)

Transacted(c, u) ==
    /\ Receives(c, "referral")
    /\ referrals[u].status = "pending"
    /\ Starts(c, [pc |-> "ref.bonus", referred |-> u, referrer |-> referrals[u].referrer])
    /\ UNCHANGED <<balance, journal, referralVars>>

\* getBonus() asks for both settings at once, and they are read one at a time, in
\* either order: what the second reading finds replaces what the first one saw.
ReadBonus(c) ==
    /\ At(c, "ref.bonus")
    /\ Starts(c, [pc |-> "ref.second", referred |-> calls[c].referred,
                  referrer |-> calls[c].referrer, read |-> bonus])
    /\ UNCHANGED <<balance, journal, referralVars>>

\* A bonus of nothing leaves the referral pending.
ReadBonusAgain(c, setting) ==
    /\ At(c, "ref.second")
    /\ LET read == [calls[c].read EXCEPT ![setting] = bonus[setting]]
       IN IF read.minor <= 0
          THEN Returns(c)
          ELSE calls' = [calls EXCEPT ![c].pc = "ref.reward", ![c].read = read]
    /\ UNCHANGED <<balance, journal, referralVars>>

PayReward(c) ==
    /\ At(c, "ref.reward")
    /\ AwaitsPost(RewardKey(calls[c].referred),
                  referralReward(calls[c].referrer, calls[c].read.currency,
                                 calls[c].read.minor),
                  GoesTo(c, "ref.mark"), Returns(c))
    /\ UNCHANGED referralVars

\* markRewarded: WHERE status = 'pending'.
MarkRewarded(c) ==
    /\ At(c, "ref.mark")
    /\ LET u == calls[c].referred
           row == [status |-> "rewarded", referrer |-> referrals[u].referrer,
                   reward |-> calls[c].read]
       IN AwaitsWrite(referrals' = IF referrals[u].status = "pending"
                                   THEN [referrals EXCEPT ![u] = row] ELSE referrals,
                      UNCHANGED referrals, Returns(c), Returns(c))
    /\ UNCHANGED <<balance, journal, codes, shared, bonus>>

-----------------------------------------------------------------------------
(* setBonus: two settings, one after the other *)

SetBonusMinor(c, b) ==
    /\ Receives(c, "bonus_change")
    /\ AwaitsWrite(bonus' = [bonus EXCEPT !.minor = b.minor], UNCHANGED bonus,
                   Starts(c, [pc |-> "bonus.currency", bonus |-> b]), UNCHANGED calls)
    /\ UNCHANGED <<balance, journal, codes, shared, referrals>>

SetBonusCurrency(c) ==
    /\ At(c, "bonus.currency")
    /\ AwaitsWrite(bonus' = [bonus EXCEPT !.currency = calls[c].bonus.currency],
                   UNCHANGED bonus, Returns(c), Returns(c))
    /\ UNCHANGED <<balance, journal, codes, shared, referrals>>

-----------------------------------------------------------------------------

ReferralInit ==
    /\ codes = [u \in Users |-> NoCode]
    /\ shared = [u \in Users |-> {}]
    /\ referrals = [u \in Users |-> NoReferral]
    /\ bonus = DefaultBonus

ReferralStarts(c) ==
    \/ \E u \in Users :
        CodeFor(c, u) \/ Transacted(c, u) \/ \E code \in ReferralCodes : SignUp(c, u, code)
    \/ \E b \in Bonuses : SetBonusMinor(c, b)

ReferralProceeds(c) ==
    \/ ReadCodeAgain(c) \/ \E code \in ReferralCodes : CreateCode(c, code)
    \/ RecordReferral(c)
    \/ ReadBonus(c) \/ \E setting \in {"minor", "currency"} : ReadBonusAgain(c, setting)
    \/ PayReward(c) \/ MarkRewarded(c)
    \/ SetBonusCurrency(c)

ReferralTypeOK ==
    /\ codes \in [Users -> ReferralCodes \cup {NoCode}]
    /\ shared \in [Users -> SUBSET ReferralCodes]
    /\ referrals \in [Users -> Referral \cup {NoReferral}]
    /\ bonus \in [minor : Nat, currency : Currencies]

-----------------------------------------------------------------------------
(* Properties *)

\* A code someone has been given to share leads to them and to nobody else, although
\* two panels of one owner and two owners draw codes at the same time (codeFor).
SharedCodesAreTheirs ==
    \A u, v \in Users : \A code \in shared[u] : codes[v] = code <=> u = v

\* A referral that reads rewarded has been paid, to the referrer it names and, unless
\* an admin changes the bonus, with the reward it shows: whatever transactions race
\* and whatever step of one is lost, the books say what the referrer's panel says.
RewardIsPosted ==
    \A u \in Users : referrals[u].status = "rewarded" =>
        LET row == referrals[u]
            gain(currency) == Delta(journal[RewardKey(u)], customerWallet(row.referrer, currency))
        IN /\ \E currency \in Currencies : gain(currency) > 0
           /\ "bonus_change" \notin env.services => gain(row.reward.currency) = row.reward.minor

\* What an owner's panel shows is so: the code is theirs, the rewards were paid.
PanelsAreTrue == SharedCodesAreTheirs /\ RewardIsPosted
=============================================================================
