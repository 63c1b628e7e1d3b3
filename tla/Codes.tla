------------------------------- MODULE Codes --------------------------------
(***************************************************************************)
(* The one-time codes of one phone number: asked for, sent, guessed and    *)
(* consumed, with the counters that bound both.  Every Redis command is a  *)
(* step of its own and other calls run between any two; only the scripts   *)
(* (count and expiry) and GETDEL are atomic.  Where a call signs in, the   *)
(* module Sessions goes on with SignIn.                                    *)
(***************************************************************************)
EXTENDS Naturals, FiniteSets

CONSTANTS
    Codes,              \* the codes that will be minted, each once
    Guess,              \* a well-formed code nobody was ever sent
    Calls,              \* requests and verifications in flight at once
    RequestsPerHour,    \* auth.otp_requests_per_hour
    VerifyAttempts,     \* auth.otp_verify_attempts
    NoCode

ASSUME CodesAssumption == Guess \notin Codes /\ NoCode \notin Codes \cup {Guess}
ASSUME CallsAssumption == IsFiniteSet(Calls) /\ Calls # {}
ASSUME LimitsAssumption == RequestsPerHour \in Nat /\ VerifyAttempts \in Nat \ {0}

VARIABLES
    otp,        \* otp:<phone>
    attempts,   \* otp_attempts:<phone>, 0 for no key
    asked,      \* rate:otp_request:<phone>, counted up to one past the limit
    minted,     \* the codes sent so far
    call,       \* what each call in flight holds
    submitted,  \* sign-ins for which each code was typed in
    usedUp      \* sign-ins for which each code was taken out of Redis

codesVars == <<otp, attempts, asked, minted, call, submitted, usedUp>>

NoCall == [at |-> "none"]

Call == {NoCall} \cup [at : {"allowed", "minting", "malformed", "lockout"}]
        \cup [at : {"begun", "wrong"}, code : Codes \cup {Guess}]
        \cup [at : {"matched"}, code : Codes]
        \cup [at : {"taken", "cleared"}, code : Codes, stored : Codes]

CodesTypeOK ==
    /\ otp \in Codes \cup {NoCode}
    /\ attempts \in Nat
    /\ asked \in 0 .. RequestsPerHour + 1
    /\ minted \subseteq Codes
    /\ call \in [Calls -> Call]
    /\ submitted \in [Codes -> Nat]
    /\ usedUp \in [Codes -> Nat]

CodesInit ==
    /\ otp = NoCode
    /\ attempts = 0
    /\ asked = 0
    /\ minted = {}
    /\ call = [c \in Calls |-> NoCall]
    /\ submitted = [x \in Codes |-> 0]
    /\ usedUp = [x \in Codes |-> 0]

(* Call c goes on to k, and nothing but the variables beside it changes.   *)
Goes(c, at, k) == call[c].at = at /\ call' = [call EXCEPT ![c] = k]

-----------------------------------------------------------------------------
(* The lives of the three keys.                                            *)
CodeExpires ==
    /\ otp # NoCode
    /\ otp' = NoCode
    /\ UNCHANGED <<attempts, asked, minted, call, submitted, usedUp>>

WindowEnds ==
    /\ attempts > 0
    /\ attempts' = 0
    /\ UNCHANGED <<otp, asked, minted, call, submitted, usedUp>>

HourEnds ==
    /\ asked > 0
    /\ asked' = 0
    /\ UNCHANGED <<otp, attempts, minted, call, submitted, usedUp>>

-----------------------------------------------------------------------------
(* RequestOTPUseCase.Execute.  The limiter counts every request, those it  *)
(* refuses too.                                                            *)
Allow(c) ==
    /\ Goes(c, "none", IF asked < RequestsPerHour THEN [at |-> "allowed"] ELSE NoCall)
    /\ asked <= RequestsPerHour
    /\ asked' = asked + 1
    /\ UNCHANGED <<otp, attempts, minted, submitted, usedUp>>

(* A locked-out number is sent nothing.                                    *)
MayBeSent(c) ==
    /\ Goes(c, "allowed", IF attempts < VerifyAttempts THEN [at |-> "minting"] ELSE NoCall)
    /\ UNCHANGED <<otp, attempts, asked, minted, submitted, usedUp>>

(* The code is stored over the last one, and sent; it stays stored when    *)
(* the text message fails.                                                 *)
PutOTP(c, x) ==
    /\ Goes(c, "minting", NoCall)
    /\ x \notin minted
    /\ minted' = minted \cup {x}
    /\ otp' = x
    /\ UNCHANGED <<attempts, asked, submitted, usedUp>>

-----------------------------------------------------------------------------
(* VerifyOTPUseCase.Execute.  What may be typed: any code that was sent,   *)
(* or one that was not, or something that is no code.                      *)
BeginOneTooMany(c) ==
    /\ attempts <= VerifyAttempts
    /\ \/ Goes(c, "none", [at |-> "malformed"])
       \/ \E x \in minted \cup {Guess} : Goes(c, "none", [at |-> "begun", code |-> x])
    /\ UNCHANGED <<otp, attempts, asked, minted, submitted, usedUp>>

Begin(c) ==
    /\ attempts < VerifyAttempts
    /\ \/ Goes(c, "none", [at |-> "malformed"])
       \/ \E x \in minted \cup {Guess} : Goes(c, "none", [at |-> "begun", code |-> x])
    /\ UNCHANGED <<otp, attempts, asked, minted, submitted, usedUp>>

(* The stored code is looked at, and stays.                                *)
PeekOTP(c) ==
    LET k == call[c] IN
    /\ Goes(c, "begun", [at |-> IF otp = k.code THEN "matched" ELSE "wrong", code |-> k.code])
    /\ UNCHANGED <<otp, attempts, asked, minted, submitted, usedUp>>

(* One script counts the failure and, for the first, starts its window.    *)
RecordFailure(c) ==
    /\ call[c].at \in {"malformed", "wrong"}
    /\ attempts' = attempts + 1
    /\ Goes(c, call[c].at,
            IF attempts + 1 >= VerifyAttempts THEN [at |-> "lockout"] ELSE NoCall)
    /\ UNCHANGED <<otp, asked, minted, submitted, usedUp>>

(* The last failure deletes the code.                                      *)
DeleteOTP(c) ==
    /\ Goes(c, "lockout", NoCall)
    /\ otp' = NoCode
    /\ UNCHANGED <<attempts, asked, minted, submitted, usedUp>>

TakeOTPLater(c) ==
    /\ Goes(c, "matched", [at |-> "taken", code |-> call[c].code, stored |-> call[c].code])
    /\ otp' = IF otp = call[c].code THEN NoCode ELSE otp
    /\ UNCHANGED <<attempts, asked, minted, submitted, usedUp>>

(* GETDEL: whatever code is stored by now is used up; with none left, the  *)
(* guess is refused.                                                       *)
TakeOTP(c) ==
    /\ Goes(c, "matched", IF otp = NoCode THEN NoCall
                          ELSE [at |-> "taken", code |-> call[c].code, stored |-> otp])
    /\ otp' = NoCode
    /\ UNCHANGED <<attempts, asked, minted, submitted, usedUp>>

(* The counter goes, unless Redis is away; that is only logged.            *)
ClearAttempts(c) ==
    /\ Goes(c, "taken", [call[c] EXCEPT !.at = "cleared"])
    /\ attempts' \in {0, attempts}
    /\ UNCHANGED <<otp, asked, minted, submitted, usedUp>>

(* The account is found or opened, and the session issued.                 *)
EnsureUser(c) ==
    /\ Goes(c, "cleared", NoCall)
    /\ submitted' = [submitted EXCEPT ![call[c].code] = @ + 1]
    /\ usedUp' = [usedUp EXCEPT ![call[c].stored] = @ + 1]
    /\ UNCHANGED <<otp, attempts, asked, minted>>

(* A store is away, the account is suspended, or the call is cut short.    *)
CallEnds(c) ==
    /\ call[c] # NoCall
    /\ call' = [call EXCEPT ![c] = NoCall]
    /\ UNCHANGED <<otp, attempts, asked, minted, submitted, usedUp>>

CodesNext ==
    \/ CodeExpires \/ WindowEnds \/ HourEnds
    \/ \E c \in Calls :
         \/ Allow(c) \/ MayBeSent(c) \/ \E x \in Codes : PutOTP(c, x)
         \/ Begin(c) \/ PeekOTP(c) \/ RecordFailure(c) \/ DeleteOTP(c)
         \/ TakeOTP(c) \/ ClearAttempts(c) \/ EnsureUser(c) \/ CallEnds(c)

CodesSpec == CodesInit /\ [][CodesNext]_codesVars

-----------------------------------------------------------------------------
(* Between the look at the counter and the count of a failure other        *)
(* guesses run, so the limit may be passed, but by no more than the calls  *)
(* that were under way when it was reached (verify_otp.go, Execute).       *)
GuessesAreCounted ==
    /\ CodesTypeOK
    /\ attempts <= VerifyAttempts + Cardinality(Calls) - 1

(* However calls race, each code that was sent is used up by one sign-in   *)
(* at most, so there are never more sign-ins than codes (otp_store.go,     *)
(* TakeOTP: GETDEL).                                                       *)
OneSignInPerCode ==
    \A x \in Codes : usedUp[x] <= (IF x \in minted THEN 1 ELSE 0)

(* "Two submissions of one code cannot create two sessions."  They can,    *)
(* if another code is stored between their looks and their takes: the      *)
(* second take finds that one and does not compare it.                     *)
OneSessionPerSubmittedCode == \A x \in Codes : submitted[x] <= 1

(* "Destroyed on lockout, so waiting out the window does not leave a live  *)
(* code."  A code asked for before the lockout may be stored after it.     *)
LockedOutLeavesNoCode ==
    (attempts >= VerifyAttempts /\ \A c \in Calls : call[c] = NoCall) => otp = NoCode

=============================================================================
