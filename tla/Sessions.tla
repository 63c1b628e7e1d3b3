------------------------------ MODULE Sessions ------------------------------
(***************************************************************************)
(* One account's signed-in devices in Redis: sessions, the refresh token   *)
(* each rotates through, and the account's list of sessions.  Rotation and *)
(* creation are one atomic step each; listing, eviction and revocation are *)
(* sequences of commands other requests run between.                       *)
(***************************************************************************)
EXTENDS Naturals, FiniteSets

CONSTANTS
    Sessions,       \* session ids, each minted once
    Tokens,         \* refresh token hashes, each minted once
    Requests,       \* sign-ins, refreshes and logouts in flight at once
    MaxSessions,    \* auth.max_sessions_per_user
    Honest,         \* whether only the token a device keeps is ever presented
    None

ASSUME SessionsAssumption == IsFiniteSet(Sessions)
ASSUME RequestsAssumption == IsFiniteSet(Requests) /\ Requests # {}
ASSUME MaxSessionsAssumption == MaxSessions \in Nat \ {0}
ASSUME HonestAssumption == Honest \in BOOLEAN
ASSUME NoneAssumption == None \notin Sessions \cup Tokens

VARIABLES
    session,    \* session:<id>: not minted yet, live, gone
    aged,       \* the sessions whose expires_at has passed
    born,       \* created_at, as a rank
    current,    \* refresh:<hash>
    spent,      \* refresh_spent:<hash>
    family,     \* refresh_family:<id>
    index,      \* user_sessions:<user>
    issued,     \* the tokens minted so far
    kept,       \* the token each session's device holds
    request     \* what each request in flight holds

vars == <<session, aged, born, current, spent, family, index, issued, kept, request>>

Idle == [pc |-> "idle"]

Request == [pc : {"rotated"}, session : Sessions, token : Tokens, late : BOOLEAN]
           \cup [pc : {"revoke"}, victims : SUBSET Sessions, signing : BOOLEAN, alarm : BOOLEAN]
           \cup [pc : {"delete"}, victims : SUBSET Sessions, signing : BOOLEAN, alarm : BOOLEAN,
                 victim : Sessions, hashes : SUBSET Tokens, found : BOOLEAN]

TypeOK ==
    /\ session \in [Sessions -> {"unminted", "live", "gone"}]
    /\ aged \subseteq Sessions
    /\ born \in [Sessions -> Nat]
    /\ current \in [Tokens -> Sessions \cup {None}]
    /\ spent \in [Tokens -> Sessions \cup {None}]
    /\ family \in [Sessions -> SUBSET Tokens]
    /\ index \subseteq Sessions
    /\ issued \subseteq Tokens
    /\ kept \in [Sessions -> Tokens \cup {None}]
    /\ request \in [Requests -> {Idle} \cup Request]

Init ==
    /\ session = [s \in Sessions |-> "unminted"]
    /\ aged = {}
    /\ born = [s \in Sessions |-> 0]
    /\ current = [t \in Tokens |-> None]
    /\ spent = [t \in Tokens |-> None]
    /\ family = [s \in Sessions |-> {}]
    /\ index = {}
    /\ issued = {}
    /\ kept = [s \in Sessions |-> None]
    /\ request = [r \in Requests |-> Idle]

Live == {s \in Sessions : session[s] = "live"}
Minted == {s \in Sessions : session[s] # "unminted"}

-----------------------------------------------------------------------------
(* A session's fixed expires_at passes.                                    *)
Age(s) ==
    /\ s \in Live \ aged
    /\ aged' = aged \cup {s}
    /\ UNCHANGED <<session, born, current, spent, family, index, issued, kept, request>>

(* Redis forgets a session and its tokens: each rotation renews their      *)
(* lives, so not before its expires_at.                                    *)
Forget(s) ==
    /\ s \in Live \cap aged
    /\ session' = [session EXCEPT ![s] = "gone"]
    /\ current' = [t \in Tokens |-> IF current[t] = s THEN None ELSE current[t]]
    /\ spent' = [t \in Tokens |-> IF spent[t] = s THEN None ELSE spent[t]]
    /\ family' = [family EXCEPT ![s] = {}]
    /\ UNCHANGED <<aged, born, index, issued, kept, request>>

(* Or the account's list, whose life only a sign-in renews.                *)
ForgetIndex ==
    /\ index # {}
    /\ Live \subseteq aged
    /\ index' = {}
    /\ UNCHANGED <<session, aged, born, current, spent, family, issued, kept, request>>

-----------------------------------------------------------------------------
(* UserSessions: the listed sessions that exist; the list forgets the      *)
(* others.                                                                 *)
Listed == index \cap Live

EvictedOneTooFew ==
    {s \in Listed :
        Cardinality({x \in Listed : born[x] > born[s]}) >= MaxSessions}

(* The oldest of them, as many as leave room for one more.                 *)
Evicted ==
    {s \in Listed :
        Cardinality({x \in Listed : born[x] > born[s]}) + 1 >= MaxSessions}

(* issueSession, up to the evictions.                                      *)
SignIn(r) ==
    /\ request[r] = Idle
    /\ request' = [request EXCEPT ![r] =
                     [pc |-> "revoke", victims |-> Evicted, signing |-> TRUE, alarm |-> FALSE]]
    /\ index' = Listed
    /\ UNCHANGED <<session, aged, born, current, spent, family, issued, kept>>

(* CreateSession: one transaction, and the pair of tokens is the answer.   *)
CreateSession(r, s, t) ==
    /\ request[r].pc = "revoke"
    /\ request[r].signing
    /\ request[r].victims = {}
    /\ session[s] = "unminted"
    /\ t \notin issued
    /\ session' = [session EXCEPT ![s] = "live"]
    /\ born' = [born EXCEPT ![s] = Cardinality(Minted)]
    /\ current' = [current EXCEPT ![t] = s]
    /\ family' = [family EXCEPT ![s] = {t}]
    /\ index' = index \cup {s}
    /\ issued' = issued \cup {t}
    /\ kept' = [kept EXCEPT ![s] = t]
    /\ request' = [request EXCEPT ![r] = Idle]
    /\ UNCHANGED <<aged, spent>>

-----------------------------------------------------------------------------
(* What may be presented: what a device keeps; or also any token ever      *)
(* issued, by a device whose answer was lost or by somebody with a copy.   *)
Presentable(t) == IF Honest THEN \E s \in Sessions : kept[s] = t ELSE t \in issued

RotateWithoutConsuming(r, old, new) ==
    LET s == current[old] IN
    /\ request[r] = Idle
    /\ Presentable(old)
    /\ new \notin issued
    /\ s \in Live
    /\ current' = [current EXCEPT ![new] = s]
    /\ spent' = [spent EXCEPT ![old] = s]
    /\ family' = [family EXCEPT ![s] = @ \cup {new}]
    /\ issued' = issued \cup {new}
    /\ request' = [request EXCEPT ![r] =
                     [pc |-> "rotated", session |-> s, token |-> new, late |-> s \in aged]]
    /\ UNCHANGED <<session, aged, born, index, kept>>

RotateWithoutLooking(r, old, new) ==
    LET s == current[old] IN
    /\ request[r] = Idle
    /\ Presentable(old)
    /\ new \notin issued
    /\ session' = [session EXCEPT ![s] = "live"]
    /\ current' = [current EXCEPT ![old] = None, ![new] = s]
    /\ spent' = [spent EXCEPT ![old] = s]
    /\ family' = [family EXCEPT ![s] = @ \cup {new}]
    /\ issued' = issued \cup {new}
    /\ request' = [request EXCEPT ![r] =
                     [pc |-> "rotated", session |-> s, token |-> new, late |-> s \in aged]]
    /\ UNCHANGED <<aged, born, index, kept>>

(* rotate.lua, whole: the token is current and its session exists.         *)
Rotate(r, old, new) ==
    LET s == current[old] IN
    /\ request[r] = Idle
    /\ Presentable(old)
    /\ new \notin issued
    /\ s \in Live
    /\ current' = [current EXCEPT ![old] = None, ![new] = s]
    /\ spent' = [spent EXCEPT ![old] = s]
    /\ family' = [family EXCEPT ![s] = @ \cup {new}]
    /\ issued' = issued \cup {new}
    /\ request' = [request EXCEPT ![r] =
                     [pc |-> "rotated", session |-> s, token |-> new, late |-> s \in aged]]
    /\ UNCHANGED <<session, aged, born, index, kept>>

(* The token is current but its session is gone: used up, and refused.     *)
RotateOrphan(r, old) ==
    /\ request[r] = Idle
    /\ Presentable(old)
    /\ current[old] # None
    /\ current[old] \notin Live
    /\ current' = [current EXCEPT ![old] = None]
    /\ UNCHANGED <<session, aged, born, spent, family, index, issued, kept, request>>

(* The token was rotated away: its session is to be revoked.  A token that *)
(* is neither changes nothing.                                             *)
RotateSpent(r, old) ==
    /\ request[r] = Idle
    /\ Presentable(old)
    /\ current[old] = None
    /\ spent[old] # None
    /\ request' = [request EXCEPT ![r] =
                     [pc |-> "revoke", victims |-> {spent[old]}, signing |-> FALSE,
                      alarm |-> TRUE]]
    /\ UNCHANGED <<session, aged, born, current, spent, family, index, issued, kept>>

(* The rest of a refresh: the session is read, and the device gets its new *)
(* pair.                                                                   *)
Answer(r) ==
    LET k == request[r] IN
    /\ k.pc = "rotated"
    /\ k.session \in Live
    /\ ~k.late
    /\ kept' = [kept EXCEPT ![k.session] = k.token]
    /\ request' = [request EXCEPT ![r] = Idle]
    /\ UNCHANGED <<session, aged, born, current, spent, family, index, issued>>

(* Or the session was past its expires_at, and is revoked.                 *)
AnswerTooLate(r) ==
    LET k == request[r] IN
    /\ k.pc = "rotated"
    /\ k.session \in Live
    /\ k.late
    /\ request' = [request EXCEPT ![r] =
                     [pc |-> "revoke", victims |-> {k.session}, signing |-> FALSE,
                      alarm |-> FALSE]]
    /\ UNCHANGED <<session, aged, born, current, spent, family, index, issued, kept>>

-----------------------------------------------------------------------------
(* Logout of one session, and of all the list names.                       *)
Logout(r, s) ==
    /\ request[r] = Idle
    /\ s \in Live
    /\ request' = [request EXCEPT ![r] =
                     [pc |-> "revoke", victims |-> {s}, signing |-> FALSE, alarm |-> FALSE]]
    /\ UNCHANGED <<session, aged, born, current, spent, family, index, issued, kept>>

LogoutAll(r) ==
    /\ request[r] = Idle
    /\ index # {}
    /\ request' = [request EXCEPT ![r] =
                     [pc |-> "revoke", victims |-> index, signing |-> FALSE, alarm |-> FALSE]]
    /\ UNCHANGED <<session, aged, born, current, spent, family, index, issued, kept>>

(* RevokeSession: the session and its family are read,                     *)
ReadFamily(r, s) ==
    LET k == request[r] IN
    /\ k.pc = "revoke"
    /\ s \in k.victims
    /\ request' = [request EXCEPT ![r] =
                     [pc |-> "delete", victims |-> k.victims, signing |-> k.signing,
                      alarm |-> k.alarm, victim |-> s, hashes |-> family[s],
                      found |-> s \in Live]]
    /\ UNCHANGED <<session, aged, born, current, spent, family, index, issued, kept>>

DeleteTokensOnly(r) ==
    LET k == request[r] IN
    /\ k.pc = "delete"
    /\ current' = [t \in Tokens |-> IF t \in k.hashes THEN None ELSE current[t]]
    /\ spent' = [t \in Tokens |-> IF t \in k.hashes THEN None ELSE spent[t]]
    /\ family' = [family EXCEPT ![k.victim] = {}]
    /\ index' = IF k.found THEN index \ {k.victim} ELSE index
    /\ request' = [request EXCEPT ![r] =
                     [pc |-> "revoke", victims |-> k.victims \ {k.victim},
                      signing |-> k.signing, alarm |-> k.alarm]]
    /\ UNCHANGED <<session, aged, born, issued, kept>>

(* and then deleted in one transaction: the tokens that were read, the     *)
(* family, the session and, if it was found, its entry in the list.        *)
Delete(r) ==
    LET k == request[r] IN
    /\ k.pc = "delete"
    /\ current' = [t \in Tokens |-> IF t \in k.hashes THEN None ELSE current[t]]
    /\ spent' = [t \in Tokens |-> IF t \in k.hashes THEN None ELSE spent[t]]
    /\ family' = [family EXCEPT ![k.victim] = {}]
    /\ session' = [session EXCEPT ![k.victim] = "gone"]
    /\ index' = IF k.found THEN index \ {k.victim} ELSE index
    /\ request' = [request EXCEPT ![r] =
                     [pc |-> "revoke", victims |-> k.victims \ {k.victim},
                      signing |-> k.signing, alarm |-> k.alarm]]
    /\ UNCHANGED <<aged, born, issued, kept>>

(* Everything is revoked; or Redis is away, the answer is lost, the        *)
(* request dies.                                                           *)
End(r) ==
    /\ request[r] # Idle
    /\ request' = [request EXCEPT ![r] = Idle]
    /\ UNCHANGED <<session, aged, born, current, spent, family, index, issued, kept>>

Next ==
    \/ \E s \in Sessions : Age(s) \/ Forget(s)
    \/ ForgetIndex
    \/ \E r \in Requests :
         \/ SignIn(r)
         \/ \E s \in Sessions, t \in Tokens : CreateSession(r, s, t)
         \/ \E old, new \in Tokens : Rotate(r, old, new)
         \/ \E old \in Tokens : RotateOrphan(r, old) \/ RotateSpent(r, old)
         \/ Answer(r) \/ AnswerTooLate(r)
         \/ \E s \in Sessions : Logout(r, s) \/ ReadFamily(r, s)
         \/ LogoutAll(r) \/ Delete(r) \/ End(r)

Spec == Init /\ [][Next]_vars

-----------------------------------------------------------------------------
(* However many refreshes race, and whatever revocations they race with, a *)
(* live session has at most one token that can be rotated, and a token     *)
(* that was rotated away cannot be rotated again.                          *)
OneCurrentToken ==
    /\ \A t, u \in Tokens :
         (current[t] # None /\ current[t] = current[u]) =>
            t = u \/ current[t] \notin Live
    /\ \A t \in Tokens : current[t] # None => spent[t] = None

(* A live session before its expires_at is on the account's list, so that  *)
(* signing out everywhere reaches it and eviction counts it.               *)
LiveSessionsAreListed == Live \ aged \subseteq index

(* The device limit, as far as it holds: evicting before creating leaves   *)
(* room for one more sign-in per request that was under way at the time.   *)
DeviceLimit ==
    Cardinality(Live \ aged) <= MaxSessions + Cardinality(Requests) - 1

(* A revoked session never comes back, though rotations of its tokens may  *)
(* be under way, and a token once spent or revoked is never current again. *)
RevokedStaysRevoked ==
    [][/\ \A s \in Sessions : session[s] = "gone" => session'[s] = "gone"
       /\ \A t \in issued : current[t] = None => current'[t] = None]_vars

-----------------------------------------------------------------------------
(* The inductive strengthening: tokens that lead to a session were issued, *)
(* and lead to one that was minted.                                        *)
TokensLeadSomewhere ==
    \A t \in Tokens :
        /\ current[t] # None => t \in issued /\ session[current[t]] # "unminted"
        /\ spent[t] # None => t \in issued

IInv ==
    /\ TypeOK
    /\ OneCurrentToken
    /\ LiveSessionsAreListed
    /\ TokensLeadSomewhere

(* Sessions are minted one after the other, and nothing names one that is  *)
(* not minted yet.                                                         *)
BornInOrder ==
    /\ \A s \in Minted : born[s] < Cardinality(Minted)
    /\ \A s, t \in Minted : born[s] = born[t] => s = t

Revoking(r) == request[r].pc \in {"revoke", "delete"}

OnlyMinted ==
    /\ index \subseteq Minted
    /\ \A t \in Tokens : spent[t] # None => spent[t] \in Minted
    /\ \A r \in Requests : Revoking(r) => request[r].victims \subseteq Minted
    /\ \A r \in Requests : request[r].pc = "delete" => request[r].victim \in request[r].victims

(* Whichever of the sign-ins under way go through, there is room for them  *)
(* beside the sessions that none of them is about to evict.                *)
Signing == {r \in Requests : Revoking(r) /\ request[r].signing}

Doomed(signing) == UNION {request[r].victims : r \in signing}

RoomLeft ==
    \A A \in SUBSET Signing :
        Cardinality((Live \ aged) \ Doomed(A)) + Cardinality(A)
            <= MaxSessions + Cardinality(Requests) - 1

LimitIInv == IInv /\ BornInOrder /\ OnlyMinted /\ RoomLeft

-----------------------------------------------------------------------------
(* P04: "Two concurrent refreshes from one device yield one rotation, not  *)
(* a false theft alarm": while only devices present the tokens they keep,  *)
(* no session is revoked for reuse.                                        *)
NoFalseAlarm == \A r \in Requests : request[r].pc = "revoke" => ~request[r].alarm

=============================================================================
