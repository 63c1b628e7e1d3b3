--------------------------- MODULE SessionsProofs ---------------------------
(***************************************************************************)
(* How an account signs in and stays in. For any sessions, tokens and      *)
(* concurrent sign-ins, refreshes and logouts: a live session has one      *)
(* token that can be rotated, it is on the account's list, the list stays  *)
(* near the limit, and what was revoked stays revoked. For any codes and   *)
(* calls in flight: failed guesses are bounded, and a code is used up by   *)
(* one sign-in at most. For any address books and requests on them: the    *)
(* rows stay in their books, and only a deletion takes one away.           *)
(***************************************************************************)
EXTENDS Sessions, Codes, Addresses, FiniteSetTheorems, WellFoundedInduction, TLAPS

(* What a request in flight holds, by where it is.                         *)
LEMMA ActiveRequest ==
    ASSUME TypeOK, NEW r \in Requests, request[r] # Idle
    PROVE  /\ request[r] \in Request
           /\ request[r].pc = "rotated" =>
                /\ request[r].session \in Sessions /\ request[r].token \in Tokens
                /\ request[r].late \in BOOLEAN
           /\ request[r].pc \in {"revoke", "delete"} =>
                /\ request[r].victims \subseteq Sessions
                /\ request[r].signing \in BOOLEAN /\ request[r].alarm \in BOOLEAN
           /\ request[r].pc = "delete" =>
                /\ request[r].victim \in Sessions /\ request[r].hashes \subseteq Tokens
                /\ request[r].found \in BOOLEAN
BY DEF TypeOK, Request

(* A session id is never None.                                             *)
LEMMA NoneIsNoSession == \A s \in Sessions : s # None
BY NoneAssumption

(* Nothing is minted or issued yet.                                        *)
LEMMA InitInv == Init => IInv
BY DEF Init, IInv, TypeOK, OneCurrentToken, LiveSessionsAreListed, TokensLeadSomewhere, Live

(* A step that takes tokens and sessions away, and entries of the list     *)
(* only for sessions that are not live, adds no right to anybody.          *)
LEMMA LessInv ==
    ASSUME IInv, TypeOK', issued' = issued,
           \A s \in Sessions : session'[s] = session[s] \/ session'[s] = "gone",
           \A t \in Tokens : current'[t] = current[t] \/ current'[t] = None,
           \A t \in Tokens : spent'[t] = spent[t] \/ spent'[t] = None,
           aged \subseteq aged',
           Live' \ aged' \subseteq index'
    PROVE  IInv'
<1>1. Live' \subseteq Live
  BY DEF Live
<1>2. OneCurrentToken'
  BY <1>1 DEF IInv, TypeOK, OneCurrentToken
<1>3. TokensLeadSomewhere'
  BY DEF IInv, TypeOK, TokensLeadSomewhere
<1>4. LiveSessionsAreListed'
  BY DEF LiveSessionsAreListed
<1> QED BY <1>2, <1>3, <1>4 DEF IInv

(* A session expires, or Redis forgets it, its tokens or the list.         *)
LEMMA ForgettingInv ==
    ASSUME IInv, (\E s \in Sessions : Age(s) \/ Forget(s)) \/ ForgetIndex
    PROVE  IInv'
<1>1. TypeOK'
  BY DEF IInv, TypeOK, Age, Forget, ForgetIndex, Live
<1>2. issued' = issued /\ aged \subseteq aged'
  BY DEF Age, Forget, ForgetIndex
<1>3. \A s \in Sessions : session'[s] = session[s] \/ session'[s] = "gone"
  BY DEF IInv, TypeOK, Age, Forget, ForgetIndex
<1>4. \A t \in Tokens : /\ current'[t] = current[t] \/ current'[t] = None
                        /\ spent'[t] = spent[t] \/ spent'[t] = None
  BY DEF Age, Forget, ForgetIndex
<1>5. Live' \ aged' \subseteq index'
  BY <1>2, <1>3 DEF Age, Forget, ForgetIndex, IInv, LiveSessionsAreListed, Live
<1> QED BY <1>1, <1>2, <1>3, <1>4, <1>5, LessInv

(* A step that writes a request's memory alone, or the token a device has. *)
LEMMA QuietInv ==
    ASSUME IInv, NEW r \in Requests, NEW k \in {Idle} \cup Request,
           request' = [request EXCEPT ![r] = k],
           kept' \in [Sessions -> Tokens \cup {None}],
           UNCHANGED <<session, aged, born, current, spent, family, index, issued>>
    PROVE  IInv'
<1>1. TypeOK'
  BY DEF IInv, TypeOK
<1>2. Live' \ aged' \subseteq index'
  BY DEF IInv, LiveSessionsAreListed, Live
<1> QED BY <1>1, <1>2, LessInv

(* Reading, answering, giving up: nothing in Redis changes.                *)
LEMMA QuietSteps ==
    ASSUME IInv, NEW r \in Requests,
           \/ \E old \in Tokens : RotateSpent(r, old)
           \/ Answer(r) \/ AnswerTooLate(r)
           \/ \E s \in Sessions : Logout(r, s) \/ ReadFamily(r, s)
           \/ LogoutAll(r) \/ End(r)
    PROVE  IInv'
<1>1. TypeOK /\ kept \in [Sessions -> Tokens \cup {None}]
  BY DEF IInv, TypeOK
<1>2. ASSUME NEW old \in Tokens, RotateSpent(r, old)
      PROVE  IInv'
  <2> DEFINE k == [pc |-> "revoke", victims |-> {spent[old]}, signing |-> FALSE, alarm |-> TRUE]
  <2>1. spent[old] \in Sessions
    BY <1>1, <1>2 DEF RotateSpent, TypeOK
  <2>2. k \in Request /\ request' = [request EXCEPT ![r] = k]
    BY <1>2, <2>1 DEF RotateSpent, Request
  <2> HIDE DEF k
  <2> QED BY <1>1, <1>2, <2>2, QuietInv DEF RotateSpent
<1>3. CASE Answer(r)
  <2>1. request[r].session \in Sessions /\ request[r].token \in Tokens
    BY <1>1, <1>3, ActiveRequest DEF Answer, Idle
  <2>2. kept' \in [Sessions -> Tokens \cup {None}]
    BY <1>1, <1>3, <2>1 DEF Answer
  <2> QED BY <1>3, <2>2, QuietInv DEF Answer
<1>4. CASE AnswerTooLate(r)
  <2> DEFINE k == [pc |-> "revoke", victims |-> {request[r].session}, signing |-> FALSE,
                   alarm |-> FALSE]
  <2>1. k \in Request /\ request' = [request EXCEPT ![r] = k]
    BY <1>1, <1>4, ActiveRequest DEF AnswerTooLate, Idle, Request
  <2> HIDE DEF k
  <2> QED BY <1>1, <1>4, <2>1, QuietInv DEF AnswerTooLate
<1>5. ASSUME NEW s \in Sessions, Logout(r, s)
      PROVE  IInv'
  <2> DEFINE k == [pc |-> "revoke", victims |-> {s}, signing |-> FALSE, alarm |-> FALSE]
  <2>1. k \in Request /\ request' = [request EXCEPT ![r] = k]
    BY <1>5 DEF Logout, Request
  <2> HIDE DEF k
  <2> QED BY <1>1, <1>5, <2>1, QuietInv DEF Logout
<1>6. ASSUME NEW s \in Sessions, ReadFamily(r, s)
      PROVE  IInv'
  <2> DEFINE m == request[r]
             k == [pc |-> "delete", victims |-> m.victims, signing |-> m.signing,
                   alarm |-> m.alarm, victim |-> s, hashes |-> family[s],
                   found |-> s \in Live]
  <2>1. m.victims \subseteq Sessions /\ m.signing \in BOOLEAN /\ m.alarm \in BOOLEAN
    BY <1>1, <1>6, ActiveRequest DEF ReadFamily, Idle
  <2>2. family[s] \subseteq Tokens /\ (s \in Live) \in BOOLEAN
    BY <1>1 DEF TypeOK
  <2>3. request' = [request EXCEPT ![r] = k]
    BY <1>6 DEF ReadFamily
  <2> HIDE DEF m
  <2>4. k \in Request
    BY <2>1, <2>2 DEF Request
  <2> HIDE DEF k
  <2> QED BY <1>1, <1>6, <2>3, <2>4, QuietInv DEF ReadFamily
<1>7. CASE LogoutAll(r)
  <2> DEFINE k == [pc |-> "revoke", victims |-> index, signing |-> FALSE, alarm |-> FALSE]
  <2>1. k \in Request /\ request' = [request EXCEPT ![r] = k]
    BY <1>1, <1>7 DEF LogoutAll, Request, TypeOK
  <2> HIDE DEF k
  <2> QED BY <1>1, <1>7, <2>1, QuietInv DEF LogoutAll
<1>8. CASE End(r)
  BY <1>1, <1>8, QuietInv DEF End
<1> QED BY <1>2, <1>3, <1>4, <1>5, <1>6, <1>7, <1>8

(* A sign-in that looks at the account's sessions drops the dead ones from *)
(* the list, and only those.                                               *)
LEMMA SignInInv ==
    ASSUME IInv, NEW r \in Requests, SignIn(r)
    PROVE  IInv'
<1> DEFINE k == [pc |-> "revoke", victims |-> Evicted, signing |-> TRUE, alarm |-> FALSE]
<1>1. /\ request' = [request EXCEPT ![r] = k] /\ index' = index \cap Live
      /\ UNCHANGED <<session, aged, born, current, spent, family, issued, kept>>
  BY DEF SignIn, Listed
<1>2. k \in Request
  BY DEF Request, Evicted, Listed, Live
<1> HIDE DEF k
<1>3. TypeOK'
  BY <1>1, <1>2 DEF IInv, TypeOK
<1>4. Live' \ aged' \subseteq index'
  BY <1>1 DEF IInv, LiveSessionsAreListed, Live
<1> QED BY <1>1, <1>3, <1>4, LessInv

(* A token of a session that is gone is used up.                           *)
LEMMA RotateOrphanInv ==
    ASSUME IInv, NEW r \in Requests, NEW old \in Tokens, RotateOrphan(r, old)
    PROVE  IInv'
<1>1. /\ current' = [current EXCEPT ![old] = None]
      /\ UNCHANGED <<session, aged, born, spent, family, index, issued, kept, request>>
  BY DEF RotateOrphan
<1>2. TypeOK' /\ \A t \in Tokens : current'[t] = current[t] \/ current'[t] = None
  BY <1>1 DEF IInv, TypeOK
<1>3. Live' \ aged' \subseteq index'
  BY <1>1 DEF IInv, LiveSessionsAreListed, Live
<1> QED BY <1>1, <1>2, <1>3, LessInv

(* A revoked session leaves the list when it goes.                         *)
LEMMA DeleteInv ==
    ASSUME IInv, NEW r \in Requests, Delete(r)
    PROVE  IInv'
<1> DEFINE m == request[r]
           k == [pc |-> "revoke", victims |-> m.victims \ {m.victim},
                 signing |-> m.signing, alarm |-> m.alarm]
<1>1. /\ TypeOK /\ m.victim \in Sessions /\ m.victims \subseteq Sessions
      /\ m.signing \in BOOLEAN /\ m.alarm \in BOOLEAN
  BY ActiveRequest DEF IInv, Delete, Idle
<1>2. /\ current' = [t \in Tokens |-> IF t \in m.hashes THEN None ELSE current[t]]
      /\ spent' = [t \in Tokens |-> IF t \in m.hashes THEN None ELSE spent[t]]
      /\ family' = [family EXCEPT ![m.victim] = {}]
      /\ session' = [session EXCEPT ![m.victim] = "gone"]
      /\ index' = IF m.found THEN index \ {m.victim} ELSE index
      /\ request' = [request EXCEPT ![r] = k]
      /\ UNCHANGED <<aged, born, issued, kept>>
  BY DEF Delete
<1> HIDE DEF m
<1>3. k \in Request
  BY <1>1 DEF Request
<1> HIDE DEF k
<1>4. TypeOK'
  BY <1>1, <1>2, <1>3 DEF TypeOK
<1>5. \A s \in Sessions : session'[s] = session[s] \/ session'[s] = "gone"
  BY <1>1, <1>2 DEF TypeOK
<1>6. \A t \in Tokens : /\ current'[t] = current[t] \/ current'[t] = None
                        /\ spent'[t] = spent[t] \/ spent'[t] = None
  BY <1>2
<1>7. Live' \subseteq Live \ {m.victim}
  BY <1>1, <1>2 DEF Live, TypeOK
<1>8. Live' \ aged' \subseteq index'
  BY <1>2, <1>7 DEF IInv, LiveSessionsAreListed
<1> QED BY <1>2, <1>4, <1>5, <1>6, <1>8, LessInv

(* A new session has the one token issued with it, and is on the list.     *)
LEMMA CreateSessionInv ==
    ASSUME IInv, NEW r \in Requests, NEW s \in Sessions, NEW t \in Tokens,
           CreateSession(r, s, t)
    PROVE  IInv'
<1>1. /\ TypeOK /\ session[s] = "unminted" /\ t \notin issued
      /\ session' = [session EXCEPT ![s] = "live"]
      /\ born' = [born EXCEPT ![s] = Cardinality(Minted)]
      /\ current' = [current EXCEPT ![t] = s]
      /\ family' = [family EXCEPT ![s] = {t}]
      /\ index' = index \cup {s}
      /\ issued' = issued \cup {t}
      /\ kept' = [kept EXCEPT ![s] = t]
      /\ request' = [request EXCEPT ![r] = Idle]
      /\ UNCHANGED <<aged, spent>>
  BY DEF IInv, CreateSession
<1>2. Cardinality(Minted) \in Nat
  <2>1. Minted \subseteq Sessions
    BY DEF Minted
  <2> QED BY <2>1, SessionsAssumption, FS_Subset, FS_CardinalityType
<1> DEFINE c == Cardinality(Minted)
<1>3. c \in Nat /\ born' = [born EXCEPT ![s] = c]
  BY <1>1, <1>2
<1> HIDE DEF c
<1>4. TypeOK'
  BY <1>1, <1>3 DEF TypeOK
<1>5. /\ current'[t] = s /\ \A u \in Tokens : u # t => current'[u] = current[u]
      /\ session'[s] = "live" /\ \A x \in Sessions : x # s => session'[x] = session[x]
  BY <1>1 DEF TypeOK
<1>6. /\ current[t] = None /\ spent[t] = None
      /\ \A u \in Tokens : current[u] # None => current[u] \in Sessions /\ current[u] # s
  BY <1>1 DEF IInv, TokensLeadSomewhere, TypeOK
<1>7. OneCurrentToken'
  BY <1>1, <1>5, <1>6 DEF IInv, OneCurrentToken, Live
<1>8. TokensLeadSomewhere'
  BY <1>1, <1>5, <1>6 DEF IInv, TokensLeadSomewhere
<1>9. LiveSessionsAreListed'
  BY <1>1, <1>5 DEF IInv, LiveSessionsAreListed, Live
<1> QED BY <1>4, <1>7, <1>8, <1>9 DEF IInv

(* A rotation takes one token of a live session and gives another.         *)
LEMMA RotateInv ==
    ASSUME IInv, NEW r \in Requests, NEW old \in Tokens, NEW new \in Tokens,
           Rotate(r, old, new)
    PROVE  IInv'
<1> DEFINE s == current[old]
           k == [pc |-> "rotated", session |-> s, token |-> new, late |-> s \in aged]
<1>1. /\ TypeOK /\ new \notin issued /\ s \in Live /\ s \in Sessions
      /\ current' = [current EXCEPT ![old] = None, ![new] = s]
      /\ spent' = [spent EXCEPT ![old] = s]
      /\ family' = [family EXCEPT ![s] = @ \cup {new}]
      /\ issued' = issued \cup {new}
      /\ request' = [request EXCEPT ![r] = k]
      /\ UNCHANGED <<session, aged, born, index, kept>>
  BY DEF IInv, Rotate, Live
<1>2. k \in Request
  BY <1>1 DEF Request
<1>3. s # None /\ old \in issued /\ old # new
  BY <1>1, NoneIsNoSession DEF IInv, TokensLeadSomewhere
<1>4. /\ current[new] = None /\ spent[new] = None /\ current[old] = s
  BY <1>1 DEF IInv, TokensLeadSomewhere
<1> HIDE DEF k, s
<1>5. TypeOK'
  BY <1>1, <1>2 DEF TypeOK
<1>6. /\ current'[old] = None /\ current'[new] = s
      /\ \A t \in Tokens : t \notin {old, new} => current'[t] = current[t]
      /\ spent'[old] = s /\ \A t \in Tokens : t # old => spent'[t] = spent[t]
      /\ Live' = Live
  BY <1>1, <1>3 DEF TypeOK, Live
<1>7. \A t \in Tokens : current[t] = s => t = old
  BY <1>1, <1>3, <1>4 DEF IInv, OneCurrentToken
<1>8. OneCurrentToken'
  BY <1>4, <1>6, <1>7 DEF IInv, OneCurrentToken
<1>9. session[s] # "unminted"
  BY <1>1 DEF Live
<1>10. TokensLeadSomewhere'
  BY <1>1, <1>3, <1>6, <1>9 DEF IInv, TokensLeadSomewhere
<1>11. LiveSessionsAreListed'
  BY <1>1, <1>6 DEF IInv, LiveSessionsAreListed
<1> QED BY <1>5, <1>8, <1>10, <1>11 DEF IInv

(* Every step keeps the invariant.                                         *)
LEMMA NextInv == IInv /\ [Next]_vars => IInv'
<1> SUFFICES ASSUME IInv, [Next]_vars
             PROVE  IInv'
  OBVIOUS
<1>1. CASE UNCHANGED vars
  BY <1>1 DEF vars, IInv, TypeOK, OneCurrentToken, LiveSessionsAreListed,
     TokensLeadSomewhere, Live
<1>2. ASSUME NEW r \in Requests, NEW s \in Sessions,
             Logout(r, s) \/ ReadFamily(r, s)
      PROVE  IInv'
  BY <1>2, QuietSteps
<1>3. ASSUME NEW r \in Requests, NEW old \in Tokens,
             RotateOrphan(r, old) \/ RotateSpent(r, old)
      PROVE  IInv'
  BY <1>3, QuietSteps, RotateOrphanInv
<1>4. ASSUME NEW r \in Requests,
             Answer(r) \/ AnswerTooLate(r) \/ LogoutAll(r) \/ End(r) \/ SignIn(r) \/ Delete(r)
      PROVE  IInv'
  BY <1>4, QuietSteps, SignInInv, DeleteInv
<1>5. ASSUME (\E s \in Sessions : Age(s) \/ Forget(s)) \/ ForgetIndex
      PROVE  IInv'
  BY <1>5, ForgettingInv
<1> QED BY <1>1, <1>2, <1>3, <1>4, <1>5, CreateSessionInv, RotateInv DEF Next

(* IInv is an invariant: sessions, tokens and the list always agree.       *)
THEOREM Invariant == Spec => []IInv
BY InitInv, NextInv, PTL DEF Spec

(* What Redis holds always has its types: no session comes to live without *)
(* being created.                                                          *)
THEOREM TypeCorrect == Spec => []TypeOK
<1>1. IInv => TypeOK
  BY DEF IInv
<1> QED BY <1>1, Invariant, PTL

(* A live session has at most one token that can be rotated, and a spent   *)
(* token cannot be.                                                        *)
THEOREM SingleToken == Spec => []OneCurrentToken
<1>1. IInv => OneCurrentToken
  BY DEF IInv
<1> QED BY <1>1, Invariant, PTL

(* Signing out everywhere reaches every session that has not expired.      *)
THEOREM NoHiddenSession == Spec => []LiveSessionsAreListed
<1>1. IInv => LiveSessionsAreListed
  BY DEF IInv
<1> QED BY <1>1, Invariant, PTL

(* Revoked sessions stay revoked, and used-up tokens used up.              *)
THEOREM Revocation == Spec => RevokedStaysRevoked
<1> DEFINE Stays == /\ \A s \in Sessions : session[s] = "gone" => session'[s] = "gone"
                    /\ \A t \in issued : current[t] = None => current'[t] = None
<1>1. IInv /\ [Next]_vars => Stays
  <2> SUFFICES ASSUME IInv, [Next]_vars
               PROVE  Stays
    OBVIOUS
  <2>1. TypeOK /\ issued \subseteq Tokens
    BY DEF IInv, TypeOK
  <2>2. ASSUME NEW r \in Requests, NEW s \in Sessions, NEW t \in Tokens, CreateSession(r, s, t)
        PROVE  Stays
    BY <2>1, <2>2 DEF CreateSession, TypeOK
  <2>3. ASSUME NEW r \in Requests, NEW old \in Tokens, NEW new \in Tokens, Rotate(r, old, new)
        PROVE  Stays
    BY <2>1, <2>3 DEF Rotate, TypeOK
  <2>4. ASSUME NEW r \in Requests, Delete(r)
        PROVE  Stays
    BY <2>1, <2>4 DEF Delete, TypeOK
  <2>5. ASSUME NEW s \in Sessions, Forget(s)
        PROVE  Stays
    BY <2>1, <2>5 DEF Forget, TypeOK
  <2>6. ASSUME NEW r \in Requests, NEW old \in Tokens, RotateOrphan(r, old)
        PROVE  Stays
    BY <2>1, <2>6 DEF RotateOrphan, TypeOK
  <2>7. ASSUME UNCHANGED <<session, current>>
        PROVE  Stays
    BY <2>7
  <2> HIDE DEF Stays
  <2> QED BY <2>2, <2>3, <2>4, <2>5, <2>6, <2>7 DEF Next, vars, Age, ForgetIndex, SignIn,
         RotateSpent, Answer, AnswerTooLate, Logout, LogoutAll, ReadFamily, End
<1>2. Spec => [][Stays]_vars
  BY <1>1, Invariant, PTL DEF Spec
<1> QED BY <1>2 DEF RevokedStaysRevoked

-----------------------------------------------------------------------------
(* A set of numbers has a least one.                                       *)
LEMMA Least ==
    ASSUME NEW T \in SUBSET Nat, T # {}
    PROVE  \E x \in T : \A y \in T : x <= y
<1> DEFINE R == {ss \in Nat \X Nat : ss[1] < ss[2]}
<1>1. IsWellFoundedOn(R, Nat)
  BY NatLessThanWellFounded, Zenon DEF OpToRel
<1>2. PICK x \in T : \A y \in T : <<y, x>> \notin R
  <2> HIDE DEF R
  <2> QED BY <1>1, WFMin
<1>3. \A y \in T : ~(y < x)
  <2> SUFFICES ASSUME NEW y \in T
               PROVE  ~(y < x)
    OBVIOUS
  <2>1. <<y, x>> \notin R /\ <<y, x>> \in Nat \X Nat
    BY <1>2
  <2>2. <<y, x>>[1] = y /\ <<y, x>>[2] = x
    OBVIOUS
  <2> QED BY <2>1, <2>2
<1> QED BY <1>3

(* Sets of sessions and of requests can be counted.                        *)
LEMMA Countable ==
    /\ \A S \in SUBSET Sessions : IsFiniteSet(S) /\ Cardinality(S) \in Nat
    /\ \A S, T \in SUBSET Sessions : S \subseteq T => Cardinality(S) <= Cardinality(T)
    /\ \A A \in SUBSET Requests : /\ IsFiniteSet(A) /\ Cardinality(A) \in Nat
                                  /\ Cardinality(A) <= Cardinality(Requests)
    /\ Cardinality(Requests) \in Nat
BY SessionsAssumption, RequestsAssumption, FS_Subset, FS_CardinalityType

(* An eviction leaves room for one session.                                *)
LEMMA EvictionLeavesRoom ==
    ASSUME TypeOK, BornInOrder
    PROVE  Cardinality(Listed \ Evicted) <= MaxSessions - 1
<1> DEFINE T == Listed \ Evicted
           Newer(s) == {x \in Listed : born[x] > born[s]}
<1>1. T \subseteq Sessions /\ Listed \subseteq Sessions /\ Listed \subseteq Minted
  BY DEF Listed, Live, Minted
<1>2. CASE T = {}
  BY <1>2, FS_EmptySet, MaxSessionsAssumption
<1>3. CASE T # {}
  <2>1. PICK s \in T : \A t \in T : born[s] <= born[t]
    <3> DEFINE B == {born[t] : t \in T}
    <3>1. B \in SUBSET Nat /\ B # {}
      BY <1>1, <1>3 DEF TypeOK
    <3> HIDE DEF B
    <3>2. PICK b \in B : \A y \in B : b <= y
      BY <3>1, Least
    <3> QED BY <3>2 DEF B
  <2>2. T \ {s} \subseteq Newer(s)
    <3> SUFFICES ASSUME NEW t \in T, t # s
                 PROVE  t \in Listed /\ born[t] > born[s]
      OBVIOUS
    <3>1. born[t] # born[s] /\ born[s] <= born[t]
      BY <1>1, <2>1 DEF BornInOrder
    <3>2. born[t] \in Nat /\ born[s] \in Nat
      BY <1>1 DEF TypeOK
    <3> QED BY <3>1, <3>2
  <2>3. s \in Listed /\ Cardinality(Newer(s)) + 1 < MaxSessions
    <3>1. s \in Listed /\ ~(Cardinality(Newer(s)) + 1 >= MaxSessions)
      BY DEF Evicted
    <3>2. Newer(s) \in SUBSET Sessions
      BY <1>1
    <3> HIDE DEF Newer
    <3> QED BY <3>1, <3>2, Countable, MaxSessionsAssumption
  <2>4. Cardinality(T \ {s}) <= Cardinality(Newer(s))
    <3>1. T \ {s} \in SUBSET Sessions /\ Newer(s) \in SUBSET Sessions
      BY <1>1
    <3> QED BY <2>2, <3>1, Countable
  <2>5. Cardinality(T \ {s}) = Cardinality(T) - 1 /\ Cardinality(T) \in Nat
    BY <1>1, <2>1, Countable, FS_RemoveElement
  <2>6. Cardinality(Newer(s)) \in Nat
    <3>1. Newer(s) \in SUBSET Sessions
      BY <1>1
    <3> HIDE DEF Newer
    <3> QED BY <3>1, Countable
  <2> HIDE DEF T, Newer
  <2>7. Cardinality(T) <= MaxSessions - 1
    BY <2>3, <2>4, <2>5, <2>6, MaxSessionsAssumption
  <2> QED BY <2>7 DEF T
<1> QED BY <1>2, <1>3

(* No session, no request.                                                 *)
LEMMA InitLimit == Init => LimitIInv
<1> SUFFICES ASSUME Init PROVE LimitIInv
  OBVIOUS
<1>1. Minted = {} /\ Live = {} /\ Signing = {}
  BY DEF Init, Minted, Live, Signing, Revoking, Idle
<1>2. BornInOrder /\ OnlyMinted
  BY <1>1 DEF Init, BornInOrder, OnlyMinted, Revoking, Idle
<1>3. RoomLeft
  <2> SUFFICES ASSUME NEW A \in SUBSET Signing
               PROVE  Cardinality((Live \ aged) \ Doomed(A)) + Cardinality(A)
                        <= MaxSessions + Cardinality(Requests) - 1
    BY DEF RoomLeft
  <2>1. (Live \ aged) \ Doomed(A) = {} /\ A = {}
    BY <1>1
  <2>2. Cardinality({}) = 0 /\ Cardinality(Requests) \in Nat
    BY FS_EmptySet, Countable
  <2> QED BY <2>1, <2>2, MaxSessionsAssumption
<1> QED BY <1>2, <1>3, InitInv DEF LimitIInv

(* Only a creation mints a session, and it is the youngest.                *)
LEMMA BirthsKept ==
    ASSUME LimitIInv, TypeOK', [Next]_vars
    PROVE  BornInOrder' /\ Minted \subseteq Minted'
<1>0. TypeOK /\ BornInOrder /\ OnlyMinted
  BY DEF LimitIInv, IInv
<1>1. CASE UNCHANGED born /\ Minted' = Minted
  BY <1>0, <1>1 DEF BornInOrder
<1>2. ASSUME UNCHANGED <<session, born>>
      PROVE  BornInOrder' /\ Minted \subseteq Minted'
  BY <1>1, <1>2 DEF Minted
<1>3. ASSUME NEW s \in Sessions, Forget(s)
      PROVE  BornInOrder' /\ Minted \subseteq Minted'
  BY <1>0, <1>1, <1>3 DEF Forget, Minted, Live, TypeOK
<1>4. ASSUME NEW r \in Requests, Delete(r)
      PROVE  BornInOrder' /\ Minted \subseteq Minted'
  <2>1. request[r].victim \in Minted
    BY <1>0, <1>4 DEF Delete, OnlyMinted, Revoking
  <2>2. Minted' = Minted
    BY <1>0, <1>4, <2>1 DEF Delete, Minted, TypeOK
  <2> QED BY <1>1, <1>4, <2>2 DEF Delete
<1>5. ASSUME NEW r \in Requests, NEW s \in Sessions, NEW t \in Tokens, CreateSession(r, s, t)
      PROVE  BornInOrder' /\ Minted \subseteq Minted'
  <2>1. s \notin Minted /\ Minted' = Minted \cup {s} /\ Minted \in SUBSET Sessions
    BY <1>0, <1>5 DEF CreateSession, Minted, TypeOK
  <2>2. Cardinality(Minted') = Cardinality(Minted) + 1 /\ Cardinality(Minted) \in Nat
    BY <2>1, Countable, FS_AddElement
  <2>3. born'[s] = Cardinality(Minted) /\ \A x \in Minted : born'[x] = born[x]
    BY <1>0, <1>5, <2>1 DEF CreateSession, TypeOK
  <2>4. \A x \in Minted : born[x] \in Nat /\ born[x] < Cardinality(Minted)
    BY <1>0, <2>1 DEF BornInOrder, TypeOK
  <2> QED BY <1>0, <2>1, <2>2, <2>3, <2>4 DEF BornInOrder
<1> QED
  BY <1>2, <1>3, <1>4, <1>5
     DEF Next, vars, Age, ForgetIndex, SignIn, Rotate, RotateOrphan, RotateSpent, Answer,
         AnswerTooLate, Logout, LogoutAll, ReadFamily, End

(* What a request is about to delete exists, or existed.                   *)
LEMMA MintedKept ==
    ASSUME LimitIInv, TypeOK', [Next]_vars
    PROVE  OnlyMinted'
<1>0. TypeOK /\ OnlyMinted /\ TokensLeadSomewhere /\ Minted \subseteq Minted' /\ Live \subseteq Minted
  BY BirthsKept DEF LimitIInv, IInv, Live, Minted
<1> DEFINE Fine(k) == /\ k.pc \in {"revoke", "delete"} => k.victims \subseteq Minted'
                      /\ k.pc = "delete" => k.victim \in k.victims
<1>1. \A r \in Requests : Fine(request[r])
  BY <1>0 DEF OnlyMinted, Revoking
<1>2. ASSUME index' \subseteq Minted',
             \A t \in Tokens : spent'[t] # None => spent'[t] \in Minted',
             \A r \in Requests : request'[r] = request[r] \/ Fine(request'[r])
      PROVE  OnlyMinted'
  BY <1>1, <1>2 DEF OnlyMinted, Revoking
<1>3. ASSUME UNCHANGED request,
             index' \subseteq index, \A t \in Tokens : spent'[t] \in {spent[t], None}
      PROVE  OnlyMinted'
  <2> HIDE DEF Fine
  <2> QED BY <1>0, <1>2, <1>3 DEF OnlyMinted
<1>4. ASSUME NEW r \in Requests, NEW k, Fine(k), request' = [request EXCEPT ![r] = k],
             index' \subseteq index \cup Live',
             \A t \in Tokens : spent'[t] \in {spent[t], None} \/ spent'[t] \in Live
      PROVE  OnlyMinted'
  <2>1. \A x \in Requests : request'[x] = request[x] \/ request'[x] = k
    BY <1>0, <1>4 DEF TypeOK
  <2>2. Live' \subseteq Minted'
    BY DEF Live, Minted
  <2> HIDE DEF Fine
  <2> QED BY <1>0, <1>2, <1>4, <2>1, <2>2 DEF OnlyMinted
<1>5. ASSUME (\E s \in Sessions : Age(s) \/ Forget(s)) \/ ForgetIndex \/ UNCHANGED vars
      PROVE  OnlyMinted'
  <2> HIDE DEF Fine
  <2> QED BY <1>3, <1>5 DEF Age, Forget, ForgetIndex, vars
<1>6. ASSUME NEW r \in Requests, SignIn(r) PROVE OnlyMinted'
  <2>1. Evicted \subseteq Minted'
    BY <1>0 DEF Evicted, Listed
  <2> DEFINE k == [pc |-> "revoke", victims |-> Evicted, signing |-> TRUE, alarm |-> FALSE]
  <2>2. Fine(k)
    BY <2>1
  <2>3. request' = [request EXCEPT ![r] = k] /\ index' \subseteq index /\ spent' = spent
    BY <1>6 DEF SignIn, Listed
  <2> HIDE DEF Fine, k
  <2> QED BY <1>4, <2>2, <2>3
<1>7. ASSUME NEW r \in Requests, NEW s \in Sessions, NEW t \in Tokens, CreateSession(r, s, t)
      PROVE  OnlyMinted'
  <2>1. Fine(Idle)
    BY DEF Idle
  <2>2. index' \subseteq index \cup Live'
    BY <1>0, <1>7 DEF CreateSession, Live, TypeOK
  <2> HIDE DEF Fine
  <2> QED BY <1>4, <1>7, <2>1, <2>2 DEF CreateSession
<1>8. ASSUME NEW r \in Requests, NEW old \in Tokens, NEW new \in Tokens, Rotate(r, old, new)
      PROVE  OnlyMinted'
  <2> DEFINE k == [pc |-> "rotated", session |-> current[old], token |-> new,
                   late |-> current[old] \in aged]
  <2>1. Fine(k)
    OBVIOUS
  <2>2. /\ request' = [request EXCEPT ![r] = k] /\ index' \subseteq index
        /\ \A t \in Tokens : spent'[t] = spent[t] \/ spent'[t] \in Live
    BY <1>0, <1>8 DEF Rotate, TypeOK
  <2> HIDE DEF Fine, k
  <2> QED BY <1>4, <2>1, <2>2
<1>9. ASSUME NEW r \in Requests, NEW old \in Tokens, RotateOrphan(r, old) \/ RotateSpent(r, old)
      PROVE  OnlyMinted'
  <2> DEFINE k == [pc |-> "revoke", victims |-> {spent[old]}, signing |-> FALSE, alarm |-> TRUE]
  <2>1. CASE RotateOrphan(r, old)
    <3> HIDE DEF Fine, k
    <3> QED BY <1>3, <2>1 DEF RotateOrphan
  <2>2. CASE RotateSpent(r, old)
    <3>1. Fine(k)
      BY <1>0, <2>2 DEF RotateSpent, OnlyMinted
    <3>2. request' = [request EXCEPT ![r] = k] /\ index' = index /\ spent' = spent
      BY <2>2 DEF RotateSpent
    <3> HIDE DEF Fine, k
    <3> QED BY <1>4, <3>1, <3>2
  <2> QED BY <1>9, <2>1, <2>2
<1>10. ASSUME NEW r \in Requests, Answer(r) \/ AnswerTooLate(r) \/ End(r)
       PROVE  OnlyMinted'
  <2> DEFINE k == [pc |-> "revoke", victims |-> {request[r].session}, signing |-> FALSE,
                   alarm |-> FALSE]
  <2>1. Fine(Idle)
    BY DEF Idle
  <2>2. AnswerTooLate(r) => Fine(k)
    BY <1>0 DEF AnswerTooLate
  <2>3. AnswerTooLate(r) => request' = [request EXCEPT ![r] = k] /\ index' = index /\ spent' = spent
    BY DEF AnswerTooLate
  <2> HIDE DEF Fine, k
  <2> QED BY <1>4, <1>10, <2>1, <2>2, <2>3 DEF Answer, End
<1>11. ASSUME NEW r \in Requests, NEW s \in Sessions, Logout(r, s) PROVE OnlyMinted'
  <2> DEFINE k == [pc |-> "revoke", victims |-> {s}, signing |-> FALSE, alarm |-> FALSE]
  <2>1. Fine(k)
    BY <1>0, <1>11 DEF Logout
  <2>2. request' = [request EXCEPT ![r] = k] /\ index' = index /\ spent' = spent
    BY <1>11 DEF Logout
  <2> HIDE DEF Fine, k
  <2> QED BY <1>4, <2>1, <2>2
<1>12. ASSUME NEW r \in Requests, LogoutAll(r) PROVE OnlyMinted'
  <2> DEFINE k == [pc |-> "revoke", victims |-> index, signing |-> FALSE, alarm |-> FALSE]
  <2>1. Fine(k)
    BY <1>0 DEF OnlyMinted
  <2>2. request' = [request EXCEPT ![r] = k] /\ index' = index /\ spent' = spent
    BY <1>12 DEF LogoutAll
  <2> HIDE DEF Fine, k
  <2> QED BY <1>4, <2>1, <2>2
<1>13. ASSUME NEW r \in Requests, NEW s \in Sessions, ReadFamily(r, s) PROVE OnlyMinted'
  <2> DEFINE m == request[r]
             k == [pc |-> "delete", victims |-> m.victims, signing |-> m.signing,
                   alarm |-> m.alarm, victim |-> s, hashes |-> family[s], found |-> s \in Live]
  <2>1. m.pc = "revoke" /\ s \in m.victims /\ Fine(m)
    BY <1>1, <1>13 DEF ReadFamily
  <2>2. Fine(k)
    BY <2>1
  <2>3. request' = [request EXCEPT ![r] = k] /\ index' = index /\ spent' = spent
    BY <1>13 DEF ReadFamily
  <2> HIDE DEF Fine, k
  <2> QED BY <1>4, <2>2, <2>3
<1>14. ASSUME NEW r \in Requests, Delete(r) PROVE OnlyMinted'
  <2> DEFINE m == request[r]
             k == [pc |-> "revoke", victims |-> m.victims \ {m.victim},
                   signing |-> m.signing, alarm |-> m.alarm]
  <2>1. m.pc = "delete" /\ Fine(m)
    BY <1>1, <1>14 DEF Delete
  <2>2. Fine(k)
    BY <2>1
  <2>3. /\ request' = [request EXCEPT ![r] = k] /\ index' \subseteq index
        /\ \A t \in Tokens : spent'[t] \in {spent[t], None}
    BY <1>14 DEF Delete
  <2> HIDE DEF Fine, k
  <2> QED BY <1>4, <2>2, <2>3
<1> HIDE DEF Fine
<1> QED
  BY <1>5, <1>6, <1>7, <1>8, <1>9, <1>10, <1>11, <1>12, <1>13, <1>14 DEF Next

(* Fewer sign-ins, and fewer sessions that nobody is about to evict, leave *)
(* more room.                                                              *)
LEMMA MoreRoom ==
    ASSUME RoomLeft, NEW A \in SUBSET Signing,
           (Live' \ aged') \ Doomed(A)' \subseteq (Live \ aged) \ Doomed(A)
    PROVE  Cardinality((Live' \ aged') \ Doomed(A)') + Cardinality(A)
             <= MaxSessions + Cardinality(Requests) - 1
<1> DEFINE old == (Live \ aged) \ Doomed(A)
           new == (Live' \ aged') \ Doomed(A)'
<1>1. old \in SUBSET Sessions /\ new \in SUBSET Sessions /\ A \in SUBSET Requests
  BY DEF Live, Signing
<1>2. Cardinality(old) + Cardinality(A) <= MaxSessions + Cardinality(Requests) - 1
  BY DEF RoomLeft
<1>3. new \subseteq old
  OBVIOUS
<1> HIDE DEF old, new
<1>4. Cardinality(new) <= Cardinality(old) /\ Cardinality(new) \in Nat /\ Cardinality(old) \in Nat
      /\ Cardinality(A) \in Nat /\ Cardinality(Requests) \in Nat
  BY <1>1, <1>3, Countable
<1>5. Cardinality(new) + Cardinality(A) <= MaxSessions + Cardinality(Requests) - 1
  BY <1>2, <1>4, MaxSessionsAssumption
<1> QED BY <1>5 DEF new

LEMMA RoomStays ==
    ASSUME RoomLeft, Signing' \subseteq Signing,
           \A A \in SUBSET Signing' :
             (Live' \ aged') \ Doomed(A)' \subseteq (Live \ aged) \ Doomed(A)
    PROVE  RoomLeft'
<1> SUFFICES ASSUME NEW A \in SUBSET Signing'
             PROVE  Cardinality((Live' \ aged') \ Doomed(A)') + Cardinality(A)
                      <= MaxSessions + Cardinality(Requests) - 1
  BY DEF RoomLeft
<1> QED BY MoreRoom

(* A request that begins or goes on without signing in dooms nobody.       *)
LEMMA RoomByRequest ==
    ASSUME TypeOK, RoomLeft, NEW r \in Requests, NEW k, request' = [request EXCEPT ![r] = k],
           Live' \subseteq Live, aged \subseteq aged',
           k.pc \notin {"revoke", "delete"} \/ ~k.signing
    PROVE  RoomLeft'
<1>1. r \notin Signing' /\ \A x \in Requests \ {r} : request'[x] = request[x]
  BY DEF Signing, Revoking, TypeOK
<1>2. Signing' \subseteq Signing
  BY <1>1 DEF Signing, Revoking
<1>3. \A A \in SUBSET Signing' : Doomed(A)' = Doomed(A)
  BY <1>1 DEF Doomed, Signing
<1> QED BY <1>2, <1>3, RoomStays

(* A sign-in dooms enough to make room for itself beside the others.       *)
LEMMA RoomForSignIn ==
    ASSUME IInv, BornInOrder, RoomLeft, NEW r \in Requests, SignIn(r)
    PROVE  RoomLeft'
<1> SUFFICES ASSUME NEW A \in SUBSET Signing'
             PROVE  Cardinality((Live' \ aged') \ Doomed(A)') + Cardinality(A)
                      <= MaxSessions + Cardinality(Requests) - 1
  BY DEF RoomLeft
<1>1. /\ TypeOK /\ Live \ aged \subseteq Listed
      /\ Live' = Live /\ aged' = aged
  BY DEF IInv, LiveSessionsAreListed, Listed, SignIn, Live
<1>2. /\ \A x \in Requests \ {r} : request'[x] = request[x]
      /\ request'[r].victims = Evicted
  BY <1>1 DEF SignIn, TypeOK
<1>3. CASE r \in A
  <2> DEFINE new == (Live' \ aged') \ Doomed(A)'
  <2>1. new \subseteq Listed \ Evicted
    BY <1>1, <1>2, <1>3 DEF Doomed
  <2>2. new \in SUBSET Sessions /\ Listed \ Evicted \in SUBSET Sessions /\ A \in SUBSET Requests
    BY DEF Live, Listed, Signing
  <2> HIDE DEF new
  <2>3. /\ Cardinality(new) <= Cardinality(Listed \ Evicted)
        /\ Cardinality(new) \in Nat /\ Cardinality(Listed \ Evicted) \in Nat
        /\ Cardinality(A) \in Nat /\ Cardinality(Requests) \in Nat
        /\ Cardinality(A) <= Cardinality(Requests)
    BY <2>1, <2>2, Countable
  <2>4. Cardinality(new) + Cardinality(A) <= MaxSessions + Cardinality(Requests) - 1
    BY <1>1, <2>3, EvictionLeavesRoom, MaxSessionsAssumption
  <2> QED BY <2>4 DEF new
<1>4. CASE r \notin A
  <2>1. A \in SUBSET Signing /\ Doomed(A)' = Doomed(A)
    BY <1>2, <1>4 DEF Signing, Revoking, Doomed
  <2> QED BY <1>1, <2>1, MoreRoom
<1> QED BY <1>3, <1>4

(* A creation takes the room its sign-in kept.                             *)
LEMMA RoomForCreation ==
    ASSUME TypeOK, RoomLeft, NEW r \in Requests, NEW s \in Sessions, NEW t \in Tokens,
           CreateSession(r, s, t)
    PROVE  RoomLeft'
<1> SUFFICES ASSUME NEW A \in SUBSET Signing'
             PROVE  Cardinality((Live' \ aged') \ Doomed(A)') + Cardinality(A)
                      <= MaxSessions + Cardinality(Requests) - 1
  BY DEF RoomLeft
<1> DEFINE B == A \cup {r}
           old == (Live \ aged) \ Doomed(B)
           new == (Live' \ aged') \ Doomed(A)'
<1>1. /\ r \in Signing /\ request[r].victims = {} /\ request'[r] = Idle
      /\ \A x \in Requests \ {r} : request'[x] = request[x]
      /\ Live' \subseteq Live \cup {s} /\ aged' = aged
  BY DEF CreateSession, Signing, Revoking, TypeOK, Live
<1>2. r \notin A /\ A \subseteq Signing /\ B \in SUBSET Signing
  BY <1>1 DEF Signing, Revoking, Idle
<1>3. Doomed(A)' = Doomed(A) /\ Doomed(B) = Doomed(A)
  BY <1>1, <1>2 DEF Doomed, Signing
<1>4. new \subseteq old \cup {s} /\ old \in SUBSET Sessions /\ new \in SUBSET Sessions
      /\ A \in SUBSET Requests /\ old \cup {s} \in SUBSET Sessions
  BY <1>1, <1>2, <1>3 DEF Live, Signing
<1>5. Cardinality(old) + Cardinality(B) <= MaxSessions + Cardinality(Requests) - 1
  BY <1>2 DEF RoomLeft
<1>6. Cardinality(B) = Cardinality(A) + 1
  BY <1>2, <1>4, Countable, FS_AddElement
<1> HIDE DEF old, new, B
<1>7. Cardinality(old \cup {s}) <= Cardinality(old) + 1
  BY <1>4, Countable, FS_AddElement
<1>8. /\ Cardinality(new) <= Cardinality(old \cup {s})
      /\ Cardinality(new) \in Nat /\ Cardinality(old) \in Nat /\ Cardinality(A) \in Nat
      /\ Cardinality(old \cup {s}) \in Nat /\ Cardinality(Requests) \in Nat
  BY <1>4, Countable
<1>9. Cardinality(new) + Cardinality(A) <= MaxSessions + Cardinality(Requests) - 1
  BY <1>5, <1>6, <1>7, <1>8, MaxSessionsAssumption
<1> QED BY <1>9 DEF new

(* A deletion doomed the session it deletes.                               *)
LEMMA RoomForDeletion ==
    ASSUME TypeOK, RoomLeft, NEW r \in Requests, Delete(r)
    PROVE  RoomLeft'
<1> DEFINE m == request[r]
<1>1. m.pc = "delete" /\ m.victim \in Sessions
  BY ActiveRequest DEF Delete, Idle
<1>2. /\ request'[r].pc = "revoke" /\ request'[r].signing = m.signing
      /\ request'[r].victims = m.victims \ {m.victim}
      /\ \A x \in Requests \ {r} : request'[x] = request[x]
      /\ Live' = Live \ {m.victim} /\ aged' = aged
  BY <1>1 DEF Delete, TypeOK, Live
<1> HIDE DEF m
<1>3. Signing' \subseteq Signing
  BY <1>1, <1>2 DEF Signing, Revoking, m
<1>4. ASSUME NEW A \in SUBSET Signing'
      PROVE  (Live' \ aged') \ Doomed(A)' \subseteq (Live \ aged) \ Doomed(A)
  <2>1. \A x \in A : request[x].victims \ {m.victim} \subseteq request'[x].victims
    BY <1>2 DEF Signing, m
  <2> QED BY <1>2, <2>1 DEF Doomed
<1> QED BY <1>3, <1>4, RoomStays

(* Reading a family changes nobody's intentions.                           *)
LEMMA RoomForReading ==
    ASSUME TypeOK, RoomLeft, NEW r \in Requests, NEW s \in Sessions, ReadFamily(r, s)
    PROVE  RoomLeft'
<1>1. /\ request'[r].signing = request[r].signing /\ request'[r].victims = request[r].victims
      /\ request[r].pc = "revoke"
      /\ \A x \in Requests \ {r} : request'[x] = request[x]
      /\ Live' = Live /\ aged' = aged
  BY DEF ReadFamily, TypeOK, Live
<1>2. Signing' \subseteq Signing
  BY <1>1 DEF Signing, Revoking
<1>3. \A A \in SUBSET Signing' : Doomed(A)' = Doomed(A)
  BY <1>1 DEF Doomed, Signing
<1> QED BY <1>1, <1>2, <1>3, RoomStays

LEMMA LimitStep == LimitIInv /\ [Next]_vars => LimitIInv'
<1> SUFFICES ASSUME LimitIInv, [Next]_vars PROVE LimitIInv'
  OBVIOUS
<1>1. IInv /\ IInv' /\ TypeOK /\ TypeOK' /\ BornInOrder /\ RoomLeft
  BY NextInv DEF LimitIInv, IInv
<1>2. BornInOrder' /\ OnlyMinted'
  BY <1>1, BirthsKept, MintedKept
<1>3. ASSUME UNCHANGED request, Live' \subseteq Live, aged \subseteq aged'
      PROVE  RoomLeft'
  <2>1. Signing' = Signing /\ \A A : Doomed(A)' = Doomed(A)
    BY <1>3 DEF Signing, Revoking, Doomed
  <2> QED BY <1>1, <1>3, <2>1, RoomStays
<1>4. ASSUME (\E s \in Sessions : Age(s) \/ Forget(s)) \/ ForgetIndex \/ UNCHANGED vars
      PROVE  RoomLeft'
  <2>1. UNCHANGED request /\ aged \subseteq aged'
    BY <1>4 DEF Age, Forget, ForgetIndex, vars
  <2>2. \A s \in Sessions : session'[s] \in {session[s], "gone"}
    BY <1>1, <1>4 DEF Age, Forget, ForgetIndex, vars, TypeOK
  <2>3. Live' \subseteq Live
    BY <2>2 DEF Live
  <2> QED BY <1>3, <2>1, <2>3
<1>5. ASSUME NEW r \in Requests, NEW old \in Tokens, NEW new \in Tokens, Rotate(r, old, new)
      PROVE  RoomLeft'
  BY <1>1, <1>5, RoomByRequest DEF Rotate, Live
<1>6. ASSUME NEW r \in Requests, NEW old \in Tokens, RotateOrphan(r, old) \/ RotateSpent(r, old)
      PROVE  RoomLeft'
  BY <1>1, <1>3, <1>6, RoomByRequest DEF RotateOrphan, RotateSpent, Live
<1>7. ASSUME NEW r \in Requests, Answer(r) \/ AnswerTooLate(r) \/ LogoutAll(r) \/ End(r)
      PROVE  RoomLeft'
  BY <1>1, <1>7, RoomByRequest DEF Answer, AnswerTooLate, LogoutAll, End, Live, Idle
<1>8. ASSUME NEW r \in Requests, NEW s \in Sessions, Logout(r, s)
      PROVE  RoomLeft'
  BY <1>1, <1>8, RoomByRequest DEF Logout, Live
<1>9. ASSUME NEW r \in Requests, SignIn(r) \/ Delete(r)
      PROVE  RoomLeft'
  BY <1>1, <1>9, RoomForSignIn, RoomForDeletion
<1>10. ASSUME NEW r \in Requests, NEW s \in Sessions, NEW t \in Tokens, CreateSession(r, s, t)
       PROVE  RoomLeft'
  BY <1>1, <1>10, RoomForCreation
<1>11. ASSUME NEW r \in Requests, NEW s \in Sessions, ReadFamily(r, s)
       PROVE  RoomLeft'
  BY <1>1, <1>11, RoomForReading
<1>12. RoomLeft'
  BY <1>4, <1>5, <1>6, <1>7, <1>8, <1>9, <1>10, <1>11 DEF Next
<1> QED BY <1>1, <1>2, <1>12 DEF LimitIInv

(* The device limit holds up to the sign-ins that are under way at once,   *)
(* however they list, evict and create around each other (issueSession).   *)
THEOREM BoundedDevices == Spec => []DeviceLimit
<1>1. LimitIInv => DeviceLimit
  <2> SUFFICES ASSUME LimitIInv PROVE DeviceLimit
    OBVIOUS
  <2>1. Cardinality((Live \ aged) \ Doomed({})) + Cardinality({})
          <= MaxSessions + Cardinality(Requests) - 1
    BY DEF LimitIInv, RoomLeft
  <2>2. (Live \ aged) \ Doomed({}) = Live \ aged /\ Cardinality({}) = 0
    BY FS_EmptySet DEF Doomed
  <2>3. Cardinality(Live \ aged) \in Nat
    <3>1. Live \ aged \in SUBSET Sessions
      BY DEF Live
    <3> QED BY <3>1, Countable
  <2> QED BY <2>1, <2>2, <2>3 DEF DeviceLimit
<1>2. Spec => []LimitIInv
  BY InitLimit, LimitStep, PTL DEF Spec
<1> QED BY <1>1, <1>2, PTL

-----------------------------------------------------------------------------

(* The calls that are on their way to count a failed guess.                *)
Guessing == {"malformed", "begun", "wrong"}

Guessers == {c \in Calls : call[c].at \in Guessing}

(* The failures counted and those still to be counted never exceed the     *)
(* bound together: a call starts to guess only below the limit.            *)
FailuresBounded == attempts + Cardinality(Guessers) <= VerifyAttempts + Cardinality(Calls) - 1

Holds(c, x) == call[c].at \in {"taken", "cleared"} /\ call[c].stored = x

(* A code is in one place: stored, with one call that took it, or used up. *)
StoredIsUnused ==
    otp # NoCode => /\ otp \in minted /\ usedUp[otp] = 0
                    /\ \A c \in Calls : ~Holds(c, otp)

TakenIsUnused ==
    \A c \in Calls, x \in Codes : Holds(c, x) => x \in minted /\ usedUp[x] = 0

OneTaker == \A c, d \in Calls, x \in Codes : Holds(c, x) /\ Holds(d, x) => c = d

CodesIInv ==
    /\ CodesTypeOK
    /\ FailuresBounded
    /\ StoredIsUnused
    /\ TakenIsUnused
    /\ OneTaker
    /\ OneSignInPerCode

LEMMA InitCodes == CodesInit => CodesIInv
<1> SUFFICES ASSUME CodesInit PROVE CodesIInv
  OBVIOUS
<1>1. CodesTypeOK
  BY LimitsAssumption DEF CodesInit, CodesTypeOK, Call
<1>2. FailuresBounded
  <2>1. Guessers = {}
    BY DEF CodesInit, Guessers, Guessing, NoCall
  <2>2. Cardinality(Calls) \in Nat /\ Cardinality(Calls) # 0
    BY CallsAssumption, FS_CardinalityType, FS_EmptySet
  <2>3. Cardinality(Guessers) = 0
    BY <2>1, FS_EmptySet
  <2> QED
    BY <2>2, <2>3, LimitsAssumption DEF CodesInit, FailuresBounded
<1>3. StoredIsUnused /\ TakenIsUnused /\ OneTaker
  BY DEF CodesInit, StoredIsUnused, TakenIsUnused, OneTaker, Holds, NoCall
<1>4. OneSignInPerCode
  BY DEF CodesInit, OneSignInPerCode
<1> QED
  BY <1>1, <1>2, <1>3, <1>4 DEF CodesIInv

-----------------------------------------------------------------------------
LEMMA TypesKept == CodesTypeOK /\ [CodesNext]_codesVars => CodesTypeOK'
<1> SUFFICES ASSUME CodesTypeOK, [CodesNext]_codesVars PROVE CodesTypeOK'
  OBVIOUS
<1> USE LimitsAssumption, CodesAssumption DEF CodesTypeOK, Goes
<1>1. CASE UNCHANGED codesVars
  BY <1>1 DEF codesVars
<1>2. CASE CodeExpires \/ WindowEnds \/ HourEnds
  BY <1>2 DEF CodeExpires, WindowEnds, HourEnds
<1>3. ASSUME NEW c \in Calls, Allow(c) \/ MayBeSent(c) PROVE CodesTypeOK'
  BY <1>3 DEF Allow, MayBeSent, Call, NoCall
<1>4. ASSUME NEW c \in Calls, NEW x \in Codes, PutOTP(c, x) PROVE CodesTypeOK'
  BY <1>4 DEF PutOTP, Call
<1>5. ASSUME NEW c \in Calls, Begin(c) PROVE CodesTypeOK'
  BY <1>5 DEF Begin, Call
<1>6. ASSUME NEW c \in Calls, PeekOTP(c) PROVE CodesTypeOK'
  <2>1. call[c] \in [at : {"begun", "wrong"}, code : Codes \cup {Guess}]
    BY <1>6 DEF PeekOTP, Call, NoCall
  <2>2. otp = call[c].code => call[c].code \in Codes
    BY <2>1
  <2>3. [at |-> IF otp = call[c].code THEN "matched" ELSE "wrong", code |-> call[c].code] \in Call
    BY <2>1, <2>2 DEF Call
  <2> QED
    BY <1>6, <2>3 DEF PeekOTP
<1>7. ASSUME NEW c \in Calls, RecordFailure(c) \/ DeleteOTP(c) PROVE CodesTypeOK'
  BY <1>7 DEF RecordFailure, DeleteOTP, Call
<1>8. ASSUME NEW c \in Calls, TakeOTP(c) PROVE CodesTypeOK'
  <2>1. call[c].at = "matched" /\ call[c] \in [at : {"matched"}, code : Codes]
    BY <1>8 DEF TakeOTP, Call, NoCall
  <2>2. otp # NoCode => [at |-> "taken", code |-> call[c].code, stored |-> otp] \in Call
    BY <2>1 DEF Call
  <2> QED
    BY <1>8, <2>2 DEF TakeOTP, Call
<1>9. ASSUME NEW c \in Calls, ClearAttempts(c) \/ EnsureUser(c) PROVE CodesTypeOK'
  <2>1. call[c] \in [at : {"taken", "cleared"}, code : Codes, stored : Codes]
    BY <1>9 DEF ClearAttempts, EnsureUser, Call, NoCall
  <2>2. [call[c] EXCEPT !.at = "cleared"] \in Call
    BY <2>1 DEF Call
  <2>3. usedUp[call[c].stored] + 1 \in Nat /\ submitted[call[c].code] + 1 \in Nat
    BY <2>1
  <2> QED
    BY <1>9, <2>1, <2>2, <2>3 DEF ClearAttempts, EnsureUser, Call
<1>10. ASSUME NEW c \in Calls, CallEnds(c) PROVE CodesTypeOK'
  BY <1>10 DEF CallEnds, Call
<1> QED
  BY <1>1, <1>2, <1>3, <1>4, <1>5, <1>6, <1>7, <1>8, <1>9, <1>10 DEF CodesNext

-----------------------------------------------------------------------------
LEMMA GuessersCounted ==
    ASSUME CodesTypeOK
    PROVE  /\ IsFiniteSet(Guessers) /\ Cardinality(Guessers) \in Nat
           /\ Cardinality(Calls) \in Nat
           /\ Cardinality(Guessers) <= Cardinality(Calls)
  BY CallsAssumption, FS_Subset, FS_CardinalityType DEF Guessers

LEMMA BoundKept ==
    CodesTypeOK /\ CodesTypeOK' /\ FailuresBounded /\ [CodesNext]_codesVars => FailuresBounded'
<1> SUFFICES ASSUME CodesTypeOK, CodesTypeOK', FailuresBounded, [CodesNext]_codesVars
             PROVE  FailuresBounded'
  OBVIOUS
<1> DEFINE counted == Cardinality(Guessers)
<1>1. /\ IsFiniteSet(Guessers) /\ counted \in Nat /\ counted' \in Nat
      /\ Cardinality(Calls) \in Nat /\ counted' <= Cardinality(Calls)
      /\ attempts \in Nat /\ attempts' \in Nat
  BY GuessersCounted, CallsAssumption, FS_Subset, FS_CardinalityType DEF Guessers, CodesTypeOK
<1>2. CASE Guessers' \subseteq Guessers /\ attempts' <= attempts
  <2>1. counted' <= counted
    BY <1>1, <1>2, FS_Subset
  <2> QED
    BY <1>1, <1>2, <2>1, LimitsAssumption DEF FailuresBounded
<1>3. ASSUME NEW c \in Calls, Begin(c) PROVE FailuresBounded'
  BY <1>1, <1>3, LimitsAssumption DEF FailuresBounded, Begin
<1>4. ASSUME NEW c \in Calls, RecordFailure(c) PROVE FailuresBounded'
  <2>1. c \in Guessers
    BY <1>4 DEF RecordFailure, Guessers, Guessing
  <2>2. Guessers' = Guessers \ {c}
    BY <1>4 DEF RecordFailure, Goes, Guessers, Guessing, NoCall, CodesTypeOK
  <2>3. counted' = counted - 1
    BY <1>1, <2>1, <2>2, FS_RemoveElement
  <2> QED
    BY <1>1, <1>4, <2>3, LimitsAssumption DEF RecordFailure, FailuresBounded
<1>5. CASE UNCHANGED codesVars \/ CodeExpires \/ WindowEnds \/ HourEnds
  BY <1>2, <1>5 DEF codesVars, CodeExpires, WindowEnds, HourEnds, Guessers, CodesTypeOK
<1>6. ASSUME NEW c \in Calls,
             \/ Allow(c) \/ MayBeSent(c) \/ \E x \in Codes : PutOTP(c, x)
             \/ PeekOTP(c) \/ DeleteOTP(c) \/ TakeOTP(c)
             \/ ClearAttempts(c) \/ EnsureUser(c) \/ CallEnds(c)
      PROVE  FailuresBounded'
  <2>1. call'[c].at \in Guessing => call[c].at \in Guessing
    BY <1>6 DEF Allow, MayBeSent, PutOTP, PeekOTP, DeleteOTP, TakeOTP, ClearAttempts,
                EnsureUser, CallEnds, Goes, Guessing, NoCall, CodesTypeOK, Call
  <2>2. \A d \in Calls \ {c} : call'[d] = call[d]
    BY <1>6 DEF Allow, MayBeSent, PutOTP, PeekOTP, DeleteOTP, TakeOTP, ClearAttempts,
                EnsureUser, CallEnds, Goes, CodesTypeOK
  <2>3. attempts' <= attempts
    BY <1>1, <1>6 DEF Allow, MayBeSent, PutOTP, PeekOTP, DeleteOTP, TakeOTP, ClearAttempts,
                      EnsureUser, CallEnds
  <2> QED
    BY <1>2, <2>1, <2>2, <2>3 DEF Guessers
<1> QED
  BY <1>3, <1>4, <1>5, <1>6 DEF CodesNext

-----------------------------------------------------------------------------
(* Only TakeOTP gives a call a code to hold, and only EnsureUser uses one  *)
(* up; what the others do to a call, it holds no other code for it.        *)
LEMMA UseKept ==
    CodesIInv /\ CodesTypeOK' /\ [CodesNext]_codesVars
        => StoredIsUnused' /\ TakenIsUnused' /\ OneTaker' /\ OneSignInPerCode'
<1> SUFFICES ASSUME CodesIInv, CodesTypeOK', [CodesNext]_codesVars
             PROVE  StoredIsUnused' /\ TakenIsUnused' /\ OneTaker' /\ OneSignInPerCode'
  OBVIOUS
<1>0. CodesTypeOK /\ StoredIsUnused /\ TakenIsUnused /\ OneTaker /\ OneSignInPerCode
  BY DEF CodesIInv
<1>1. CASE /\ otp' \in {otp, NoCode} /\ UNCHANGED <<minted, usedUp>>
           /\ \A c \in Calls, x \in Codes : Holds(c, x)' => Holds(c, x)
  BY <1>0, <1>1 DEF StoredIsUnused, TakenIsUnused, OneTaker, OneSignInPerCode, CodesTypeOK
<1>2. CASE UNCHANGED codesVars \/ CodeExpires \/ WindowEnds \/ HourEnds
  BY <1>1, <1>2 DEF codesVars, CodeExpires, WindowEnds, HourEnds, Holds
<1>3. ASSUME NEW c \in Calls,
             \/ Allow(c) \/ MayBeSent(c) \/ Begin(c) \/ PeekOTP(c) \/ RecordFailure(c)
             \/ DeleteOTP(c) \/ ClearAttempts(c) \/ CallEnds(c)
      PROVE  StoredIsUnused' /\ TakenIsUnused' /\ OneTaker' /\ OneSignInPerCode'
  <2>1. \A x \in Codes : Holds(c, x)' => Holds(c, x)
    BY <1>0, <1>3 DEF Allow, MayBeSent, Begin, PeekOTP, RecordFailure, DeleteOTP,
                      ClearAttempts, CallEnds, Goes, Holds, NoCall, CodesTypeOK, Call
  <2>2. \A d \in Calls \ {c} : call'[d] = call[d]
    BY <1>0, <1>3 DEF Allow, MayBeSent, Begin, PeekOTP, RecordFailure, DeleteOTP,
                      ClearAttempts, CallEnds, Goes, CodesTypeOK
  <2>3. otp' \in {otp, NoCode} /\ UNCHANGED <<minted, usedUp>>
    BY <1>3 DEF Allow, MayBeSent, Begin, PeekOTP, RecordFailure, DeleteOTP,
                ClearAttempts, CallEnds
  <2> QED
    BY <1>1, <2>1, <2>2, <2>3 DEF Holds
<1>4. ASSUME NEW c \in Calls, NEW x \in Codes, PutOTP(c, x)
      PROVE  StoredIsUnused' /\ TakenIsUnused' /\ OneTaker' /\ OneSignInPerCode'
  <2>1. /\ x \notin minted /\ minted' = minted \cup {x}
        /\ otp' = x /\ usedUp' = usedUp
    BY <1>4 DEF PutOTP
  <2>2. usedUp[x] = 0 /\ \A d \in Calls : ~Holds(d, x)
    BY <1>0, <2>1 DEF OneSignInPerCode, TakenIsUnused, CodesTypeOK
  <2>3. \A d \in Calls, y \in Codes : Holds(d, y)' => Holds(d, y)
    BY <1>0, <1>4 DEF PutOTP, Goes, Holds, NoCall, CodesTypeOK
  <2> QED
    BY <1>0, <2>1, <2>2, <2>3
       DEF StoredIsUnused, TakenIsUnused, OneTaker, OneSignInPerCode, CodesTypeOK
<1>5. ASSUME NEW c \in Calls, TakeOTP(c)
      PROVE  StoredIsUnused' /\ TakenIsUnused' /\ OneTaker' /\ OneSignInPerCode'
  <2>1. otp' = NoCode /\ minted' = minted /\ usedUp' = usedUp
    BY <1>5 DEF TakeOTP
  <2>2. \A d \in Calls, y \in Codes :
          Holds(d, y)' => (Holds(d, y) /\ d # c) \/ (d = c /\ y = otp /\ otp # NoCode)
    BY <1>0, <1>5 DEF TakeOTP, Goes, Holds, NoCall, CodesTypeOK
  <2> QED
    BY <1>0, <2>1, <2>2
       DEF StoredIsUnused, TakenIsUnused, OneTaker, OneSignInPerCode, CodesTypeOK
<1>6. ASSUME NEW c \in Calls, EnsureUser(c)
      PROVE  StoredIsUnused' /\ TakenIsUnused' /\ OneTaker' /\ OneSignInPerCode'
  <2>1. PICK x \in Codes : x = call[c].stored /\ Holds(c, x)
    BY <1>0, <1>6 DEF EnsureUser, Goes, Holds, CodesTypeOK, Call, NoCall
  <2>2. /\ otp' = otp /\ minted' = minted
        /\ usedUp' = [usedUp EXCEPT ![x] = @ + 1]
    BY <1>6, <2>1 DEF EnsureUser
  <2>3. \A d \in Calls, y \in Codes : Holds(d, y)' => Holds(d, y) /\ d # c
    BY <1>0, <1>6 DEF EnsureUser, Goes, Holds, NoCall, CodesTypeOK
  <2>4. x \in minted /\ usedUp[x] = 0 /\ otp # x
    BY <1>0, <2>1, CodesAssumption DEF TakenIsUnused, StoredIsUnused
  <2>5. usedUp'[x] = 1 /\ \A y \in Codes \ {x} : usedUp'[y] = usedUp[y]
    BY <1>0, <2>1, <2>2, <2>4 DEF CodesTypeOK
  <2>6. \A d \in Calls : ~Holds(d, x)'
    BY <1>0, <2>1, <2>3 DEF OneTaker
  <2> QED
    BY <1>0, <2>2, <2>3, <2>4, <2>5, <2>6
       DEF StoredIsUnused, TakenIsUnused, OneTaker, OneSignInPerCode, CodesTypeOK
<1> QED
  BY <1>2, <1>3, <1>4, <1>5, <1>6 DEF CodesNext

-----------------------------------------------------------------------------
LEMMA CodesStep == CodesIInv /\ [CodesNext]_codesVars => CodesIInv'
  BY TypesKept, BoundKept, UseKept DEF CodesIInv

(* The inductive invariant of the codes.                                   *)
THEOREM CodesInvariant == CodesSpec => []CodesIInv
  BY InitCodes, CodesStep, PTL DEF CodesSpec

(* However many calls guess at once, the failures counted stay within the  *)
(* limit and the calls under way (verify_otp.go, Execute).                 *)
THEOREM BoundedGuesses == CodesSpec => []GuessesAreCounted
<1>1. CodesIInv => GuessesAreCounted
  <2> SUFFICES ASSUME CodesIInv PROVE GuessesAreCounted
    OBVIOUS
  <2>1. Cardinality(Guessers) \in Nat /\ Cardinality(Calls) \in Nat
    BY GuessersCounted DEF CodesIInv
  <2> QED
    BY <2>1, LimitsAssumption DEF CodesIInv, FailuresBounded, GuessesAreCounted, CodesTypeOK
<1> QED
  BY <1>1, CodesInvariant, PTL

(* A code that was sent is used up by one sign-in at most, whatever runs   *)
(* between the look at it and the take (otp_store.go, TakeOTP).            *)
THEOREM SingleUse == CodesSpec => []OneSignInPerCode
<1>1. CodesIInv => OneSignInPerCode
  BY DEF CodesIInv
<1> QED
  BY <1>1, CodesInvariant, PTL

-----------------------------------------------------------------------------
(* A set of numbers with 0 and each one's successor up to n holds all of   *)
(* 0..n.                                                                   *)
LEMMA UpTo ==
    ASSUME NEW n \in Nat, NEW T, 0 \in T, \A i \in 0..n : i \in T /\ i < n => i + 1 \in T
    PROVE  0..n \subseteq T
<1> DEFINE Bad == {i \in 0..n : i \notin T}
<1> SUFFICES ASSUME Bad # {} PROVE FALSE
  OBVIOUS
<1>1. PICK i \in Bad : \A j \in Bad : i <= j
  <2>1. Bad \in SUBSET Nat
    OBVIOUS
  <2> HIDE DEF Bad
  <2> QED BY <2>1, Least
<1>2. i \in Nat /\ i <= n /\ i # 0 /\ i - 1 \in 0..n /\ i - 1 < n /\ (i - 1) + 1 = i
  BY <1>1
<1>3. i - 1 \notin Bad
  BY <1>1, <1>2
<1> QED BY <1>1, <1>2, <1>3

-----------------------------------------------------------------------------
(* The rows among which, so far.                                           *)
AmongSoFar(rows, keep, n, f) ==
    f = [i \in 0..n |-> IF i = 0 THEN <<>>
                        ELSE IF rows[i] \in keep THEN Append(f[i - 1], rows[i]) ELSE f[i - 1]]

LEMMA AmongExists ==
    ASSUME NEW rows, NEW keep, NEW n \in Nat
    PROVE  \E f : AmongSoFar(rows, keep, n, f)
<1> DEFINE T == {m \in 0..n : \E f : AmongSoFar(rows, keep, m, f)}
<1>1. 0 \in T
  <2>1. AmongSoFar(rows, keep, 0, [i \in 0..0 |-> <<>>])
    BY DEF AmongSoFar
  <2> QED BY <2>1
<1>2. ASSUME NEW m \in 0..n, m \in T, m < n PROVE m + 1 \in T
  <2>1. PICK f : AmongSoFar(rows, keep, m, f)
    BY <1>2
  <2> DEFINE g == [i \in 0..(m + 1) |->
                     IF i = 0 THEN <<>>
                     ELSE IF rows[i] \in keep THEN Append(f[i - 1], rows[i]) ELSE f[i - 1]]
  <2>2. \A i \in 0..m : g[i] = f[i]
    <3> SUFFICES ASSUME NEW i \in 0..m PROVE g[i] = f[i]
      OBVIOUS
    <3>1. i \in 0..(m + 1)
      OBVIOUS
    <3> QED BY <2>1, <3>1 DEF AmongSoFar
  <2>3. \A i \in 0..(m + 1) : i # 0 => i - 1 \in 0..m
    OBVIOUS
  <2>4. \A i \in 0..(m + 1) : i # 0 => g[i - 1] = f[i - 1]
    BY <2>2, <2>3
  <2>5. AmongSoFar(rows, keep, m + 1, g)
    BY <2>4 DEF AmongSoFar
  <2> QED BY <1>2, <2>5
<1>3. n \in T
  <2> HIDE DEF T
  <2> QED BY <1>1, <1>2, UpTo
<1> QED BY <1>3

(* What is kept of rows is some of them, each from a place of its own, and *)
(* all that should be.                                                     *)
Picks(rows, keep, n, some) ==
    /\ some \in Seq({rows[i] : i \in 1..n} \cap keep)
    /\ \E at \in [1..Len(some) -> 1..n] :
         /\ \A j \in 1..Len(some) : some[j] = rows[at[j]]
         /\ \A j, k \in 1..Len(some) : at[j] = at[k] => j = k
    /\ \A i \in 1..n : rows[i] \in keep => \E j \in 1..Len(some) : some[j] = rows[i]

LEMMA PickOneMore ==
    ASSUME NEW rows, NEW keep, NEW n \in Nat, NEW some, Picks(rows, keep, n, some)
    PROVE  Picks(rows, keep, n + 1,
                 IF rows[n + 1] \in keep THEN Append(some, rows[n + 1]) ELSE some)
<1> DEFINE S == {rows[i] : i \in 1..n} \cap keep
           S1 == {rows[i] : i \in 1..(n + 1)} \cap keep
<1>1. PICK at \in [1..Len(some) -> 1..n] :
        /\ \A j \in 1..Len(some) : some[j] = rows[at[j]]
        /\ \A j, k \in 1..Len(some) : at[j] = at[k] => j = k
  BY DEF Picks
<1>2. some \in Seq(S) /\ Len(some) \in Nat /\ S \subseteq S1
  BY DEF Picks
<1>3. some \in Seq(S1)
  BY <1>2
<1>4. \A i \in 1..n : rows[i] \in keep => \E j \in 1..Len(some) : some[j] = rows[i]
  BY DEF Picks
<1>5. \A i \in 1..(n + 1) : i \in 1..n \/ i = n + 1
  OBVIOUS
<1>6. CASE rows[n + 1] \in keep
  <2> DEFINE more == Append(some, rows[n + 1])
             to == [j \in 1..(Len(some) + 1) |-> IF j = Len(some) + 1 THEN n + 1 ELSE at[j]]
  <2>1. rows[n + 1] \in S1
    BY <1>6
  <2>2. /\ more \in Seq(S1) /\ Len(more) = Len(some) + 1
        /\ \A j \in 1..Len(some) : more[j] = some[j]
        /\ more[Len(some) + 1] = rows[n + 1]
    <3> HIDE DEF S, S1
    <3> QED BY <1>2, <1>3, <2>1
  <2>3. \A j \in 1..(Len(some) + 1) : j \in 1..Len(some) \/ j = Len(some) + 1
    BY <1>2
  <2>4. to \in [1..Len(more) -> 1..(n + 1)]
    BY <1>1, <2>2, <2>3
  <2>5. \A j \in 1..Len(more) : more[j] = rows[to[j]]
    <3> HIDE DEF more
    <3> QED BY <1>1, <1>2, <2>2, <2>3
  <2>6. \A j, k \in 1..Len(more) : to[j] = to[k] => j = k
    <3>1. \A j \in 1..Len(some) : at[j] # n + 1
      BY <1>1
    <3> HIDE DEF more
    <3> QED BY <1>1, <1>2, <2>2, <2>3, <3>1
  <2>7. \A i \in 1..(n + 1) : rows[i] \in keep => \E j \in 1..Len(more) : more[j] = rows[i]
    <3>1. \A j \in 1..Len(some) : j \in 1..Len(more)
      BY <1>2, <2>2
    <3>2. Len(some) + 1 \in 1..Len(more)
      BY <1>2, <2>2
    <3> HIDE DEF more
    <3> QED BY <1>4, <1>5, <2>2, <3>1, <3>2
  <2>8. Picks(rows, keep, n + 1, more)
    <3> HIDE DEF more, to
    <3> QED BY <2>2, <2>4, <2>5, <2>6, <2>7 DEF Picks
  <2> QED BY <1>6, <2>8
<1>7. CASE rows[n + 1] \notin keep
  <2>1. at \in [1..Len(some) -> 1..(n + 1)]
    BY <1>1
  <2>2. \A i \in 1..(n + 1) : rows[i] \in keep => \E j \in 1..Len(some) : some[j] = rows[i]
    BY <1>4, <1>5, <1>7
  <2>3. Picks(rows, keep, n + 1, some)
    BY <1>1, <1>3, <2>1, <2>2 DEF Picks
  <2> QED BY <1>7, <2>3
<1> QED BY <1>6, <1>7

LEMMA AmongPicks ==
    ASSUME NEW rows, NEW keep, Len(rows) \in Nat
    PROVE  Picks(rows, keep, Len(rows), Among(rows, keep))
<1> DEFINE n == Len(rows)
           f == CHOOSE f : AmongSoFar(rows, keep, n, f)
           T == {i \in 0..n : Picks(rows, keep, i, f[i])}
<1>1. AmongSoFar(rows, keep, n, f)
  BY AmongExists
<1>2. Among(rows, keep) = f[n]
  BY DEF Among, AmongSoFar
<1> HIDE DEF f
<1>3. 0 \in T
  <2>1. f[0] = <<>>
    BY <1>1 DEF AmongSoFar
  <2>2. Picks(rows, keep, 0, <<>>)
    <3>1. PICK S : S = {rows[i] : i \in 1..0} \cap keep
      OBVIOUS
    <3>2. <<>> \in Seq(S) /\ Len(<<>>) = 0
      OBVIOUS
    <3>3. 1..0 = {}
      OBVIOUS
    <3>4. [j \in 1..0 |-> 0] \in [1..0 -> 1..0]
      BY <3>3
    <3> QED BY <3>1, <3>2, <3>3, <3>4 DEF Picks
  <2> QED BY <2>1, <2>2
<1>4. ASSUME NEW i \in 0..n, i \in T, i < n PROVE i + 1 \in T
  <2>1. i + 1 \in 0..n /\ i + 1 # 0 /\ (i + 1) - 1 = i
    BY <1>4
  <2>2. f[i + 1] = IF rows[i + 1] \in keep THEN Append(f[i], rows[i + 1]) ELSE f[i]
    BY <1>1, <2>1 DEF AmongSoFar
  <2>3. Picks(rows, keep, i, f[i])
    BY <1>4
  <2> QED BY <2>1, <2>2, <2>3, PickOneMore
<1>5. n \in T
  <2>1. n \in Nat /\ n \in 0..n
    OBVIOUS
  <2> HIDE DEF T, n
  <2>2. 0..n \subseteq T
    BY <1>3, <1>4, <2>1, UpTo
  <2> QED BY <2>1, <2>2
<1> QED BY <1>2, <1>5

-----------------------------------------------------------------------------
(* The books: what a row must be, in the table and in every copy of one.   *)
SoundRow(a, owner) == a \in Address /\ a.id \in DOMAIN owner /\ a.user = owner[a.id] /\ a.area # NoArea

IdsOnce(rows) == \A i, j \in DOMAIN rows : rows[i].id = rows[j].id => i = j

SoundRows(rows, owner) == rows \in Seq(Address) /\ \A i \in DOMAIN rows : SoundRow(rows[i], owner)

SoundCopy(u, book, owner) == SoundRows(book, owner) /\ \A i \in DOMAIN book : book[i].user = u

CopiesAreSound ==
    /\ device = [d \in Devices |-> device[d]]
    /\ \A d \in Devices : device[d].at \in {"saving", "writing", "deleting"} =>
                            device[d].user \in Users /\ SoundCopy(device[d].user, device[d].book, typed)

AddressesIInv == SoundRows(table, typed) /\ IdsOnce(table) /\ OneDefaultIn(table) /\ CopiesAreSound

(* A part of sound rows is sound, and has what it should.                  *)
LEMMA SoundPart ==
    ASSUME NEW owner, NEW rows, NEW keep, SoundRows(rows, owner)
    PROVE  /\ SoundRows(Among(rows, keep), owner)
           /\ \A i \in DOMAIN Among(rows, keep) : Among(rows, keep)[i] \in keep
           /\ IdsOnce(rows) => IdsOnce(Among(rows, keep))
           /\ OneDefaultIn(rows) => OneDefaultIn(Among(rows, keep))
           /\ \A i \in DOMAIN rows : rows[i] \in keep => rows[i].id \in IdsIn(Among(rows, keep))
<1>1. DOMAIN rows = 1..Len(rows) /\ Len(rows) \in Nat /\ \A i \in 1..Len(rows) : rows[i] \in Address
  BY DEF SoundRows
<1>2. PICK some : some = Among(rows, keep)
  OBVIOUS
<1>3. Picks(rows, keep, Len(rows), some)
  BY <1>1, <1>2, AmongPicks
<1>4. PICK S : S = {rows[i] : i \in 1..Len(rows)} \cap keep /\ some \in Seq(S)
  BY <1>3 DEF Picks
<1>5. DOMAIN some = 1..Len(some) /\ \A j \in 1..Len(some) : some[j] \in S
  BY <1>4
<1>6. PICK at \in [1..Len(some) -> 1..Len(rows)] :
        /\ \A j \in 1..Len(some) : some[j] = rows[at[j]]
        /\ \A j, k \in 1..Len(some) : at[j] = at[k] => j = k
  BY <1>3 DEF Picks
<1>7. SoundRows(some, owner)
  <2>1. S \subseteq Address
    BY <1>1, <1>4
  <2>2. some \in Seq(Address)
    BY <1>4, <2>1
  <2> QED BY <1>1, <1>5, <1>6, <2>2 DEF SoundRows
<1>8. \A i \in DOMAIN some : some[i] \in keep
  BY <1>4, <1>5
<1>9. IdsOnce(rows) => IdsOnce(some)
  <2> SUFFICES ASSUME IdsOnce(rows), NEW i \in DOMAIN some, NEW j \in DOMAIN some,
                      some[i].id = some[j].id
               PROVE  i = j
    BY DEF IdsOnce
  <2>1. at[i] \in DOMAIN rows /\ at[j] \in DOMAIN rows /\ some[i] = rows[at[i]] /\ some[j] = rows[at[j]]
    BY <1>1, <1>5, <1>6
  <2>2. at[i] = at[j]
    BY <2>1 DEF IdsOnce
  <2> QED BY <1>5, <1>6, <2>2
<1>10. OneDefaultIn(rows) => OneDefaultIn(some)
  <2> SUFFICES ASSUME OneDefaultIn(rows), NEW i \in DOMAIN some, NEW j \in DOMAIN some,
                      some[i].default, some[j].default, some[i].user = some[j].user
               PROVE  i = j
    BY DEF OneDefaultIn
  <2>1. at[i] \in DOMAIN rows /\ at[j] \in DOMAIN rows /\ some[i] = rows[at[i]] /\ some[j] = rows[at[j]]
    BY <1>1, <1>5, <1>6
  <2>2. at[i] = at[j]
    BY <2>1 DEF OneDefaultIn
  <2> QED BY <1>5, <1>6, <2>2
<1>11. \A i \in DOMAIN rows : rows[i] \in keep => rows[i].id \in IdsIn(some)
  <2>1. \A i \in 1..Len(rows) : rows[i] \in keep => \E j \in 1..Len(some) : some[j] = rows[i]
    BY <1>3 DEF Picks
  <2> SUFFICES ASSUME NEW i \in DOMAIN rows, rows[i] \in keep PROVE rows[i].id \in IdsIn(some)
    OBVIOUS
  <2>2. PICK j \in DOMAIN some : some[j] = rows[i]
    BY <1>1, <1>5, <2>1
  <2> QED BY <2>2 DEF IdsIn
<1> QED BY <1>2, <1>7, <1>8, <1>9, <1>10, <1>11

LEMMA Books ==
    ASSUME AddressesIInv, NEW u
    PROVE  SoundCopy(u, Book(u), typed) /\ IdsOnce(Book(u))
<1>1. SoundRows(Book(u), typed) /\ IdsOnce(Book(u))
      /\ \A i \in DOMAIN Book(u) : Book(u)[i] \in {a \in ToSet(table) : a.user = u}
  BY SoundPart DEF AddressesIInv, Book
<1> QED BY <1>1 DEF SoundCopy

(* A row with another default, and a copy with another in one place.       *)
LEMMA Marked ==
    ASSUME NEW owner, NEW a, SoundRow(a, owner), NEW b \in BOOLEAN
    PROVE  SoundRow([a EXCEPT !.default = b], owner) /\ [a EXCEPT !.default = b].user = a.user
           /\ [a EXCEPT !.default = b].id = a.id
BY DEF SoundRow, Address

LEMMA MarkedCopy ==
    ASSUME NEW owner, NEW u, NEW book, SoundCopy(u, book, owner), NEW c, c = [i \in DOMAIN book |-> c[i]],
           \A i \in DOMAIN book : \E m \in BOOLEAN : c[i] = [book[i] EXCEPT !.default = m]
    PROVE  SoundCopy(u, c, owner)
<1>1. DOMAIN book = 1..Len(book) /\ Len(book) \in Nat
  BY DEF SoundCopy, SoundRows
<1>2. ASSUME NEW i \in DOMAIN book PROVE SoundRow(c[i], owner) /\ c[i].user = u
  <2>1. PICK m \in BOOLEAN : c[i] = [book[i] EXCEPT !.default = m]
    OBVIOUS
  <2>2. PICK a : a = book[i]
    OBVIOUS
  <2>3. SoundRow(a, owner) /\ a.user = u
    BY <2>2 DEF SoundCopy, SoundRows
  <2>4. c[i] = [a EXCEPT !.default = m]
    BY <2>1, <2>2
  <2>5. SoundRow([a EXCEPT !.default = m], owner) /\ [a EXCEPT !.default = m].user = a.user
    BY <2>3, Marked, Zenon
  <2> QED BY <2>3, <2>4, <2>5, Zenon
<1>3. \A i \in 1..Len(book) : c[i] \in Address
  BY <1>1, <1>2 DEF SoundRow
<1>4. c \in Seq(Address) /\ DOMAIN c = DOMAIN book
  BY <1>1, <1>3
<1> QED BY <1>2, <1>4 DEF SoundCopy, SoundRows

LEMMA Promotions ==
    ASSUME NEW owner, NEW u, NEW book, SoundCopy(u, book, owner), NEW id, NEW wanted \in BOOLEAN
    PROVE  SoundCopy(u, ChooseDefault(book), owner) /\ SoundCopy(u, Promoted(book, id, wanted), owner)
<1>1. ASSUME NEW b, SoundCopy(u, b, owner) PROVE SoundCopy(u, ChooseDefault(b), owner)
  <2>1. PICK chosen : ChooseDefault(b) = [i \in DOMAIN b |-> [b[i] EXCEPT !.default = i = chosen]]
    BY DEF ChooseDefault
  <2>2. PICK c : c = ChooseDefault(b)
    OBVIOUS
  <2>3. c = [i \in DOMAIN b |-> c[i]]
    BY <2>1, <2>2
  <2>4. \A i \in DOMAIN b : \E m \in BOOLEAN : c[i] = [b[i] EXCEPT !.default = m]
    BY <2>1, <2>2
  <2>5. SoundCopy(u, c, owner)
    BY <1>1, <2>3, <2>4, MarkedCopy, Zenon
  <2> QED BY <2>2, <2>5
<1>2. SoundCopy(u, promote(book, id), owner)
  <2>1. PICK c : c = promote(book, id)
    OBVIOUS
  <2>2. c = [i \in DOMAIN book |-> c[i]]
    BY <2>1 DEF promote
  <2>3. \A i \in DOMAIN book : \E m \in BOOLEAN : c[i] = [book[i] EXCEPT !.default = m]
    BY <2>1 DEF promote
  <2>4. SoundCopy(u, c, owner)
    BY <2>2, <2>3, MarkedCopy, Zenon
  <2> QED BY <2>1, <2>4
<1> QED BY <1>1, <1>2 DEF Promoted

(* A device that holds another thing, over a table that is sound.          *)
LEMMA Holding ==
    ASSUME AddressesIInv, NEW d \in Devices, NEW q, device' = [device EXCEPT ![d] = q],
           SoundRows(table, typed)', IdsOnce(table)', OneDefaultIn(table)',
           \A a : SoundRow(a, typed) => SoundRow(a, typed)',
           q.at \in {"saving", "writing", "deleting"} =>
              q.user \in Users /\ SoundCopy(q.user, q.book, typed)'
    PROVE  AddressesIInv'
<1>2. device' = [x \in Devices |-> IF x = d THEN q ELSE device[x]]
  BY DEF AddressesIInv, CopiesAreSound
<1>3. ASSUME NEW x \in Devices, x # d, device[x].at \in {"saving", "writing", "deleting"}
      PROVE  device[x].user \in Users /\ SoundCopy(device[x].user, device[x].book, typed)'
  BY <1>3 DEF AddressesIInv, CopiesAreSound, SoundCopy, SoundRows
<1>4. CopiesAreSound'
  <2>1. ASSUME NEW x \in Devices, device'[x].at \in {"saving", "writing", "deleting"}
        PROVE  device'[x].user \in Users /\ SoundCopy(device[x].user, device[x].book, typed)'
    <3>1. CASE x = d
      <4>1. device'[x] = q
        BY <1>2, <3>1
      <4> QED BY <2>1, <4>1
    <3>2. CASE x # d
      <4>1. device'[x] = device[x]
        BY <1>2, <3>2
      <4>2. PICK u, b : u = device[x].user /\ b = device[x].book
        OBVIOUS
      <4>3. u \in Users /\ SoundCopy(u, b, typed)'
        BY <1>3, <2>1, <3>2, <4>1, <4>2
      <4> QED BY <4>1, <4>2, <4>3
    <3> QED BY <3>1, <3>2
  <2> QED BY <1>2, <2>1 DEF CopiesAreSound
<1> QED BY <1>4 DEF AddressesIInv

LEMMA HoldingOn ==
    ASSUME AddressesIInv, NEW d \in Devices, NEW q, device' = [device EXCEPT ![d] = q],
           UNCHANGED <<table, typed>>,
           q.at \in {"saving", "writing", "deleting"} => q.user \in Users /\ SoundCopy(q.user, q.book, typed)
    PROVE  AddressesIInv'
<1>1. SoundRows(table, typed)' /\ IdsOnce(table)' /\ OneDefaultIn(table)'
  BY DEF AddressesIInv, SoundRows, IdsOnce, OneDefaultIn
<1>2. \A a : SoundRow(a, typed) => SoundRow(a, typed)'
  OBVIOUS
<1>3. q.at \in {"saving", "writing", "deleting"} => q.user \in Users /\ SoundCopy(q.user, q.book, typed)'
  OBVIOUS
<1> QED BY <1>1, <1>2, <1>3, Holding

(* The steps that read the book into a copy.                               *)
LEMMA InitBooks == AddressesInit => AddressesIInv
<1> SUFFICES ASSUME AddressesInit PROVE AddressesIInv
  OBVIOUS
<1>1. table = <<>> /\ device = [d \in Devices |-> Away]
  BY DEF AddressesInit
<1>2. SoundRows(table, typed) /\ IdsOnce(table) /\ OneDefaultIn(table)
  BY <1>1 DEF SoundRows, IdsOnce, OneDefaultIn
<1>3. CopiesAreSound
  BY <1>1 DEF CopiesAreSound, Away
<1> QED BY <1>2, <1>3 DEF AddressesIInv

LEMMA PlacedRow ==
    ASSUME NEW u \in Users, NEW id \in Ids, NEW p \in Pins, NEW wanted \in BOOLEAN, AreaOf[p] # NoArea
    PROVE  LET a == Placed(id, u, p, wanted) IN
           a \in Address /\ a.id = id /\ a.user = u /\ a.area # NoArea
BY DEF Placed, Address

LEMMA AddBooks ==
    ASSUME AddressesIInv, NEW d \in Devices, NEW u \in Users, NEW id \in Ids, NEW p \in Pins,
           NEW wanted \in BOOLEAN, AddAddress(d, u, id, p, wanted)
    PROVE  AddressesIInv'
<1>1. PICK book, first : book = Book(u) /\ first = (wanted \/ book = <<>>)
  OBVIOUS
<1>2. first \in BOOLEAN
  BY <1>1
<1>3. PICK row : row = Placed(id, u, p, first)
  OBVIOUS
<1>4. PICK copy : copy = Promoted(Append(book, row), id, first)
  OBVIOUS
<1>5. /\ id \notin DOMAIN typed /\ AreaOf[p] # NoArea /\ table' = table
      /\ typed' = [x \in DOMAIN typed \cup {id} |-> IF x = id THEN u ELSE typed[x]]
      /\ device' = [device EXCEPT ![d] = Saving(u, copy)]
  BY <1>1, <1>3, <1>4 DEF AddAddress
<1>6. \A a : SoundRow(a, typed) => SoundRow(a, typed)'
  BY <1>5 DEF SoundRow
<1>7. row \in Address /\ row.id = id /\ row.user = u /\ row.area # NoArea
  BY <1>2, <1>3, <1>5, PlacedRow
<1>8. SoundRow(row, typed)'
  BY <1>5, <1>7 DEF SoundRow
<1>9. SoundCopy(u, Append(book, row), typed)'
  <2>1. SoundCopy(u, book, typed)
    BY <1>1, Books
  <2>2. /\ Append(book, row) \in Seq(Address) /\ DOMAIN Append(book, row) = 1..(Len(book) + 1)
        /\ Len(book) \in Nat /\ DOMAIN book = 1..Len(book)
        /\ \A i \in 1..Len(book) : Append(book, row)[i] = book[i]
        /\ Append(book, row)[Len(book) + 1] = row
    BY <1>7, <2>1 DEF SoundCopy, SoundRows
  <2>3. \A i \in DOMAIN Append(book, row) : i \in DOMAIN book \/ i = Len(book) + 1
    BY <2>2
  <2>4. \A i \in DOMAIN Append(book, row) : SoundRow(Append(book, row)[i], typed)' /\ Append(book, row)[i].user = u
    BY <1>6, <1>7, <1>8, <2>1, <2>2, <2>3 DEF SoundCopy, SoundRows
  <2> QED BY <2>2, <2>4 DEF SoundCopy, SoundRows
<1>10. SoundCopy(u, copy, typed)'
  <2>1. SoundCopy(u, Append(book, row), typed')
    BY <1>9
  <2> QED BY <1>2, <1>4, <2>1, Promotions
<1>11. SoundRows(table, typed)' /\ IdsOnce(table)' /\ OneDefaultIn(table)'
  BY <1>5, <1>6 DEF AddressesIInv, SoundRows, IdsOnce, OneDefaultIn
<1> QED BY <1>5, <1>6, <1>10, <1>11, Holding DEF Saving

LEMMA UpdateBooks ==
    ASSUME AddressesIInv, NEW d \in Devices, NEW u \in Users, NEW id \in Ids, NEW p \in Pins,
           NEW wanted \in BOOLEAN, UpdateAddress(d, u, id, p, wanted)
    PROVE  AddressesIInv'
<1>1. PICK book : book = Book(u)
  OBVIOUS
<1>2. SoundCopy(u, book, typed)
  BY <1>1, Books
<1>3. PICK i \in DOMAIN book : \E stays :
        /\ stays = (book[i].default \/ wanted) /\ book[i].id = id
        /\ device' = [device EXCEPT ![d] = Saving(u, Promoted([book EXCEPT ![i] = Placed(id, u, p, stays)], id, stays))]
  BY <1>1 DEF UpdateAddress
<1>3a. PICK stays :
        /\ stays = (book[i].default \/ wanted) /\ book[i].id = id
        /\ device' = [device EXCEPT ![d] = Saving(u, Promoted([book EXCEPT ![i] = Placed(id, u, p, stays)], id, stays))]
  BY <1>3
<1>4. stays \in BOOLEAN /\ AreaOf[p] # NoArea /\ UNCHANGED <<table, typed>>
  BY <1>3a DEF UpdateAddress
<1>5. PICK row, edited : row = Placed(id, u, p, stays) /\ edited = [book EXCEPT ![i] = row]
  OBVIOUS
<1>6. SoundRow(row, typed) /\ row.user = u
  <2>1. row \in Address /\ row.id = id /\ row.user = u /\ row.area # NoArea
    BY <1>4, <1>5, PlacedRow
  <2>2. SoundRow(book[i], typed) /\ book[i].user = u
    BY <1>2 DEF SoundCopy, SoundRows
  <2> QED BY <1>3a, <2>1, <2>2 DEF SoundRow
<1>7. SoundCopy(u, edited, typed)
  <2>1. edited \in Seq(Address) /\ DOMAIN edited = DOMAIN book
        /\ \A j \in DOMAIN book : edited[j] = IF j = i THEN row ELSE book[j]
    BY <1>2, <1>5, <1>6 DEF SoundCopy, SoundRows, SoundRow
  <2> QED BY <1>2, <1>6, <2>1 DEF SoundCopy, SoundRows
<1>8. PICK copy : copy = Promoted(edited, id, stays)
  OBVIOUS
<1>9. SoundCopy(u, copy, typed)
  BY <1>4, <1>7, <1>8, Promotions
<1>10. device' = [device EXCEPT ![d] = Saving(u, copy)]
  BY <1>3a, <1>5, <1>8
<1> QED BY <1>4, <1>9, <1>10, HoldingOn DEF Saving

LEMMA SetDefaultBooks ==
    ASSUME AddressesIInv, NEW d \in Devices, NEW u \in Users, NEW id \in Ids, SetDefault(d, u, id)
    PROVE  AddressesIInv'
<1>1. SoundCopy(u, Promoted(Book(u), id, TRUE), typed)
  BY Books, Promotions
<1>2. UNCHANGED <<table, typed>> /\ device' = [device EXCEPT ![d] = Saving(u, Promoted(Book(u), id, TRUE))]
  BY DEF SetDefault
<1> QED BY <1>1, <1>2, HoldingOn DEF Saving

LEMMA BeginDeleteBooks ==
    ASSUME AddressesIInv, NEW d \in Devices, NEW u \in Users, NEW id \in Ids, BeginDelete(d, u, id)
    PROVE  AddressesIInv'
<1>1. PICK q : q = [at |-> "deleting", user |-> u, id |-> id, book |-> Without(Book(u), u, id)]
  OBVIOUS
<1>2. UNCHANGED <<table, typed>> /\ device' = [device EXCEPT ![d] = q]
  BY <1>1 DEF BeginDelete
<1>3. SoundCopy(u, Without(Book(u), u, id), typed)
  <2>1. PICK rows, keep : rows = Book(u) /\ keep = {a \in ToSet(rows) : a.user # u \/ a.id # id}
    OBVIOUS
  <2>2. SoundRows(rows, typed) /\ \A i \in DOMAIN rows : rows[i].user = u
    BY <2>1, Books DEF SoundCopy
  <2>3. \A a \in keep : a.user = u
    BY <2>1, <2>2 DEF ToSet
  <2>4. SoundRows(Among(rows, keep), typed) /\ \A i \in DOMAIN Among(rows, keep) : Among(rows, keep)[i] \in keep
    BY <2>2, SoundPart
  <2> QED BY <2>1, <2>3, <2>4 DEF SoundCopy, Without
<1> QED BY <1>1, <1>2, <1>3, HoldingOn

LEMMA ClearBooks ==
    ASSUME AddressesIInv, NEW d \in Devices, ClearDefaults(d)
    PROVE  AddressesIInv'
<1>1. PICK k : k = device[d]
  OBVIOUS
<1>2. k.at = "saving" /\ k.user \in Users /\ SoundCopy(k.user, k.book, typed)
  BY <1>1 DEF ClearDefaults, AddressesIInv, CopiesAreSound
<1>3. PICK q : q = [at |-> "writing", user |-> k.user, book |-> k.book,
                    cleared |-> {a.id : a \in Defaults(Book(k.user))}]
  OBVIOUS
<1>4. UNCHANGED <<table, typed>> /\ device' = [device EXCEPT ![d] = q]
  BY <1>1, <1>3 DEF ClearDefaults
<1>5. q.user = k.user /\ q.book = k.book
  BY <1>3
<1>6. q.user \in Users /\ SoundCopy(q.user, q.book, typed)
  BY <1>2, <1>5
<1> QED BY <1>4, <1>6, HoldingOn

LEMMA EndBooks ==
    ASSUME AddressesIInv, NEW d \in Devices, DeviceEnds(d)
    PROVE  AddressesIInv'
<1>1. PICK q : q = Away
  OBVIOUS
<1> QED BY <1>1, HoldingOn DEF DeviceEnds, Away

(* The deletion of a row takes that row and no other.                      *)
LEMMA WithoutOne ==
    ASSUME AddressesIInv, NEW u, NEW id
    PROVE  LET rows == Without(table, u, id) IN
           /\ SoundRows(rows, typed) /\ IdsOnce(rows) /\ OneDefaultIn(rows)
           /\ IdsIn(table) \ IdsIn(rows) \subseteq {id}
<1>1. PICK keep : keep = {a \in ToSet(table) : a.user # u \/ a.id # id}
  OBVIOUS
<1>2. PICK rows : rows = Among(table, keep)
  OBVIOUS
<1>3. /\ SoundRows(rows, typed) /\ IdsOnce(rows) /\ OneDefaultIn(rows)
      /\ \A i \in DOMAIN table : table[i] \in keep => table[i].id \in IdsIn(rows)
  BY <1>2, SoundPart DEF AddressesIInv
<1>4. \A i \in DOMAIN table : table[i] \in keep \/ table[i].id = id
  BY <1>1 DEF ToSet
<1>5. IdsIn(table) \ IdsIn(rows) \subseteq {id}
  BY <1>3, <1>4 DEF IdsIn
<1>6. rows = Without(table, u, id)
  BY <1>1, <1>2 DEF Without
<1> QED BY <1>3, <1>5, <1>6

LEMMA DeleteBooks ==
    ASSUME AddressesIInv, NEW d \in Devices, DeleteAddress(d)
    PROVE  AddressesIInv' /\ IdsIn(table) \ IdsIn(table') \subseteq {device[d].id}
<1>1. PICK k : k = device[d]
  OBVIOUS
<1>2. k.at = "deleting" /\ k.user \in Users /\ SoundCopy(k.user, k.book, typed)
  BY <1>1 DEF DeleteAddress, AddressesIInv, CopiesAreSound
<1>3. PICK q : q = IF k.book = <<>> THEN Away ELSE Saving(k.user, ChooseDefault(k.book))
  OBVIOUS
<1>4. /\ table' = Without(table, k.user, k.id) /\ typed' = typed
      /\ device' = [device EXCEPT ![d] = q]
  BY <1>1, <1>3 DEF DeleteAddress
<1>5. /\ SoundRows(table, typed)' /\ IdsOnce(table)' /\ OneDefaultIn(table)'
      /\ IdsIn(table) \ IdsIn(table') \subseteq {k.id}
  BY <1>4, WithoutOne
<1>6. SoundCopy(k.user, ChooseDefault(k.book), typed')
  BY <1>2, <1>4, Promotions
<1>7. q.at \in {"saving", "writing", "deleting"} => q.user \in Users /\ SoundCopy(q.user, q.book, typed')
  BY <1>2, <1>3, <1>6 DEF Away, Saving
<1>8. AddressesIInv'
  BY <1>4, <1>5, <1>7, Holding
<1> QED BY <1>1, <1>5, <1>8

-----------------------------------------------------------------------------
(* The rows of the transaction that writes a copy back.                    *)
RowsSoFar(k, n, f) ==
    f = [i \in 0..n |-> IF i = 0 THEN Cleared(k.cleared) ELSE Upsert(f[i - 1], k.book[i])]

LEMMA RowsExist ==
    ASSUME NEW k, NEW n \in Nat
    PROVE  \E f : RowsSoFar(k, n, f)
<1> DEFINE T == {m \in 0..n : \E f : RowsSoFar(k, m, f)}
<1>1. 0 \in T
  <2>1. RowsSoFar(k, 0, [i \in 0..0 |-> Cleared(k.cleared)])
    BY DEF RowsSoFar
  <2> QED BY <2>1
<1>2. ASSUME NEW m \in 0..n, m \in T, m < n PROVE m + 1 \in T
  <2>1. PICK f : RowsSoFar(k, m, f)
    BY <1>2
  <2> DEFINE g == [i \in 0..(m + 1) |-> IF i = 0 THEN Cleared(k.cleared) ELSE Upsert(f[i - 1], k.book[i])]
  <2>2. \A i \in 0..m : g[i] = f[i]
    <3> SUFFICES ASSUME NEW i \in 0..m PROVE g[i] = f[i]
      OBVIOUS
    <3>1. i \in 0..(m + 1)
      OBVIOUS
    <3> QED BY <2>1, <3>1 DEF RowsSoFar
  <2>3. \A i \in 0..(m + 1) : i # 0 => i - 1 \in 0..m
    OBVIOUS
  <2>4. \A i \in 0..(m + 1) : i # 0 => g[i - 1] = f[i - 1]
    BY <2>2, <2>3
  <2>5. RowsSoFar(k, m + 1, g)
    BY <2>4 DEF RowsSoFar
  <2> QED BY <1>2, <2>5
<1>3. n \in T
  <2> HIDE DEF T
  <2> QED BY <1>1, <1>2, UpTo
<1> QED BY <1>3

(* A statement of it keeps the rows sound and every id that was there.     *)
LEMMA ClearedRows ==
    ASSUME AddressesIInv, NEW ids
    PROVE  SoundRows(Cleared(ids), typed) /\ IdsOnce(Cleared(ids)) /\ IdsIn(table) \subseteq IdsIn(Cleared(ids))
<1>1. PICK c : c = Cleared(ids)
  OBVIOUS
<1>2. /\ DOMAIN c = DOMAIN table /\ DOMAIN table = 1..Len(table) /\ Len(table) \in Nat
      /\ c = [i \in DOMAIN table |-> c[i]]
  BY <1>1 DEF Cleared, AddressesIInv, SoundRows
<1>3. ASSUME NEW i \in DOMAIN table PROVE SoundRow(c[i], typed) /\ c[i].id = table[i].id
  <2>1. PICK a : a = table[i]
    OBVIOUS
  <2>2. SoundRow(a, typed)
    BY <2>1 DEF AddressesIInv, SoundRows
  <2>3. PICK m \in BOOLEAN : c[i] = [a EXCEPT !.default = m]
    <3>1. c[i] = [a EXCEPT !.default = a.default /\ a.id \notin ids]
      BY <1>1, <2>1 DEF Cleared
    <3>2. CASE a.default /\ a.id \notin ids
      <4>1. (a.default /\ a.id \notin ids) = TRUE
        BY <3>2
      <4>2. c[i] = [a EXCEPT !.default = TRUE]
        BY <3>1, <4>1
      <4> QED BY <4>2
    <3>3. CASE ~(a.default /\ a.id \notin ids)
      <4>1. (a.default /\ a.id \notin ids) = FALSE
        BY <3>3
      <4>2. c[i] = [a EXCEPT !.default = FALSE]
        BY <3>1, <4>1
      <4> QED BY <4>2
    <3> QED BY <3>2, <3>3
  <2>4. SoundRow([a EXCEPT !.default = m], typed) /\ [a EXCEPT !.default = m].id = a.id
    BY <2>2, Marked, Zenon
  <2> QED BY <2>1, <2>3, <2>4, Zenon
<1>4. \A i \in 1..Len(table) : c[i] \in Address
  BY <1>2, <1>3 DEF SoundRow
<1>5. c \in Seq(Address)
  BY <1>2, <1>4
<1>6. SoundRows(c, typed)
  BY <1>2, <1>3, <1>5 DEF SoundRows
<1>7. IdsOnce(c)
  BY <1>2, <1>3 DEF IdsOnce, AddressesIInv
<1>8. IdsIn(table) \subseteq IdsIn(c)
  BY <1>2, <1>3 DEF IdsIn
<1> QED BY <1>1, <1>6, <1>7, <1>8

LEMMA UpsertedRows ==
    ASSUME NEW owner, NEW rows, SoundRows(rows, owner), IdsOnce(rows), NEW a, SoundRow(a, owner)
    PROVE  LET new == Upsert(rows, a) IN
           SoundRows(new, owner) /\ IdsOnce(new) /\ IdsIn(rows) \subseteq IdsIn(new)
<1>1. PICK new : new = Upsert(rows, a)
  OBVIOUS
<1>2. /\ rows \in Seq(Address) /\ DOMAIN rows = 1..Len(rows) /\ Len(rows) \in Nat /\ a \in Address
      /\ \A i \in DOMAIN rows : SoundRow(rows[i], owner)
  BY DEF SoundRows, SoundRow
<1>3. CASE a.id \in IdsIn(rows)
  <2>1. new = [i \in DOMAIN rows |-> IF rows[i].id = a.id THEN [a EXCEPT !.user = rows[i].user] ELSE rows[i]]
    BY <1>1, <1>3 DEF Upsert
  <2>2. ASSUME NEW i \in DOMAIN rows PROVE new[i] = IF rows[i].id = a.id THEN a ELSE rows[i]
    <3>1. rows[i].id = a.id => rows[i].user = a.user
      BY <1>2 DEF SoundRow
    <3>2. [a EXCEPT !.user = a.user] = a
      BY <1>2 DEF Address
    <3> QED BY <2>1, <3>1, <3>2
  <2>3. new = [i \in 1..Len(rows) |-> new[i]] /\ DOMAIN new = DOMAIN rows
    BY <1>2, <2>1
  <2>4. \A i \in DOMAIN rows : SoundRow(new[i], owner) /\ new[i].id = rows[i].id
    BY <1>2, <2>2
  <2>5. new \in Seq(Address)
    <3>1. \A i \in 1..Len(rows) : new[i] \in Address
      BY <1>2, <2>4 DEF SoundRow
    <3> QED BY <1>2, <2>3, <3>1
  <2>6. SoundRows(new, owner)
    BY <2>3, <2>4, <2>5 DEF SoundRows
  <2>7. IdsOnce(new)
    BY <2>3, <2>4 DEF IdsOnce
  <2>8. IdsIn(rows) \subseteq IdsIn(new)
    BY <2>3, <2>4 DEF IdsIn
  <2> QED BY <1>1, <2>6, <2>7, <2>8
<1>4. CASE a.id \notin IdsIn(rows)
  <2>1. new = Append(rows, a)
    BY <1>1, <1>4 DEF Upsert
  <2>2. /\ new \in Seq(Address) /\ DOMAIN new = 1..(Len(rows) + 1)
        /\ \A i \in 1..Len(rows) : new[i] = rows[i]
        /\ new[Len(rows) + 1] = a
    BY <1>2, <2>1
  <2>3. \A i \in DOMAIN new : i \in DOMAIN rows \/ i = Len(rows) + 1
    BY <1>2, <2>2
  <2>4. \A i \in DOMAIN rows : i \in DOMAIN new /\ new[i] = rows[i] /\ rows[i].id # a.id
    BY <1>2, <1>4, <2>2 DEF IdsIn
  <2>5. SoundRows(new, owner)
    BY <1>2, <2>2, <2>3 DEF SoundRows
  <2>6. IdsOnce(new)
    BY <2>2, <2>3, <2>4 DEF IdsOnce
  <2>7. IdsIn(rows) \subseteq IdsIn(new)
    BY <2>4 DEF IdsIn
  <2> QED BY <1>1, <2>5, <2>6, <2>7
<1> QED BY <1>3, <1>4

LEMMA WrittenRows ==
    ASSUME AddressesIInv, NEW k, SoundCopy(k.user, k.book, typed)
    PROVE  /\ DOMAIN Rows(k) = 0..Len(k.book) /\ Len(k.book) \in Nat
           /\ \A i \in 0..Len(k.book) :
                SoundRows(Rows(k)[i], typed) /\ IdsOnce(Rows(k)[i]) /\ IdsIn(table) \subseteq IdsIn(Rows(k)[i])
<1>1. PICK n \in Nat : n = Len(k.book) /\ DOMAIN k.book = 1..n
  BY DEF SoundCopy, SoundRows
<1>2. PICK f : f = Rows(k)
  OBVIOUS
<1>3. RowsSoFar(k, n, f)
  <2>1. f = CHOOSE g : RowsSoFar(k, n, g)
    BY <1>1, <1>2 DEF Rows, RowsSoFar
  <2> QED BY <2>1, RowsExist
<1>4. DOMAIN f = 0..n
  BY <1>3 DEF RowsSoFar
<1> DEFINE Fine(rows) == SoundRows(rows, typed) /\ IdsOnce(rows) /\ IdsIn(table) \subseteq IdsIn(rows)
           T == {i \in 0..n : Fine(f[i])}
<1>5. 0 \in T
  <2>1. f[0] = Cleared(k.cleared)
    BY <1>3 DEF RowsSoFar
  <2> QED BY <2>1, ClearedRows
<1>6. ASSUME NEW i \in 0..n, i \in T, i < n PROVE i + 1 \in T
  <2>1. i + 1 \in 0..n /\ i + 1 # 0 /\ (i + 1) - 1 = i /\ i + 1 \in 1..n
    BY <1>6
  <2>2. f[i + 1] = Upsert(f[i], k.book[i + 1])
    BY <1>3, <2>1 DEF RowsSoFar
  <2>3. SoundRow(k.book[i + 1], typed)
    BY <1>1, <2>1 DEF SoundCopy, SoundRows
  <2>4. Fine(f[i])
    BY <1>6
  <2>5. Fine(f[i + 1])
    BY <2>2, <2>3, <2>4, UpsertedRows
  <2> QED BY <2>1, <2>5
<1>7. 0..n \subseteq T
  <2> HIDE DEF T
  <2> QED BY <1>5, <1>6, UpTo
<1> QED BY <1>1, <1>2, <1>4, <1>7

LEMMA SaveBooks ==
    ASSUME AddressesIInv, NEW d \in Devices, SaveAddresses(d)
    PROVE  AddressesIInv' /\ IdsIn(table) \subseteq IdsIn(table')
<1>1. PICK k, rows : k = device[d] /\ rows = Rows(k)
  OBVIOUS
<1>2. k.at = "writing" /\ SoundCopy(k.user, k.book, typed)
  BY <1>1 DEF SaveAddresses, AddressesIInv, CopiesAreSound
<1>3. /\ table' = IF \A i \in DOMAIN rows : OneDefaultIn(rows[i]) THEN rows[Len(k.book)] ELSE table
      /\ typed' = typed
  BY <1>1 DEF SaveAddresses
<1>4. PICK q : q = Away
  OBVIOUS
<1>5. device' = [device EXCEPT ![d] = q] /\ q.at = "away"
  BY <1>4 DEF SaveAddresses, Away
<1>6. PICK last : last = rows[Len(k.book)]
  OBVIOUS
<1>7. /\ SoundRows(last, typed) /\ IdsOnce(last) /\ IdsIn(table) \subseteq IdsIn(last)
      /\ Len(k.book) \in DOMAIN rows
  BY <1>1, <1>2, <1>6, WrittenRows
<1>8. (table' = last /\ OneDefaultIn(last)) \/ table' = table
  BY <1>3, <1>6, <1>7
<1>9. SoundRows(table, typed)' /\ IdsOnce(table)' /\ OneDefaultIn(table)' /\ IdsIn(table) \subseteq IdsIn(table')
  BY <1>3, <1>7, <1>8 DEF AddressesIInv
<1>10. AddressesIInv'
  BY <1>3, <1>5, <1>9, Holding
<1> QED BY <1>9, <1>10

-----------------------------------------------------------------------------
LEMMA BooksNext == AddressesIInv /\ [AddressesNext]_addressesVars => AddressesIInv'
<1> SUFFICES ASSUME AddressesIInv, [AddressesNext]_addressesVars PROVE AddressesIInv'
  OBVIOUS
<1>1. ASSUME NEW d \in Devices, NEW u \in Users, NEW id \in Ids,
             \/ \E p \in Pins, wanted \in BOOLEAN : AddAddress(d, u, id, p, wanted) \/ UpdateAddress(d, u, id, p, wanted)
             \/ SetDefault(d, u, id) \/ BeginDelete(d, u, id)
      PROVE  AddressesIInv'
  BY <1>1, AddBooks, UpdateBooks, SetDefaultBooks, BeginDeleteBooks
<1>2. ASSUME NEW d \in Devices, DeleteAddress(d) \/ ClearDefaults(d) \/ SaveAddresses(d) \/ DeviceEnds(d)
      PROVE  AddressesIInv'
  BY <1>2, DeleteBooks, ClearBooks, SaveBooks, EndBooks
<1>3. CASE UNCHANGED addressesVars
  BY <1>3 DEF addressesVars, AddressesIInv, SoundRows, IdsOnce, OneDefaultIn, CopiesAreSound, SoundCopy
<1> QED BY <1>1, <1>2, <1>3 DEF AddressesNext

(* The invariant of the address books: besides what the property says,     *)
(* every copy a request holds is of sound rows of the user it is for.      *)
THEOREM BooksInvariant == AddressesSpec => []AddressesIInv
BY InitBooks, BooksNext, PTL DEF AddressesSpec

(* Whatever saves overwrite each other: an id is one row, in the book of   *)
(* the user who typed it, in an area geo found; and no book has two        *)
(* defaults (repository.go, SaveAddresses).                                *)
THEOREM SoundBooks == AddressesSpec => []BooksAreSound
<1>1. AddressesIInv => BooksAreSound
  <2> SUFFICES ASSUME AddressesIInv PROVE BooksAreSound
    OBVIOUS
  <2>1. \A a \in ToSet(table) : SoundRow(a, typed)
    BY DEF AddressesIInv, SoundRows, ToSet
  <2> QED BY <2>1 DEF AddressesIInv, IdsOnce, BooksAreSound, SoundRow
<1> QED BY <1>1, BooksInvariant, PTL

(* An address leaves the book only by a request to delete it, never        *)
(* because a copy that does not know of it was written over the book       *)
(* (repository.go, SaveAddresses; addresses.go, Delete).                   *)
THEOREM AddressesLast == AddressesSpec => NoAddressIsLost
<1> DEFINE Kept == \A a \in IdsIn(table) \ IdsIn(table') :
                     \E d \in Devices : device[d].at = "deleting" /\ device[d].id = a
<1>1. AddressesIInv /\ [AddressesNext]_addressesVars => [Kept]_addressesVars
  <2> SUFFICES ASSUME AddressesIInv, AddressesNext PROVE Kept
    OBVIOUS
  <2>1. CASE table' = table
    BY <2>1
  <2>2. ASSUME NEW d \in Devices, DeleteAddress(d) PROVE Kept
    <3>1. device[d].at = "deleting"
      BY <2>2 DEF DeleteAddress
    <3> QED BY <2>2, <3>1, DeleteBooks
  <2>3. ASSUME NEW d \in Devices, SaveAddresses(d) PROVE Kept
    BY <2>3, SaveBooks
  <2>4. ASSUME NEW d \in Devices, NEW u \in Users, NEW id \in Ids,
               \/ \E p \in Pins, wanted \in BOOLEAN : AddAddress(d, u, id, p, wanted) \/ UpdateAddress(d, u, id, p, wanted)
               \/ SetDefault(d, u, id) \/ BeginDelete(d, u, id)
        PROVE  table' = table
    BY <2>4 DEF AddAddress, UpdateAddress, SetDefault, BeginDelete
  <2>5. ASSUME NEW d \in Devices, ClearDefaults(d) \/ DeviceEnds(d) PROVE table' = table
    BY <2>5 DEF ClearDefaults, DeviceEnds
  <2> HIDE DEF Kept
  <2> QED BY <2>1, <2>2, <2>3, <2>4, <2>5 DEF AddressesNext
<1>2. AddressesSpec => [][Kept]_addressesVars
  BY <1>1, BooksInvariant, PTL DEF AddressesSpec
<1> QED BY <1>2 DEF NoAddressIsLost

=============================================================================
