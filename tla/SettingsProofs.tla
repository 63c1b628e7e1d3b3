--------------------------- MODULE SettingsProofs ---------------------------
(***************************************************************************)
(* For any settings, scopes, administrators and tuning passes: the log's   *)
(* newest entry for a setting says what is stored, a pass leaves alone the *)
(* pins that have stood since before it began, the nearest scope that says *)
(* something of a setting decides it, and the prices are fair.             *)
(***************************************************************************)
EXTENDS Settings, SequenceTheorems, FiniteSetTheorems, WellFoundedInduction, TLAPS

(* What a tuning pass has still to write: known settings, their values yet *)
(* to be checked.                                                          *)
IsMove(m) == m.key \in Key /\ m.value = Value(m.value.kind, m.value.number)

IsPlan(plan) == \E S : plan \in Seq(S) /\ \A m \in S : IsMove(m)

InPlan(q) ==
    /\ q = [pc |-> q.pc, scope |-> q.scope, plan |-> q.plan]
    /\ IsPlan(q.plan) /\ q.plan # <<>> /\ q.scope \in AnyScope

(* No pin that has stood since the pass began is at the setting it is      *)
(* about to write.                                                         *)
ClearOfPins(w, key, scope) == At(key, scope) \cap standing[w] = {}

Holds(w, q) ==
    /\ q.pc = "set" => /\ q.row \in Override /\ q.row.key \in Key /\ IsPlan(q.plan)
                       /\ InBounds(q.row.key, q.row.value)
                       /\ q.actor = "auto_tuner" => ClearOfPins(w, q.row.key, q.row.scope)
    /\ q.pc = "clear" => q.key \in Key
    /\ q.pc \in {"tuning", "unpinned"} => InPlan(q)
    /\ q.pc = "unpinned" => /\ Definitions[Head(q.plan).key].tunable
                            /\ InBounds(Head(q.plan).key, Head(q.plan).value)
                            /\ ClearOfPins(w, Head(q.plan).key, q.scope)

ChangesHold ==
    /\ change = [w \in Writers |-> change[w]]
    /\ \A w \in Writers : Holds(w, change[w])

(* What has stood is there.                                                *)
StandingIsThere == standing \in [Writers -> SUBSET rows]

NewestTell ==
    \A n \in DOMAIN log :
        \/ \E m \in DOMAIN log : m > n /\ log[m].key = log[n].key /\ log[m].scope = log[n].scope
        \/ log[n].new = CurrentValue(log[n].key, log[n].scope)

RowsAreLogged ==
    \A row \in rows \ Strays : \E n \in DOMAIN log : log[n].key = row.key /\ log[n].scope = row.scope

(* What this module wrote is a known setting within its bounds.            *)
RowsAreBounded ==
    /\ IsFiniteSet(rows)
    /\ \A row \in rows \ Strays : row.key \in Key /\ InBounds(row.key, row.value)

LogIsASequence == \E S : log \in Seq(S)

IInv ==
    /\ SettingsTypeOK /\ ChangesHold /\ StandingIsThere
    /\ LogIsASequence /\ NewestTell /\ RowsAreLogged /\ RowsAreBounded

-----------------------------------------------------------------------------
(* A value has the kind of its key, and a checked one is a number.         *)
LEMMA Parsed ==
    ASSUME NEW key \in Key, NEW number
    PROVE  /\ Parse(key, number) = Value(Definitions[key].kind, number)
           /\ number \in Int => Parse(key, number) \in [kind : Kind, number : Int]
BY RegistryAssumption DEF Parse, Value

LEMMA CheckedMove ==
    ASSUME NEW m, IsMove(m), Definitions[m.key].tunable, InBounds(m.key, m.value)
    PROVE  m.value \in [kind : Kind, number : Int]
<1>0. m.key \in Key
  BY DEF IsMove
<1>1. m.value.kind = Definitions[m.key].kind /\ m.value.kind \in Kind /\ m.value.number \in Int
  <2>1. /\ m.value.kind = Definitions[m.key].kind
        /\ Definitions[m.key].kind = "bool" \/ m.value.number \in Definitions[m.key].min..Definitions[m.key].max
    BY DEF InBounds
  <2>2. /\ Definitions[m.key].kind \in Kind /\ Definitions[m.key].kind # "bool"
        /\ Definitions[m.key].min \in Int /\ Definitions[m.key].max \in Int
    BY <1>0, RegistryAssumption
  <2> QED BY <2>1, <2>2
<1>2. m.value = [kind |-> m.value.kind, number |-> m.value.number]
  BY DEF IsMove, Value
<1> QED BY <1>1, <1>2

(* The empty plan, and what is left of one.                                *)
LEMMA Plans ==
    /\ IsPlan(<<>>)
    /\ \A plan : IsPlan(plan) /\ plan # <<>> => IsMove(Head(plan)) /\ IsPlan(Tail(plan))
<1>1. IsPlan(<<>>)
  <2>1. PICK S : S = {}
    OBVIOUS
  <2>2. <<>> \in Seq(S) /\ \A m \in S : IsMove(m)
    BY <2>1
  <2> QED BY <2>2 DEF IsPlan
<1>2. ASSUME NEW plan, IsPlan(plan), plan # <<>> PROVE IsMove(Head(plan)) /\ IsPlan(Tail(plan))
  <2>1. PICK S : plan \in Seq(S) /\ \A m \in S : IsMove(m)
    BY <1>2 DEF IsPlan
  <2>2. Head(plan) \in S /\ Tail(plan) \in Seq(S)
    BY <1>2, <2>1
  <2> QED BY <2>1, <2>2 DEF IsPlan
<1> QED BY <1>1, <1>2

(* What the tuner plans at a place is a plan.                              *)
LEMMA PlanIsPlan ==
    ASSUME NEW place, NEW signal, TunableKeys[1] \in Key, TunableKeys[2] \in Key
    PROVE  IsPlan(Plan(place, signal))
<1> DEFINE settings == Effective(place)
           Tuned(key) == Tune(Definitions[key], settings[key].value.number,
                              settings["discovery_min_merchants"].value.number, signal)
           Move(key) == IF Tuned(key) = settings[key].value.number THEN <<>>
                        ELSE <<[key |-> key, value |-> Parse(key, Tuned(key))]>>
           m1 == [key |-> TunableKeys[1], value |-> Parse(TunableKeys[1], Tuned(TunableKeys[1]))]
           m2 == [key |-> TunableKeys[2], value |-> Parse(TunableKeys[2], Tuned(TunableKeys[2]))]
<1>1. Plan(place, signal) = Move(TunableKeys[1]) \o Move(TunableKeys[2])
  BY DEF Plan
<1> HIDE DEF Tuned, settings
<1>2. IsMove(m1) /\ IsMove(m2)
  BY Parsed DEF IsMove, Value
<1>3. Move(TunableKeys[1]) \in {<<>>, <<m1>>} /\ Move(TunableKeys[2]) \in {<<>>, <<m2>>}
  OBVIOUS
<1> HIDE DEF m1, m2, Move
<1>4. /\ <<>> \in Seq({m1, m2}) /\ <<m1>> \in Seq({m1, m2}) /\ <<m2>> \in Seq({m1, m2})
  OBVIOUS
<1>5. Move(TunableKeys[1]) \in Seq({m1, m2}) /\ Move(TunableKeys[2]) \in Seq({m1, m2})
  BY <1>3, <1>4
<1>6. Move(TunableKeys[1]) \o Move(TunableKeys[2]) \in Seq({m1, m2})
  BY <1>5
<1> QED BY <1>1, <1>2, <1>6 DEF IsPlan

-----------------------------------------------------------------------------
(* Among some subsets of a finite set there is a smallest one, and a least *)
(* among some numbers.                                                     *)
LEMMA LeastSubset ==
    ASSUME NEW S, IsFiniteSet(S), NEW T, T \subseteq SUBSET S, T # {}
    PROVE  \E s \in T : \A t \in T : t \subseteq s => t = s
<1>1. T \subseteq FiniteSubsetsOf(S)
  BY FS_Subset DEF FiniteSubsetsOf
<1>2. \E x \in T : \A y \in T : ~ (<<y, x>> \in StrictSubsetOrdering(S))
  BY <1>1, FS_StrictSubsetOrderingWellFounded, WFMin
<1> QED BY <1>2 DEF StrictSubsetOrdering

LEMMA Least ==
    ASSUME NEW T \in SUBSET Nat, T # {}
    PROVE  \E x \in T : \A y \in T : x <= y
<1> DEFINE R == {ss \in Nat \X Nat : ss[1] < ss[2]}
<1>1. IsWellFoundedOn(R, Nat)
  BY NatLessThanWellFounded, Zenon DEF OpToRel
<1>2. PICK x \in T : \A y \in T : <<y, x>> \notin R
  <2> HIDE DEF R
  <2> QED BY <1>1, WFMin
<1>3. \A y \in T : ~(y < x)
  <2> SUFFICES ASSUME NEW y \in T
               PROVE  ~(y < x)
    OBVIOUS
  <2>1. <<y, x>> \notin R /\ <<y, x>> \in Nat \X Nat
    BY <1>2
  <2>2. <<y, x>>[1] = y /\ <<y, x>>[2] = x
    OBVIOUS
  <2> QED BY <2>1, <2>2
<1> QED BY <1>3

-----------------------------------------------------------------------------
(* The fold over the rows: what it takes next, and what it makes of every  *)
(* set of a family.                                                        *)
First(s) == CHOOSE x \in s : TRUE

AllUnset == [key \in Key |-> Unset(key)]

Turned(place, D, iter) ==
    iter = [s \in D |-> IF s = {} THEN AllUnset
                        ELSE Turn(place, First(s), iter[s \ {First(s)}])]

Small(S, n) == {s \in SUBSET S : Cardinality(s) <= n}

LEMMA OneSizeMore ==
    ASSUME NEW place, NEW S, IsFiniteSet(S), NEW n \in Nat, NEW g, Turned(place, Small(S, n), g)
    PROVE  \E h : Turned(place, Small(S, n + 1), h)
<1> DEFINE h == [s \in Small(S, n + 1) |-> IF s = {} THEN AllUnset
                                           ELSE Turn(place, First(s), g[s \ {First(s)}])]
<1>1. \A t \in Small(S, n) : t \in Small(S, n + 1) /\ h[t] = g[t]
  <2> SUFFICES ASSUME NEW t \in Small(S, n) PROVE t \in Small(S, n + 1) /\ h[t] = g[t]
    OBVIOUS
  <2>1. t \in Small(S, n + 1)
    BY FS_Subset, FS_CardinalityType DEF Small
  <2>2. g[t] = IF t = {} THEN AllUnset ELSE Turn(place, First(t), g[t \ {First(t)}])
    BY DEF Turned
  <2> QED BY <2>1, <2>2
<1>2. \A s \in Small(S, n + 1) : s # {} => s \ {First(s)} \in Small(S, n)
  <2> SUFFICES ASSUME NEW s \in Small(S, n + 1), s # {} PROVE s \ {First(s)} \in Small(S, n)
    OBVIOUS
  <2>1. First(s) \in s
    BY DEF First
  <2>2. IsFiniteSet(s) /\ Cardinality(s) \in Nat /\ Cardinality(s) <= n + 1 /\ s \subseteq S
    BY FS_Subset, FS_CardinalityType DEF Small
  <2>3. Cardinality(s \ {First(s)}) = Cardinality(s) - 1
    BY <2>1, <2>2, FS_RemoveElement
  <2> QED BY <2>2, <2>3 DEF Small
<1>3. \A s \in Small(S, n + 1) : s # {} => h[s \ {First(s)}] = g[s \ {First(s)}]
  BY <1>1, <1>2
<1>4. Turned(place, Small(S, n + 1), h)
  BY <1>3 DEF Turned
<1> QED BY <1>4

LEMMA EverySize ==
    ASSUME NEW place, NEW S, IsFiniteSet(S)
    PROVE  \A n \in Nat : \E g : Turned(place, Small(S, n), g)
<1> DEFINE Bad == {n \in Nat : ~\E g : Turned(place, Small(S, n), g)}
<1> SUFFICES ASSUME Bad # {} PROVE FALSE
  OBVIOUS
<1>1. PICK n \in Bad : \A m \in Bad : n <= m
  <2>1. Bad \in SUBSET Nat
    OBVIOUS
  <2> HIDE DEF Bad
  <2> QED BY <2>1, Least
<1>2. CASE n = 0
  <2>1. \A s \in Small(S, 0) : s = {}
    <3> SUFFICES ASSUME NEW s \in Small(S, 0) PROVE s = {}
      OBVIOUS
    <3>1. IsFiniteSet(s) /\ Cardinality(s) \in Nat /\ Cardinality(s) <= 0
      BY FS_Subset, FS_CardinalityType DEF Small
    <3> QED BY <3>1, FS_EmptySet
  <2>2. Turned(place, Small(S, 0), [s \in Small(S, 0) |-> AllUnset])
    BY <2>1 DEF Turned
  <2> QED BY <1>2, <2>2
<1>3. CASE n # 0
  <2>1. n - 1 \in Nat /\ n - 1 \notin Bad /\ (n - 1) + 1 = n
    BY <1>1, <1>3
  <2>2. PICK g : Turned(place, Small(S, n - 1), g)
    BY <2>1
  <2>3. \E h : Turned(place, Small(S, (n - 1) + 1), h)
    BY <2>1, <2>2, OneSizeMore
  <2> QED BY <2>1, <2>3
<1> QED BY <1>2, <1>3

LEMMA ResolveUnfolds ==
    ASSUME NEW place, NEW S, IsFiniteSet(S)
    PROVE  \E iter : Turned(place, SUBSET S, iter) /\ Resolve(place, S) = iter[S]
<1>1. Small(S, Cardinality(S)) = SUBSET S
  BY FS_Subset DEF Small
<1>2. \E iter : Turned(place, SUBSET S, iter)
  <2>1. Cardinality(S) \in Nat
    BY FS_CardinalityType
  <2>2. \E iter : Turned(place, Small(S, Cardinality(S)), iter)
    BY <2>1, EverySize
  <2> QED BY <1>1, <2>2
<1> DEFINE it == CHOOSE it : Turned(place, SUBSET S, it)
<1>3. Turned(place, SUBSET S, it)
  BY <1>2
<1>4. Resolve(place, S) = it[S]
  BY DEF Resolve, FoldSet, MapThenFoldSet, Turned, AllUnset, First
<1> QED BY <1>3, <1>4

-----------------------------------------------------------------------------
LEMMA Ranks ==
    ASSUME NEW place, NEW scope
    PROVE  /\ Len(Chain(place)) \in Nat /\ ScopeRank(place, scope) \in Nat
           /\ ScopeRank(place, scope) <= Len(Chain(place)) <=> scope \in Range(Chain(place))
<1>1. PICK S : Chain(place) \in Seq(S)
  <2> DEFINE S == {Scope("area", place.area), Scope("district", place.district),
                   Scope("division", place.division), GlobalScope}
  <2>1. /\ Named("area", place.area) \in Seq(S) /\ Named("district", place.district) \in Seq(S)
        /\ Named("division", place.division) \in Seq(S) /\ <<GlobalScope>> \in Seq(S)
    <3>1. \A x \in S : <<x>> \in Seq(S)
      OBVIOUS
    <3>2. <<>> \in Seq(S)
      OBVIOUS
    <3> QED BY <3>1, <3>2 DEF Named
  <2> HIDE DEF S
  <2>2. Chain(place) \in Seq(S)
    BY <2>1 DEF Chain
  <2> QED BY <2>2
<1>2. DOMAIN Chain(place) = 1..Len(Chain(place)) /\ Len(Chain(place)) \in Nat
  BY <1>1
<1>3. CASE scope \in Range(Chain(place))
  <2>1. \E n \in DOMAIN Chain(place) : Chain(place)[n] = scope
    BY <1>3 DEF Range
  <2>2. ScopeRank(place, scope) \in DOMAIN Chain(place)
    BY <1>3, <2>1 DEF ScopeRank
  <2> QED BY <1>2, <1>3, <2>2
<1>4. CASE scope \notin Range(Chain(place))
  BY <1>2, <1>4 DEF ScopeRank
<1> QED BY <1>3, <1>4

(* The rows of a set that say something of a setting at a place.           *)
Say(place, key, s) ==
    {row \in s : row.key = key /\ Counts(row) /\ row.scope \in Range(Chain(place))}

(* What the nearest of them says.                                          *)
NearestOf(place, key, s, got) ==
    IF Say(place, key, s) = {} THEN got = Unset(key)
    ELSE /\ got.source = "override"
         /\ \E row \in Say(place, key, s) :
              /\ got.value = row.value /\ got.scope = row.scope
              /\ \A other \in Say(place, key, s) :
                   ScopeRank(place, row.scope) <= ScopeRank(place, other.scope)

AllNearest(place, s, best) ==
    best = [key \in Key |-> best[key]] /\ \A key \in Key : NearestOf(place, key, s, best[key])

LEMMA OneMoreRow ==
    ASSUME NEW place, NEW s, NEW x \in s, NEW best, AllNearest(place, s \ {x}, best)
    PROVE  AllNearest(place, s, Turn(place, x, best))
<1> DEFINE t == s \ {x}
           new == [value |-> x.value, scope |-> x.scope, source |-> "override"]
<1>0. best = [key \in Key |-> best[key]] /\ \A key \in Key : NearestOf(place, key, t, best[key])
  BY DEF AllNearest
<1>1. \A sc : /\ ScopeRank(place, sc) \in Nat /\ Len(Chain(place)) \in Nat
              /\ ScopeRank(place, sc) <= Len(Chain(place)) <=> sc \in Range(Chain(place))
  BY Ranks
<1>2. \A key : Say(place, key, s) = IF x.key = key /\ Counts(x) /\ x.scope \in Range(Chain(place))
                                    THEN Say(place, key, t) \cup {x} ELSE Say(place, key, t)
  BY DEF Say
<1>3. CASE Counts(x) /\ Nearer(place, x, best[x.key])
  <2>1. x.key \in Key
    BY <1>3 DEF Counts
  <2>2. Turn(place, x, best) = [best EXCEPT ![x.key] = new]
    BY <1>3 DEF Turn
  <2> HIDE DEF new
  <2>3. Turn(place, x, best) = [key \in Key |-> IF key = x.key THEN new ELSE best[key]]
    BY <1>0, <2>2
  <2>4. x.scope \in Range(Chain(place))
    <3>1. CASE Say(place, x.key, t) = {}
      <4>1. best[x.key].source = "default"
        BY <1>0, <2>1, <3>1 DEF NearestOf, Unset
      <4> QED BY <1>1, <1>3, <4>1 DEF Nearer
    <3>2. CASE Say(place, x.key, t) # {}
      <4>1. PICK row \in Say(place, x.key, t) : best[x.key].scope = row.scope
        BY <1>0, <2>1, <3>2 DEF NearestOf
      <4>2. best[x.key].source # "default" /\ row.scope \in Range(Chain(place))
        BY <1>0, <2>1, <3>2 DEF NearestOf, Say
      <4>3. ScopeRank(place, x.scope) < ScopeRank(place, row.scope)
        BY <1>3, <4>1, <4>2 DEF Nearer
      <4> QED BY <1>1, <4>2, <4>3
    <3> QED BY <3>1, <3>2
  <2>5. ASSUME NEW other \in Say(place, x.key, t)
        PROVE  ScopeRank(place, x.scope) <= ScopeRank(place, other.scope)
    <3>1. PICK row \in Say(place, x.key, t) :
             /\ best[x.key].scope = row.scope
             /\ ScopeRank(place, row.scope) <= ScopeRank(place, other.scope)
      BY <1>0, <2>1, <2>5 DEF NearestOf
    <3>2. best[x.key].source # "default"
      BY <1>0, <2>1, <2>5 DEF NearestOf
    <3>3. ScopeRank(place, x.scope) < ScopeRank(place, row.scope)
      BY <1>3, <3>1, <3>2 DEF Nearer
    <3> QED BY <1>1, <3>1, <3>3
  <2>6. NearestOf(place, x.key, s, new)
    <3>1. Say(place, x.key, s) = Say(place, x.key, t) \cup {x}
      BY <1>2, <1>3, <2>4
    <3>2. new.value = x.value /\ new.scope = x.scope /\ new.source = "override"
      BY DEF new
    <3>3. \A other \in Say(place, x.key, s) : ScopeRank(place, x.scope) <= ScopeRank(place, other.scope)
      <4>1. ScopeRank(place, x.scope) <= ScopeRank(place, x.scope)
        BY <1>1
      <4> QED BY <2>5, <3>1, <4>1
    <3> QED BY <3>1, <3>2, <3>3 DEF NearestOf
  <2>7. ASSUME NEW key \in Key, key # x.key PROVE NearestOf(place, key, s, best[key])
    BY <1>0, <1>2, <2>7 DEF NearestOf
  <2> QED BY <2>3, <2>6, <2>7 DEF AllNearest
<1>4. CASE ~(Counts(x) /\ Nearer(place, x, best[x.key]))
  <2>1. Turn(place, x, best) = best
    BY <1>4 DEF Turn
  <2>2. ASSUME NEW key \in Key PROVE NearestOf(place, key, s, best[key])
    <3>1. CASE Say(place, key, s) = Say(place, key, t)
      BY <1>0, <3>1 DEF NearestOf
    <3>2. CASE Say(place, key, s) # Say(place, key, t)
      <4>1. x.key = key /\ Counts(x) /\ x.scope \in Range(Chain(place))
            /\ Say(place, key, s) = Say(place, key, t) \cup {x}
        BY <1>2, <3>2
      <4>2. ~Nearer(place, x, best[key])
        BY <1>4, <4>1
      <4>3. Say(place, key, t) # {}
        <5>1. CASE Say(place, key, t) = {}
          <6>1. best[key].source = "default"
            <7>1. NearestOf(place, key, t, best[key])
              BY <1>0
            <7>2. best[key] = Unset(key)
              BY <5>1, <7>1 DEF NearestOf
            <7> QED BY <7>2 DEF Unset
          <6> QED BY <1>1, <4>1, <4>2, <6>1 DEF Nearer
        <5> QED BY <5>1
      <4>4. PICK row \in Say(place, key, t) :
              /\ best[key].source = "override"
              /\ best[key].value = row.value /\ best[key].scope = row.scope
              /\ \A other \in Say(place, key, t) :
                   ScopeRank(place, row.scope) <= ScopeRank(place, other.scope)
        BY <1>0, <4>3 DEF NearestOf
      <4>5. ScopeRank(place, row.scope) <= ScopeRank(place, x.scope)
        BY <1>1, <4>2, <4>4 DEF Nearer
      <4>6. \A other \in Say(place, key, s) : ScopeRank(place, row.scope) <= ScopeRank(place, other.scope)
        BY <4>1, <4>4, <4>5
      <4> QED BY <4>1, <4>4, <4>6 DEF NearestOf
    <3> QED BY <3>1, <3>2
  <2> QED BY <1>0, <2>1, <2>2 DEF AllNearest
<1> QED BY <1>3, <1>4

(* Whatever order the rows come in, Resolve ends with the nearest.         *)
LEMMA ResolvesToTheNearest ==
    ASSUME NEW place, NEW S, IsFiniteSet(S)
    PROVE  AllNearest(place, S, Resolve(place, S))
<1>1. PICK iter : Turned(place, SUBSET S, iter) /\ Resolve(place, S) = iter[S]
  BY ResolveUnfolds
<1> DEFINE Bad == {s \in SUBSET S : ~AllNearest(place, s, iter[s])}
<1>2. Bad = {}
  <2> SUFFICES ASSUME Bad # {} PROVE FALSE
    OBVIOUS
  <2>1. PICK s \in Bad : \A t \in Bad : t \subseteq s => t = s
    <3>1. Bad \subseteq SUBSET S
      OBVIOUS
    <3> HIDE DEF Bad
    <3> QED BY <3>1, LeastSubset
  <2>2. iter[s] = IF s = {} THEN AllUnset ELSE Turn(place, First(s), iter[s \ {First(s)}])
    BY <1>1 DEF Turned
  <2>3. CASE s = {}
    <3>1. iter[s] = AllUnset /\ \A key : Say(place, key, s) = {}
      BY <2>2, <2>3 DEF Say
    <3>2. AllNearest(place, s, AllUnset)
      BY <3>1 DEF AllNearest, NearestOf, AllUnset
    <3> QED BY <3>1, <3>2
  <2>4. CASE s # {}
    <3>1. First(s) \in s
      BY <2>4 DEF First
    <3>2. s \ {First(s)} \in SUBSET S /\ s \ {First(s)} \notin Bad
      BY <2>1, <3>1
    <3>3. AllNearest(place, s \ {First(s)}, iter[s \ {First(s)}])
      BY <3>2
    <3> QED BY <2>2, <2>4, <3>1, <3>3, OneMoreRow
  <2> QED BY <2>3, <2>4
<1> QED BY <1>1, <1>2

-----------------------------------------------------------------------------
LEMMA InitInv == SettingsInit => IInv
<1> SUFFICES ASSUME SettingsInit PROVE IInv
  OBVIOUS
<1>1. /\ rows \in {{}, Strays} /\ log = <<>> /\ changes = 0
      /\ change = [w \in Writers |-> NoChange] /\ standing = [w \in Writers |-> {}]
  BY DEF SettingsInit
<1>2. SettingsTypeOK
  BY <1>1, StraysAssumption, MaxChangesAssumption DEF SettingsTypeOK
<1>3. ChangesHold
  BY <1>1 DEF ChangesHold, Holds, NoChange
<1>4. LogIsASequence
  <2>1. PICK S : S = {}
    OBVIOUS
  <2>2. log \in Seq(S)
    BY <1>1, <2>1
  <2> QED BY <2>2 DEF LogIsASequence
<1>5. NewestTell /\ RowsAreLogged
  BY <1>1 DEF NewestTell, RowsAreLogged
<1>6. RowsAreBounded
  BY <1>1, StraysAssumption, FS_EmptySet DEF RowsAreBounded
<1> QED
  BY <1>1, <1>2, <1>3, <1>4, <1>5, <1>6 DEF IInv, StandingIsThere

(* A request that goes on in memory.                                       *)
LEMMA GoingOn ==
    ASSUME IInv, NEW w \in Writers, NEW q, change' = [change EXCEPT ![w] = q],
           UNCHANGED <<rows, log>>, changes' \in 0..MaxChanges,
           standing' \in [Writers -> SUBSET rows], \A row \in standing'[w] : row.pinned,
           \A v \in Writers \ {w} : standing'[v] = standing[v],
           Holds(w, q)'
    PROVE  IInv'
<1> USE DEF IInv
<1>1. SettingsTypeOK'
  BY DEF SettingsTypeOK
<1>2. ChangesHold'
  <2>1. change' = [v \in Writers |-> IF v = w THEN q ELSE change[v]]
    BY DEF ChangesHold
  <2>2. ASSUME NEW v \in Writers, v # w PROVE Holds(v, change[v])'
    <3>1. change'[v] = change[v] /\ Holds(v, change[v])
      BY <2>1, <2>2 DEF ChangesHold
    <3>2. \A k, s : ClearOfPins(v, k, s) => ClearOfPins(v, k, s)'
      BY <2>2 DEF ClearOfPins, At, AllOverrides
    <3> QED BY <3>1, <3>2 DEF Holds
  <2>3. change'[w] = q
    BY <2>1
  <2> QED BY <2>1, <2>2, <2>3 DEF ChangesHold
<1>3. StandingIsThere' /\ LogIsASequence'
  BY DEF StandingIsThere, LogIsASequence
<1>4. NewestTell' /\ RowsAreLogged' /\ RowsAreBounded'
  BY DEF NewestTell, RowsAreLogged, RowsAreBounded, CurrentValue, At, AllOverrides
<1> QED BY <1>1, <1>2, <1>3, <1>4

ValueOf(key, there) ==
    IF there = {} THEN Definitions[key].default ELSE (CHOOSE row \in there : TRUE).value

(* A transaction: what a scope held of a setting is replaced, by nothing   *)
(* or by one row, and the log says so.                                     *)
Replaces(w, q, key, scope, added, entry) ==
    /\ change' = [change EXCEPT ![w] = q]
    /\ q.pc \in {"idle", "tuning"} /\ (q.pc = "tuning" => InPlan(q))
    /\ \A x \in added : x \in Override /\ x.key = key /\ x.scope = scope /\ InBounds(key, x.value)
    /\ \A r1, r2 \in added : r1 = r2
    /\ rows' = Others(key, scope) \cup added
    /\ log' = Append(log, entry)
    /\ entry.key = key /\ entry.scope = scope /\ entry.new = ValueOf(key, added)
    /\ standing' = [v \in Writers |-> standing[v] \ At(key, scope)]
    /\ UNCHANGED changes

LEMMA Committed ==
    ASSUME IInv, NEW w \in Writers, NEW q, NEW key \in Key, NEW scope, NEW added, NEW entry,
           Replaces(w, q, key, scope, added, entry)
    PROVE  IInv'
<1>0. /\ change' = [change EXCEPT ![w] = q]
      /\ q.pc \in {"idle", "tuning"} /\ (q.pc = "tuning" => InPlan(q))
      /\ \A x \in added : x \in Override /\ x.key = key /\ x.scope = scope /\ InBounds(key, x.value)
      /\ \A r1, r2 \in added : r1 = r2
      /\ rows' = Others(key, scope) \cup added
      /\ log' = Append(log, entry)
      /\ entry.key = key /\ entry.scope = scope /\ entry.new = ValueOf(key, added)
      /\ standing' = [v \in Writers |-> standing[v] \ At(key, scope)]
      /\ UNCHANGED changes
  BY DEF Replaces
<1> USE <1>0
<1> USE DEF IInv
<1>1. /\ Others(key, scope) = {row \in rows : row.key # key \/ row.scope # scope}
      /\ At(key, scope) = {row \in rows : row.key = key /\ row.scope = scope}
      /\ standing \in [Writers -> SUBSET rows]
  BY DEF Others, At, AllOverrides, StandingIsThere
<1>2. SettingsTypeOK'
  <2>1. \A row \in rows' : row \in Override
    BY <1>1 DEF SettingsTypeOK
  <2>2. \A r1, r2 \in rows' : r1.key = r2.key /\ r1.scope = r2.scope => r1 = r2
    BY <1>1 DEF SettingsTypeOK
  <2>3. \A v \in Writers : \A row \in standing'[v] : row.pinned
    BY DEF SettingsTypeOK
  <2> QED BY <2>1, <2>2, <2>3 DEF SettingsTypeOK
<1>3. StandingIsThere'
  BY <1>1 DEF StandingIsThere
<1>4. ChangesHold'
  <2>1. change' = [v \in Writers |-> IF v = w THEN q ELSE change[v]]
    BY DEF ChangesHold
  <2>2. ASSUME NEW v \in Writers, v # w PROVE Holds(v, change[v])'
    <3>1. change'[v] = change[v] /\ Holds(v, change[v])
      BY <2>1, <2>2 DEF ChangesHold
    <3>2. \A k, s : ClearOfPins(v, k, s) => ClearOfPins(v, k, s)'
      <4> SUFFICES ASSUME NEW k, NEW s, ClearOfPins(v, k, s), NEW x \in At(k, s)', x \in standing'[v]
                   PROVE  FALSE
        BY DEF ClearOfPins
      <4>1. x \in standing[v] /\ x \in rows /\ x.key = k /\ x.scope = s /\ x.key \in Key
        BY <1>1 DEF At, AllOverrides
      <4> QED BY <4>1 DEF ClearOfPins, At, AllOverrides
    <3> QED BY <3>1, <3>2 DEF Holds
  <2>3. change'[w] = q /\ Holds(w, q)'
    BY <2>1 DEF Holds
  <2> QED BY <2>1, <2>2, <2>3 DEF ChangesHold
<1>5. PICK S : log \in Seq(S)
  BY DEF LogIsASequence
<1>6. /\ log' \in Seq(S \cup {entry}) /\ Len(log') = Len(log) + 1 /\ Len(log) \in Nat
      /\ DOMAIN log = 1..Len(log) /\ DOMAIN log' = 1..Len(log')
      /\ \A n \in 1..Len(log) : log'[n] = log[n]
      /\ log'[Len(log')] = entry
  <2>1. log \in Seq(S \cup {entry})
    BY <1>5
  <2> QED BY <2>1
<1>7. LogIsASequence'
  BY <1>6 DEF LogIsASequence
<1>8. ASSUME NEW k, NEW s, k # key \/ s # scope PROVE CurrentValue(k, s)' = CurrentValue(k, s)
  <2>1. At(k, s)' = At(k, s)
    BY <1>1, <1>8 DEF At, AllOverrides
  <2> QED BY <2>1 DEF CurrentValue
<1>12. ASSUME NEW n \in 1..Len(log')
       PROVE  \/ \E m \in 1..Len(log') : m > n /\ log'[m].key = log'[n].key /\ log'[m].scope = log'[n].scope
              \/ log'[n].new = CurrentValue(log[n].key, log[n].scope)'
  <2>1. CASE n = Len(log')
    <3>0. At(key, scope)' = added
      BY <1>1 DEF At, AllOverrides
    <3>1. log'[n].key = key /\ log'[n].scope = scope /\ log'[n].new = CurrentValue(key, scope)'
      BY <1>6, <2>1, <3>0 DEF ValueOf, CurrentValue
    <3>2. CurrentValue(log[n].key, log[n].scope)' = CurrentValue(key, scope)'
      BY <3>1
    <3> QED BY <3>1, <3>2
  <2>2. CASE n \in 1..Len(log) /\ log[n].key = key /\ log[n].scope = scope
    <3>1. Len(log') \in 1..Len(log') /\ Len(log') > n
      BY <1>6, <2>2
    <3> QED BY <1>6, <2>2, <3>1
  <2>3. CASE n \in 1..Len(log) /\ ~(log[n].key = key /\ log[n].scope = scope)
    <3>1. PICK k, s : k = log[n].key /\ s = log[n].scope
      OBVIOUS
    <3>3. log'[n] = log[n] /\ CurrentValue(k, s)' = CurrentValue(k, s)
      BY <1>6, <1>8, <2>3, <3>1
    <3>2. CASE \E m \in 1..Len(log) : m > n /\ log[m].key = log[n].key /\ log[m].scope = log[n].scope
      <4>1. PICK m \in 1..Len(log) : m > n /\ log[m].key = log[n].key /\ log[m].scope = log[n].scope
        BY <3>2
      <4>2. m \in 1..Len(log') /\ log'[m] = log[m]
        BY <1>6
      <4> QED BY <3>3, <4>1, <4>2
    <3>4. CASE log[n].new = CurrentValue(log[n].key, log[n].scope)
      <4>1. log'[n].new = CurrentValue(k, s)'
        BY <3>1, <3>3, <3>4
      <4>2. CurrentValue(log[n].key, log[n].scope)' = CurrentValue(k, s)'
        BY <3>1, <3>3
      <4> QED BY <4>1, <4>2
    <3>5. n \in DOMAIN log /\ DOMAIN log = 1..Len(log)
      BY <1>6, <2>3
    <3> QED BY <3>2, <3>4, <3>5 DEF NewestTell
  <2>4. n = Len(log') \/ n \in 1..Len(log)
    BY <1>6
  <2> QED BY <2>1, <2>2, <2>3, <2>4
<1>9. NewestTell'
  <2>1. DOMAIN log' = 1..Len(log')
    BY <1>6
  <2> QED BY ONLY <1>12, <2>1 DEF NewestTell
<1>10. RowsAreLogged'
  <2> SUFFICES ASSUME NEW row \in rows', row \notin Strays
               PROVE  \E n \in 1..Len(log') : log'[n].key = row.key /\ log'[n].scope = row.scope
    BY <1>6 DEF RowsAreLogged
  <2>1. CASE row \in added
    BY <1>6, <2>1
  <2>2. CASE row \in rows
    <3>1. PICK n \in 1..Len(log) : log[n].key = row.key /\ log[n].scope = row.scope
      BY <1>6, <2>2 DEF RowsAreLogged
    <3> QED BY <1>6, <3>1
  <2> QED BY <1>1, <2>1, <2>2
<1>11. RowsAreBounded'
  <2>1. added = {} \/ \E x : added = {x}
    <3>1. SUFFICES ASSUME NEW x \in added PROVE added = {x}
      OBVIOUS
    <3>2. \A r \in added : r = x
      BY ONLY <1>0, x \in added
    <3> QED BY ONLY <3>2, x \in added
  <2>2. IsFiniteSet(added)
    <3>1. CASE added = {}
      BY <3>1, FS_EmptySet
    <3>2. ASSUME NEW x, added = {x} PROVE IsFiniteSet(added)
      BY <3>2, FS_Singleton
    <3> QED BY <2>1, <3>1, <3>2
  <2>3. IsFiniteSet(Others(key, scope))
    BY <1>1, FS_Subset DEF RowsAreBounded
  <2>4. IsFiniteSet(rows')
    BY <2>2, <2>3, FS_Union
  <2> QED BY <1>1, <2>4 DEF RowsAreBounded
<1> QED
  BY <1>2, <1>3, <1>4, <1>7, <1>9, <1>10, <1>11

-----------------------------------------------------------------------------
(* A request that asks or reads on, the pins as they are.                  *)
LEMMA GoesOnInv ==
    ASSUME IInv, NEW w \in Writers, NEW q, change' = [change EXCEPT ![w] = q],
           UNCHANGED <<rows, log, standing>>, changes' \in 0..MaxChanges, Holds(w, q)
    PROVE  IInv'
<1>1. \A k, s : ClearOfPins(w, k, s)' <=> ClearOfPins(w, k, s)
  BY DEF ClearOfPins, At, AllOverrides
<1>2. Holds(w, q)'
  BY <1>1 DEF Holds
<1>3. standing' \in [Writers -> SUBSET rows] /\ \A row \in standing'[w] : row.pinned
  BY DEF IInv, StandingIsThere, SettingsTypeOK
<1> QED BY <1>2, <1>3, GoingOn

LEMMA OneMore ==
    ASSUME IInv, changes < MaxChanges, changes' = changes + 1
    PROVE  changes' \in 0..MaxChanges
BY MaxChangesAssumption DEF IInv, SettingsTypeOK

LEMMA AskSetInv ==
    ASSUME IInv, NEW w \in Writers, NEW e \in Entries, NEW scope \in Scopes, NEW pinned \in BOOLEAN,
           AskSet(w, e[1], scope, e[2], pinned)
    PROVE  IInv'
<1>1. e[1] \in Key /\ e[2] \in Int /\ scope \in AnyScope
  BY EntriesAssumption
<1>2. PICK row : row = [key |-> e[1], scope |-> scope, value |-> Parse(e[1], e[2]), pinned |-> pinned]
  OBVIOUS
<1>3. row \in Override /\ row.key \in Key /\ InBounds(row.key, row.value)
  <2>1. row \in Override /\ row.key \in Key
    BY <1>1, <1>2, Parsed, RegistryAssumption DEF Override
  <2>2. InBounds(e[1], Parse(e[1], e[2]))
    BY DEF AskSet
  <2> QED BY <1>2, <2>1, <2>2
<1>4. PICK q : q = [pc |-> "set", actor |-> "admin", old |-> CurrentValue(e[1], scope), plan |-> <<>>,
                    row |-> row]
  OBVIOUS
<1>5. /\ change' = [change EXCEPT ![w] = q] /\ UNCHANGED <<rows, log, standing>>
      /\ changes < MaxChanges /\ changes' = changes + 1
  BY <1>2, <1>4 DEF AskSet, Begins, MayBegin
<1>6. Holds(w, q)
  <2>1. q.pc = "set" /\ q.row = row /\ q.plan = <<>> /\ q.actor = "admin"
    BY <1>4
  <2> QED BY <1>3, <2>1, Plans DEF Holds
<1> QED BY <1>5, <1>6, OneMore, GoesOnInv

LEMMA AskClearInv ==
    ASSUME IInv, NEW w \in Writers, NEW key, NEW scope, AskClear(w, key, scope)
    PROVE  IInv'
<1>1. PICK q : q = [pc |-> "clear", key |-> key, scope |-> scope, old |-> CurrentValue(key, scope)]
  OBVIOUS
<1>2. /\ change' = [change EXCEPT ![w] = q] /\ UNCHANGED <<rows, log, standing>>
      /\ changes < MaxChanges /\ changes' = changes + 1 /\ key \in Key
  BY <1>1 DEF AskClear, Begins, MayBegin, At, AllOverrides
<1>3. Holds(w, q)
  <2>1. q.pc = "clear" /\ q.key = key
    BY <1>1
  <2> QED BY <1>2, <2>1 DEF Holds
<1> QED BY <1>2, <1>3, OneMore, GoesOnInv

LEMMA StartTuningInv ==
    ASSUME IInv, NEW w \in Writers, NEW place \in Places, NEW signal, StartTuning(w, place, signal)
    PROVE  IInv'
<1>1. PICK plan : plan = Plan(place, signal)
  OBVIOUS
<1>2. PICK q : q = [pc |-> "tuning", scope |-> Scope("area", place.area), plan |-> plan]
  OBVIOUS
<1>3. /\ change' = [change EXCEPT ![w] = q] /\ UNCHANGED <<rows, log>>
      /\ changes < MaxChanges /\ changes' = changes + 1 /\ plan # <<>>
      /\ standing' = [standing EXCEPT ![w] = {row \in rows : row.pinned}]
  BY <1>1, <1>2 DEF StartTuning, Begins, MayBegin
<1>4. Holds(w, q)'
  <2>1. q.pc = "tuning" /\ q.plan = plan /\ q.scope = Scope("area", place.area)
    BY <1>2
  <2>2. IsPlan(plan)
    <3>1. TunableKeys[1] \in Key /\ TunableKeys[2] \in Key
      BY TunableAssumption DEF TunableKeys
    <3> QED BY <1>1, <3>1, PlanIsPlan
  <2>3. Scope("area", place.area) \in AnyScope
    BY PlacesAssumption
  <2>4. InPlan(q)
    <3>1. q = [pc |-> q.pc, scope |-> q.scope, plan |-> q.plan]
      BY <1>2
    <3> QED BY <1>3, <2>1, <2>2, <2>3, <3>1 DEF InPlan
  <2> QED BY <2>1, <2>4 DEF Holds
<1>5. /\ standing' \in [Writers -> SUBSET rows] /\ \A row \in standing'[w] : row.pinned
      /\ \A v \in Writers \ {w} : standing'[v] = standing[v]
  BY <1>3 DEF IInv, StandingIsThere
<1> QED BY <1>3, <1>4, <1>5, OneMore, GoingOn

(* What follows a key that was skipped or written.                         *)
LEMMA Onwards ==
    ASSUME NEW scope \in AnyScope, NEW plan, IsPlan(plan), NEW q, q = Then(scope, plan)
    PROVE  q.pc \in {"idle", "tuning"} /\ (q.pc = "tuning" => InPlan(q))
<1>1. CASE plan = <<>>
  BY <1>1 DEF Then, NoChange
<1>2. CASE plan # <<>>
  <2>1. q = [pc |-> "tuning", scope |-> scope, plan |-> plan]
    BY <1>2 DEF Then
  <2>2. q.pc = "tuning" /\ q.scope = scope /\ q.plan = plan
    BY <2>1
  <2>3. q = [pc |-> q.pc, scope |-> q.scope, plan |-> q.plan]
    BY <2>1
  <2> QED BY <1>2, <2>2, <2>3 DEF InPlan
<1> QED BY <1>1, <1>2

LEMMA SameChanges == IInv /\ UNCHANGED changes => changes' \in 0..MaxChanges
BY DEF IInv, SettingsTypeOK

LEMMA CheckPinInv ==
    ASSUME IInv, NEW w \in Writers, CheckPin(w)
    PROVE  IInv'
<1>1. PICK q : q = change[w]
  OBVIOUS
<1>2. q.pc = "tuning" /\ InPlan(q)
  BY <1>1 DEF CheckPin, IInv, ChangesHold, Holds
<1>3. PICK next : next = Head(q.plan)
  OBVIOUS
<1>4. IsPlan(q.plan) /\ q.plan # <<>> /\ q.scope \in AnyScope /\ IsMove(next) /\ IsPlan(Tail(q.plan))
  BY <1>2, <1>3, Plans DEF InPlan
<1>5. UNCHANGED <<rows, log, standing, changes>>
  BY DEF CheckPin, GoesOn
<1>6. CASE PinnedAt(next.key, q.scope)
  <2>1. PICK p : p = Then(q.scope, Tail(q.plan))
    OBVIOUS
  <2>2. change' = [change EXCEPT ![w] = p]
    BY <1>1, <1>3, <1>6, <2>1 DEF CheckPin, GoesOn
  <2>3. Holds(w, p)
    BY <1>4, <2>1, Onwards DEF Holds
  <2> QED BY <1>5, <2>2, <2>3, SameChanges, GoesOnInv
<1>7. CASE ~PinnedAt(next.key, q.scope)
  <2>1. PICK p : p = [change[w] EXCEPT !.pc = "unpinned"]
    OBVIOUS
  <2>2. /\ change' = [change EXCEPT ![w] = p]
        /\ Definitions[next.key].tunable /\ InBounds(next.key, next.value)
    BY <1>1, <1>3, <1>7, <2>1 DEF CheckPin, GoesOn
  <2>3. p.pc = "unpinned" /\ p.plan = q.plan /\ p.scope = q.scope
    <3>1. q = [pc |-> q.pc, scope |-> q.scope, plan |-> q.plan]
      BY <1>2 DEF InPlan
    <3>2. p = [pc |-> "unpinned", scope |-> q.scope, plan |-> q.plan]
      BY <1>1, <2>1, <3>1
    <3> QED BY <3>2
  <2>4. ClearOfPins(w, next.key, q.scope)
    BY <1>7 DEF ClearOfPins, PinnedAt, IInv, SettingsTypeOK
  <2>5. Holds(w, p)
    <3>1. p = [pc |-> p.pc, scope |-> p.scope, plan |-> p.plan]
      <4>1. q = [pc |-> q.pc, scope |-> q.scope, plan |-> q.plan]
        BY <1>2 DEF InPlan
      <4> QED BY <1>1, <2>1, <4>1
    <3>2. InPlan(p)
      BY <1>4, <2>3, <3>1 DEF InPlan
    <3> QED BY <1>3, <2>2, <2>3, <2>4, <3>2 DEF Holds
  <2> QED BY <1>5, <2>2, <2>5, SameChanges, GoesOnInv
<1> QED BY <1>6, <1>7

LEMMA ReadCurrentInv ==
    ASSUME IInv, NEW w \in Writers, ReadCurrent(w)
    PROVE  IInv'
<1>1. PICK q : q = change[w]
  OBVIOUS
<1>2. PICK next : next = Head(q.plan)
  OBVIOUS
<1>3. /\ q.pc = "unpinned" /\ InPlan(q) /\ Definitions[next.key].tunable
      /\ InBounds(next.key, next.value) /\ ClearOfPins(w, next.key, q.scope)
  BY <1>1, <1>2 DEF ReadCurrent, IInv, ChangesHold, Holds
<1>4. q.scope \in AnyScope /\ IsMove(next) /\ IsPlan(Tail(q.plan))
  BY <1>2, <1>3, Plans DEF InPlan
<1>5. PICK row : row = [key |-> next.key, scope |-> q.scope, value |-> next.value, pinned |-> FALSE]
  OBVIOUS
<1>6. row \in Override /\ row.key = next.key /\ row.key \in Key /\ row.scope = q.scope
  <2>1. next.value \in [kind : Kind, number : Int] /\ next.key \in Key
    BY <1>3, <1>4, CheckedMove DEF IsMove
  <2> QED BY <1>4, <1>5, <2>1, RegistryAssumption DEF Override
<1>7. PICK p : p = [pc |-> "set", actor |-> "auto_tuner", plan |-> Tail(q.plan),
                    old |-> CurrentValue(next.key, q.scope), row |-> row]
  OBVIOUS
<1>8. change' = [change EXCEPT ![w] = p] /\ UNCHANGED <<rows, log, standing, changes>>
  BY <1>1, <1>2, <1>5, <1>7 DEF ReadCurrent, GoesOn
<1>9. Holds(w, p)
  <2>1. p.pc = "set" /\ p.row = row /\ p.plan = Tail(q.plan)
    BY <1>7
  <2>2. InBounds(row.key, row.value)
    BY <1>3, <1>5
  <2> QED BY <1>3, <1>4, <1>6, <2>1, <2>2 DEF Holds
<1> QED BY <1>8, <1>9, SameChanges, GoesOnInv

LEMMA FailInv ==
    ASSUME IInv, NEW w \in Writers, Fail(w)
    PROVE  IInv'
<1>1. Holds(w, NoChange)
  BY DEF Holds, NoChange
<1>2. PICK q : q = NoChange
  OBVIOUS
<1> QED BY <1>1, <1>2, SameChanges, GoesOnInv DEF Fail, GoesOn

-----------------------------------------------------------------------------
(* The two transactions.                                                   *)
LEMMA SaveInv ==
    ASSUME IInv, NEW w \in Writers, Save(w)
    PROVE  IInv'
<1>1. PICK q : q = change[w]
  OBVIOUS
<1>2. PICK row : row = q.row
  OBVIOUS
<1>3. PICK key, scope : key = row.key /\ scope = row.scope
  OBVIOUS
<1>4. /\ row \in Override /\ key \in Key /\ IsPlan(q.plan) /\ scope \in AnyScope
      /\ InBounds(key, row.value)
  BY <1>1, <1>2, <1>3 DEF Save, IInv, ChangesHold, Holds, Override
<1>5. PICK p : p = Then(scope, q.plan)
  OBVIOUS
<1>6. PICK entry : entry = Entry(key, scope, q.old, row.value, q.actor)
  OBVIOUS
<1>7. PICK added : added = {row}
  OBVIOUS
<1>8. /\ change' = [change EXCEPT ![w] = p] /\ rows' = Others(key, scope) \cup added
      /\ log' = Append(log, entry) /\ UNCHANGED changes
      /\ standing' = [v \in Writers |-> standing[v] \ At(key, scope)]
  BY <1>1, <1>2, <1>3, <1>5, <1>6, <1>7 DEF Save, Logged
<1>9. p.pc \in {"idle", "tuning"} /\ (p.pc = "tuning" => InPlan(p))
  BY <1>4, <1>5, Onwards
<1>10. entry.key = key /\ entry.scope = scope /\ entry.new = row.value
  BY <1>6 DEF Entry
<1>11. ValueOf(key, added) = row.value
  BY <1>7 DEF ValueOf
<1>12. /\ \A x \in added : x \in Override /\ x.key = key /\ x.scope = scope /\ InBounds(key, x.value)
       /\ \A r1, r2 \in added : r1 = r2
  BY <1>3, <1>4, <1>7
<1>13. entry.new = ValueOf(key, added)
  BY <1>10, <1>11
<1>14. entry.key = key /\ entry.scope = scope
  BY <1>10
<1>15. Replaces(w, p, key, scope, added, entry)
  BY <1>8, <1>9, <1>12, <1>13, <1>14 DEF Replaces
<1> QED BY <1>4, <1>15, Committed

LEMMA DeleteInv ==
    ASSUME IInv, NEW w \in Writers, Delete(w)
    PROVE  IInv'
<1>1. PICK q : q = change[w]
  OBVIOUS
<1>2. PICK key, scope : key = q.key /\ scope = q.scope
  OBVIOUS
<1>3. key \in Key
  BY <1>1, <1>2 DEF Delete, IInv, ChangesHold, Holds
<1>4. PICK entry : entry = Entry(key, scope, q.old, Definitions[key].default, "admin")
  OBVIOUS
<1>5. PICK p, added : p = NoChange /\ added = {}
  OBVIOUS
<1>6. /\ change' = [change EXCEPT ![w] = p] /\ rows' = Others(key, scope) \cup added
      /\ log' = Append(log, entry) /\ UNCHANGED changes
      /\ standing' = [v \in Writers |-> standing[v] \ At(key, scope)]
  BY <1>1, <1>2, <1>4, <1>5 DEF Delete, Logged
<1>7. p.pc = "idle"
  BY <1>5 DEF NoChange
<1>8. entry.key = key /\ entry.scope = scope /\ entry.new = Definitions[key].default
  BY <1>4 DEF Entry
<1>9. ValueOf(key, added) = Definitions[key].default
  BY <1>5 DEF ValueOf
<1>10. /\ \A x \in added : x \in Override /\ x.key = key /\ x.scope = scope /\ InBounds(key, x.value)
       /\ \A r1, r2 \in added : r1 = r2
  BY <1>5
<1>11. entry.new = ValueOf(key, added) /\ p.pc # "tuning"
  BY <1>7, <1>8, <1>9
<1>12. Replaces(w, p, key, scope, added, entry)
  BY <1>6, <1>7, <1>8, <1>10, <1>11 DEF Replaces
<1> QED BY <1>3, <1>12, Committed

-----------------------------------------------------------------------------
LEMMA NextInv == IInv /\ [SettingsNext]_settingsVars => IInv'
<1> SUFFICES ASSUME IInv, [SettingsNext]_settingsVars PROVE IInv'
  OBVIOUS
<1>1. ASSUME NEW w \in Writers, SetRoute(w) \/ ClearRoute(w) \/ TuneRoute(w) PROVE IInv'
  BY <1>1, AskSetInv, AskClearInv, StartTuningInv DEF SetRoute, ClearRoute, TuneRoute
<1>2. ASSUME NEW w \in Writers, CheckPin(w) \/ ReadCurrent(w) \/ Save(w) \/ Delete(w) \/ Fail(w) PROVE IInv'
  BY <1>2, CheckPinInv, ReadCurrentInv, SaveInv, DeleteInv, FailInv
<1>3. CASE UNCHANGED settingsVars
  <2>1. UNCHANGED <<rows, log, change, standing, changes>>
    BY <1>3 DEF settingsVars
  <2>2. SettingsTypeOK' /\ StandingIsThere' /\ RowsAreBounded'
    BY <2>1 DEF IInv, SettingsTypeOK, StandingIsThere, RowsAreBounded
  <2>3. ChangesHold'
    BY <2>1 DEF IInv, ChangesHold, Holds, ClearOfPins, At, AllOverrides
  <2>4. LogIsASequence' /\ RowsAreLogged'
    BY <2>1 DEF IInv, LogIsASequence, RowsAreLogged
  <2>5. NewestTell'
    BY <2>1 DEF IInv, NewestTell, CurrentValue, At, AllOverrides
  <2> QED BY <2>2, <2>3, <2>4, <2>5 DEF IInv
<1> QED
  BY <1>1, <1>2, <1>3 DEF SettingsNext

(* The invariant: requests hold well-formed rows, a pass about to write    *)
(* is clear of the pins that have stood since it began, and rows and log   *)
(* agree.                                                                  *)
THEOREM Invariant == SettingsSpec => []IInv
BY InitInv, NextInv, PTL DEF SettingsSpec

(* However changes overlap, the newest entry of the log for a setting and  *)
(* a scope says what is stored there, and what the log does not mention    *)
(* was never written (repository.go, SaveOverride, DeleteOverride).        *)
THEOREM TheLogTells == SettingsSpec => []LogTellsTheSettings
<1>1. IInv => LogTellsTheSettings
  BY DEF IInv, NewestTell, RowsAreLogged, LogTellsTheSettings
<1> QED BY <1>1, Invariant, PTL

(* A tuning pass never replaces a pin that has stood since before the pass *)
(* began (set_override.go, checkTunerMayWrite).                            *)
THEOREM PinsSetEarlierStand == SettingsSpec => EarlierPinsStand
<1> DEFINE PinsKept == \A w \in Writers :
             TunerSaves(w) => At(change[w].row.key, change[w].row.scope) \cap standing[w] = {}
<1>1. IInv /\ [SettingsNext]_settingsVars => [PinsKept]_settingsVars
  BY DEF IInv, ChangesHold, Holds, TunerSaves, ClearOfPins
<1>2. SettingsSpec => [][PinsKept]_settingsVars
  BY <1>1, Invariant, PTL DEF SettingsSpec
<1> QED BY <1>2 DEF EarlierPinsStand

-----------------------------------------------------------------------------
(* The setting of a key at a place: its row's, or the default.             *)
LEMMA DecidedAt ==
    ASSUME IInv, NEW p \in Places, NEW key \in Key,
           NEW has, has = {row \in OverridesFor(p) : row.key = key /\ row.value.kind = Definitions[key].kind},
           NEW got, got = Effective(p)[key].value
    PROVE  /\ has = {} \/ Definitions[key].immutable => got = Definitions[key].default
           /\ has # {} /\ ~Definitions[key].immutable =>
                \E row \in has : /\ got = row.value
                                 /\ \A other \in has : ScopeRank(p, row.scope) <= ScopeRank(p, other.scope)
<1> DEFINE near == OverridesFor(p)
<1>1. IsFiniteSet(near)
  BY FS_Subset DEF IInv, RowsAreBounded, OverridesFor
<1>2. NearestOf(p, key, near, Effective(p)[key])
  BY <1>1, ResolvesToTheNearest DEF AllNearest, Effective
<1>4. CASE has = {} \/ Definitions[key].immutable
  <2>1. Say(p, key, near) = {}
    BY <1>4 DEF Say, Counts, OverridesFor
  <2> QED BY <1>2, <1>4, <2>1 DEF NearestOf, Unset
<1>5. CASE has # {} /\ ~Definitions[key].immutable
  <2>1. Say(p, key, near) = has
    BY <1>5 DEF Say, Counts, OverridesFor
  <2> QED BY <1>2, <1>5, <2>1 DEF NearestOf
<1> QED BY <1>4, <1>5

LEMMA NearestAt ==
    ASSUME IInv, NEW p \in Places, NEW key \in Key,
           NEW has, has = {row \in OverridesFor(p) : row.key = key /\ row.value.kind = Definitions[key].kind},
           NEW got, got = Effective(p)[key].value
    PROVE  /\ InBounds(key, got) \/ \E row \in has \cap Strays : got = row.value
           /\ IF has = {} \/ Definitions[key].immutable THEN got = Definitions[key].default
              ELSE \E row \in has : /\ got = row.value
                                    /\ \A other \in has : ScopeRank(p, row.scope) <= ScopeRank(p, other.scope)
<1>1. InBounds(key, Definitions[key].default)
  BY RegistryAssumption DEF InBounds
<1>2. \A row \in has : row \in rows /\ row.key = key
  BY DEF OverridesFor
<1>3. \A row \in has : row \in Strays \/ InBounds(key, row.value)
  BY <1>2 DEF IInv, RowsAreBounded
<1>4. CASE has = {} \/ Definitions[key].immutable
  BY <1>1, <1>4, DecidedAt
<1>5. CASE has # {} /\ ~Definitions[key].immutable
  <2>1. PICK row \in has : /\ got = row.value
                           /\ \A other \in has : ScopeRank(p, row.scope) <= ScopeRank(p, other.scope)
    BY <1>5, DecidedAt
  <2> QED BY <1>3, <1>5, <2>1
<1> QED BY <1>4, <1>5

LEMMA NearestHolds == IInv => NearestSettingWins
<1> SUFFICES ASSUME IInv, NEW p \in Places, NEW key \in Key
             PROVE  LET got == Effective(p)[key].value
                        has == {row \in OverridesFor(p) : row.key = key /\ row.value.kind = Definitions[key].kind}
                    IN  /\ InBounds(key, got) \/ \E row \in has \cap Strays : got = row.value
                        /\ IF has = {} \/ Definitions[key].immutable THEN got = Definitions[key].default
                           ELSE \E row \in has : /\ got = row.value
                                                 /\ \A other \in has : ScopeRank(p, row.scope) <= ScopeRank(p, other.scope)
  BY Zenon DEF NearestSettingWins
<1>1. PICK got, has : /\ got = Effective(p)[key].value
                      /\ has = {row \in OverridesFor(p) : row.key = key /\ row.value.kind = Definitions[key].kind}
  OBVIOUS
<1>2. /\ InBounds(key, got) \/ \E row \in has \cap Strays : got = row.value
      /\ IF has = {} \/ Definitions[key].immutable THEN got = Definitions[key].default
         ELSE \E row \in has : /\ got = row.value
                               /\ \A other \in has : ScopeRank(p, row.scope) <= ScopeRank(p, other.scope)
  BY <1>1, NearestAt
<1> QED BY <1>1, <1>2

(* At every place each setting is that of the nearest scope that has one,  *)
(* out of its bounds only where a row nobody wrote through this module is, *)
(* and the division ceiling is on whatever is stored (resolve.go, Resolve).*)
THEOREM TheNearestWins == SettingsSpec => []NearestSettingWins
BY Invariant, NearestHolds, PTL

-----------------------------------------------------------------------------
(* What a setting of the tariff is at a place.                             *)
LEMMA TariffSettings ==
    ASSUME IInv, NEW p \in Places, NEW key \in Key
    PROVE  LET got == Effective(p)[key].value IN
           /\ got.number \in Int
           /\ \/ InBounds(key, got)
              \/ \E row \in OverridesFor(p) \cap Strays : row.key \in Key /\ row.key = key /\ got = row.value
<1> DEFINE got == Effective(p)[key].value
           has == {row \in OverridesFor(p) : row.key = key /\ row.value.kind = Definitions[key].kind}
<1>1. /\ InBounds(key, got) \/ \E row \in has \cap Strays : got = row.value
      /\ IF has = {} \/ Definitions[key].immutable THEN got = Definitions[key].default
         ELSE \E row \in has : got = row.value
  BY NearestHolds DEF NearestSettingWins
<1>2. Definitions[key].default.number \in Int
  BY RegistryAssumption
<1>3. \A row \in has : row.value.number \in Int
  BY DEF IInv, SettingsTypeOK, OverridesFor, Override
<1>4. got.number \in Int
  <2> HIDE DEF got, has
  <2> QED BY <1>1, <1>2, <1>3
<1> QED BY <1>1, <1>4

(* What the registry says of the settings of a tariff.                     *)
LEMMA TariffBounds ==
    /\ {"pricing_delivery_base", "pricing_delivery_per_km", "pricing_expansion_mult",
        "pricing_free_delivery"} \subseteq Key
    /\ Definitions["pricing_delivery_base"].min = 1000
    /\ Definitions["pricing_delivery_per_km"].min = 200
    /\ Definitions["pricing_expansion_mult"].min = 10
    /\ Definitions["pricing_delivery_base"].kind # "bool"
    /\ Definitions["pricing_delivery_per_km"].kind # "bool"
    /\ Definitions["pricing_expansion_mult"].kind # "bool"
BY DEF Definitions, Key, Def, Taka

(* A tariff's rules.                                                       *)
IsTariff(t) ==
    /\ t.base \in Nat /\ t.perBand \in Nat /\ t.freeAbove \in Int
    /\ t.multiplier \in Nat /\ t.multiplier >= 10

LEMMA BandsGrow ==
    ASSUME NEW near \in Nat, NEW far \in Nat, near <= far
    PROVE  Bands(near) \in Nat /\ Bands(far) \in Nat /\ Bands(near) <= Bands(far)
BY DEF Bands, BandM

LEMMA Products ==
    ASSUME NEW a \in Nat, NEW m \in Nat, NEW n \in Nat, m <= n
    PROVE  a * m \in Nat /\ a * m <= a * n /\ m * a <= n * a
OBVIOUS

LEMMA FeesGrow ==
    ASSUME NEW t, IsTariff(t), NEW m \in Nat, NEW n \in Nat, m <= n
    PROVE  /\ FeeFor(t, m, FALSE) \in Nat /\ FeeFor(t, m, TRUE) \in Nat
           /\ FeeFor(t, m, FALSE) <= FeeFor(t, n, FALSE) /\ FeeFor(t, m, TRUE) <= FeeFor(t, n, TRUE)
           /\ FeeFor(t, m, FALSE) <= FeeFor(t, m, TRUE)
<1>1. PICK a, b : a = t.base + t.perBand * m /\ b = t.base + t.perBand * n
  OBVIOUS
<1>2. a \in Nat /\ b \in Nat /\ a <= b
  BY <1>1, Products DEF IsTariff
<1>3. PICK x, y : x = a * t.multiplier /\ y = b * t.multiplier
  OBVIOUS
<1>4. x \in Nat /\ y \in Nat /\ x <= y
  BY <1>2, <1>3, Products DEF IsTariff
<1>5. x >= a * 10
  BY <1>2, <1>3, Products DEF IsTariff
<1>6. (x + 5) \div 10 \in Nat /\ (x + 5) \div 10 <= (y + 5) \div 10 /\ a <= (x + 5) \div 10
  BY <1>2, <1>4, <1>5
<1> QED BY <1>1, <1>2, <1>3, <1>6 DEF FeeFor

LEMMA TariffsAreFair ==
    ASSUME NEW t, IsTariff(t)
    PROVE  FairTariff(t)
<1>1. ASSUME NEW near \in Distances, NEW far \in Distances, near <= far, NEW e \in BOOLEAN
      PROVE  DeliveryFee(t, near, e) <= DeliveryFee(t, far, e)
  <2>1. near \in Nat /\ far \in Nat
    BY PricedAssumption
  <2>2. PICK m, n : m = Bands(near) /\ n = Bands(far)
    OBVIOUS
  <2>3. m \in Nat /\ n \in Nat /\ m <= n
    BY <1>1, <2>1, <2>2, BandsGrow
  <2>4. FeeFor(t, m, FALSE) <= FeeFor(t, n, FALSE) /\ FeeFor(t, m, TRUE) <= FeeFor(t, n, TRUE)
    BY <2>3, FeesGrow, Zenon
  <2>5. CASE e = TRUE
    BY <2>2, <2>4, <2>5, Zenon DEF DeliveryFee
  <2>6. CASE e = FALSE
    BY <2>2, <2>4, <2>6, Zenon DEF DeliveryFee
  <2> QED BY <1>1, <2>5, <2>6, Zenon
<1>2. ASSUME NEW d \in Distances, NEW s \in Subtotals
      PROVE  LET local == Price(t, s, d, FALSE)
                 wide == Price(t, s, d, TRUE)
             IN  /\ local.total <= wide.total /\ wide.total = s + local.beforeWaiver + wide.surcharge
                 /\ local.away > 0 => /\ Price(t, s + local.away, d, FALSE).free
                                      /\ ~Price(t, s + local.away - 1, d, FALSE).free
                 /\ local.away = 0 /\ t.freeAbove # 0 => local.free
  <2>1. PICK above : above = t.freeAbove
    OBVIOUS
  <2>2. d \in Nat /\ s \in Nat /\ above \in Int
    BY <2>1, PricedAssumption DEF IsTariff
  <2>3. PICK plain, full : plain = DeliveryFee(t, d, FALSE) /\ full = DeliveryFee(t, d, TRUE)
    OBVIOUS
  <2>4. plain \in Nat /\ full \in Nat /\ plain <= full
    <3>1. PICK bands : bands = Bands(d)
      OBVIOUS
    <3>2. bands \in Nat
      BY <2>2, <3>1, BandsGrow
    <3>3. /\ FeeFor(t, bands, FALSE) \in Nat /\ FeeFor(t, bands, TRUE) \in Nat
          /\ FeeFor(t, bands, FALSE) <= FeeFor(t, bands, TRUE)
      <4>1. bands <= bands
        BY <3>2
      <4> QED BY <3>2, <4>1, FeesGrow, Zenon
    <3> QED BY <2>3, <3>1, <3>3 DEF DeliveryFee
  <2>5. PICK away, total, widened, surcharge, before :
          /\ away = Price(t, s, d, FALSE).away /\ total = Price(t, s, d, FALSE).total
          /\ before = Price(t, s, d, FALSE).beforeWaiver
          /\ widened = Price(t, s, d, TRUE).total /\ surcharge = Price(t, s, d, TRUE).surcharge
    OBVIOUS
  <2>6. \A n : Price(t, n, d, FALSE).free <=> above # 0 /\ n >= above
    BY <2>1 DEF Price, FreeDeliveryApplies
  <2>7. away = IF above = 0 \/ s >= above THEN 0 ELSE above - s
    BY <2>1, <2>5 DEF Price, AwayFromFree
  <2>8. away > 0 => Price(t, s + away, d, FALSE).free /\ ~Price(t, s + away - 1, d, FALSE).free
    <3>1. SUFFICES ASSUME away > 0
                   PROVE  above # 0 /\ s + away >= above /\ ~(s + away - 1 >= above)
      BY <2>6
    <3> QED BY <2>2, <2>7, <3>1
  <2>9. away = 0 /\ above # 0 => Price(t, s, d, FALSE).free
    <3>1. away = 0 /\ above # 0 => s >= above
      BY <2>2, <2>7
    <3> QED BY <2>6, <3>1
  <2>10. widened = s + full /\ surcharge = full - plain /\ before = plain /\ total \in {s + 0, s + plain}
    BY <2>3, <2>5 DEF Price, FreeDeliveryApplies, Surcharge
  <2>11. total <= widened /\ widened = s + before + surcharge
    BY <2>2, <2>4, <2>10
  <2> QED BY <2>1, <2>5, <2>8, <2>9, <2>11
<1> QED BY <1>1, <1>2 DEF FairTariff

(* Whatever the settings become, a place has a tariff unless a row nobody  *)
(* wrote through this module is out of bounds there, and under it fees     *)
(* grow with the distance and with the search, and free delivery starts    *)
(* where it is promised (delivery.go, quote.go).                           *)
THEOREM FairPrices == SettingsSpec => []PricesStayFair
<1>1. ASSUME IInv PROVE PricesStayFair
  <2> SUFFICES ASSUME NEW p \in Places, NEW t, t = TariffOf(Effective(p))
               PROVE  IF t = NoTariff
                      THEN \E row \in OverridesFor(p) \cap Strays : row.key \in Key /\ ~InBounds(row.key, row.value)
                      ELSE FairTariff(t)
    BY DEF PricesStayFair
  <2>1. PICK base, perBand, mult, free :
          /\ base = Effective(p)["pricing_delivery_base"].value
          /\ perBand = Effective(p)["pricing_delivery_per_km"].value
          /\ mult = Effective(p)["pricing_expansion_mult"].value
          /\ free = Effective(p)["pricing_free_delivery"].value
    OBVIOUS
  <2>2. /\ base.number \in Int /\ perBand.number \in Int /\ mult.number \in Int /\ free.number \in Int
    BY <1>1, <2>1, TariffSettings, TariffBounds
  <2>3. t = IF base.number < 0 \/ perBand.number < 0 \/ mult.number < 10 THEN NoTariff
            ELSE [base |-> base.number, perBand |-> perBand.number,
                  multiplier |-> mult.number, freeAbove |-> free.number]
    BY <2>1 DEF TariffOf, NewTariff
  <2>4. CASE base.number < 0 \/ perBand.number < 0 \/ mult.number < 10
    <3> SUFFICES \E row \in OverridesFor(p) \cap Strays : row.key \in Key /\ ~InBounds(row.key, row.value)
      BY <2>3, <2>4
    <3>1. CASE base.number < 0
      <4>1. ~InBounds("pricing_delivery_base", base)
        BY <2>2, <3>1, TariffBounds, RegistryAssumption DEF InBounds
      <4> QED BY <1>1, <2>1, <4>1, TariffBounds, TariffSettings
    <3>2. CASE perBand.number < 0
      <4>1. ~InBounds("pricing_delivery_per_km", perBand)
        BY <2>2, <3>2, TariffBounds, RegistryAssumption DEF InBounds
      <4> QED BY <1>1, <2>1, <4>1, TariffBounds, TariffSettings
    <3>3. CASE mult.number < 10
      <4>1. ~InBounds("pricing_expansion_mult", mult)
        BY <2>2, <3>3, TariffBounds, RegistryAssumption DEF InBounds
      <4> QED BY <1>1, <2>1, <4>1, TariffBounds, TariffSettings
    <3> QED BY <2>4, <3>1, <3>2, <3>3
  <2>5. CASE ~(base.number < 0 \/ perBand.number < 0 \/ mult.number < 10)
    <3>1. IsTariff(t)
      BY <2>2, <2>3, <2>5 DEF IsTariff
    <3>2. t # NoTariff
      BY <2>3, <2>5 DEF NoTariff
    <3> QED BY <3>1, <3>2, TariffsAreFair
  <2> QED BY <2>4, <2>5
<1> QED BY <1>1, Invariant, PTL

=============================================================================
