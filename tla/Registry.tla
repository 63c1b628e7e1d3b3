------------------------------ MODULE Registry ------------------------------
(***************************************************************************)
(* The settings an operator can change: what each may hold, where it may   *)
(* be overridden, which override counts at a place, and how the tuner      *)
(* would move a radius.  Metres, poisha and seconds are whole numbers, a   *)
(* ratio is in tenths, a switch is 0 or 1.                                 *)
(***************************************************************************)
EXTENDS Integers, SequencesExt, FiniteSetsExt, Functions

Kind == {"count", "bool", "ratio", "money_minor", "distance_m", "duration_s"}

Value(kind, number) == [kind |-> kind, number |-> number]

Def(kind, default, min, max, tunable) ==
    [kind |-> kind, default |-> Value(kind, default), min |-> min, max |-> max,
     tunable |-> tunable, immutable |-> FALSE]

Km(n) == 1000 * n

Taka(n) == 100 * n

Definitions == [
    discovery_base_radius     |-> Def("distance_m", Km(5), Km(1), Km(25), TRUE),
    discovery_expansion_step  |-> Def("distance_m", Km(5), Km(1), Km(10), TRUE),
    discovery_max_expansions  |-> Def("count", 4, 0, 10, FALSE),
    discovery_min_merchants   |-> Def("count", 5, 1, 50, FALSE),
    discovery_auto_expand     |-> Def("bool", 0, 0, 1, FALSE),
    discovery_division_ceil   |-> [Def("bool", 1, 0, 1, FALSE) EXCEPT !.immutable = TRUE],
    pricing_delivery_base     |-> Def("money_minor", Taka(40), Taka(10), Taka(200), TRUE),
    pricing_delivery_per_km   |-> Def("money_minor", Taka(10), Taka(2), Taka(50), TRUE),
    pricing_expansion_mult    |-> Def("ratio", 15, 10, 30, TRUE),
    pricing_free_delivery     |-> Def("money_minor", Taka(500), Taka(100), Taka(5000), TRUE),
    dispatch_short_distance   |-> Def("distance_m", Km(5), Km(1), Km(15), TRUE),
    dispatch_long_distance    |-> Def("distance_m", Km(25), Km(5), Km(100), TRUE),
    dispatch_partner_radius   |-> Def("distance_m", Km(7), Km(1), Km(30), TRUE),
    dispatch_assign_timeout   |-> Def("duration_s", 30, 10, 300, FALSE),
    dispatch_max_concurrent   |-> Def("count", 3, 1, 10, FALSE),
    order_cancellation_window |-> Def("duration_s", 120, 0, 900, FALSE),
    order_cod_limit           |-> Def("money_minor", Taka(5000), Taka(500), Taka(50000), TRUE),
    auth_otp_requests_per_hour |-> Def("count", 5, 1, 20, FALSE),
    auth_otp_verify_attempts  |-> Def("count", 5, 3, 10, FALSE),
    auth_otp_lockout_window   |-> Def("duration_s", 900, 60, 3600, FALSE),
    auth_otp_ttl              |-> Def("duration_s", 300, 60, 600, FALSE),
    auth_access_token_ttl     |-> Def("duration_s", 900, 300, 3600, FALSE),
    auth_refresh_token_ttl    |-> Def("duration_s", 5184000, 86400, 15552000, FALSE),
    auth_max_sessions         |-> Def("count", 5, 1, 20, FALSE)]

Key == DOMAIN Definitions

(* The table is sound; nothing in it is a parameter.                       *)
ASSUME RegistryAssumption ==
    /\ Key \subseteq STRING
    /\ \A key \in Key : /\ Definitions[key].kind \in Kind
                        /\ Definitions[key].min \in Int /\ Definitions[key].max \in Int
                        /\ Definitions[key].default.number
                              \in Definitions[key].min..Definitions[key].max
                        /\ Definitions[key].default.kind = Definitions[key].kind
                        /\ Definitions[key].tunable => Definitions[key].kind # "bool"

(* Parse: the text of a setting says nothing of its kind, its key does.    *)
Parse(key, number) == Value(Definitions[key].kind, number)

(* Definition.InBounds.                                                    *)
InBounds(key, value) ==
    LET def == Definitions[key] IN
    /\ value.kind = def.kind
    /\ def.kind = "bool" \/ value.number \in def.min..def.max

-----------------------------------------------------------------------------
NoCode == ""

Scope(level, code) == [level |-> level, code |-> code]

GlobalScope == Scope("global", NoCode)

(* NewScope: the global scope has no code and every other has one.         *)
IsScope(level, code) ==
    \/ level = "global" /\ code = NoCode
    \/ level \in {"area", "district", "division"} /\ code # NoCode

(* Placement.Chain: a place's scopes, the nearest first; a place may lack  *)
(* any of them but the last.                                               *)
Named(level, code) == IF code = NoCode THEN <<>> ELSE <<Scope(level, code)>>

Chain(place) ==
    Named("area", place.area) \o Named("district", place.district)
        \o Named("division", place.division) \o <<GlobalScope>>

ScopeRank(place, scope) ==
    LET chain == Chain(place) IN
    IF scope \in Range(chain) THEN CHOOSE n \in DOMAIN chain : chain[n] = scope
    ELSE Len(chain) + 1

FirstOneWins(place, row, best) ==
    ScopeRank(place, row.scope) <= Len(Chain(place)) /\ best.source = "default"

Nearer(place, row, best) ==
    ScopeRank(place, row.scope) <
        IF best.source = "default" THEN Len(Chain(place)) + 1
        ELSE ScopeRank(place, best.scope)

Counts(row) ==
    row.key \in Key /\ ~Definitions[row.key].immutable /\ row.value.kind = Definitions[row.key].kind

Unset(key) == [value |-> Definitions[key].default, scope |-> GlobalScope, source |-> "default"]

(* One turn of Resolve's loop: a row wins when its key is still known, may *)
(* be changed, has its kind, and is of a nearer scope than the best so far.*)
Turn(place, row, best) ==
    IF Counts(row) /\ Nearer(place, row, best[row.key])
    THEN [best EXCEPT ![row.key] = [value |-> row.value, scope |-> row.scope, source |-> "override"]]
    ELSE best

(* Resolve over the rows in whatever order the database returns them.      *)
Resolve(place, rows) ==
    FoldSet(LAMBDA row, best : Turn(place, row, best), [key \in Key |-> Unset(key)], rows)

-----------------------------------------------------------------------------
(* Tune, ALG-09: one step of a tenth wider where shops are few or          *)
(* deliveries fail, narrower where shops abound and deliveries do not.     *)
OversupplyFactor == 2

Signal == [nearby : Nat, failing : BOOLEAN]

Step(metres) == IF metres \div 10 = 0 THEN 1 ELSE metres \div 10

Clamp(v, lo, hi) == IF v < lo THEN lo ELSE IF v > hi THEN hi ELSE v

Tune(def, metres, minMerchants, signal) ==
    LET thin == minMerchants > 0 /\ signal.nearby < minMerchants
        oversupplied == /\ minMerchants > 0 /\ ~signal.failing
                        /\ signal.nearby >= minMerchants * OversupplyFactor
    IN  IF thin \/ signal.failing THEN Clamp(metres + Step(metres), def.min, def.max)
        ELSE IF oversupplied THEN Clamp(metres - Step(metres), def.min, def.max)
        ELSE metres
=============================================================================
