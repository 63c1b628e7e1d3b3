------------------------------ MODULE Settings ------------------------------
(***************************************************************************)
(* The settings while administrators change them and the tuner moves the   *)
(* radii of an area.  A change reads what its scope held, then writes the  *)
(* override and its entry in the log in one transaction; the tuner decides *)
(* on one reading of everything and then writes key by key, looking for a  *)
(* pin before each.                                                        *)
(***************************************************************************)
EXTENDS Tariffs

CONSTANTS
    Writers,    \* requests in flight
    Places,     \* placements the tuner is run for and orders are priced at
    Scopes,     \* scopes an administrator names, well formed or not
    Entries,    \* keys and numbers an administrator sends
    Signals,    \* what a tuning pass is told
    Strays,     \* rows nobody wrote through this module (a migration, a console)
    Distances,  \* distances in metres orders are priced at
    Subtotals,  \* what is in their carts, in poisha
    MaxChanges  \* bound: requests started

AnyScope == [level : STRING, code : STRING]

Override == [key : STRING, scope : AnyScope, value : [kind : Kind, number : Int], pinned : BOOLEAN]

ASSUME PlacesAssumption ==
    \A p \in Places : {Scope("area", p.area), Scope("district", p.district),
                        Scope("division", p.division)} \subseteq AnyScope
ASSUME SignalsAssumption == Signals \subseteq Signal
ASSUME EntriesAssumption == Scopes \subseteq AnyScope /\ Entries \subseteq Key \X Int
ASSUME StraysAssumption ==
    /\ Strays \subseteq Override /\ IsFiniteSet(Strays)
    /\ \A r1, r2 \in Strays : r1.key = r2.key /\ r1.scope = r2.scope => r1 = r2
ASSUME PricedAssumption == Distances \subseteq Nat /\ Subtotals \subseteq Nat
ASSUME MaxChangesAssumption == MaxChanges \in Nat

VARIABLES
    rows,       \* config_overrides
    log,        \* config_changes, in the order they were committed
    change,     \* what each request has read
    standing,   \* the pins that have stood since each tuning pass began
    changes

settingsVars == <<rows, log, change, standing, changes>>

(* The fixed list of what the tuner may move.                              *)
TunableKeys == <<"discovery_base_radius", "dispatch_partner_radius">>

ASSUME TunableAssumption ==
    \A n \in DOMAIN TunableKeys : TunableKeys[n] \in Key /\ Definitions[TunableKeys[n]].tunable

NoChange == [pc |-> "idle"]

AllOverrides(scope) == {row \in rows : row.scope = scope /\ row.key \in Key}

OverridesFor(place) == {row \in rows : row.scope \in Range(Chain(place))}

Effective(place) == Resolve(place, OverridesFor(place))

At(key, scope) == {row \in AllOverrides(scope) : row.key = key}

(* currentValue: what the scope held, or the default.                      *)
CurrentValue(key, scope) ==
    IF At(key, scope) = {} THEN Definitions[key].default
    ELSE (CHOOSE row \in At(key, scope) : TRUE).value

PinnedAnywhereElse(key, scope) == \E row \in rows : row.key = key /\ row.pinned /\ row.scope # scope

PinnedAt(key, scope) == \E row \in At(key, scope) : row.pinned

SettingsInit ==
    /\ rows \in {{}, Strays}
    /\ log = <<>>
    /\ change = [w \in Writers |-> NoChange]
    /\ standing = [w \in Writers |-> {}]
    /\ changes = 0

MayBegin(w) == change[w] = NoChange /\ changes < MaxChanges

Begins(w, q) ==
    /\ changes' = changes + 1
    /\ change' = [change EXCEPT ![w] = q]
    /\ UNCHANGED <<rows, log>>

GoesOn(w, q) ==
    /\ change' = [change EXCEPT ![w] = q]
    /\ UNCHANGED <<rows, log, standing, changes>>

(* SetOverrideUseCase for an administrator, up to the transaction.         *)
AskSet(w, key, scope, number, pinned) ==
    LET value == Parse(key, number) IN
    /\ MayBegin(w)
    /\ IsScope(scope.level, scope.code)
    /\ ~Definitions[key].immutable
    /\ InBounds(key, value)
    /\ Begins(w, [pc |-> "set", actor |-> "admin", old |-> CurrentValue(key, scope), plan |-> <<>>,
                  row |-> [key |-> key, scope |-> scope, value |-> value, pinned |-> pinned]])
    /\ UNCHANGED standing

(* ClearOverrideUseCase: not the global value, and only one that is there. *)
AskClear(w, key, scope) ==
    /\ MayBegin(w)
    /\ IsScope(scope.level, scope.code) /\ scope.level # "global"
    /\ At(key, scope) # {}
    /\ Begins(w, [pc |-> "clear", key |-> key, scope |-> scope, old |-> CurrentValue(key, scope)])
    /\ UNCHANGED standing

-----------------------------------------------------------------------------
(* What the tuner would write at an area, from one reading of the settings.*)
Plan(place, signal) ==
    LET settings == Effective(place)
        Tuned(key) == Tune(Definitions[key], settings[key].value.number,
                           settings["discovery_min_merchants"].value.number, signal)
        Move(key) == IF Tuned(key) = settings[key].value.number THEN <<>>
                     ELSE <<[key |-> key, value |-> Parse(key, Tuned(key))]>>
    IN  Move(TunableKeys[1]) \o Move(TunableKeys[2])

StartTuning(w, place, signal) ==
    /\ MayBegin(w)
    /\ IsScope("area", place.area) /\ Plan(place, signal) # <<>>
    /\ Begins(w, [pc |-> "tuning", scope |-> Scope("area", place.area), plan |-> Plan(place, signal)])
    /\ standing' = [standing EXCEPT ![w] = {row \in rows : row.pinned}]

(* After a key the pass goes on with the next one.                         *)
Then(scope, plan) ==
    IF plan = <<>> THEN NoChange ELSE [pc |-> "tuning", scope |-> scope, plan |-> plan]

(* checkTunerMayWrite: a pinned setting is skipped.                        *)
CheckPin(w) ==
    /\ change[w].pc = "tuning"
    /\ LET next == Head(change[w].plan)
           key == next.key
           scope == change[w].scope
       IN  IF PinnedAt(key, scope)
           THEN GoesOn(w, Then(scope, Tail(change[w].plan)))
           ELSE /\ Definitions[key].tunable /\ InBounds(key, next.value)
                /\ GoesOn(w, [change[w] EXCEPT !.pc = "unpinned"])

ReadCurrent(w) ==
    /\ change[w].pc = "unpinned"
    /\ LET next == Head(change[w].plan)
           scope == change[w].scope
       IN  GoesOn(w, [pc |-> "set", actor |-> "auto_tuner", plan |-> Tail(change[w].plan),
                    old |-> CurrentValue(next.key, scope),
                    row |-> [key |-> next.key, scope |-> scope, value |-> next.value,
                             pinned |-> FALSE]])

-----------------------------------------------------------------------------
(* insertChange.                                                           *)
Entry(key, scope, old, new, actor) ==
    [key |-> key, scope |-> scope, old |-> old, new |-> new, actor |-> actor]

LoggedWhenItChanges(entry) == IF entry.old = entry.new THEN log ELSE Append(log, entry)

Logged(entry) == Append(log, entry)

Others(key, scope) == {row \in rows : row.key # key \/ row.scope # scope}

(* SaveOverride and its entry; what it replaces has stood no longer.       *)
Save(w) ==
    /\ change[w].pc = "set"
    /\ LET q == change[w] IN
       /\ rows' = Others(q.row.key, q.row.scope) \cup {q.row}
       /\ log' = Logged(Entry(q.row.key, q.row.scope, q.old, q.row.value, q.actor))
       /\ change' = [change EXCEPT ![w] = Then(q.row.scope, q.plan)]
       /\ standing' = [v \in Writers |-> standing[v] \ At(q.row.key, q.row.scope)]
    /\ UNCHANGED changes

Delete(w) ==
    /\ change[w].pc = "clear"
    /\ LET q == change[w] IN
       /\ rows' = Others(q.key, q.scope)
       /\ log' = Logged(Entry(q.key, q.scope, q.old, Definitions[q.key].default, "admin"))
       /\ change' = [change EXCEPT ![w] = NoChange]
       /\ standing' = [v \in Writers |-> standing[v] \ At(q.key, q.scope)]
    /\ UNCHANGED changes

(* The database fails, before or in the transaction: nothing is written,   *)
(* and a tuning pass leaves its remaining keys alone.                      *)
Fail(w) == change[w] # NoChange /\ GoesOn(w, NoChange)

SetRoute(w) ==
    \E e \in Entries, scope \in Scopes, pinned \in BOOLEAN : AskSet(w, e[1], scope, e[2], pinned)

ClearRoute(w) == \E e \in Entries, scope \in Scopes : AskClear(w, e[1], scope)

TuneRoute(w) == \E p \in Places, signal \in Signals : StartTuning(w, p, signal)

SettingsNext ==
    \E w \in Writers : \/ SetRoute(w) \/ ClearRoute(w) \/ TuneRoute(w)
                       \/ CheckPin(w) \/ ReadCurrent(w) \/ Save(w) \/ Delete(w) \/ Fail(w)

SettingsSpec == SettingsInit /\ [][SettingsNext]_settingsVars

-----------------------------------------------------------------------------
SettingsTypeOK ==
    /\ \A row \in rows : row \in Override
    /\ \A r1, r2 \in rows : r1.key = r2.key /\ r1.scope = r2.scope => r1 = r2
    /\ changes \in 0..MaxChanges
    /\ \A w \in Writers : \A row \in standing[w] : row.pinned

TunerSaves(w) ==
    /\ change[w] # NoChange /\ change[w].pc = "set" /\ change[w].actor = "auto_tuner"
    /\ change'[w] # change[w] /\ log' # log

(* At every place each setting is that of the nearest scope that has one,  *)
(* out of its bounds only where a row nobody wrote through this module is, *)
(* and the division ceiling is on whatever is stored (resolve.go, Resolve; *)
(* docs/technical/config.md, Resolution).                                  *)
NearestSettingWins ==
    \A p \in Places :
        LET settings == Effective(p)
            near == OverridesFor(p)
        IN  \A key \in Key :
              LET got == settings[key].value
                  has == {row \in near : row.key = key /\ row.value.kind = Definitions[key].kind}
              IN  /\ InBounds(key, got) \/ \E row \in has \cap Strays : got = row.value
                  /\ IF has = {} \/ Definitions[key].immutable THEN got = Definitions[key].default
                     ELSE \E row \in has : /\ got = row.value
                                           /\ \A other \in has : ScopeRank(p, row.scope) <= ScopeRank(p, other.scope)

(* However changes overlap, the newest entry of the log for a setting and  *)
(* a scope says what is stored there now: its value, or the default once   *)
(* cleared; what the log does not mention was never written (repository.go,*)
(* SaveOverride, DeleteOverride); both keep their types.                   *)
LogTellsTheSettings ==
    /\ SettingsTypeOK
    /\ \A n \in DOMAIN log :
         \/ \E m \in DOMAIN log : m > n /\ log[m].key = log[n].key /\ log[m].scope = log[n].scope
         \/ log[n].new = CurrentValue(log[n].key, log[n].scope)
    /\ \A row \in rows \ Strays :
         \E n \in DOMAIN log : log[n].key = row.key /\ log[n].scope = row.scope

(* A tuning pass never replaces a pin that has stood since before the pass *)
(* began (set_override.go, checkTunerMayWrite).                            *)
EarlierPinsStand ==
    [][\A w \in Writers :
         TunerSaves(w) => At(change[w].row.key, change[w].row.scope) \cap standing[w] = {}]_settingsVars

(* A tariff that is fair at the distances and subtotals orders are priced *)
(* at.                                                                    *)
FairTariff(t) ==
    /\ \A near, far \in Distances : near <= far =>
         \A e \in BOOLEAN : DeliveryFee(t, near, e) <= DeliveryFee(t, far, e)
    /\ \A d \in Distances, s \in Subtotals :
         LET local == Price(t, s, d, FALSE)
             wide == Price(t, s, d, TRUE)
         IN  /\ local.total <= wide.total /\ wide.total = s + local.beforeWaiver + wide.surcharge
             /\ local.away > 0 => /\ Price(t, s + local.away, d, FALSE).free
                                  /\ ~Price(t, s + local.away - 1, d, FALSE).free
             /\ local.away = 0 /\ t.freeAbove # 0 => local.free

(* Whatever the settings become, a place has a tariff unless a row nobody  *)
(* wrote through this module is out of bounds there, and under the tariff  *)
(* a farther delivery is never cheaper, a widened search never cheaper     *)
(* than a local one, and free delivery starts exactly where it is promised *)
(* (delivery.go, quote.go; D2).                                            *)
PricesStayFair ==
    \A p \in Places :
        LET t == TariffOf(Effective(p)) IN
        IF t = NoTariff
        THEN \E row \in OverridesFor(p) \cap Strays : row.key \in Key /\ ~InBounds(row.key, row.value)
        ELSE FairTariff(t)

(* config.md, Limits on the auto-tuner: never a pinned variable.  A pin    *)
(* set after the tuner looked is overwritten, and gone.                    *)
PinsStand ==
    [][\A w \in Writers :
         TunerSaves(w) => ~PinnedAt(change[w].row.key, change[w].row.scope)]_settingsVars

(* config.md, The audit log: every write records the old value.            *)
OldValuesAreTrue ==
    [][log' # log => LET c == log'[Len(log')] IN c.old = CurrentValue(c.key, c.scope)]_settingsVars
=============================================================================
