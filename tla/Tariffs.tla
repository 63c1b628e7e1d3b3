------------------------------- MODULE Tariffs -------------------------------
(***************************************************************************)
(* What a delivery costs and what an order comes to, from the settings     *)
(* that hold where it is bought.  Amounts are poisha, distances metres,    *)
(* the multiplier is in tenths.                                            *)
(***************************************************************************)
EXTENDS Registry

BandM == 1000

NoTariff == [refused |-> TRUE]

(* NewTariff: the rules this package refuses to bend.                      *)
NewTariff(base, perBand, multiplier, freeAbove) ==
    IF base < 0 \/ perBand < 0 \/ multiplier < 10 THEN NoTariff
    ELSE [base |-> base, perBand |-> perBand, multiplier |-> multiplier, freeAbove |-> freeAbove]

(* Service.Tariff, from the settings resolved for a place.                 *)
TariffOf(settings) ==
    NewTariff(settings["pricing_delivery_base"].value.number,
              settings["pricing_delivery_per_km"].value.number,
              settings["pricing_expansion_mult"].value.number,
              settings["pricing_free_delivery"].value.number)

Bands(metres) == (metres + BandM - 1) \div BandM

(* feeFor: the multiplier is on the whole fee, rounded to the nearest.     *)
FeeFor(t, bands, expanded) ==
    LET minor == t.base + t.perBand * bands IN
    IF expanded THEN (minor * t.multiplier + 5) \div 10 ELSE minor

DeliveryFee(t, metres, expanded) == FeeFor(t, Bands(metres), expanded)

Surcharge(t, metres, expanded) == DeliveryFee(t, metres, expanded) - DeliveryFee(t, metres, FALSE)

FreeDeliveryEverywhere(t, subtotal, expanded) == t.freeAbove # 0 /\ subtotal >= t.freeAbove

(* Free delivery is for a local order, and zero switches it off.           *)
FreeDeliveryApplies(t, subtotal, expanded) ==
    ~expanded /\ t.freeAbove # 0 /\ subtotal >= t.freeAbove

AwayFromFree(t, subtotal, expanded) ==
    IF expanded \/ t.freeAbove = 0 \/ subtotal >= t.freeAbove THEN 0 ELSE t.freeAbove - subtotal

(* Tariff.Price.                                                           *)
Price(t, subtotal, metres, expanded) ==
    LET full == DeliveryFee(t, metres, expanded)
        free == FreeDeliveryApplies(t, subtotal, expanded)
        charged == IF free THEN 0 ELSE full
    IN  [subtotal |-> subtotal, delivery |-> charged, beforeWaiver |-> full, free |-> free,
         surcharge |-> Surcharge(t, metres, expanded),
         away |-> AwayFromFree(t, subtotal, expanded), total |-> subtotal + charged]
=============================================================================
