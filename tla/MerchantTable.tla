---------------------------- MODULE MerchantTable ----------------------------
(***************************************************************************)
(* The tables of the merchant module: a shop's statuses and the moves      *)
(* between them, the papers each kind of shop must show, and what its page *)
(* says of it.                                                             *)
(***************************************************************************)
EXTENDS Naturals, FiniteSets

Type == {"restaurant", "grocery", "pharmacy"}

Status == {"draft", "pending_review", "approved", "rejected", "suspended"}

DocumentKind == {"trade_licence", "national_id", "food_licence", "drug_licence"}

Holiday == {"none", "until", "forever"}

NextStatuses(s) ==
    CASE s = "draft"          -> {"pending_review"}
      [] s = "pending_review" -> {"approved", "rejected"}
      [] s = "rejected"       -> {"pending_review"}
      [] s = "approved"       -> {"suspended"}
      [] s = "suspended"      -> {"approved"}

RequiredDocuments(t) ==
    {"trade_licence", "national_id"} \cup
    CASE t = "restaurant" -> {"food_licence"}
      [] t = "pharmacy"   -> {"drug_licence"}
      [] t = "grocery"    -> {}

RequiresDocument(t, k) == k \in RequiredDocuments(t)

MissingDocuments(t, papers) == RequiredDocuments(t) \ papers

(* ReadyForReview: the details were checked when the row was made.         *)
ReadyForReview(row, papers) == MissingDocuments(row.type, papers) = {}

HolidayActive(holiday, past) == holiday = "forever" \/ (holiday = "until" /\ ~past)

(* IsListed: past says whether the clock is past the holiday's end.        *)
IsListed(row, past) == row.status = "approved" /\ ~HolidayActive(row.holiday, past)

(* NewHoliday: an end that is not after now is refused.                    *)
NewHoliday(end, past) == end \in {"until", "forever"} /\ (end = "until" => ~past)
=============================================================================
