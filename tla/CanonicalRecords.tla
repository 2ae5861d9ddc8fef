-------------------------- MODULE CanonicalRecords --------------------------
(***************************************************************************)
(* The immutable records of packages/domain: what their constructors       *)
(* accept, as one predicate each, and how they store points in time.       *)
(*                                                                         *)
(* Text is Trimmed or not, a number is an integer or NotFinite, dates are  *)
(* integers, and None stands for an absent field.  legs is a set: no check *)
(* depends on the order of the legs or on their repetition.                *)
(***************************************************************************)
EXTENDS Integers

CONSTANTS
    Zone,       \* time zones other than UTC
    Wall,       \* the wall-clock readings sources give
    OffsetOf,   \* Zone \X Wall \X {0, 1} -> offset from UTC, by the fold
    Utc, Naive,
    Trimmed,    \* text that is non-empty, trimmed and short enough
    NotFinite,  \* a Decimal that is NaN or infinite
    None

ASSUME ZoneAssumption ==
    /\ Wall \subseteq Int
    /\ OffsetOf \in [Zone \X Wall \X {0, 1} -> Int]
    /\ Utc \notin Zone \union {Naive}
    /\ Naive \notin Zone
    /\ None \notin [zone : Zone \union {Utc, Naive}, wall : Int, fold : {0, 1}]
    /\ None \notin Int

-----------------------------------------------------------------------------
(* Python's datetime.                                                      *)

Datetime == [zone : Zone \union {Utc, Naive}, wall : Wall, fold : {0, 1}]

Aware(d) == d.zone # Naive

utcoffset(d) == IF d.zone = Utc THEN 0 ELSE OffsetOf[<<d.zone, d.wall, d.fold>>]

Instant(d) == d.wall - utcoffset(d)

\* Two datetimes of one zone compare by their wall clocks, whatever the fold.
Before(d, e) ==
    IF d.zone = e.zone THEN d.wall < e.wall ELSE Instant(d) < Instant(e)

\* Between zones a reading whose offset depends on the fold equals nothing.
FoldMatters(d) == d.zone # Utc /\ OffsetOf[<<d.zone, d.wall, 0>>] # OffsetOf[<<d.zone, d.wall, 1>>]
Same(d, e) ==
    IF d.zone = e.zone THEN d.wall = e.wall
    ELSE Instant(d) = Instant(e) /\ ~FoldMatters(d) /\ ~FoldMatters(e)

-----------------------------------------------------------------------------
(* temporal.py, and the optional fields that use it.                       *)

\* Mutant: the reading is declared to be UTC.
as_utc_Relabelled(d) == [d EXCEPT !.zone = Utc, !.fold = 0]

\* Mutant: the zone is checked and kept.
as_utc_Kept(d) == d

as_utc(d) == [zone |-> Utc, wall |-> Instant(d), fold |-> 0]

as_utc_optional(d) == IF d = None THEN None ELSE as_utc(d)

\* Mutant: the order is checked before the conversion.
TimeRangeInOrderAsGiven(start, end) == ~Before(end, start)

TimeRangeInOrder(start, end) == ~Before(as_utc(end), as_utc(start))

TimeRangeAccepted(r) == Aware(r.start) /\ Aware(r.end) /\ TimeRangeInOrder(r.start, r.end)

TimeRange(r) == [start |-> as_utc(r.start), end |-> as_utc(r.end)]

-----------------------------------------------------------------------------
(* numeric.py.                                                             *)

Finite(value) == value # NotFinite
MoneyAccepted(amount) == Finite(amount)
QuantityAccepted(value) == Finite(value)
PriceAccepted(value) == Finite(value) /\ value >= 0
FxRateAccepted(value) == Finite(value) /\ value > 0

Optionally(Accepted(_), field) == field # None => Accepted(field)

-----------------------------------------------------------------------------
(* activities.py.                                                          *)

InstrumentLegAccepted(l) ==
    /\ QuantityAccepted(l.quantity)
    /\ Optionally(PriceAccepted, l.execution_price)

CashLegAccepted(l) ==
    /\ MoneyAccepted(l.amount)
    /\ (l.role = "fee") <=> (l.fee_category # None)
    /\ (l.role = "tax") <=> (l.tax_category # None)
    /\ l.tax_jurisdiction # None => l.role = "tax" /\ l.tax_jurisdiction = Trimmed
    /\ l.source_label \in {None, Trimmed}

LegAccepted(l) ==
    IF l.type = "cash" THEN CashLegAccepted(l) ELSE InstrumentLegAccepted(l)

CashLegs(a) == {l \in a.legs : l.type = "cash"}
InstrumentLegs(a) == a.legs \ CashLegs(a)
CashRoles(a) == {l.role : l \in CashLegs(a)}
TransferMetadata(a) == {a.transfer_id, a.transfer_direction, a.transfer_method}

IncomeShape(a) == a.kind \in {"dividend", "interest"} => "income" \in CashRoles(a)

\* Mutant: a trade settles in one amount.
TradeShapeNet(a) ==
    a.kind = "trade" => InstrumentLegs(a) # {} /\ \E l \in CashLegs(a) : CashLegs(a) = {l}

TradeShape(a) == a.kind = "trade" => InstrumentLegs(a) # {} /\ CashLegs(a) # {}

TransferShape(a) ==
    IF a.kind = "transfer"
      THEN /\ None \notin TransferMetadata(a)
           /\ \E l \in a.legs : l.role = "transfer"
      ELSE TransferMetadata(a) = {None}

CorporateActionShape(a) ==
    IF a.kind = "corporate_action"
      THEN InstrumentLegs(a) # {} /\ a.corporate_action_type # None
      ELSE a.corporate_action_type = None

ConversionShape(a) ==
    a.kind = "fx_conversion" =>
        \E l, m \in CashLegs(a) : l.currency # m.currency

ValidLegShape(a) ==
    /\ TradeShape(a)
    /\ IncomeShape(a)
    /\ a.kind = "fee" => "fee" \in CashRoles(a)
    /\ a.kind = "tax" => "tax" \in CashRoles(a)
    /\ a.kind \in {"deposit", "withdrawal"} => "principal" \in CashRoles(a)
    /\ TransferShape(a)
    /\ CorporateActionShape(a)
    /\ ConversionShape(a)

DatesInOrder(first, last) == first # None /\ last # None => first <= last

ActivityAccepted(a) ==
    /\ a.legs # {}
    /\ \A l \in a.legs : LegAccepted(l)
    /\ a.supersedes_id # a.id
    /\ DatesInOrder(a.trade_date, a.settlement_date)
    /\ Aware(a.effective_at) /\ Aware(a.ingested_at)
    /\ ValidLegShape(a)

Activity(a) ==
    [a EXCEPT !.effective_at = as_utc(@), !.ingested_at = as_utc(@)]

-----------------------------------------------------------------------------
(* quality.py and observations.py.                                         *)

DataQualityAccepted(q) ==
    /\ Aware(q.observed_at)
    /\ Optionally(Aware, q.data_through)
    /\ Optionally(TimeRangeAccepted, q.coverage)
    /\ \A i, j \in DOMAIN q.issues : q.issues[i] = q.issues[j] => i = j

DataQuality(q) ==
    [q EXCEPT !.observed_at = as_utc(@), !.data_through = as_utc_optional(@),
              !.coverage = IF @ = None THEN None ELSE TimeRange(@)]

PositionValuationAccepted(v) ==
    /\ \E m \in {v.mark_price, v.market_value, v.cost_basis, v.realized_pnl, v.unrealized_pnl} :
          m # None
    /\ Optionally(PriceAccepted, v.mark_price)
    /\ \A m \in {v.market_value, v.cost_basis, v.realized_pnl, v.unrealized_pnl} :
          Optionally(MoneyAccepted, m)

TaxLotAccepted(v) ==
    /\ QuantityAccepted(v.quantity) /\ MoneyAccepted(v.total_cost)
    /\ IF v.authority = "derived" THEN v.policy_version = Trimmed ELSE v.policy_version = None

ValueAccepted(v) ==
    CASE v.kind = "position"  -> QuantityAccepted(v.value)
      [] v.kind = "price"     -> PriceAccepted(v.value)
      [] v.kind = "fx_rate"   -> FxRateAccepted(v.value)
      [] v.kind = "valuation" -> PositionValuationAccepted(v)
      [] v.kind = "tax_lot"   -> TaxLotAccepted(v)
      [] OTHER                -> MoneyAccepted(v.value)

\* Mutant: as_of is compared before it is converted.
QualityDatesAsGiven(o) == Same(as_utc(o.quality.observed_at), o.as_of)

QualityDates(o) == Same(as_utc(o.quality.observed_at), as_utc(o.as_of))

ObservationAccepted(o) ==
    /\ ValueAccepted(o.value)
    /\ DataQualityAccepted(o.quality)
    /\ o.supersedes_id # o.id
    /\ Aware(o.as_of) /\ Aware(o.ingested_at)
    /\ QualityDates(o)

Observation(o) ==
    [o EXCEPT !.as_of = as_utc(@), !.ingested_at = as_utc(@), !.quality = DataQuality(@)]

-----------------------------------------------------------------------------
(* ownership.py.                                                           *)

InstrumentAccepted(i) ==
    /\ i.name = Trimmed
    /\ Optionally(QuantityAccepted, i.multiplier)
    /\ i.multiplier # None => i.multiplier > 0
    /\ i.underlying_id # i.id
    /\ Optionally(PriceAccepted, i.strike)
    /\ IF i.asset_class = "option"
         THEN None \notin {i.expiry, i.strike, i.option_right}
         ELSE {i.expiry, i.strike, i.option_right} = {None}

ListingAccepted(l) ==
    /\ l.symbol = Trimmed /\ l.venue = Trimmed
    /\ DatesInOrder(l.valid_from, l.valid_to)

MappingAccepted(m) ==
    /\ m.external_id = Trimmed
    /\ Aware(m.valid_from)
    /\ m.valid_to # None =>
          Aware(m.valid_to) /\ TimeRangeInOrder(m.valid_from, m.valid_to)

BrokerInstrumentMapping(m) ==
    [m EXCEPT !.valid_from = as_utc(@), !.valid_to = as_utc_optional(@)]

\* Tenants, users, memberships, institutions, connections and accounts: the
\* texts they are given and, for some, a time of creation.
EntityAccepted(e) == e.texts \subseteq {Trimmed} /\ Optionally(Aware, e.created_at)
Entity(e) == [e EXCEPT !.created_at = as_utc_optional(@)]

=============================================================================
