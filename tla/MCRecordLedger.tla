--------------------------- MODULE MCRecordLedger ---------------------------
(***************************************************************************)
(* Instances of RecordLedger for TLC: UTC and one zone, London, whose      *)
(* clocks go back: its reading 2 occurs twice, an hour apart.              *)
(***************************************************************************)
EXTENDS RecordLedger

Clock == {1, 2, 3}
Offsets == [x \in {"London"} \X Clock \X {0, 1} |->
              IF <<x[2], x[3]>> \in {<<1, 0>>, <<1, 1>>, <<2, 0>>} THEN 1 ELSE 0]

In(zone, wall, fold) == [zone |-> zone, wall |-> wall, fold |-> fold]
Stamps == {In(Utc, w, 0) : w \in Clock} \union {In("London", 1, 0), In("London", 3, 0)}
            \union {In("London", 2, 0), In("London", 2, 1), In(Naive, 2, 0)}
Noon == In(Utc, 2, 0)

-----------------------------------------------------------------------------
Cash(role, fee, tax, country, currency) ==
    [type |-> "cash", role |-> role, amount |-> 0 - 1, currency |-> currency,
     fee_category |-> fee, tax_category |-> tax, tax_jurisdiction |-> country,
     source_label |-> None]
Units(role, price) ==
    [type |-> "instrument", role |-> role, quantity |-> 1, execution_price |-> price]

Charges == {Cash("fee", "brokerage", None, None, "INR"), Cash("tax", None, "tcs", Trimmed, "INR")}
Legs == Charges \union
    {Cash(role, None, None, None, "INR") : role \in {"principal", "income", "transfer"}} \union
    {Cash("principal", None, None, None, "USD"), Units("position", 0), Units("transfer", None)}
BadLegs == {Cash("fee", None, None, None, "INR"), Cash("income", None, "tcs", None, "INR"),
            Cash("principal", None, None, Trimmed, "INR"), Cash("tax", None, "tcs", "in", "INR"),
            Units("position", 0 - 1)}
LegSets == {{l, m} : l \in Legs, m \in Legs}

Doing(kind, legs, side, action) ==
    [id |-> "a1", kind |-> kind, legs |-> legs,
     effective_at |-> Noon, ingested_at |-> Noon, trade_date |-> 1, settlement_date |-> 2,
     supersedes_id |-> None, corporate_action_type |-> action,
     transfer_id |-> side, transfer_direction |-> side, transfer_method |-> side]

Kinds == {"trade", "deposit", "withdrawal", "dividend", "interest", "fee", "tax",
          "fx_conversion"}
Shaped ==
    {Doing(kind, legs, None, None) : kind \in Kinds, legs \in LegSets} \union
    {Doing("transfer", legs, "x1", None) : legs \in LegSets} \union
    {Doing("corporate_action", legs, None, "split") : legs \in LegSets}
Trade == Doing("trade", {Units("position", 0), Cash("principal", None, None, None, "INR")},
               None, None)
Misshaped ==
    {[Trade EXCEPT !.legs = @ \union {l}] : l \in BadLegs} \union
    {[Trade EXCEPT !.legs = {}], [Trade EXCEPT !.supersedes_id = "a1"],
     [Trade EXCEPT !.settlement_date = 0], [Trade EXCEPT !.transfer_id = "x1"],
     [Trade EXCEPT !.corporate_action_type = "split"],
     [Trade EXCEPT !.kind = "transfer", !.transfer_id = "x1"],
     [Trade EXCEPT !.kind = "corporate_action"]}
Timed == {[Trade EXCEPT !.effective_at = d] : d \in Stamps}

SomeActivities == Shaped \union Misshaped \union Timed

-----------------------------------------------------------------------------
Claim(value, as_of, observed_at, data_through, coverage) ==
    [id |-> "o1", supersedes_id |-> "o2", value |-> value,
     as_of |-> as_of, ingested_at |-> Noon,
     quality |-> [observed_at |-> observed_at, data_through |-> data_through,
                  coverage |-> coverage, issues |-> <<"stale">>]]

Marked(price, value) ==
    [kind |-> "valuation", mark_price |-> price, market_value |-> value,
     cost_basis |-> None, realized_pnl |-> None, unrealized_pnl |-> None]
Lot(authority, policy) ==
    [kind |-> "tax_lot", quantity |-> 1, total_cost |-> 0,
     authority |-> authority, policy_version |-> policy]
Said(kind, value) == [kind |-> kind, value |-> value]

Values == {Said("price", 0), Said("price", 0 - 1), Said("fx_rate", 0), Said("fx_rate", 1),
           Said("position", 0 - 1), Said("cash", NotFinite), Said("cash", 0),
           Marked(None, None), Marked(None, 0), Marked(0 - 1, 0),
           Lot("derived", Trimmed), Lot("derived", None), Lot("broker_reported", Trimmed)}

SomeObservations ==
    {Claim(Said("cash", 0), d, e, None, None) : d \in Stamps, e \in Stamps} \union
    {Claim(Said("cash", 0), Noon, Noon, d, None) : d \in Stamps} \union
    {Claim(Said("cash", 0), Noon, Noon, None, [start |-> d, end |-> e]) :
        d \in Stamps, e \in Stamps} \union
    {Claim(value, Noon, Noon, None, None) : value \in Values} \union
    {[Claim(Said("cash", 0), Noon, Noon, None, None) EXCEPT !.supersedes_id = "o1"],
     [Claim(Said("cash", 0), Noon, Noon, None, None)
         EXCEPT !.quality.issues = <<"stale", "stale">>]}

-----------------------------------------------------------------------------
SomeMappings ==
    {[external_id |-> Trimmed, valid_from |-> d, valid_to |-> e] :
        d \in Stamps, e \in Stamps \union {None}}

Contract(class, multiplier, underlying, expiry, strike, right) ==
    [id |-> "i1", name |-> Trimmed, asset_class |-> class, multiplier |-> multiplier,
     underlying_id |-> underlying, expiry |-> expiry, strike |-> strike,
     option_right |-> right]
SomeInstruments ==
    {Contract("option", 100, "i2", 1, 0, "call"), Contract("option", 100, "i2", 1, None, "call"),
     Contract("future", 100, "i2", 1, None, None), Contract("future", 0, "i2", None, None, None),
     Contract("equity", None, "i1", None, None, None)}
SomeListings ==
    {[symbol |-> Trimmed, venue |-> Trimmed, valid_from |-> d, valid_to |-> e] :
        d \in {None, 2}, e \in {None, 1, 2}}
SomeEntities ==
    {[texts |-> t, created_at |-> d] : t \in {{}, {Trimmed}, {Trimmed, "padded "}}, d \in Stamps \union {None}}

=============================================================================
