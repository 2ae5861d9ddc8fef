------------------------- MODULE RecordLedger_proofs -------------------------
(***************************************************************************)
(* Proofs about RecordLedger for any claims, in any zones whatever their   *)
(* clock changes, and any number of constructor calls.                     *)
(***************************************************************************)
EXTENDS RecordLedger, TLAPS

-----------------------------------------------------------------------------
(* Times.                                                                  *)

\* An aware reading denotes an instant, and as_utc keeps it.
LEMMA AsUtcKeepsInstant ==
    ASSUME NEW d \in Datetime, Aware(d)
    PROVE  /\ Instant(d) \in Int
           /\ as_utc(d).zone = Utc
           /\ as_utc(d).wall = Instant(d)
           /\ Instant(as_utc(d)) = Instant(d)
           /\ as_utc(d) # None
<1>1. Instant(d) \in Int
  <2>1. d.zone \in Zone \union {Utc} /\ d.wall \in Wall /\ d.fold \in {0, 1}
    BY DEF Datetime, Aware
  <2>2. d.wall \in Int
    BY <2>1, ZoneAssumption
  <2>3. utcoffset(d) \in Int
    <3>1. CASE d.zone = Utc
      BY <3>1 DEF utcoffset
    <3>2. CASE d.zone # Utc
      <4>1. <<d.zone, d.wall, d.fold>> \in Zone \X Wall \X {0, 1}
        BY <2>1, <3>2
      <4>2. OffsetOf[<<d.zone, d.wall, d.fold>>] \in Int
        BY <4>1, ZoneAssumption
      <4>. QED
        BY <3>2, <4>2 DEF utcoffset
    <3>. QED
      BY <3>1, <3>2
  <2>. QED
    BY <2>2, <2>3 DEF Instant
<1>2. as_utc(d).zone = Utc /\ as_utc(d).wall = Instant(d)
  BY DEF as_utc
<1>3. Instant(as_utc(d)) = Instant(d)
  BY <1>1, <1>2 DEF Instant, utcoffset
<1>4. as_utc(d) \in [zone : Zone \union {Utc, Naive}, wall : Int, fold : {0, 1}]
  BY <1>1 DEF as_utc
<1>. QED
  BY <1>1, <1>2, <1>3, <1>4, ZoneAssumption

\* Stored times compare like the instants of the readings they come from.
LEMMA UtcComparesInstants ==
    ASSUME NEW d \in Datetime, NEW e \in Datetime, Aware(d), Aware(e)
    PROVE  /\ Before(as_utc(d), as_utc(e)) <=> Instant(d) < Instant(e)
           /\ Same(as_utc(d), as_utc(e)) <=> Instant(d) = Instant(e)
BY AsUtcKeepsInstant DEF Before, Same

LEMMA OptionalComparesInstants ==
    ASSUME NEW d \in OptionalDatetime, NEW e \in OptionalDatetime,
           Optionally(Aware, d), Optionally(Aware, e)
    PROVE  SameOptional(as_utc_optional(d), as_utc_optional(e))
             <=> InstantOptional(d) = InstantOptional(e)
<1>1. d = None \/ (d \in Datetime /\ Aware(d) /\ d # None)
  BY DEF OptionalDatetime, Optionally
<1>2. e = None \/ (e \in Datetime /\ Aware(e) /\ e # None)
  BY DEF OptionalDatetime, Optionally
<1>3. CASE d = None /\ e = None
  BY <1>3 DEF SameOptional, as_utc_optional, InstantOptional
<1>4. CASE d = None /\ e # None
  BY <1>2, <1>4, AsUtcKeepsInstant, ZoneAssumption
  DEF SameOptional, as_utc_optional, InstantOptional
<1>5. CASE d # None /\ e = None
  BY <1>1, <1>5, AsUtcKeepsInstant, ZoneAssumption
  DEF SameOptional, as_utc_optional, InstantOptional
<1>6. CASE d # None /\ e # None
  BY <1>1, <1>2, <1>6, AsUtcKeepsInstant, UtcComparesInstants
  DEF SameOptional, as_utc_optional, InstantOptional
<1>. QED
  BY <1>3, <1>4, <1>5, <1>6

-----------------------------------------------------------------------------
(* The inductive invariant: what is kept was built from an accepted claim, *)
(* and what is refused was not accepted.                                   *)

Entry(type, claim, record) == [as |-> type, claim |-> claim, record |-> record]
Refusal(type, claim) == [as |-> type, claim |-> claim]

Built(k) ==
    \/ \E a \in Activities : ActivityAccepted(a) /\ k = Entry("activity", a, Activity(a))
    \/ \E o \in Observations :
          ObservationAccepted(o) /\ k = Entry("observation", o, Observation(o))
    \/ \E m \in Mappings :
          MappingAccepted(m) /\ k = Entry("mapping", m, BrokerInstrumentMapping(m))
    \/ \E i \in Instruments : InstrumentAccepted(i) /\ k = Entry("instrument", i, i)
    \/ \E l \in Listings : ListingAccepted(l) /\ k = Entry("listing", l, l)
    \/ \E e \in Entities : EntityAccepted(e) /\ k = Entry("entity", e, Entity(e))

NotBuilt(r) ==
    \/ \E a \in Activities : ~ActivityAccepted(a) /\ r = Refusal("activity", a)
    \/ \E o \in Observations : ~ObservationAccepted(o) /\ r = Refusal("observation", o)
    \/ \E m \in Mappings : ~MappingAccepted(m) /\ r = Refusal("mapping", m)
    \/ \E i \in Instruments : ~InstrumentAccepted(i) /\ r = Refusal("instrument", i)
    \/ \E l \in Listings : ~ListingAccepted(l) /\ r = Refusal("listing", l)
    \/ \E e \in Entities : ~EntityAccepted(e) /\ r = Refusal("entity", e)

IInv == (\A k \in kept : Built(k)) /\ (\A r \in refused : NotBuilt(r))

LEMMA InitIInv == Init => IInv
BY DEF Init, IInv

\* A call adds one entry, or one refusal.
LEMMA ConstructsIInv ==
    ASSUME IInv, NEW type, NEW claim, NEW accepted \in BOOLEAN, NEW record,
           Constructs(type, claim, accepted, record),
           accepted => Built(Entry(type, claim, record)),
           ~accepted => NotBuilt(Refusal(type, claim))
    PROVE  IInv'
<1>1. CASE accepted
  <2>1. kept' = kept \union {Entry(type, claim, record)} /\ refused' = refused
    BY <1>1 DEF Constructs, Entry
  <2>. QED
    BY <1>1, <2>1 DEF IInv, Built, NotBuilt
<1>2. CASE ~accepted
  <2>1. refused' = refused \union {Refusal(type, claim)} /\ kept' = kept
    BY <1>2 DEF Constructs, Refusal
  <2>. QED
    BY <1>2, <2>1 DEF IInv, Built, NotBuilt
<1>. QED
  BY <1>1, <1>2

\* Every step is a call of one of the six constructors.
LEMMA StepIInv == IInv /\ [Next]_vars => IInv'
<1> SUFFICES ASSUME IInv, [Next]_vars PROVE IInv'
  OBVIOUS
<1>1. ASSUME NEW a \in Activities, ImportActivity(a) PROVE IInv'
  <2>1. ActivityAccepted(a) \in BOOLEAN
    BY DEF ActivityAccepted
  <2>2. ActivityAccepted(a) => Built(Entry("activity", a, Activity(a)))
    BY DEF Built
  <2>3. ~ActivityAccepted(a) => NotBuilt(Refusal("activity", a))
    BY DEF NotBuilt
  <2>. QED
    BY <1>1, <2>1, <2>2, <2>3, ConstructsIInv DEF ImportActivity
<1>2. ASSUME NEW o \in Observations, ImportObservation(o) PROVE IInv'
  <2>1. ObservationAccepted(o) \in BOOLEAN
    BY DEF ObservationAccepted
  <2>2. ObservationAccepted(o) => Built(Entry("observation", o, Observation(o)))
    BY DEF Built
  <2>3. ~ObservationAccepted(o) => NotBuilt(Refusal("observation", o))
    BY DEF NotBuilt
  <2>. QED
    BY <1>2, <2>1, <2>2, <2>3, ConstructsIInv DEF ImportObservation
<1>3. ASSUME NEW m \in Mappings, ImportMapping(m) PROVE IInv'
  <2>1. MappingAccepted(m) \in BOOLEAN
    BY DEF MappingAccepted
  <2>2. MappingAccepted(m) => Built(Entry("mapping", m, BrokerInstrumentMapping(m)))
    BY DEF Built
  <2>3. ~MappingAccepted(m) => NotBuilt(Refusal("mapping", m))
    BY DEF NotBuilt
  <2>. QED
    BY <1>3, <2>1, <2>2, <2>3, ConstructsIInv DEF ImportMapping
<1>4. ASSUME NEW i \in Instruments, ImportInstrument(i) PROVE IInv'
  <2>1. InstrumentAccepted(i) \in BOOLEAN
    BY DEF InstrumentAccepted
  <2>2. InstrumentAccepted(i) => Built(Entry("instrument", i, i))
    BY DEF Built
  <2>3. ~InstrumentAccepted(i) => NotBuilt(Refusal("instrument", i))
    BY DEF NotBuilt
  <2>. QED
    BY <1>4, <2>1, <2>2, <2>3, ConstructsIInv DEF ImportInstrument
<1>5. ASSUME NEW l \in Listings, ImportListing(l) PROVE IInv'
  <2>1. ListingAccepted(l) \in BOOLEAN
    BY DEF ListingAccepted
  <2>2. ListingAccepted(l) => Built(Entry("listing", l, l))
    BY DEF Built
  <2>3. ~ListingAccepted(l) => NotBuilt(Refusal("listing", l))
    BY DEF NotBuilt
  <2>. QED
    BY <1>5, <2>1, <2>2, <2>3, ConstructsIInv DEF ImportListing
<1>6. ASSUME NEW e \in Entities, ImportEntity(e) PROVE IInv'
  <2>1. EntityAccepted(e) \in BOOLEAN
    BY DEF EntityAccepted
  <2>2. EntityAccepted(e) => Built(Entry("entity", e, Entity(e)))
    BY DEF Built
  <2>3. ~EntityAccepted(e) => NotBuilt(Refusal("entity", e))
    BY DEF NotBuilt
  <2>. QED
    BY <1>6, <2>1, <2>2, <2>3, ConstructsIInv DEF ImportEntity
<1>7. CASE UNCHANGED vars
  BY <1>7 DEF vars, IInv
<1>. QED
  BY <1>1, <1>2, <1>3, <1>4, <1>5, <1>6, <1>7 DEF Next

THEOREM Inductive == Spec => []IInv
BY InitIInv, StepIInv, PTL DEF Spec

-----------------------------------------------------------------------------
(* What the invariant says of the entries of each constructor.             *)

LEMMA KeptActivity ==
    ASSUME IInv, NEW k \in KeptAs("activity")
    PROVE  /\ k.claim \in Activities /\ ActivityAccepted(k.claim)
           /\ k.record = Activity(k.claim)
BY DEF IInv, KeptAs, Built, Entry

LEMMA KeptObservation ==
    ASSUME IInv, NEW k \in KeptAs("observation")
    PROVE  /\ k.claim \in Observations /\ ObservationAccepted(k.claim)
           /\ k.record = Observation(k.claim)
BY DEF IInv, KeptAs, Built, Entry

LEMMA KeptMapping ==
    ASSUME IInv, NEW k \in KeptAs("mapping")
    PROVE  /\ k.claim \in Mappings /\ MappingAccepted(k.claim)
           /\ k.record = BrokerInstrumentMapping(k.claim)
BY DEF IInv, KeptAs, Built, Entry

\* The time of a kept record is the claimed one, converted.
LEMMA KeptTimes ==
    ASSUME IInv, NEW k \in Dated
    PROVE  /\ When(k.as, k.claim) \in Datetime
           /\ Aware(When(k.as, k.claim))
           /\ When(k.as, k.record) = as_utc(When(k.as, k.claim))
<1>1. CASE k \in KeptAs("activity")
  <2>1. k.claim.effective_at \in Datetime /\ {"effective_at", "ingested_at"} \subseteq DOMAIN k.claim
    BY <1>1, KeptActivity, ClaimAssumption DEF ActivityFields
  <2>2. Aware(k.claim.effective_at)
    BY <1>1, KeptActivity DEF ActivityAccepted
  <2>3. k.record.effective_at = as_utc(k.claim.effective_at)
    BY <1>1, <2>1, KeptActivity DEF Activity
  <2>. QED
    BY <1>1, <2>1, <2>2, <2>3 DEF When, KeptAs
<1>2. CASE k \in KeptAs("observation")
  <2>1. k.claim.as_of \in Datetime /\ {"as_of", "ingested_at", "quality"} \subseteq DOMAIN k.claim
    BY <1>2, KeptObservation, ClaimAssumption
  <2>2. Aware(k.claim.as_of)
    BY <1>2, KeptObservation DEF ObservationAccepted
  <2>3. k.record.as_of = as_utc(k.claim.as_of)
    BY <1>2, <2>1, KeptObservation DEF Observation
  <2>. QED
    BY <1>2, <2>1, <2>2, <2>3 DEF When, KeptAs
<1>3. CASE k \in KeptAs("mapping")
  <2>1. k.claim.valid_from \in Datetime /\ {"valid_from", "valid_to"} \subseteq DOMAIN k.claim
    BY <1>3, KeptMapping, ClaimAssumption
  <2>2. Aware(k.claim.valid_from)
    BY <1>3, KeptMapping DEF MappingAccepted
  <2>3. k.record.valid_from = as_utc(k.claim.valid_from)
    BY <1>3, <2>1, KeptMapping DEF BrokerInstrumentMapping
  <2>. QED
    BY <1>3, <2>1, <2>2, <2>3 DEF When, KeptAs
<1>. QED
  BY <1>1, <1>2, <1>3 DEF Dated

\* The fields of a kept observation that its equality looks at.
LEMMA KeptFact ==
    ASSUME IInv, NEW k \in KeptAs("observation")
    PROVE  /\ k.claim.as_of \in Datetime /\ Aware(k.claim.as_of)
           /\ k.claim.quality.data_through \in OptionalDatetime
           /\ Optionally(Aware, k.claim.quality.data_through)
           /\ k.record.value = k.claim.value
           /\ k.record.as_of = as_utc(k.claim.as_of)
           /\ k.record.quality.data_through = as_utc_optional(k.claim.quality.data_through)
<1>1. k.claim \in Observations /\ ObservationAccepted(k.claim) /\ k.record = Observation(k.claim)
  BY KeptObservation
<1>2. /\ {"as_of", "ingested_at", "quality", "value"} \subseteq DOMAIN k.claim
      /\ {"observed_at", "data_through", "coverage"} \subseteq DOMAIN k.claim.quality
      /\ k.claim.as_of \in Datetime
      /\ k.claim.quality.data_through \in OptionalDatetime
  BY <1>1, ClaimAssumption
<1>3. Aware(k.claim.as_of) /\ DataQualityAccepted(k.claim.quality)
  BY <1>1 DEF ObservationAccepted
<1>4. Optionally(Aware, k.claim.quality.data_through)
  BY <1>3 DEF DataQualityAccepted
<1>5. /\ k.record.value = k.claim.value
      /\ k.record.as_of = as_utc(k.claim.as_of)
      /\ k.record.quality = DataQuality(k.claim.quality)
  BY <1>1, <1>2 DEF Observation
<1>6. DataQuality(k.claim.quality).data_through = as_utc_optional(k.claim.quality.data_through)
  BY <1>2 DEF DataQuality
<1>. QED
  BY <1>2, <1>3, <1>4, <1>5, <1>6

-----------------------------------------------------------------------------
(* The theorems.                                                           *)

\* What is kept was accepted and stands in UTC at the instant its source meant
\* (as_utc in temporal.py, called by every constructor with a time).
THEOREM TypeCorrect == Spec => []TypeOK
<1>1. IInv => TypeOK
  <2> SUFFICES ASSUME IInv PROVE TypeOK
    OBVIOUS
  <2>1. ASSUME NEW k \in Dated
        PROVE  /\ When(k.as, k.record).zone = Utc
               /\ Instant(When(k.as, k.record)) = Instant(When(k.as, k.claim))
    BY KeptTimes, AsUtcKeepsInstant
  <2>2. ASSUME NEW k \in kept PROVE [as |-> k.as, claim |-> k.claim] \notin refused
    BY DEF IInv, Built, NotBuilt, Entry, Refusal
  <2>. QED
    BY <2>1, <2>2 DEF TypeOK
<1>. QED
  BY <1>1, Inductive, PTL

\* Kept times compare by Python's operators as the instants the sources meant,
\* for any zones and any clock changes.
THEOREM ChronologyHolds == Spec => []Chronology
<1>1. IInv => Chronology
  <2> SUFFICES ASSUME IInv, NEW k \in Dated, NEW m \in Dated
               PROVE  /\ Before(When(k.as, k.record), When(m.as, m.record))
                           <=> Instant(When(k.as, k.claim)) < Instant(When(m.as, m.claim))
                      /\ Same(When(k.as, k.record), When(m.as, m.record))
                           <=> Instant(When(k.as, k.claim)) = Instant(When(m.as, m.claim))
    BY DEF Chronology
  <2>. QED
    BY KeptTimes, UtcComparesInstants
<1>. QED
  BY <1>1, Inductive, PTL

\* Observations are equal, identity and ingestion aside, exactly when their
\* sources said the same.
THEOREM OneFactOneRecordHolds == Spec => []OneFactOneRecord
<1>1. IInv => OneFactOneRecord
  <2> SUFFICES ASSUME IInv, NEW k \in KeptAs("observation"), NEW m \in KeptAs("observation")
               PROVE  SameRecord(k.record, m.record) <=> SameFact(k.claim, m.claim)
    BY DEF OneFactOneRecord
  <2>1. Same(k.record.as_of, m.record.as_of)
          <=> Instant(k.claim.as_of) = Instant(m.claim.as_of)
    BY KeptFact, UtcComparesInstants
  <2>2. SameOptional(k.record.quality.data_through, m.record.quality.data_through)
          <=> InstantOptional(k.claim.quality.data_through)
                = InstantOptional(m.claim.quality.data_through)
    BY KeptFact, OptionalComparesInstants
  <2>. QED
    BY <2>1, <2>2, KeptFact DEF SameRecord, SameFact
<1>. QED
  BY <1>1, Inductive, PTL

\* The order a mapping's constructor checks is that of the instants.
LEMMA OrderIsOfInstants ==
    ASSUME NEW d \in Datetime, NEW e \in Datetime, Aware(d), Aware(e)
    PROVE  TimeRangeInOrder(d, e) <=> Instant(d) <= Instant(e)
BY AsUtcKeepsInstant, UtcComparesInstants DEF TimeRangeInOrder

\* A mapping is kept, and refused for its interval, as its instants are ordered
\* (BrokerInstrumentMapping.__post_init__).
THEOREM IntervalsByInstantHolds == Spec => []IntervalsByInstant
<1>1. IInv => IntervalsByInstant
  <2> SUFFICES ASSUME IInv PROVE IntervalsByInstant
    OBVIOUS
  <2>1. ASSUME NEW k \in KeptAs("mapping"), k.claim.valid_to # None
        PROVE  Instant(k.claim.valid_from) <= Instant(k.claim.valid_to)
    <3>1. k.claim \in Mappings /\ MappingAccepted(k.claim)
      BY KeptMapping
    <3>2. k.claim.valid_from \in Datetime /\ k.claim.valid_to \in Datetime
      BY <2>1, <3>1, ClaimAssumption DEF OptionalDatetime
    <3>3. /\ Aware(k.claim.valid_from) /\ Aware(k.claim.valid_to)
          /\ TimeRangeInOrder(k.claim.valid_from, k.claim.valid_to)
      BY <2>1, <3>1 DEF MappingAccepted
    <3>. QED
      BY <3>2, <3>3, OrderIsOfInstants
  <2>2. ASSUME NEW k \in RefusedAs("mapping"),
               k.claim.external_id = Trimmed, Aware(k.claim.valid_from)
        PROVE  /\ k.claim.valid_to # None
               /\ Aware(k.claim.valid_to) =>
                     Instant(k.claim.valid_to) < Instant(k.claim.valid_from)
    <3>1. k.claim \in Mappings /\ ~MappingAccepted(k.claim)
      BY DEF IInv, RefusedAs, NotBuilt, Refusal
    <3>2. /\ k.claim.valid_to # None
          /\ Aware(k.claim.valid_to) =>
                ~TimeRangeInOrder(k.claim.valid_from, k.claim.valid_to)
      BY <2>2, <3>1 DEF MappingAccepted
    <3>3. k.claim.valid_from \in Datetime /\ k.claim.valid_to \in Datetime
      BY <3>1, <3>2, ClaimAssumption DEF OptionalDatetime
    <3>4. Aware(k.claim.valid_to) =>
             ~(Instant(k.claim.valid_from) <= Instant(k.claim.valid_to))
      BY <2>2, <3>2, <3>3, OrderIsOfInstants
    <3>5. Aware(k.claim.valid_to) =>
             Instant(k.claim.valid_from) \in Int /\ Instant(k.claim.valid_to) \in Int
      BY <2>2, <3>3, AsUtcKeepsInstant
    <3>. QED
      BY <3>2, <3>4, <3>5
  <2>. QED
    BY <2>1, <2>2 DEF IntervalsByInstant
<1>. QED
  BY <1>1, Inductive, PTL

\* The two times of an observation are compared as instants, so that neither
\* zone nor fold decides whether it is kept (Observation.__post_init__).
THEOREM QualityByInstantHolds == Spec => []QualityByInstant
<1>1. ASSUME NEW o \in Observations, Aware(o.as_of), Aware(o.quality.observed_at)
      PROVE  QualityDates(o) <=> Instant(o.quality.observed_at) = Instant(o.as_of)
  <2>1. o.as_of \in Datetime /\ o.quality.observed_at \in Datetime
    BY ClaimAssumption
  <2>. QED
    BY <1>1, <2>1, UtcComparesInstants DEF QualityDates
<1>2. IInv => QualityByInstant
  <2> SUFFICES ASSUME IInv PROVE QualityByInstant
    OBVIOUS
  <2>1. ASSUME NEW k \in KeptAs("observation")
        PROVE  Instant(k.claim.quality.observed_at) = Instant(k.claim.as_of)
    <3>1. k.claim \in Observations /\ ObservationAccepted(k.claim)
      BY KeptObservation
    <3>2. Aware(k.claim.as_of) /\ Aware(k.claim.quality.observed_at) /\ QualityDates(k.claim)
      BY <3>1 DEF ObservationAccepted, DataQualityAccepted
    <3>. QED
      BY <1>1, <3>1, <3>2
  <2>2. ASSUME NEW k \in RefusedAs("observation"),
               Aware(k.claim.as_of), Aware(k.claim.ingested_at),
               ValueAccepted(k.claim.value), DataQualityAccepted(k.claim.quality),
               k.claim.supersedes_id # k.claim.id
        PROVE  Instant(k.claim.quality.observed_at) # Instant(k.claim.as_of)
    <3>1. k.claim \in Observations /\ ~ObservationAccepted(k.claim)
      BY DEF IInv, RefusedAs, NotBuilt, Refusal
    <3>2. Aware(k.claim.quality.observed_at)
      BY <2>2 DEF DataQualityAccepted
    <3>3. ~QualityDates(k.claim)
      BY <2>2, <3>1 DEF ObservationAccepted
    <3>. QED
      BY <1>1, <2>2, <3>1, <3>2, <3>3
  <2>. QED
    BY <2>1, <2>2 DEF QualityByInstant
<1>. QED
  BY <1>2, Inductive, PTL

-----------------------------------------------------------------------------
\* More fee and tax legs leave a shape valid: every rule asks for legs that are
\* there, and none of them for legs that are not.
LEMMA ShapesAreMonotone ==
    ASSUME NEW a, NEW b, NEW c \in Charge,
           ActivityFields \subseteq DOMAIN a,
           b = [a EXCEPT !.legs = @ \union {c}],
           ValidLegShape(a)
    PROVE  ValidLegShape(b)
<1>1. /\ b.legs = a.legs \union {c}
      /\ b.kind = a.kind
      /\ b.transfer_id = a.transfer_id /\ b.transfer_direction = a.transfer_direction
      /\ b.transfer_method = a.transfer_method
      /\ b.corporate_action_type = a.corporate_action_type
  BY DEF ActivityFields
<1>2. c.type = "cash"
  BY ClaimAssumption
<1>3. InstrumentLegs(b) = InstrumentLegs(a) /\ CashLegs(a) \subseteq CashLegs(b)
  BY <1>1, <1>2 DEF InstrumentLegs, CashLegs
<1>4. CashRoles(a) \subseteq CashRoles(b)
  BY <1>3 DEF CashRoles
<1>5. TransferMetadata(b) = TransferMetadata(a) /\ a.legs \subseteq b.legs
  BY <1>1 DEF TransferMetadata
<1>6. TradeShape(b) /\ IncomeShape(b)
  BY <1>1, <1>3, <1>4 DEF ValidLegShape, TradeShape, IncomeShape
<1>7. TransferShape(b)
  BY <1>1, <1>5 DEF ValidLegShape, TransferShape
<1>8. CorporateActionShape(b)
  BY <1>1, <1>3 DEF ValidLegShape, CorporateActionShape
<1>9. ConversionShape(b)
  BY <1>1, <1>3 DEF ValidLegShape, ConversionShape
<1>. QED
  BY <1>1, <1>4, <1>6, <1>7, <1>8, <1>9 DEF ValidLegShape

\* An activity that was kept can be corrected by one with a charge more
\* (_validate_leg_shape and CashLeg.__post_init__).
THEOREM ChargesCanBeAddedHolds == Spec => []ChargesCanBeAdded
<1>1. ASSUME NEW a \in Activities, ActivityAccepted(a), NEW c \in Charge
      PROVE  ActivityAccepted([a EXCEPT !.legs = @ \union {c}])
  <2> DEFINE b == [a EXCEPT !.legs = @ \union {c}]
  <2>1. ActivityFields \subseteq DOMAIN a /\ LegAccepted(c)
    BY ClaimAssumption
  <2>2. /\ b.legs = a.legs \union {c}
        /\ b.id = a.id /\ b.supersedes_id = a.supersedes_id
        /\ b.trade_date = a.trade_date /\ b.settlement_date = a.settlement_date
        /\ b.effective_at = a.effective_at /\ b.ingested_at = a.ingested_at
    BY <2>1 DEF ActivityFields
  <2>3. ValidLegShape(a)
    BY <1>1 DEF ActivityAccepted
  <2>4. ValidLegShape(b)
    BY <2>1, <2>3, ShapesAreMonotone
  <2>5. b.legs # {} /\ \A l \in b.legs : LegAccepted(l)
    BY <1>1, <2>1, <2>2 DEF ActivityAccepted
  <2> HIDE DEF b
  <2>6. ActivityAccepted(b)
    BY <1>1, <2>2, <2>4, <2>5 DEF ActivityAccepted
  <2>. QED
    BY <2>6 DEF b
<1>2. IInv => ChargesCanBeAdded
  BY <1>1, KeptActivity DEF ChargesCanBeAdded
<1>. QED
  BY <1>2, Inductive, PTL

\* Money that moved in a transfer alone is never kept as income, expense or an
\* external flow.
THEOREM TransfersAreNotIncomeHolds == Spec => []TransfersAreNotIncome
<1>1. ASSUME NEW a \in Activities, ActivityAccepted(a), CashRoles(a) \subseteq {"transfer"}
      PROVE  a.kind \notin {"dividend", "interest", "fee", "tax", "deposit", "withdrawal"}
  BY <1>1 DEF ActivityAccepted, ValidLegShape, IncomeShape
<1>2. IInv => TransfersAreNotIncome
  BY <1>1, KeptActivity DEF TransfersAreNotIncome
<1>. QED
  BY <1>2, Inductive, PTL

=============================================================================
