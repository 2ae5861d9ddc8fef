---------------------------- MODULE RecordLedger ----------------------------
(***************************************************************************)
(* An importer turns what a source says into records of packages/domain,   *)
(* one constructor call at a time, and keeps every record it gets.  What   *)
(* the properties ask is whether the kept records, compared with each      *)
(* other by Python's datetime, still say what the source said.             *)
(*                                                                         *)
(* The repository has no importer yet: which claims it makes is arbitrary. *)
(***************************************************************************)
EXTENDS CanonicalRecords, FiniteSets

CONSTANTS
    Activities, Observations, Mappings, Instruments, Listings, Entities,
                 \* the arguments constructors are called with
    Charge,      \* fee and tax legs a source may report later
    MaxClaims    \* bound: constructor calls

VARIABLES
    kept,        \* [as, claim, record] of the calls that returned
    refused      \* [as, claim] of the calls that raised

vars == <<kept, refused>>

OptionalDatetime == Datetime \union {None}

ActivityFields ==
    {"id", "kind", "legs", "effective_at", "ingested_at", "trade_date", "settlement_date",
     "supersedes_id", "transfer_id", "transfer_direction", "transfer_method",
     "corporate_action_type"}

\* Claims have the fields their constructors take, with times where these expect
\* times; the charges are well-formed fee and tax legs.
ASSUME ClaimAssumption ==
    /\ \A a \in Activities :
          /\ ActivityFields \subseteq DOMAIN a
          /\ a.effective_at \in Datetime
    /\ \A o \in Observations :
          /\ {"as_of", "ingested_at", "quality", "value"} \subseteq DOMAIN o
          /\ {"observed_at", "data_through", "coverage"} \subseteq DOMAIN o.quality
          /\ o.as_of \in Datetime /\ o.quality.observed_at \in Datetime
          /\ o.quality.data_through \in OptionalDatetime
    /\ \A m \in Mappings :
          /\ {"valid_from", "valid_to"} \subseteq DOMAIN m
          /\ m.valid_from \in Datetime /\ m.valid_to \in OptionalDatetime
    /\ \A c \in Charge : LegAccepted(c) /\ c.type = "cash" /\ c.role \in {"fee", "tax"}
    /\ MaxClaims \in Nat

Init == kept = {} /\ refused = {}

MayCall == Cardinality(kept) + Cardinality(refused) < MaxClaims

Constructs(type, claim, accepted, record) ==
    /\ MayCall
    /\ \/ /\ accepted
          /\ kept' = kept \union {[as |-> type, claim |-> claim, record |-> record]}
          /\ UNCHANGED refused
       \/ /\ ~accepted
          /\ refused' = refused \union {[as |-> type, claim |-> claim]}
          /\ UNCHANGED kept

ImportActivity(a) == Constructs("activity", a, ActivityAccepted(a), Activity(a))
ImportObservation(o) == Constructs("observation", o, ObservationAccepted(o), Observation(o))
ImportMapping(m) == Constructs("mapping", m, MappingAccepted(m), BrokerInstrumentMapping(m))
ImportInstrument(i) == Constructs("instrument", i, InstrumentAccepted(i), i)
ImportListing(l) == Constructs("listing", l, ListingAccepted(l), l)
ImportEntity(e) == Constructs("entity", e, EntityAccepted(e), Entity(e))

Next ==
    \/ \E a \in Activities : ImportActivity(a)
    \/ \E o \in Observations : ImportObservation(o)
    \/ \E m \in Mappings : ImportMapping(m)
    \/ \E i \in Instruments : ImportInstrument(i)
    \/ \E l \in Listings : ImportListing(l)
    \/ \E e \in Entities : ImportEntity(e)

Spec == Init /\ [][Next]_vars

-----------------------------------------------------------------------------
(* Properties.                                                             *)

KeptAs(type) == {k \in kept : k.as = type}
RefusedAs(type) == {k \in refused : k.as = type}

Dated == KeptAs("activity") \union KeptAs("observation") \union KeptAs("mapping")
When(type, x) ==
    CASE type = "activity" -> x.effective_at
      [] type = "observation" -> x.as_of
      [] OTHER -> x.valid_from

\* What is kept was accepted, and is in UTC at the instant the source meant.
TypeOK ==
    /\ \A k \in Dated :
          /\ When(k.as, k.record).zone = Utc
          /\ Instant(When(k.as, k.record)) = Instant(When(k.as, k.claim))
    /\ \A k \in kept : [as |-> k.as, claim |-> k.claim] \notin refused

\* Python orders and equates the times of any two kept records as the instants
\* the sources meant, also around the hour that a clock change repeats.
Chronology ==
    \A k, m \in Dated :
        LET r == When(k.as, k.record)  c == When(k.as, k.claim)
            s == When(m.as, m.record)  d == When(m.as, m.claim)
        IN  /\ Before(r, s) <=> Instant(c) < Instant(d)
            /\ Same(r, s) <=> Instant(c) = Instant(d)

SameOptional(d, e) == IF None \in {d, e} THEN d = e ELSE Same(d, e)
InstantOptional(d) == IF d = None THEN None ELSE Instant(d)

SameRecord(r, s) ==
    /\ r.value = s.value
    /\ Same(r.as_of, s.as_of)
    /\ SameOptional(r.quality.data_through, s.quality.data_through)
SameFact(c, d) ==
    /\ c.value = d.value
    /\ Instant(c.as_of) = Instant(d.as_of)
    /\ InstantOptional(c.quality.data_through) = InstantOptional(d.quality.data_through)

\* Two observations are equal, identity and ingestion aside, exactly when their
\* sources said the same, in whatever zones they said it.
OneFactOneRecord ==
    \A k, m \in KeptAs("observation") :
        SameRecord(k.record, m.record) <=> SameFact(k.claim, m.claim)

\* A mapping is refused for its interval only if its end is meant to be before
\* its start, and never kept if it is.
IntervalsByInstant ==
    /\ \A k \in KeptAs("mapping") : k.claim.valid_to # None =>
          Instant(k.claim.valid_from) <= Instant(k.claim.valid_to)
    /\ \A k \in RefusedAs("mapping") :
          \/ k.claim.external_id # Trimmed \/ ~Aware(k.claim.valid_from)
          \/ /\ k.claim.valid_to # None
             /\ Aware(k.claim.valid_to) =>
                   Instant(k.claim.valid_to) < Instant(k.claim.valid_from)

\* The quality of a kept observation was observed at the observation's instant,
\* and no observation is refused because its two times are written differently.
QualityByInstant ==
    /\ \A k \in KeptAs("observation") :
          Instant(k.claim.quality.observed_at) = Instant(k.claim.as_of)
    /\ \A k \in RefusedAs("observation") :
          \/ ~Aware(k.claim.as_of) \/ ~Aware(k.claim.ingested_at)
          \/ ~ValueAccepted(k.claim.value) \/ ~DataQualityAccepted(k.claim.quality)
          \/ k.claim.supersedes_id = k.claim.id
          \/ Instant(k.claim.quality.observed_at) # Instant(k.claim.as_of)

\* A kept activity can be corrected by one with a fee or tax leg more, whatever
\* its kind (docs/decisions/0003: charges become typed legs when reported).
ChargesCanBeAdded ==
    \A k \in KeptAs("activity") : \A c \in Charge :
        ActivityAccepted([k.claim EXCEPT !.legs = @ \union {c}])

\* Money that moved in a transfer alone is never kept as income, expense or an
\* external flow, whether its other side is known or not.
TransfersAreNotIncome ==
    \A k \in KeptAs("activity") :
        CashRoles(k.claim) \subseteq {"transfer"} =>
            k.claim.kind \notin
                {"dividend", "interest", "fee", "tax", "deposit", "withdrawal"}

=============================================================================
