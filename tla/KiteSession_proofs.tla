------------------------- MODULE KiteSession_proofs -------------------------
(***************************************************************************)
(* Proofs about KiteSession for every set of instants and every latency up *)
(* to a day.                                                               *)
(***************************************************************************)
EXTENDS KiteSession, TLAPS

\* The Indian date is an integer and dates its instants: t lies within the
\* day it names.
LEMMA KolkataDateBounds ==
    ASSUME NEW t \in Int
    PROVE  /\ KolkataDate(t) \in Int
           /\ KolkataDate(t) * Day <= t + KolkataOffset
           /\ t + KolkataOffset < (KolkataDate(t) + 1) * Day
BY DEF KolkataDate, Day, KolkataOffset

\* Later instants have later dates, and instants within a day of each other
\* have the same date or consecutive ones.
LEMMA KolkataDateMonotone ==
    ASSUME NEW t \in Int, NEW u \in Int, t <= u, u <= t + Day
    PROVE  KolkataDate(u) \in KolkataDate(t) .. KolkataDate(t) + 1
<1>1. \A d, e \in Int :
         /\ d * Day <= t + KolkataOffset /\ t + KolkataOffset < (d + 1) * Day
         /\ e * Day <= u + KolkataOffset /\ u + KolkataOffset < (e + 1) * Day
         => d < e + 1 /\ e < d + 2
  BY DEF Day, KolkataOffset
<1>2. \A d, e \in Int : d < e + 1 /\ e < d + 2 => e \in d .. d + 1
  OBVIOUS
<1>. QED
  BY <1>1, <1>2, KolkataDateBounds

\* 06:00 of the next Indian date is more than six and at most thirty hours away.
THEOREM ExpiryWindow ==
    ASSUME NEW t \in Int
    PROVE  /\ SessionExpiry(t) \in Int
           /\ t + SixOClock < SessionExpiry(t)
           /\ SessionExpiry(t) <= t + Day + SixOClock
<1>1. \A d \in Int :
         d * Day <= t + KolkataOffset /\ t + KolkataOffset < (d + 1) * Day =>
             /\ (d + 1) * Day + SixOClock - KolkataOffset \in Int
             /\ t + SixOClock < (d + 1) * Day + SixOClock - KolkataOffset
             /\ (d + 1) * Day + SixOClock - KolkataOffset <= t + Day + SixOClock
  BY DEF Day, KolkataOffset, SixOClock
<1>. QED
  BY <1>1, KolkataDateBounds DEF SessionExpiry

-----------------------------------------------------------------------------
(* The inductive invariant: expires_at follows from an instant at which the *)
(* response was read, at most Latency after the token was minted.           *)

\* Waiting for the response takes at most Latency.
Waiting ==
    minted_at # None /\ expires_at = None => now <= minted_at + Latency

\* expires_at is the expiry of the minting date or of the next one.
ReadInTime ==
    expires_at # None =>
        BrokerExpiry <= expires_at /\ expires_at <= BrokerExpiry + Day

IInv == TypeOK /\ Waiting /\ ReadInTime

LEMMA InitIInv == Init => IInv
BY SessionAssumption DEF Init, IInv, TypeOK, Waiting, ReadInTime

LEMMA StepIInv == IInv /\ [Next]_vars => IInv'
<1> SUFFICES ASSUME IInv, [Next]_vars PROVE IInv'
  OBVIOUS
<1> USE SessionAssumption DEF IInv, TypeOK, Waiting, ReadInTime, BrokerExpiry
<1>1. CASE Mint
  BY <1>1 DEF Mint, Day
<1>2. CASE Observe
  <2>1. minted_at \in Int /\ minted_at <= now /\ now <= minted_at + Day
    BY <1>2 DEF Observe, Day
  <2>2. KolkataDate(now) \in KolkataDate(minted_at) .. KolkataDate(minted_at) + 1
    BY <2>1, KolkataDateMonotone
  <2>3. KolkataDate(minted_at) \in Int /\ KolkataDate(now) \in Int
    BY <2>1, KolkataDateBounds
  <2>4. expires_at' = SessionExpiry(now) /\ UNCHANGED <<now, minted_at>>
    BY <1>2 DEF Observe
  <2>5. BrokerExpiry <= SessionExpiry(now) /\ SessionExpiry(now) <= BrokerExpiry + Day
    BY <2>2, <2>3 DEF SessionExpiry, Day, SixOClock, KolkataOffset
  <2>6. SessionExpiry(now) \in Int
    BY ExpiryWindow
  <2>. QED
    BY <2>1, <2>4, <2>5, <2>6
<1>3. ASSUME NEW t \in Instant, Advance(t) PROVE IInv'
  BY <1>3 DEF Advance
<1>4. CASE UNCHANGED vars
  BY <1>4 DEF vars
<1>. QED
  BY <1>1, <1>2, <1>3, <1>4 DEF Next

LEMMA Invariant == Spec => []IInv
BY InitIInv, StepIInv, PTL DEF Spec

\* A ready session's token is alive at the broker or ended less than a day
\* ago, for every latency up to a day.
THEOREM StaleForADayAtMostHolds == Spec => []StaleForADayAtMost
<1>1. IInv => StaleForADayAtMost
  <2> SUFFICES ASSUME IInv, Ready PROVE now < BrokerExpiry + Day
    BY DEF StaleForADayAtMost
  <2>1. minted_at \in Int /\ expires_at \in Int /\ now \in Int /\ now < expires_at
    BY SessionAssumption DEF IInv, TypeOK, Ready
  <2>2. BrokerExpiry \in Int
    BY <2>1, KolkataDateBounds DEF BrokerExpiry, Day, SixOClock, KolkataOffset
  <2>. QED
    BY <2>1, <2>2 DEF IInv, ReadInTime, Ready, Day
<1>. QED
  BY <1>1, Invariant, PTL

\* The transport never stops using a token that the broker still honours.
THEOREM NeverExpiresEarlyHolds == Spec => []NeverExpiresEarly
<1>1. IInv => NeverExpiresEarly
  <2> SUFFICES ASSUME IInv, expires_at # None, Alive PROVE Ready
    BY DEF NeverExpiresEarly
  <2>1. minted_at \in Int /\ expires_at \in Int /\ now \in Int
    BY SessionAssumption DEF IInv, TypeOK
  <2>2. BrokerExpiry \in Int
    BY <2>1, KolkataDateBounds DEF BrokerExpiry, Day, SixOClock, KolkataOffset
  <2>. QED
    BY <2>1, <2>2 DEF IInv, ReadInTime, Ready, Alive
<1>. QED
  BY <1>1, Invariant, PTL

\* Every session starts with more than six hours to go.
THEOREM BornReadyHolds == Spec => BornReady
<1>1. IInv /\ [Next]_vars =>
        [expires_at = None /\ expires_at' # None => expires_at' > now + SixOClock]_vars
  <2> SUFFICES ASSUME IInv, Next, expires_at = None, expires_at' # None
               PROVE  expires_at' > now + SixOClock
    OBVIOUS
  <2>1. expires_at' = SessionExpiry(now) /\ now \in Int
    BY DEF Next, Mint, Observe, Advance, IInv, TypeOK
  <2>. QED
    BY <2>1, ExpiryWindow DEF SixOClock
<1>. QED
  BY <1>1, Invariant, PTL DEF Spec, BornReady

=============================================================================
