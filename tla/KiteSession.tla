---------------------------- MODULE KiteSession ----------------------------
(***************************************************************************)
(* The life of a Kite access token: the broker mints it and ends it by     *)
(* 06:00 India time of the following day; HttpxKiteTokenExchanger derives  *)
(* the session's expires_at from its own clock once it has read the        *)
(* response (connectors/zerodha_auth.py), and the transport refuses to     *)
(* work from then on (connectors/zerodha_http.py).                         *)
(*                                                                         *)
(* Instants are minutes of UTC.                                            *)
(***************************************************************************)
EXTENDS Integers

CONSTANTS
    Instant,   \* bound: the instants the clock shows
    Latency,   \* the longest time between minting and reading the response
    None

VARIABLES
    now,         \* the clock
    minted_at,   \* when the broker minted the token, or None
    expires_at   \* KiteSession.expires_at once the response was read, or None

vars == <<now, minted_at, expires_at>>

Day == 24 * 60
KolkataOffset == 5 * 60 + 30
SixOClock == 6 * 60

ASSUME SessionAssumption ==
    /\ Instant \subseteq Int
    /\ Latency \in 0 .. Day
    /\ None \notin Int

-----------------------------------------------------------------------------
\* The Indian date of an instant, as a number of days.
KolkataDate(t) == (t + KolkataOffset) \div Day

\* Mutant: the date is taken in UTC.
SessionExpiryByUtcDate(t) == ((t \div Day) + 1) * Day + SixOClock - KolkataOffset

\* 06:00 India time on the day after the Indian date of t.
SessionExpiry(t) == (KolkataDate(t) + 1) * Day + SixOClock - KolkataOffset

\* When the broker stops honouring the token: the rule of _session_expiry,
\* applied to the moment it was minted.
BrokerExpiry == (KolkataDate(minted_at) + 1) * Day + SixOClock - KolkataOffset
Alive == minted_at # None /\ now < BrokerExpiry

\* Mutant: the instant of expiry itself is still ready.
ReadyInclusive == expires_at # None /\ now <= expires_at

\* HttpxKiteTransport.authentication_state with an access token.
Ready == expires_at # None /\ ~(expires_at <= now)

-----------------------------------------------------------------------------
Init ==
    /\ now \in Instant
    /\ minted_at = None
    /\ expires_at = None

Mint ==
    /\ minted_at = None
    /\ minted_at' = now
    /\ UNCHANGED <<now, expires_at>>

\* exchange builds the session from the clock it reads after the response.
Observe ==
    /\ minted_at # None
    /\ expires_at = None
    /\ expires_at' = SessionExpiry(now)
    /\ UNCHANGED <<now, minted_at>>

\* Time passes, but not beyond the latency while a response is under way.
Advance(t) ==
    /\ t > now
    /\ minted_at # None /\ expires_at = None => t <= minted_at + Latency
    /\ now' = t
    /\ UNCHANGED <<minted_at, expires_at>>

Next ==
    \/ Mint
    \/ Observe
    \/ \E t \in Instant : Advance(t)

Spec == Init /\ [][Next]_vars

-----------------------------------------------------------------------------
(* Properties.                                                             *)

\* Instants are integers; a session needs a minted token.
TypeOK ==
    /\ now \in Int
    /\ minted_at \in Int \union {None}
    /\ expires_at \in Int \union {None}
    /\ expires_at # None => minted_at # None /\ minted_at <= now

\* A session that is ready has a token that the broker either still honours
\* or stopped honouring less than a day ago: reading the response on the
\* other side of midnight costs at most one day.
StaleForADayAtMost ==
    Ready => now < BrokerExpiry + Day

\* The transport never gives up a token the broker still honours: expires_at
\* lies at or after the broker's end of the token.
NeverExpiresEarly ==
    expires_at # None /\ Alive => Ready

\* A session is ready when it is made, and stays so for more than six hours.
BornReady ==
    [][expires_at = None /\ expires_at' # None =>
          expires_at' > now + SixOClock]_vars

=============================================================================
