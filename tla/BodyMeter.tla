------------------------------- MODULE BodyMeter -------------------------------
(***************************************************************************)
(* How long one request body may take: the clock of MeteredBody in         *)
(* server_body.rs, with its idle timer, the total deadline of small and    *)
(* anonymous bodies, and the least rate, judged window by window.          *)
(*                                                                         *)
(* Time is counted in ticks from the start of the body.  Whoever reads the *)
(* body waits for it, so a timer that runs out while nothing arrives ends  *)
(* the body in the same tick.  A mark, set at a moment nobody chose,       *)
(* counts what arrives after it.                                           *)
(***************************************************************************)
EXTENDS Integers

CONSTANTS
    Idle,     \* MENTISDB_BODY_IDLE_TIMEOUT_SECS
    MinRate,  \* MENTISDB_MIN_BODY_BYTES_PER_SEC
    Cap,      \* the body cap of the route
    Deadline, \* does the body have a total deadline?
    MaxFrame  \* bound: bytes of one frame

ASSUME IdleAssumption == Idle \in Nat \ {0}
ASSUME RateAssumption == MinRate \in Nat
ASSUME CapAssumption == Cap \in Nat /\ Deadline \in BOOLEAN
ASSUME FrameAssumption == MaxFrame \in Nat

VARIABLES
    now,          \* ticks since `started`
    state,        \* "reading", "read", "too slow" or "too long"
    received,     \* bytes of the body so far
    deadline,     \* when the idle timer runs out
    window_start, \* start of the rate window, -1 before the first one
    window_bytes, \* bytes that arrived in it
    mark,         \* history: when the mark was set, -1 before
    since         \* history: bytes that arrived after it

meterVars == <<now, state, received, deadline, window_start, window_bytes, mark, since>>

GraceEnd == 2 * Idle
Total == 2 * Idle

MeterInit ==
    /\ now = 0 /\ state = "reading" /\ received = 0 /\ deadline = Idle
    /\ window_start = -1 /\ window_bytes = 0
    /\ mark = -1 /\ since = 0

\* Time passes while the body is awaited.
Tick ==
    /\ state = "reading" /\ now < deadline /\ (Deadline => now < Total)
    /\ now' = now + 1
    /\ UNCHANGED <<state, received, deadline, window_start, window_bytes, mark, since>>

\* Pending, and a timer has run out.
TimeOut ==
    /\ state = "reading" /\ (now >= deadline \/ (Deadline /\ now >= Total))
    /\ state' = "too slow"
    /\ UNCHANGED <<now, received, deadline, window_start, window_bytes, mark, since>>

\* The window a frame belongs to: the first starts with the end of the grace.
Start == IF window_start = -1 THEN GraceEnd ELSE window_start
Bytes(n) == window_bytes + n

\* Variant: a window is judged by all that arrived since the start.
RatedBanked(n) ==
    IF now <= GraceEnd \/ now - Start < Idle
    THEN /\ state' = "reading"
         /\ window_start' = (IF now <= GraceEnd THEN window_start ELSE Start)
         /\ window_bytes' = (IF now <= GraceEnd THEN window_bytes ELSE Bytes(n))
    ELSE IF received' < now * MinRate
    THEN state' = "too slow" /\ window_start' = Start /\ window_bytes' = Bytes(n)
    ELSE state' = "reading" /\ window_start' = now /\ window_bytes' = 0

\* Variant: a window that was judged is not started anew.
RatedOneWindow(n) ==
    IF MinRate = 0 \/ now <= GraceEnd
    THEN /\ state' = "reading"
         /\ UNCHANGED <<window_start, window_bytes>>
    ELSE IF now - Start >= Idle /\ Bytes(n) < Idle * MinRate
    THEN state' = "too slow" /\ window_start' = Start /\ window_bytes' = Bytes(n)
    ELSE state' = "reading" /\ window_start' = Start /\ window_bytes' = Bytes(n)

\* too_slow: after the grace, the frame is counted in its window, and a window
\* that has lasted is judged by its bytes alone.
Rated(n) ==
    IF MinRate = 0 \/ now <= GraceEnd
    THEN /\ state' = "reading"
         /\ UNCHANGED <<window_start, window_bytes>>
    ELSE IF now - Start < Idle
    THEN state' = "reading" /\ window_start' = Start /\ window_bytes' = Bytes(n)
    ELSE IF Bytes(n) < (now - Start) * MinRate
    THEN state' = "too slow" /\ window_start' = Start /\ window_bytes' = Bytes(n)
    ELSE state' = "reading" /\ window_start' = now /\ window_bytes' = 0

\* A frame arrives, possibly an empty one, and the idle timer starts anew.
Frame ==
    /\ state = "reading"
    /\ \E n \in 0..MaxFrame :
         /\ received + n <= Cap
         /\ received' = received + n
         /\ since' = IF mark = -1 THEN since ELSE since + n
         /\ Rated(n)
    /\ deadline' = IF state' = "reading" THEN now + Idle ELSE deadline
    /\ UNCHANGED <<now, mark>>

\* Limited cuts off a body that crosses its cap.
TooLong ==
    /\ state = "reading" /\ received + MaxFrame > Cap
    /\ state' = "too long"
    /\ UNCHANGED <<now, received, deadline, window_start, window_bytes, mark, since>>

\* The body ends.
EndOfStream ==
    /\ state = "reading"
    /\ state' = "read"
    /\ UNCHANGED <<now, received, deadline, window_start, window_bytes, mark, since>>

\* The moment from which `since` counts.
Mark ==
    /\ mark = -1 /\ state = "reading"
    /\ mark' = now
    /\ UNCHANGED <<now, state, received, deadline, window_start, window_bytes, since>>

MeterNext == Tick \/ TimeOut \/ Frame \/ TooLong \/ EndOfStream \/ Mark

MeterSpec == MeterInit /\ [][MeterNext]_meterVars

-----------------------------------------------------------------------------
(* What must hold. *)

\* The variables range over the values the code gives them, and no body grows
\* over its cap.
MeterTypeOK ==
    /\ now \in Nat /\ state \in {"reading", "read", "too slow", "too long"}
    /\ received \in 0..Cap /\ deadline \in Nat
    /\ window_start \in Int /\ window_start >= -1 /\ window_bytes \in 0..received
    /\ mark \in Int /\ mark >= -1 /\ since \in 0..received

\* A body whose rate is judged is over in the time its cap takes at the least
\* rate and four idle timeouts more, however cleverly it trickles.
EndsInTime == MinRate > 0 => MinRate * (now - 4 * Idle) <= received

\* Credit cannot be banked: from any moment on, whatever arrived before it, a
\* body delivers an idle timeout's worth at the least rate in any four idle
\* timeouts after its grace.
RateKept ==
    MinRate > 0 /\ state = "reading" /\ mark >= GraceEnd /\ now > mark + 4 * Idle
      => since >= Idle * MinRate

\* A body keeps pace: over all of its time, and in every part of it.
KeepsPace == EndsInTime /\ RateKept

=============================================================================
