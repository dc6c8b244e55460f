------------------------------ MODULE Timespec ------------------------------
(***************************************************************************)
(* The deadlines of park_until: timeout_to_timespec of src/auxiliary.rs    *)
(* with its overflow checks, between the two readings of the clock that    *)
(* its callers in src/futex.rs and src/pthread.rs make. An Option is a set *)
(* of at most one element.                                                 *)
(*                                                                         *)
(* The sum of two nanosecond counts fits a C long of 32 bits. What the     *)
(* kernel does with the deadline is not described: the pointer that        *)
(* wait_until passes is dangling, and the futex waits on another clock.    *)
(* So a sleeper may wake up at any time.                                   *)
(***************************************************************************)
EXTENDS Integers

CONSTANTS
  TimeMax,  \* the largest time_t
  SecMax,   \* the largest number of seconds of an Instant
  NanoSec   \* nanoseconds in a second

ASSUME TimespecAssumption ==
  /\ TimeMax \in Nat \ {0}
  /\ SecMax \in Nat
  /\ NanoSec \in Nat \ {0}

VARIABLES
  clock,    \* the monotonic clock
  timeout,  \* the argument of park_until
  now,      \* what park_until has read the clock to be
  deadline, \* Option<timespec>
  step      \* where park_until is

timeVars == <<clock, timeout, now, deadline, step>>

Times(last) == [sec : 0..last, nsec : 0..(NanoSec - 1)]
Instants    == Times(SecMax)
TimeT       == -(TimeMax + 1)..TimeMax

Nanos(i) == i.sec * NanoSec + i.nsec

Zero == [sec |-> 0, nsec |-> 0]
Succ(i) == IF i.nsec + 1 < NanoSec
           THEN [i EXCEPT !.nsec = @ + 1]
           ELSE [sec |-> i.sec + 1, nsec |-> 0]

\* timeout - now, for a timeout that is ahead.
Minus(i, j) == IF i.nsec >= j.nsec
               THEN [sec |-> i.sec - j.sec, nsec |-> i.nsec - j.nsec]
               ELSE [sec |-> i.sec - j.sec - 1, nsec |-> i.nsec + NanoSec - j.nsec]

\* n as time_t: the low bits of n, with their sign.
as_time_t(n) == ((n + TimeMax + 1) % (2 * (TimeMax + 1))) - (TimeMax + 1)

checked_add(s, n) == {s + n} \intersect TimeT

\* (Mutants: no overflow check, the carry is lost or comes too late, overflow of
\* the seconds is not noticed.)
CastFirst(d, t) ==
  LET nsec  == t.nsec + d.nsec
      carry == nsec >= NanoSec
      sec   == {s + as_time_t(d.sec) : s \in {t.sec}} \intersect TimeT
  IN  {[sec  |-> IF carry THEN s + 1 ELSE s,
        nsec |-> IF carry THEN nsec - NanoSec ELSE nsec] : s \in sec}
CarryLate(d, t) ==
  LET nsec  == t.nsec + d.nsec
      carry == nsec > NanoSec
  IN  {[sec  |-> IF carry THEN s + 1 ELSE s,
        nsec |-> IF carry THEN nsec - NanoSec ELSE nsec] :
         s \in IF d.sec > TimeMax THEN {} ELSE checked_add(t.sec, d.sec)}
RefuseLast(d, t) ==
  LET nsec  == t.nsec + d.nsec
      carry == nsec >= NanoSec
  IN  {[sec  |-> IF carry THEN s + 1 ELSE s,
        nsec |-> IF carry THEN nsec - NanoSec ELSE nsec] :
         s \in IF d.sec >= TimeMax THEN {} ELSE checked_add(t.sec, d.sec)}
timeout_to_timespec(d, t) ==
  LET nsec  == t.nsec + d.nsec
      carry == nsec >= NanoSec
      sec   == checked_add(t.sec, as_time_t(d.sec))
      total == IF carry THEN UNION {checked_add(s, 1) : s \in sec} ELSE sec
  IN  IF d.sec > TimeMax THEN {}
      ELSE {[sec |-> s, nsec |-> IF carry THEN nsec - NanoSec ELSE nsec] : s \in total}

-----------------------------------------------------------------------------
(* park_until. A variable that goes out of scope is cleared. *)

TimeInit ==
  /\ clock = Zero
  /\ timeout = Zero
  /\ now = Zero
  /\ deadline = {}
  /\ step = "return"

ParkUntil(i) ==
  /\ step = "return"
  /\ timeout' = i
  /\ step' = "look"
  /\ UNCHANGED <<clock, now, deadline>>

\* let now = Instant::now(); if timeout <= now return.
LookAtClock ==
  /\ step = "look"
  /\ IF Nanos(timeout) <= Nanos(clock)
     THEN step' = "return" /\ timeout' = Zero /\ UNCHANGED now
     ELSE step' = "convert" /\ now' = clock /\ UNCHANGED timeout
  /\ UNCHANGED <<clock, deadline>>

\* timeout_to_timespec(timeout - now), which reads the clock once more.
Convert ==
  /\ step = "convert"
  /\ deadline' = timeout_to_timespec(Minus(timeout, now), clock)
  /\ step' = "asleep"
  /\ UNCHANGED <<clock, timeout, now>>

\* The sleep ends: the deadline, a signal, or nothing at all.
EndSleep ==
  /\ step = "asleep"
  /\ step' = "look"
  /\ now' = Zero
  /\ deadline' = {}
  /\ UNCHANGED <<clock, timeout>>

\* The clock goes on. time_t holds it.
TickOver ==
  /\ Succ(clock).sec <= TimeMax
  /\ clock' = Succ(clock)
  /\ UNCHANGED <<timeout, now, deadline, step>>

TimeNext ==
  \/ \E i \in Instants : ParkUntil(i)
  \/ LookAtClock \/ Convert \/ EndSleep
  \/ TickOver

TimespecSpec == TimeInit /\ [][TimeNext]_timeVars

-----------------------------------------------------------------------------
(* Properties. *)

\* Type correctness. A timespec is canonical and not negative, so the kernel has
\* no reason to refuse it.
TimeTypes ==
  /\ {clock, now} \subseteq Times(TimeMax)
  /\ timeout \in Instants
  /\ deadline \subseteq Times(TimeMax)
  /\ step \in {"look", "convert", "asleep", "return"}

\* A deadline is never before the timeout it was made from, and later only by the
\* time that has passed since the caller looked at the clock.
DeadlineMeetsTimeout ==
  step = "asleep" =>
    \A ts \in deadline :
      /\ Nanos(timeout) <= Nanos(ts)
      /\ Nanos(ts) - Nanos(timeout) <= Nanos(clock) - Nanos(now)

\* "Handle overflows": a sleep without an end is asked for only if its end is not a
\* time_t, give or take the time since the caller looked at the clock.
EndlessOnlyBeyondTime ==
  step = "asleep" /\ deadline = {} =>
    Nanos(timeout) + Nanos(clock) - Nanos(now) >= (TimeMax + 1) * NanoSec
=============================================================================
