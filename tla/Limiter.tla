------------------------------ MODULE Limiter -------------------------------
(***************************************************************************)
(* The rate limiter of the benchmark (src/rate.go).  Any number of         *)
(* goroutines call Wait, which holds the lock while it sleeps: one is in it *)
(* at a time.  Time is a number of ticks; a sleep lasts as long as asked or *)
(* longer.                                                                 *)
(***************************************************************************)
EXTENDS Integers

CONSTANTS
    Second,   \* ticks of a second
    Rate,     \* operations per second
    MaxClock  \* bound: the end of time

ASSUME LimiterConstants == Second \in Nat /\ Rate \in Nat \ {0} /\ MaxClock \in Nat

Interval == Second \div Rate
Slack    == (10 * Second) \div Rate    \* -slack in the code

VARIABLES
    clock,    \* time.Now()
    last,     \* the field last, or {} when it is zero
    sleep,    \* the field sleep
    asleep,   \* TRUE: a goroutine sleeps in Wait
    mark,     \* history: {when} for one operation that was let pass
    spent     \* history: an Interval for each operation let pass since

limiterVars == <<clock, last, sleep, asleep, mark, spent>>

NewLimiter == /\ clock = 0 /\ last = {} /\ sleep = 0 /\ asleep = FALSE
              /\ mark = {} /\ spent = 0

Tick == /\ clock < MaxClock
        /\ clock' = clock + 1
        /\ UNCHANGED <<last, sleep, asleep, mark, spent>>

\* Wait returns, which lets an operation pass: perhaps the one to count from.
Pass == \/ /\ mark = {}
           /\ mark' = {clock} /\ spent' = 0
        \/ /\ mark' = mark
           /\ spent' = IF mark = {} THEN 0 ELSE spent + Interval

\* The first call.
WaitFirst ==
    /\ ~asleep /\ last = {}
    /\ last' = {clock}
    /\ Pass
    /\ UNCHANGED <<clock, sleep, asleep>>

\* mutant: idle time is saved without limit
DueUnlimited(l) == sleep + Interval - (clock - l)

\* What sleep becomes at the start of a call: a debt, or at most Slack saved.
Due(l) == LET s == sleep + Interval - (clock - l)
          IN IF s < -Slack THEN -Slack ELSE s

WaitPasses ==
    \E l \in last :
        /\ ~asleep /\ Due(l) <= 0
        /\ sleep' = Due(l)
        /\ last' = {clock}
        /\ Pass
        /\ UNCHANGED <<clock, asleep>>

\* l.last is set to the end of the sleep, which is when it matters next.
WaitSleeps ==
    \E l \in last :
        /\ ~asleep /\ Due(l) > 0
        /\ sleep' = 0
        /\ last' = {clock + Due(l)}
        /\ asleep' = TRUE
        /\ UNCHANGED <<clock, mark, spent>>

Wake == \E l \in last :
        /\ asleep /\ l <= clock
        /\ asleep' = FALSE
        /\ Pass
        /\ UNCHANGED <<clock, last, sleep>>

LimiterNext == Tick \/ WaitFirst \/ WaitPasses \/ WaitSleeps \/ Wake

LimiterSpec == NewLimiter /\ [][LimiterNext]_limiterVars

-----------------------------------------------------------------------------
(* Properties *)

\* After any operation the limiter lets no more of them pass than its rate allows
\* for the time since, apart from those it has saved (10 and one): oversleeping
\* and pauses do not add up to a longer burst (Wait).
RateKept == \A m \in mark : spent <= (clock - m) + Slack + Interval
=============================================================================
