------------------------------ MODULE PitTimer ------------------------------
(***************************************************************************)
(* Channel 0 of the programmable interval timer and the schedule of its    *)
(* interrupts (hle/pit_timer.cpp).  The guest publishes divisors; the host *)
(* loop, or the guest while it waits a swap out, polls the schedule under  *)
(* timer_tick_arm_mutex.  Time is the event clock, which does not go back, *)
(* in nanoseconds of a second that has NanosPerSecond of them.             *)
(***************************************************************************)
EXTENDS Integers

CONSTANTS
    InputClockHz,    \* kInputClockHz
    NanosPerSecond,  \* kNanosecondsPerSecond
    Divisors,        \* bound: what the guest programs
    DefaultDivisor,  \* kDefaultDivisor
    MaxGeneration,   \* bound: divisors published; the code's 2^32 never wrap between polls
    MaxNow           \* bound: how far the clock runs

ASSUME PitAssumption ==
    /\ InputClockHz \in Nat \ {0} /\ NanosPerSecond \in Nat /\ NanosPerSecond >= InputClockHz
    /\ DefaultDivisor \in Divisors /\ Divisors \subseteq Nat \ {0}
    /\ MaxGeneration \in Nat \ {0} /\ MaxNow \in Nat

VARIABLES
    now,         \* the event clock
    generation,  \* the generation in configuration_
    divisor,     \* the divisor in configuration_
    schedule     \* the PitIrqSchedule

pitVars == <<now, generation, divisor, schedule>>

PitInit ==
    /\ now = 0 /\ generation = 1 /\ divisor = DefaultDivisor
    /\ schedule = [initialized |-> FALSE, generation |-> 0, epoch |-> 0, emitted |-> 0]

PitTickCountForElapsed(elapsed, d) ==
    LET whole     == elapsed \div NanosPerSecond
        remaining == elapsed % NanosPerSecond
    IN  (whole * InputClockHz + (remaining * InputClockHz) \div NanosPerSecond) \div d

(* Mutant: the last fraction of a nanosecond is cut off. *)
PitElapsedTruncated(ordinal, d) ==
    LET clocks == ordinal * d
    IN  (clocks \div InputClockHz) * NanosPerSecond
        + ((clocks % InputClockHz) * NanosPerSecond) \div InputClockHz

PitElapsedNanosecondsForTick(ordinal, d) ==
    LET clocks == ordinal * d
    IN  (clocks \div InputClockHz) * NanosPerSecond
        + ((clocks % InputClockHz) * NanosPerSecond + InputClockHz - 1) \div InputClockHz

(* PublishDivisor, the end of every sequence of port writes that programs  *)
(* the channel: generation and divisor change in one store.                *)
PublishDivisor(d) ==
    /\ generation < MaxGeneration
    /\ generation' = generation + 1
    /\ divisor' = d
    /\ UNCHANGED <<now, schedule>>

TimePasses ==
    /\ now < MaxNow
    /\ now' = now + 1
    /\ UNCHANGED <<generation, divisor, schedule>>

Restarts == ~schedule.initialized \/ schedule.generation # generation

(* The ticks PitIrqSchedule::Poll finds due, by their ordinals. *)
DueOrdinals ==
    IF Restarts THEN {}
    ELSE (schedule.emitted + 1)..PitTickCountForElapsed(now - schedule.epoch, divisor)

DueTime(ordinal) == schedule.epoch + PitElapsedNanosecondsForTick(ordinal, divisor)

(* What Poll leaves behind: a new divisor starts a new epoch, and the      *)
(* ticks found are counted as emitted.                                     *)
PollSchedule ==
    /\ schedule' =
         IF Restarts
           THEN [initialized |-> TRUE, generation |-> generation, epoch |-> now,
                 emitted |-> 0]
           ELSE [schedule EXCEPT !.emitted =
                   IF DueOrdinals = {} THEN @
                   ELSE PitTickCountForElapsed(now - schedule.epoch, divisor)]
    /\ UNCHANGED <<now, generation, divisor>>

(* The deadline the host loop waits for (NanosecondsUntilNextTick) is the  *)
(* instant from which a poll finds the next tick due, neither before it    *)
(* nor after it, however the two roundings fall.                           *)
DeadlineIsTheTick ==
    ~Restarts =>
        \A t \in schedule.epoch..MaxNow :
            t >= DueTime(schedule.emitted + 1)
              <=> PitTickCountForElapsed(t - schedule.epoch, divisor) > schedule.emitted

=============================================================================
