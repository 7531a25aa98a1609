-------------------------- MODULE ConnectionTimer --------------------------
(***************************************************************************)
(* The idle timer of one signalling connection in real time: a repeating   *)
(* timer compares EventLoop::now(), the wall clock in microseconds as an   *)
(* unsigned long, with the time of the last interaction.                   *)
(*                                                                         *)
(* One unit of time stands for a fraction of the timer's period.  libev    *)
(* runs its timers on a monotonic clock, but now() is the wall clock,      *)
(* which may be set; `stepped' records that it was since the last          *)
(* interaction.                                                            *)
(***************************************************************************)
EXTENDS Naturals

CONSTANTS Modulus,   \* the clock counts modulo this, 2^64
          Period,    \* the timer's period, 100000 us
          Timeout,   \* connection_timeout, as the number in the file
          PerMs,     \* units of time in what the file says is the unit
          MaxIdle    \* bound: idle time is counted up to here

ASSUME TimerAssumption ==
    /\ Modulus \in Nat /\ Period \in Nat \ {0} /\ Timeout \in Nat \ {0} /\ PerMs \in Nat \ {0}
    /\ Timeout + Period < Modulus /\ MaxIdle \in Nat
    /\ MaxIdle > Timeout * PerMs /\ MaxIdle >= Timeout + Period

VARIABLES clock,              \* the wall clock
          last_interaction,   \* c->last_interaction
          due,                \* time until the timer fires
          idle,               \* real time since the last interaction
          stepped,            \* history
          open

timerVars == <<clock, last_interaction, due, idle, stepped, open>>

Clock == 0 .. Modulus - 1

(* _new_conn()                                                             *)
TimerInit ==
    /\ clock \in Clock /\ last_interaction = clock
    /\ due = Period /\ idle = 0 /\ stepped = FALSE /\ open = TRUE

(* Time passes; the event loop serves the timer when it is due.            *)
Tick ==
    /\ open /\ due > 0
    /\ due' = due - 1
    /\ idle' = IF idle < MaxIdle THEN idle + 1 ELSE MaxIdle
    /\ clock' = (clock + 1) % Modulus
    /\ UNCHANGED <<last_interaction, stepped, open>>

(* The wall clock is set.                                                  *)
Step ==
    /\ open
    /\ clock' \in Clock \ {clock}
    /\ stepped' = TRUE
    /\ UNCHANGED <<last_interaction, due, idle, open>>

(* _read_query() and _write_reply().                                       *)
Interact ==
    /\ open
    /\ last_interaction' = clock /\ idle' = 0 /\ stepped' = FALSE
    /\ UNCHANGED <<clock, due, open>>

(* Mutant: no time has passed when the counter has wrapped round.          *)
ElapsedNaive == IF clock >= last_interaction THEN clock - last_interaction ELSE 0

(* now() - last_interaction, in unsigned arithmetic.                       *)
Elapsed == (clock + Modulus - last_interaction) % Modulus

(* _process_timeout(), called by the repeating timer.                      *)
_process_timeout ==
    /\ open /\ due = 0
    /\ open' = (Elapsed < Timeout)
    /\ due' = Period
    /\ UNCHANGED <<clock, last_interaction, idle, stepped>>

(* The connection stays closed.                                            *)
Closed == ~open /\ UNCHANGED timerVars

TimerNext == Tick \/ Step \/ Interact \/ _process_timeout \/ Closed

TimerSpec == TimerInit /\ [][TimerNext]_timerVars

-----------------------------------------------------------------------------
(* The types of the clock and the timer.                                   *)
TimerTypeOK ==
    /\ clock \in Clock /\ last_interaction \in Clock
    /\ due \in 0 .. Period /\ idle \in 0 .. MaxIdle
    /\ stepped \in BOOLEAN /\ open \in BOOLEAN

(* No connection stays open for more than a period of the timer after      *)
(* connection_timeout has passed since it was last used.                   *)
NotLate == TimerTypeOK /\ (open => stepped \/ idle < Timeout + Period)

(* An idle connection is closed in time: not late, and unless the wall     *)
(* clock is set not before connection_timeout has passed, also when the    *)
(* counter wraps round in between.                                         *)
ClosedInTime == [][NotLate' /\ (open /\ ~open' => stepped \/ idle >= Timeout)]_timerVars

(* "connection_timeout", "unit: ms": no connection is closed before that   *)
(* many milliseconds have passed.                                          *)
TimeoutInMilliseconds == [][open /\ ~open' => stepped \/ idle >= Timeout * PerMs]_timerVars
=============================================================================
