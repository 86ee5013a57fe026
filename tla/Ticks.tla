-------------------------------- MODULE Ticks --------------------------------
(***************************************************************************)
(* The senders' clock (timing.c of both 16-bit senders, timing32.c: the     *)
(* same code three times) and the hold time it is kept for: how long a      *)
(* symbol of the legacy sender stays before the next one may replace it.    *)
(*                                                                         *)
(* timer_ticks() joins two clocks that do not move together: the counter    *)
(* chip, whose phase is exact, and the count of periods in the BIOS data    *)
(* area, which an interrupt advances some time after the chip has begun     *)
(* its next period.                                                        *)
(***************************************************************************)
EXTENDS Integers

CONSTANTS
  Period,  \* TIMER_TICKS_PER_BIOS, 4096
  Day,     \* BIOS_TICKS_PER_DAY, 0x1800B0
  Word,    \* 2^32: timer_total, earliest_tick and their difference are u32
  Holds    \* the hold times asked for, in ticks: /HOLD is at most 65535 ms

\* Of the constants.
TicksAssumption ==
  /\ Period \in Nat \ {0}
  /\ Day \in Nat \ {0, 1}
  /\ Word \in Nat \ {0}
  /\ Holds \subseteq {h \in Nat : 2 * h <= Word}

VARIABLES
  clock,   \* the machine's: period and phase of the chip, periods served, BIOS count
  timer,   \* the static variables of timing.c
  symbol,  \* last_visible_tick, and the wait of the symbol that is to come
  past,    \* history: what the clock said at the first and at the last reading,
           \* and the ticks counted in between, unwrapped
  shown    \* history: the last page flip, and the reading that recorded it

vars == <<clock, timer, symbol, past, shown>>

\* The time that has really passed, in ticks; and whether the interrupt for the
\* period that has begun is still to come.
Now == clock.periods * Period + clock.phase
Late == clock.periods - clock.served

Init ==
  /\ \E late \in 0..1, phase \in 0..Period - 1, bios \in 0..Day - 1 :
       clock = [periods |-> 1, phase |-> phase, served |-> 1 - late, bios |-> bios]
  /\ timer = [initialized |-> FALSE, last_bios_tick |-> 0, last_phase |-> 0,
              pending_bios_tick |-> 0, total |-> 0]
  /\ symbol = [pc |-> "idle", last_visible |-> 0, hold |-> 0, earliest |-> 0]
  /\ past = [first |-> 0, lateFirst |-> 0, at |-> 0, late |-> 0, served |-> 0, seen |-> 0]
  /\ shown = [flip |-> 0, at |-> 0, seen |-> 0]

-----------------------------------------------------------------------------
(* The machine.                                                            *)

\* The chip counts. An interrupt is served before the next one is due.
Elapse ==
  /\ \/ /\ clock.phase < Period - 1
        /\ clock' = [clock EXCEPT !.phase = @ + 1]
     \/ /\ clock.phase = Period - 1 /\ Late = 0
        /\ clock' = [clock EXCEPT !.phase = 0, !.periods = @ + 1]
  /\ UNCHANGED <<timer, symbol, past, shown>>

\* IRQ 0: the BIOS counts a period, and begins again at midnight. The program
\* reads its clock more than once a day: the count says nothing of whole days.
Serve ==
  /\ Late = 1
  /\ timer.initialized => clock.served + 1 - past.served < Day
  /\ clock' = [clock EXCEPT !.served = @ + 1,
                            !.bios = IF @ + 1 = Day THEN 0 ELSE @ + 1]
  /\ UNCHANGED <<timer, symbol, past, shown>>

-----------------------------------------------------------------------------
(* timer_ticks().                                                          *)

BiosDelta ==
  IF clock.bios >= timer.last_bios_tick
    THEN clock.bios - timer.last_bios_tick
    ELSE (Day - timer.last_bios_tick) + clock.bios

\* What the BIOS counted, without the period that was counted ahead of it.
Uncounted == IF BiosDelta > 0 THEN BiosDelta - timer.pending_bios_tick ELSE 0

\* The chip has begun a period of which the BIOS knows nothing yet.
Ahead == clock.phase < timer.last_phase /\ Uncounted = 0

Delta == (IF Ahead THEN 1 ELSE Uncounted) * Period + clock.phase - timer.last_phase

FirstReading ==
  /\ ~timer.initialized
  /\ timer' = [timer EXCEPT !.initialized = TRUE,
                            !.last_bios_tick = clock.bios, !.last_phase = clock.phase]
  /\ past' = [first |-> Now, lateFirst |-> Late, at |-> Now, late |-> Late,
              served |-> clock.served, seen |-> 0]

NextReading ==
  /\ timer.initialized
  /\ timer' = [timer EXCEPT !.last_bios_tick = clock.bios, !.last_phase = clock.phase,
                            !.pending_bios_tick = IF Ahead THEN 1
                                                  ELSE IF BiosDelta > 0 THEN 0 ELSE @,
                            !.total = (@ + Delta) % Word]
  /\ past' = [past EXCEPT !.at = Now, !.late = Late, !.served = clock.served,
                          !.seen = @ + Delta]

\* The loop around the two counters repeats until no interrupt came between:
\* the BIOS count and the latched phase are of one moment. The chip runs in mode
\* 2 or 3, as the BIOS leaves it; in another one the code takes its phase for 0.
TimerTicks == (FirstReading \/ NextReading) /\ UNCHANGED clock

-----------------------------------------------------------------------------
(* The hold time.                                                          *)

\* Anything else that asks for the time: the session number, the profile, /CAL.
OtherReading == TimerTicks /\ UNCHANGED <<symbol, shown>>

\* display_encoded() and its two RGB3 siblings: the next symbol is drawn, and
\* may be shown once the last one was visible for h. A tick of 0 means none.
Show(h) ==
  /\ symbol.pc = "idle"
  /\ symbol' = [symbol EXCEPT !.pc = "waiting", !.hold = h,
                              !.earliest = IF symbol.last_visible # 0 /\ h # 0
                                             THEN (symbol.last_visible + h) % Word
                                             ELSE 0]
  /\ UNCHANGED <<clock, timer, past, shown>>

\* (long)(tick - earliest_tick) >= 0.
Reached(tick) == 2 * ((tick - symbol.earliest) % Word) < Word

\* wait_retrace_at_or_after(): in a retrace, and without a deadline at once.
AtOnce ==
  /\ symbol.pc = "waiting" /\ symbol.earliest = 0
  /\ symbol' = [symbol EXCEPT !.pc = "due"]
  /\ UNCHANGED <<clock, timer, past, shown>>

Poll ==
  /\ symbol.pc = "waiting" /\ symbol.earliest # 0
  /\ TimerTicks
  /\ symbol' = [symbol EXCEPT !.pc = IF Reached(timer'.total) THEN "due" ELSE @]
  /\ UNCHANGED shown

\* finish_page_flip(): the page is selected first and the time taken after.
Flip ==
  /\ symbol.pc = "due"
  /\ symbol' = [symbol EXCEPT !.pc = "flipped"]
  /\ shown' = [shown EXCEPT !.flip = Now]
  /\ UNCHANGED <<clock, timer, past>>

Stamp ==
  /\ symbol.pc = "flipped"
  /\ TimerTicks
  /\ symbol' = [symbol EXCEPT !.pc = "idle", !.last_visible = timer'.total]
  /\ shown' = [shown EXCEPT !.at = past'.at, !.seen = past'.seen]

Next ==
  \/ Elapse \/ Serve
  \/ OtherReading
  \/ \E h \in Holds : Show(h)
  \/ AtOnce \/ Poll \/ Flip \/ Stamp

Spec == Init /\ [][Next]_vars

-----------------------------------------------------------------------------
(* Properties.                                                             *)

\* The clock is never ahead of the time that has passed since it was first
\* read, midnight and late interrupts included, and at most one period behind,
\* while an interrupt is late: the period counted ahead of its interrupt is not
\* counted again with it. A first reading between a period and its interrupt
\* has nothing to compare with: that clock runs up to a period ahead for good
\* (timing.c:54-72).
Faithful ==
  timer.initialized =>
    LET error == past.seen - (past.at - past.first) IN
    /\ error <= past.lateFirst * Period
    /\ error >= (past.lateFirst - 1) * Period

\* A symbol that is to be held is replaced at most one period before its time,
\* whatever wraps or is late in between (sender.c:205, vga.c:391-404).
HoldKept ==
  symbol.pc = "due" /\ symbol.earliest # 0 =>
    Now - shown.flip >= symbol.hold - Period
=============================================================================
