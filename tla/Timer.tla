------------------------------- MODULE Timer -------------------------------
(***************************************************************************)
(* The tick counter of timer.c and the shell's sleep command on top of the *)
(* scheduler.                                                              *)
(*                                                                         *)
(* timer_sleep compares the counter with a target in a loop around hlt.    *)
(* It runs in task 0 with interrupts enabled: a tick may fall between the  *)
(* comparison and the hlt, may move the processor to other tasks for many  *)
(* ticks, and any other interrupt ends the hlt as well.  Both the counter  *)
(* and the target are words and wrap around.                               *)
(***************************************************************************)
EXTENDS Scheduler

CONSTANTS
  WORD,       \* words are counted modulo this (2^32)
  TIMER_HZ,   \* ticks per second (100)
  SECOND,     \* milliseconds per second (1000)
  Durations   \* the milliseconds sleep is called with: positive values of an int

ASSUME WordAssumption ==
  /\ WORD \in Nat \ {0} /\ TIMER_HZ \in Nat \ {0} /\ SECOND \in Nat \ {0}
  /\ Durations \subseteq 1..(WORD \div 2 - 1)

\* A task that comes back keeps the processor for more than one tick
\* (TASK_QUANTUM is 5): Late below counts one round of the others, not two.
ASSUME SliceAssumption == TASK_QUANTUM >= 2

VARIABLES
  ticks,
  target,     \* timer_sleep's local
  sleeping,   \* where timer_sleep is: "awake" outside it
  due,        \* a tick has passed since the instruction task 0 is at was reached
  \* --- history variables, read by no action
  fits,       \* neither the product nor the target comes near the end of a word
  asked,      \* then: the ticks the duration stands for
  slept       \* then: ticks since the call, at most WORD

timerVars == <<ticks, target, sleeping, due, fits, asked, slept>>
allVars   == <<vars, timerVars>>

\* Ticks for which task 0 can be away: a full quantum of every other task;
\* and one more when the tick falls between the test and the hlt.
Late == (MAX_TASKS - 1) * TASK_QUANTUM + 1

InitTimer ==
  /\ Init
  /\ ticks = 0 /\ target = 0 /\ sleeping = "awake" /\ due = FALSE
  /\ fits = FALSE /\ asked = 0 /\ slept = 0

-----------------------------------------------------------------------------
(* IRQ0 and the other interrupts.                                          *)

\* hlt ends with the interrupt; execution goes on with the loop's test.
Woken == IF sleeping = "halted" THEN "test" ELSE sleeping

\* timer_tick(): the counter, then the scheduler. A tick lasts thousands of
\* instructions: on the processor, task 0 gets past the instruction at
\* which one tick found it before the next.
timer_tick ==
  /\ ~due
  /\ irq_handler
  /\ ticks'    = (ticks + 1) % WORD
  /\ sleeping' = IF OnCpu0 THEN Woken ELSE sleeping
  /\ due'      = (sleeping' \in {"test", "hlt"} /\ OnCpu0')
  /\ slept'    = IF fits /\ slept < WORD THEN slept + 1 ELSE slept
  /\ UNCHANGED <<target, fits, asked>>

\* The keyboard or the serial port interrupts the hlt.
other_irq ==
  /\ OnCpu0 /\ intFlag /\ sleeping = "halted"
  /\ sleeping' = Woken
  /\ UNCHANGED <<vars, ticks, target, due, fits, asked, slept>>

-----------------------------------------------------------------------------
(* cmd_sleep and timer_sleep.                                              *)

\* Mutant: the seconds are cut before they are turned into ticks.
TicksFor_SecondsFirst(ms) == ((ms \div SECOND) * TIMER_HZ) % WORD

\* (ms * TIMER_HZ) / 1000 in words.
TicksFor(ms) == ((ms * TIMER_HZ) % WORD) \div SECOND

\* sleep MS: a duration that is not positive is the usage message.
cmd_sleep ==
  /\ OnCpu0 /\ pc = "idle" /\ sleeping = "awake"
  /\ \E ms \in Durations :
       /\ target' = (ticks + TicksFor(ms)) % WORD
       /\ LET n == (ms * TIMER_HZ) \div SECOND
          IN  /\ fits'  = (ms * TIMER_HZ < WORD /\ ticks + n + Late < WORD)
              /\ asked' = IF fits' THEN n ELSE 0
  /\ sleeping' = "test" /\ slept' = 0
  /\ UNCHANGED <<vars, ticks, due>>

\* Mutant: the loop waits for the very tick.
Waiting_Exact == ticks # target

\* The condition of the loop.
Waiting == ticks < target

\* The test: on to the hlt, or back to the shell.
sleep_test ==
  /\ OnCpu0 /\ sleeping = "test"
  /\ \/ Waiting /\ sleeping' = "hlt" /\ UNCHANGED <<target, fits, asked, slept>>
     \/ /\ ~Waiting /\ sleeping' = "awake"
        /\ target' = 0 /\ fits' = FALSE /\ asked' = 0 /\ slept' = 0
  /\ due' = FALSE
  /\ UNCHANGED <<vars, ticks>>

\* The processor stops until the next interrupt, also when the tick waited
\* for came after the test.
sleep_hlt ==
  /\ OnCpu0 /\ sleeping = "hlt"
  /\ sleeping' = "halted" /\ due' = FALSE
  /\ UNCHANGED <<vars, ticks, target, fits, asked, slept>>

-----------------------------------------------------------------------------
\* The shell's other commands, and the other tasks.
others ==
  /\ \/ /\ sleeping = "awake"
        /\ \/ task_create \/ create_scan \/ create_kmalloc \/ create_esp
           \/ create_stack_base \/ create_state \/ create_slices
           \/ task_kill \/ kill_mark
     \/ task_exit
  /\ UNCHANGED timerVars

sleepStep == sleep_test \/ sleep_hlt

NextTimer == timer_tick \/ other_irq \/ cmd_sleep \/ sleepStep \/ others

\* The PIT never stops, and task 0 executes its next instruction when it
\* has the processor. Nothing is assumed of the operator or of other tasks.
SpecTimer ==
  /\ InitTimer /\ [][NextTimer]_allVars
  /\ WF_allVars(timer_tick) /\ WF_allVars(sleepStep)

-----------------------------------------------------------------------------
(* Properties.                                                             *)

\* sleep returns, although the tick it waits for may pass while other tasks
\* run or between the test and the hlt.
SleepReturns == sleeping # "awake" /\ fits ~> sleeping = "awake"

\* sleep never returns before its time, whatever interrupts end the hlt,
\* and at most a round of the other tasks and one tick after it.
SleepOnTime ==
  [][sleeping # "awake" /\ sleeping' = "awake" /\ fits
       => slept \in asked..(asked + Late)]_allVars
=============================================================================
