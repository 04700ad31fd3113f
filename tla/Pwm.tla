---------------------------------- MODULE Pwm ----------------------------------
(***************************************************************************)
(* The STM32F4 PWM outputs (arch/armv7m/chip/stm32f40x/pwm.c): tasks get a *)
(* PWM on a pin, which takes a channel of a timer that other PWMs may      *)
(* share, use it and put it.  A channel is <<timer, channel>>, in the      *)
(* order of enum timer_channels.  A period is in microseconds, which is    *)
(* what the prescaled timers count.  A task has at most one PWM, and the   *)
(* pin of a PWM outlives it.  The modes of a channel, which concern it     *)
(* only, are left out.  Frequencies are in megahertz.                      *)
(***************************************************************************)
EXTENDS Calls

CONSTANTS
    PwmPins,        \* the pins that tasks get a PWM on
    Periods,        \* the periods that they ask for
    PulseWidths,    \* the pulse widths, in microseconds
    ArrSize         \* the auto-reload register counts modulo ArrSize

\* gpio_to_timer_channel: the channels that can be output on a pin.  Pins
\* without one are left out.
gpio_to_timer_channel(p) ==
    CASE p \in {"PA8", "PE9"}   -> {<<1, 1>>}
      [] p \in {"PA9", "PE11"}  -> {<<1, 2>>}
      [] p \in {"PA10", "PE13"} -> {<<1, 3>>}
      [] p \in {"PA11", "PE14"} -> {<<1, 4>>}
      [] p = "PA6"              -> {<<3, 1>>, <<13, 1>>}
      [] p = "PA7"              -> {<<3, 2>>, <<14, 1>>}
      [] p = "PB4"              -> {<<3, 1>>}
      [] p = "PB5"              -> {<<3, 2>>}
      [] p = "PB0"              -> {<<3, 3>>}
      [] p = "PB1"              -> {<<3, 4>>}
      [] p = "PC6"              -> {<<3, 1>>, <<8, 1>>}
      [] p = "PC7"              -> {<<3, 2>>, <<8, 2>>}
      [] p = "PC8"              -> {<<3, 3>>, <<8, 3>>}
      [] p = "PC9"              -> {<<3, 4>>, <<8, 4>>}
      [] p \in {"PB6", "PD12"}  -> {<<4, 1>>}
      [] p \in {"PB7", "PD13"}  -> {<<4, 2>>}
      [] p = "PB8"              -> {<<4, 3>>, <<10, 1>>}
      [] p = "PD14"             -> {<<4, 3>>}
      [] p = "PB9"              -> {<<4, 4>>, <<11, 1>>}
      [] p = "PD15"             -> {<<4, 4>>}
      [] p = "PI5"              -> {<<8, 1>>}
      [] p = "PI6"              -> {<<8, 2>>}
      [] p = "PI7"              -> {<<8, 3>>}
      [] p = "PI2"              -> {<<8, 4>>}
      [] p \in {"PA2", "PE5"}   -> {<<9, 1>>}
      [] p \in {"PA3", "PE6"}   -> {<<9, 2>>}
      [] p = "PF6"              -> {<<10, 1>>}
      [] p = "PF7"              -> {<<11, 1>>}
      [] p \in {"PB14", "PH6"}  -> {<<12, 1>>}
      [] p \in {"PB15", "PH9"}  -> {<<12, 2>>}
      [] p = "PF8"              -> {<<13, 1>>}
      [] p = "PF9"              -> {<<14, 1>>}

PwmAssumption ==
    /\ ArrSize \in Nat \ {0}
    /\ Periods \subseteq Nat /\ PulseWidths \subseteq Nat
    /\ \A p \in PwmPins : gpio_to_timer_channel(p) \subseteq (1..14) \X (1..4)

Channels == UNION {gpio_to_timer_channel(p) : p \in PwmPins}
NoChannel == <<0, 0>>
timer(c) == c[1]
Timers == {timer(c) : c \in Channels}
timer_all_channels(m) == {c \in Channels : timer(c) = m}

\* The bit of c is below that of d.
Before(c, d) == c[1] < d[1] \/ (c[1] = d[1] /\ c[2] < d[2])

\* The locks: one for the channels, one for each timer.
Mutexes == {0} \cup Timers
channels_available_mut == 0

\* A task with no PWM and in no operation; on is what it last enabled, width what
\* it last set.
NoWidth == -1
Nothing == [pin |-> "none", period |-> 0, channel |-> NoChannel, on |-> FALSE, width |-> NoWidth,
            available |-> {}, ccer |-> {}]

TypeOK ==
    /\ dev \in [channels_available : SUBSET Channels, calls : {"outputs", "pulses"}]
    /\ hw.CEN \in [Timers -> BOOLEAN]
    /\ hw.ARR \in [Timers -> 0..(ArrSize - 1)]
    /\ hw.CCER \subseteq Channels
    /\ hw.PSC \in [Timers -> Nat] /\ hw.CCR \in [Channels -> 0..(ArrSize - 1)]
    /\ lock \in [Mutexes -> Holders]
    /\ pc \in [Tasks -> {"idle", "find", "search", "configure", "take", "object",
                         "undo", "ready", "period", "reload", "enable", "load", "store",
                         "free", "stop"}]
    /\ \A t \in Tasks :
          /\ loc[t].channel \in Channels \cup {NoChannel}
          /\ loc[t].available \cup loc[t].ccer \subseteq Channels

\* calls: the tasks of a behaviour switch outputs or set pulses, which are in
\* registers of their own.
Init ==
    /\ \E calls \in {"outputs", "pulses"} : dev = [channels_available |-> Channels, calls |-> calls]
    /\ hw = [CEN |-> [m \in Timers |-> FALSE], ARR |-> [m \in Timers |-> 0], CCER |-> {},
             PSC |-> [m \in Timers |-> 0], CCR |-> [c \in Channels |-> 0]]
    /\ lock = [m \in Mutexes |-> Nobody]
    /\ pc = [t \in Tasks |-> "idle"]
    /\ loc = [t \in Tasks |-> Nothing]

timer_clock(m) == IF m \in {1} \cup 8..11 THEN 168 ELSE 84
frequency(m) == timer_clock(m) \div (hw.PSC[m] + 1)

\* timer_period: the timers of PWMs count up and are edge-aligned.
timer_period(m) == hw.ARR[m] \div frequency(m)

-------------------------------------------------------------------------------
(* find_and_configure_timer_channel and pwm_get *)

pwm_get(t, p, us) ==
    /\ Step(t, "idle", "find")
    /\ Set(t, [Nothing EXCEPT !.pin = p, !.period = us])
    /\ UNCHANGED <<dev, hw, lock>>

FindAvailable(t) ==
    /\ Step(t, "find", "search")
    /\ acquire(t, channels_available_mut)
    /\ Set(t, [loc[t] EXCEPT !.available =
                  gpio_to_timer_channel(loc[t].pin) \cap dev.channels_available])
    /\ UNCHANGED <<dev, hw>>

\* A search that does not look at the period.
TryAny(t) ==
    /\ pc[t] = "search"
    /\ \E c \in loc[t].available :
          /\ acquire(t, timer(c)) /\ Goto(t, "configure")
          /\ Set(t, [loc[t] EXCEPT !.channel = c, !.available = {}])
    /\ UNCHANGED <<dev, hw>>

\* The lowest channel whose timer is stopped or counts the period; the timer's
\* lock is kept when it is selected.
TryChannel(t) ==
    /\ pc[t] = "search"
    /\ \E c \in loc[t].available :
          /\ \A d \in loc[t].available \ {c} : Before(c, d)
          /\ Free(timer(c))
          /\ IF ~hw.CEN[timer(c)] \/ timer_period(timer(c)) = loc[t].period
                THEN acquire(t, timer(c)) /\ Goto(t, "configure")
                     /\ Set(t, [loc[t] EXCEPT !.channel = c, !.available = {}])
                ELSE Set(t, [loc[t] EXCEPT !.available = @ \ {c}])
                     /\ UNCHANGED <<pc, lock>>
    /\ UNCHANGED <<dev, hw>>

FindFails(t) ==
    /\ Step(t, "search", "idle")
    /\ loc[t].available = {}
    /\ release(channels_available_mut)
    /\ Set(t, Nothing)
    /\ UNCHANGED <<dev, hw>>

\* The outputs that timer_initialize disables: 3 and 4 only of timers 1 and 8.
Disabled(m) == {c \in timer_all_channels(m) : c[2] < 3 \/ m \in {1, 8}}

\* A timer that counts with the clock of its bus.
InitializeUnscaled(m, us) ==
    [hw EXCEPT !.CEN[m] = TRUE, !.ARR[m] = us % ArrSize, !.CCER = @ \ Disabled(m)]

timer_initialize(m, us) ==
    [hw EXCEPT !.CEN[m] = TRUE, !.PSC[m] = timer_clock(m) - 1, !.ARR[m] = us % ArrSize,
               !.CCER = @ \ Disabled(m)]

\* timer_configure_channel follows, and the timer's lock is released.
Configure(t) ==
    LET m == timer(loc[t].channel) IN
    /\ Step(t, "configure", "take")
    /\ hw' = IF hw.CEN[m] THEN hw ELSE timer_initialize(m, loc[t].period)
    /\ release(m)
    /\ UNCHANGED <<dev, loc>>

\* A channel that is not taken.
TakeNot(t) ==
    /\ Step(t, "take", "object")
    /\ release(channels_available_mut)
    /\ UNCHANGED <<dev, hw, loc>>

TakeChannel(t) ==
    /\ Step(t, "take", "object")
    /\ dev' = [dev EXCEPT !.channels_available = @ \ {loc[t].channel}]
    /\ release(channels_available_mut)
    /\ UNCHANGED <<hw, loc>>

\* set_flags, with the alternate function of the timer, instantiate and kmalloc;
\* there may be no memory.
Instantiate(t) ==
    /\ pc[t] = "object"
    /\ Goto(t, "ready") \/ Goto(t, "undo")
    /\ UNCHANGED <<dev, hw, lock, loc>>

\* The error path of pwm_get frees the channel; the timer goes on.
err_put_gpio(t) ==
    /\ Step(t, "undo", "idle")
    /\ Free(channels_available_mut)
    /\ dev' = [dev EXCEPT !.channels_available = @ \cup {loc[t].channel}]
    /\ Set(t, Nothing)
    /\ UNCHANGED <<hw, lock>>

-------------------------------------------------------------------------------
(* The operations of a PWM *)

stm32f4_pwm_set_period(t, us) ==
    /\ Step(t, "ready", "period")
    /\ Set(t, [loc[t] EXCEPT !.period = us])
    /\ UNCHANGED <<dev, hw, lock>>

\* The other channels of the timer are not in use.
OnlyChannel(t) ==
    timer_all_channels(timer(loc[t].channel)) \ {loc[t].channel} \subseteq dev.channels_available

\* The error path: the period stays what it was.
SetPeriodFails(t) ==
    /\ Step(t, "period", "ready")
    /\ Free(channels_available_mut)
    /\ ~OnlyChannel(t)
    /\ Set(t, [loc[t] EXCEPT !.period = timer_period(timer(loc[t].channel))])
    /\ UNCHANGED <<dev, hw, lock>>

SetPeriodCheck(t) ==
    /\ Step(t, "period", "reload")
    /\ OnlyChannel(t)
    /\ acquire(t, channels_available_mut)
    /\ UNCHANGED <<dev, hw, loc>>

\* Both locks are released.
SetPeriodReload(t) ==
    LET m == timer(loc[t].channel) IN
    /\ Step(t, "reload", "ready")
    /\ Free(m)
    /\ hw' = [hw EXCEPT !.ARR[m] = loc[t].period % ArrSize]
    /\ release(channels_available_mut)
    /\ UNCHANGED <<dev, loc>>

\* One write, under the timer's lock.
stm32f4_pwm_set_pulse_width(t, width) ==
    LET c == loc[t].channel IN
    /\ dev.calls = "pulses" /\ pc[t] = "ready" /\ Free(timer(c))
    /\ hw' = [hw EXCEPT !.CCR[c] = (width * frequency(timer(c))) % ArrSize]
    /\ Set(t, [loc[t] EXCEPT !.width = width])
    /\ UNCHANGED <<dev, lock, pc>>

stm32f4_pwm_get_pulse_width(c) == hw.CCR[c] \div frequency(timer(c))

\* enable, from the caller or from the destructor.
stm32f4_pwm_enable(t, on) ==
    /\ dev.calls = "outputs" /\ pc[t] = "ready"
    /\ Goto(t, "enable")
    /\ Set(t, [loc[t] EXCEPT !.on = on])
    /\ UNCHANGED <<dev, hw, lock>>

\* enable without the lock.
EnableUnlocked(t) ==
    /\ Step(t, "enable", "load")
    /\ UNCHANGED <<dev, hw, lock, loc>>

\* The register of the outputs is read and written back under the timer's lock.
EnableAcquire(t) ==
    /\ Step(t, "enable", "load")
    /\ acquire(t, timer(loc[t].channel))
    /\ UNCHANGED <<dev, hw, loc>>

EnableLoad(t) ==
    /\ Step(t, "load", "store")
    /\ Set(t, [loc[t] EXCEPT !.ccer = hw.CCER \cap timer_all_channels(timer(loc[t].channel))])
    /\ UNCHANGED <<dev, hw, lock>>

\* The PWM is freed next if its object is gone.
EnableStore(t) ==
    LET l == loc[t]
        m == timer(l.channel)
        reg == IF l.on THEN l.ccer \cup {l.channel} ELSE l.ccer \ {l.channel}
    IN  /\ pc[t] = "store"
        /\ Goto(t, IF l.pin = "none" THEN "free" ELSE "ready")
        /\ hw' = [hw EXCEPT !.CCER = (@ \ timer_all_channels(m)) \cup reg]
        /\ Set(t, [l EXCEPT !.ccer = {}])
        /\ release(m)
        /\ UNCHANGED dev

\* pwm_dtor, when the last reference is put: disables the output first.
pwm_dtor(t) ==
    /\ Step(t, "ready", "enable")
    /\ Set(t, [loc[t] EXCEPT !.on = FALSE, !.pin = "none"])
    /\ UNCHANGED <<dev, hw, lock>>

\* The channel is freed; the lock is kept while the timer is stopped.
DtorFree(t) ==
    LET c == loc[t].channel
        now == dev.channels_available \cup {c}
    IN  /\ pc[t] = "free"
        /\ dev' = [dev EXCEPT !.channels_available = now]
        /\ IF timer_all_channels(timer(c)) \subseteq now
              THEN acquire(t, channels_available_mut) /\ Goto(t, "stop") /\ UNCHANGED loc
              ELSE Free(channels_available_mut) /\ Goto(t, "idle") /\ Set(t, Nothing)
                   /\ UNCHANGED lock
        /\ UNCHANGED hw

DtorStop(t) ==
    LET m == timer(loc[t].channel) IN
    /\ Step(t, "stop", "idle")
    /\ Free(m)
    /\ hw' = [hw EXCEPT !.CEN[m] = FALSE]
    /\ Set(t, Nothing)
    /\ release(channels_available_mut)
    /\ UNCHANGED dev

-------------------------------------------------------------------------------
\* The calls of the operations.
Call(t) ==
    \/ \E p \in PwmPins, us \in Periods : pwm_get(t, p, us)
    \/ \E us \in Periods : stm32f4_pwm_set_period(t, us)
    \/ \E width \in PulseWidths : stm32f4_pwm_set_pulse_width(t, width)
    \/ \E on \in BOOLEAN : stm32f4_pwm_enable(t, on)
    \/ pwm_dtor(t)

\* The steps inside them.
Work(t) ==
    \/ FindAvailable(t) \/ TryChannel(t) \/ FindFails(t) \/ Configure(t)
    \/ TakeChannel(t) \/ Instantiate(t) \/ err_put_gpio(t)
    \/ SetPeriodFails(t) \/ SetPeriodCheck(t) \/ SetPeriodReload(t)
    \/ EnableAcquire(t) \/ EnableLoad(t) \/ EnableStore(t)
    \/ DtorFree(t) \/ DtorStop(t)

Next == \E t \in Tasks : Call(t) \/ Work(t)

Spec == Init /\ [][Next]_vars

-------------------------------------------------------------------------------
(* Properties *)

\* The task has a channel from the time it is taken until it is free again.
Owns(t) ==
    pc[t] \in {"object", "undo", "ready", "period", "reload",
               "enable", "load", "store", "free"}

\* A channel is in use by one PWM, and is then not available: tasks that get
\* PWMs on pins that share a channel never both get it, on error paths too.
ChannelExclusive ==
    /\ \A t \in Tasks : Owns(t) => loc[t].channel \notin dev.channels_available
    /\ \A t, u \in Tasks : Owns(t) /\ Owns(u) /\ t # u => loc[t].channel # loc[u].channel

\* The timer of a PWM counts, with the period that was asked for (as far as
\* the register holds it), whatever other tasks get, set or put: a timer is
\* shared only by PWMs of its period and stopped by the last of them.
PeriodKept ==
    \A t \in Tasks :
        /\ Owns(t) => hw.CEN[timer(loc[t].channel)]
        /\ Owns(t) /\ pc[t] \notin {"period", "reload"} =>
              timer_period(timer(loc[t].channel)) = loc[t].period % ArrSize

\* The pulse of a PWM is as wide as its task has set it, whoever sets the period of the timer or gets its other channels.
PulseKept ==
    \A t \in Tasks : Owns(t) /\ loc[t].width # NoWidth =>
        stm32f4_pwm_get_pulse_width(loc[t].channel) = loc[t].width % ArrSize

\* Outputs are those of the PWMs that enabled theirs: concurrent changes of the
\* shared register are not lost, and a channel that is free is off, also those
\* of the channels that timer_initialize does not disable.
OutputsExact ==
    /\ hw.CCER \cap dev.channels_available = {}
    /\ \A t \in Tasks : pc[t] \in {"object", "ready"} =>
          (loc[t].channel \in hw.CCER <=> loc[t].on)
================================================================================
