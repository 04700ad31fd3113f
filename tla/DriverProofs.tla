------------------------------ MODULE DriverProofs -----------------------------
(***************************************************************************)
(* The safety of the drivers that tasks share, for every number of tasks,  *)
(* pins, streams, objects and operands.  Each driver has an invariant of   *)
(* its own, PwmInv to BootInv: the shape of its variables, what holds at   *)
(* each step of a task that has a lock, and the property.  The lemmas ...Init *)
(* and ...Step show that it is inductive, the lemma ...Goal that it        *)
(* implies the property.  A behaviour of Drivers is one of one driver, so  *)
(* the theorems at the end take the invariants together.  For the bitfield *)
(* allocator the goal is also that it implements HeapSpec.                 *)
(***************************************************************************)
EXTENDS Drivers, FiniteSetTheorems, SequenceTheorems, WellFoundedInduction, TLAPS

-------------------------------------------------------------------------------
(* The channels of the timers *)

PwmShape ==
    /\ DOMAIN dev = {"channels_available", "calls"} /\ dev.channels_available \subseteq P!Channels
    /\ DOMAIN lock = P!Mutexes /\ DOMAIN pc = Tasks /\ DOMAIN loc = Tasks
    /\ \A t \in Tasks :
          /\ DOMAIN loc[t] = {"pin", "period", "channel", "on", "width", "available", "ccer"}
          /\ P!Owns(t) \/ pc[t] \in {"configure", "take", "stop"} => loc[t].channel \in P!Channels

\* A task that looks for a channel, or that takes the timer of its own from all
\* others, has the lock of the channels; what it has found available stays so.
PwmLocks ==
    \A t \in Tasks :
        /\ pc[t] \in {"search", "configure", "take", "reload", "stop"} => lock[0] = t
        /\ pc[t] = "search" => loc[t].available \subseteq dev.channels_available
        /\ pc[t] \in {"configure", "take"} => loc[t].channel \in dev.channels_available

PwmInv == PwmShape /\ PwmLocks /\ P!ChannelExclusive

LEMMA PwmInit == P!Init => PwmInv
  BY DEF P!Init, P!Nothing, P!Mutexes, PwmInv, PwmShape, PwmLocks, P!ChannelExclusive, P!Owns

\* The lock of the channels is not that of a timer.
LEMMA PwmTimers == \A c \in P!Channels : P!timer(c) \in P!Mutexes /\ P!timer(c) # 0
  <1> SUFFICES ASSUME NEW c \in P!Channels
               PROVE  P!timer(c) \in P!Mutexes /\ P!timer(c) # 0
    OBVIOUS
  <1> USE DEF P!timer
  <1>1. P!timer(c) \in P!Timers
    BY DEF P!Timers
  <1>2. PICK p \in PwmPins : c \in P!gpio_to_timer_channel(p)
    BY DEF P!Channels
  <1>3. c \in (1..14) \X (1..4)
    BY <1>2, DriversAssumption DEF P!PwmAssumption
  <1> QED BY <1>1, <1>3 DEF P!Mutexes

\* A step that leaves the channels with those that have them.
LEMMA PwmKept ==
    ASSUME P!ChannelExclusive, UNCHANGED dev,
           \A u \in Tasks : P!Owns(u)' => P!Owns(u) /\ loc'[u].channel = loc[u].channel
    PROVE  P!ChannelExclusive'
  BY DEF P!ChannelExclusive

\* An available channel is taken by t.
LEMMA PwmTaken ==
    ASSUME P!ChannelExclusive, NEW t \in Tasks, loc'[t].channel \in dev.channels_available,
           dev'.channels_available = dev.channels_available \ {loc'[t].channel},
           \A u \in Tasks \ {t} : P!Owns(u)' => P!Owns(u) /\ loc'[u].channel = loc[u].channel
    PROVE  P!ChannelExclusive'
  BY DEF P!ChannelExclusive

\* The channel of t is available again.
LEMMA PwmFreed ==
    ASSUME P!ChannelExclusive, NEW t \in Tasks, P!Owns(t), ~P!Owns(t)',
           dev'.channels_available = dev.channels_available \cup {loc[t].channel},
           \A u \in Tasks \ {t} : P!Owns(u)' => P!Owns(u) /\ loc'[u].channel = loc[u].channel
    PROVE  P!ChannelExclusive'
  BY DEF P!ChannelExclusive

LEMMA PwmStep == PwmInv /\ [P!Next]_vars => PwmInv'
  <1> SUFFICES ASSUME PwmInv, [P!Next]_vars PROVE PwmInv'
    OBVIOUS
  <1> USE DEF P!Step, P!Goto, P!Set, P!acquire, P!release, P!Free
  <1>0. /\ \A t \in Tasks : t # Nobody
        /\ PwmShape /\ PwmLocks /\ P!ChannelExclusive
        /\ 0 \in P!Mutexes /\ P!channels_available_mut = 0
    BY CallsAssumption DEF PwmInv, P!Mutexes, P!channels_available_mut
  <1>1. CASE UNCHANGED vars
    BY <1>0, <1>1 DEF vars, PwmInv, PwmShape, PwmLocks, P!ChannelExclusive, P!Owns
  <1>2. ASSUME NEW t \in Tasks, NEW p, NEW us, P!pwm_get(t, p, us) PROVE PwmInv'
    <2>1. PwmShape' /\ PwmLocks'
      BY <1>0, <1>2 DEF P!pwm_get, P!Nothing, PwmShape, PwmLocks, P!Owns
    <2>2. P!ChannelExclusive'
      BY <1>0, <1>2, PwmKept DEF P!pwm_get, PwmShape, P!Owns
    <2> QED BY <2>1, <2>2 DEF PwmInv
  <1>3. ASSUME NEW t \in Tasks, P!FindAvailable(t) PROVE PwmInv'
    <2>1. PwmShape' /\ PwmLocks'
      BY <1>0, <1>3 DEF P!FindAvailable, PwmShape, PwmLocks, P!Owns
    <2>2. P!ChannelExclusive'
      BY <1>0, <1>3, PwmKept DEF P!FindAvailable, PwmShape, P!Owns
    <2> QED BY <2>1, <2>2 DEF PwmInv
  <1>4. ASSUME NEW t \in Tasks, P!TryChannel(t) PROVE PwmInv'
    <2>1. PICK c \in loc[t].available :
            \/ P!acquire(t, P!timer(c)) /\ P!Goto(t, "configure")
               /\ P!Set(t, [loc[t] EXCEPT !.channel = c, !.available = {}])
            \/ P!Set(t, [loc[t] EXCEPT !.available = @ \ {c}]) /\ UNCHANGED <<pc, lock>>
      BY <1>4 DEF P!TryChannel
    <2>0. pc[t] = "search" /\ UNCHANGED dev
      BY <1>4 DEF P!TryChannel
    <2>2. c \in dev.channels_available /\ c \in P!Channels /\ P!timer(c) # 0 /\ lock[0] = t
      BY <1>0, <2>0, <2>1, PwmTimers DEF PwmShape, PwmLocks
    <2>3. CASE /\ P!acquire(t, P!timer(c)) /\ P!Goto(t, "configure")
               /\ P!Set(t, [loc[t] EXCEPT !.channel = c, !.available = {}])
      <3>1. PwmShape' /\ PwmLocks'
        BY <1>0, <2>0, <2>2, <2>3 DEF PwmShape, PwmLocks, P!Owns
      <3>2. P!ChannelExclusive'
        BY <1>0, <2>0, <2>3, PwmKept DEF PwmShape, P!Owns
      <3> QED BY <3>1, <3>2 DEF PwmInv
    <2>4. CASE P!Set(t, [loc[t] EXCEPT !.available = @ \ {c}]) /\ UNCHANGED <<pc, lock>>
      <3>1. PwmShape' /\ PwmLocks'
        BY <1>0, <2>0, <2>2, <2>4 DEF PwmShape, PwmLocks, P!Owns
      <3>2. P!ChannelExclusive'
        BY <1>0, <2>0, <2>4, PwmKept DEF PwmShape, P!Owns
      <3> QED BY <3>1, <3>2 DEF PwmInv
    <2> QED BY <2>1, <2>3, <2>4
  <1>5. ASSUME NEW t \in Tasks, P!FindFails(t) PROVE PwmInv'
    <2>1. PwmShape' /\ PwmLocks'
      BY <1>0, <1>5 DEF P!FindFails, P!Nothing, PwmShape, PwmLocks, P!Owns
    <2>2. P!ChannelExclusive'
      BY <1>0, <1>5, PwmKept DEF P!FindFails, PwmShape, P!Owns
    <2> QED BY <2>1, <2>2 DEF PwmInv
  <1>6. ASSUME NEW t \in Tasks, P!Configure(t) PROVE PwmInv'
    <2>0. /\ pc[t] = "configure" /\ pc' = [pc EXCEPT ![t] = "take"] /\ UNCHANGED <<dev, loc>>
          /\ lock' = [lock EXCEPT ![P!timer(loc[t].channel)] = Nobody]
          /\ P!timer(loc[t].channel) # 0
      BY <1>0, <1>6, PwmTimers DEF P!Configure, PwmShape
    <2>1. PwmShape' /\ PwmLocks'
      BY <1>0, <2>0 DEF PwmShape, PwmLocks, P!Owns
    <2>2. P!ChannelExclusive'
      BY <1>0, <2>0, PwmKept DEF PwmShape, P!Owns
    <2> QED BY <2>1, <2>2 DEF PwmInv
  <1>7. ASSUME NEW t \in Tasks, P!TakeChannel(t) PROVE PwmInv'
    <2>0. /\ loc[t].channel \in dev.channels_available /\ lock[0] = t
          /\ dev'.channels_available = dev.channels_available \ {loc[t].channel}
          /\ \A u \in Tasks \ {t} : pc[u] \notin {"search", "configure", "take", "reload", "stop"}
      BY <1>0, <1>7 DEF P!TakeChannel, PwmShape, PwmLocks
    <2>1. PwmShape'
      BY <1>0, <1>7, <2>0 DEF P!TakeChannel, PwmShape, P!Owns
    <2>2. PwmLocks'
      BY <1>0, <1>7, <2>0 DEF P!TakeChannel, PwmShape, PwmLocks
    <2>3. P!ChannelExclusive'
      BY <1>0, <1>7, <2>0, PwmTaken DEF P!TakeChannel, PwmShape, P!Owns
    <2> QED BY <2>1, <2>2, <2>3 DEF PwmInv
  <1>8. ASSUME NEW t \in Tasks, P!Instantiate(t) PROVE PwmInv'
    <2>1. PwmShape' /\ PwmLocks'
      BY <1>0, <1>8 DEF P!Instantiate, PwmShape, PwmLocks, P!Owns
    <2>2. P!ChannelExclusive'
      BY <1>0, <1>8, PwmKept DEF P!Instantiate, PwmShape, P!Owns
    <2> QED BY <2>1, <2>2 DEF PwmInv
  <1>9. ASSUME NEW t \in Tasks, P!err_put_gpio(t) PROVE PwmInv'
    <2>0. /\ dev'.channels_available = dev.channels_available \cup {loc[t].channel}
          /\ P!Owns(t) /\ loc[t].channel \in P!Channels
      BY <1>0, <1>9 DEF P!err_put_gpio, PwmShape, P!Owns
    <2>1. PwmShape'
      BY <1>0, <1>9, <2>0 DEF P!err_put_gpio, P!Nothing, PwmShape, P!Owns
    <2>2. PwmLocks'
      BY <1>0, <1>9, <2>0 DEF P!err_put_gpio, PwmShape, PwmLocks
    <2>3. P!ChannelExclusive'
      BY <1>0, <1>9, <2>0, PwmFreed DEF P!err_put_gpio, PwmShape, P!Owns
    <2> QED BY <2>1, <2>2, <2>3 DEF PwmInv
  <1>10. ASSUME NEW t \in Tasks, NEW us, P!stm32f4_pwm_set_period(t, us) PROVE PwmInv'
    <2>1. PwmShape' /\ PwmLocks'
      BY <1>0, <1>10 DEF P!stm32f4_pwm_set_period, PwmShape, PwmLocks, P!Owns
    <2>2. P!ChannelExclusive'
      BY <1>0, <1>10, PwmKept DEF P!stm32f4_pwm_set_period, PwmShape, P!Owns
    <2> QED BY <2>1, <2>2 DEF PwmInv
  <1>11. ASSUME NEW t \in Tasks, P!SetPeriodFails(t) PROVE PwmInv'
    <2>1. PwmShape' /\ PwmLocks'
      BY <1>0, <1>11 DEF P!SetPeriodFails, PwmShape, PwmLocks, P!Owns
    <2>2. P!ChannelExclusive'
      BY <1>0, <1>11, PwmKept DEF P!SetPeriodFails, PwmShape, P!Owns
    <2> QED BY <2>1, <2>2 DEF PwmInv
  <1>12. ASSUME NEW t \in Tasks, P!SetPeriodCheck(t) PROVE PwmInv'
    <2>1. PwmShape' /\ PwmLocks'
      BY <1>0, <1>12 DEF P!SetPeriodCheck, PwmShape, PwmLocks, P!Owns
    <2>2. P!ChannelExclusive'
      BY <1>0, <1>12, PwmKept DEF P!SetPeriodCheck, PwmShape, P!Owns
    <2> QED BY <2>1, <2>2 DEF PwmInv
  <1>13. ASSUME NEW t \in Tasks, P!SetPeriodReload(t) PROVE PwmInv'
    <2>1. PwmShape' /\ PwmLocks'
      BY <1>0, <1>13 DEF P!SetPeriodReload, PwmShape, PwmLocks, P!Owns
    <2>2. P!ChannelExclusive'
      BY <1>0, <1>13, PwmKept DEF P!SetPeriodReload, PwmShape, P!Owns
    <2> QED BY <2>1, <2>2 DEF PwmInv
  <1>14. ASSUME NEW t \in Tasks, NEW w, P!stm32f4_pwm_set_pulse_width(t, w) PROVE PwmInv'
    <2>1. PwmShape' /\ PwmLocks'
      BY <1>0, <1>14 DEF P!stm32f4_pwm_set_pulse_width, PwmShape, PwmLocks, P!Owns
    <2>2. P!ChannelExclusive'
      BY <1>0, <1>14, PwmKept DEF P!stm32f4_pwm_set_pulse_width, PwmShape, P!Owns
    <2> QED BY <2>1, <2>2 DEF PwmInv
  <1>15. ASSUME NEW t \in Tasks, NEW on, P!stm32f4_pwm_enable(t, on) PROVE PwmInv'
    <2>1. PwmShape' /\ PwmLocks'
      BY <1>0, <1>15 DEF P!stm32f4_pwm_enable, PwmShape, PwmLocks, P!Owns
    <2>2. P!ChannelExclusive'
      BY <1>0, <1>15, PwmKept DEF P!stm32f4_pwm_enable, PwmShape, P!Owns
    <2> QED BY <2>1, <2>2 DEF PwmInv
  <1>16. ASSUME NEW t \in Tasks, P!EnableAcquire(t) PROVE PwmInv'
    <2>0. P!timer(loc[t].channel) # 0
      BY <1>0, <1>16, PwmTimers DEF P!EnableAcquire, PwmShape, P!Owns
    <2>1. PwmShape' /\ PwmLocks'
      BY <1>0, <1>16, <2>0 DEF P!EnableAcquire, PwmShape, PwmLocks, P!Owns
    <2>2. P!ChannelExclusive'
      BY <1>0, <1>16, PwmKept DEF P!EnableAcquire, PwmShape, P!Owns
    <2> QED BY <2>1, <2>2 DEF PwmInv
  <1>17. ASSUME NEW t \in Tasks, P!EnableLoad(t) PROVE PwmInv'
    <2>1. PwmShape' /\ PwmLocks'
      BY <1>0, <1>17 DEF P!EnableLoad, PwmShape, PwmLocks, P!Owns
    <2>2. P!ChannelExclusive'
      BY <1>0, <1>17, PwmKept DEF P!EnableLoad, PwmShape, P!Owns
    <2> QED BY <2>1, <2>2 DEF PwmInv
  <1>18. ASSUME NEW t \in Tasks, P!EnableStore(t) PROVE PwmInv'
    <2>0. P!timer(loc[t].channel) # 0
      BY <1>0, <1>18, PwmTimers DEF P!EnableStore, PwmShape, P!Owns
    <2>1. /\ loc' = [loc EXCEPT ![t] = [loc[t] EXCEPT !.ccer = {}]] /\ UNCHANGED dev
          /\ pc[t] = "store" /\ \E q \in {"free", "ready"} : pc' = [pc EXCEPT ![t] = q]
          /\ lock' = [lock EXCEPT ![P!timer(loc[t].channel)] = Nobody]
      BY <1>18 DEF P!EnableStore
    <2>2. PwmShape' /\ PwmLocks'
      BY <1>0, <2>0, <2>1 DEF PwmShape, PwmLocks, P!Owns
    <2>3. P!ChannelExclusive'
      BY <1>0, <2>1, PwmKept DEF PwmShape, P!Owns
    <2> QED BY <2>2, <2>3 DEF PwmInv
  <1>19. ASSUME NEW t \in Tasks, P!pwm_dtor(t) PROVE PwmInv'
    <2>1. PwmShape' /\ PwmLocks'
      BY <1>0, <1>19 DEF P!pwm_dtor, PwmShape, PwmLocks, P!Owns
    <2>2. P!ChannelExclusive'
      BY <1>0, <1>19, PwmKept DEF P!pwm_dtor, PwmShape, P!Owns
    <2> QED BY <2>1, <2>2 DEF PwmInv
  <1>20. ASSUME NEW t \in Tasks, P!DtorFree(t) PROVE PwmInv'
    <2>0. /\ dev' = [dev EXCEPT !.channels_available = dev.channels_available \cup {loc[t].channel}]
          /\ pc[t] = "free" /\ lock[0] = Nobody
          /\ \/ lock' = [lock EXCEPT ![0] = t] /\ pc' = [pc EXCEPT ![t] = "stop"] /\ UNCHANGED loc
             \/ pc' = [pc EXCEPT ![t] = "idle"] /\ P!Set(t, P!Nothing) /\ UNCHANGED lock
      BY <1>0, <1>20 DEF P!DtorFree
    <2>1. PwmShape'
      BY <1>0, <2>0 DEF P!Nothing, PwmShape, P!Owns
    <2>2. PwmLocks'
      BY <1>0, <2>0 DEF PwmShape, PwmLocks
    <2>3. P!ChannelExclusive'
      BY <1>0, <2>0, PwmFreed DEF PwmShape, P!Owns
    <2> QED BY <2>1, <2>2, <2>3 DEF PwmInv
  <1>21. ASSUME NEW t \in Tasks, P!DtorStop(t) PROVE PwmInv'
    <2>1. PwmShape' /\ PwmLocks'
      BY <1>0, <1>21 DEF P!DtorStop, P!Nothing, PwmShape, PwmLocks, P!Owns
    <2>2. P!ChannelExclusive'
      BY <1>0, <1>21, PwmKept DEF P!DtorStop, PwmShape, P!Owns
    <2> QED BY <2>1, <2>2 DEF PwmInv
  <1> QED BY <1>1, <1>2, <1>3, <1>4, <1>5, <1>6, <1>7, <1>8, <1>9, <1>10, <1>11, <1>12, <1>13,
             <1>14, <1>15, <1>16, <1>17, <1>18, <1>19, <1>20, <1>21 DEF P!Next, P!Call, P!Work

-------------------------------------------------------------------------------
(* The converters: their state and the channels *)

\* A task that has a channel, and the channel.
AdcHas(t) == pc[t] \in {"build", "undo", "ready", "setup", "convert"}
AdcChannel(t) == <<loc[t].adc, loc[t].pin>>

\* The variables are functions and records of these domains.
AdcShape ==
    /\ DOMAIN dev = {"states", "in_use"} /\ dev.states \in Nat
    /\ DOMAIN lock = {"stm32f4_adcs", "state"} /\ DOMAIN pc = Tasks /\ DOMAIN loc = Tasks
    /\ \A t \in Tasks :
          DOMAIN loc[t] = {"adc", "pin", "sequence_number", "ready", "saved_length", "saved_sq1"}

\* A task that is between its look at the state, or at a channel, and what it does
\* then has the lock under which it has looked.
AdcLocks ==
    \A t \in Tasks :
        /\ pc[t] \in {"search", "create"} => lock["stm32f4_adcs"] = t
        /\ pc[t] = "create" => dev.states = 0
        /\ pc[t] \in {"mark", "setup", "convert"} => lock["state"] = t
        /\ pc[t] = "mark" => AdcChannel(t) \notin dev.in_use

AdcOwners ==
    /\ dev.states <= 1
    /\ \A t \in Tasks : AdcHas(t) => AdcChannel(t) \in dev.in_use
    /\ \A c \in dev.in_use : \E t \in Tasks : AdcHas(t) /\ AdcChannel(t) = c
    /\ \A t, u \in Tasks : AdcHas(t) /\ AdcHas(u) /\ t # u => AdcChannel(t) # AdcChannel(u)

AdcInv == AdcShape /\ AdcLocks /\ AdcOwners

LEMMA AdcInit == A!Init => AdcInv
  BY DEF A!Init, A!Nothing, AdcInv, AdcShape, AdcLocks, AdcOwners, AdcHas, AdcChannel

\* A step that neither reserves nor frees a channel.
LEMMA AdcKept ==
    ASSUME AdcOwners, dev'.in_use = dev.in_use, dev'.states <= 1,
           \A u \in Tasks : (AdcHas(u)' <=> AdcHas(u)) /\ (AdcHas(u) => AdcChannel(u)' = AdcChannel(u))
    PROVE  AdcOwners'
  BY DEF AdcOwners

\* A channel that is not in use is reserved for t.
LEMMA AdcReserved ==
    ASSUME AdcOwners, NEW t \in Tasks, ~AdcHas(t), AdcHas(t)', AdcChannel(t)' \notin dev.in_use,
           dev'.in_use = dev.in_use \cup {AdcChannel(t)'}, dev'.states <= 1,
           \A u \in Tasks \ {t} : (AdcHas(u)' <=> AdcHas(u)) /\ AdcChannel(u)' = AdcChannel(u)
    PROVE  AdcOwners'
  BY DEF AdcOwners

\* The channel of t is freed.
LEMMA AdcFreed ==
    ASSUME AdcOwners, NEW t \in Tasks, AdcHas(t), ~AdcHas(t)',
           dev'.in_use = dev.in_use \ {AdcChannel(t)}, dev'.states <= 1,
           \A u \in Tasks \ {t} : (AdcHas(u)' <=> AdcHas(u)) /\ AdcChannel(u)' = AdcChannel(u)
    PROVE  AdcOwners'
  BY DEF AdcOwners

LEMMA AdcStep == AdcInv /\ [A!Next]_vars => AdcInv'
  <1> SUFFICES ASSUME AdcInv, [A!Next]_vars PROVE AdcInv'
    OBVIOUS
  <1> USE DEF AdcShape, A!Step, A!Goto, A!Set, A!acquire, A!release, A!Free
  <1>0. /\ \A t \in Tasks : t # Nobody
        /\ AdcShape /\ AdcLocks /\ AdcOwners
    BY CallsAssumption DEF AdcInv
  <1>1. CASE UNCHANGED vars
    BY <1>0, <1>1 DEF vars, AdcInv, AdcLocks, AdcOwners, AdcHas, AdcChannel
  <1>2. ASSUME NEW t \in Tasks, NEW p, A!adc_get(t, p) PROVE AdcInv'
    <2>1. AdcShape' /\ AdcLocks'
      BY <1>0, <1>2 DEF A!adc_get, A!Nothing, AdcLocks, AdcChannel
    <2>2. AdcOwners'
      BY <1>0, <1>2, AdcKept DEF A!adc_get, AdcHas, AdcChannel, AdcOwners
    <2> QED BY <2>1, <2>2 DEF AdcInv
  <1>3. ASSUME NEW t \in Tasks, A!LookupLock(t) PROVE AdcInv'
    <2>1. AdcShape' /\ AdcLocks'
      BY <1>0, <1>3 DEF A!LookupLock, AdcLocks, AdcChannel
    <2>2. AdcOwners'
      BY <1>0, <1>3, AdcKept DEF A!LookupLock, AdcHas, AdcChannel, AdcOwners
    <2> QED BY <2>1, <2>2 DEF AdcInv
  <1>4. ASSUME NEW t \in Tasks, A!lookup_adc_state(t) PROVE AdcInv'
    <2>1. AdcShape' /\ AdcLocks'
      <3>1. CASE A!Goto(t, "reserve") /\ A!release("stm32f4_adcs")
        BY <1>0, <1>4, <3>1 DEF A!lookup_adc_state, AdcLocks, AdcChannel
      <3>2. CASE dev.states = 0 /\ A!Goto(t, "create") /\ UNCHANGED lock
        BY <1>0, <1>4, <3>2 DEF A!lookup_adc_state, AdcLocks, AdcChannel
      <3> QED BY <1>4, <3>1, <3>2 DEF A!lookup_adc_state
    <2>2. AdcOwners'
      BY <1>0, <1>4, AdcKept DEF A!lookup_adc_state, AdcHas, AdcChannel, AdcOwners
    <2> QED BY <2>1, <2>2 DEF AdcInv
  <1>5. ASSUME NEW t \in Tasks, A!create_adc_state(t) PROVE AdcInv'
    <2>0. dev'.in_use = dev.in_use /\ dev'.states \in Nat /\ dev'.states <= 1
      BY <1>0, <1>5 DEF A!create_adc_state, AdcLocks, AdcOwners
    <2>1. AdcShape' /\ AdcLocks'
      <3>1. CASE A!Goto(t, "reserve") /\ dev' = [dev EXCEPT !.states = @ + 1] /\ UNCHANGED loc
        BY <1>0, <1>5, <2>0, <3>1 DEF A!create_adc_state, AdcLocks, AdcChannel
      <3>2. CASE A!Goto(t, "idle") /\ A!Set(t, A!Nothing) /\ UNCHANGED dev
        BY <1>0, <1>5, <3>2 DEF A!create_adc_state, A!Nothing, AdcLocks, AdcChannel
      <3> QED BY <1>5, <3>1, <3>2 DEF A!create_adc_state
    <2>2. AdcOwners'
      BY <1>0, <1>5, <2>0, AdcKept DEF A!create_adc_state, AdcHas, AdcChannel
    <2> QED BY <2>1, <2>2 DEF AdcInv
  <1>6. ASSUME NEW t \in Tasks, A!reserve_adc_channel(t) PROVE AdcInv'
    <2>1. CASE A!Goto(t, "idle") /\ A!Set(t, A!Nothing) /\ UNCHANGED lock
      <3>1. AdcShape' /\ AdcLocks'
        BY <1>0, <1>6, <2>1 DEF A!reserve_adc_channel, A!Nothing, AdcLocks, AdcChannel
      <3>2. AdcOwners'
        BY <1>0, <1>6, <2>1, AdcKept DEF A!reserve_adc_channel, AdcHas, AdcChannel, AdcOwners
      <3> QED BY <3>1, <3>2 DEF AdcInv
    <2>2. ASSUME NEW n \in A!FreeConverters(loc[t].pin), A!Set(t, [loc[t] EXCEPT !.adc = n]),
                 A!acquire(t, "state"), A!Goto(t, "mark")
          PROVE  AdcInv'
      <3>0. <<n, loc[t].pin>> \notin dev.in_use /\ UNCHANGED dev
        BY <1>6 DEF A!FreeConverters, A!reserve_adc_channel
      <3>1. AdcShape' /\ AdcLocks'
        BY <1>0, <2>2, <3>0 DEF AdcLocks, AdcChannel
      <3>2. AdcOwners'
        BY <1>0, <1>6, <2>2, <3>0, AdcKept DEF A!reserve_adc_channel, AdcHas, AdcChannel, AdcOwners
      <3> QED BY <3>1, <3>2 DEF AdcInv
    <2> QED BY <1>6, <2>1, <2>2 DEF A!reserve_adc_channel
  <1>7. ASSUME NEW t \in Tasks, A!ReserveMark(t) PROVE AdcInv'
    <2>0. /\ dev'.in_use = dev.in_use \cup {AdcChannel(t)} /\ dev'.states = dev.states
          /\ AdcChannel(t) \notin dev.in_use /\ lock["state"] = t /\ UNCHANGED loc
      BY <1>0, <1>7 DEF A!ReserveMark, AdcLocks, AdcChannel
    <2>1. AdcShape'
      BY <1>0, <1>7 DEF A!ReserveMark
    <2>2. \A u \in Tasks : pc[u] = "mark" => u = t
      BY <1>0, <2>0 DEF AdcLocks
    <2>3. AdcLocks'
      BY <1>0, <1>7, <2>0, <2>2 DEF A!ReserveMark, AdcLocks, AdcChannel
    <2>4. AdcOwners'
      BY <1>0, <1>7, <2>0, AdcReserved DEF A!ReserveMark, AdcHas, AdcChannel, AdcOwners
    <2> QED BY <2>1, <2>3, <2>4 DEF AdcInv
  <1>8. ASSUME NEW t \in Tasks, A!build_adc_obj(t) PROVE AdcInv'
    <2>1. AdcShape' /\ AdcLocks'
      BY <1>0, <1>8 DEF A!build_adc_obj, AdcLocks, AdcChannel
    <2>2. AdcOwners'
      BY <1>0, <1>8, AdcKept DEF A!build_adc_obj, AdcHas, AdcChannel, AdcOwners
    <2> QED BY <2>1, <2>2 DEF AdcInv
  <1>9. ASSUME NEW t \in Tasks, A!free_adc_channel(t) PROVE AdcInv'
    <2>1. AdcShape'
      BY <1>0, <1>9 DEF A!free_adc_channel, A!Nothing
    <2>2. AdcLocks'
      BY <1>0, <1>9 DEF A!free_adc_channel, AdcLocks, AdcChannel
    <2>3. AdcOwners'
      BY <1>0, <1>9, AdcFreed DEF A!free_adc_channel, AdcHas, AdcChannel, AdcOwners
    <2> QED BY <2>1, <2>2, <2>3 DEF AdcInv
  <1>10. ASSUME NEW t \in Tasks, A!stm32f4_adc_init(t) PROVE AdcInv'
    <2>1. AdcShape' /\ AdcLocks'
      BY <1>0, <1>10 DEF A!stm32f4_adc_init, A!stm32f4_adc_init_nolock, AdcLocks, AdcChannel
    <2>2. AdcOwners'
      BY <1>0, <1>10, AdcKept
         DEF A!stm32f4_adc_init, A!stm32f4_adc_init_nolock, AdcHas, AdcChannel, AdcOwners
    <2> QED BY <2>1, <2>2 DEF AdcInv
  <1>11. ASSUME NEW t \in Tasks, A!ReadSave(t) PROVE AdcInv'
    <2> DEFINE l == A!stm32f4_adc_init_nolock(t)
    <2>0. DOMAIN l = DOMAIN loc[t] /\ l.adc = loc[t].adc /\ l.pin = loc[t].pin
      BY <1>0 DEF A!stm32f4_adc_init_nolock
    <2> HIDE DEF l
    <2>1. /\ DOMAIN loc' = Tasks /\ DOMAIN loc'[t] = DOMAIN loc[t]
          /\ AdcChannel(t)' = AdcChannel(t) /\ \A u \in Tasks \ {t} : loc'[u] = loc[u]
      BY <1>0, <1>11, <2>0 DEF A!ReadSave, l, AdcChannel
    <2>2. AdcShape' /\ AdcLocks'
      BY <1>0, <1>11, <2>1 DEF A!ReadSave, AdcLocks, AdcChannel
    <2>3. AdcOwners'
      BY <1>0, <1>11, <2>1, AdcKept DEF A!ReadSave, AdcHas, AdcChannel, AdcOwners
    <2> QED BY <2>2, <2>3 DEF AdcInv
  <1>12. ASSUME NEW t \in Tasks, A!ReadSetup(t) PROVE AdcInv'
    <2>1. AdcShape' /\ AdcLocks'
      BY <1>0, <1>12 DEF A!ReadSetup, AdcLocks, AdcChannel
    <2>2. AdcOwners'
      BY <1>0, <1>12, AdcKept DEF A!ReadSetup, AdcHas, AdcChannel, AdcOwners
    <2> QED BY <2>1, <2>2 DEF AdcInv
  <1>13. ASSUME NEW t \in Tasks, A!ReadRestore(t) PROVE AdcInv'
    <2>1. AdcShape' /\ AdcLocks'
      BY <1>0, <1>13 DEF A!ReadRestore, AdcLocks, AdcChannel
    <2>2. AdcOwners'
      BY <1>0, <1>13, AdcKept DEF A!ReadRestore, AdcHas, AdcChannel, AdcOwners
    <2> QED BY <2>1, <2>2 DEF AdcInv
  <1>14. ASSUME NEW t \in Tasks, A!adc_dtor(t) PROVE AdcInv'
    <2>1. AdcShape'
      BY <1>0, <1>14 DEF A!adc_dtor, A!Nothing
    <2>2. AdcLocks'
      BY <1>0, <1>14 DEF A!adc_dtor, AdcLocks, AdcChannel
    <2>3. AdcOwners'
      BY <1>0, <1>14, AdcFreed DEF A!adc_dtor, AdcHas, AdcChannel, AdcOwners
    <2> QED BY <2>1, <2>2, <2>3 DEF AdcInv
  <1> QED BY <1>1, <1>2, <1>3, <1>4, <1>5, <1>6, <1>7, <1>8, <1>9, <1>10, <1>11, <1>12, <1>13,
             <1>14 DEF A!Next, A!Call, A!Work

LEMMA AdcGoal == AdcInv => A!OneState /\ A!ChannelReservedOnce
  BY DEF AdcInv, AdcOwners, AdcHas, AdcChannel, A!OneState, A!ChannelReservedOnce

\* Quotients grow with what is divided.
LEMMA Quotients ==
    ASSUME NEW n \in Nat \ {0}, NEW a \in Nat, NEW q \in Int, NEW r \in Int,
           q = a \div n, r = a % n
    PROVE  q \in Nat /\ r \in 0..(n - 1) /\ n * q + r = a
  <1>1. q \in Nat /\ r \in 0..(n - 1)
    OBVIOUS
  <1>2. n * q + r = a
    OBVIOUS
  <1> QED BY <1>1, <1>2

LEMMA QuotientsGrow ==
    ASSUME NEW n \in Nat \ {0}, NEW a \in Nat, NEW b \in Nat, a <= b
    PROVE  a \div n \in Nat /\ b \div n \in Nat /\ a \div n <= b \div n
  <1>1. PICK p \in Int, q \in Int, r \in Int, s \in Int :
            p = a \div n /\ r = a % n /\ q = b \div n /\ s = b % n
    OBVIOUS
  <1>2. /\ p \in Nat /\ r \in 0..(n - 1) /\ n * p + r = a
        /\ q \in Nat /\ s \in 0..(n - 1) /\ n * q + s = b
    BY <1>1, Quotients
  <1>3. CASE q + 1 <= p
    <2>1. n * (q + 1) <= n * p
      BY <1>2, <1>3
    <2>2. n * (q + 1) = n * q + n
      BY <1>2
    <2> QED BY <1>2, <2>1, <2>2
  <1> QED BY <1>1, <1>2, <1>3

-------------------------------------------------------------------------------
(* The SPI bus *)

SpiShape ==
    /\ DOMAIN dev = {"ready", "extended_transaction"} /\ DOMAIN dev.extended_transaction = Tasks
    /\ DOMAIN hw = {"BR", "selected"} /\ hw.selected \subseteq Tasks
    /\ DOMAIN lock = {"spi"} /\ DOMAIN pc = Tasks /\ DOMAIN loc = Tasks

\* The device of a task is in an extended transaction while the task is between
\* the calls of one, and it has the lock then.
SpiLocks ==
    \A t \in Tasks :
        /\ pc[t] \in {"idle", "begin", "bytes", "out", "held"}
        /\ pc[t] = "idle" => ~dev.extended_transaction[t]
        /\ pc[t] = "held" => dev.extended_transaction[t]
        /\ lock["spi"] = t <=> pc[t] \in {"bytes", "out"} \/ dev.extended_transaction[t]
        /\ lock["spi"] = t <=> t \in hw.selected

SpiInv == SpiShape /\ SpiLocks

LEMMA SpiInit == S!Init => SpiInv
  BY CallsAssumption DEF S!Init, SpiInv, SpiShape, SpiLocks

\* The registers that initialization leaves.
LEMMA SpiInitialized ==
    ASSUME SpiShape
    PROVE  /\ DOMAIN S!Initialized = DOMAIN dev
           /\ S!Initialized.extended_transaction = dev.extended_transaction
           /\ DOMAIN S!InitializedRegs = DOMAIN hw
           /\ S!InitializedRegs.selected = hw.selected
  BY DEF SpiShape, S!Initialized, S!InitializedRegs

LEMMA SpiStep == ~SharedDevice /\ SpiInv /\ [S!Next]_vars => SpiInv'
  <1> SUFFICES ASSUME ~SharedDevice, SpiInv, [S!Next]_vars PROVE SpiInv'
    OBVIOUS
  <1>0. /\ \A t \in Tasks : S!Device(t) = t /\ t # Nobody
        /\ SpiShape /\ SpiLocks
    BY CallsAssumption DEF SpiInv, S!Device
  <1> USE DEF SpiInv, SpiShape, SpiLocks, S!Step, S!Goto, S!Set, S!acquire, S!release, S!Free
  <1>1. CASE UNCHANGED vars
    BY <1>1 DEF vars
  <1>2. ASSUME NEW t \in Tasks, S!stm32f4_spi_init(t) PROVE SpiInv'
    BY <1>0, <1>2, SpiInitialized DEF S!stm32f4_spi_init
  <1>3. ASSUME NEW t \in Tasks, NEW hz, S!stm32f4_spi_set_clock(t, hz) PROVE SpiInv'
    BY <1>0, <1>3, SpiInitialized DEF S!stm32f4_spi_set_clock, S!Asked
  <1>4. ASSUME NEW t \in Tasks, NEW n, S!stm32f4_spi_read_write(t, n) PROVE SpiInv'
    BY <1>0, <1>4 DEF S!stm32f4_spi_read_write
  <1>5. ASSUME NEW t \in Tasks, S!Begin(t) PROVE SpiInv'
    <2> DEFINE r == S!InitializedRegs
    <2>0. /\ DOMAIN r = DOMAIN hw /\ r.selected = hw.selected
          /\ DOMAIN dev' = DOMAIN dev /\ dev'.extended_transaction = dev.extended_transaction
      BY <1>0, <1>5, SpiInitialized DEF S!Begin
    <2> HIDE DEF r
    <2>1. CASE dev.extended_transaction[t]
      <3>1. /\ pc[t] = "begin" /\ pc' = [pc EXCEPT ![t] = "bytes"] /\ hw' = r /\ UNCHANGED <<lock, loc>>
        BY <1>0, <1>5, <2>1 DEF S!Begin, r
      <3> QED BY <1>0, <2>0, <2>1, <3>1
    <2>2. CASE ~dev.extended_transaction[t]
      <3>1. /\ pc[t] = "begin" /\ pc' = [pc EXCEPT ![t] = "bytes"]
            /\ lock["spi"] = Nobody /\ lock' = [lock EXCEPT !["spi"] = t]
            /\ hw' = [r EXCEPT !.selected = @ \cup {t}] /\ UNCHANGED loc
        BY <1>0, <1>5, <2>2 DEF S!Begin, r
      <3> QED BY <1>0, <2>0, <2>2, <3>1
    <2> QED BY <2>1, <2>2
  <1>6. ASSUME NEW t \in Tasks, S!SendReceive(t) PROVE SpiInv'
    BY <1>0, <1>6 DEF S!SendReceive
  <1>7. ASSUME NEW t \in Tasks, S!Out(t) PROVE SpiInv'
    BY <1>0, <1>7 DEF S!Out
  <1>8. ASSUME NEW t \in Tasks, S!stm32f4_spi_start_transaction(t) PROVE SpiInv'
    BY <1>0, <1>8 DEF S!stm32f4_spi_start_transaction
  <1>9. ASSUME NEW t \in Tasks, S!stm32f4_spi_end_transaction(t) PROVE SpiInv'
    BY <1>0, <1>9 DEF S!stm32f4_spi_end_transaction
  <1> QED BY <1>1, <1>2, <1>3, <1>4, <1>5, <1>6, <1>7, <1>8, <1>9 DEF S!Next, S!Call, S!Work

LEMMA SpiGoal == ~SharedDevice /\ SpiInv => S!BusExclusive
  BY DEF SpiInv, SpiShape, SpiLocks, S!BusExclusive, S!Device

\* The frequency that was asked for last is what the divisor was chosen for, once
\* the port is initialized.
SpiClockInv ==
    /\ {"ready", "extended_transaction"} = DOMAIN dev
    /\ {"BR", "selected"} = DOMAIN hw /\ DOMAIN loc = Tasks
    /\ \E hz \in SpiClocks \cup {S!DefaultClock} :
          /\ \A t \in Tasks : DOMAIN loc[t] = {"num", "asked"} /\ loc[t].asked = hz
          /\ dev.ready => hw.BR = S!set_clock(hz)
          /\ ~dev.ready => hz = S!DefaultClock

\* A quotient that is rounded up is at most c if and only if c times the divisor
\* covers what is divided.
LEMMA RoundedUp ==
    ASSUME NEW n \in Nat \ {0}, NEW a \in Nat, NEW c \in Nat
    PROVE  (a + n - 1) \div n <= c <=> a <= n * c
  <1>1. PICK q \in Int, r \in Int : q = (a + n - 1) \div n /\ r = (a + n - 1) % n
    OBVIOUS
  <1>2. a + n - 1 \in Nat
    OBVIOUS
  <1>3. q \in Nat /\ r \in 0..(n - 1) /\ n * q + r = a + n - 1
    BY <1>1, <1>2, Quotients
  <1>4. ASSUME q <= c PROVE a <= n * c
    <2>1. n * q <= n * c
      BY <1>3, <1>4
    <2> QED BY <1>3, <2>1
  <1>5. ASSUME c + 1 <= q PROVE n * c < a
    <2>1. n * (c + 1) <= n * q
      BY <1>3, <1>5
    <2>2. n * (c + 1) = n * c + n
      OBVIOUS
    <2> QED BY <1>3, <2>1, <2>2
  <1> QED BY <1>1, <1>3, <1>4, <1>5

LEMMA SpiClosest ==
    ASSUME NEW hz \in Nat \ {0}, PeriphClock \in Nat, hz >= PeriphClock \div 256 + 1
    PROVE  /\ S!set_clock(hz) \in S!Divisors
           /\ PeriphClock \div S!set_clock(hz) <= hz
           /\ S!set_clock(hz) > 2 => PeriphClock \div (S!set_clock(hz) \div 2) >= hz
  <1> DEFINE Enough(b) == b >= (PeriphClock + hz - 1) \div hz
             Least(b) == (Enough(b) \/ b = 256) /\ \A c \in S!Divisors : Enough(c) => b <= c
             d == S!set_clock(hz)
  <1>1. \A b \in S!Divisors : Enough(b) <=> PeriphClock <= hz * b
    <2> SUFFICES ASSUME NEW b \in S!Divisors PROVE Enough(b) <=> PeriphClock <= hz * b
      OBVIOUS
    <2>1. b \in Nat
      BY DEF S!Divisors
    <2>2. (PeriphClock + hz - 1) \div hz \in Int
      OBVIOUS
    <2> QED BY <2>1, <2>2, RoundedUp
  <1> HIDE DEF Enough
  <1>2. PeriphClock <= hz * 256
    OBVIOUS
  <1>3. \E b \in S!Divisors : Least(b)
    BY DEF S!Divisors
  <1>4. d = CHOOSE b \in S!Divisors : Least(b)
    BY DEF S!set_clock, Enough
  <1> HIDE DEF d
  <1>5. d \in S!Divisors /\ Least(d)
    BY <1>3, <1>4
  <1>6. PeriphClock <= hz * d
    BY <1>1, <1>2, <1>5
  <1>7. PeriphClock \div d <= hz
    BY <1>5, <1>6 DEF S!Divisors
  <1>8. ASSUME d > 2 PROVE PeriphClock \div (d \div 2) >= hz
    <2>1. d \div 2 \in S!Divisors /\ d \div 2 < d
      BY <1>5, <1>8 DEF S!Divisors
    <2>2. ~(PeriphClock <= hz * (d \div 2))
      BY <1>1, <1>5, <2>1 DEF S!Divisors
    <2> QED BY <1>5, <1>8, <2>2 DEF S!Divisors
  <1> QED BY <1>5, <1>7, <1>8 DEF d

LEMMA SpiClockInit == S!Init => SpiClockInv
  BY DEF S!Init, SpiClockInv

LEMMA SpiClockStep == SpiClockInv /\ [S!Next]_vars => SpiClockInv'
  <1> SUFFICES ASSUME SpiClockInv, [S!Next]_vars PROVE SpiClockInv'
    OBVIOUS
  <1> PICK hz \in SpiClocks \cup {S!DefaultClock} :
           /\ \A t \in Tasks : DOMAIN loc[t] = {"num", "asked"} /\ loc[t].asked = hz
           /\ dev.ready => hw.BR = S!set_clock(hz)
           /\ ~dev.ready => hz = S!DefaultClock
    BY DEF SpiClockInv
  <1>0. /\ DOMAIN S!Initialized = DOMAIN dev /\ S!Initialized.ready = TRUE
        /\ DOMAIN S!InitializedRegs = DOMAIN hw /\ S!InitializedRegs.BR = S!set_clock(hz)
    BY DEF SpiClockInv, S!Initialized, S!InitializedRegs
  <1> USE DEF SpiClockInv, S!Step, S!Goto, S!Set
  <1>1. CASE UNCHANGED vars
    BY <1>1 DEF vars
  <1>2. ASSUME NEW t \in Tasks, S!stm32f4_spi_init(t) PROVE SpiClockInv'
    BY <1>0, <1>2 DEF S!stm32f4_spi_init
  <1>3. ASSUME NEW t \in Tasks, NEW f \in SpiClocks, S!stm32f4_spi_set_clock(t, f) PROVE SpiClockInv'
    BY <1>0, <1>3 DEF S!stm32f4_spi_set_clock, S!Asked
  <1>4. ASSUME NEW t \in Tasks, NEW n, S!stm32f4_spi_read_write(t, n) PROVE SpiClockInv'
    BY <1>4 DEF S!stm32f4_spi_read_write
  <1>5. ASSUME NEW t \in Tasks, S!Begin(t) PROVE SpiClockInv'
    <2>1. /\ dev' = S!Initialized /\ loc' = loc
          /\ DOMAIN hw' = DOMAIN hw /\ hw'.BR = S!InitializedRegs.BR
      BY <1>0, <1>5 DEF S!Begin
    <2> QED BY <1>0, <2>1
  <1>6. ASSUME NEW t \in Tasks, S!SendReceive(t) PROVE SpiClockInv'
    BY <1>6 DEF S!SendReceive
  <1>7. ASSUME NEW t \in Tasks, S!Out(t) PROVE SpiClockInv'
    BY <1>7 DEF S!Out
  <1>8. ASSUME NEW t \in Tasks, S!stm32f4_spi_start_transaction(t) PROVE SpiClockInv'
    BY <1>8 DEF S!stm32f4_spi_start_transaction
  <1>9. ASSUME NEW t \in Tasks, S!stm32f4_spi_end_transaction(t) PROVE SpiClockInv'
    BY <1>9 DEF S!stm32f4_spi_end_transaction
  <1> QED BY <1>1, <1>2, <1>3, <1>4, <1>5, <1>6, <1>7, <1>8, <1>9 DEF S!Next, S!Call, S!Work

LEMMA SpiClockGoal == SpiClockInv => S!ClockClosest
  <1> SUFFICES ASSUME SpiClockInv, NEW t \in Tasks, dev.ready, loc[t].asked >= PeriphClock \div 256 + 1
               PROVE  /\ S!get_clock <= loc[t].asked
                      /\ hw.BR > 2 => PeriphClock \div (hw.BR \div 2) >= loc[t].asked
    BY DEF S!ClockClosest
  <1>1. loc[t].asked \in SpiClocks \cup {S!DefaultClock} /\ hw.BR = S!set_clock(loc[t].asked)
    BY DEF SpiClockInv
  <1>2. loc[t].asked \in Nat \ {0} /\ PeriphClock \in Nat
    BY <1>1, DriversAssumption DEF S!SpiAssumption, S!DefaultClock
  <1> QED BY <1>1, <1>2, SpiClosest DEF S!get_clock

-------------------------------------------------------------------------------
(* The objects of pins *)

\* A set of numbers that is not empty has a least one.
LEMMA Least ==
    ASSUME NEW T \in SUBSET Nat, T # {}
    PROVE  \E n \in T : \A m \in T : n <= m
  <1> DEFINE Less == {p \in Nat \X Nat : p[1] < p[2]}
  <1>1. IsWellFoundedOn(Less, Nat)
    BY NatLessThanWellFounded DEF OpToRel
  <1>2. \A m, n \in Nat : m < n => <<m, n>> \in Less
    OBVIOUS
  <1> HIDE DEF Less
  <1>3. PICK n \in T : \A m \in T : <<m, n>> \notin Less
    BY <1>1, WFMin
  <1>4. ASSUME NEW m \in T PROVE n <= m
    <2>1. m \in Nat /\ n \in Nat /\ <<m, n>> \notin Less
      BY <1>3
    <2> QED BY <1>2, <2>1
  <1> QED BY <1>4

\* A task that looks whether its pin is available, or makes it its own; one that
\* has found it available; one that has the object of a pin, in the list or not.
Looks(t) == pc[t] \in {"available", "compare", "create", "clock", "clock_sc", "export", "num"}
Found(t) == pc[t] \in {"create", "clock", "clock_sc", "export", "num"}
Unlisted(t) == pc[t] \in {"clock", "clock_sc", "export", "free"}
Listed(t) == pc[t] \in {"num", "ready", "mode", "mode_sc", "unexport"}

GpioShape ==
    /\ DOMAIN dev = {"used", "num", "list", "curr", "held_by", "count"}
    /\ dev.used \subseteq Objects /\ DOMAIN dev.num = Objects /\ dev.list \in Seq(Objects)
    /\ DOMAIN lock = {"instances"} /\ DOMAIN pc = Tasks /\ DOMAIN loc = Tasks
    /\ \A t \in Tasks : DOMAIN loc[t] = {"pin", "obj", "mode", "enr", "reg", "dying"}

\* The task that walks holds the reentrant mutex, once.
GpioLock ==
    /\ dev.held_by = lock["instances"] /\ dev.held_by \in Holders
    /\ dev.count = IF dev.held_by = Nobody THEN 0 ELSE 1
    /\ \A t \in Tasks : pc[t] = "compare" <=> dev.held_by = t

\* Tasks have objects of their own, and what is in the list is there once.
GpioObjects ==
    /\ \A i \in 1..Len(dev.list) : dev.list[i] \in dev.used
    /\ \A i, j \in 1..Len(dev.list) : dev.list[i] = dev.list[j] => i = j
    /\ \A t \in Tasks : Listed(t) \/ Unlisted(t) => loc[t].obj \in dev.used
    /\ \A t \in Tasks : Listed(t) => \E i \in 1..Len(dev.list) : dev.list[i] = loc[t].obj
    /\ \A t \in Tasks : Unlisted(t) => \A i \in 1..Len(dev.list) : dev.list[i] # loc[t].obj
    /\ \A t, u \in Tasks : /\ Listed(t) \/ Unlisted(t)
                           /\ Listed(u) \/ Unlisted(u)
                           /\ t # u
                           => loc[t].obj # loc[u].obj

\* A walk has not passed the object of the pin that it looks for.
GpioWalk ==
    \A t \in Tasks : pc[t] = "compare" =>
        \E i \in 1..Len(dev.list) :
            /\ dev.list[i] = dev.curr
            /\ \A u \in Tasks : G!Has(u) /\ loc[u].pin = loc[t].pin =>
                  \E j \in i..Len(dev.list) : dev.list[j] = loc[u].obj

GpioPinned ==
    /\ \A t \in Tasks : G!Has(t) => dev.num[loc[t].obj] = loc[t].pin
    /\ \A t, u \in Tasks : Looks(t) /\ Looks(u) /\ t # u => loc[t].pin # loc[u].pin
    /\ \A t, u \in Tasks : Found(t) /\ G!Has(u) => loc[t].pin # loc[u].pin
    /\ G!OneObjectPerPin

GpioInv == GpioShape /\ GpioLock /\ GpioObjects /\ GpioWalk /\ GpioPinned

LEMMA GpioFirstFree ==
    ASSUME NEW used \in SUBSET Objects, used # Objects
    PROVE  G!FirstFree(used) \in Objects \ used
  <1>1. Objects \ used \in SUBSET Nat /\ Objects \ used # {}
    BY DriversAssumption DEF G!GpioAssumption
  <1>2. \E o \in Objects \ used : \A q \in Objects \ used : o <= q
    BY <1>1, Least
  <1> QED BY <1>2 DEF G!FirstFree

LEMMA GpioInit == G!Init => GpioInv
  <1> SUFFICES ASSUME G!Init PROVE GpioInv
    OBVIOUS
  <1>1. G!FirstFree({}) \in Objects
    BY GpioFirstFree, DriversAssumption DEF G!GpioAssumption
  <1>2. /\ DOMAIN dev = {"used", "num", "list", "curr", "held_by", "count"}
        /\ dev.used \subseteq Objects /\ DOMAIN dev.num = Objects
        /\ \/ dev.list = <<>>
           \/ dev.list = <<G!FirstFree({})>> /\ dev.used = {G!FirstFree({})}
        /\ dev.held_by = Nobody /\ dev.count = 0
    BY <1>1 DEF G!Init
  <1>3. GpioShape
    BY <1>1, <1>2 DEF G!Init, G!Nothing, GpioShape
  <1>4. GpioLock
    BY <1>2, CallsAssumption DEF G!Init, GpioLock, Holders
  <1>5. GpioObjects
    BY <1>2 DEF G!Init, GpioObjects, Listed, Unlisted
  <1>6. GpioWalk /\ GpioPinned
    BY DEF G!Init, GpioWalk, GpioPinned, Looks, Found, G!Has, G!OneObjectPerPin
  <1> QED BY <1>3, <1>4, <1>5, <1>6 DEF GpioInv

\* The reentrant mutex is entered and left again.
LEMMA GpioEnters ==
    ASSUME GpioShape, GpioLock, NEW t \in Tasks, pc[t] # "compare", G!CanEnter(t)
    PROVE  /\ \A u \in Tasks : pc[u] # "compare"
           /\ lock["instances"] = Nobody
           /\ DOMAIN G!Entered(dev, t) = DOMAIN dev
           /\ G!Entered(dev, t).held_by = t /\ G!Entered(dev, t).count = 1
           /\ \A f \in {"used", "num", "list", "curr"} : G!Entered(dev, t)[f] = dev[f]
           /\ DOMAIN G!Left(G!Entered(dev, t)) = DOMAIN dev
           /\ G!Left(G!Entered(dev, t)).held_by = Nobody /\ G!Left(G!Entered(dev, t)).count = 0
           /\ \A f \in {"used", "num", "list", "curr"} : G!Left(G!Entered(dev, t))[f] = dev[f]
  <1>1. dev.held_by = Nobody /\ dev.count = 0
    BY CallsAssumption DEF GpioLock, G!CanEnter, G!Free
  <1>2. (\A u \in Tasks : pc[u] # "compare") /\ lock["instances"] = Nobody
    BY <1>1, CallsAssumption DEF GpioLock
  <1> DEFINE d == G!Entered(dev, t)
  <1>3. /\ DOMAIN d = DOMAIN dev /\ d.held_by = t /\ d.count = 1
        /\ \A f \in {"used", "num", "list", "curr"} : d[f] = dev[f]
    BY <1>1, CallsAssumption DEF G!Entered, GpioShape
  <1> HIDE DEF d
  <1>4. /\ DOMAIN G!Left(d) = DOMAIN dev
        /\ G!Left(d).held_by = Nobody /\ G!Left(d).count = 0
        /\ \A f \in {"used", "num", "list", "curr"} : G!Left(d)[f] = dev[f]
    BY <1>3 DEF G!Left, GpioShape
  <1> QED BY <1>2, <1>3, <1>4 DEF d

\* The walk enters and leaves it within, and leaves it at its end.
LEMMA GpioReenters ==
    ASSUME GpioShape, GpioLock, NEW t \in Tasks, pc[t] = "compare"
    PROVE  /\ dev.held_by = t /\ \A u \in Tasks : pc[u] = "compare" => u = t
           /\ DOMAIN G!Left(G!Entered(dev, t)) = DOMAIN dev
           /\ G!Left(G!Entered(dev, t)).held_by = t /\ G!Left(G!Entered(dev, t)).count = 1
           /\ \A f \in {"used", "num", "list", "curr"} : G!Left(G!Entered(dev, t))[f] = dev[f]
           /\ DOMAIN G!Left(G!Left(G!Entered(dev, t))) = DOMAIN dev
           /\ G!Left(G!Left(G!Entered(dev, t))).held_by = Nobody
           /\ G!Left(G!Left(G!Entered(dev, t))).count = 0
           /\ \A f \in {"used", "num", "list", "curr"} :
                 G!Left(G!Left(G!Entered(dev, t)))[f] = dev[f]
  <1>1. /\ dev.held_by = t /\ dev.count = 1
        /\ \A u \in Tasks : pc[u] = "compare" => u = t
    BY CallsAssumption DEF GpioLock
  <1> DEFINE d == G!Entered(dev, t)
  <1>2. /\ DOMAIN d = DOMAIN dev /\ d.held_by = t /\ d.count = 2
        /\ \A f \in {"used", "num", "list", "curr"} : d[f] = dev[f]
    BY <1>1 DEF G!Entered, GpioShape
  <1> HIDE DEF d
  <1> DEFINE e == G!Left(d)
  <1>3. /\ DOMAIN e = DOMAIN dev /\ e.held_by = t /\ e.count = 1
        /\ \A f \in {"used", "num", "list", "curr"} : e[f] = dev[f]
    BY <1>2 DEF G!Left, GpioShape
  <1> HIDE DEF e
  <1>4. /\ DOMAIN G!Left(e) = DOMAIN dev /\ G!Left(e).held_by = Nobody /\ G!Left(e).count = 0
        /\ \A f \in {"used", "num", "list", "curr"} : G!Left(e)[f] = dev[f]
    BY <1>3 DEF G!Left, GpioShape
  <1> QED BY <1>1, <1>3, <1>4 DEF d, e

\* A step of one task inside the phases in which it is unlisted, or has its pin.
LEMMA GpioQuiet ==
    ASSUME GpioInv, NEW t \in Tasks, UNCHANGED <<dev, lock>>,
           DOMAIN pc' = Tasks, DOMAIN loc' = Tasks,
           \A u \in Tasks \ {t} : pc'[u] = pc[u] /\ loc'[u] = loc[u],
           DOMAIN loc'[t] = DOMAIN loc[t], loc'[t].obj = loc[t].obj, loc'[t].pin = loc[t].pin,
           \/ pc[t] \in {"clock", "clock_sc"} /\ pc'[t] \in {"clock", "clock_sc", "export"}
           \/ G!Has(t) /\ pc'[t] \in {"ready", "mode", "mode_sc", "unexport"}
    PROVE  GpioInv'
  <1> USE DEF GpioInv
  <1>1. GpioShape'
    BY DEF GpioShape
  <1>2. GpioLock'
    BY DEF GpioLock, G!Has
  <1>3. \A u \in Tasks : /\ loc'[u].obj = loc[u].obj /\ loc'[u].pin = loc[u].pin
                         /\ Listed(u)' <=> Listed(u)
                         /\ Unlisted(u)' <=> Unlisted(u)
                         /\ Looks(u)' <=> Looks(u)
                         /\ Found(u)' <=> Found(u)
                         /\ G!Has(u)' => G!Has(u)
                         /\ pc'[u] = "compare" <=> pc[u] = "compare"
    BY DEF Listed, Unlisted, Looks, Found, G!Has
  <1>4. GpioObjects'
    BY <1>3 DEF GpioObjects
  <1>5. GpioWalk'
    BY <1>3 DEF GpioWalk
  <1>6. GpioPinned'
    BY <1>3 DEF GpioPinned, G!OneObjectPerPin
  <1> QED BY <1>1, <1>2, <1>4, <1>5, <1>6

LEMMA GpioGet ==
    ASSUME GpioInv, ~SamePin, NEW t \in Tasks, NEW p, G!gpio_get(t, p)
    PROVE  GpioInv'
  <1> USE DEF GpioInv, G!Step, G!Goto, G!Set
  <1>1. GpioShape' /\ GpioLock'
    BY CallsAssumption DEF G!gpio_get, G!Nothing, GpioShape, GpioLock
  <1>2. /\ \A u \in Tasks \ {t} : /\ loc'[u] = loc[u]
                                  /\ Listed(u)' <=> Listed(u)
                                  /\ Unlisted(u)' <=> Unlisted(u)
                                  /\ Looks(u)' <=> Looks(u)
                                  /\ Found(u)' <=> Found(u)
                                  /\ G!Has(u)' <=> G!Has(u)
                                  /\ pc'[u] = "compare" <=> pc[u] = "compare"
        /\ ~Listed(t)' /\ ~Unlisted(t)' /\ ~Found(t)' /\ ~G!Has(t)' /\ pc'[t] = "available"
        /\ loc'[t].pin = p /\ \A u \in Tasks : loc[u].pin = p => ~Looks(u)
        /\ UNCHANGED dev
    BY DEF G!gpio_get, G!Nothing, GpioShape, Listed, Unlisted, Looks, Found, G!Has
  <1>3. GpioObjects'
    BY <1>2 DEF GpioObjects
  <1>4. GpioWalk'
    BY <1>2 DEF GpioWalk
  <1>5. GpioPinned'
    BY <1>2 DEF GpioPinned, G!OneObjectPerPin
  <1> QED BY <1>1, <1>3, <1>4, <1>5

\* The first object of the list, if there is one, is looked at.
LEMMA GpioIter ==
    ASSUME GpioInv, NEW t \in Tasks, G!collection_iter(t)
    PROVE  GpioInv'
  <1> USE DEF GpioInv, G!Step, G!Goto, G!Set
  <1> DEFINE d == G!Entered(dev, t)
             e == G!Left(d)
  <1>1. pc[t] = "available" /\ pc[t] # "compare" /\ G!CanEnter(t) /\ UNCHANGED loc
    BY DEF G!collection_iter
  <1>2. /\ \A u \in Tasks : pc[u] # "compare"
        /\ DOMAIN d = DOMAIN dev /\ d.held_by = t /\ d.count = 1
        /\ d.used = dev.used /\ d.num = dev.num /\ d.list = dev.list
        /\ DOMAIN e = DOMAIN dev /\ e.held_by = Nobody /\ e.count = 0
        /\ e.used = dev.used /\ e.num = dev.num /\ e.list = dev.list
    BY <1>1, GpioEnters
  <1> DEFINE Empty == dev.list = <<>> /\ pc' = [pc EXCEPT ![t] = "create"] /\ dev' = e
             First == /\ dev.list # <<>> /\ pc' = [pc EXCEPT ![t] = "compare"]
                      /\ dev' = [d EXCEPT !.curr = Head(dev.list)]
  <1>3. Empty \/ First
    BY DEF G!collection_iter
  <1> HIDE DEF d, e
  <1>4. /\ DOMAIN dev' = DOMAIN dev /\ dev'.used = dev.used /\ dev'.num = dev.num
        /\ dev'.list = dev.list
        /\ Empty => dev'.held_by = Nobody /\ dev'.count = 0
        /\ First => dev'.held_by = t /\ dev'.count = 1 /\ dev'.curr = Head(dev.list)
    BY <1>2, <1>3 DEF GpioShape
  <1>5. DOMAIN lock' = DOMAIN lock /\ lock'["instances"] = dev'.held_by
    BY <1>3, <1>4 DEF G!collection_iter, G!LockFollows, GpioShape
  <1>6. GpioShape'
    BY <1>1, <1>3, <1>4, <1>5 DEF GpioShape
  <1>7. GpioLock'
    BY <1>1, <1>2, <1>3, <1>4, <1>5, CallsAssumption DEF GpioLock, GpioShape, Holders
  <1>8. \A u \in Tasks : /\ Listed(u)' <=> Listed(u)
                         /\ Unlisted(u)' <=> Unlisted(u)
                         /\ Looks(u)' <=> Looks(u)
                         /\ Found(u)' => Found(u) \/ (Empty /\ u = t)
                         /\ G!Has(u)' <=> G!Has(u)
    BY <1>1, <1>3 DEF Listed, Unlisted, Looks, Found, G!Has, GpioShape
  <1>9. GpioObjects'
    BY <1>1, <1>4, <1>8 DEF GpioObjects
  <1>10. \A u \in Tasks : G!Has(u) => dev.list # <<>>
    BY DEF G!Has, Listed, GpioObjects, GpioShape
  <1>11. GpioPinned'
    BY <1>1, <1>4, <1>8, <1>10 DEF GpioPinned, G!OneObjectPerPin
  <1>12. GpioWalk'
    <2>1. CASE Empty
      BY <1>2, <2>1 DEF GpioWalk, GpioShape
    <2>2. CASE First
      <3>1. Len(dev.list) \in Nat /\ 1 \in 1..Len(dev.list) /\ dev.list[1] = Head(dev.list)
        BY <2>2 DEF GpioShape
      <3>2. \A u \in Tasks : pc'[u] = "compare" => u = t
        BY <1>2, <2>2 DEF GpioShape
      <3>3. \A u \in Tasks : G!Has(u) => \E j \in 1..Len(dev.list) : dev.list[j] = loc[u].obj
        BY DEF G!Has, Listed, GpioObjects
      <3> QED BY <1>1, <1>4, <1>8, <2>2, <3>1, <3>2, <3>3 DEF GpioWalk
    <2> QED BY <1>3, <2>1, <2>2
  <1> QED BY <1>6, <1>7, <1>9, <1>11, <1>12

LEMMA GpioPlace ==
    ASSUME GpioShape, GpioObjects, NEW i \in 1..Len(dev.list)
    PROVE  G!Place(dev.list[i]) = i
  BY DEF G!Place, GpioObjects

\* The walk ends, with the pin or without it, or goes on.
LEMMA GpioCompare ==
    ASSUME GpioInv, NEW t \in Tasks, G!Compare(t)
    PROVE  GpioInv'
  <1> USE DEF GpioInv, G!Goto, G!Set, G!Return
  <1> DEFINE again == G!Left(G!Entered(dev, t))
             left == G!Left(again)
             stopped == [left EXCEPT !.curr = G!NoObject]
  <1>1. pc[t] = "compare"
    BY DEF G!Compare
  <1>2. /\ \A u \in Tasks : pc[u] = "compare" => u = t
        /\ DOMAIN again = DOMAIN dev /\ again.held_by = t /\ again.count = 1
        /\ again.used = dev.used /\ again.num = dev.num /\ again.list = dev.list
        /\ DOMAIN left = DOMAIN dev /\ left.held_by = Nobody /\ left.count = 0
        /\ left.used = dev.used /\ left.num = dev.num /\ left.list = dev.list
    BY <1>1, GpioReenters
  <1>3. PICK i \in 1..Len(dev.list) :
          /\ dev.list[i] = dev.curr
          /\ \A u \in Tasks : G!Has(u) /\ loc[u].pin = loc[t].pin =>
                \E j \in i..Len(dev.list) : dev.list[j] = loc[u].obj
    BY <1>1 DEF GpioWalk
  <1>4. G!Place(dev.curr) = i /\ Len(dev.list) \in Nat
    BY <1>3, GpioPlace DEF GpioShape
  <1> DEFINE Taken == /\ pc' = [pc EXCEPT ![t] = "idle"] /\ dev' = stopped
                      /\ loc' = [loc EXCEPT ![t] = G!Nothing]
             Ends == /\ dev.num[dev.curr] # loc[t].pin /\ i = Len(dev.list) /\ dev' = stopped
                     /\ pc' = [pc EXCEPT ![t] = "create"] /\ UNCHANGED loc
             Goes == /\ dev.num[dev.curr] # loc[t].pin /\ i < Len(dev.list)
                     /\ dev' = [again EXCEPT !.curr = dev.list[i + 1]] /\ UNCHANGED <<pc, loc>>
  <1>5. Taken \/ Ends \/ Goes
    BY <1>1, <1>4 DEF G!Compare
  <1> HIDE DEF again, left
  <1>6. /\ DOMAIN dev' = DOMAIN dev /\ dev'.used = dev.used /\ dev'.num = dev.num
        /\ dev'.list = dev.list
        /\ Taken \/ Ends => dev'.held_by = Nobody /\ dev'.count = 0
        /\ Goes => dev'.held_by = t /\ dev'.count = 1 /\ dev'.curr = dev.list[i + 1]
    BY <1>2, <1>5 DEF GpioShape
  <1>7. DOMAIN lock' = DOMAIN lock /\ lock'["instances"] = dev'.held_by
    BY <1>5, <1>6 DEF G!Compare, G!LockFollows, GpioShape
  <1>8. GpioShape'
    BY <1>5, <1>6, <1>7 DEF GpioShape, G!Nothing
  <1>9. GpioLock'
    BY <1>1, <1>2, <1>5, <1>6, <1>7, CallsAssumption DEF GpioLock, GpioShape, Holders
  <1>10. \A u \in Tasks : /\ Listed(u)' <=> Listed(u)
                          /\ Unlisted(u)' <=> Unlisted(u)
                          /\ Looks(u)' => Looks(u)
                          /\ Found(u)' => Found(u) \/ (Ends /\ u = t)
                          /\ G!Has(u)' <=> G!Has(u)
                          /\ u # t => loc'[u] = loc[u]
                          /\ Taken \/ loc'[u] = loc[u]
    BY <1>1, <1>5 DEF Listed, Unlisted, Looks, Found, G!Has, GpioShape
  <1>11. Taken => ~Listed(t) /\ ~Unlisted(t) /\ ~Looks(t)' /\ ~Found(t)' /\ ~G!Has(t)
    BY <1>1 DEF Listed, Unlisted, Looks, Found, G!Has, GpioShape
  <1>12. GpioObjects'
    BY <1>6, <1>10, <1>11 DEF GpioObjects
  \* The object compared is not that of the pin.
  <1>13. ASSUME Ends \/ Goes, NEW u \in Tasks, G!Has(u), loc[u].pin = loc[t].pin
         PROVE  \E j \in (i + 1)..Len(dev.list) : dev.list[j] = loc[u].obj
    <2>1. PICK j \in i..Len(dev.list) : dev.list[j] = loc[u].obj
      BY <1>3, <1>13
    <2>2. dev.num[loc[u].obj] = loc[u].pin
      BY <1>13 DEF GpioPinned
    <2>3. j # i
      BY <1>3, <1>13, <2>1, <2>2
    <2> QED BY <1>4, <2>1, <2>3
  <1>14. GpioPinned'
    <2>1. ASSUME Ends, NEW u \in Tasks, G!Has(u) PROVE loc[t].pin # loc[u].pin
      BY <1>4, <1>13, <2>1
    <2> QED BY <1>5, <1>6, <1>10, <1>11, <2>1 DEF GpioPinned, G!OneObjectPerPin
  <1>15. GpioWalk'
    <2>1. CASE Taken \/ Ends
      BY <1>1, <1>2, <2>1 DEF GpioWalk, GpioShape
    <2>2. CASE Goes
      <3>1. i + 1 \in 1..Len(dev.list)
        BY <1>4, <2>2
      <3> QED BY <1>2, <1>6, <1>10, <1>13, <2>2, <3>1 DEF GpioWalk
    <2> QED BY <1>5, <2>1, <2>2
  <1> QED BY <1>8, <1>9, <1>12, <1>14, <1>15

LEMMA GpioInstantiate ==
    ASSUME GpioInv, NEW t \in Tasks, G!instantiate(t)
    PROVE  GpioInv'
  <1> USE DEF GpioInv, G!Goto, G!Set, G!Return
  <1> DEFINE o == G!FirstFree(dev.used)
  <1>1. pc[t] = "create" /\ UNCHANGED lock
    BY DEF G!instantiate
  <1>2. \A u \in Tasks \ {t} : pc'[u] = pc[u] /\ loc'[u] = loc[u]
    BY DEF G!instantiate, GpioShape
  <1>3. CASE /\ dev.used # Objects /\ dev' = [dev EXCEPT !.used = @ \cup {o}]
             /\ loc' = [loc EXCEPT ![t] = [loc[t] EXCEPT !.obj = o]]
             /\ pc' = [pc EXCEPT ![t] = "clock"]
    <2>1. o \in Objects \ dev.used
      BY <1>3, GpioFirstFree DEF GpioShape
    <2> HIDE DEF o
    <2>2. /\ DOMAIN dev' = DOMAIN dev /\ dev'.used = dev.used \cup {o} /\ dev'.num = dev.num
          /\ dev'.list = dev.list /\ dev'.held_by = dev.held_by /\ dev'.count = dev.count
          /\ dev'.curr = dev.curr
          /\ DOMAIN loc' = Tasks /\ DOMAIN loc'[t] = DOMAIN loc[t]
          /\ loc'[t].obj = o /\ loc'[t].pin = loc[t].pin
          /\ DOMAIN pc' = Tasks /\ pc'[t] = "clock"
      BY <1>3 DEF GpioShape
    <2>3. GpioShape' /\ GpioLock'
      BY <1>1, <1>2, <2>1, <2>2 DEF GpioShape, GpioLock
    <2>4. /\ ~Listed(t)' /\ Unlisted(t)' /\ Looks(t) /\ Found(t) /\ Looks(t)' /\ Found(t)'
          /\ ~G!Has(t) /\ ~G!Has(t)' /\ pc'[t] # "compare"
          /\ \A u \in Tasks \ {t} : /\ Listed(u)' <=> Listed(u)
                                    /\ Unlisted(u)' <=> Unlisted(u)
                                    /\ Looks(u)' <=> Looks(u)
                                    /\ Found(u)' <=> Found(u)
                                    /\ G!Has(u)' <=> G!Has(u)
                                    /\ pc'[u] = "compare" <=> pc[u] = "compare"
      BY <1>1, <1>2, <2>2 DEF Listed, Unlisted, Looks, Found, G!Has
    <2>5. GpioObjects'
      BY <1>2, <2>1, <2>2, <2>4 DEF GpioObjects
    <2>6. GpioWalk'
      BY <1>2, <2>2, <2>4 DEF GpioWalk
    <2>7. GpioPinned'
      BY <1>2, <2>2, <2>4 DEF GpioPinned, G!OneObjectPerPin
    <2> QED BY <2>3, <2>5, <2>6, <2>7
  <1>4. CASE G!Return(t) /\ UNCHANGED dev
    <2>1. GpioShape' /\ GpioLock'
      BY <1>1, <1>4 DEF GpioShape, GpioLock, G!Nothing
    <2>2. /\ ~Listed(t)' /\ ~Unlisted(t)' /\ ~Looks(t)' /\ ~Found(t)' /\ ~G!Has(t)'
          /\ pc'[t] # "compare"
          /\ \A u \in Tasks \ {t} : /\ Listed(u)' <=> Listed(u)
                                    /\ Unlisted(u)' <=> Unlisted(u)
                                    /\ Looks(u)' <=> Looks(u)
                                    /\ Found(u)' <=> Found(u)
                                    /\ G!Has(u)' <=> G!Has(u)
                                    /\ pc'[u] = "compare" <=> pc[u] = "compare"
      BY <1>2, <1>4 DEF Listed, Unlisted, Looks, Found, G!Has, GpioShape
    <2>3. GpioObjects'
      BY <1>2, <1>4, <2>2 DEF GpioObjects
    <2>4. GpioWalk'
      BY <1>2, <1>4, <2>2 DEF GpioWalk
    <2>5. GpioPinned'
      BY <1>2, <1>4, <2>2 DEF GpioPinned, G!OneObjectPerPin
    <2> QED BY <2>1, <2>3, <2>4, <2>5
  <1> QED BY <1>3, <1>4 DEF G!instantiate

\* The object of t is put first in the list.
LEMMA GpioExport ==
    ASSUME GpioInv, NEW t \in Tasks, G!class_export_member(t)
    PROVE  GpioInv'
  <1> USE DEF GpioInv, G!Step, G!Goto
  <1> DEFINE e == G!Left(G!Entered(dev, t))
             list == <<loc[t].obj>> \o dev.list
  <1>1. /\ pc[t] = "export" /\ pc[t] # "compare" /\ G!CanEnter(t) /\ UNCHANGED loc
        /\ pc' = [pc EXCEPT ![t] = "num"] /\ dev' = [e EXCEPT !.list = <<loc[t].obj>> \o @]
    BY DEF G!class_export_member
  <1>2. /\ \A u \in Tasks : pc[u] # "compare"
        /\ DOMAIN e = DOMAIN dev /\ e.held_by = Nobody /\ e.count = 0
        /\ e.used = dev.used /\ e.num = dev.num /\ e.list = dev.list
    BY <1>1, GpioEnters
  <1> HIDE DEF e
  <1>3. /\ DOMAIN dev' = DOMAIN dev /\ dev'.used = dev.used /\ dev'.num = dev.num
        /\ dev'.list = list /\ dev'.held_by = Nobody /\ dev'.count = 0
    BY <1>1, <1>2 DEF GpioShape
  <1>4. DOMAIN lock' = DOMAIN lock /\ lock'["instances"] = Nobody
    BY <1>3 DEF G!class_export_member, G!LockFollows, GpioShape
  <1>5. Unlisted(t) /\ loc[t].obj \in dev.used /\ loc[t].obj \in Objects
    BY <1>1 DEF Unlisted, GpioObjects, GpioShape
  <1>6. /\ list \in Seq(Objects) /\ Len(dev.list) \in Nat /\ Len(list) = Len(dev.list) + 1
        /\ list[1] = loc[t].obj
        /\ \A i \in 1..Len(dev.list) : list[i + 1] = dev.list[i]
    <2>1. /\ <<loc[t].obj>> \in Seq(Objects) /\ Len(<<loc[t].obj>>) = 1
          /\ <<loc[t].obj>>[1] = loc[t].obj
      BY <1>5
    <2> DEFINE one == <<loc[t].obj>>
    <2> HIDE DEF one
    <2>2. /\ one \o dev.list \in Seq(Objects) /\ Len(one \o dev.list) = Len(one) + Len(dev.list)
          /\ \A i \in 1..(Len(one) + Len(dev.list)) :
                (one \o dev.list)[i] = IF i <= Len(one) THEN one[i] ELSE dev.list[i - Len(one)]
      BY <2>1, ConcatProperties DEF GpioShape, one
    <2>3. Len(one) = 1 /\ one[1] = loc[t].obj /\ Len(dev.list) \in Nat
      BY <2>1 DEF one, GpioShape
    <2>4. \A i \in 1..Len(dev.list) : (one \o dev.list)[i + 1] = dev.list[i]
      BY <2>2, <2>3
    <2> QED BY <2>2, <2>3, <2>4 DEF one
  <1> HIDE DEF list
  <1>7. \A i \in 1..Len(list) : i # 1 => i - 1 \in 1..Len(dev.list) /\ list[i] = dev.list[i - 1]
    <2>1. ASSUME NEW i \in 1..Len(list), i # 1
          PROVE  i - 1 \in 1..Len(dev.list) /\ list[i] = dev.list[i - 1]
      <3>1. i - 1 \in 1..Len(dev.list) /\ (i - 1) + 1 = i
        BY <1>6, <2>1
      <3> QED BY <1>6, <3>1
    <2> QED BY <2>1
  <1>8. GpioShape' /\ GpioLock'
    BY <1>1, <1>2, <1>3, <1>4, <1>6 DEF GpioShape, GpioLock, Holders
  <1>9. /\ Listed(t)' /\ ~Unlisted(t)' /\ ~Listed(t) /\ pc'[t] # "compare"
        /\ \A u \in Tasks : /\ u # t => (Listed(u)' <=> Listed(u))
                            /\ u # t => (Unlisted(u)' <=> Unlisted(u))
                            /\ Looks(u)' <=> Looks(u)
                            /\ Found(u)' <=> Found(u)
                            /\ G!Has(u)' <=> G!Has(u)
                            /\ pc'[u] # "compare"
    BY <1>1, <1>2 DEF Listed, Unlisted, Looks, Found, G!Has, GpioShape
  <1>10. GpioObjects'
    <2>1. \A i \in 1..Len(dev.list) : dev.list[i] # loc[t].obj
      BY <1>5 DEF GpioObjects
    <2>2. \A i \in 1..Len(list) : list[i] \in dev.used
      BY <1>5, <1>6, <1>7 DEF GpioObjects
    <2>3. \A i, j \in 1..Len(list) : list[i] = list[j] => i = j
      <3>1. ASSUME NEW i \in 1..Len(list), NEW j \in 1..Len(list), list[i] = list[j], i # j
            PROVE  FALSE
        <4>1. i # 1 /\ j # 1
          BY <1>6, <1>7, <2>1, <3>1
        <4>2. /\ i - 1 \in 1..Len(dev.list) /\ list[i] = dev.list[i - 1]
              /\ j - 1 \in 1..Len(dev.list) /\ list[j] = dev.list[j - 1]
          BY <1>7, <4>1
        <4>3. i - 1 = j - 1
          BY <3>1, <4>2 DEF GpioObjects
        <4> QED BY <1>6, <3>1, <4>3
      <3> QED BY <3>1
    <2>4. ASSUME NEW u \in Tasks, Listed(u)' PROVE \E i \in 1..Len(list) : list[i] = loc[u].obj
      <3>1. CASE u = t
        BY <1>6, <3>1
      <3>2. CASE u # t
        <4>1. PICK i \in 1..Len(dev.list) : dev.list[i] = loc[u].obj
          BY <1>9, <2>4, <3>2 DEF GpioObjects
        <4>2. i + 1 \in 1..Len(list) /\ list[i + 1] = loc[u].obj
          BY <1>6, <4>1
        <4> QED BY <4>2
      <3> QED BY <3>1, <3>2
    <2>5. ASSUME NEW u \in Tasks, Unlisted(u)', NEW i \in 1..Len(list) PROVE list[i] # loc[u].obj
      <3>1. u # t /\ Unlisted(u)
        BY <1>9, <2>5
      <3>2. loc[u].obj # loc[t].obj
        BY <1>5, <3>1 DEF GpioObjects
      <3> QED BY <1>6, <1>7, <3>1, <3>2 DEF GpioObjects
    <2>6. \A u \in Tasks : Listed(u)' \/ Unlisted(u)' => Listed(u) \/ Unlisted(u)
      BY <1>5, <1>9
    <2>7. /\ \A u \in Tasks : Listed(u)' \/ Unlisted(u)' => loc[u].obj \in dev.used
          /\ \A u, v \in Tasks : /\ Listed(u)' \/ Unlisted(u)'
                                 /\ Listed(v)' \/ Unlisted(v)'
                                 /\ u # v
                                 => loc[u].obj # loc[v].obj
      BY <2>6 DEF GpioObjects
    <2>8. dev'.list = list /\ dev'.used = dev.used /\ loc' = loc
      BY <1>1, <1>3
    <2> QED BY <2>2, <2>3, <2>4, <2>5, <2>7, <2>8 DEF GpioObjects
  <1>11. GpioWalk' /\ GpioPinned'
    BY <1>1, <1>3, <1>9 DEF GpioWalk, GpioPinned, G!OneObjectPerPin
  <1> QED BY <1>8, <1>10, <1>11

LEMMA GpioSetNum ==
    ASSUME GpioInv, NEW t \in Tasks, G!SetNum(t)
    PROVE  GpioInv'
  <1> USE DEF GpioInv, G!Step, G!Goto
  <1>1. /\ pc[t] = "num" /\ pc' = [pc EXCEPT ![t] = "ready"] /\ UNCHANGED <<lock, loc>>
        /\ Listed(t) /\ Found(t) /\ Looks(t) /\ ~G!Has(t)
    BY DEF G!SetNum, Listed, Found, Looks, G!Has
  <1>2. loc[t].obj \in Objects
    BY <1>1 DEF GpioObjects, GpioShape
  <1>3. /\ DOMAIN dev' = DOMAIN dev /\ dev'.used = dev.used /\ dev'.list = dev.list
        /\ dev'.held_by = dev.held_by /\ dev'.count = dev.count /\ dev'.curr = dev.curr
        /\ DOMAIN dev'.num = Objects /\ dev'.num[loc[t].obj] = loc[t].pin
        /\ \A o \in Objects \ {loc[t].obj} : dev'.num[o] = dev.num[o]
    BY <1>2 DEF G!SetNum, GpioShape
  <1>4. GpioShape' /\ GpioLock'
    BY <1>1, <1>3 DEF GpioShape, GpioLock
  <1>5. /\ Listed(t)' /\ ~Unlisted(t)' /\ ~Unlisted(t) /\ ~Looks(t)' /\ ~Found(t)' /\ G!Has(t)'
        /\ \A u \in Tasks \ {t} : /\ Listed(u)' <=> Listed(u)
                                  /\ Unlisted(u)' <=> Unlisted(u)
                                  /\ Looks(u)' <=> Looks(u)
                                  /\ Found(u)' <=> Found(u)
                                  /\ G!Has(u)' <=> G!Has(u)
        /\ \A u \in Tasks : pc'[u] = "compare" => pc[u] = "compare" /\ u # t /\ Looks(u)
    BY <1>1 DEF Listed, Unlisted, Looks, Found, G!Has, GpioShape
  <1>6. GpioObjects'
    BY <1>1, <1>3, <1>5 DEF GpioObjects
  <1>7. GpioWalk'
    BY <1>1, <1>3, <1>5 DEF GpioWalk, GpioPinned
  <1>8. GpioPinned'
    <2>1. ASSUME NEW u \in Tasks, G!Has(u)' PROVE dev'.num[loc[u].obj] = loc[u].pin
      <3>1. CASE u = t
        BY <1>3, <3>1
      <3>2. CASE u # t
        <4>1. G!Has(u) /\ Listed(u) /\ loc[u].obj # loc[t].obj /\ loc[u].obj \in Objects
          BY <1>1, <1>5, <2>1, <3>2 DEF G!Has, Listed, GpioObjects, GpioShape
        <4> QED BY <1>3, <4>1 DEF GpioPinned
      <3> QED BY <3>1, <3>2
    <2>2. \A u \in Tasks : Found(u) => Looks(u)
      BY DEF Found, Looks
    <2> QED BY <1>1, <1>5, <2>1, <2>2 DEF GpioPinned, G!OneObjectPerPin
  <1> QED BY <1>4, <1>6, <1>7, <1>8

\* The object of t is taken out of the list.
LEMMA GpioUnexport ==
    ASSUME GpioInv, NEW t \in Tasks, G!class_unexport_member(t)
    PROVE  GpioInv'
  <1> USE DEF GpioInv, G!Step, G!Goto
  <1> DEFINE e == G!Left(G!Entered(dev, t))
  <1>1. /\ pc[t] = "unexport" /\ pc[t] # "compare" /\ G!CanEnter(t) /\ UNCHANGED loc
        /\ pc' = [pc EXCEPT ![t] = "free"] /\ Listed(t)
        /\ dev' = [e EXCEPT !.list = G!list_remove(@, G!Place(loc[t].obj))]
    BY DEF G!class_unexport_member, Listed
  <1>2. PICK k \in 1..Len(dev.list) : dev.list[k] = loc[t].obj
    BY <1>1 DEF GpioObjects
  <1>3. G!Place(loc[t].obj) = k
    BY <1>2, GpioPlace
  <1> DEFINE list == G!list_remove(dev.list, k)
  <1>4. /\ \A u \in Tasks : pc[u] # "compare"
        /\ DOMAIN e = DOMAIN dev /\ e.held_by = Nobody /\ e.count = 0
        /\ e.used = dev.used /\ e.num = dev.num /\ e.list = dev.list
    BY <1>1, GpioEnters
  <1> HIDE DEF e
  <1>5. /\ DOMAIN dev' = DOMAIN dev /\ dev'.used = dev.used /\ dev'.num = dev.num
        /\ dev'.list = list /\ dev'.held_by = Nobody /\ dev'.count = 0
    BY <1>1, <1>3, <1>4 DEF GpioShape
  <1>6. DOMAIN lock' = DOMAIN lock /\ lock'["instances"] = Nobody
    BY <1>5 DEF G!class_unexport_member, G!LockFollows, GpioShape
  <1>7. /\ list \in Seq(Objects) /\ Len(dev.list) \in Nat /\ Len(list) = Len(dev.list) - 1
        /\ \A i \in 1..Len(list) : list[i] = IF i < k THEN dev.list[i] ELSE dev.list[i + 1]
    <2>1. Len(dev.list) \in Nat /\ \A i \in 1..Len(dev.list) : dev.list[i] \in Objects
      BY DEF GpioShape
    <2>2. list \in [1..(Len(dev.list) - 1) -> Objects] /\ Len(dev.list) - 1 \in Nat
      BY <1>2, <2>1 DEF G!list_remove
    <2>3. list \in Seq(Objects) /\ Len(list) = Len(dev.list) - 1
      <3> HIDE DEF list
      <3> QED BY <2>2, IsASeq
    <2>4. \A i \in 1..(Len(dev.list) - 1) :
            list[i] = IF i < k THEN dev.list[i] ELSE dev.list[i + 1]
      BY DEF G!list_remove
    <2> HIDE DEF list
    <2> QED BY <2>1, <2>3, <2>4
  <1> HIDE DEF list
  <1>8. \A i \in 1..Len(list) :
          \E j \in 1..Len(dev.list) : /\ list[i] = dev.list[j] /\ j # k
                                      /\ j = IF i < k THEN i ELSE i + 1
    <2>1. ASSUME NEW i \in 1..Len(list), i < k
          PROVE  i \in 1..Len(dev.list) /\ list[i] = dev.list[i] /\ i # k
      BY <1>2, <1>7, <2>1
    <2>2. ASSUME NEW i \in 1..Len(list), ~(i < k)
          PROVE  i + 1 \in 1..Len(dev.list) /\ list[i] = dev.list[i + 1] /\ i + 1 # k
      BY <1>2, <1>7, <2>2
    <2> QED BY <2>1, <2>2
  <1>9. \A j \in 1..Len(dev.list) : j # k => \E i \in 1..Len(list) : list[i] = dev.list[j]
    <2>1. ASSUME NEW j \in 1..Len(dev.list), j < k
          PROVE  \E i \in 1..Len(list) : list[i] = dev.list[j]
      <3>1. j \in 1..Len(list) /\ list[j] = dev.list[j]
        BY <1>2, <1>7, <2>1
      <3> QED BY <3>1
    <2>2. ASSUME NEW j \in 1..Len(dev.list), j > k
          PROVE  \E i \in 1..Len(list) : list[i] = dev.list[j]
      <3>1. j - 1 \in 1..Len(list) /\ ~(j - 1 < k) /\ (j - 1) + 1 = j
        BY <1>2, <1>7, <2>2
      <3> QED BY <1>7, <3>1
    <2> QED BY <1>2, <1>7, <2>1, <2>2
  <1>10. GpioShape' /\ GpioLock'
    BY <1>1, <1>4, <1>5, <1>6, <1>7 DEF GpioShape, GpioLock, Holders
  <1>11. /\ ~Listed(t)' /\ Unlisted(t)' /\ ~Unlisted(t) /\ pc'[t] # "compare"
         /\ \A u \in Tasks : /\ u # t => (Listed(u)' <=> Listed(u))
                             /\ u # t => (Unlisted(u)' <=> Unlisted(u))
                             /\ Looks(u)' <=> Looks(u)
                             /\ Found(u)' <=> Found(u)
                             /\ G!Has(u)' <=> G!Has(u)
                             /\ pc'[u] # "compare"
    BY <1>1, <1>4 DEF Listed, Unlisted, Looks, Found, G!Has, GpioShape
  <1>12. GpioObjects'
    <2>1. \A i \in 1..Len(list) : list[i] \in dev.used
      BY <1>8 DEF GpioObjects
    <2>2. \A i, j \in 1..Len(list) : list[i] = list[j] => i = j
      <3>1. ASSUME NEW i \in 1..Len(list), NEW j \in 1..Len(list), list[i] = list[j]
            PROVE  i = j
        <4>1. PICK a \in 1..Len(dev.list) : /\ list[i] = dev.list[a] /\ a # k
                                              /\ a = IF i < k THEN i ELSE i + 1
          BY <1>8
        <4>2. PICK b \in 1..Len(dev.list) : /\ list[j] = dev.list[b] /\ b # k
                                              /\ b = IF j < k THEN j ELSE j + 1
          BY <1>8
        <4>3. a = b
          BY <3>1, <4>1, <4>2 DEF GpioObjects
        <4> QED BY <1>2, <1>7, <4>1, <4>2, <4>3
      <3> QED BY <3>1
    <2>3. ASSUME NEW u \in Tasks, Listed(u)' PROVE \E i \in 1..Len(list) : list[i] = loc[u].obj
      <3>1. u # t /\ Listed(u)
        BY <1>11, <2>3
      <3>2. loc[u].obj # loc[t].obj
        BY <1>1, <3>1 DEF GpioObjects
      <3>3. PICK j \in 1..Len(dev.list) : dev.list[j] = loc[u].obj
        BY <3>1 DEF GpioObjects
      <3>4. j # k
        BY <1>2, <3>2, <3>3
      <3> QED BY <1>9, <3>3, <3>4
    <2>4. ASSUME NEW u \in Tasks, Unlisted(u)', NEW i \in 1..Len(list) PROVE list[i] # loc[u].obj
      <3>1. PICK j \in 1..Len(dev.list) : j # k /\ list[i] = dev.list[j]
        BY <1>8
      <3>2. CASE u = t
        BY <1>2, <3>1, <3>2 DEF GpioObjects
      <3>3. CASE u # t
        BY <1>11, <2>4, <3>1, <3>3 DEF GpioObjects
      <3> QED BY <3>2, <3>3
    <2>5. \A u \in Tasks : Listed(u)' \/ Unlisted(u)' => Listed(u) \/ Unlisted(u)
      BY <1>1, <1>11
    <2>6. /\ \A u \in Tasks : Listed(u)' \/ Unlisted(u)' => loc[u].obj \in dev.used
          /\ \A u, v \in Tasks : /\ Listed(u)' \/ Unlisted(u)'
                                 /\ Listed(v)' \/ Unlisted(v)'
                                 /\ u # v
                                 => loc[u].obj # loc[v].obj
      BY <2>5 DEF GpioObjects
    <2>7. dev'.list = list /\ dev'.used = dev.used /\ loc' = loc
      BY <1>1, <1>5
    <2> QED BY <2>1, <2>2, <2>3, <2>4, <2>6, <2>7 DEF GpioObjects
  <1>13. GpioWalk' /\ GpioPinned'
    BY <1>1, <1>5, <1>11 DEF GpioWalk, GpioPinned, G!OneObjectPerPin
  <1> QED BY <1>10, <1>12, <1>13

\* The object of t is freed; no task has it, and it is not in the list.
LEMMA GpioFree ==
    ASSUME GpioInv, NEW t \in Tasks, G!class_deinstantiate(t)
    PROVE  GpioInv'
  <1> USE DEF GpioInv, G!Goto, G!Set, G!Return
  <1>1. /\ pc[t] = "free" /\ UNCHANGED lock /\ Unlisted(t)
        /\ pc' = [pc EXCEPT ![t] = "idle"] /\ loc' = [loc EXCEPT ![t] = G!Nothing]
    BY DEF G!class_deinstantiate, Unlisted
  <1>2. /\ DOMAIN dev' = DOMAIN dev /\ dev'.used = dev.used \ {loc[t].obj} /\ dev'.num = dev.num
        /\ dev'.list = dev.list /\ dev'.held_by = dev.held_by /\ dev'.count = dev.count
        /\ dev'.curr = dev.curr
    BY DEF G!class_deinstantiate, GpioShape
  <1>3. GpioShape' /\ GpioLock'
    BY <1>1, <1>2 DEF GpioShape, GpioLock, G!Nothing
  <1>4. /\ ~Listed(t)' /\ ~Unlisted(t)' /\ ~Looks(t)' /\ ~Found(t)' /\ ~G!Has(t)'
        /\ pc'[t] # "compare"
        /\ \A u \in Tasks \ {t} : /\ loc'[u] = loc[u]
                                  /\ Listed(u)' <=> Listed(u)
                                  /\ Unlisted(u)' <=> Unlisted(u)
                                  /\ Looks(u)' <=> Looks(u)
                                  /\ Found(u)' <=> Found(u)
                                  /\ G!Has(u)' <=> G!Has(u)
                                  /\ pc'[u] = "compare" <=> pc[u] = "compare"
    BY <1>1 DEF Listed, Unlisted, Looks, Found, G!Has, GpioShape
  <1>5. GpioObjects'
    BY <1>1, <1>2, <1>4 DEF GpioObjects
  <1>6. GpioWalk'
    BY <1>2, <1>4 DEF GpioWalk
  <1>7. GpioPinned'
    BY <1>2, <1>4 DEF GpioPinned, G!OneObjectPerPin
  <1> QED BY <1>3, <1>5, <1>6, <1>7

LEMMA GpioStep == ~SamePin /\ GpioInv /\ [G!Next]_vars => GpioInv'
  <1> SUFFICES ASSUME ~SamePin, GpioInv, [G!Next]_vars PROVE GpioInv'
    OBVIOUS
  <1>0. GpioShape
    BY DEF GpioInv
  <1>1. CASE UNCHANGED vars
    BY <1>1 DEF vars, GpioInv, GpioShape, GpioLock, GpioObjects, GpioWalk, GpioPinned, Looks, Found,
                Listed, Unlisted, G!Has, G!OneObjectPerPin
  <1>2. ASSUME NEW t \in Tasks, G!ClockLoad(t) \/ G!ClockStore(t) PROVE GpioInv'
    BY <1>0, <1>2, GpioQuiet
       DEF G!ClockLoad, G!ClockStore, G!Step, G!Goto, G!Set, GpioShape
  <1>3. ASSUME NEW t \in Tasks, NEW m, G!stm32f4_gpio_direction(t, m) PROVE GpioInv'
    BY <1>0, <1>3, GpioQuiet
       DEF G!stm32f4_gpio_direction, G!Step, G!Goto, G!Set, GpioShape, G!Has
  <1>4. ASSUME NEW t \in Tasks, G!ModerLoad(t) \/ G!ModerStore(t) PROVE GpioInv'
    BY <1>0, <1>4, GpioQuiet
       DEF G!ModerLoad, G!ModerStore, G!AfterMode, G!Step, G!Goto, G!Set, GpioShape, G!Has
  <1>5. ASSUME NEW t \in Tasks, G!gpio_dtor(t) PROVE GpioInv'
    BY <1>0, <1>5, GpioQuiet DEF G!gpio_dtor, G!Step, G!Goto, G!Set, GpioShape, G!Has
  <1> QED BY <1>1, <1>2, <1>3, <1>4, <1>5, GpioGet, GpioIter, GpioCompare, GpioInstantiate,
             GpioExport, GpioSetNum, GpioUnexport, GpioFree DEF G!Next, G!Call, G!Work

LEMMA GpioGoal == GpioInv => G!OneObjectPerPin /\ G!WalkSound
  BY CallsAssumption
     DEF GpioInv, GpioPinned, GpioObjects, GpioWalk, GpioLock, G!WalkSound, Holders

-------------------------------------------------------------------------------
(* The object of a device *)

DevicesShape ==
    /\ DOMAIN dev = {"instances", "live", "refcount"} /\ dev.instances \in Seq(Objects)
    /\ DOMAIN lock = {"driver"} /\ DOMAIN pc = Tasks /\ DOMAIN loc = Tasks
    /\ \A t \in Tasks : DOMAIN loc[t] = {"obj", "char"} /\ (pc[t] = "export" => loc[t].obj \in Objects)

\* The task that constructs the device has the lock of its driver, and has found
\* no instance under it.
DevicesLocks ==
    \A t \in Tasks :
        /\ pc[t] \in {"lookup", "ref", "probe", "ctor", "export"} => lock["driver"] = t
        /\ pc[t] \in {"probe", "ctor", "export"} => dev.instances = <<>>

DevicesInv == DevicesShape /\ DevicesLocks /\ Len(dev.instances) <= 1

LEMMA DevicesInit == D!Init => DevicesInv
  BY DEF D!Init, D!Nothing, DevicesInv, DevicesShape, DevicesLocks

LEMMA DevicesStep == DevicesInv /\ [D!Next]_vars => DevicesInv'
  <1> SUFFICES ASSUME DevicesInv, [D!Next]_vars PROVE DevicesInv'
    OBVIOUS
  <1> USE DEF DevicesInv, DevicesShape, DevicesLocks, D!Step, D!Goto, D!Set, D!Free, D!acquire,
              D!release, D!Return
  <1>0. \A t \in Tasks : t # Nobody
    BY CallsAssumption
  <1>1. CASE UNCHANGED vars
    BY <1>1 DEF vars
  <1>2. ASSUME NEW t \in Tasks, NEW char, D!device_get(t, char) PROVE DevicesInv'
    BY <1>0, <1>2 DEF D!device_get, D!Nothing
  <1>3. ASSUME NEW t \in Tasks, D!device_put(t) PROVE DevicesInv'
    BY <1>0, <1>3 DEF D!device_put
  <1>4. ASSUME NEW t \in Tasks, D!DriverLock(t) PROVE DevicesInv'
    BY <1>0, <1>4 DEF D!DriverLock
  <1>5. ASSUME NEW t \in Tasks, D!get_by_name_from_class(t) PROVE DevicesInv'
    BY <1>0, <1>5 DEF D!get_by_name_from_class
  <1>6. ASSUME NEW t \in Tasks, D!obj_get(t) PROVE DevicesInv'
    <2>1. dev'.instances = dev.instances /\ DOMAIN dev' = DOMAIN dev
      BY <1>6 DEF D!obj_get
    <2> QED BY <1>0, <1>6, <2>1 DEF D!obj_get, D!Got
  <1>7. ASSUME NEW t \in Tasks, D!Probe(t) PROVE DevicesInv'
    BY <1>0, <1>7 DEF D!Probe, D!Nothing
  <1>8. ASSUME NEW t \in Tasks, D!Ctor(t) PROVE DevicesInv'
    <2>1. ASSUME NEW o \in Objects, D!Set(t, [loc[t] EXCEPT !.obj = o]), D!Goto(t, "export"),
                 dev' = [dev EXCEPT !.live = @ \cup {o}, !.refcount[o] = 1], UNCHANGED lock
          PROVE  DevicesInv'
      <3>1. dev'.instances = dev.instances /\ DOMAIN dev' = DOMAIN dev
        BY <2>1
      <3>2. loc'[t].obj = o /\ DOMAIN loc'[t] = {"obj", "char"}
        BY <2>1
      <3> QED BY <1>0, <1>8, <2>1, <3>1, <3>2 DEF D!Ctor
    <2>2. CASE D!release("driver") /\ D!Return(t) /\ UNCHANGED dev
      BY <1>0, <1>8, <2>2 DEF D!Ctor, D!Nothing
    <2> QED BY <1>8, <2>1, <2>2 DEF D!Ctor
  <1>9. ASSUME NEW t \in Tasks, D!class_export_member(t) PROVE DevicesInv'
    <2>1. pc[t] = "export" /\ dev.instances = <<>> /\ loc[t].obj \in Objects /\ lock["driver"] = t
      BY <1>9 DEF D!class_export_member
    <2>2. <<loc[t].obj>> \in Seq(Objects) /\ Len(<<loc[t].obj>>) = 1
      BY <2>1
    <2>3. dev'.instances = <<loc[t].obj>> /\ DOMAIN dev' = DOMAIN dev
      BY <1>9, <2>1, <2>2, ConcatEmptySeq DEF D!class_export_member
    <2>4. \A u \in Tasks : pc'[u] \notin {"probe", "ctor", "export"}
      BY <1>0, <1>9, <2>1 DEF D!class_export_member, D!Got
    <2>5. DevicesShape'
      BY <1>9, <2>2, <2>3, <2>4 DEF D!class_export_member, D!Got
    <2>6. DevicesLocks'
      BY <1>0, <1>9, <2>1, <2>4 DEF D!class_export_member, D!Got
    <2> QED BY <2>2, <2>3, <2>5, <2>6
  <1>10. ASSUME NEW t \in Tasks, D!char_device_cast(t) PROVE DevicesInv'
    <2>1. dev'.instances = dev.instances /\ DOMAIN dev' = DOMAIN dev
      BY <1>10 DEF D!char_device_cast
    <2> QED BY <1>0, <1>10, <2>1 DEF D!char_device_cast
  <1>11. ASSUME NEW t \in Tasks, D!DropBase(t) \/ D!obj_put(t) PROVE DevicesInv'
    <2>1. dev'.instances = dev.instances /\ DOMAIN dev' = DOMAIN dev
      BY <1>11 DEF D!DropBase, D!obj_put, D!Put
    <2>2. /\ UNCHANGED lock /\ pc[t] \in {"drop", "put"}
          /\ \E p \in {"dtor", "ready", "idle"} : pc' = [pc EXCEPT ![t] = p]
          /\ UNCHANGED loc \/ loc' = [loc EXCEPT ![t] = D!Nothing]
      BY <1>11 DEF D!DropBase, D!obj_put, D!Put
    <2> QED BY <1>0, <2>1, <2>2 DEF D!Nothing
  <1>12. ASSUME NEW t \in Tasks, D!Dtor(t) PROVE DevicesInv'
    <2>1. dev'.instances = dev.instances /\ DOMAIN dev' = DOMAIN dev
      BY <1>12 DEF D!Dtor
    <2> QED BY <1>0, <1>12, <2>1 DEF D!Dtor, D!Nothing
  <1> QED BY <1>1, <1>2, <1>3, <1>4, <1>5, <1>6, <1>7, <1>8, <1>9, <1>10, <1>11, <1>12
          DEF D!Next, D!Call, D!Work

LEMMA DevicesGoal == DevicesInv => D!ConstructedOnce
  <1> DEFINE Exporting == {t \in Tasks : pc[t] = "export"}
  <1> DEFINE Members == Len(dev.instances)
  <1>0. D!ConstructedOnce <=> Members + Cardinality(Exporting) <= 1
    BY DEF D!ConstructedOnce, D!Cardinality, Cardinality
  <1> SUFFICES ASSUME DevicesInv PROVE Members + Cardinality(Exporting) <= 1
    BY <1>0
  <1>1. Len(dev.instances) \in Nat /\ Len(dev.instances) <= 1
    BY DEF DevicesInv, DevicesShape
  <1>2. CASE Exporting = {}
    <2>1. Cardinality(Exporting) = 0
      BY <1>2, FS_EmptySet
    <2> HIDE DEF Exporting
    <2> QED BY <1>1, <2>1
  <1>3. CASE Exporting # {}
    <2>1. PICK t \in Exporting : TRUE
      BY <1>3
    <2>2. Exporting = {t} /\ dev.instances = <<>>
      BY <2>1 DEF DevicesInv, DevicesLocks
    <2>3. Cardinality(Exporting) = 1 /\ Len(dev.instances) = 0
      BY <2>2, FS_Singleton
    <2> HIDE DEF Exporting
    <2> QED BY <2>3
  <1> QED BY <1>2, <1>3

-------------------------------------------------------------------------------
(* The streams of the DMA *)

DmaHw(h) ==
    /\ DOMAIN h = {"EN", "NDTR", "conf", "TCIF"}
    /\ DOMAIN h.EN = R!Streams /\ DOMAIN h.NDTR = R!Streams /\ DOMAIN h.conf = R!Streams
    /\ DOMAIN h.TCIF = {"LISR", "HISR"}

DmaShape ==
    /\ DOMAIN dev = {"streams_in_use", "moved", "due"}
    /\ DOMAIN dev.streams_in_use = R!Streams /\ DOMAIN dev.moved = R!Streams
    /\ DOMAIN dev.due = R!Streams
    /\ DmaHw(hw) /\ DOMAIN lock = {"dma"} /\ DOMAIN pc = Tasks /\ DOMAIN loc = Tasks
    /\ \A t \in Tasks :
          /\ DOMAIN loc[t] = {"entry", "stream", "num", "result"}
          /\ loc[t].entry \in Seq(R!Streams)
          /\ pc[t] \notin {"idle", "allocate"} => loc[t].stream \in R!Streams
          /\ pc[t] \in {"idle", "allocate"} => loc[t].stream = -1

\* The flag of s in the registers h.
DmaFlag(h, s) == R!Flag(s) \in h.TCIF[R!StatusRegister(s)]

\* A stream is in use while a task has it; it is off where nothing has begun, and
\* once begun it moves the items of its holder, or has moved them and says so.
DmaOwners ==
    /\ \A t \in Tasks : loc[t].stream # -1 => dev.streams_in_use[loc[t].stream]
    /\ \A t, u \in Tasks : loc[t].stream = loc[u].stream /\ loc[t].stream # -1 => t = u
    /\ \A s \in R!Streams : hw.EN[s] # "off" =>
          \E t \in Tasks : loc[t].stream = s /\ hw.conf[s] = t

DmaTask(t) ==
    LET s == loc[t].stream
    IN  /\ pc[t] \in {"disable", "ready", "configured", "start"} => hw.EN[s] = "off"
        /\ pc[t] \in {"configured", "cancel", "start", "begun", "test"} => hw.conf[s] = t
        /\ pc[t] \in {"cancel", "start"} => loc[t].num \in Items
        /\ pc[t] = "start" => dev.moved[s] = 0 /\ ~DmaFlag(hw, s)
        /\ pc[t] \in {"begun", "test"} =>
              \/ hw.EN[s] = "on" /\ hw.NDTR[s] > 0 /\ ~DmaFlag(hw, s)
                 /\ dev.moved[s] + hw.NDTR[s] = loc[t].num
              \/ hw.EN[s] = "off" /\ DmaFlag(hw, s) /\ dev.moved[s] = loc[t].num
        /\ loc[t].result => pc[t] = "test" /\ DmaFlag(hw, s)

\* The history of a stream and its registers.
DmaRegs ==
    \A s \in R!Streams :
        /\ hw.EN[s] \in {"off", "on", "ending"} /\ hw.NDTR[s] \in Nat /\ dev.moved[s] \in Nat
        /\ dev.due[s] => DmaFlag(hw, s)

DmaTransfers == DmaRegs /\ \A t \in Tasks : DmaTask(t)

DmaInv == DmaShape /\ DmaOwners /\ DmaTransfers

\* The streams are those of one controller, and each name stands for some of them.
LEMMA DmaStreams ==
    /\ R!Streams \subseteq 0..7 /\ -1 \notin R!Streams
    /\ Entries \subseteq Seq(R!Streams)
  <1>1. Entries \subseteq Seq(0..7)
    BY DriversAssumption DEF R!DmaAssumption
  <1>2. ASSUME NEW e \in Entries PROVE \A i \in DOMAIN e : e[i] \in 0..7 /\ e[i] \in R!Streams
    BY <1>1 DEF R!Streams
  <1>3. R!Streams \subseteq 0..7
    BY <1>2 DEF R!Streams
  <1>4. ASSUME NEW e \in Entries PROVE e \in Seq(R!Streams)
    BY <1>1, <1>2
  <1> QED BY <1>3, <1>4

\* Streams have flags of their own.
LEMMA DmaFlagsApart ==
    ASSUME NEW s \in 0..7, NEW u \in 0..7, s # u
    PROVE  R!StatusRegister(s) # R!StatusRegister(u) \/ R!Flag(s) # R!Flag(u)
  BY DEF R!StatusRegister, R!Flag

LEMMA DmaSetFlag ==
    ASSUME NEW h, DmaHw(h), NEW s \in 0..7, NEW g, g = R!SetFlag(h, s)
    PROVE  /\ DmaHw(g) /\ g.EN = h.EN /\ g.NDTR = h.NDTR /\ g.conf = h.conf
           /\ DmaFlag(g, s) /\ \A u \in 0..7 : u # s => (DmaFlag(g, u) <=> DmaFlag(h, u))
  <1>1. R!StatusRegister(s) \in {"LISR", "HISR"}
    BY DEF R!StatusRegister
  <1>2. /\ DmaHw(g) /\ g.EN = h.EN /\ g.NDTR = h.NDTR /\ g.conf = h.conf
        /\ g.TCIF[R!StatusRegister(s)] = h.TCIF[R!StatusRegister(s)] \cup {R!Flag(s)}
        /\ \A r : r # R!StatusRegister(s) => g.TCIF[r] = h.TCIF[r]
    BY <1>1 DEF DmaHw, R!SetFlag
  <1> QED BY <1>2, DmaFlagsApart DEF DmaFlag

LEMMA DmaClearFlag ==
    ASSUME NEW h, DmaHw(h), NEW s \in 0..7, NEW g, g = R!stream_clear_flags(h, s)
    PROVE  /\ DmaHw(g) /\ g.EN = h.EN /\ g.NDTR = h.NDTR /\ g.conf = h.conf
           /\ ~DmaFlag(g, s) /\ \A u \in 0..7 : u # s => (DmaFlag(g, u) <=> DmaFlag(h, u))
  <1>1. R!StatusRegister(s) \in {"LISR", "HISR"}
    BY DEF R!StatusRegister
  <1>2. /\ DmaHw(g) /\ g.EN = h.EN /\ g.NDTR = h.NDTR /\ g.conf = h.conf
        /\ g.TCIF[R!StatusRegister(s)] = h.TCIF[R!StatusRegister(s)] \ {R!Flag(s)}
        /\ \A r : r # R!StatusRegister(s) => g.TCIF[r] = h.TCIF[r]
    BY <1>1 DEF DmaHw, R!stream_clear_flags
  <1> QED BY <1>2, DmaFlagsApart DEF DmaFlag

\* What disabling s makes g of the registers h.
DmaDisabled(h, s, g) ==
    /\ DmaHw(g) /\ g.NDTR = h.NDTR /\ g.conf = h.conf /\ g.TCIF = h.TCIF
    /\ g.EN[s] = (IF h.EN[s] = "on" THEN "ending" ELSE h.EN[s])
    /\ \A u \in R!Streams \ {s} : g.EN[u] = h.EN[u]

LEMMA DmaDisable ==
    ASSUME NEW h, DmaHw(h), NEW s \in R!Streams
    PROVE  DmaDisabled(h, s, R!Disable(h, s))
  BY DEF DmaDisabled, DmaHw, R!Disable

LEMMA DmaInit == R!Init => DmaInv
  <1> SUFFICES ASSUME R!Init PROVE DmaInv
    OBVIOUS
  <1>1. DmaShape
    <2>1. \A t \in Tasks : loc[t].entry = <<>> /\ loc[t].stream = -1 /\ pc[t] = "idle"
      BY DEF R!Init, R!Nothing
    <2>2. <<>> \in Seq(R!Streams)
      OBVIOUS
    <2> QED BY <2>1, <2>2 DEF R!Init, R!Nothing, DmaShape, DmaHw
  <1>2. DmaOwners /\ DmaTransfers
    BY DmaStreams DEF R!Init, R!Nothing, DmaOwners, DmaTransfers, DmaRegs, DmaTask, DmaFlag, R!Flag, R!StatusRegister
  <1> QED BY <1>1, <1>2 DEF DmaInv

\* The controller moves an item of s, or ends s.
LEMMA DmaMove ==
    ASSUME DmaInv, NEW s \in R!Streams, R!Move(s)
    PROVE  DmaInv'
  <1>0. /\ s \in 0..7 /\ hw.EN[s] # "off" /\ hw.NDTR[s] > 0 /\ UNCHANGED <<lock, pc, loc>>
        /\ hw.NDTR[s] \in Nat /\ dev.moved[s] \in Nat /\ hw.EN[s] \in {"on", "ending"}
    BY DmaStreams DEF R!Move, DmaInv, DmaTransfers, DmaRegs
  <1> DEFINE h == [hw EXCEPT !.NDTR[s] = @ - 1]
             last == h.NDTR[s] = 0
             k == [h EXCEPT !.EN[s] = "off"]
  <1>1. /\ DmaHw(h) /\ h.EN = hw.EN /\ h.conf = hw.conf /\ h.TCIF = hw.TCIF
        /\ h.NDTR[s] = hw.NDTR[s] - 1 /\ \A u \in R!Streams \ {s} : h.NDTR[u] = hw.NDTR[u]
    BY DEF DmaInv, DmaShape, DmaHw
  <1>2. /\ dev' = [dev EXCEPT !.moved[s] = @ + 1, !.due[s] = last]
        /\ hw' = IF last THEN R!SetFlag(k, s) ELSE h
    BY DEF R!Move
  <1> HIDE DEF h
  <1>3. last <=> hw.NDTR[s] = 1
    BY <1>0, <1>1
  <1>4. /\ DmaHw(k) /\ k.NDTR = h.NDTR /\ k.conf = h.conf /\ k.TCIF = h.TCIF /\ k.EN[s] = "off"
        /\ \A u \in R!Streams \ {s} : k.EN[u] = h.EN[u]
    BY <1>1 DEF DmaHw
  <1> HIDE DEF k, last
  <1>5. /\ dev'.streams_in_use = dev.streams_in_use
        /\ DOMAIN dev' = DOMAIN dev /\ DOMAIN dev'.moved = R!Streams /\ DOMAIN dev'.due = R!Streams
        /\ dev'.moved[s] = dev.moved[s] + 1 /\ dev'.due[s] = last
        /\ \A u \in R!Streams \ {s} : dev'.moved[u] = dev.moved[u] /\ dev'.due[u] = dev.due[u]
    BY <1>2 DEF DmaInv, DmaShape
  <1>6. /\ DmaHw(hw') /\ hw'.conf = hw.conf
        /\ hw'.NDTR[s] = hw.NDTR[s] - 1 /\ \A u \in R!Streams \ {s} : hw'.NDTR[u] = hw.NDTR[u]
        /\ hw'.EN[s] = IF last THEN "off" ELSE hw.EN[s]
        /\ \A u \in R!Streams \ {s} : hw'.EN[u] = hw.EN[u]
        /\ DmaFlag(hw', s) <=> last \/ DmaFlag(hw, s)
        /\ \A u \in R!Streams \ {s} : DmaFlag(hw', u) <=> DmaFlag(hw, u)
    <2>1. CASE last
      <3>1. /\ DmaHw(hw') /\ hw'.EN = k.EN /\ hw'.NDTR = k.NDTR /\ hw'.conf = k.conf
            /\ DmaFlag(hw', s) /\ \A u \in 0..7 : u # s => (DmaFlag(hw', u) <=> DmaFlag(k, u))
        BY <1>0, <1>2, <1>4, <2>1, DmaSetFlag
      <3>2. \A u : DmaFlag(k, u) <=> DmaFlag(hw, u)
        BY <1>1, <1>4 DEF DmaFlag
      <3> QED BY <1>1, <1>4, <2>1, <3>1, <3>2, DmaStreams
    <2>2. CASE ~last
      BY <1>1, <1>2, <2>2 DEF DmaFlag
    <2> QED BY <2>1, <2>2
  <1>7. DmaShape'
    BY <1>0, <1>5, <1>6 DEF DmaInv, DmaShape
  <1>8. DmaOwners'
    <2>1. loc' = loc /\ dev'.streams_in_use = dev.streams_in_use /\ hw'.conf = hw.conf
      BY <1>0, <1>5, <1>6
    <2>2. \A u \in R!Streams : hw'.EN[u] # "off" => hw.EN[u] # "off"
      BY <1>0, <1>6
    <2> QED BY <2>1, <2>2 DEF DmaInv, DmaOwners
  <1>9. DmaTransfers'
    <2>1. DmaRegs'
      <3>1. \A u \in R!Streams : /\ hw'.EN[u] \in {"off", "on", "ending"}
                                  /\ hw'.NDTR[u] \in Nat /\ dev'.moved[u] \in Nat
        BY <1>0, <1>5, <1>6 DEF DmaInv, DmaTransfers, DmaRegs
      <3>2. \A u \in R!Streams : dev'.due[u] => DmaFlag(hw', u)
        BY <1>5, <1>6 DEF DmaInv, DmaTransfers, DmaRegs
      <3> QED BY <3>1, <3>2 DEF DmaRegs
    <2>2. ASSUME NEW t \in Tasks PROVE DmaTask(t)'
      <3>0. DmaTask(t) /\ (pc[t] \notin {"idle", "allocate"} => loc[t].stream \in R!Streams)
        BY DEF DmaInv, DmaTransfers, DmaShape
      <3>1. CASE loc[t].stream = s
        BY <1>0, <1>3, <1>5, <1>6, <3>0, <3>1 DEF DmaTask
      <3>2. CASE loc[t].stream # s
        BY <1>0, <1>5, <1>6, <3>0, <3>2 DEF DmaTask
      <3> QED BY <3>1, <3>2
    <2> QED BY <2>1, <2>2 DEF DmaTransfers
  <1> QED BY <1>7, <1>8, <1>9 DEF DmaInv

LEMMA DmaEnds ==
    ASSUME DmaInv, NEW s \in R!Streams, R!Ends(s)
    PROVE  DmaInv'
  <1>0. s \in 0..7 /\ hw.EN[s] = "ending" /\ UNCHANGED <<dev, lock, pc, loc>>
    BY DmaStreams DEF R!Ends
  <1> DEFINE k == [hw EXCEPT !.EN[s] = "off"]
  <1>1. /\ DmaHw(k) /\ k.NDTR = hw.NDTR /\ k.conf = hw.conf /\ k.TCIF = hw.TCIF /\ k.EN[s] = "off"
        /\ \A u \in R!Streams \ {s} : k.EN[u] = hw.EN[u]
    BY DEF DmaInv, DmaShape, DmaHw
  <1>2. hw' = R!SetFlag(k, s)
    BY DEF R!Ends
  <1> HIDE DEF k
  <1>3. /\ DmaHw(hw') /\ hw'.conf = hw.conf /\ hw'.NDTR = hw.NDTR /\ hw'.EN[s] = "off"
        /\ \A u \in R!Streams \ {s} : hw'.EN[u] = hw.EN[u]
        /\ DmaFlag(hw', s)
        /\ \A u \in R!Streams \ {s} : DmaFlag(hw', u) <=> DmaFlag(hw, u)
    <2>1. /\ DmaHw(hw') /\ hw'.EN = k.EN /\ hw'.NDTR = k.NDTR /\ hw'.conf = k.conf
          /\ DmaFlag(hw', s) /\ \A u \in 0..7 : u # s => (DmaFlag(hw', u) <=> DmaFlag(k, u))
      BY <1>0, <1>1, <1>2, DmaSetFlag
    <2>2. \A u : DmaFlag(k, u) <=> DmaFlag(hw, u)
      BY <1>1 DEF DmaFlag
    <2> QED BY <1>1, <2>1, <2>2, DmaStreams
  <1>4. DmaShape' /\ DmaOwners'
    BY <1>0, <1>3 DEF DmaInv, DmaShape, DmaOwners
  <1>5. DmaTransfers'
    <2>1. DmaRegs'
      BY <1>0, <1>3 DEF DmaInv, DmaTransfers, DmaRegs
    <2>2. ASSUME NEW t \in Tasks PROVE DmaTask(t)'
      <3>0. DmaTask(t) /\ (pc[t] \notin {"idle", "allocate"} => loc[t].stream \in R!Streams)
        BY DEF DmaInv, DmaTransfers, DmaShape
      <3>1. CASE loc[t].stream = s
        BY <1>0, <1>3, <3>0, <3>1 DEF DmaTask
      <3>2. CASE loc[t].stream # s
        BY <1>0, <1>3, <3>0, <3>2 DEF DmaTask
      <3> QED BY <3>1, <3>2
    <2> QED BY <2>1, <2>2 DEF DmaTransfers
  <1> QED BY <1>4, <1>5 DEF DmaInv

\* A step of t at its own stream s: the other streams and tasks are as they were.
DmaOwn(t, s) ==
    /\ loc[t].stream \in {s, -1} /\ loc'[t].stream \in {s, -1}
    /\ \A u \in Tasks \ {t} : pc'[u] = pc[u] /\ loc'[u] = loc[u]
    /\ \A r \in R!Streams \ {s} :
          /\ dev'.streams_in_use[r] = dev.streams_in_use[r]
          /\ dev'.moved[r] = dev.moved[r] /\ dev'.due[r] = dev.due[r]
          /\ hw'.EN[r] = hw.EN[r] /\ hw'.NDTR[r] = hw.NDTR[r] /\ hw'.conf[r] = hw.conf[r]
          /\ DmaFlag(hw', r) <=> DmaFlag(hw, r)

\* It is enough to look at that task and stream.
LEMMA DmaLocal ==
    ASSUME DmaInv, DmaShape', NEW t \in Tasks, NEW s \in R!Streams, DmaOwn(t, s),
           \A u \in Tasks \ {t} : loc[u].stream # s,
           loc'[t].stream = s => dev'.streams_in_use[s],
           hw'.EN[s] # "off" => loc'[t].stream = s /\ hw'.conf[s] = t,
           hw'.EN[s] \in {"off", "on", "ending"}, hw'.NDTR[s] \in Nat, dev'.moved[s] \in Nat,
           dev'.due[s] => DmaFlag(hw', s), DmaTask(t)'
    PROVE  DmaInv'
  <1>0. DmaOwners /\ DmaTransfers /\ DmaShape
    BY DEF DmaInv
  <1>1. DmaOwners'
    <2>1. ASSUME NEW u \in Tasks, loc'[u].stream # -1 PROVE dev'.streams_in_use[loc'[u].stream]
      <3>1. CASE u = t
        BY <2>1, <3>1 DEF DmaOwn
      <3>2. CASE u # t
        <4>1. loc'[u] = loc[u] /\ loc[u].stream # s /\ dev.streams_in_use[loc[u].stream]
          BY <1>0, <2>1, <3>2 DEF DmaOwners, DmaOwn
        <4>2. loc[u].stream \in R!Streams
          BY <1>0, <2>1, <4>1 DEF DmaShape
        <4> QED BY <4>1, <4>2 DEF DmaOwn
      <3> QED BY <3>1, <3>2
    <2>2. \A u, v \in Tasks : loc'[u].stream = loc'[v].stream /\ loc'[u].stream # -1 => u = v
      BY <1>0 DEF DmaOwners, DmaOwn
    <2>3. ASSUME NEW r \in R!Streams, hw'.EN[r] # "off"
          PROVE  \E u \in Tasks : loc'[u].stream = r /\ hw'.conf[r] = u
      <3>1. CASE r = s
        BY <2>3, <3>1
      <3>2. CASE r # s
        <4>1. PICK u \in Tasks : loc[u].stream = r /\ hw.conf[r] = u
          BY <1>0, <2>3, <3>2 DEF DmaOwners, DmaOwn
        <4>2. hw'.conf[r] = u
          BY <3>2, <4>1 DEF DmaOwn
        <4>3. u # t
          BY <3>2, <4>1, <1>0, DmaStreams DEF DmaOwn
        <4> QED BY <4>1, <4>2, <4>3 DEF DmaOwn
      <3> QED BY <3>1, <3>2
    <2> QED BY <2>1, <2>2, <2>3 DEF DmaOwners
  <1>2. DmaRegs'
    BY <1>0 DEF DmaTransfers, DmaRegs, DmaOwn
  <1>3. ASSUME NEW u \in Tasks, u # t PROVE DmaTask(u)'
    <2>1. DmaTask(u) /\ pc'[u] = pc[u] /\ loc'[u] = loc[u] /\ loc[u].stream # s
      BY <1>0, <1>3 DEF DmaTransfers, DmaOwn
    <2>2. pc[u] \in {"idle", "allocate"} \/ loc[u].stream \in R!Streams \ {s}
      BY <1>0, <2>1 DEF DmaShape
    <2> QED BY <2>1, <2>2 DEF DmaTask, DmaOwn
  <1>4. DmaTransfers'
    BY <1>2, <1>3 DEF DmaTransfers
  <1> QED BY <1>1, <1>4 DEF DmaInv

\* A step of a task that has no stream and gets none.
LEMMA DmaNoStream ==
    ASSUME DmaInv, DmaShape', NEW t \in Tasks, UNCHANGED <<dev, hw>>,
           loc[t].stream = -1, loc'[t].stream = -1, ~loc'[t].result,
           pc'[t] \in {"idle", "allocate"},
           \A u \in Tasks \ {t} : pc'[u] = pc[u] /\ loc'[u] = loc[u]
    PROVE  DmaInv'
  <1>1. DmaOwners'
    BY DEF DmaInv, DmaOwners
  <1>2. DmaRegs' /\ \A u \in Tasks : DmaTask(u)'
    BY DEF DmaInv, DmaTransfers, DmaRegs, DmaTask
  <1> QED BY <1>1, <1>2 DEF DmaInv, DmaTransfers

\* A task that has a stream.
LEMMA DmaAt ==
    ASSUME DmaInv, NEW t \in Tasks, pc[t] \notin {"idle", "allocate"}, NEW s, s = loc[t].stream
    PROVE  /\ s \in R!Streams /\ s \in 0..7 /\ s # -1 /\ dev.streams_in_use[s] /\ DmaTask(t)
           /\ \A u \in Tasks \ {t} : loc[u].stream # s
           /\ hw.EN[s] # "off" => hw.conf[s] = t
           /\ hw.EN[s] \in {"off", "on", "ending"} /\ hw.NDTR[s] \in Nat /\ dev.moved[s] \in Nat
           /\ dev.due[s] => DmaFlag(hw, s)
           /\ DmaHw(hw) /\ DOMAIN loc[t] = {"entry", "stream", "num", "result"}
  <1>0. DmaShape /\ DmaOwners /\ DmaRegs /\ DmaTask(t)
    BY DEF DmaInv, DmaTransfers
  <1>1. s \in R!Streams /\ s \in 0..7 /\ s # -1
    BY <1>0, DmaStreams DEF DmaShape
  <1>2. dev.streams_in_use[s] /\ \A u \in Tasks \ {t} : loc[u].stream # s
    BY <1>0, <1>1 DEF DmaOwners
  <1>3. hw.EN[s] # "off" => hw.conf[s] = t
    BY <1>0, <1>1, <1>2 DEF DmaOwners
  <1> QED BY <1>0, <1>1, <1>2, <1>3 DEF DmaShape, DmaRegs

\* What DmaLocal needs of the shape.
LEMMA DmaShaped ==
    ASSUME DmaShape, NEW t \in Tasks, DmaHw(hw'), DOMAIN lock' = {"dma"},
           DOMAIN dev' = DOMAIN dev, DOMAIN dev'.streams_in_use = R!Streams,
           DOMAIN dev'.moved = R!Streams, DOMAIN dev'.due = R!Streams,
           DOMAIN pc' = Tasks, DOMAIN loc' = Tasks,
           \A u \in Tasks \ {t} : pc'[u] = pc[u] /\ loc'[u] = loc[u],
           DOMAIN loc'[t] = {"entry", "stream", "num", "result"},
           loc'[t].entry \in Seq(R!Streams),
           pc'[t] \notin {"idle", "allocate"} => loc'[t].stream \in R!Streams,
           pc'[t] \in {"idle", "allocate"} => loc'[t].stream = -1
    PROVE  DmaShape'
  BY DEF DmaShape

LEMMA DmaStep == DmaInv /\ [R!Next]_vars => DmaInv'
  <1> SUFFICES ASSUME DmaInv, [R!Next]_vars PROVE DmaInv'
    OBVIOUS
  <1>0. DmaShape /\ DmaOwners /\ DmaRegs /\ \A t \in Tasks : DmaTask(t)
    BY DEF DmaInv, DmaTransfers
  <1>1. CASE UNCHANGED vars
    BY <1>1 DEF vars, DmaInv, DmaShape, DmaOwners, DmaTransfers, DmaRegs, DmaTask
  <1>2. ASSUME NEW t \in Tasks, NEW e \in Entries, R!stm32f4_dma_allocate(t, e) PROVE DmaInv'
    <2>1. /\ pc[t] = "idle" /\ pc' = [pc EXCEPT ![t] = "allocate"]
          /\ loc' = [loc EXCEPT ![t] = [R!Nothing EXCEPT !.entry = e]] /\ UNCHANGED <<dev, hw, lock>>
      BY <1>2 DEF R!stm32f4_dma_allocate, R!Step, R!Goto, R!Set
    <2>2. /\ DOMAIN loc'[t] = {"entry", "stream", "num", "result"}
          /\ loc'[t].entry = e /\ loc'[t].stream = -1 /\ loc'[t].result = FALSE
      BY <1>0, <2>1 DEF R!Nothing, DmaShape
    <2>3. DmaShape'
      BY <1>0, <2>1, <2>2, DmaStreams DEF DmaShape
    <2> QED BY <1>0, <2>1, <2>2, <2>3, DmaNoStream DEF DmaShape
  <1>3. ASSUME NEW t \in Tasks, R!StreamTaken(t) PROVE DmaInv'
    <2>1. /\ pc[t] = "allocate" /\ loc[t].entry # <<>> /\ UNCHANGED <<dev, hw, lock, pc>>
          /\ loc' = [loc EXCEPT ![t] = [loc[t] EXCEPT !.entry = Tail(@)]]
      BY <1>3 DEF R!StreamTaken, R!Set
    <2>2. Tail(loc[t].entry) \in Seq(R!Streams)
      BY <1>0, <2>1 DEF DmaShape
    <2>3. DmaShape'
      BY <1>0, <2>1, <2>2 DEF DmaShape
    <2>4. ~loc[t].result
      BY <1>0, <2>1 DEF DmaTask
    <2> QED BY <1>0, <2>1, <2>3, <2>4, DmaNoStream DEF DmaShape
  <1>4. ASSUME NEW t \in Tasks, R!NoneLeft(t) PROVE DmaInv'
    <2>1. /\ pc[t] = "allocate" /\ pc' = [pc EXCEPT ![t] = "idle"] /\ UNCHANGED <<dev, hw, lock, loc>>
      BY <1>4 DEF R!NoneLeft, R!Step, R!Goto
    <2>2. DmaShape' /\ ~loc[t].result
      BY <1>0, <2>1 DEF DmaShape, DmaTask
    <2> QED BY <1>0, <2>1, <2>2, DmaNoStream DEF DmaShape
  <1>5. ASSUME NEW t \in Tasks, R!stm32f4_dma_class_allocate(t) PROVE DmaInv'
    <2> DEFINE s == Head(loc[t].entry)
    <2>1. /\ pc[t] = "allocate" /\ pc' = [pc EXCEPT ![t] = "disable"]
          /\ lock' = [lock EXCEPT !["dma"] = t] /\ loc[t].entry # <<>>
          /\ ~dev.streams_in_use[s] /\ dev' = [dev EXCEPT !.streams_in_use[s] = TRUE]
          /\ hw' = R!Disable(hw, s) /\ loc' = [loc EXCEPT ![t] = [R!Nothing EXCEPT !.stream = s]]
      BY <1>5 DEF R!stm32f4_dma_class_allocate, R!Step, R!Goto, R!Set, R!acquire
    <2>2. s \in R!Streams /\ loc[t].stream = -1
      BY <1>0, <2>1 DEF DmaShape
    <2> HIDE DEF s
    <2>3. \A u \in Tasks : loc[u].stream # s
      BY <1>0, <2>1, <2>2, DmaStreams DEF DmaOwners
    <2>4. hw.EN[s] = "off"
      BY <1>0, <2>2, <2>3 DEF DmaOwners
    <2>5. /\ DmaHw(hw') /\ hw'.NDTR = hw.NDTR /\ hw'.conf = hw.conf /\ hw'.TCIF = hw.TCIF
          /\ hw'.EN[s] = "off" /\ \A u \in R!Streams \ {s} : hw'.EN[u] = hw.EN[u]
      <3>1. DmaHw(hw) /\ hw' = R!Disable(hw, s)
        BY <1>0, <2>1 DEF DmaShape
      <3>2. DmaDisabled(hw, s, R!Disable(hw, s))
        BY <2>2, <3>1, DmaDisable
      <3>3. DmaDisabled(hw, s, hw')
        BY <3>1, <3>2
      <3> QED BY <2>4, <3>3 DEF DmaDisabled
    <2>6. /\ DOMAIN loc'[t] = {"entry", "stream", "num", "result"}
          /\ loc'[t].entry = <<>> /\ loc'[t].stream = s /\ loc'[t].result = FALSE
      BY <1>0, <2>1 DEF R!Nothing, DmaShape
    <2>7. /\ DOMAIN dev' = DOMAIN dev /\ DOMAIN dev'.streams_in_use = R!Streams
          /\ dev'.streams_in_use[s] /\ dev'.moved = dev.moved /\ dev'.due = dev.due
          /\ \A u \in R!Streams \ {s} : dev'.streams_in_use[u] = dev.streams_in_use[u]
      BY <1>0, <2>1, <2>2 DEF DmaShape
    <2>8. DmaShape'
      <3>1. <<>> \in Seq(R!Streams)
        OBVIOUS
      <3> QED BY <1>0, <2>1, <2>2, <2>5, <2>6, <2>7, <3>1 DEF DmaShape
    <2>9. DmaTask(t)' /\ DmaOwn(t, s) /\ \A u : DmaFlag(hw', u) <=> DmaFlag(hw, u)
      BY <1>0, <2>1, <2>2, <2>5, <2>6, <2>7 DEF DmaTask, DmaOwn, DmaShape, DmaFlag
    <2> QED BY <1>0, <2>2, <2>3, <2>5, <2>6, <2>7, <2>8, <2>9, DmaLocal DEF DmaRegs
  <1>6. ASSUME NEW t \in Tasks, R!AllocateReset(t) PROVE DmaInv'
    <2> DEFINE s == loc[t].stream
    <2>1. /\ pc[t] = "disable" /\ pc' = [pc EXCEPT ![t] = "ready"] /\ UNCHANGED loc
          /\ lock' = [lock EXCEPT !["dma"] = Nobody] /\ hw.EN[s] = "off"
          /\ dev' = [dev EXCEPT !.due[s] = FALSE]
          /\ hw' = [hw EXCEPT !.NDTR[s] = 0, !.conf[s] = Nobody]
      BY <1>6 DEF R!AllocateReset, R!Step, R!Goto, R!release, R!Disabled
    <2>2. /\ s \in R!Streams /\ s \in 0..7 /\ s # -1 /\ dev.streams_in_use[s] /\ DmaTask(t)
          /\ \A u \in Tasks \ {t} : loc[u].stream # s
          /\ hw.EN[s] # "off" => hw.conf[s] = t
          /\ hw.EN[s] \in {"off", "on", "ending"} /\ hw.NDTR[s] \in Nat /\ dev.moved[s] \in Nat
          /\ dev.due[s] => DmaFlag(hw, s)
          /\ DmaHw(hw) /\ DOMAIN loc[t] = {"entry", "stream", "num", "result"}
      BY <2>1, DmaAt
    <2> HIDE DEF s
    <2>3. /\ DOMAIN dev' = DOMAIN dev /\ DOMAIN dev'.due = R!Streams /\ dev'.due[s] = FALSE
          /\ dev'.moved = dev.moved /\ dev'.streams_in_use = dev.streams_in_use
          /\ \A u \in R!Streams \ {s} : dev'.due[u] = dev.due[u]
      BY <1>0, <2>1, <2>2 DEF DmaShape
    <2>4. /\ DmaHw(hw') /\ hw'.EN = hw.EN /\ hw'.TCIF = hw.TCIF /\ hw'.NDTR[s] = 0
          /\ \A u \in R!Streams \ {s} : hw'.NDTR[u] = hw.NDTR[u] /\ hw'.conf[u] = hw.conf[u]
          /\ \A u : DmaFlag(hw', u) <=> DmaFlag(hw, u)
      BY <2>1, <2>2 DEF DmaHw, DmaFlag
    <2>5. DmaShape'
      BY <1>0, <2>1, <2>2, <2>3, <2>4, DmaShaped DEF DmaShape, s
    <2>6. DmaOwn(t, s)
      BY <1>0, <2>1, <2>2, <2>3, <2>4 DEF DmaOwn, DmaShape, s
    <2>7. DmaTask(t)'
      BY <1>0, <2>1, <2>2, <2>3, <2>4 DEF DmaTask, DmaShape, s
    <2> QED BY <1>0, <2>1, <2>2, <2>3, <2>4, <2>5, <2>6, <2>7, DmaLocal DEF s
  <1>7. ASSUME NEW t \in Tasks, R!stm32f4_dma_class_configure(t) PROVE DmaInv'
    <2> DEFINE s == loc[t].stream
    <2>1. PICK c \in {t, Nobody} :
             /\ pc[t] \in {"ready", "configured"} /\ UNCHANGED <<dev, lock, loc>>
             /\ hw' = [hw EXCEPT !.conf[s] = c]
             /\ pc' = [pc EXCEPT ![t] = IF c = t THEN "configured" ELSE "ready"]
      BY <1>7, CallsAssumption DEF R!stm32f4_dma_class_configure, R!Goto
    <2>2. /\ s \in R!Streams /\ s \in 0..7 /\ s # -1 /\ dev.streams_in_use[s] /\ DmaTask(t)
          /\ \A u \in Tasks \ {t} : loc[u].stream # s
          /\ hw.EN[s] # "off" => hw.conf[s] = t
          /\ hw.EN[s] \in {"off", "on", "ending"} /\ hw.NDTR[s] \in Nat /\ dev.moved[s] \in Nat
          /\ dev.due[s] => DmaFlag(hw, s)
          /\ DmaHw(hw) /\ DOMAIN loc[t] = {"entry", "stream", "num", "result"}
      BY <2>1, DmaAt
    <2> HIDE DEF s
    <2>3. /\ DmaHw(hw') /\ hw'.EN = hw.EN /\ hw'.TCIF = hw.TCIF /\ hw'.NDTR = hw.NDTR
          /\ hw'.conf[s] = c /\ \A u \in R!Streams \ {s} : hw'.conf[u] = hw.conf[u]
          /\ \A u : DmaFlag(hw', u) <=> DmaFlag(hw, u)
      BY <2>1, <2>2 DEF DmaHw, DmaFlag
    <2>4. DmaShape'
      BY <1>0, <2>1, <2>2, <2>3, DmaShaped DEF DmaShape, s
    <2>5. DmaOwn(t, s)
      BY <1>0, <2>1, <2>2, <2>3 DEF DmaOwn, DmaShape, s
    <2>6. hw.EN[s] = "off" /\ DmaTask(t)'
      BY <1>0, <2>1, <2>2, <2>3 DEF DmaTask, DmaShape, s
    <2> QED BY <1>0, <2>1, <2>2, <2>3, <2>4, <2>5, <2>6, DmaLocal DEF s
  <1>8. ASSUME NEW t \in Tasks, NEW n \in Items, R!Begin(t, n) PROVE DmaInv'
    <2> DEFINE s == loc[t].stream
    <2>1. /\ pc[t] \in {"configured", "begun"} /\ pc' = [pc EXCEPT ![t] = "cancel"]
          /\ hw' = R!Disable(hw, s) /\ loc' = [loc EXCEPT ![t] = [loc[t] EXCEPT !.num = n]]
          /\ UNCHANGED <<dev, lock>>
      BY <1>8 DEF R!Begin, R!Goto, R!Set
    <2>2. /\ s \in R!Streams /\ s \in 0..7 /\ s # -1 /\ dev.streams_in_use[s] /\ DmaTask(t)
          /\ \A u \in Tasks \ {t} : loc[u].stream # s
          /\ hw.EN[s] # "off" => hw.conf[s] = t
          /\ hw.EN[s] \in {"off", "on", "ending"} /\ hw.NDTR[s] \in Nat /\ dev.moved[s] \in Nat
          /\ dev.due[s] => DmaFlag(hw, s)
          /\ DmaHw(hw) /\ DOMAIN loc[t] = {"entry", "stream", "num", "result"}
      BY <2>1, DmaAt
    <2> HIDE DEF s
    <2>3. /\ DmaHw(hw') /\ hw'.NDTR = hw.NDTR /\ hw'.conf = hw.conf /\ hw'.TCIF = hw.TCIF
          /\ hw'.EN[s] = (IF hw.EN[s] = "on" THEN "ending" ELSE hw.EN[s])
          /\ \A u \in R!Streams \ {s} : hw'.EN[u] = hw.EN[u]
      <3>1. hw' = R!Disable(hw, s)
        BY <2>1
      <3>2. DmaDisabled(hw, s, R!Disable(hw, s))
        BY <2>2, DmaDisable
      <3>3. DmaDisabled(hw, s, hw')
        BY <3>1, <3>2
      <3> QED BY <3>3 DEF DmaDisabled
    <2>4. \A u : DmaFlag(hw', u) <=> DmaFlag(hw, u)
      BY <2>3 DEF DmaFlag
    <2>5. /\ DOMAIN loc'[t] = DOMAIN loc[t] /\ loc'[t].stream = s /\ loc'[t].num = n
          /\ loc'[t].result = loc[t].result /\ loc'[t].entry = loc[t].entry
      BY <1>0, <2>1, <2>2 DEF DmaShape, s
    <2>6. DmaShape'
      BY <1>0, <2>1, <2>2, <2>3, <2>5, DmaShaped DEF DmaShape
    <2>7. DmaOwn(t, s)
      BY <1>0, <2>1, <2>2, <2>3, <2>4, <2>5 DEF DmaOwn, DmaShape, s
    <2>8. hw.conf[s] = t /\ DmaTask(t)'
      BY <1>0, <2>1, <2>2, <2>3, <2>4, <2>5 DEF DmaTask, DmaShape, s
    <2> QED BY <1>0, <2>1, <2>2, <2>3, <2>4, <2>5, <2>6, <2>7, <2>8, DmaLocal
  <1>9. ASSUME NEW t \in Tasks, R!ClearFlags(t) PROVE DmaInv'
    <2> DEFINE s == loc[t].stream
    <2>1. /\ pc[t] = "cancel" /\ pc' = [pc EXCEPT ![t] = "start"] /\ hw.EN[s] = "off"
          /\ hw' = R!stream_clear_flags(hw, s) /\ UNCHANGED <<lock, loc>>
          /\ dev' = [dev EXCEPT !.due[s] = FALSE, !.moved[s] = 0]
      BY <1>9 DEF R!ClearFlags, R!Step, R!Goto, R!Disabled
    <2>2. /\ s \in R!Streams /\ s \in 0..7 /\ s # -1 /\ dev.streams_in_use[s] /\ DmaTask(t)
          /\ \A u \in Tasks \ {t} : loc[u].stream # s
          /\ hw.EN[s] # "off" => hw.conf[s] = t
          /\ hw.EN[s] \in {"off", "on", "ending"} /\ hw.NDTR[s] \in Nat /\ dev.moved[s] \in Nat
          /\ dev.due[s] => DmaFlag(hw, s)
          /\ DmaHw(hw) /\ DOMAIN loc[t] = {"entry", "stream", "num", "result"}
      BY <2>1, DmaAt
    <2> HIDE DEF s
    <2>3. /\ DOMAIN dev' = DOMAIN dev /\ dev'.streams_in_use = dev.streams_in_use
          /\ DOMAIN dev'.due = R!Streams /\ dev'.due[s] = FALSE
          /\ DOMAIN dev'.moved = R!Streams /\ dev'.moved[s] = 0
          /\ \A u \in R!Streams \ {s} : dev'.due[u] = dev.due[u] /\ dev'.moved[u] = dev.moved[u]
      BY <1>0, <2>1, <2>2 DEF DmaShape
    <2>4. /\ DmaHw(hw') /\ hw'.EN = hw.EN /\ hw'.NDTR = hw.NDTR /\ hw'.conf = hw.conf
          /\ ~DmaFlag(hw', s) /\ \A u \in 0..7 : u # s => (DmaFlag(hw', u) <=> DmaFlag(hw, u))
      BY <2>1, <2>2, DmaClearFlag
    <2>5. DmaShape'
      BY <1>0, <2>1, <2>2, <2>3, <2>4, DmaShaped DEF DmaShape, s
    <2>6. DmaOwn(t, s)
      BY <1>0, <2>1, <2>2, <2>3, <2>4, DmaStreams DEF DmaOwn, DmaShape, s
    <2>7. DmaTask(t)'
      BY <1>0, <2>1, <2>2, <2>3, <2>4 DEF DmaTask, DmaShape, s
    <2> QED BY <1>0, <2>1, <2>2, <2>3, <2>4, <2>5, <2>6, <2>7, DmaLocal DEF s
  <1>10. ASSUME NEW t \in Tasks, R!Start(t) PROVE DmaInv'
    <2> DEFINE s == loc[t].stream
    <2>1. /\ pc[t] = "start" /\ pc' = [pc EXCEPT ![t] = "begun"] /\ hw.EN[s] = "off"
          /\ hw' = [hw EXCEPT !.NDTR[s] = loc[t].num, !.EN[s] = "on"] /\ UNCHANGED <<dev, lock, loc>>
      BY <1>10 DEF R!Start, R!Step, R!Goto, R!Disabled
    <2>2. /\ s \in R!Streams /\ s \in 0..7 /\ s # -1 /\ dev.streams_in_use[s] /\ DmaTask(t)
          /\ \A u \in Tasks \ {t} : loc[u].stream # s
          /\ hw.EN[s] # "off" => hw.conf[s] = t
          /\ hw.EN[s] \in {"off", "on", "ending"} /\ hw.NDTR[s] \in Nat /\ dev.moved[s] \in Nat
          /\ dev.due[s] => DmaFlag(hw, s)
          /\ DmaHw(hw) /\ DOMAIN loc[t] = {"entry", "stream", "num", "result"}
      BY <2>1, DmaAt
    <2>3. loc[t].num \in Nat /\ loc[t].num > 0
      BY <2>1, <2>2, DriversAssumption DEF DmaTask, R!DmaAssumption
    <2> HIDE DEF s
    <2>4. /\ DmaHw(hw') /\ hw'.EN[s] = "on" /\ hw'.NDTR[s] = loc[t].num
          /\ hw'.conf = hw.conf /\ hw'.TCIF = hw.TCIF
          /\ \A u \in R!Streams \ {s} : hw'.EN[u] = hw.EN[u] /\ hw'.NDTR[u] = hw.NDTR[u]
          /\ \A u : DmaFlag(hw', u) <=> DmaFlag(hw, u)
      BY <2>1, <2>2 DEF DmaHw, DmaFlag
    <2>5. DmaShape'
      BY <1>0, <2>1, <2>2, <2>4, DmaShaped DEF DmaShape, s
    <2>6. DmaOwn(t, s)
      BY <1>0, <2>1, <2>2, <2>4 DEF DmaOwn, DmaShape, s
    <2>7. hw.conf[s] = t /\ DmaTask(t)'
      BY <1>0, <2>1, <2>2, <2>3, <2>4 DEF DmaTask, DmaShape, s
    <2> QED BY <1>0, <2>1, <2>2, <2>3, <2>4, <2>5, <2>6, <2>7, DmaLocal DEF s
  <1>11. ASSUME NEW t \in Tasks, R!Test(t) PROVE DmaInv'
    <2> DEFINE s == loc[t].stream
               r == R!stream_transaction_complete(s)
    <2>1. /\ pc[t] = "begun" /\ pc' = [pc EXCEPT ![t] = "test"] /\ UNCHANGED <<dev, hw, lock>>
          /\ loc' = [loc EXCEPT ![t] = [loc[t] EXCEPT !.result = r]]
      BY <1>11 DEF R!Test, R!Step, R!Goto, R!Set
    <2>2. /\ s \in R!Streams /\ s \in 0..7 /\ s # -1 /\ dev.streams_in_use[s] /\ DmaTask(t)
          /\ \A u \in Tasks \ {t} : loc[u].stream # s
          /\ hw.EN[s] # "off" => hw.conf[s] = t
          /\ hw.EN[s] \in {"off", "on", "ending"} /\ hw.NDTR[s] \in Nat /\ dev.moved[s] \in Nat
          /\ dev.due[s] => DmaFlag(hw, s)
          /\ DmaHw(hw) /\ DOMAIN loc[t] = {"entry", "stream", "num", "result"}
      BY <2>1, DmaAt
    <2>3. r <=> DmaFlag(hw, s)
      BY DEF R!stream_transaction_complete, DmaFlag
    <2> HIDE DEF s, r
    <2>4. /\ DOMAIN loc'[t] = DOMAIN loc[t] /\ loc'[t].stream = s /\ loc'[t].num = loc[t].num
          /\ loc'[t].result = r /\ loc'[t].entry = loc[t].entry
      BY <1>0, <2>1, <2>2 DEF DmaShape, s
    <2>5. DmaShape'
      BY <1>0, <2>1, <2>2, <2>4, DmaShaped DEF DmaShape
    <2>6. DmaOwn(t, s)
      BY <1>0, <2>1, <2>2, <2>4 DEF DmaOwn, DmaShape, s
    <2>7. DmaTask(t)'
      BY <1>0, <2>1, <2>2, <2>3, <2>4 DEF DmaTask, DmaShape, s
    <2> QED BY <1>0, <2>1, <2>2, <2>4, <2>5, <2>6, <2>7, DmaLocal
  <1>12. ASSUME NEW t \in Tasks, R!stm32f4_dma_class_transaction_complete(t) PROVE DmaInv'
    <2> DEFINE s == loc[t].stream
    <2>1. /\ pc[t] = "test" /\ UNCHANGED lock
          /\ hw' = IF loc[t].result THEN R!stream_clear_flags(hw, s) ELSE hw
          /\ dev' = IF loc[t].result THEN [dev EXCEPT !.due[s] = FALSE, !.moved[s] = 0] ELSE dev
          /\ pc' = [pc EXCEPT ![t] = IF loc[t].result THEN "configured" ELSE "begun"]
          /\ loc' = [loc EXCEPT ![t] = [loc[t] EXCEPT !.result = FALSE,
                                                      !.num = IF loc[t].result THEN 0 ELSE @]]
      BY <1>12 DEF R!stm32f4_dma_class_transaction_complete, R!Goto, R!Set
    <2>2. /\ s \in R!Streams /\ s \in 0..7 /\ s # -1 /\ dev.streams_in_use[s] /\ DmaTask(t)
          /\ \A u \in Tasks \ {t} : loc[u].stream # s
          /\ hw.EN[s] # "off" => hw.conf[s] = t
          /\ hw.EN[s] \in {"off", "on", "ending"} /\ hw.NDTR[s] \in Nat /\ dev.moved[s] \in Nat
          /\ dev.due[s] => DmaFlag(hw, s)
          /\ DmaHw(hw) /\ DOMAIN loc[t] = {"entry", "stream", "num", "result"}
      BY <2>1, DmaAt
    <2> HIDE DEF s
    <2>3. /\ DOMAIN loc'[t] = DOMAIN loc[t] /\ loc'[t].stream = s /\ loc'[t].entry = loc[t].entry
          /\ loc'[t].result = FALSE /\ (~loc[t].result => loc'[t].num = loc[t].num)
      BY <1>0, <2>1, <2>2 DEF DmaShape, s
    <2>4. CASE ~loc[t].result
      <3>1. UNCHANGED <<hw, dev>> /\ pc' = [pc EXCEPT ![t] = "begun"]
        BY <2>1, <2>4
      <3>2. DmaShape'
        BY <1>0, <2>1, <2>2, <2>3, <3>1, DmaShaped DEF DmaShape
      <3>3. DmaOwn(t, s)
        BY <1>0, <2>1, <2>2, <2>3, <3>1 DEF DmaOwn, DmaShape, s
      <3>4. DmaTask(t)'
        BY <1>0, <2>1, <2>2, <2>3, <2>4, <3>1 DEF DmaTask, DmaShape, s
      <3> QED BY <1>0, <2>1, <2>2, <2>3, <3>1, <3>2, <3>3, <3>4, DmaLocal
    <2>5. CASE loc[t].result
      <3>1. /\ DOMAIN dev' = DOMAIN dev /\ dev'.streams_in_use = dev.streams_in_use
            /\ DOMAIN dev'.due = R!Streams /\ dev'.due[s] = FALSE
            /\ DOMAIN dev'.moved = R!Streams /\ dev'.moved[s] = 0
            /\ \A u \in R!Streams \ {s} : dev'.due[u] = dev.due[u] /\ dev'.moved[u] = dev.moved[u]
        BY <1>0, <2>1, <2>2, <2>5 DEF DmaShape
      <3>2. /\ DmaHw(hw') /\ hw'.EN = hw.EN /\ hw'.NDTR = hw.NDTR /\ hw'.conf = hw.conf
            /\ ~DmaFlag(hw', s) /\ \A u \in 0..7 : u # s => (DmaFlag(hw', u) <=> DmaFlag(hw, u))
        <4>1. hw' = R!stream_clear_flags(hw, s)
          BY <2>1, <2>5
        <4> QED BY <2>2, <4>1, DmaClearFlag
      <3>3. DmaShape'
        BY <1>0, <2>1, <2>2, <2>3, <3>1, <3>2, DmaShaped DEF DmaShape
      <3>4. DmaOwn(t, s)
        BY <1>0, <2>1, <2>2, <2>3, <3>1, <3>2, DmaStreams DEF DmaOwn, DmaShape, s
      <3>5. hw.EN[s] = "off" /\ DmaTask(t)'
        BY <1>0, <2>1, <2>2, <2>3, <2>5, <3>1, <3>2 DEF DmaTask, DmaShape, s
      <3> QED BY <1>0, <2>1, <2>2, <2>3, <3>1, <3>2, <3>3, <3>4, <3>5, DmaLocal
    <2> QED BY <2>4, <2>5
  <1>13. ASSUME NEW t \in Tasks, R!stm32f4_dma_class_deallocate(t) PROVE DmaInv'
    <2> DEFINE s == loc[t].stream
    <2>1. /\ pc[t] \in {"ready", "configured", "begun"} /\ pc' = [pc EXCEPT ![t] = "release"]
          /\ lock' = [lock EXCEPT !["dma"] = t] /\ hw' = R!Disable(hw, s) /\ UNCHANGED <<dev, loc>>
      BY <1>13 DEF R!stm32f4_dma_class_deallocate, R!Goto, R!acquire
    <2>2. /\ s \in R!Streams /\ s \in 0..7 /\ s # -1 /\ dev.streams_in_use[s] /\ DmaTask(t)
          /\ \A u \in Tasks \ {t} : loc[u].stream # s
          /\ hw.EN[s] # "off" => hw.conf[s] = t
          /\ hw.EN[s] \in {"off", "on", "ending"} /\ hw.NDTR[s] \in Nat /\ dev.moved[s] \in Nat
          /\ dev.due[s] => DmaFlag(hw, s)
          /\ DmaHw(hw) /\ DOMAIN loc[t] = {"entry", "stream", "num", "result"}
      BY <2>1, DmaAt
    <2> HIDE DEF s
    <2>3. /\ DmaHw(hw') /\ hw'.NDTR = hw.NDTR /\ hw'.conf = hw.conf /\ hw'.TCIF = hw.TCIF
          /\ hw'.EN[s] = (IF hw.EN[s] = "on" THEN "ending" ELSE hw.EN[s])
          /\ \A u \in R!Streams \ {s} : hw'.EN[u] = hw.EN[u]
      <3>1. hw' = R!Disable(hw, s)
        BY <2>1
      <3>2. DmaDisabled(hw, s, R!Disable(hw, s))
        BY <2>2, DmaDisable
      <3>3. DmaDisabled(hw, s, hw')
        BY <3>1, <3>2
      <3> QED BY <3>3 DEF DmaDisabled
    <2>4. \A u : DmaFlag(hw', u) <=> DmaFlag(hw, u)
      BY <2>3 DEF DmaFlag
    <2>5. DmaShape'
      BY <1>0, <2>1, <2>2, <2>3, DmaShaped DEF DmaShape, s
    <2>6. DmaOwn(t, s)
      BY <1>0, <2>1, <2>2, <2>3, <2>4 DEF DmaOwn, DmaShape, s
    <2>7. DmaTask(t)'
      BY <1>0, <2>1, <2>2, <2>3, <2>4 DEF DmaTask, DmaShape, s
    <2> QED BY <1>0, <2>1, <2>2, <2>3, <2>4, <2>5, <2>6, <2>7, DmaLocal DEF s
  <1>14. ASSUME NEW t \in Tasks, R!GiveBack(t) PROVE DmaInv'
    <2> DEFINE s == loc[t].stream
    <2>1. /\ pc[t] = "release" /\ pc' = [pc EXCEPT ![t] = "idle"] /\ hw.EN[s] = "off"
          /\ dev' = [dev EXCEPT !.streams_in_use[s] = FALSE, !.moved[s] = 0]
          /\ lock' = [lock EXCEPT !["dma"] = Nobody]
          /\ loc' = [loc EXCEPT ![t] = R!Nothing] /\ UNCHANGED hw
      BY <1>14 DEF R!GiveBack, R!Step, R!Goto, R!Disabled, R!release, R!Set
    <2>2. /\ s \in R!Streams /\ s \in 0..7 /\ s # -1 /\ dev.streams_in_use[s] /\ DmaTask(t)
          /\ \A u \in Tasks \ {t} : loc[u].stream # s
          /\ hw.EN[s] # "off" => hw.conf[s] = t
          /\ hw.EN[s] \in {"off", "on", "ending"} /\ hw.NDTR[s] \in Nat /\ dev.moved[s] \in Nat
          /\ dev.due[s] => DmaFlag(hw, s)
          /\ DmaHw(hw) /\ DOMAIN loc[t] = {"entry", "stream", "num", "result"}
      BY <2>1, DmaAt
    <2> HIDE DEF s
    <2>3. /\ DOMAIN dev' = DOMAIN dev /\ dev'.due = dev.due
          /\ DOMAIN dev'.streams_in_use = R!Streams
          /\ DOMAIN dev'.moved = R!Streams /\ dev'.moved[s] = 0
          /\ \A u \in R!Streams \ {s} : /\ dev'.streams_in_use[u] = dev.streams_in_use[u]
                                        /\ dev'.moved[u] = dev.moved[u]
      BY <1>0, <2>1, <2>2 DEF DmaShape
    <2>4. /\ DOMAIN loc'[t] = {"entry", "stream", "num", "result"}
          /\ loc'[t].entry = <<>> /\ loc'[t].stream = -1 /\ loc'[t].result = FALSE
      BY <1>0, <2>1 DEF R!Nothing, DmaShape
    <2>5. DmaShape'
      <3>1. <<>> \in Seq(R!Streams)
        OBVIOUS
      <3>2. /\ DOMAIN dev' = DOMAIN dev /\ DOMAIN dev'.streams_in_use = R!Streams
            /\ DOMAIN dev'.moved = R!Streams /\ DOMAIN dev'.due = R!Streams
            /\ DmaHw(hw') /\ DOMAIN lock' = {"dma"} /\ DOMAIN pc' = Tasks /\ DOMAIN loc' = Tasks
        BY <1>0, <2>1, <2>2, <2>3 DEF DmaShape
      <3>3. /\ \A u \in Tasks \ {t} : pc'[u] = pc[u] /\ loc'[u] = loc[u]
            /\ pc'[t] = "idle" /\ loc'[t].entry \in Seq(R!Streams)
        BY <1>0, <2>1, <2>4, <3>1 DEF DmaShape
      <3> QED BY <1>0, <2>4, <3>2, <3>3, DmaShaped
    <2>6. DmaOwn(t, s)
      BY <1>0, <2>1, <2>2, <2>3, <2>4 DEF DmaOwn, DmaShape, s
    <2>7. DmaTask(t)'
      BY <1>0, <2>1, <2>2, <2>3, <2>4 DEF DmaTask, DmaShape
    <2> QED BY <1>0, <2>1, <2>2, <2>3, <2>4, <2>5, <2>6, <2>7, DmaLocal
  <1>15. ASSUME NEW s \in R!Streams, R!Move(s) \/ R!Ends(s) PROVE DmaInv'
    BY <1>15, DmaMove, DmaEnds
  <1> QED BY <1>1, <1>2, <1>3, <1>4, <1>5, <1>6, <1>7, <1>8, <1>9, <1>10, <1>11, <1>12, <1>13,
             <1>14, <1>15 DEF R!Next, R!Controller, R!Work

LEMMA DmaGoal == DmaInv => R!StreamExclusive /\ R!CompletionExact
  <1> SUFFICES ASSUME DmaInv PROVE R!StreamExclusive /\ R!CompletionExact
    OBVIOUS
  <1>1. R!StreamExclusive
    <2>1. ASSUME NEW s \in R!Streams, NEW t \in Tasks, NEW u \in Tasks, R!Holds(t, s), R!Holds(u, s)
          PROVE  t = u
      BY <2>1, DmaStreams DEF DmaInv, DmaOwners, R!Holds
    <2>2. ASSUME NEW s \in R!Streams, hw.EN[s] # "off"
          PROVE  \E t \in Tasks : R!Holds(t, s) /\ hw.conf[s] = t
      <3>1. PICK t \in Tasks : loc[t].stream = s /\ hw.conf[s] = t
        BY <2>2 DEF DmaInv, DmaOwners
      <3>2. pc[t] # "idle"
        BY <3>1, DmaStreams DEF DmaInv, DmaShape
      <3> QED BY <3>1, <3>2 DEF R!Holds
    <2> QED BY <2>1, <2>2 DEF R!StreamExclusive
  <1>2. R!CompletionExact
    BY DEF DmaInv, DmaShape, DmaTransfers, DmaRegs, DmaTask, DmaFlag, R!CompletionExact, R!stream_transaction_complete
  <1> QED BY <1>1, <1>2

-------------------------------------------------------------------------------
(* Atomic updates *)

AtomicShape ==
    /\ DOMAIN dev = {"num", "model", "seen"} /\ DOMAIN dev.seen = Tasks
    /\ DOMAIN hw = {"monitor", "curr"} /\ hw.monitor \in BOOLEAN
    /\ DOMAIN pc = Tasks /\ DOMAIN loc = Tasks
    /\ \A t \in Tasks : DOMAIN loc[t] = {"op", "i", "reg"}

\* While the monitor is set, the task that runs is between its load and its store,
\* and the word is still what it has loaded.
AtomicMonitor ==
    hw.monitor => /\ hw.curr \in Tasks /\ pc[hw.curr] = "store"
                  /\ loc[hw.curr].reg = dev.num

AtomicInv == AtomicShape /\ AtomicMonitor /\ M!UpdatesKept

LEMMA AtomicInit == M!Init => AtomicInv
  BY DEF M!Init, M!Nothing, AtomicInv, AtomicShape, AtomicMonitor, M!UpdatesKept

LEMMA AtomicStep == Clears /\ AtomicInv /\ [M!Next]_vars => AtomicInv'
  <1> SUFFICES ASSUME Clears, AtomicInv, [M!Next]_vars PROVE AtomicInv'
    OBVIOUS
  <1> USE DEF AtomicInv, AtomicShape, AtomicMonitor, M!UpdatesKept, M!Step, M!Goto, M!Set
  <1>1. CASE UNCHANGED vars
    BY <1>1 DEF vars
  <1>2. ASSUME NEW t \in Tasks, M!Switch(t) PROVE AtomicInv'
    BY <1>2 DEF M!Switch
  <1>3. ASSUME NEW t \in Tasks, NEW op, NEW i, M!Begin(t, op, i) PROVE AtomicInv'
    BY <1>3 DEF M!Begin, M!Nothing
  <1>4. ASSUME NEW t \in Tasks, NEW i, M!atomic_set(t, i) PROVE AtomicInv'
    BY <1>4 DEF M!atomic_set
  <1>5. ASSUME NEW t \in Tasks, M!load_link(t) PROVE AtomicInv'
    BY <1>5 DEF M!load_link
  <1>6. ASSUME NEW t \in Tasks, M!store_conditional(t) PROVE AtomicInv'
    <2> DEFINE new == M!Result(loc[t].op, loc[t].reg, loc[t].i)
               model == M!Result(loc[t].op, dev.model, loc[t].i)
    <2>1. /\ hw.curr = t /\ pc[t] = "store"
          /\ dev' = IF ~hw.monitor THEN dev
                    ELSE [num |-> new, model |-> model, seen |-> [dev.seen EXCEPT ![t] = model]]
          /\ loc' = [loc EXCEPT ![t] = [loc[t] EXCEPT !.reg = new]]
          /\ hw' = [hw EXCEPT !.monitor = FALSE]
          /\ pc' = [pc EXCEPT ![t] = IF hw.monitor THEN "return" ELSE "load"]
      BY <1>6 DEF M!store_conditional, M!Again
    <2>2. hw.monitor => new = model
      BY <2>1
    <2> HIDE DEF new, model
    <2> QED BY <2>1, <2>2
  <1>7. ASSUME NEW t \in Tasks, M!Return(t) PROVE AtomicInv'
    BY <1>7 DEF M!Return, M!Nothing
  <1> QED BY <1>1, <1>2, <1>3, <1>4, <1>5, <1>6, <1>7 DEF M!Next, M!Call, M!Work

-------------------------------------------------------------------------------
(* The registers and stacks of tasks *)

Regs == X!Core \cup X!Fpu

CtxShape ==
    /\ DOMAIN dev = {"arch", "stack_base", "task_switching", "curr", "stack_top", "running", "stack"}
    /\ dev.arch \in {"armv7a", "armv7m"} /\ dev.stack_base \in {StackWords, StackWords + 1}
    /\ DOMAIN dev.stack_top = Tasks /\ DOMAIN dev.running = Tasks /\ DOMAIN dev.stack = X!Holders
    /\ DOMAIN hw = {"phase", "reg", "sp", "spsr", "exc", "registers", "svc", "fpca"}
    /\ DOMAIN hw.reg = Regs /\ hw.svc \in BOOLEAN
    /\ DOMAIN pc = Tasks /\ DOMAIN loc = Tasks

\* What an exception knows of the code that it stopped, which is that of a task or
\* the code before the first task.
CtxMode ==
    /\ hw.phase \in {"user", "entry", "saved", "handled", "restored"}
    /\ dev.curr \in X!Holders
    /\ dev.curr = Nobody => hw.phase \in {"user", "entry", "saved"}
    /\ dev.curr # Nobody => dev.task_switching = TRUE
    /\ dev.arch = "armv7a" =>
          /\ hw.phase = "user" => hw.reg["psr"][1] = "usr"
          /\ hw.phase = "entry" => hw.spsr[1] = "usr" /\ hw.exc = <<hw.exc[1]>>
          /\ hw.phase \in {"saved", "handled"} => Len(hw.exc) = 5 /\ hw.exc[5][1] = "usr"
    /\ dev.arch = "armv7m" => IF hw.phase = "user" THEN hw.fpca = TRUE ELSE hw.exc = <<TRUE>>

\* The frame of the processor on the stack m, at q, but for r0: that of a task that
\* goes on with the registers and the stack pointer of l.
FrameM(m, q, l) ==
    /\ m[q + 1] = l.reg["lo"] /\ m[q + 3] = l.reg["lr"] /\ m[q + 4] = l.reg["pc"]
    /\ m[q + 5] = <<l.reg["psr"], l.sp % 2>> /\ m[q + 6] = l.reg["fp"]
    /\ q = X!Aligned(l.sp) - 8

\* What save_context leaves at p, but for r0.
StoredA(m, p, l) ==
    /\ m[p] = l.reg["lr"] /\ m[p + 1] = l.reg["psr"] /\ m[p + 3] = l.reg["lo"]
    /\ m[p + 4] = l.reg["hi"] /\ m[p + 5] = l.reg["pc"]
    /\ p = l.sp - 6
StoredM(m, p, l) ==
    /\ m[p] = l.reg["fq"] /\ m[p + 1] = l.reg["hi"] /\ FrameM(m, p + 2, l)
    /\ p = X!Aligned(l.sp) - 10

Stored(m, p, l) == IF dev.arch = "armv7a" THEN StoredA(m, p, l) ELSE StoredM(m, p, l)

\* r0 is v, or the result of the call is still to be stored in its place.
R0Kept(t, v) == IF hw.svc THEN loc[t].reg["r0"] = X!Word("ret", t, 0) ELSE v = loc[t].reg["r0"]

\* Where the registers of the task t that runs are, in each phase of an exception.
CtxEntry(t) ==
    IF dev.arch = "armv7a"
    THEN /\ hw.sp = loc[t].sp /\ hw.exc[1] = loc[t].reg["pc"] /\ hw.spsr = loc[t].reg["psr"]
         /\ hw.reg["lo"] = loc[t].reg["lo"] /\ hw.reg["hi"] = loc[t].reg["hi"]
         /\ hw.reg["lr"] = loc[t].reg["lr"] /\ R0Kept(t, hw.reg["r0"])
    ELSE /\ FrameM(dev.stack[t], hw.sp, loc[t]) /\ R0Kept(t, dev.stack[t][hw.sp])
         /\ hw.reg["hi"] = loc[t].reg["hi"] /\ hw.reg["fq"] = loc[t].reg["fq"]

CtxRestored(t) ==
    IF dev.arch = "armv7a"
    THEN /\ hw.sp = loc[t].sp /\ hw.exc[1] = loc[t].reg["pc"] /\ hw.spsr = loc[t].reg["psr"]
         /\ hw.reg["lo"] = loc[t].reg["lo"] /\ hw.reg["hi"] = loc[t].reg["hi"]
         /\ hw.reg["lr"] = loc[t].reg["lr"] /\ hw.reg["r0"] = loc[t].reg["r0"]
    ELSE /\ FrameM(dev.stack[t], hw.sp, loc[t]) /\ dev.stack[t][hw.sp] = loc[t].reg["r0"]
         /\ hw.reg["hi"] = loc[t].reg["hi"] /\ hw.reg["fq"] = loc[t].reg["fq"]

CtxRuns(t) ==
    /\ hw.phase = "user" => (\A x \in X!Own : hw.reg[x] = loc[t].reg[x]) /\ hw.sp = loc[t].sp
    /\ hw.phase = "entry" => CtxEntry(t)
    /\ hw.phase = "saved" =>
          /\ Stored(dev.stack[t], hw.sp, loc[t]) /\ R0Kept(t, dev.stack[t][hw.sp + 2])
          /\ hw.registers # 0 /\ X!R0 = hw.sp + 2
    /\ hw.phase = "handled" =>
          Stored(dev.stack[t], hw.sp, loc[t]) /\ dev.stack[t][hw.sp + 2] = loc[t].reg["r0"]
    /\ hw.phase = "restored" => CtxRestored(t)

Pushed == {"pushed"} \X Tasks \X Nat

\* The stack of t and what it has pushed.
CtxStack(t) ==
    /\ DOMAIN loc[t] = {"reg", "sp", "pushed"} /\ DOMAIN loc[t].reg = Regs
    /\ loc[t].reg["psr"][1] = "usr"
    /\ loc[t].pushed \in Seq(Pushed) /\ Len(loc[t].pushed) <= MaxPushed
    /\ loc[t].sp \in Int /\ loc[t].sp + Len(loc[t].pushed) = X!Aligned(dev.stack_base)
    /\ \A i \in 1..Len(loc[t].pushed) : dev.stack[t][loc[t].sp + i - 1] = loc[t].pushed[i]

CtxTask(t) ==
    /\ DOMAIN dev.stack[t] = 1..StackWords /\ DOMAIN loc[t] = {"reg", "sp", "pushed"}
    /\ pc[t] = "ready" => ~dev.running[t] /\ dev.stack_top[t] = dev.stack_base
    /\ pc[t] \in {"run", "out"} => dev.running[t] /\ CtxStack(t)
    /\ pc[t] = "run" <=> dev.curr = t
    /\ pc[t] = "run" => CtxRuns(t)
    /\ pc[t] = "out" => /\ Stored(dev.stack[t], dev.stack_top[t], loc[t])
                        /\ dev.stack[t][dev.stack_top[t] + 2] = loc[t].reg["r0"]
    /\ pc[t] \in {"ready", "run", "out"}

ContextInv == CtxShape /\ CtxMode /\ \A t \in Tasks : CtxTask(t)

LEMMA CtxNumbers ==
    /\ StackWords \in Nat /\ MaxPushed \in Nat /\ StackWords >= 13 + MaxPushed
    /\ Nobody \notin Tasks /\ X!Holders = Tasks \cup {Nobody}
    /\ \A n \in Int : n % 2 \in {0, 1} /\ X!Aligned(n) \in Int /\ X!Aligned(n) = n - (n % 2)
  <1>1. \A n \in Int : n % 2 \in {0, 1}
    OBVIOUS
  <1> QED BY <1>1, DriversAssumption, CallsAssumption DEF X!ContextAssumption, X!Aligned, X!Holders

\* A push stores the words, from the first to the last, and nothing else.
IsPushed(m, sp, words, g) ==
    /\ DOMAIN g = 1..StackWords
    /\ \A i \in 1..Len(words) : g[sp - i] = words[i]
    /\ \A a \in 1..StackWords : a >= sp \/ a < sp - Len(words) => g[a] = m[a]

LEMMA PushRead ==
    ASSUME NEW m, DOMAIN m = 1..StackWords, NEW words, NEW sp \in Int, Len(words) \in Nat,
           Len(words) < sp, sp <= StackWords + 1
    PROVE  IsPushed(m, sp, words, X!Push(m, sp, words))
  <1> DEFINE g == X!Push(m, sp, words)
             n == Len(words)
  <1>1. StackWords \in Nat /\ n \in Nat /\ n < sp
    BY CtxNumbers
  <1>2. g = [a \in 1..StackWords |-> IF a \in (sp - n)..(sp - 1) THEN words[sp - a] ELSE m[a]]
    BY DEF X!Push
  <1> HIDE DEF g, n
  <1>3. ASSUME NEW i \in 1..n PROVE g[sp - i] = words[i]
    <2>1. sp - i \in 1..StackWords /\ sp - i \in (sp - n)..(sp - 1) /\ sp - (sp - i) = i
      BY <1>1, <1>3
    <2>2. g[sp - i] = words[sp - (sp - i)]
      BY <1>2, <2>1
    <2> QED BY <2>1, <2>2
  <1>4. ASSUME NEW a \in 1..StackWords, a >= sp \/ a < sp - n PROVE g[a] = m[a]
    <2>1. a \notin (sp - n)..(sp - 1)
      BY <1>1, <1>4
    <2> QED BY <1>2, <2>1, <1>4
  <1>5. DOMAIN g = 1..StackWords
    BY <1>2
  <1> QED BY <1>3, <1>4, <1>5 DEF IsPushed, g, n

\* What is at or above the stack pointer is not forgotten.
IsForgotten(m, sp, g) ==
    DOMAIN g = 1..StackWords /\ \A a \in 1..StackWords : a >= sp => g[a] = m[a]

LEMMA ForgetRead ==
    ASSUME NEW m, DOMAIN m = 1..StackWords, NEW sp \in Int
    PROVE  IsForgotten(m, sp, X!Forget(m, sp))
  BY CtxNumbers DEF X!Forget, IsForgotten

\* Where the stack of a task that has a context ends.
LEMMA CtxBounds ==
    ASSUME CtxShape, NEW t \in Tasks, CtxStack(t)
    PROVE  /\ loc[t].sp \in Int /\ loc[t].sp >= 12 /\ loc[t].sp <= StackWords + 1
           /\ X!Aligned(loc[t].sp) \in Int /\ X!Aligned(loc[t].sp) <= loc[t].sp
           /\ loc[t].sp % 2 \in {0, 1} /\ X!Aligned(loc[t].sp) + (loc[t].sp % 2) = loc[t].sp
           /\ X!Aligned(loc[t].sp) >= 12
           /\ Len(loc[t].pushed) \in Nat
           /\ loc[t].sp + Len(loc[t].pushed) <= StackWords + 1
  <1> DEFINE b == dev.stack_base
             s == loc[t].sp
             k == Len(loc[t].pushed)
  <1>1. /\ b \in Int /\ b <= StackWords + 1 /\ b >= StackWords /\ s \in Int /\ k \in Nat
        /\ k <= MaxPushed /\ s + k = X!Aligned(b)
    <2>1. k \in Nat
      BY LenProperties DEF CtxStack
    <2>2. b \in Int /\ b <= StackWords + 1 /\ b >= StackWords
      BY CtxNumbers DEF CtxShape
    <2> QED BY <2>1, <2>2 DEF CtxStack
  <1> HIDE DEF b, s, k
  <1>2. X!Aligned(b) \in Int /\ X!Aligned(b) <= b /\ X!Aligned(b) >= StackWords - 1 /\ X!Aligned(b) % 2 = 0
    BY <1>1, CtxNumbers
  <1>3. s >= 12 /\ s <= StackWords + 1 /\ s + k <= StackWords + 1
    BY <1>1, <1>2, CtxNumbers
  <1>4. X!Aligned(s) = s - (s % 2) /\ s % 2 \in {0, 1}
    BY <1>1, CtxNumbers
  <1>5. X!Aligned(s) >= 12
    BY <1>1, <1>3, <1>4
  <1> QED BY <1>1, <1>3, <1>4, <1>5 DEF s, k

LEMMA CtxInit == X!Init => ContextInv
  <1> SUFFICES ASSUME X!Init PROVE ContextInv
    OBVIOUS
  <1>1. PICK a \in {"armv7a", "armv7m"}, b \in {StackWords, StackWords + 1} :
          dev = [arch |-> a, stack_base |-> b, task_switching |-> FALSE, curr |-> Nobody,
                 stack_top |-> [t \in Tasks |-> b], running |-> [t \in Tasks |-> FALSE],
                 stack |-> [t \in X!Holders |-> [i \in 1..StackWords |-> X!Zero]]]
    BY DEF X!Init
  <1>2. hw = [phase |-> "user", reg |-> X!Values(Nobody, 0), sp |-> dev.stack_base,
             spsr |-> X!Zero, exc |-> <<>>, registers |-> 0, svc |-> FALSE,
             fpca |-> dev.arch = "armv7m" /\ X!init_arch]
    BY DEF X!Init
  <1>3. pc = [t \in Tasks |-> "ready"] /\ DOMAIN loc = Tasks
        /\ \A t \in Tasks : loc[t] = [reg |-> X!Values(t, 0), sp |-> 0, pushed |-> <<>>]
    BY DEF X!Init
  <1>4. DOMAIN hw.reg = Regs /\ hw.reg["psr"] = <<"usr", Nobody, 0>>
    BY <1>2 DEF X!Values, Regs, X!Core, X!Fpu, X!Word
  <1>5. CtxShape
    BY <1>1, <1>2, <1>3, <1>4, CtxNumbers DEF CtxShape
  <1>6. CtxMode
    <2>1. hw.phase = "user" /\ dev.curr = Nobody /\ (dev.arch = "armv7m" => hw.fpca = TRUE)
      BY <1>1, <1>2 DEF X!init_arch
    <2> QED BY <1>1, <1>4, <2>1, CtxNumbers DEF CtxMode
  <1>7. ASSUME NEW t \in Tasks PROVE CtxTask(t)
    BY <1>1, <1>3, CtxNumbers DEF CtxTask
  <1> QED BY <1>5, <1>6, <1>7 DEF ContextInv

\* A task that an action leaves alone.
LEMMA CtxOther ==
    ASSUME NEW u \in Tasks, CtxTask(u), dev.curr # u, dev'.curr # u,
           dev'.arch = dev.arch, dev'.stack_base = dev.stack_base,
           dev'.stack[u] = dev.stack[u], dev'.stack_top[u] = dev.stack_top[u],
           dev'.running[u] = dev.running[u], pc'[u] = pc[u], loc'[u] = loc[u]
    PROVE  CtxTask(u)'
  BY DEF CtxTask, CtxStack, Stored, StoredA, StoredM, FrameM

\* A step of the task t that runs, or of its exception.
LEMMA CtxOne ==
    ASSUME ContextInv, NEW t \in Tasks, dev.curr = t, dev'.curr = t, pc' = pc,
           dev'.arch = dev.arch, dev'.stack_base = dev.stack_base,
           dev'.stack_top = dev.stack_top, dev'.running = dev.running,
           \A u \in Tasks \ {t} : dev'.stack[u] = dev.stack[u] /\ loc'[u] = loc[u],
           CtxShape', CtxMode', DOMAIN dev'.stack[t] = 1..StackWords,
           CtxStack(t)', CtxRuns(t)'
    PROVE  ContextInv'
  <1>1. ASSUME NEW u \in Tasks \ {t} PROVE CtxTask(u)'
    BY <1>1, CtxOther DEF ContextInv
  <1>2. CtxTask(t)'
    <2>1. pc[t] = "run" /\ dev.running[t]
      BY DEF ContextInv, CtxTask
    <2>2. DOMAIN loc'[t] = {"reg", "sp", "pushed"}
      BY DEF CtxStack
    <2> QED BY <2>1, <2>2 DEF CtxTask
  <1> QED BY <1>1, <1>2 DEF ContextInv
\* What the invariant says of a task that runs its own code.
LEMMA CtxUser ==
    ASSUME ContextInv, NEW t \in Tasks, X!Runs(t)
    PROVE  /\ dev.curr = t /\ t # Nobody /\ hw.phase = "user" /\ pc[t] = "run"
           /\ CtxShape /\ CtxMode /\ CtxTask(t) /\ CtxStack(t)
           /\ hw.sp = loc[t].sp /\ DOMAIN dev.stack[t] = 1..StackWords
           /\ DOMAIN loc[t] = {"reg", "sp", "pushed"} /\ DOMAIN loc[t].reg = Regs
           /\ \A x \in X!Core : hw.reg[x] = loc[t].reg[x]
           /\ dev.arch = "armv7m" => \A x \in Regs : hw.reg[x] = loc[t].reg[x]
           /\ hw.reg["psr"][1] = "usr"
  <1>1. dev.curr = t /\ t # Nobody /\ hw.phase = "user" /\ CtxTask(t) /\ CtxShape /\ CtxMode
    BY CtxNumbers DEF X!Runs, ContextInv
  <1>2. pc[t] = "run" /\ CtxStack(t) /\ CtxRuns(t)
    BY <1>1 DEF CtxTask
  <1>3. DOMAIN dev.stack[t] = 1..StackWords
    BY <1>1 DEF CtxTask
  <1>4. hw.sp = loc[t].sp /\ \A x \in X!Own : hw.reg[x] = loc[t].reg[x]
    BY <1>1, <1>2 DEF CtxRuns
  <1>5. /\ X!Core \subseteq X!Own /\ (dev.arch = "armv7m" => X!Own = Regs) /\ "psr" \in X!Core
    BY DEF X!Own, Regs, X!Core
  <1>6. loc[t].reg["psr"][1] = "usr" /\ DOMAIN loc[t] = {"reg", "sp", "pushed"} /\ DOMAIN loc[t].reg = Regs
    BY <1>2 DEF CtxStack
  <1>7. hw.reg["psr"][1] = "usr"
    BY <1>4, <1>5, <1>6
  <1> QED BY <1>1, <1>2, <1>3, <1>4, <1>5, <1>6, <1>7

LEMMA CtxCompute ==
    ASSUME ContextInv, NEW t \in Tasks, X!Compute(t)
    PROVE  ContextInv'
  <1> DEFINE r == X!Values(t, X!NextPc(hw.reg["pc"])[3])
  <1>0. X!Runs(t) /\ hw' = [hw EXCEPT !.reg = r] /\ UNCHANGED <<dev, lock, pc>>
        /\ loc' = [loc EXCEPT ![t] = [reg |-> r, sp |-> hw.sp, pushed |-> loc[t].pushed]]
    BY DEF X!Compute, X!Follow
  <1>1. DOMAIN r = Regs /\ r["psr"][1] = "usr"
    BY DEF X!Values, Regs, X!Core, X!Fpu, X!Word
  <1> HIDE DEF r
  <1>2. /\ dev.curr = t /\ hw.phase = "user" /\ CtxShape /\ CtxMode /\ CtxStack(t)
        /\ hw.sp = loc[t].sp /\ DOMAIN dev.stack[t] = 1..StackWords
    BY <1>0, CtxUser
  <1>3. /\ DOMAIN hw' = DOMAIN hw /\ hw'.reg = r /\ hw'.sp = hw.sp /\ hw'.phase = "user"
        /\ hw'.svc = hw.svc /\ hw'.fpca = hw.fpca /\ hw'.exc = hw.exc
    BY <1>0, <1>2 DEF CtxShape
  <1>4. /\ DOMAIN loc' = Tasks /\ \A u \in Tasks \ {t} : loc'[u] = loc[u]
        /\ loc'[t] = [reg |-> r, sp |-> loc[t].sp, pushed |-> loc[t].pushed]
    BY <1>0, <1>2 DEF CtxShape
  <1>5. CtxShape'
    BY <1>0, <1>1, <1>2, <1>3, <1>4 DEF CtxShape
  <1>6. CtxMode'
    BY <1>0, <1>1, <1>2, <1>3 DEF CtxMode
  <1>7. CtxStack(t)'
    BY <1>0, <1>1, <1>2, <1>4 DEF CtxStack
  <1>8. CtxRuns(t)'
    BY <1>0, <1>2, <1>3, <1>4 DEF CtxRuns
  <1> QED BY <1>0, <1>2, <1>4, <1>5, <1>6, <1>7, <1>8, CtxOne

LEMMA CtxPushWord ==
    ASSUME ContextInv, NEW t \in Tasks, X!PushWord(t)
    PROVE  ContextInv'
  <1> DEFINE w == X!Word("pushed", t, Len(loc[t].pushed))
             ps == loc[t].pushed
             qs == <<w>> \o ps
  <1>0. /\ X!Runs(t) /\ Len(ps) < MaxPushed
        /\ dev' = [dev EXCEPT !.stack[t][hw.sp - 1] = w]
        /\ hw' = [hw EXCEPT !.sp = @ - 1]
        /\ loc' = [loc EXCEPT ![t] = [reg |-> hw.reg, sp |-> hw.sp - 1, pushed |-> qs]]
        /\ UNCHANGED <<lock, pc>>
    BY DEF X!PushWord, X!Follow
  <1>1. /\ dev.curr = t /\ hw.phase = "user" /\ CtxShape /\ CtxMode /\ CtxStack(t)
        /\ hw.sp = loc[t].sp /\ DOMAIN dev.stack[t] = 1..StackWords /\ hw.reg["psr"][1] = "usr"
    BY <1>0, CtxUser
  <1>2. /\ Len(ps) \in Nat /\ ps \in Seq(Pushed) /\ hw.sp \in Int /\ hw.sp >= 12
        /\ hw.sp + Len(ps) <= StackWords + 1 /\ hw.sp + Len(ps) = X!Aligned(dev.stack_base)
        /\ StackWords \in Nat /\ MaxPushed \in Nat
    <2>1. ps \in Seq(Pushed) /\ loc[t].sp + Len(ps) = X!Aligned(dev.stack_base)
      BY <1>1 DEF CtxStack
    <2> QED BY <1>1, <2>1, CtxBounds, CtxNumbers
  <1>3. w \in Pushed
    BY <1>2 DEF X!Word, Pushed
  <1> HIDE DEF w
  <1>4. /\ qs \in Seq(Pushed) /\ Len(qs) = Len(ps) + 1 /\ qs[1] = w
        /\ \A i \in 2..Len(qs) : qs[i] = ps[i - 1]
    BY <1>2, <1>3
  <1> HIDE DEF qs
  <1>5. /\ DOMAIN dev' = DOMAIN dev /\ dev'.arch = dev.arch /\ dev'.stack_base = dev.stack_base
        /\ dev'.stack_top = dev.stack_top /\ dev'.running = dev.running /\ dev'.curr = t
        /\ dev'.task_switching = dev.task_switching /\ DOMAIN dev'.stack = X!Holders
        /\ \A u \in Tasks \ {t} : dev'.stack[u] = dev.stack[u]
        /\ DOMAIN dev'.stack[t] = 1..StackWords /\ dev'.stack[t][hw.sp - 1] = w
        /\ \A a \in 1..StackWords : a # hw.sp - 1 => dev'.stack[t][a] = dev.stack[t][a]
    BY <1>0, <1>1, <1>2, CtxNumbers DEF CtxShape
  <1>6. /\ DOMAIN hw' = DOMAIN hw /\ hw'.reg = hw.reg /\ hw'.sp = hw.sp - 1 /\ hw'.phase = "user"
        /\ hw'.svc = hw.svc /\ hw'.fpca = hw.fpca /\ hw'.exc = hw.exc
    BY <1>0, <1>1 DEF CtxShape
  <1>7. /\ DOMAIN loc' = Tasks /\ \A u \in Tasks \ {t} : loc'[u] = loc[u]
        /\ loc'[t] = [reg |-> hw.reg, sp |-> hw.sp - 1, pushed |-> qs]
    BY <1>0, <1>1 DEF CtxShape
  <1>8. CtxShape'
    BY <1>0, <1>1, <1>5, <1>6, <1>7 DEF CtxShape
  <1>9. CtxMode'
    BY <1>1, <1>5, <1>6 DEF CtxMode
  <1>10. CtxStack(t)'
    <2>0. /\ Len(qs) = Len(ps) + 1 /\ Len(ps) \in Nat /\ hw.sp \in Int /\ Len(ps) < MaxPushed
          /\ MaxPushed \in Nat /\ hw.sp + Len(ps) = X!Aligned(dev.stack_base)
      BY <1>0, <1>2, <1>4
    <2>1. ASSUME NEW i \in 1..Len(qs) PROVE dev'.stack[t][hw.sp - 1 + i - 1] = qs[i]
      <3>1. CASE i = 1
        BY <1>2, <1>4, <1>5, <3>1
      <3>2. CASE i # 1
        <4>1. i - 1 \in 1..Len(ps) /\ hw.sp - 1 + i - 1 = hw.sp + (i - 1) - 1 /\ i \in 2..Len(qs)
          BY <2>0, <3>2
        <4>2. dev.stack[t][hw.sp + (i - 1) - 1] = ps[i - 1]
          BY <1>1, <4>1 DEF CtxStack
        <4>3. hw.sp + (i - 1) - 1 \in 1..StackWords /\ hw.sp + (i - 1) - 1 # hw.sp - 1
          <5> DEFINE s == hw.sp
                     k == Len(ps)
          <5>1. /\ s \in Int /\ s >= 12 /\ s + k <= StackWords + 1 /\ k \in Nat
                /\ StackWords \in Nat /\ i - 1 \in 1..k
            BY <1>2, <4>1
          <5> HIDE DEF s, k
          <5>2. s + (i - 1) - 1 \in 1..StackWords /\ s + (i - 1) - 1 # s - 1
            BY <5>1
          <5> QED BY <5>2 DEF s
        <4> QED BY <1>4, <1>5, <4>1, <4>2, <4>3
      <3> QED BY <3>1, <3>2
    <2>2. DOMAIN hw.reg = Regs
      BY <1>1 DEF CtxShape
    <2>3. /\ hw.sp - 1 \in Int /\ hw.sp - 1 + Len(qs) = X!Aligned(dev.stack_base)
          /\ Len(qs) <= MaxPushed
      <3> DEFINE s == hw.sp
                 k == Len(ps)
                 b == X!Aligned(dev.stack_base)
                 n == Len(qs)
      <3>1. s \in Int /\ k \in Nat /\ n = k + 1 /\ s + k = b /\ k < MaxPushed /\ MaxPushed \in Nat
        BY <2>0
      <3> HIDE DEF s, k, b, n
      <3>2. s - 1 \in Int /\ s - 1 + n = b /\ n <= MaxPushed
        BY <3>1
      <3> QED BY <3>2 DEF s, b, n
    <2> QED BY <1>1, <1>4, <1>5, <1>7, <2>1, <2>2, <2>3 DEF CtxStack
  <1>11. CtxRuns(t)'
    BY <1>1, <1>5, <1>6, <1>7 DEF CtxRuns
  <1> QED BY <1>0, <1>1, <1>5, <1>7, <1>8, <1>9, <1>10, <1>11, CtxOne

LEMMA CtxPopWord ==
    ASSUME ContextInv, NEW t \in Tasks, X!PopWord(t)
    PROVE  ContextInv'
  <1> DEFINE ps == loc[t].pushed
             qs == Tail(ps)
  <1>0. /\ X!Runs(t) /\ ps # <<>>
        /\ hw' = [hw EXCEPT !.sp = @ + 1]
        /\ loc' = [loc EXCEPT ![t] = [reg |-> hw.reg, sp |-> hw.sp + 1, pushed |-> qs]]
        /\ UNCHANGED <<dev, lock, pc>>
    BY DEF X!PopWord, X!Follow
  <1>1. /\ dev.curr = t /\ hw.phase = "user" /\ CtxShape /\ CtxMode /\ CtxStack(t)
        /\ hw.sp = loc[t].sp /\ DOMAIN dev.stack[t] = 1..StackWords /\ hw.reg["psr"][1] = "usr"
    BY <1>0, CtxUser
  <1>2. /\ Len(ps) \in Nat /\ ps \in Seq(Pushed) /\ hw.sp \in Int /\ MaxPushed \in Nat
        /\ hw.sp + Len(ps) = X!Aligned(dev.stack_base) /\ Len(ps) <= MaxPushed
    <2>1. /\ ps \in Seq(Pushed) /\ loc[t].sp + Len(ps) = X!Aligned(dev.stack_base)
          /\ Len(ps) <= MaxPushed
      BY <1>1 DEF CtxStack
    <2> QED BY <1>1, <2>1, CtxBounds, CtxNumbers
  <1>3. /\ qs \in Seq(Pushed) /\ Len(qs) = Len(ps) - 1
        /\ \A i \in 1..Len(qs) : qs[i] = ps[i + 1]
    BY <1>0, <1>2, HeadTailProperties
  <1> HIDE DEF qs
  <1>4. /\ DOMAIN hw' = DOMAIN hw /\ hw'.reg = hw.reg /\ hw'.sp = hw.sp + 1 /\ hw'.phase = "user"
        /\ hw'.svc = hw.svc /\ hw'.fpca = hw.fpca /\ hw'.exc = hw.exc
    BY <1>0, <1>1 DEF CtxShape
  <1>5. /\ DOMAIN loc' = Tasks /\ \A u \in Tasks \ {t} : loc'[u] = loc[u]
        /\ loc'[t] = [reg |-> hw.reg, sp |-> hw.sp + 1, pushed |-> qs]
    BY <1>0, <1>1 DEF CtxShape
  <1>6. CtxShape'
    BY <1>0, <1>1, <1>4, <1>5 DEF CtxShape
  <1>7. CtxMode'
    BY <1>0, <1>1, <1>4 DEF CtxMode
  <1>8. CtxStack(t)'
    <2>0. /\ Len(qs) = Len(ps) - 1 /\ Len(ps) \in Nat /\ hw.sp \in Int /\ Len(ps) <= MaxPushed
          /\ MaxPushed \in Nat /\ hw.sp + Len(ps) = X!Aligned(dev.stack_base)
      BY <1>2, <1>3
    <2>1. ASSUME NEW i \in 1..Len(qs) PROVE dev.stack[t][hw.sp + 1 + i - 1] = qs[i]
      <3>1. i + 1 \in 1..Len(ps) /\ hw.sp + 1 + i - 1 = hw.sp + (i + 1) - 1
        BY <1>2, <1>3
      <3>2. dev.stack[t][hw.sp + (i + 1) - 1] = ps[i + 1]
        BY <1>1, <3>1 DEF CtxStack
      <3> QED BY <1>3, <3>1, <3>2
    <2>2. DOMAIN hw.reg = Regs
      BY <1>1 DEF CtxShape
    <2>3. /\ hw.sp + 1 \in Int /\ hw.sp + 1 + Len(qs) = X!Aligned(dev.stack_base)
          /\ Len(qs) <= MaxPushed
      <3> DEFINE s == hw.sp
                 k == Len(ps)
                 b == X!Aligned(dev.stack_base)
                 n == Len(qs)
      <3>1. s \in Int /\ k \in Nat /\ n = k - 1 /\ s + k = b /\ k <= MaxPushed /\ MaxPushed \in Nat
        BY <2>0
      <3> HIDE DEF s, k, b, n
      <3>2. s + 1 \in Int /\ s + 1 + n = b /\ n <= MaxPushed
        BY <3>1
      <3> QED BY <3>2 DEF s, b, n
    <2> QED BY <1>0, <1>1, <1>3, <1>5, <2>1, <2>2, <2>3 DEF CtxStack
  <1>9. CtxRuns(t)'
    BY <1>0, <1>1, <1>4, <1>5 DEF CtxRuns
  <1> QED BY <1>0, <1>1, <1>5, <1>6, <1>7, <1>8, <1>9, CtxOne

\* The frame that the processor stores for a task that goes on as l says.
FrameOf(l, r0) ==
    <<l.reg["fp"], l.reg["fp"], <<l.reg["psr"], l.sp % 2>>, l.reg["pc"], l.reg["lr"],
      l.reg["lo"], l.reg["lo"], r0>>

LEMMA Concat26 ==
    ASSUME NEW a, NEW b, NEW c, NEW d, NEW e, NEW f, NEW g, NEW h
    PROVE  <<a, b>> \o <<c, d, e, f, g, h>> = <<a, b, c, d, e, f, g, h>>
  <1> DEFINE words == {a, b, c, d, e, f, g, h}
             s == <<a, b>>
             r == <<c, d, e, f, g, h>>
             w == <<a, b, c, d, e, f, g, h>>
             x == s \o r
  <1>1. s \in Seq(words) /\ r \in Seq(words) /\ w \in Seq(words) /\ Len(s) = 2 /\ Len(r) = 6 /\ Len(w) = 8
    OBVIOUS
  <1>2. s[1] = a /\ s[2] = b /\ r[1] = c /\ r[2] = d /\ r[3] = e /\ r[4] = f /\ r[5] = g /\ r[6] = h
    OBVIOUS
  <1>3. w[1] = a /\ w[2] = b /\ w[3] = c /\ w[4] = d /\ w[5] = e /\ w[6] = f /\ w[7] = g /\ w[8] = h
    OBVIOUS
  <1> HIDE DEF words, s, r, w
  <1>4. /\ x \in Seq(words) /\ Len(x) = Len(s) + Len(r)
        /\ \A i \in 1 .. Len(s) + Len(r) : x[i] = IF i <= Len(s) THEN s[i] ELSE r[i - Len(s)]
    BY <1>1, ConcatProperties, Zenon
  <1> HIDE DEF x
  <1>5. Len(x) = 8
    BY <1>1, <1>4
  <1>6. \A i \in 1..8 : x[i] = IF i <= 2 THEN s[i] ELSE r[i - 2]
    BY <1>1, <1>4
  <1>7. \A i \in 1..8 : x[i] = w[i]
    BY <1>2, <1>3, <1>6
  <1>8. x = w
    BY <1>1, <1>4, <1>5, <1>7, SeqEqual
  <1> QED BY <1>8 DEF x, s, r, w

LEMMA ExtendedFrame ==
    ASSUME hw.fpca = TRUE, NEW ret
    PROVE  X!HardwareFrame(ret) =
              <<hw.reg["fp"], hw.reg["fp"], <<hw.reg["psr"], hw.sp % 2>>, ret, hw.reg["lr"],
                hw.reg["lo"], hw.reg["lo"], hw.reg["r0"]>>
  <1>1. X!HardwareFrame(ret) =
           <<hw.reg["fp"], hw.reg["fp"]>>
              \o <<<<hw.reg["psr"], hw.sp % 2>>, ret, hw.reg["lr"], hw.reg["lo"], hw.reg["lo"],
                    hw.reg["r0"]>>
    BY DEF X!HardwareFrame
  <1> QED BY <1>1, Concat26

\* The words of the frame are where the processor looks for them.
FrameKept(m, l, r0, g) ==
    /\ DOMAIN g = 1..StackWords
    /\ FrameM(g, X!Aligned(l.sp) - 8, l) /\ g[X!Aligned(l.sp) - 8] = r0
    /\ \A a \in 1..StackWords : a >= l.sp => g[a] = m[a]

LEMMA FrameStored ==
    ASSUME NEW m, DOMAIN m = 1..StackWords, NEW l, l.sp \in Int, l.sp >= 12,
           l.sp <= StackWords + 1, NEW r0
    PROVE  FrameKept(m, l, r0, X!Push(m, X!Aligned(l.sp), FrameOf(l, r0)))
  <1> DEFINE al == X!Aligned(l.sp)
             f == FrameOf(l, r0)
             g == X!Push(m, al, f)
  <1>1. /\ al \in Int /\ al >= 9 /\ al <= l.sp /\ al <= StackWords + 1 /\ StackWords \in Nat
    <2>1. al = l.sp - (l.sp % 2) /\ l.sp % 2 \in {0, 1} /\ StackWords \in Nat
      BY CtxNumbers
    <2> QED BY <2>1
  <1>2. /\ Len(f) = 8 /\ f[8] = r0 /\ f[7] = l.reg["lo"] /\ f[5] = l.reg["lr"] /\ f[4] = l.reg["pc"]
        /\ f[3] = <<l.reg["psr"], l.sp % 2>> /\ f[2] = l.reg["fp"]
    BY DEF FrameOf
  <1> HIDE DEF al, f
  <1>3. IsPushed(m, al, f, g)
    <2>1. Len(f) \in Nat /\ Len(f) < al
      BY <1>1, <1>2
    <2> QED BY <1>1, <2>1, PushRead
  <1> HIDE DEF g
  <1>4. /\ DOMAIN g = 1..StackWords
        /\ \A i \in 1..8 : g[al - i] = f[i]
        /\ \A a \in 1..StackWords : a >= al => g[a] = m[a]
    BY <1>2, <1>3 DEF IsPushed
  <1>5. /\ g[al - 8] = f[8] /\ g[al - 7] = f[7] /\ g[al - 5] = f[5] /\ g[al - 4] = f[4]
        /\ g[al - 3] = f[3] /\ g[al - 2] = f[2]
    BY <1>4
  <1>6. /\ al - 7 = al - 8 + 1 /\ al - 5 = al - 8 + 3 /\ al - 4 = al - 8 + 4
        /\ al - 3 = al - 8 + 5 /\ al - 2 = al - 8 + 6
    BY <1>1
  <1>7. FrameM(g, al - 8, l) /\ g[al - 8] = r0
    BY <1>2, <1>5, <1>6 DEF FrameM, al
  <1>8. \A a \in 1..StackWords : a >= l.sp => g[a] = m[a]
    <2>1. ASSUME NEW a \in 1..StackWords, a >= l.sp PROVE a >= al
      BY <1>1, <2>1
    <2> QED BY <1>4, <2>1
  <1> QED BY <1>4, <1>7, <1>8 DEF FrameKept, g, f, al

\* The beginning of an exception that comes to t.
LEMMA CtxEnters ==
    ASSUME ContextInv, NEW t \in Tasks, X!Runs(t), NEW kind, X!Entry(kind), pc' = pc,
           DOMAIN loc' = Tasks, \A u \in Tasks \ {t} : loc'[u] = loc[u],
           DOMAIN loc'[t] = {"reg", "sp", "pushed"}, DOMAIN loc'[t].reg = Regs,
           loc'[t].sp = loc[t].sp, loc'[t].pushed = loc[t].pushed,
           loc'[t].reg["pc"] = X!PushPc(kind),
           loc'[t].reg["r0"] = IF kind = "svc" THEN X!Word("ret", t, 0) ELSE loc[t].reg["r0"],
           \A x \in Regs \ {"pc", "r0"} : loc'[t].reg[x] = loc[t].reg[x]
    PROVE  ContextInv'
  <1>1. /\ dev.curr = t /\ t # Nobody /\ hw.phase = "user" /\ CtxShape /\ CtxMode /\ CtxStack(t)
        /\ hw.sp = loc[t].sp /\ DOMAIN dev.stack[t] = 1..StackWords
        /\ \A x \in X!Core : hw.reg[x] = loc[t].reg[x]
        /\ dev.arch = "armv7m" => \A x \in Regs : hw.reg[x] = loc[t].reg[x]
        /\ hw.reg["psr"][1] = "usr"
    BY CtxUser
  <1>2. /\ loc[t].sp \in Int /\ loc[t].sp >= 12 /\ loc[t].sp <= StackWords + 1
        /\ Len(loc[t].pushed) \in Nat /\ loc[t].sp + Len(loc[t].pushed) <= StackWords + 1
        /\ StackWords \in Nat
    BY <1>1, CtxBounds, CtxNumbers
  <1>3. /\ loc'[t].reg["psr"] = loc[t].reg["psr"] /\ loc'[t].reg["lo"] = loc[t].reg["lo"]
        /\ loc'[t].reg["hi"] = loc[t].reg["hi"] /\ loc'[t].reg["lr"] = loc[t].reg["lr"]
        /\ loc'[t].reg["fp"] = loc[t].reg["fp"] /\ loc'[t].reg["fq"] = loc[t].reg["fq"]
    BY DEF Regs, X!Core, X!Fpu
  <1>4. /\ hw.reg["psr"] = loc[t].reg["psr"] /\ hw.reg["lo"] = loc[t].reg["lo"]
        /\ hw.reg["hi"] = loc[t].reg["hi"] /\ hw.reg["lr"] = loc[t].reg["lr"]
        /\ hw.reg["r0"] = loc[t].reg["r0"]
    BY <1>1 DEF X!Core
  <1>5. /\ DOMAIN dev' = DOMAIN dev /\ dev'.arch = dev.arch /\ dev'.stack_base = dev.stack_base
        /\ dev'.stack_top = dev.stack_top /\ dev'.running = dev.running /\ dev'.curr = t
        /\ dev'.task_switching = dev.task_switching /\ DOMAIN dev'.stack = X!Holders
        /\ \A u \in Tasks \ {t} : dev'.stack[u] = dev.stack[u]
        /\ DOMAIN hw' = DOMAIN hw /\ hw'.phase = "entry" /\ hw'.svc = (kind = "svc")
        /\ hw'.reg = hw.reg
    <2>1. CASE X!EntryA(kind)
      BY <1>1, <2>1 DEF X!EntryA, CtxShape
    <2>2. CASE X!EntryM(kind)
      BY <1>1, <2>2, CtxNumbers DEF X!EntryM, CtxShape
    <2> QED BY <2>1, <2>2 DEF X!Entry
  <1>6. CtxShape'
    BY <1>1, <1>5 DEF CtxShape
  <1>7. (\A v : R0Kept(t, v)' <=> IF kind = "svc" THEN TRUE ELSE v = loc[t].reg["r0"])
    BY <1>5 DEF R0Kept
  <1>8. CASE dev.arch = "armv7a"
    <2>1. /\ UNCHANGED dev /\ hw'.sp = hw.sp /\ hw'.spsr = hw.reg["psr"]
          /\ hw'.exc = <<X!PushPc(kind)>>
      BY <1>1, <1>8 DEF X!Entry, X!EntryA, X!EntryM, CtxShape
    <2>2. CtxMode'
      BY <1>1, <1>5, <1>8, <2>1 DEF CtxMode
    <2>3. CtxStack(t)'
      BY <1>1, <1>3, <2>1 DEF CtxStack
    <2>4. CtxEntry(t)'
      BY <1>1, <1>3, <1>4, <1>5, <1>7, <1>8, <2>1 DEF CtxEntry
    <2>5. CtxRuns(t)'
      BY <1>5, <2>4 DEF CtxRuns
    <2> QED BY <1>1, <1>5, <1>6, <2>1, <2>2, <2>3, <2>5, CtxOne
  <1>9. CASE dev.arch = "armv7m"
    <2> DEFINE f == X!HardwareFrame(X!PushPc(kind))
               l == loc'[t]
               g == X!Push(dev.stack[t], X!Aligned(l.sp), FrameOf(l, loc[t].reg["r0"]))
    <2>0. hw.fpca = TRUE /\ hw.reg["fp"] = loc[t].reg["fp"] /\ hw.reg["fq"] = loc[t].reg["fq"]
      BY <1>1, <1>9 DEF CtxMode, Regs, X!Core, X!Fpu
    <2>1. f = FrameOf(l, loc[t].reg["r0"])
      <3>1. f = <<hw.reg["fp"], hw.reg["fp"], <<hw.reg["psr"], hw.sp % 2>>, X!PushPc(kind),
                  hw.reg["lr"], hw.reg["lo"], hw.reg["lo"], hw.reg["r0"]>>
        BY <2>0, ExtendedFrame
      <3> QED BY <1>1, <1>3, <1>4, <2>0, <3>1 DEF FrameOf
    <2>2. Len(f) = 8
      BY <2>1 DEF FrameOf
    <2>3. /\ dev' = [dev EXCEPT !.stack[dev.curr] = X!Push(@, X!Aligned(hw.sp), f)]
          /\ hw' = [hw EXCEPT !.phase = "entry", !.svc = (kind = "svc"), !.fpca = FALSE,
                              !.sp = X!Aligned(hw.sp) - Len(f), !.exc = <<hw.fpca>>]
      BY <1>1, <1>9 DEF X!Entry, X!EntryA, X!EntryM
    <2> HIDE DEF f
    <2>4. dev'.stack[t] = g /\ hw'.sp = X!Aligned(l.sp) - 8 /\ hw'.exc = <<TRUE>>
      <3>1. dev'.stack[t] = X!Push(dev.stack[t], X!Aligned(hw.sp), f)
        BY <1>1, <2>3, CtxNumbers DEF CtxShape
      <3>2. hw'.sp = X!Aligned(hw.sp) - Len(f) /\ hw'.exc = <<hw.fpca>>
        BY <1>1, <2>3 DEF CtxShape
      <3>3. hw.sp = l.sp
        BY <1>1
      <3>4. hw'.sp = X!Aligned(l.sp) - 8 /\ hw'.exc = <<TRUE>>
        BY <2>0, <2>2, <3>2, <3>3
      <3>5. dev'.stack[t] = g
        BY <2>1, <3>1, <3>3
      <3> QED BY <3>4, <3>5
    <2> HIDE DEF l
    <2>5. FrameKept(dev.stack[t], l, loc[t].reg["r0"], g)
      <3>1. l.sp \in Int /\ l.sp >= 12 /\ l.sp <= StackWords + 1
        BY <1>2 DEF l
      <3> QED BY <1>1, <3>1, FrameStored
    <2> HIDE DEF g
    <2>6. /\ DOMAIN dev'.stack[t] = 1..StackWords /\ FrameM(dev'.stack[t], hw'.sp, l)
          /\ dev'.stack[t][hw'.sp] = loc[t].reg["r0"]
          /\ \A a \in 1..StackWords : a >= l.sp => dev'.stack[t][a] = dev.stack[t][a]
      BY <2>4, <2>5 DEF FrameKept
    <2>10. CtxMode'
      BY <1>1, <1>5, <1>9, <2>4 DEF CtxMode
    <2>7. CtxStack(t)'
      <3>1. ASSUME NEW i \in 1..Len(loc[t].pushed)
            PROVE  dev'.stack[t][loc[t].sp + i - 1] = loc[t].pushed[i]
        <4>1. loc[t].sp + i - 1 \in 1..StackWords /\ loc[t].sp + i - 1 >= loc[t].sp
          BY <1>2
        <4>2. dev.stack[t][loc[t].sp + i - 1] = loc[t].pushed[i]
          BY <1>1 DEF CtxStack
        <4> QED BY <2>6, <4>1, <4>2 DEF l
      <3> QED BY <1>1, <1>3, <1>5, <3>1 DEF CtxStack
    <2>8. CtxEntry(t)'
      BY <1>3, <1>4, <1>5, <1>7, <1>9, <2>0, <2>6 DEF CtxEntry, l
    <2>9. CtxRuns(t)'
      BY <1>5, <2>8 DEF CtxRuns
    <2> QED BY <1>1, <1>5, <1>6, <2>6, <2>10, <2>7, <2>9, CtxOne
  <1> QED BY <1>1, <1>8, <1>9 DEF CtxShape

LEMMA CtxSVC ==
    ASSUME ContextInv, NEW t \in Tasks, X!SVC(t)
    PROVE  ContextInv'
  <1> DEFINE r == [loc[t].reg EXCEPT !["r0"] = X!Word("ret", t, 0), !["pc"] = X!NextPc(@)]
  <1>0. X!Runs(t) /\ X!Entry("svc") /\ pc' = pc /\ loc' = [loc EXCEPT ![t].reg = r]
    BY DEF X!SVC
  <1>1. /\ CtxShape /\ DOMAIN loc[t] = {"reg", "sp", "pushed"} /\ DOMAIN loc[t].reg = Regs
        /\ hw.reg["pc"] = loc[t].reg["pc"]
    BY <1>0, CtxUser DEF X!Core
  <1>3. /\ DOMAIN r = Regs /\ r["r0"] = X!Word("ret", t, 0)
        /\ r["pc"] = X!NextPc(loc[t].reg["pc"])
        /\ \A x \in Regs \ {"pc", "r0"} : r[x] = loc[t].reg[x]
    BY <1>1 DEF Regs, X!Core, X!Fpu
  <1> HIDE DEF r
  <1>4. /\ DOMAIN loc' = Tasks /\ \A u \in Tasks \ {t} : loc'[u] = loc[u]
        /\ DOMAIN loc'[t] = {"reg", "sp", "pushed"}
        /\ loc'[t].sp = loc[t].sp /\ loc'[t].pushed = loc[t].pushed /\ loc'[t].reg = r
    BY <1>0, <1>1 DEF CtxShape
  <1>5. r["pc"] = X!PushPc("svc")
    BY <1>1, <1>3 DEF X!PushPc
  <1>6. /\ DOMAIN loc'[t].reg = Regs /\ loc'[t].reg["pc"] = X!PushPc("svc")
        /\ loc'[t].reg["r0"] = IF "svc" = "svc" THEN X!Word("ret", t, 0) ELSE loc[t].reg["r0"]
        /\ \A x \in Regs \ {"pc", "r0"} : loc'[t].reg[x] = loc[t].reg[x]
    BY <1>3, <1>4, <1>5
  <1> QED BY <1>0, <1>4, <1>6, CtxEnters

LEMMA CtxInterrupt ==
    ASSUME ContextInv, NEW t \in Tasks, X!Interrupt(t)
    PROVE  ContextInv'
  <1>0. X!Runs(t) /\ X!Entry("irq") /\ pc' = pc /\ loc' = loc
    BY DEF X!Interrupt
  <1>1. /\ CtxShape /\ DOMAIN loc[t] = {"reg", "sp", "pushed"} /\ DOMAIN loc[t].reg = Regs
        /\ hw.reg["pc"] = loc[t].reg["pc"]
    BY <1>0, CtxUser DEF X!Core
  <1>2. loc[t].reg["pc"] = X!PushPc("irq")
    BY <1>1 DEF X!PushPc
  <1>3. DOMAIN loc = Tasks
    BY <1>1 DEF CtxShape
  <1> QED BY <1>0, <1>1, <1>2, <1>3, CtxEnters

\* A step of the code before the first task.
LEMMA CtxNone ==
    ASSUME ContextInv, dev.curr = Nobody, dev'.curr = Nobody, pc' = pc, loc' = loc,
           dev'.arch = dev.arch, dev'.stack_base = dev.stack_base,
           dev'.stack_top = dev.stack_top, dev'.running = dev.running,
           \A u \in Tasks : dev'.stack[u] = dev.stack[u],
           CtxShape', CtxMode'
    PROVE  ContextInv'
  BY CtxOther, CtxNumbers DEF ContextInv

LEMMA CtxStart ==
    ASSUME ContextInv, X!start_sched
    PROVE  ContextInv'
  <1>0. /\ dev.curr = Nobody /\ hw.phase = "user" /\ X!Entry("svc") /\ pc' = pc /\ loc' = loc
        /\ CtxShape /\ CtxMode
    BY DEF X!start_sched, X!Runs, ContextInv
  <1>1. /\ DOMAIN dev' = DOMAIN dev /\ dev'.arch = dev.arch /\ dev'.stack_base = dev.stack_base
        /\ dev'.stack_top = dev.stack_top /\ dev'.running = dev.running /\ dev'.curr = Nobody
        /\ dev'.task_switching = dev.task_switching /\ DOMAIN dev'.stack = X!Holders
        /\ \A u \in Tasks : dev'.stack[u] = dev.stack[u]
        /\ DOMAIN hw' = DOMAIN hw /\ hw'.phase = "entry" /\ hw'.svc \in BOOLEAN
        /\ hw'.reg = hw.reg
    <2>1. CASE X!EntryA("svc")
      BY <1>0, <2>1 DEF X!EntryA, CtxShape
    <2>2. CASE X!EntryM("svc")
      BY <1>0, <2>2, CtxNumbers DEF X!EntryM, CtxShape
    <2> QED BY <1>0, <2>1, <2>2 DEF X!Entry
  <1>2. CtxShape'
    <2>1. pc' = pc /\ loc' = loc /\ CtxShape
      BY <1>0
    <2> QED BY <1>1, <2>1 DEF CtxShape
  <1>3. CtxMode'
    <2>1. CASE X!EntryA("svc")
      <3>1. dev.arch = "armv7a" /\ hw'.spsr = hw.reg["psr"] /\ hw'.exc = <<X!PushPc("svc")>>
        BY <1>0, <2>1 DEF X!EntryA, CtxShape
      <3> QED BY <1>0, <1>1, <3>1, CtxNumbers DEF CtxMode
    <2>2. CASE X!EntryM("svc")
      <3>1. dev.arch = "armv7m" /\ hw'.exc = <<hw.fpca>>
        BY <1>0, <2>2 DEF X!EntryM, CtxShape
      <3> QED BY <1>0, <1>1, <3>1, CtxNumbers DEF CtxMode
    <2> QED BY <1>0, <2>1, <2>2 DEF X!Entry
  <1> QED BY <1>0, <1>1, <1>2, <1>3, CtxNone

\* What save_context of ARMv7-A stores for a task that goes on as l says.
UserOf(l, r0) ==
    <<l.reg["pc"], l.reg["hi"], l.reg["lo"], r0, l.reg["psr"], l.reg["lr"]>>

UserKept(m, l, r0, g) ==
    /\ DOMAIN g = 1..StackWords
    /\ StoredA(g, l.sp - 6, l) /\ g[l.sp - 6 + 2] = r0
    /\ \A a \in 1..StackWords : a >= l.sp => g[a] = m[a]

LEMMA UserStored ==
    ASSUME NEW m, DOMAIN m = 1..StackWords, NEW l, l.sp \in Int, l.sp >= 12,
           l.sp <= StackWords + 1, NEW r0
    PROVE  UserKept(m, l, r0, X!Push(m, l.sp, UserOf(l, r0)))
  <1> DEFINE f == UserOf(l, r0)
             sp == l.sp
             g == X!Push(m, sp, f)
  <1>1. sp \in Int /\ sp >= 12 /\ sp <= StackWords + 1 /\ StackWords \in Nat
    BY CtxNumbers
  <1>2. /\ Len(f) = 6 /\ f[1] = l.reg["pc"] /\ f[2] = l.reg["hi"] /\ f[3] = l.reg["lo"] /\ f[4] = r0
        /\ f[5] = l.reg["psr"] /\ f[6] = l.reg["lr"]
    BY DEF UserOf
  <1> HIDE DEF sp, f
  <1>3. IsPushed(m, sp, f, g)
    <2>1. Len(f) \in Nat /\ Len(f) < sp
      BY <1>1, <1>2
    <2> QED BY <1>1, <2>1, PushRead
  <1> HIDE DEF g
  <1>4. /\ DOMAIN g = 1..StackWords
        /\ \A i \in 1..6 : g[sp - i] = f[i]
        /\ \A a \in 1..StackWords : a >= sp => g[a] = m[a]
    BY <1>2, <1>3 DEF IsPushed
  <1>5. /\ g[sp - 1] = f[1] /\ g[sp - 2] = f[2] /\ g[sp - 3] = f[3] /\ g[sp - 4] = f[4]
        /\ g[sp - 5] = f[5] /\ g[sp - 6] = f[6]
    BY <1>4
  <1>6. /\ sp - 1 = sp - 6 + 5 /\ sp - 2 = sp - 6 + 4 /\ sp - 3 = sp - 6 + 3 /\ sp - 4 = sp - 6 + 2
        /\ sp - 5 = sp - 6 + 1
    BY <1>1
  <1>7. StoredA(g, sp - 6, l) /\ g[sp - 6 + 2] = r0
    BY <1>2, <1>5, <1>6 DEF StoredA, sp
  <1> QED BY <1>4, <1>7 DEF UserKept, g, f, sp

\* What save_context of ARMv7-M adds to the frame of the processor at q.
HighKept(m, q, l, g) ==
    /\ DOMAIN g = 1..StackWords
    /\ StoredM(g, q - 2, l) /\ g[q - 2 + 2] = m[q]
    /\ \A a \in 1..StackWords : a >= q => g[a] = m[a]

LEMMA HighStored ==
    ASSUME NEW m, DOMAIN m = 1..StackWords, NEW l, NEW q \in Int, q > 2, q + 7 <= StackWords,
           X!Aligned(l.sp) \in Int, FrameM(m, q, l)
    PROVE  HighKept(m, q, l, X!Push(m, q, <<l.reg["hi"], l.reg["fq"]>>))
  <1> DEFINE f == <<l.reg["hi"], l.reg["fq"]>>
             g == X!Push(m, q, f)
  <1>1. StackWords \in Nat
    BY CtxNumbers
  <1>2. Len(f) = 2 /\ f[1] = l.reg["hi"] /\ f[2] = l.reg["fq"]
    OBVIOUS
  <1> HIDE DEF f
  <1>3. IsPushed(m, q, f, g)
    <2>1. Len(f) \in Nat /\ Len(f) < q /\ q <= StackWords + 1
      BY <1>1, <1>2
    <2> QED BY <1>1, <2>1, PushRead
  <1> HIDE DEF g
  <1>4. /\ DOMAIN g = 1..StackWords
        /\ \A i \in 1..2 : g[q - i] = f[i]
        /\ \A a \in 1..StackWords : a >= q => g[a] = m[a]
    BY <1>2, <1>3 DEF IsPushed
  <1>5. g[q - 1] = f[1] /\ g[q - 2] = f[2] /\ q - 1 = q - 2 + 1 /\ q - 2 + 2 = q
    BY <1>4
  <1>6. /\ g[q] = m[q] /\ g[q + 1] = m[q + 1] /\ g[q + 3] = m[q + 3] /\ g[q + 4] = m[q + 4]
        /\ g[q + 5] = m[q + 5] /\ g[q + 6] = m[q + 6]
    BY <1>1, <1>4
  <1>7. FrameM(g, q, l)
    BY <1>6 DEF FrameM
  <1>8. q - 2 = X!Aligned(l.sp) - 10
    BY DEF FrameM
  <1>9. StoredM(g, q - 2, l) /\ g[q - 2 + 2] = m[q]
    BY <1>2, <1>5, <1>6, <1>7, <1>8 DEF StoredM
  <1> QED BY <1>4, <1>9 DEF HighKept, g, f

LEMMA Concat14 ==
    ASSUME NEW a, NEW b, NEW c, NEW d, NEW e
    PROVE  <<a>> \o <<b, c, d, e>> = <<a, b, c, d, e>>
  <1> DEFINE words == {a, b, c, d, e}
             s == <<a>>
             r == <<b, c, d, e>>
             w == <<a, b, c, d, e>>
             x == s \o r
  <1>1. s \in Seq(words) /\ r \in Seq(words) /\ w \in Seq(words) /\ Len(s) = 1 /\ Len(r) = 4 /\ Len(w) = 5
    OBVIOUS
  <1>2. s[1] = a /\ r[1] = b /\ r[2] = c /\ r[3] = d /\ r[4] = e
    OBVIOUS
  <1>3. w[1] = a /\ w[2] = b /\ w[3] = c /\ w[4] = d /\ w[5] = e
    OBVIOUS
  <1> HIDE DEF words, s, r, w
  <1>4. /\ x \in Seq(words) /\ Len(x) = Len(s) + Len(r)
        /\ \A i \in 1 .. Len(s) + Len(r) : x[i] = IF i <= Len(s) THEN s[i] ELSE r[i - Len(s)]
    BY <1>1, ConcatProperties, Zenon
  <1> HIDE DEF x
  <1>5. Len(x) = 5
    BY <1>1, <1>4
  <1>6. \A i \in 1..5 : x[i] = IF i <= 1 THEN s[i] ELSE r[i - 1]
    BY <1>1, <1>4
  <1>7. \A i \in 1..5 : x[i] = w[i]
    BY <1>2, <1>3, <1>6
  <1>8. x = w
    BY <1>1, <1>4, <1>5, <1>7, SeqEqual
  <1> QED BY <1>8 DEF x, s, r, w

LEMMA Concat51 ==
    ASSUME NEW a, NEW b, NEW c, NEW d, NEW e, NEW f
    PROVE  <<a, b, c, d, e>> \o <<f>> = <<a, b, c, d, e, f>>
  <1> DEFINE words == {a, b, c, d, e, f}
             s == <<a, b, c, d, e>>
             r == <<f>>
             w == <<a, b, c, d, e, f>>
             x == s \o r
  <1>1. s \in Seq(words) /\ r \in Seq(words) /\ w \in Seq(words) /\ Len(s) = 5 /\ Len(r) = 1 /\ Len(w) = 6
    OBVIOUS
  <1>2. s[1] = a /\ s[2] = b /\ s[3] = c /\ s[4] = d /\ s[5] = e /\ r[1] = f
    OBVIOUS
  <1>3. w[1] = a /\ w[2] = b /\ w[3] = c /\ w[4] = d /\ w[5] = e /\ w[6] = f
    OBVIOUS
  <1> HIDE DEF words, s, r, w
  <1>4. /\ x \in Seq(words) /\ Len(x) = Len(s) + Len(r)
        /\ \A i \in 1 .. Len(s) + Len(r) : x[i] = IF i <= Len(s) THEN s[i] ELSE r[i - Len(s)]
    BY <1>1, ConcatProperties, Zenon
  <1> HIDE DEF x
  <1>5. Len(x) = 6
    BY <1>1, <1>4
  <1>6. \A i \in 1..6 : x[i] = IF i <= 5 THEN s[i] ELSE r[i - 5]
    BY <1>1, <1>4
  <1>7. \A i \in 1..6 : x[i] = w[i]
    BY <1>2, <1>3, <1>6
  <1>8. x = w
    BY <1>1, <1>4, <1>5, <1>7, SeqEqual
  <1> QED BY <1>8 DEF x, s, r, w

\* What the invariant says of a task that an exception has stopped.
LEMMA CtxStopped ==
    ASSUME ContextInv, NEW t \in Tasks, dev.curr = t
    PROVE  /\ t # Nobody /\ pc[t] = "run" /\ dev.running[t] /\ dev.task_switching = TRUE
           /\ CtxShape /\ CtxMode /\ CtxStack(t) /\ CtxRuns(t)
           /\ DOMAIN dev.stack[t] = 1..StackWords
           /\ loc[t].sp \in Int /\ loc[t].sp >= 12 /\ loc[t].sp <= StackWords + 1
           /\ Len(loc[t].pushed) \in Nat /\ loc[t].sp + Len(loc[t].pushed) <= StackWords + 1
           /\ X!Aligned(loc[t].sp) \in Int /\ X!Aligned(loc[t].sp) >= 12
           /\ X!Aligned(loc[t].sp) <= loc[t].sp /\ loc[t].sp % 2 \in {0, 1}
           /\ X!Aligned(loc[t].sp) + (loc[t].sp % 2) = loc[t].sp
           /\ StackWords \in Nat
  <1>1. /\ t # Nobody /\ CtxShape /\ CtxMode /\ CtxTask(t)
    BY CtxNumbers DEF ContextInv
  <1>2. /\ pc[t] = "run" /\ dev.running[t] /\ CtxStack(t) /\ CtxRuns(t)
        /\ DOMAIN dev.stack[t] = 1..StackWords
    BY <1>1 DEF CtxTask
  <1>3. dev.task_switching = TRUE
    BY <1>1 DEF CtxMode
  <1> QED BY <1>1, <1>2, <1>3, CtxBounds, CtxNumbers

\* What has been pushed stays when nothing at or above the stack pointer changes.
LEMMA CtxStackStays ==
    ASSUME NEW t \in Tasks, CtxStack(t), dev'.stack_base = dev.stack_base, loc'[t] = loc[t],
           loc[t].sp \in Int, loc[t].sp >= 12, Len(loc[t].pushed) \in Nat,
           loc[t].sp + Len(loc[t].pushed) <= StackWords + 1,
           \A a \in 1..StackWords : a >= loc[t].sp => dev'.stack[t][a] = dev.stack[t][a]
    PROVE  CtxStack(t)'
  <1> DEFINE sp == loc[t].sp
             n == Len(loc[t].pushed)
  <1>1. ASSUME NEW i \in 1..n PROVE dev'.stack[t][sp + i - 1] = loc[t].pushed[i]
    <2>1. sp + i - 1 \in 1..StackWords /\ sp + i - 1 >= sp
      <3>1. sp \in Int /\ sp >= 12 /\ n \in Nat /\ sp + n <= StackWords + 1 /\ StackWords \in Nat
        BY CtxNumbers
      <3> HIDE DEF sp, n
      <3> QED BY <3>1
    <2>2. dev.stack[t][sp + i - 1] = loc[t].pushed[i]
      BY DEF CtxStack
    <2> QED BY <2>1, <2>2
  <1> QED BY <1>1 DEF CtxStack

LEMMA CtxSaveA ==
    ASSUME ContextInv, NEW t \in Tasks, dev.curr = t, X!save_context, dev.arch = "armv7a"
    PROVE  ContextInv'
  <1> DEFINE l == loc[t]
             frame == hw.exc \o <<hw.reg["hi"], hw.reg["lo"], hw.reg["r0"], hw.spsr>>
             user == frame \o <<hw.reg["lr"]>>
             g == X!Push(dev.stack[t], l.sp, UserOf(l, hw.reg["r0"]))
  <1>1. /\ t # Nobody /\ dev.task_switching = TRUE /\ CtxShape /\ CtxMode /\ CtxStack(t)
        /\ CtxRuns(t) /\ DOMAIN dev.stack[t] = 1..StackWords
        /\ l.sp \in Int /\ l.sp >= 12 /\ l.sp <= StackWords + 1 /\ StackWords \in Nat
        /\ Len(l.pushed) \in Nat /\ l.sp + Len(l.pushed) <= StackWords + 1
    BY CtxStopped
  <1>2. hw.phase = "entry" /\ pc' = pc /\ loc' = loc /\ X!SaveContextA
    BY DEF X!save_context, X!SaveContextM
  <1>3. CtxEntry(t) /\ hw.spsr[1] = "usr" /\ hw.exc = <<hw.exc[1]>>
    BY <1>1, <1>2 DEF CtxRuns, CtxMode
  <1>4. /\ hw.sp = l.sp /\ hw.exc[1] = l.reg["pc"] /\ hw.spsr = l.reg["psr"]
        /\ hw.reg["lo"] = l.reg["lo"] /\ hw.reg["hi"] = l.reg["hi"]
        /\ hw.reg["lr"] = l.reg["lr"] /\ R0Kept(t, hw.reg["r0"])
    BY <1>3 DEF CtxEntry
  <1>5. /\ dev' = [dev EXCEPT !.stack[dev.curr] = X!Push(@, hw.sp, user)]
        /\ hw' = [hw EXCEPT !.phase = "saved", !.exc = frame, !.sp = @ - Len(user),
                            !.registers = hw.sp - Len(frame)]
    BY <1>1, <1>2, <1>3 DEF X!SaveContextA
  <1>6. frame = <<hw.exc[1], hw.reg["hi"], hw.reg["lo"], hw.reg["r0"], hw.spsr>>
    <2> DEFINE e == hw.exc[1]
    <2>1. hw.exc = <<e>>
      BY <1>3
    <2> HIDE DEF e
    <2>2. frame = <<e>> \o <<hw.reg["hi"], hw.reg["lo"], hw.reg["r0"], hw.spsr>>
      BY <2>1
    <2> HIDE DEF frame
    <2>3. frame = <<e, hw.reg["hi"], hw.reg["lo"], hw.reg["r0"], hw.spsr>>
      BY <2>2, Concat14
    <2> QED BY <2>3 DEF e
  <1>7. /\ user = <<hw.exc[1], hw.reg["hi"], hw.reg["lo"], hw.reg["r0"], hw.spsr, hw.reg["lr"]>>
    <2>1. user = <<hw.exc[1], hw.reg["hi"], hw.reg["lo"], hw.reg["r0"], hw.spsr>> \o <<hw.reg["lr"]>>
      BY <1>6
    <2> HIDE DEF user, frame
    <2> QED BY <2>1, Concat51
  <1>8. /\ Len(frame) = 5 /\ frame[5] = hw.spsr /\ Len(user) = 6 /\ user = UserOf(l, hw.reg["r0"])
    <2> HIDE DEF user, frame
    <2>1. Len(frame) = 5 /\ frame[5] = hw.spsr
      BY <1>6
    <2>2. Len(user) = 6
      BY <1>7
    <2>3. user = UserOf(l, hw.reg["r0"])
      BY <1>4, <1>7 DEF UserOf
    <2> QED BY <2>1, <2>2, <2>3
  <1> HIDE DEF user, frame
  <1>9. /\ DOMAIN dev' = DOMAIN dev /\ dev'.arch = dev.arch /\ dev'.stack_base = dev.stack_base
        /\ dev'.stack_top = dev.stack_top /\ dev'.running = dev.running /\ dev'.curr = t
        /\ dev'.task_switching = dev.task_switching /\ DOMAIN dev'.stack = X!Holders
        /\ \A u \in Tasks \ {t} : dev'.stack[u] = dev.stack[u]
        /\ dev'.stack[t] = X!Push(dev.stack[t], hw.sp, user)
    BY <1>1, <1>5, CtxNumbers DEF CtxShape
  <1>10. /\ DOMAIN hw' = DOMAIN hw /\ hw'.phase = "saved" /\ hw'.exc = frame
         /\ hw'.sp = hw.sp - 6 /\ hw'.registers = hw.sp - 5 /\ hw'.reg = hw.reg /\ hw'.svc = hw.svc
    BY <1>1, <1>5, <1>8 DEF CtxShape
  <1>11. UserKept(dev.stack[t], l, hw.reg["r0"], dev'.stack[t])
    <2>1. UserKept(dev.stack[t], l, hw.reg["r0"], g)
      BY <1>1, UserStored
    <2>2. dev'.stack[t] = g
      BY <1>4, <1>8, <1>9
    <2> QED BY <2>1, <2>2
  <1> HIDE DEF l
  <1>12. /\ DOMAIN dev'.stack[t] = 1..StackWords
         /\ StoredA(dev'.stack[t], hw'.sp, l) /\ dev'.stack[t][hw'.sp + 2] = hw.reg["r0"]
         /\ \A a \in 1..StackWords : a >= l.sp => dev'.stack[t][a] = dev.stack[t][a]
    BY <1>4, <1>10, <1>11 DEF UserKept
  <1>13. CtxShape'
    BY <1>1, <1>2, <1>9, <1>10 DEF CtxShape
  <1>14. CtxMode'
    BY <1>1, <1>3, <1>8, <1>9, <1>10 DEF CtxMode
  <1>15. CtxStack(t)'
    BY <1>1, <1>2, <1>9, <1>12, CtxStackStays DEF l
  <1>16. R0Kept(t, dev.stack[t][hw.sp + 2])'
    BY <1>2, <1>4, <1>10, <1>12 DEF R0Kept
  <1>17. hw'.registers # 0 /\ X!R0' = hw'.sp + 2
    BY <1>1, <1>4, <1>9, <1>10 DEF X!R0
  <1>18. CtxRuns(t)'
    BY <1>2, <1>9, <1>10, <1>12, <1>16, <1>17 DEF CtxRuns, Stored, l
  <1> QED BY <1>2, <1>9, <1>12, <1>13, <1>14, <1>15, <1>18, CtxOne

LEMMA CtxSaveM ==
    ASSUME ContextInv, NEW t \in Tasks, dev.curr = t, X!save_context, dev.arch = "armv7m"
    PROVE  ContextInv'
  <1> DEFINE l == loc[t]
             q == hw.sp
             g == X!Push(dev.stack[t], q, <<l.reg["hi"], l.reg["fq"]>>)
  <1>1. /\ t # Nobody /\ CtxShape /\ CtxMode /\ CtxStack(t)
        /\ CtxRuns(t) /\ DOMAIN dev.stack[t] = 1..StackWords
        /\ l.sp \in Int /\ l.sp >= 12 /\ l.sp <= StackWords + 1 /\ StackWords \in Nat
        /\ Len(l.pushed) \in Nat /\ l.sp + Len(l.pushed) <= StackWords + 1
        /\ X!Aligned(l.sp) \in Int /\ X!Aligned(l.sp) >= 12 /\ X!Aligned(l.sp) <= l.sp
    BY CtxStopped
  <1>2. hw.phase = "entry" /\ pc' = pc /\ loc' = loc /\ X!SaveContextM
    BY DEF X!save_context, X!SaveContextA
  <1>3. CtxEntry(t)
    BY <1>1, <1>2 DEF CtxRuns
  <1>4. /\ FrameM(dev.stack[t], q, l) /\ R0Kept(t, dev.stack[t][q])
        /\ hw.reg["hi"] = l.reg["hi"] /\ hw.reg["fq"] = l.reg["fq"] /\ q = X!Aligned(l.sp) - 8
    BY <1>3 DEF CtxEntry, FrameM
  <1>5. /\ dev' = [dev EXCEPT !.stack[dev.curr] = X!Push(@, hw.sp, <<hw.reg["hi"], hw.reg["fq"]>>)]
        /\ hw' = [hw EXCEPT !.phase = "saved", !.sp = @ - 2, !.registers = hw.sp]
    BY <1>2 DEF X!SaveContextM
  <1>6. /\ DOMAIN dev' = DOMAIN dev /\ dev'.arch = dev.arch /\ dev'.stack_base = dev.stack_base
        /\ dev'.stack_top = dev.stack_top /\ dev'.running = dev.running /\ dev'.curr = t
        /\ dev'.task_switching = dev.task_switching /\ DOMAIN dev'.stack = X!Holders
        /\ \A u \in Tasks \ {t} : dev'.stack[u] = dev.stack[u]
        /\ dev'.stack[t] = X!Push(dev.stack[t], hw.sp, <<hw.reg["hi"], hw.reg["fq"]>>)
    BY <1>1, <1>5, CtxNumbers DEF CtxShape
  <1>7. /\ DOMAIN hw' = DOMAIN hw /\ hw'.phase = "saved" /\ hw'.exc = hw.exc
        /\ hw'.sp = q - 2 /\ hw'.registers = q /\ hw'.reg = hw.reg /\ hw'.svc = hw.svc
    BY <1>1, <1>5 DEF CtxShape
  <1>8. q \in Int /\ q > 2 /\ q + 7 <= StackWords /\ q <= l.sp
    BY <1>1, <1>4
  <1>9. HighKept(dev.stack[t], q, l, dev'.stack[t])
    <2>1. HighKept(dev.stack[t], q, l, g)
      BY <1>1, <1>4, <1>8, HighStored
    <2>2. dev'.stack[t] = g
      BY <1>4, <1>6
    <2> QED BY <2>1, <2>2
  <1> HIDE DEF l, q
  <1>10. /\ DOMAIN dev'.stack[t] = 1..StackWords
         /\ StoredM(dev'.stack[t], hw'.sp, l) /\ dev'.stack[t][hw'.sp + 2] = dev.stack[t][q]
         /\ \A a \in 1..StackWords : a >= l.sp => dev'.stack[t][a] = dev.stack[t][a]
    <2>1. \A a \in 1..StackWords : a >= l.sp => a >= q
      BY <1>1, <1>8
    <2> QED BY <1>7, <1>9, <2>1 DEF HighKept
  <1>11. CtxShape'
    BY <1>1, <1>2, <1>6, <1>7 DEF CtxShape
  <1>12. CtxMode'
    BY <1>1, <1>2, <1>6, <1>7 DEF CtxMode
  <1>13. CtxStack(t)'
    BY <1>1, <1>2, <1>6, <1>10, CtxStackStays DEF l
  <1>14. R0Kept(t, dev.stack[t][hw.sp + 2])'
    BY <1>2, <1>4, <1>7, <1>10 DEF R0Kept
  <1>15. hw'.registers # 0 /\ X!R0' = hw'.sp + 2
    BY <1>6, <1>7, <1>8 DEF X!R0
  <1>16. CtxRuns(t)'
    BY <1>2, <1>6, <1>7, <1>10, <1>14, <1>15 DEF CtxRuns, Stored, l
  <1> QED BY <1>2, <1>6, <1>10, <1>11, <1>12, <1>13, <1>16, CtxOne

LEMMA CtxSaveNone ==
    ASSUME ContextInv, dev.curr = Nobody, X!save_context
    PROVE  ContextInv'
  <1>1. /\ hw.phase = "entry" /\ pc' = pc /\ loc' = loc /\ CtxShape /\ CtxMode
    BY DEF X!save_context, ContextInv
  <1>2. CASE X!SaveContextA
    <2> DEFINE frame == hw.exc \o <<hw.reg["hi"], hw.reg["lo"], hw.reg["r0"], hw.spsr>>
               e == hw.exc[1]
    <2>1. dev.arch = "armv7a" /\ hw.spsr[1] = "usr" /\ hw.exc = <<e>>
      BY <1>1, <1>2 DEF X!SaveContextA, CtxMode
    <2>2. frame = <<e, hw.reg["hi"], hw.reg["lo"], hw.reg["r0"], hw.spsr>>
      <3> HIDE DEF e
      <3>1. frame = <<e>> \o <<hw.reg["hi"], hw.reg["lo"], hw.reg["r0"], hw.spsr>>
        BY <2>1
      <3> QED BY <3>1, Concat14
    <2>3. Len(frame) = 5 /\ frame[5] = hw.spsr
      <3> HIDE DEF frame, e
      <3> QED BY <2>2
    <2>4. \/ /\ dev' = [dev EXCEPT !.stack[dev.curr] = X!Push(@, hw.sp, frame \o <<hw.reg["lr"]>>)]
             /\ hw' = [hw EXCEPT !.phase = "saved", !.exc = frame,
                                 !.sp = @ - Len(frame \o <<hw.reg["lr"]>>),
                                 !.registers = hw.sp - Len(frame)]
          \/ /\ hw' = [hw EXCEPT !.phase = "saved", !.exc = frame, !.registers = 0]
             /\ dev' = dev
      BY <1>2 DEF X!SaveContextA
    <2> HIDE DEF frame
    <2>5. /\ DOMAIN dev' = DOMAIN dev /\ dev'.arch = dev.arch /\ dev'.stack_base = dev.stack_base
          /\ dev'.stack_top = dev.stack_top /\ dev'.running = dev.running /\ dev'.curr = Nobody
          /\ dev'.task_switching = dev.task_switching /\ DOMAIN dev'.stack = X!Holders
          /\ \A u \in Tasks : dev'.stack[u] = dev.stack[u]
      BY <1>1, <2>4, CtxNumbers DEF CtxShape
    <2>6. /\ DOMAIN hw' = DOMAIN hw /\ hw'.phase = "saved" /\ hw'.exc = frame
          /\ hw'.reg = hw.reg /\ hw'.svc = hw.svc
      BY <1>1, <2>4 DEF CtxShape
    <2>7. CtxShape'
      BY <1>1, <2>5, <2>6 DEF CtxShape
    <2>8. CtxMode'
      BY <1>1, <2>1, <2>3, <2>5, <2>6, CtxNumbers DEF CtxMode
    <2> QED BY <1>1, <2>5, <2>7, <2>8, CtxNone
  <1>3. CASE X!SaveContextM
    <2>1. /\ dev.arch = "armv7m"
          /\ dev' = [dev EXCEPT !.stack[dev.curr] = X!Push(@, hw.sp, <<hw.reg["hi"], hw.reg["fq"]>>)]
          /\ hw' = [hw EXCEPT !.phase = "saved", !.sp = @ - 2, !.registers = hw.sp]
      BY <1>3 DEF X!SaveContextM
    <2>2. /\ DOMAIN dev' = DOMAIN dev /\ dev'.arch = dev.arch /\ dev'.stack_base = dev.stack_base
          /\ dev'.stack_top = dev.stack_top /\ dev'.running = dev.running /\ dev'.curr = Nobody
          /\ dev'.task_switching = dev.task_switching /\ DOMAIN dev'.stack = X!Holders
          /\ \A u \in Tasks : dev'.stack[u] = dev.stack[u]
      BY <1>1, <2>1, CtxNumbers DEF CtxShape
    <2>3. /\ DOMAIN hw' = DOMAIN hw /\ hw'.phase = "saved" /\ hw'.exc = hw.exc
          /\ hw'.reg = hw.reg /\ hw'.svc = hw.svc
      BY <1>1, <2>1 DEF CtxShape
    <2>4. CtxShape'
      BY <1>1, <2>2, <2>3 DEF CtxShape
    <2>5. CtxMode'
      BY <1>1, <2>1, <2>2, <2>3, CtxNumbers DEF CtxMode
    <2> QED BY <1>1, <2>2, <2>4, <2>5, CtxNone
  <1> QED BY <1>2, <1>3 DEF X!save_context

\* A word that is stored at p + 2 is that of r0, and changes nothing else there.
R0Put(m, p, l, w, g) ==
    /\ DOMAIN g = 1..StackWords /\ Stored(g, p, l) /\ g[p + 2] = w
    /\ \A a \in 1..StackWords : a >= l.sp => g[a] = m[a]

LEMMA R0Stored ==
    ASSUME NEW m, DOMAIN m = 1..StackWords, NEW l, NEW p, NEW w,
           l.sp \in Int, l.sp >= 12, l.sp <= StackWords + 1, Stored(m, p, l)
    PROVE  R0Put(m, p, l, w, [m EXCEPT ![p + 2] = w])
  <1> DEFINE g == [m EXCEPT ![p + 2] = w]
  <1>0. DOMAIN g = 1..StackWords /\ (p + 2 \in 1..StackWords => g[p + 2] = w)
        /\ \A a \in 1..StackWords : a # p + 2 => g[a] = m[a]
    OBVIOUS
  <1> HIDE DEF g
  <1>1. /\ StackWords \in Nat /\ X!Aligned(l.sp) \in Int /\ X!Aligned(l.sp) <= l.sp
        /\ X!Aligned(l.sp) >= 11
    <2>1. X!Aligned(l.sp) = l.sp - (l.sp % 2) /\ l.sp % 2 \in {0, 1} /\ StackWords \in Nat
      BY CtxNumbers
    <2> QED BY <2>1
  <1>2. CASE dev.arch = "armv7a"
    <2>1. p = l.sp - 6 /\ StoredA(m, p, l)
      BY <1>2 DEF Stored, StoredA
    <2>2. p \in Int /\ p + 2 \in 1..StackWords /\ p + 2 < l.sp
      BY <1>1, <2>1
    <2>3. g[p + 2] = w
      BY <1>0, <2>2
    <2>4. /\ g[p] = m[p] /\ g[p + 1] = m[p + 1] /\ g[p + 3] = m[p + 3] /\ g[p + 4] = m[p + 4]
          /\ g[p + 5] = m[p + 5]
      <3>1. /\ p \in 1..StackWords /\ p + 1 \in 1..StackWords /\ p + 3 \in 1..StackWords
            /\ p + 4 \in 1..StackWords /\ p + 5 \in 1..StackWords
        <4>1. p \in Int /\ p >= 1 /\ p <= StackWords - 5 /\ StackWords \in Nat
          BY <1>1, <2>1
        <4> QED BY <4>1
      <3>2. p # p + 2 /\ p + 1 # p + 2 /\ p + 3 # p + 2 /\ p + 4 # p + 2 /\ p + 5 # p + 2
        BY <2>2
      <3> QED BY <1>0, <3>1, <3>2
    <2>5. StoredA(g, p, l)
      BY <2>1, <2>4 DEF StoredA
    <2>6. \A a \in 1..StackWords : a >= l.sp => g[a] = m[a]
      BY <1>0, <2>2
    <2> QED BY <1>0, <1>2, <2>3, <2>5, <2>6 DEF Stored, R0Put, g
  <1>3. CASE dev.arch # "armv7a"
    <2>1. p = X!Aligned(l.sp) - 10 /\ StoredM(m, p, l)
      BY <1>3 DEF Stored, StoredM
    <2>2. p \in Int /\ p + 2 \in 1..StackWords /\ p + 2 < l.sp
      BY <1>1, <2>1
    <2>3. g[p + 2] = w
      BY <1>0, <2>2
    <2>4. /\ g[p] = m[p] /\ g[p + 1] = m[p + 1] /\ g[p + 2 + 1] = m[p + 2 + 1]
          /\ g[p + 2 + 3] = m[p + 2 + 3] /\ g[p + 2 + 4] = m[p + 2 + 4]
          /\ g[p + 2 + 5] = m[p + 2 + 5] /\ g[p + 2 + 6] = m[p + 2 + 6]
      <3>1. /\ p \in 1..StackWords /\ p + 1 \in 1..StackWords /\ p + 2 + 1 \in 1..StackWords
            /\ p + 2 + 3 \in 1..StackWords /\ p + 2 + 4 \in 1..StackWords
            /\ p + 2 + 5 \in 1..StackWords /\ p + 2 + 6 \in 1..StackWords
        <4>1. p \in Int /\ p >= 1 /\ p <= StackWords - 9 /\ StackWords \in Nat
          BY <1>1, <2>1
        <4> QED BY <4>1
      <3>2. /\ p # p + 2 /\ p + 1 # p + 2 /\ p + 2 + 1 # p + 2 /\ p + 2 + 3 # p + 2
            /\ p + 2 + 4 # p + 2 /\ p + 2 + 5 # p + 2 /\ p + 2 + 6 # p + 2
        BY <2>2
      <3> QED BY <1>0, <3>1, <3>2
    <2>5. StoredM(g, p, l)
      BY <2>1, <2>4 DEF StoredM, FrameM
    <2>6. \A a \in 1..StackWords : a >= l.sp => g[a] = m[a]
      BY <1>0, <2>2
    <2> QED BY <1>0, <1>3, <2>3, <2>5, <2>6 DEF Stored, R0Put, g
  <1> QED BY <1>2, <1>3

LEMMA CtxHandler ==
    ASSUME ContextInv, NEW t \in Tasks, dev.curr = t, X!svc_handler
    PROVE  ContextInv'
  <1> DEFINE l == loc[t]
             w == X!Word("ret", t, 0)
             g == [dev.stack[t] EXCEPT ![hw.sp + 2] = w]
  <1>1. /\ t # Nobody /\ CtxShape /\ CtxMode /\ CtxStack(t)
        /\ CtxRuns(t) /\ DOMAIN dev.stack[t] = 1..StackWords
        /\ l.sp \in Int /\ l.sp >= 12 /\ l.sp <= StackWords + 1 /\ StackWords \in Nat
        /\ Len(l.pushed) \in Nat /\ l.sp + Len(l.pushed) <= StackWords + 1
    BY CtxStopped
  <1>2. /\ hw.phase = "saved" /\ hw.svc /\ pc' = pc /\ loc' = loc
        /\ dev' = [dev EXCEPT !.stack[dev.curr][X!R0] = X!Word("ret", dev.curr, 0)]
        /\ hw' = [hw EXCEPT !.phase = "handled"]
    BY DEF X!svc_handler
  <1>3. Stored(dev.stack[t], hw.sp, l) /\ l.reg["r0"] = w /\ X!R0 = hw.sp + 2
    BY <1>1, <1>2 DEF CtxRuns, R0Kept
  <1>4. /\ DOMAIN g = 1..StackWords /\ Stored(g, hw.sp, l) /\ g[hw.sp + 2] = w
        /\ \A a \in 1..StackWords : a >= l.sp => g[a] = dev.stack[t][a]
    <2>1. R0Put(dev.stack[t], hw.sp, l, w, g)
      BY <1>1, <1>3, R0Stored
    <2> QED BY <2>1 DEF R0Put
  <1>5. /\ DOMAIN dev' = DOMAIN dev /\ dev'.arch = dev.arch /\ dev'.stack_base = dev.stack_base
        /\ dev'.stack_top = dev.stack_top /\ dev'.running = dev.running /\ dev'.curr = t
        /\ dev'.task_switching = dev.task_switching /\ DOMAIN dev'.stack = X!Holders
        /\ \A u \in Tasks \ {t} : dev'.stack[u] = dev.stack[u]
        /\ dev'.stack[t] = g
    BY <1>1, <1>2, <1>3, CtxNumbers DEF CtxShape
  <1>6. /\ DOMAIN hw' = DOMAIN hw /\ hw'.phase = "handled" /\ hw'.exc = hw.exc
        /\ hw'.sp = hw.sp /\ hw'.reg = hw.reg /\ hw'.svc = hw.svc
    BY <1>1, <1>2 DEF CtxShape
  <1> HIDE DEF g, w
  <1>7. CtxShape'
    BY <1>1, <1>2, <1>5, <1>6 DEF CtxShape
  <1>8. CtxMode'
    BY <1>1, <1>2, <1>5, <1>6 DEF CtxMode
  <1>9. CtxStack(t)'
    <2>1. \A a \in 1..StackWords : a >= loc[t].sp => dev'.stack[t][a] = dev.stack[t][a]
      BY <1>4, <1>5
    <2> QED BY <1>1, <1>2, <1>5, <2>1, CtxStackStays
  <1>10. CtxRuns(t)'
    <2>1. Stored(dev.stack[t], hw.sp, loc[t])'
      BY <1>2, <1>4, <1>5, <1>6 DEF Stored
    <2>2. (dev.stack[t][hw.sp + 2] = loc[t].reg["r0"])'
      BY <1>2, <1>3, <1>4, <1>5, <1>6
    <2> QED BY <1>6, <2>1, <2>2 DEF CtxRuns
  <1> QED BY <1>2, <1>4, <1>5, <1>7, <1>8, <1>9, <1>10, CtxOne

\* An exception returns to the task t.
LEMMA CtxRestoreA ==
    ASSUME ContextInv, NEW t \in Tasks, dev.curr = t, X!restore_context, dev.arch = "armv7a"
    PROVE  ContextInv'
  <1> DEFINE m == dev.stack[t]
             p == hw.sp
             l == loc[t]
  <1>1. /\ t # Nobody /\ CtxShape /\ CtxMode /\ CtxStack(t) /\ CtxRuns(t)
        /\ DOMAIN dev.stack[t] = 1..StackWords /\ l.sp \in Int
    BY CtxStopped
  <1>2. /\ hw.phase = "handled" /\ UNCHANGED <<dev, lock, pc, loc>> /\ X!RestoreContextA
    BY DEF X!restore_context, X!RestoreContextM
  <1>3. hw.exc[Len(hw.exc)][1] = "usr"
    BY <1>1, <1>2 DEF CtxMode
  <1>4. StoredA(m, p, l) /\ m[p + 2] = l.reg["r0"]
    BY <1>1, <1>2 DEF CtxRuns, Stored
  <1>5. hw' = [hw EXCEPT !.phase = "restored", !.sp = @ + 6, !.exc = <<m[p + 5]>>,
                         !.spsr = m[p + 1],
                         !.reg = [@ EXCEPT !["lr"] = m[p], !["r0"] = m[p + 2],
                                           !["lo"] = m[p + 3], !["hi"] = m[p + 4]]]
    BY <1>2, <1>3 DEF X!RestoreContextA, X!Mem
  <1> HIDE DEF m
  <1>6. /\ DOMAIN hw' = DOMAIN hw /\ hw'.phase = "restored" /\ hw'.sp = hw.sp + 6
        /\ hw'.exc = <<m[p + 5]>> /\ hw'.spsr = m[p + 1] /\ hw'.svc = hw.svc
        /\ hw'.reg = [hw.reg EXCEPT !["lr"] = m[p], !["r0"] = m[p + 2],
                                    !["lo"] = m[p + 3], !["hi"] = m[p + 4]]
    BY <1>1, <1>5 DEF CtxShape
  <1>7. /\ DOMAIN hw'.reg = Regs /\ hw'.reg["lr"] = m[p] /\ hw'.reg["r0"] = m[p + 2]
        /\ hw'.reg["lo"] = m[p + 3] /\ hw'.reg["hi"] = m[p + 4]
    BY <1>1, <1>6 DEF CtxShape, Regs, X!Core, X!Fpu
  <1>8. CtxShape'
    BY <1>1, <1>2, <1>6, <1>7 DEF CtxShape
  <1>9. CtxMode'
    BY <1>1, <1>2, <1>6 DEF CtxMode
  <1>10. CtxStack(t)'
    BY <1>1, <1>2 DEF CtxStack
  <1>11. hw'.sp = l.sp
    <2>1. p = l.sp - 6
      BY <1>4 DEF StoredA
    <2> QED BY <1>1, <1>6, <2>1
  <1>12. CtxRestored(t)'
    BY <1>2, <1>4, <1>6, <1>7, <1>11 DEF CtxRestored, StoredA
  <1>13. CtxRuns(t)'
    BY <1>6, <1>12 DEF CtxRuns
  <1> QED BY <1>1, <1>2, <1>8, <1>9, <1>10, <1>13, CtxOne

LEMMA CtxRestoreM ==
    ASSUME ContextInv, NEW t \in Tasks, dev.curr = t, X!restore_context, dev.arch = "armv7m"
    PROVE  ContextInv'
  <1> DEFINE m == dev.stack[t]
             p == hw.sp
             l == loc[t]
  <1>1. /\ t # Nobody /\ CtxShape /\ CtxMode /\ CtxStack(t) /\ CtxRuns(t)
        /\ DOMAIN dev.stack[t] = 1..StackWords /\ l.sp \in Int
    BY CtxStopped
  <1>2. /\ hw.phase = "handled" /\ UNCHANGED <<dev, lock, pc, loc>> /\ X!RestoreContextM
    BY DEF X!restore_context, X!RestoreContextA
  <1>4. StoredM(m, p, l) /\ m[p + 2] = l.reg["r0"]
    BY <1>1, <1>2 DEF CtxRuns, Stored
  <1>5. hw' = [hw EXCEPT !.phase = "restored", !.sp = @ + 2,
                         !.reg = [@ EXCEPT !["fq"] = m[p], !["hi"] = m[p + 1]]]
    BY <1>2 DEF X!RestoreContextM, X!Mem
  <1> HIDE DEF m
  <1>6. /\ DOMAIN hw' = DOMAIN hw /\ hw'.phase = "restored" /\ hw'.sp = p + 2
        /\ hw'.exc = hw.exc /\ hw'.svc = hw.svc
        /\ hw'.reg = [hw.reg EXCEPT !["fq"] = m[p], !["hi"] = m[p + 1]]
    BY <1>1, <1>5 DEF CtxShape
  <1>7. DOMAIN hw'.reg = Regs /\ hw'.reg["fq"] = m[p] /\ hw'.reg["hi"] = m[p + 1]
    BY <1>1, <1>6 DEF CtxShape, Regs, X!Core, X!Fpu
  <1>8. CtxShape'
    BY <1>1, <1>2, <1>6, <1>7 DEF CtxShape
  <1>9. CtxMode'
    BY <1>1, <1>2, <1>6 DEF CtxMode
  <1>10. CtxStack(t)'
    BY <1>1, <1>2 DEF CtxStack
  <1>11. FrameM(m, p + 2, l) /\ m[p] = l.reg["fq"] /\ m[p + 1] = l.reg["hi"]
    BY <1>4 DEF StoredM
  <1>12. CtxRestored(t)'
    <2>1. dev' = dev /\ loc' = loc /\ dev.arch = "armv7m"
      BY <1>2
    <2>2. /\ FrameM(dev.stack[t], hw'.sp, loc[t]) /\ dev.stack[t][hw'.sp] = loc[t].reg["r0"]
          /\ hw'.reg["hi"] = loc[t].reg["hi"] /\ hw'.reg["fq"] = loc[t].reg["fq"]
      BY <1>4, <1>6, <1>7, <1>11 DEF m
    <2> QED BY <2>1, <2>2 DEF CtxRestored
  <1>13. CtxRuns(t)'
    BY <1>6, <1>12 DEF CtxRuns
  <1> QED BY <1>1, <1>2, <1>8, <1>9, <1>10, <1>13, CtxOne

LEMMA CtxReturnA ==
    ASSUME ContextInv, NEW t \in Tasks, dev.curr = t, X!Return, dev.arch = "armv7a", ~FpuTasks
    PROVE  ContextInv'
  <1> DEFINE l == loc[t]
             g == dev'.stack[t]
  <1>1. /\ t # Nobody /\ CtxShape /\ CtxMode /\ CtxStack(t) /\ CtxRuns(t)
        /\ DOMAIN dev.stack[t] = 1..StackWords
        /\ l.sp \in Int /\ l.sp >= 12 /\ Len(l.pushed) \in Nat
        /\ l.sp + Len(l.pushed) <= StackWords + 1
    BY CtxStopped
  <1>2. /\ hw.phase = "restored" /\ UNCHANGED <<lock, pc, loc>>
        /\ hw' = [hw EXCEPT !.phase = "user", !.exc = <<>>, !.registers = 0,
                            !.reg = [@ EXCEPT !["pc"] = hw.exc[1], !["psr"] = hw.spsr]]
        /\ dev' = [dev EXCEPT !.stack[dev.curr] = X!Forget(@, hw'.sp)]
    BY DEF X!Return, X!ReturnA, X!ReturnM
  <1>3. CtxRestored(t)
    BY <1>1, <1>2 DEF CtxRuns
  <1>4. /\ hw.sp = l.sp /\ hw.exc[1] = l.reg["pc"] /\ hw.spsr = l.reg["psr"]
        /\ hw.reg["lo"] = l.reg["lo"] /\ hw.reg["hi"] = l.reg["hi"]
        /\ hw.reg["lr"] = l.reg["lr"] /\ hw.reg["r0"] = l.reg["r0"]
    BY <1>3 DEF CtxRestored
  <1>5. /\ DOMAIN hw' = DOMAIN hw /\ hw'.phase = "user" /\ hw'.sp = hw.sp /\ hw'.svc = hw.svc
        /\ hw'.reg = [hw.reg EXCEPT !["pc"] = hw.exc[1], !["psr"] = hw.spsr]
    BY <1>1, <1>2 DEF CtxShape
  <1>6. /\ DOMAIN hw'.reg = Regs /\ hw'.reg["pc"] = hw.exc[1] /\ hw'.reg["psr"] = hw.spsr
        /\ hw'.reg["lo"] = hw.reg["lo"] /\ hw'.reg["hi"] = hw.reg["hi"]
        /\ hw'.reg["lr"] = hw.reg["lr"] /\ hw'.reg["r0"] = hw.reg["r0"]
    BY <1>1, <1>5 DEF CtxShape, Regs, X!Core, X!Fpu
  <1>7. /\ DOMAIN dev' = DOMAIN dev /\ dev'.arch = dev.arch /\ dev'.stack_base = dev.stack_base
        /\ dev'.stack_top = dev.stack_top /\ dev'.running = dev.running /\ dev'.curr = t
        /\ dev'.task_switching = dev.task_switching /\ DOMAIN dev'.stack = X!Holders
        /\ \A u \in Tasks \ {t} : dev'.stack[u] = dev.stack[u]
        /\ g = X!Forget(dev.stack[t], l.sp)
    BY <1>1, <1>2, <1>4, <1>5, CtxNumbers DEF CtxShape
  <1>8. DOMAIN g = 1..StackWords /\ \A a \in 1..StackWords : a >= l.sp => g[a] = dev.stack[t][a]
    <2>1. IsForgotten(dev.stack[t], l.sp, X!Forget(dev.stack[t], l.sp))
      BY <1>1, ForgetRead
    <2> QED BY <1>7, <2>1 DEF IsForgotten
  <1>9. l.reg["psr"][1] = "usr"
    BY <1>1 DEF CtxStack
  <1>10. CtxShape'
    BY <1>1, <1>2, <1>5, <1>6, <1>7 DEF CtxShape
  <1>11. CtxMode'
    BY <1>1, <1>4, <1>5, <1>6, <1>7, <1>9 DEF CtxMode
  <1>12. CtxStack(t)'
    BY <1>1, <1>2, <1>7, <1>8, CtxStackStays
  <1>13. \A x \in X!Core : hw'.reg[x] = l.reg[x]
    BY <1>4, <1>6 DEF X!Core
  <1>14. X!Own' = X!Core
    BY <1>7 DEF X!Own
  <1>15. CtxRuns(t)'
    BY <1>2, <1>4, <1>5, <1>13, <1>14 DEF CtxRuns
  <1> QED BY <1>2, <1>7, <1>8, <1>10, <1>11, <1>12, <1>15, CtxOne

LEMMA CtxReturnM ==
    ASSUME ContextInv, NEW t \in Tasks, dev.curr = t, X!Return, dev.arch = "armv7m"
    PROVE  ContextInv'
  <1> DEFINE l == loc[t]
             m == dev.stack[t]
             p == hw.sp
             g == dev'.stack[t]
  <1>1. /\ t # Nobody /\ CtxShape /\ CtxMode /\ CtxStack(t) /\ CtxRuns(t)
        /\ DOMAIN dev.stack[t] = 1..StackWords
        /\ l.sp \in Int /\ l.sp >= 12 /\ Len(l.pushed) \in Nat
        /\ l.sp + Len(l.pushed) <= StackWords + 1
        /\ X!Aligned(l.sp) \in Int /\ X!Aligned(l.sp) + (l.sp % 2) = l.sp /\ l.sp % 2 \in {0, 1}
    BY CtxStopped
  <1>2. hw.phase = "restored" /\ UNCHANGED <<lock, pc, loc>> /\ X!ReturnM
        /\ dev' = [dev EXCEPT !.stack[dev.curr] = X!Forget(@, hw'.sp)]
    BY DEF X!Return, X!ReturnA
  <1>3. CtxRestored(t) /\ hw.exc = <<TRUE>>
    BY <1>1, <1>2 DEF CtxRuns, CtxMode
  <1>4. hw.exc[1] = TRUE
    BY <1>3
  <1>5. /\ m[p] = l.reg["r0"] /\ hw.reg["hi"] = l.reg["hi"] /\ hw.reg["fq"] = l.reg["fq"]
        /\ m[p + 1] = l.reg["lo"] /\ m[p + 3] = l.reg["lr"] /\ m[p + 4] = l.reg["pc"]
        /\ m[p + 5] = <<l.reg["psr"], l.sp % 2>> /\ m[p + 6] = l.reg["fp"]
        /\ p = X!Aligned(l.sp) - 8
    BY <1>3 DEF CtxRestored, FrameM
  <1>6. hw' = [hw EXCEPT !.phase = "user", !.exc = <<>>, !.registers = 0, !.fpca = TRUE,
                         !.sp = p + 8 + m[p + 5][2],
                         !.reg = [hw.reg EXCEPT !["r0"] = m[p], !["lo"] = m[p + 1],
                                           !["lr"] = m[p + 3], !["pc"] = m[p + 4],
                                           !["psr"] = m[p + 5][1], !["fp"] = m[p + 6]]]
    BY <1>2, <1>4 DEF X!ReturnM, X!Mem
  <1>7. m[p + 5][1] = l.reg["psr"] /\ m[p + 5][2] = l.sp % 2
    BY <1>5
  <1> HIDE DEF m
  <1>8. /\ DOMAIN hw' = DOMAIN hw /\ hw'.phase = "user" /\ hw'.fpca = TRUE
        /\ hw'.sp = p + 8 + m[p + 5][2] /\ hw'.svc = hw.svc
        /\ hw'.reg = [hw.reg EXCEPT !["r0"] = m[p], !["lo"] = m[p + 1],
                                    !["lr"] = m[p + 3], !["pc"] = m[p + 4],
                                    !["psr"] = m[p + 5][1], !["fp"] = m[p + 6]]
    BY <1>1, <1>6 DEF CtxShape
  <1>9. hw'.sp = l.sp
    BY <1>1, <1>5, <1>7, <1>8
  <1>10. /\ DOMAIN hw'.reg = Regs /\ \A x \in Regs : hw'.reg[x] = l.reg[x]
    <2>1. /\ DOMAIN hw'.reg = Regs /\ hw'.reg["r0"] = m[p] /\ hw'.reg["lo"] = m[p + 1]
          /\ hw'.reg["lr"] = m[p + 3] /\ hw'.reg["pc"] = m[p + 4]
          /\ hw'.reg["psr"] = m[p + 5][1] /\ hw'.reg["fp"] = m[p + 6]
          /\ hw'.reg["hi"] = hw.reg["hi"] /\ hw'.reg["fq"] = hw.reg["fq"]
      BY <1>1, <1>8 DEF CtxShape, Regs, X!Core, X!Fpu
    <2> QED BY <1>5, <1>7, <2>1 DEF Regs, X!Core, X!Fpu
  <1>11. /\ DOMAIN dev' = DOMAIN dev /\ dev'.arch = dev.arch /\ dev'.stack_base = dev.stack_base
         /\ dev'.stack_top = dev.stack_top /\ dev'.running = dev.running /\ dev'.curr = t
         /\ dev'.task_switching = dev.task_switching /\ DOMAIN dev'.stack = X!Holders
         /\ \A u \in Tasks \ {t} : dev'.stack[u] = dev.stack[u]
         /\ g = X!Forget(dev.stack[t], l.sp)
    BY <1>1, <1>2, <1>9, CtxNumbers DEF CtxShape
  <1>12. DOMAIN g = 1..StackWords /\ \A a \in 1..StackWords : a >= l.sp => g[a] = dev.stack[t][a]
    <2>1. IsForgotten(dev.stack[t], l.sp, X!Forget(dev.stack[t], l.sp))
      BY <1>1, ForgetRead
    <2> QED BY <1>11, <2>1 DEF IsForgotten
  <1>13. CtxShape'
    BY <1>1, <1>2, <1>8, <1>10, <1>11 DEF CtxShape
  <1>14. CtxMode'
    BY <1>1, <1>8, <1>11 DEF CtxMode
  <1>15. CtxStack(t)'
    BY <1>1, <1>2, <1>11, <1>12, CtxStackStays
  <1>16. X!Own' = Regs
    BY <1>11 DEF X!Own, Regs
  <1>17. CtxRuns(t)'
    BY <1>2, <1>8, <1>9, <1>10, <1>16 DEF CtxRuns
  <1> QED BY <1>2, <1>11, <1>12, <1>13, <1>14, <1>15, <1>17, CtxOne

\* What a task that begins finds on its stack, on which nothing has been pushed.
Begun(m, base, f, g) ==
    LET l == [reg |-> f, sp |-> base, pushed |-> <<>>]
    IN  IF dev.arch = "armv7a"
        THEN StoredA(g, base - 6, l) /\ g[base - 6 + 2] = f["r0"]
        ELSE StoredM(g, base - 10, l) /\ g[base - 10 + 2] = f["r0"]

LEMMA CtxCreated ==
    ASSUME CtxShape, NEW t \in Tasks, NEW m, DOMAIN m = 1..StackWords, NEW base,
           base = X!Aligned(dev.stack_base)
    PROVE  /\ DOMAIN X!Push(m, base, X!create_context(t)) = 1..StackWords
           /\ Len(X!create_context(t)) = IF dev.arch = "armv7a" THEN 6 ELSE 10
           /\ Begun(m, base, X!Fresh(t), X!Push(m, base, X!create_context(t)))
           /\ base \in Int /\ base % 2 = 0
  <1> DEFINE c == X!create_context(t)
             f == X!Fresh(t)
             l == [reg |-> f, sp |-> base, pushed |-> <<>>]
             g == X!Push(m, base, c)
  <1>1. /\ base \in Int /\ base >= 12 /\ base <= StackWords + 1 /\ StackWords \in Nat
        /\ base % 2 = 0 /\ X!Aligned(base) = base
    <2>1. /\ dev.stack_base \in Int /\ dev.stack_base >= StackWords /\ dev.stack_base <= StackWords + 1
          /\ StackWords \in Nat /\ StackWords >= 13
      <3>1. dev.stack_base \in {StackWords, StackWords + 1}
        BY DEF CtxShape
      <3>2. StackWords \in Nat /\ MaxPushed \in Nat /\ StackWords >= 13 + MaxPushed
        BY CtxNumbers
      <3> QED BY <3>1, <3>2
    <2>2. base = dev.stack_base - (dev.stack_base % 2) /\ dev.stack_base % 2 \in {0, 1}
      BY <2>1, CtxNumbers
    <2>3. base \in Int /\ base >= 12 /\ base <= StackWords + 1 /\ base % 2 = 0
      BY <2>1, <2>2
    <2>4. X!Aligned(base) = base - (base % 2)
      BY <2>3, CtxNumbers
    <2> QED BY <2>1, <2>3, <2>4
  <1>2. /\ f["psr"] = X!Word("usr", t, 0) /\ f["pc"] = X!Word("pc", t, 0) /\ f["lr"] = X!lptr
        /\ f["r0"] = X!Zero /\ f["lo"] = X!Zero /\ f["hi"] = X!Zero /\ f["fp"] = X!Zero
        /\ f["fq"] = X!Zero
    BY DEF X!Fresh, X!Core, X!Fpu, X!lptr
  <1>3. CASE dev.arch = "armv7a"
    <2>1. c = <<f["pc"], X!Zero, X!Zero, X!Zero, f["psr"], f["lr"]>>
      BY <1>2, <1>3 DEF X!create_context, X!CreateContextA
    <2>2. c = UserOf(l, X!Zero)
      BY <1>2, <2>1 DEF UserOf
    <2>3. Len(c) = 6
      BY <2>1
    <2>4. l.sp = base /\ l.reg = f
      OBVIOUS
    <2> HIDE DEF c, l, f
    <2>5. UserKept(m, l, X!Zero, X!Push(m, l.sp, UserOf(l, X!Zero)))
      BY <1>1, <2>4, UserStored
    <2>6. UserKept(m, l, X!Zero, g)
      BY <2>2, <2>4, <2>5
    <2> HIDE DEF g
    <2>7. DOMAIN g = 1..StackWords /\ StoredA(g, base - 6, l) /\ g[base - 6 + 2] = f["r0"]
      BY <1>2, <2>4, <2>6 DEF UserKept
    <2> QED BY <1>1, <1>3, <2>3, <2>7 DEF Begun, c, g, l, f
  <1>4. CASE dev.arch # "armv7a"
    <2>1. c = <<X!Zero, X!Zero, <<f["psr"], 0>>, f["pc"], f["lr"], X!Zero, X!Zero, X!Zero, X!Zero,
                X!Zero>>
      BY <1>2, <1>4 DEF X!create_context, X!CreateContextM
    <2> HIDE DEF c, f
    <2>2. /\ Len(c) = 10 /\ c[2] = X!Zero /\ c[3] = <<f["psr"], 0>> /\ c[4] = f["pc"]
          /\ c[5] = f["lr"] /\ c[7] = X!Zero /\ c[8] = X!Zero /\ c[9] = X!Zero /\ c[10] = X!Zero
      BY <2>1
    <2>3. IsPushed(m, base, c, g)
      <3>1. Len(c) \in Nat /\ Len(c) < base
        BY <1>1, <2>2
      <3> QED BY <1>1, <3>1, PushRead
    <2> HIDE DEF g
    <2>4. DOMAIN g = 1..StackWords /\ \A i \in 1..10 : g[base - i] = c[i]
      BY <2>2, <2>3 DEF IsPushed
    <2>5. /\ g[base - 2] = c[2] /\ g[base - 3] = c[3] /\ g[base - 4] = c[4] /\ g[base - 5] = c[5]
          /\ g[base - 7] = c[7] /\ g[base - 8] = c[8] /\ g[base - 9] = c[9] /\ g[base - 10] = c[10]
      BY <2>4
    <2>6. /\ base - 2 = base - 10 + 2 + 6 /\ base - 3 = base - 10 + 2 + 5
          /\ base - 4 = base - 10 + 2 + 4 /\ base - 5 = base - 10 + 2 + 3
          /\ base - 7 = base - 10 + 2 + 1 /\ base - 8 = base - 10 + 2 /\ base - 9 = base - 10 + 1
      BY <1>1
    <2>7. l.sp = base /\ l.reg = f
      OBVIOUS
    <2> HIDE DEF l
    <2>8. FrameM(g, base - 10 + 2, l)
      <3>1. base - 10 + 2 = X!Aligned(base) - 8
        BY <1>1
      <3> QED BY <1>1, <1>2, <2>2, <2>5, <2>6, <2>7, <3>1 DEF FrameM
    <2>9. StoredM(g, base - 10, l)
      BY <1>1, <1>2, <2>2, <2>5, <2>6, <2>7, <2>8 DEF StoredM
    <2>10. g[base - 10 + 2] = f["r0"]
      BY <1>2, <2>2, <2>5, <2>6
    <2> QED BY <1>1, <1>4, <2>2, <2>4, <2>9, <2>10 DEF Begun, c, g, l, f
  <1> QED BY <1>3, <1>4

\* The stacks once the handler has stored the result of a call, and once it has
\* dropped that of a task that ended.
Handled ==
    IF hw.svc /\ hw.registers # 0
    THEN [dev.stack EXCEPT ![dev.curr][X!R0] = X!Word("ret", dev.curr, 0)] ELSE dev.stack
Left(kept) ==
    IF dev.curr = kept THEN Handled
    ELSE [Handled EXCEPT ![dev.curr] = X!Forget(@, dev.stack_base)]

\* The parts of a switch to t.
Switched(t, tops, run, stacks) ==
    /\ DOMAIN dev' = DOMAIN dev /\ dev'.arch = dev.arch /\ dev'.stack_base = dev.stack_base
    /\ dev'.task_switching = TRUE /\ dev'.curr = t
    /\ DOMAIN dev'.stack = X!Holders /\ DOMAIN dev'.stack_top = Tasks
    /\ DOMAIN dev'.running = Tasks /\ dev'.running[t] = TRUE
    /\ \A u \in Tasks \ {t} : /\ dev'.stack[u] = stacks[u] /\ dev'.stack_top[u] = tops[u]
                              /\ dev'.running[u] = run[u] /\ loc'[u] = loc[u]
    /\ DOMAIN hw' = DOMAIN hw /\ hw'.phase = "handled" /\ hw'.exc = hw.exc
    /\ hw'.reg = hw.reg /\ hw'.svc = hw.svc /\ hw'.sp = dev'.stack_top[t]
    /\ DOMAIN loc' = Tasks
    /\ run[t] => dev'.stack[t] = stacks[t] /\ loc'[t] = loc[t] /\ dev'.stack_top[t] = tops[t]
    /\ ~run[t] => /\ dev'.stack[t] = X!Push(stacks[t], X!Aligned(tops[t]), X!create_context(t))
                  /\ loc'[t] = [reg |-> X!Fresh(t), sp |-> X!Aligned(tops[t]), pushed |-> <<>>]
                  /\ dev'.stack_top[t] = X!Aligned(tops[t]) - Len(X!create_context(t))

LEMMA CtxSwitchTo ==
    ASSUME CtxShape, NEW t \in Tasks, NEW tops, DOMAIN tops = Tasks, NEW run,
           DOMAIN run = Tasks, NEW kept, X!SwitchTo(t, tops, run, kept)
    PROVE  Switched(t, tops, run, Left(kept))
  <1> DEFINE frame == X!create_context(t)
             base == X!Aligned(tops[t])
             stacks == Left(kept)
             top == IF run[t] THEN tops[t] ELSE base - Len(frame)
             fresh == [reg |-> X!Fresh(t), sp |-> base, pushed |-> <<>>]
             pushed == X!Push(stacks[t], base, frame)
  <1>1. /\ dev' = [dev EXCEPT !.task_switching = TRUE, !.curr = t,
                              !.running = [run EXCEPT ![t] = TRUE],
                              !.stack_top = [tops EXCEPT ![t] = top],
                              !.stack = IF run[t] THEN stacks ELSE [stacks EXCEPT ![t] = pushed]]
        /\ hw' = [hw EXCEPT !.phase = "handled", !.sp = top]
        /\ loc' = IF run[t] THEN loc ELSE [loc EXCEPT ![t] = fresh]
    BY DEF X!SwitchTo, Handled, Left
  <1> HIDE DEF base, stacks, frame, top, fresh, pushed
  <1>2. DOMAIN stacks = X!Holders /\ t \in X!Holders
    BY CtxNumbers DEF CtxShape, Handled, Left, stacks
  <1>3. /\ DOMAIN dev' = DOMAIN dev /\ dev'.arch = dev.arch /\ dev'.stack_base = dev.stack_base
        /\ dev'.task_switching = TRUE /\ dev'.curr = t
        /\ dev'.running = [run EXCEPT ![t] = TRUE] /\ dev'.stack_top = [tops EXCEPT ![t] = top]
        /\ dev'.stack = IF run[t] THEN stacks ELSE [stacks EXCEPT ![t] = pushed]
    BY <1>1 DEF CtxShape
  <1>4. /\ DOMAIN hw' = DOMAIN hw /\ hw'.phase = "handled" /\ hw'.exc = hw.exc
        /\ hw'.reg = hw.reg /\ hw'.svc = hw.svc /\ hw'.sp = top
    BY <1>1 DEF CtxShape
  <1>5. /\ DOMAIN dev'.running = Tasks /\ dev'.running[t] = TRUE
        /\ \A u \in Tasks \ {t} : dev'.running[u] = run[u]
    BY <1>3
  <1>6. /\ DOMAIN dev'.stack_top = Tasks /\ dev'.stack_top[t] = top
        /\ \A u \in Tasks \ {t} : dev'.stack_top[u] = tops[u]
    BY <1>3
  <1>7. /\ DOMAIN dev'.stack = X!Holders
        /\ \A u \in Tasks \ {t} : dev'.stack[u] = stacks[u]
        /\ dev'.stack[t] = IF run[t] THEN stacks[t] ELSE pushed
    <2>1. CASE run[t]
      BY <1>2, <1>3, <2>1
    <2>2. CASE ~run[t]
      <3>1. dev'.stack = [stacks EXCEPT ![t] = pushed]
        BY <1>3, <2>2
      <3>2. Tasks \subseteq X!Holders
        BY CtxNumbers
      <3> QED BY <1>2, <2>2, <3>1, <3>2
    <2> QED BY <2>1, <2>2
  <1>8. /\ DOMAIN loc' = Tasks /\ \A u \in Tasks \ {t} : loc'[u] = loc[u]
        /\ loc'[t] = IF run[t] THEN loc[t] ELSE fresh
    BY <1>1 DEF CtxShape
  <1> QED BY <1>2, <1>3, <1>4, <1>5, <1>6, <1>7, <1>8 DEF Switched, base, stacks, frame, top, fresh, pushed

\* With the result of the call, the task that it came from can go on.
LEMMA CtxMem ==
    ASSUME ContextInv, hw.phase = "saved"
    PROVE  /\ \A u \in Tasks : u # dev.curr => Handled[u] = dev.stack[u]
           /\ dev.curr \in Tasks =>
                 R0Put(dev.stack[dev.curr], hw.sp, loc[dev.curr], loc[dev.curr].reg["r0"],
                       Handled[dev.curr])
  <1>1. CtxShape
    BY DEF ContextInv
  <1>2. ASSUME NEW u \in Tasks, u # dev.curr PROVE Handled[u] = dev.stack[u]
    BY <1>1, <1>2, CtxNumbers DEF CtxShape, Handled
  <1>3. ASSUME NEW t \in Tasks, dev.curr = t
        PROVE  R0Put(dev.stack[t], hw.sp, loc[t], loc[t].reg["r0"], Handled[t])
    <2> DEFINE l == loc[t]
               w == X!Word("ret", t, 0)
               m == dev.stack[t]
    <2>1. /\ CtxRuns(t) /\ DOMAIN m = 1..StackWords
          /\ l.sp \in Int /\ l.sp >= 12 /\ l.sp <= StackWords + 1
      BY <1>3, CtxStopped
    <2>2. /\ Stored(m, hw.sp, l) /\ R0Kept(t, m[hw.sp + 2])
          /\ hw.registers # 0 /\ X!R0 = hw.sp + 2
      BY <2>1 DEF CtxRuns
    <2>3. CASE hw.svc
      <3>1. l.reg["r0"] = w
        BY <2>2, <2>3 DEF R0Kept
      <3>2. Handled[t] = [m EXCEPT ![hw.sp + 2] = w]
        BY <1>1, <1>3, <2>2, <2>3, CtxNumbers DEF CtxShape, Handled
      <3>3. R0Put(m, hw.sp, l, w, [m EXCEPT ![hw.sp + 2] = w])
        BY <2>1, <2>2, R0Stored
      <3> QED BY <3>1, <3>2, <3>3
    <2>4. CASE ~hw.svc
      <3>1. Handled[t] = m /\ m[hw.sp + 2] = l.reg["r0"]
        BY <2>2, <2>4 DEF R0Kept, Handled
      <3> QED BY <2>1, <2>2, <3>1 DEF R0Put
    <2> QED BY <2>3, <2>4
  <1> QED BY <1>2, <1>3

LEMMA CtxStackSame ==
    ASSUME NEW t \in Tasks, CtxStack(t), dev'.stack[t] = dev.stack[t], loc'[t] = loc[t],
           dev'.stack_base = dev.stack_base
    PROVE  CtxStack(t)'
  BY DEF CtxStack

\* The task t that a switch goes to: it goes on, or begins.
LEMMA CtxGoes ==
    ASSUME NEW t \in Tasks, DOMAIN dev'.stack[t] = 1..StackWords, dev'.running[t] = TRUE,
           dev'.curr = t, pc'[t] = "run", hw'.phase = "handled", CtxStack(t)',
           Stored(dev.stack[t], hw.sp, loc[t])', (dev.stack[t][hw.sp + 2] = loc[t].reg["r0"])'
    PROVE  CtxTask(t)'
  BY DEF CtxTask, CtxRuns, CtxStack

LEMMA CtxBegins ==
    ASSUME CtxShape, NEW t \in Tasks, NEW m, DOMAIN m = 1..StackWords, NEW base,
           base = X!Aligned(dev.stack_base), dev'.arch = dev.arch,
           dev'.stack_base = dev.stack_base, dev'.running[t] = TRUE, dev'.curr = t,
           pc'[t] = "run", hw'.phase = "handled",
           dev'.stack[t] = X!Push(m, base, X!create_context(t)),
           loc'[t] = [reg |-> X!Fresh(t), sp |-> base, pushed |-> <<>>],
           hw'.sp = base - Len(X!create_context(t))
    PROVE  CtxTask(t)'
  <1> DEFINE f == X!Fresh(t)
             g == dev'.stack[t]
             c == X!create_context(t)
  <1>1. /\ DOMAIN g = 1..StackWords /\ Len(c) = (IF dev.arch = "armv7a" THEN 6 ELSE 10)
        /\ Begun(m, base, f, g) /\ base \in Int /\ base % 2 = 0
    BY CtxCreated
  <1>2. DOMAIN f = Regs /\ f["psr"][1] = "usr"
    BY DEF X!Fresh, Regs, X!Core, X!Fpu, X!Word
  <1> HIDE DEF f, c
  <1>3. /\ DOMAIN loc'[t] = {"reg", "sp", "pushed"} /\ loc'[t].reg = f /\ loc'[t].sp = base
        /\ loc'[t].pushed = <<>>
    BY DEF f
  <1>4. CtxStack(t)'
    <2>1. <<>> \in Seq(Pushed) /\ Len(<<>>) = 0
      OBVIOUS
    <2>2. 0 <= MaxPushed /\ base + 0 = X!Aligned(dev.stack_base)
      BY <1>1, CtxNumbers
    <2> QED BY <1>1, <1>2, <1>3, <2>1, <2>2 DEF CtxStack
  <1>5. Stored(g, hw'.sp, loc'[t]) /\ g[hw'.sp + 2] = f["r0"]
    BY <1>1 DEF Begun, Stored, f, c
  <1>6. Stored(dev.stack[t], hw.sp, loc[t])' /\ (dev.stack[t][hw.sp + 2] = loc[t].reg["r0"])'
    BY <1>3, <1>5 DEF Stored
  <1> QED BY <1>1, <1>4, <1>6, CtxGoes

LEMMA CtxTaskSwitch ==
    ASSUME ContextInv, NEW t \in Tasks, X!task_switch(t), NEW old, dev.curr = old
    PROVE  ContextInv'
  <1> DEFINE run == dev.running
             tops == X!SaveTop(dev.stack_top, old)
             base == X!Aligned(tops[t])
  <1>0. hw.phase = "saved" /\ X!SwitchTo(t, tops, run, old)
        /\ pc' = [u \in Tasks |-> IF u = t THEN "run" ELSE IF u = old THEN "out" ELSE pc[u]]
    BY DEF X!task_switch
  <1>1. CtxShape /\ CtxMode /\ \A u \in Tasks : CtxTask(u)
    BY DEF ContextInv
  <1>2. /\ DOMAIN tops = Tasks /\ DOMAIN run = Tasks
        /\ \A u \in Tasks : tops[u] = IF u = old THEN hw.sp ELSE dev.stack_top[u]
    BY <1>1, CtxNumbers DEF CtxShape, X!SaveTop
  <1>3. /\ \A u \in Tasks : u # old => Handled[u] = dev.stack[u]
        /\ old \in Tasks => R0Put(dev.stack[old], hw.sp, loc[old], loc[old].reg["r0"], Handled[old])
    BY <1>0, CtxMem
  <1>4. Left(old) = Handled
    BY DEF Left
  <1> HIDE DEF tops
  <1>5. /\ DOMAIN dev' = DOMAIN dev /\ dev'.arch = dev.arch /\ dev'.stack_base = dev.stack_base
        /\ dev'.task_switching = TRUE /\ dev'.curr = t
        /\ DOMAIN dev'.stack = X!Holders /\ DOMAIN dev'.stack_top = Tasks
        /\ DOMAIN dev'.running = Tasks /\ dev'.running[t] = TRUE
        /\ \A u \in Tasks \ {t} : /\ dev'.stack[u] = Handled[u] /\ dev'.stack_top[u] = tops[u]
                                  /\ dev'.running[u] = run[u] /\ loc'[u] = loc[u]
        /\ DOMAIN hw' = DOMAIN hw /\ hw'.phase = "handled" /\ hw'.exc = hw.exc
        /\ hw'.reg = hw.reg /\ hw'.svc = hw.svc /\ hw'.sp = dev'.stack_top[t]
        /\ DOMAIN loc' = Tasks
        /\ run[t] => dev'.stack[t] = Handled[t] /\ loc'[t] = loc[t] /\ dev'.stack_top[t] = tops[t]
        /\ ~run[t] => /\ dev'.stack[t] = X!Push(Handled[t], base, X!create_context(t))
                      /\ loc'[t] = [reg |-> X!Fresh(t), sp |-> base, pushed |-> <<>>]
                      /\ dev'.stack_top[t] = base - Len(X!create_context(t))
    <2>1. X!SwitchTo(t, tops, run, old)
      BY <1>0 DEF tops
    <2>2. DOMAIN tops = Tasks /\ DOMAIN run = Tasks
      BY <1>2
    <2>3. Switched(t, tops, run, Left(old))
      BY <1>1, <2>1, <2>2, CtxSwitchTo
    <2> QED BY <1>4, <2>3 DEF Switched
  <1>6. CtxShape'
    BY <1>0, <1>1, <1>5 DEF CtxShape
  <1>7. CtxMode'
    <2>1. t \in X!Holders /\ t # Nobody
      BY CtxNumbers
    <2>2. /\ dev.arch = "armv7a" => Len(hw.exc) = 5 /\ hw.exc[5][1] = "usr"
          /\ dev.arch = "armv7m" => hw.exc = <<TRUE>>
      BY <1>0, <1>1 DEF CtxMode
    <2> QED BY <1>5, <2>1, <2>2 DEF CtxMode
  <1>8. ASSUME NEW u \in Tasks \ {t}, u # old PROVE CtxTask(u)'
    BY <1>0, <1>1, <1>2, <1>3, <1>5, <1>8, CtxOther
  \* What the task that was stopped leaves.
  <1>9. ASSUME old \in Tasks
        PROVE  /\ DOMAIN Handled[old] = 1..StackWords /\ Stored(Handled[old], hw.sp, loc[old])
               /\ Handled[old][hw.sp + 2] = loc[old].reg["r0"] /\ run[old] /\ CtxStack(old)
               /\ \A a \in 1..StackWords : a >= loc[old].sp => Handled[old][a] = dev.stack[old][a]
               /\ loc[old].sp \in Int /\ loc[old].sp >= 12 /\ Len(loc[old].pushed) \in Nat
               /\ loc[old].sp + Len(loc[old].pushed) <= StackWords + 1
    BY <1>3, <1>9, CtxStopped DEF R0Put
  <1>10. ASSUME old \in Tasks, old # t PROVE CtxTask(old)'
    <2>1. dev'.stack[old] = Handled[old] /\ dev'.stack_top[old] = hw.sp /\ dev'.running[old]
          /\ loc'[old] = loc[old] /\ pc'[old] = "out"
      BY <1>0, <1>2, <1>5, <1>9, <1>10
    <2>2. CtxStack(old)'
      <3>1. \A a \in 1..StackWords : a >= loc[old].sp => dev'.stack[old][a] = dev.stack[old][a]
        BY <1>9, <1>10, <2>1
      <3> QED BY <1>5, <1>9, <1>10, <2>1, <3>1, CtxStackStays
    <2>3. Stored(dev.stack[old], dev.stack_top[old], loc[old])'
      BY <1>5, <1>9, <1>10, <2>1 DEF Stored
    <2>4. (dev.stack[old][dev.stack_top[old] + 2] = loc[old].reg["r0"])'
      BY <1>9, <1>10, <2>1
    <2> QED BY <1>5, <1>9, <1>10, <2>1, <2>2, <2>3, <2>4 DEF CtxTask, CtxStack
  <1>11. CtxTask(t)'
    <2>1. CASE t = old
      <3>1. dev'.stack[t] = Handled[t] /\ loc'[t] = loc[t] /\ hw'.sp = hw.sp /\ pc'[t] = "run"
            /\ DOMAIN dev'.stack[t] = 1..StackWords
        BY <1>0, <1>2, <1>5, <1>9, <2>1
      <3>2. CtxStack(t)'
        <4>1. \A a \in 1..StackWords : a >= loc[t].sp => dev'.stack[t][a] = dev.stack[t][a]
          BY <1>9, <2>1, <3>1
        <4> QED BY <1>5, <1>9, <2>1, <3>1, <4>1, CtxStackStays
      <3>3. Stored(dev.stack[t], hw.sp, loc[t])' /\ (dev.stack[t][hw.sp + 2] = loc[t].reg["r0"])'
        BY <1>5, <1>9, <2>1, <3>1 DEF Stored
      <3> QED BY <1>5, <1>9, <2>1, <3>1, <3>2, <3>3, CtxGoes
    <2>2. CASE t # old /\ run[t]
      <3>1. pc[t] = "out"
        BY <1>1, <2>2 DEF CtxTask
      <3>2. /\ dev'.stack[t] = dev.stack[t] /\ loc'[t] = loc[t] /\ hw'.sp = dev.stack_top[t]
            /\ pc'[t] = "run"
        BY <1>0, <1>2, <1>3, <1>5, <2>2
      <3>3. /\ CtxStack(t) /\ Stored(dev.stack[t], dev.stack_top[t], loc[t])
            /\ dev.stack[t][dev.stack_top[t] + 2] = loc[t].reg["r0"]
            /\ DOMAIN dev.stack[t] = 1..StackWords
        BY <1>1, <3>1 DEF CtxTask
      <3>4. CtxStack(t)'
        BY <1>5, <3>2, <3>3, CtxStackSame
      <3>5. Stored(dev.stack[t], hw.sp, loc[t])' /\ (dev.stack[t][hw.sp + 2] = loc[t].reg["r0"])'
        BY <1>5, <3>2, <3>3 DEF Stored
      <3> QED BY <1>5, <3>2, <3>3, <3>4, <3>5, CtxGoes
    <2>3. CASE ~run[t]
      <3>1. t # old
        BY <1>9, <2>3
      <3>2. pc[t] = "ready" /\ dev.stack_top[t] = dev.stack_base /\ DOMAIN dev.stack[t] = 1..StackWords
        BY <1>1, <2>3 DEF CtxTask
      <3>3. base = X!Aligned(dev.stack_base) /\ Handled[t] = dev.stack[t]
        BY <1>2, <1>3, <3>1, <3>2
      <3>4. pc'[t] = "run"
        BY <1>0
      <3> HIDE DEF base
      <3>5. /\ dev'.arch = dev.arch /\ dev'.stack_base = dev.stack_base /\ dev'.running[t] = TRUE
            /\ dev'.curr = t /\ hw'.phase = "handled"
            /\ dev'.stack[t] = X!Push(dev.stack[t], base, X!create_context(t))
            /\ loc'[t] = [reg |-> X!Fresh(t), sp |-> base, pushed |-> <<>>]
            /\ hw'.sp = base - Len(X!create_context(t))
        BY <1>5, <2>3, <3>3
      <3> QED BY <1>1, <3>2, <3>3, <3>4, <3>5, CtxBegins
    <2> QED BY <2>1, <2>2, <2>3
  <1>12. ASSUME NEW u \in Tasks PROVE CtxTask(u)'
    <2>1. CASE u = t
      BY <1>11, <2>1
    <2>2. CASE u # t /\ u = old
      BY <1>10, <2>2
    <2>3. CASE u # t /\ u # old
      BY <1>8, <2>3
    <2> QED BY <2>1, <2>2, <2>3
  <1> QED BY <1>6, <1>7, <1>12 DEF ContextInv

LEMMA CtxEndTask ==
    ASSUME ContextInv, NEW t \in Tasks, X!sched_svc_end_task(t), NEW old, dev.curr = old
    PROVE  ContextInv'
  <1> DEFINE run == [dev.running EXCEPT ![old] = FALSE]
             tops == [dev.stack_top EXCEPT ![old] = dev.stack_base]
             base == X!Aligned(tops[t])
  <1>0. hw.phase = "saved" /\ hw.svc /\ old \notin {Nobody, t} /\ X!SwitchTo(t, tops, run, Nobody)
        /\ pc' = [u \in Tasks |-> IF u = t THEN "run" ELSE IF u = old THEN "ready" ELSE pc[u]]
    BY DEF X!sched_svc_end_task
  <1>1. CtxShape /\ CtxMode /\ \A u \in Tasks : CtxTask(u)
    BY DEF ContextInv
  <1>2. old \in Tasks /\ t # old
    BY <1>0, <1>1, CtxNumbers DEF CtxMode
  <1>3. /\ DOMAIN tops = Tasks /\ DOMAIN run = Tasks
        /\ tops[old] = dev.stack_base /\ run[old] = FALSE
        /\ \A u \in Tasks : u # old => tops[u] = dev.stack_top[u] /\ run[u] = dev.running[u]
    BY <1>1, <1>2 DEF CtxShape
  <1> HIDE DEF tops, run
  <1>4. /\ \A u \in Tasks : u # old => Left(Nobody)[u] = dev.stack[u]
        /\ DOMAIN Left(Nobody)[old] = 1..StackWords
    <2>1. /\ \A u \in Tasks : u # old => Handled[u] = dev.stack[u]
          /\ DOMAIN Handled[old] = 1..StackWords
      BY <1>0, <1>2, CtxMem DEF R0Put
    <2>2. DOMAIN Handled = X!Holders
      BY <1>1 DEF CtxShape, Handled
    <2>3. Left(Nobody) = [Handled EXCEPT ![old] = X!Forget(@, dev.stack_base)]
      BY <1>0 DEF Left
    <2>4. dev.stack_base \in Int
      <3>1. dev.stack_base \in {StackWords, StackWords + 1} /\ StackWords \in Nat
        BY <1>1, CtxNumbers DEF CtxShape
      <3> QED BY <3>1
    <2>5. IsForgotten(Handled[old], dev.stack_base, X!Forget(Handled[old], dev.stack_base))
      BY <2>1, <2>4, ForgetRead
    <2>6. Tasks \subseteq X!Holders
      BY CtxNumbers
    <2> HIDE DEF Handled
    <2> QED BY <1>2, <2>1, <2>2, <2>3, <2>5, <2>6 DEF IsForgotten
  <1>5. /\ DOMAIN dev' = DOMAIN dev /\ dev'.arch = dev.arch /\ dev'.stack_base = dev.stack_base
        /\ dev'.task_switching = TRUE /\ dev'.curr = t
        /\ DOMAIN dev'.stack = X!Holders /\ DOMAIN dev'.stack_top = Tasks
        /\ DOMAIN dev'.running = Tasks /\ dev'.running[t] = TRUE
        /\ \A u \in Tasks \ {t} : /\ dev'.stack[u] = Left(Nobody)[u] /\ dev'.stack_top[u] = tops[u]
                                  /\ dev'.running[u] = run[u] /\ loc'[u] = loc[u]
        /\ DOMAIN hw' = DOMAIN hw /\ hw'.phase = "handled" /\ hw'.exc = hw.exc
        /\ hw'.reg = hw.reg /\ hw'.svc = hw.svc /\ hw'.sp = dev'.stack_top[t]
        /\ DOMAIN loc' = Tasks
        /\ run[t] => /\ dev'.stack[t] = Left(Nobody)[t] /\ loc'[t] = loc[t]
                     /\ dev'.stack_top[t] = tops[t]
        /\ ~run[t] => /\ dev'.stack[t] = X!Push(Left(Nobody)[t], base, X!create_context(t))
                      /\ loc'[t] = [reg |-> X!Fresh(t), sp |-> base, pushed |-> <<>>]
                      /\ dev'.stack_top[t] = base - Len(X!create_context(t))
    <2>1. X!SwitchTo(t, tops, run, Nobody)
      BY <1>0 DEF tops, run
    <2>2. DOMAIN tops = Tasks /\ DOMAIN run = Tasks
      BY <1>3
    <2>3. Switched(t, tops, run, Left(Nobody))
      BY <1>1, <2>1, <2>2, CtxSwitchTo
    <2> QED BY <2>3 DEF Switched
  <1>6. CtxShape'
    BY <1>0, <1>1, <1>5 DEF CtxShape
  <1>7. CtxMode'
    <2>1. t \in X!Holders /\ t # Nobody
      BY CtxNumbers
    <2>2. /\ dev.arch = "armv7a" => Len(hw.exc) = 5 /\ hw.exc[5][1] = "usr"
          /\ dev.arch = "armv7m" => hw.exc = <<TRUE>>
      BY <1>0, <1>1 DEF CtxMode
    <2> QED BY <1>5, <2>1, <2>2 DEF CtxMode
  <1>8. ASSUME NEW u \in Tasks \ {t}, u # old PROVE CtxTask(u)'
    BY <1>0, <1>1, <1>3, <1>4, <1>5, <1>8, CtxOther
  <1>9. CtxTask(old)'
    <2>1. /\ dev'.running[old] = FALSE /\ dev'.stack_top[old] = dev'.stack_base
          /\ DOMAIN dev'.stack[old] = 1..StackWords /\ loc'[old] = loc[old] /\ pc'[old] = "ready"
      BY <1>0, <1>2, <1>3, <1>4, <1>5
    <2>2. DOMAIN loc[old] = {"reg", "sp", "pushed"}
      BY <1>1, <1>2 DEF CtxTask
    <2> QED BY <1>2, <1>5, <2>1, <2>2 DEF CtxTask
  <1>10. CtxTask(t)'
    <2>1. CASE run[t]
      <3>1. pc[t] = "out"
        BY <1>1, <1>2, <1>3, <2>1 DEF CtxTask
      <3>2. /\ dev'.stack[t] = dev.stack[t] /\ loc'[t] = loc[t] /\ hw'.sp = dev.stack_top[t]
            /\ pc'[t] = "run"
        BY <1>0, <1>2, <1>3, <1>4, <1>5, <2>1
      <3>3. /\ CtxStack(t) /\ Stored(dev.stack[t], dev.stack_top[t], loc[t])
            /\ dev.stack[t][dev.stack_top[t] + 2] = loc[t].reg["r0"]
            /\ DOMAIN dev.stack[t] = 1..StackWords
        BY <1>1, <3>1 DEF CtxTask
      <3>4. CtxStack(t)'
        BY <1>5, <3>2, <3>3, CtxStackSame
      <3>5. Stored(dev.stack[t], hw.sp, loc[t])' /\ (dev.stack[t][hw.sp + 2] = loc[t].reg["r0"])'
        BY <1>5, <3>2, <3>3 DEF Stored
      <3> QED BY <1>5, <3>2, <3>3, <3>4, <3>5, CtxGoes
    <2>2. CASE ~run[t]
      <3>1. ~dev.running[t]
        BY <1>2, <1>3, <2>2
      <3>2. pc[t] = "ready" /\ dev.stack_top[t] = dev.stack_base /\ DOMAIN dev.stack[t] = 1..StackWords
        BY <1>1, <3>1 DEF CtxTask
      <3>3. base = X!Aligned(dev.stack_base) /\ Left(Nobody)[t] = dev.stack[t]
        BY <1>2, <1>3, <1>4, <3>2
      <3>4. pc'[t] = "run"
        BY <1>0
      <3> HIDE DEF base
      <3>5. /\ dev'.arch = dev.arch /\ dev'.stack_base = dev.stack_base /\ dev'.running[t] = TRUE
            /\ dev'.curr = t /\ hw'.phase = "handled"
            /\ dev'.stack[t] = X!Push(dev.stack[t], base, X!create_context(t))
            /\ loc'[t] = [reg |-> X!Fresh(t), sp |-> base, pushed |-> <<>>]
            /\ hw'.sp = base - Len(X!create_context(t))
        BY <1>5, <2>2, <3>3
      <3> QED BY <1>1, <3>2, <3>3, <3>4, <3>5, CtxBegins
    <2> QED BY <2>1, <2>2
  <1>11. ASSUME NEW u \in Tasks PROVE CtxTask(u)'
    <2>1. CASE u = t
      BY <1>10, <2>1
    <2>2. CASE u = old
      BY <1>9, <2>2
    <2>3. CASE u # t /\ u # old
      BY <1>8, <2>3
    <2> QED BY <2>1, <2>2, <2>3
  <1> QED BY <1>6, <1>7, <1>11 DEF ContextInv

LEMMA CtxStep ==
    ASSUME ContextInv, ~FpuTasks, [X!Next]_vars
    PROVE  ContextInv'
  <1>1. CtxShape /\ CtxMode
    BY DEF ContextInv
  <1>2. dev.arch \in {"armv7a", "armv7m"} /\ dev.curr \in Tasks \cup {Nobody}
    BY <1>1, CtxNumbers DEF CtxShape, CtxMode
  <1>3. CASE UNCHANGED vars
    <2>1. dev' = dev /\ hw' = hw /\ pc' = pc /\ loc' = loc
      BY <1>3 DEF vars
    <2>2. CtxShape' /\ CtxMode'
      BY <1>1, <2>1 DEF CtxShape, CtxMode
    <2>3. X!Own' = X!Own /\ X!R0' = X!R0
      BY <2>1 DEF X!Own, X!R0
    <2>4. ASSUME NEW t \in Tasks PROVE CtxTask(t)'
      <3>1. CtxTask(t)
        BY DEF ContextInv
      <3>2. CtxStack(t)' = CtxStack(t)
        BY <2>1 DEF CtxStack
      <3>3. CtxEntry(t)' = CtxEntry(t) /\ CtxRestored(t)' = CtxRestored(t)
        BY <2>1 DEF CtxEntry, CtxRestored, FrameM, R0Kept
      <3>4. CtxRuns(t)' = CtxRuns(t)
        BY <2>1, <2>3, <3>3 DEF CtxRuns, Stored, StoredA, StoredM, FrameM, R0Kept
      <3> QED BY <2>1, <3>1, <3>2, <3>4 DEF CtxTask, Stored, StoredA, StoredM, FrameM
    <2> QED BY <2>2, <2>4 DEF ContextInv
  <1>4. CASE X!start_sched
    BY <1>4, CtxStart
  <1>5. CASE X!save_context
    BY <1>2, <1>5, CtxSaveA, CtxSaveM, CtxSaveNone
  <1>6. CASE X!svc_handler
    <2>1. dev.curr # Nobody
      BY <1>6 DEF X!svc_handler
    <2> QED BY <1>2, <1>6, <2>1, CtxHandler
  <1>7. CASE X!restore_context
    <2>1. dev.curr # Nobody
      BY <1>1, <1>7 DEF X!restore_context, CtxMode
    <2> QED BY <1>2, <1>7, <2>1, CtxRestoreA, CtxRestoreM
  <1>8. CASE X!Return
    <2>1. dev.curr # Nobody
      BY <1>1, <1>8 DEF X!Return, CtxMode
    <2> QED BY <1>2, <1>8, <2>1, CtxReturnA, CtxReturnM
  <1>9. ASSUME NEW t \in Tasks,
               \/ X!Compute(t) \/ X!PushWord(t) \/ X!PopWord(t) \/ X!SVC(t) \/ X!Interrupt(t)
               \/ X!task_switch(t) \/ X!sched_svc_end_task(t)
        PROVE  ContextInv'
    BY <1>9, CtxCompute, CtxPushWord, CtxPopWord, CtxSVC, CtxInterrupt, CtxTaskSwitch, CtxEndTask
  <1> QED BY <1>3, <1>4, <1>5, <1>6, <1>7, <1>8, <1>9 DEF X!Next

LEMMA CtxGoal == ContextInv => X!ContextExact /\ X!StackKept
  <1> SUFFICES ASSUME ContextInv PROVE X!ContextExact /\ X!StackKept
    OBVIOUS
  <1>1. X!ContextExact
    BY CtxStopped DEF X!ContextExact, X!Runs, CtxRuns
  <1>2. ASSUME NEW t \in Tasks, pc[t] # "ready"
        PROVE  \A i \in DOMAIN loc[t].pushed : dev.stack[t][loc[t].sp + i - 1] = loc[t].pushed[i]
    <2>1. CtxStack(t)
      BY <1>2 DEF ContextInv, CtxTask
    <2>2. DOMAIN loc[t].pushed = 1..Len(loc[t].pushed)
      <3>1. loc[t].pushed \in Seq(Pushed)
        BY <2>1 DEF CtxStack
      <3> QED BY <3>1, LenProperties
    <2> QED BY <2>1, <2>2 DEF CtxStack
  <1> QED BY <1>1, <1>2 DEF X!StackKept

-------------------------------------------------------------------------------
(* The clocks *)

\* What init_clock has done before each of its steps.
StmInv ==
    /\ DOMAIN dev = {"part", "at", "count", "panic"} /\ dev.at \in 1..13
    /\ DOMAIN hw = {"HSEON", "HSERDY", "VOS", "PPRE", "PLLSRC", "PLLON", "PLLRDY",
                    "latency", "SW", "SWS", "CCM"}
    /\ dev.at <= 2 => ~hw.HSEON /\ ~hw.HSERDY
    /\ dev.at >= 4 => hw.HSERDY
    /\ dev.at >= 5 => hw.VOS
    /\ dev.at >= 6 => hw.PPRE = 4
    /\ dev.at >= 7 => hw.PLLSRC = "HSE"
    /\ dev.at <= 7 => ~hw.PLLON /\ ~hw.PLLRDY
    /\ dev.at >= 9 => hw.PLLRDY
    /\ dev.at >= 10 => hw.latency = 5
    /\ dev.at <= 10 => hw.SW = "HSI" /\ hw.SWS = "HSI"
    /\ dev.at >= 11 => hw.SW = "PLL"
    /\ dev.at >= 12 => hw.SWS = "PLL"

\* A driver has the clock of the bus that the table of buses names.
RccInv ==
    /\ DOMAIN dev = {"part", "at", "wanted"} /\ DOMAIN hw = {"ENR"}
    /\ \A t \in Tasks :
          /\ DOMAIN loc[t] = DOMAIN E!NoCall
          /\ pc[t] = "return" => loc[t].clock = E!rcc_bus_clock(E!periph_bus_lookup(loc[t].p))

\* What a call that reads the counter has read was there since it began: the upper
\* timer at c, the lower one at d, later.
PerfInv ==
    /\ DOMAIN dev = {"part", "at"} /\ DOMAIN hw = {"count"} /\ hw.count \in Nat
    /\ \A t \in Tasks : pc[t] # "idle" =>
          /\ DOMAIN loc[t] = {"start", "upper", "lower"}
          /\ loc[t].start \in 0..hw.count
          /\ pc[t] = "lower" => \E c \in loc[t].start..hw.count : loc[t].upper = c \div LowerCounts
          /\ pc[t] = "upper" =>
                \E d \in loc[t].start..hw.count : \E c \in loc[t].start..d :
                    loc[t].upper = c \div LowerCounts /\ loc[t].lower = d % LowerCounts
          /\ pc[t] = "return" => loc[t].upper * LowerCounts + loc[t].lower \in loc[t].start..hw.count

\* How far the PLL p is configured before the step at.
PllAt(p, at) ==
    /\ at >= 2 => hw.mode[p] = IF at <= 5 THEN "bypass" ELSE "locked"
    /\ at \in {3, 4, 5} => hw.status[p] = "bypass"
    /\ at >= 4 => hw.mn[p] = p
    /\ at >= 5 => hw.div[p] = p

\* The PLLs before the one that is being configured are done, and locked.
PllInv ==
    /\ DOMAIN dev = {"part", "at", "pll"} /\ dev.at \in 1..6 /\ dev.pll \in 1..5
    /\ DOMAIN hw = {"mode", "status", "mn", "div", "torn"} /\ hw.torn = FALSE
    /\ DOMAIN hw.mode = E!PllSet /\ DOMAIN hw.status = E!PllSet
    /\ DOMAIN hw.mn = E!PllSet /\ DOMAIN hw.div = E!PllSet
    /\ \A i \in 1..4 :
          /\ i < dev.pll => PllAt(E!Plls[i], 6) /\ hw.status[E!Plls[i]] = "locked"
          /\ i = dev.pll => PllAt(E!Plls[i], dev.at)

ClocksInv ==
    /\ DOMAIN pc = Tasks /\ DOMAIN loc = Tasks
    /\ dev.part \in {"init_clock", "rcc", "perf", "pll", "prcm"}
    /\ DOMAIN dev \in {{"part", "at", "count", "panic"}, {"part", "at", "wanted"}, {"part", "at"},
                       {"part", "at", "pll"}, {"part", "at", "node"}}
    /\ dev.part = "init_clock" => StmInv
    /\ dev.part = "rcc" => RccInv
    /\ dev.part = "perf" => PerfInv
    /\ dev.part = "pll" => PllInv

LEMMA ClocksInit == E!Init => ClocksInv
  <1> SUFFICES ASSUME E!Init PROVE ClocksInv
    OBVIOUS
  <1>1. DOMAIN pc = Tasks /\ DOMAIN loc = Tasks /\ \A t \in Tasks : pc[t] = "idle" /\ loc[t] = E!NoCall
    BY DEF E!Init
  <1>2. CASE E!StmInit
    BY <1>1, <1>2 DEF E!StmInit, ClocksInv, StmInv
  <1>3. CASE E!RccInit
    BY <1>1, <1>3 DEF E!RccInit, ClocksInv, RccInv
  <1>4. CASE E!PerfInit
    BY <1>1, <1>4 DEF E!PerfInit, ClocksInv, PerfInv
  <1>5. CASE E!PllInit
    BY <1>1, <1>5 DEF E!PllInit, ClocksInv, PllInv, PllAt, E!Plls, E!PllSet
  <1>6. CASE E!PrcmInit
    BY <1>1, <1>6 DEF E!PrcmInit, ClocksInv
  <1> QED BY <1>2, <1>3, <1>4, <1>5, <1>6 DEF E!Init

LEMMA StmStep ==
    ASSUME ClocksInv, dev.part = "init_clock", E!init_clock \/ E!HseWait \/ E!Rcc
    PROVE  ClocksInv'
  <1>1. UNCHANGED <<lock, pc, loc>> /\ StmInv
    BY DEF E!init_clock, E!HseWait, E!Rcc, E!Frame, ClocksInv
  <1>2. ASSUME dev'.part = "init_clock", DOMAIN dev' = DOMAIN dev, StmInv' PROVE ClocksInv'
    BY <1>1, <1>2 DEF ClocksInv, StmInv
  <1>3. CASE E!Rcc
    BY <1>1, <1>2, <1>3 DEF E!Rcc, StmInv
  <1>4. CASE E!HseWait
    BY <1>1, <1>2, <1>4 DEF E!HseWait, StmInv, E!Steps
  <1>5. CASE E!init_clock
    <2>1. ASSUME NEW i \in 1..13, dev.at = i PROVE StmInv'
      BY <1>1, <1>5, <2>1 DEF E!init_clock, StmInv, E!Steps, E!Written, E!Waits
    <2>2. dev'.part = "init_clock" /\ DOMAIN dev' = DOMAIN dev
      BY <1>1, <1>5 DEF E!init_clock, StmInv
    <2> QED BY <1>1, <1>2, <2>1, <2>2 DEF StmInv
  <1> QED BY <1>3, <1>4, <1>5

LEMMA RccStep ==
    ASSUME ClocksInv, dev.part = "rcc", NEW t \in Tasks,
           E!RccCall(t) \/ E!RccLoad(t) \/ E!rcc_set_clock_enable(t) \/ E!rcc_peripheral_bus(t)
    PROVE  ClocksInv'
  <1>1. RccInv /\ DOMAIN pc = Tasks /\ DOMAIN loc = Tasks
    BY DEF ClocksInv
  <1>2. ASSUME dev'.part = "rcc", DOMAIN dev' = DOMAIN dev, RccInv',
               DOMAIN pc' = Tasks, DOMAIN loc' = Tasks
        PROVE  ClocksInv'
    BY <1>1, <1>2 DEF ClocksInv
  <1> USE DEF E!Step, E!Goto, E!Set, RccInv, E!NoCall
  <1>3. CASE E!RccCall(t)
    BY <1>1, <1>2, <1>3 DEF E!RccCall
  <1>4. CASE E!RccLoad(t)
    BY <1>1, <1>2, <1>4 DEF E!RccLoad
  <1>5. CASE E!rcc_set_clock_enable(t)
    BY <1>1, <1>2, <1>5 DEF E!rcc_set_clock_enable
  <1>6. CASE E!rcc_peripheral_bus(t)
    BY <1>1, <1>2, <1>6 DEF E!rcc_peripheral_bus
  <1> QED BY <1>3, <1>4, <1>5, <1>6

LEMMA PerfStep ==
    ASSUME ClocksInv, dev.part = "perf",
           \/ E!PerfTick
           \/ \E t \in Tasks : E!PerfCall(t) \/ E!PerfLower(t) \/ E!perfcounter_getcount(t)
    PROVE  ClocksInv'
  <1>1. PerfInv /\ DOMAIN pc = Tasks /\ DOMAIN loc = Tasks /\ LowerCounts \in Nat \ {0}
    BY DriversAssumption DEF ClocksInv, E!ClocksAssumption
  <1>2. ASSUME dev' = dev, PerfInv', DOMAIN pc' = Tasks, DOMAIN loc' = Tasks PROVE ClocksInv'
    BY <1>1, <1>2 DEF ClocksInv
  <1>3. CASE E!PerfTick
    <2>1. dev' = dev /\ pc' = pc /\ loc' = loc /\ hw' = [hw EXCEPT !.count = hw.count + 1]
      BY <1>3 DEF E!PerfTick, E!Frame
    <2>2. PerfInv'
      BY <1>1, <2>1 DEF PerfInv
    <2> QED BY <1>1, <1>2, <2>1, <2>2
  <1>4. ASSUME NEW t \in Tasks, E!PerfCall(t) PROVE ClocksInv'
    BY <1>1, <1>2, <1>4 DEF E!PerfCall, E!Step, E!Goto, E!Set, E!Upper, PerfInv
  <1>5. ASSUME NEW t \in Tasks, E!PerfLower(t) PROVE ClocksInv'
    BY <1>1, <1>2, <1>5 DEF E!PerfLower, E!Step, E!Goto, E!Set, E!Lower, PerfInv
  <1>6. ASSUME NEW t \in Tasks, E!perfcounter_getcount(t) PROVE ClocksInv'
    <2>1. dev' = dev /\ hw' = hw /\ pc[t] = "upper"
      BY <1>6 DEF E!perfcounter_getcount
    <2>2. PICK d \in loc[t].start..hw.count : \E c \in loc[t].start..d :
              loc[t].upper = c \div LowerCounts /\ loc[t].lower = d % LowerCounts
      BY <1>1, <2>1 DEF PerfInv
    <2>3. PICK c \in loc[t].start..d : loc[t].upper = c \div LowerCounts
      BY <2>2
    <2>4. c \in Nat /\ d \in Nat /\ hw.count \in Nat /\ c <= d /\ d <= hw.count /\ loc[t].start \in 0..hw.count
      BY <1>1, <2>1, <2>2, <2>3 DEF PerfInv
    <2>5. CASE E!SameUpper(t) /\ E!Goto(t, "return") /\ UNCHANGED loc
      <3>1. PICK x, y : x = loc[t].upper /\ y = loc[t].lower
        OBVIOUS
      <3>2. /\ c \div LowerCounts \in Nat /\ c \div LowerCounts <= d \div LowerCounts
            /\ d \div LowerCounts \in Nat /\ d \div LowerCounts <= hw.count \div LowerCounts
        BY <1>1, <2>4, QuotientsGrow
      <3>3. x * LowerCounts + y = d
        <4>1. x = d \div LowerCounts /\ y = d % LowerCounts
          BY <1>1, <2>2, <2>3, <2>4, <2>5, <3>1, <3>2 DEF E!SameUpper, E!Upper
        <4>2. x \in Int /\ y \in Int
          BY <1>1, <2>4, <4>1
        <4>3. LowerCounts * x + y = d
          BY <1>1, <2>4, <4>1, <4>2, Quotients
        <4> QED BY <1>1, <4>2, <4>3
      <3>4. PerfInv'
        BY <1>1, <2>1, <2>2, <2>5, <3>1, <3>3 DEF PerfInv, E!Goto
      <3> QED BY <1>1, <1>2, <2>1, <2>5, <3>4 DEF E!Goto
    <2>6. CASE E!Goto(t, "lower") /\ E!Set(t, [loc[t] EXCEPT !.upper = E!Upper])
      BY <1>1, <1>2, <2>1, <2>6 DEF PerfInv, E!Goto, E!Set, E!Upper
    <2> QED BY <1>6, <2>5, <2>6 DEF E!perfcounter_getcount
  <1> QED BY <1>3, <1>4, <1>5, <1>6

LEMMA PllStep ==
    ASSUME ClocksInv, dev.part = "pll", E!am335x_clock_config \/ E!PllFollows
    PROVE  ClocksInv'
  <1>1. PllInv /\ UNCHANGED <<lock, pc, loc>>
    BY DEF ClocksInv, E!am335x_clock_config, E!PllFollows, E!Frame
  <1>2. ASSUME dev'.part = "pll", DOMAIN dev' = DOMAIN dev, PllInv' PROVE ClocksInv'
    BY <1>1, <1>2 DEF ClocksInv
  <1>3. CASE E!PllFollows
    <2>1. PICK o \in E!PllSet : hw.mode[o] # hw.status[o] /\ hw' = [hw EXCEPT !.status[o] = hw.mode[o]]
      BY <1>3 DEF E!PllFollows
    <2>2. /\ dev' = dev /\ DOMAIN hw' = DOMAIN hw /\ hw'.torn = hw.torn
          /\ hw'.mode = hw.mode /\ hw'.mn = hw.mn /\ hw'.div = hw.div
          /\ DOMAIN hw'.status = DOMAIN hw.status
          /\ \A p \in E!PllSet : hw'.status[p] = hw.status[p] \/ hw'.status[p] = hw.mode[p]
      BY <1>1, <1>3, <2>1 DEF E!PllFollows, PllInv
    <2>3. \A i \in 1..4 : E!Plls[i] \in E!PllSet
      BY DEF E!Plls, E!PllSet
    <2>4. \A i \in 1..4 : i < dev.pll => PllAt(E!Plls[i], 6)' /\ hw'.status[E!Plls[i]] = "locked"
      BY <1>1, <2>2, <2>3 DEF PllInv, PllAt
    <2>5. (\A i \in 1..4 : i = dev.pll => PllAt(E!Plls[i], dev.at))'
      BY <1>1, <2>2, <2>3 DEF PllInv, PllAt
    <2> QED BY <1>1, <1>2, <2>2, <2>4, <2>5 DEF PllInv
  <1>4. CASE E!am335x_clock_config
    <2>1. dev'.part = "pll" /\ DOMAIN dev' = DOMAIN dev
      BY <1>1, <1>4 DEF E!am335x_clock_config, PllInv
    <2>2. dev.at \in 1..6 /\ dev.pll \in 1..4
      BY <1>1, <1>4 DEF E!am335x_clock_config, PllInv, E!Plls
    <2>3. PICK p \in E!PllSet, k \in 1..6, j \in 1..4 : p = E!Plls[dev.pll] /\ k = dev.at /\ j = dev.pll
      BY <2>2 DEF E!Plls, E!PllSet
    <2>4. \A i \in 1..4 : E!Plls[i] \in E!PllSet /\ (i # j => E!Plls[i] # p)
      BY <2>3 DEF E!Plls, E!PllSet
    <2>5. /\ hw' = E!PllWritten(hw, p, E!PllSteps[k])
          /\ k = 2 => hw.status[p] = "bypass"
          /\ k = 6 => hw.status[p] = "locked"
          /\ dev' = IF k < 6 THEN [dev EXCEPT !.at = k + 1]
                    ELSE [dev EXCEPT !.at = 1, !.pll = j + 1]
      BY <1>4, <2>3 DEF E!am335x_clock_config, E!PllSteps
    <2>6. PllAt(p, k)
      BY <1>1, <2>3 DEF PllInv
    <2>7. /\ k \in {2, 6} => hw' = hw
          /\ k = 1 => hw' = [hw EXCEPT !.mode[p] = "bypass"]
          /\ k = 3 => hw' = [hw EXCEPT !.mn[p] = p]
          /\ k = 4 => hw' = [hw EXCEPT !.div[p] = p]
          /\ k = 5 => hw' = [hw EXCEPT !.mode[p] = "locked"]
      <3>1. k = 3 => hw' = [hw EXCEPT !.mn[p] = p]
        <4> SUFFICES ASSUME k = 3 PROVE hw' = [hw EXCEPT !.mn[p] = p]
          OBVIOUS
        <4>1. hw' = [hw EXCEPT !.mn[p] = p, !.torn = IF hw.status[p] = "bypass" THEN @ ELSE TRUE]
          BY <2>5 DEF E!PllSteps, E!PllWritten
        <4>2. hw' = [hw EXCEPT !.mn[p] = p, !.torn = hw.torn]
          BY <1>1, <2>6, <4>1 DEF PllInv, PllAt
        <4> QED BY <1>1, <4>2 DEF PllInv
      <3> QED BY <2>3, <2>5, <3>1 DEF E!PllSteps, E!PllWritten
    <2>8. /\ DOMAIN hw' = DOMAIN hw /\ hw'.torn = FALSE
          /\ DOMAIN hw'.mode = E!PllSet /\ DOMAIN hw'.status = E!PllSet
          /\ DOMAIN hw'.mn = E!PllSet /\ DOMAIN hw'.div = E!PllSet
          /\ \A o \in E!PllSet : o # p =>
              /\ hw'.mode[o] = hw.mode[o] /\ hw'.status[o] = hw.status[o]
              /\ hw'.mn[o] = hw.mn[o] /\ hw'.div[o] = hw.div[o]
      BY <1>1, <2>3, <2>7 DEF PllInv
    <2>9. /\ k < 6 => PllAt(p, k + 1)'
          /\ k = 6 => PllAt(p, 6)' /\ hw'.status[p] = "locked"
      BY <1>1, <2>3, <2>5, <2>6, <2>7 DEF PllInv, PllAt
    <2>10. \A i \in 1..4 : i < j => PllAt(E!Plls[i], 6)' /\ hw'.status[E!Plls[i]] = "locked"
      <3>1. \A i \in 1..4 : i < j =>
                /\ PllAt(E!Plls[i], 6) /\ hw.status[E!Plls[i]] = "locked"
                /\ E!Plls[i] \in E!PllSet /\ E!Plls[i] # p
        BY <1>1, <2>3, <2>4 DEF PllInv
      <3> QED BY <2>8, <3>1 DEF PllAt
    <2>11. PllInv'
      <3>1. dev'.at \in 1..6 /\ dev'.pll \in 1..5 /\ DOMAIN dev' = {"part", "at", "pll"}
        BY <1>1, <2>3, <2>5 DEF PllInv
      <3>2. CASE k < 6
        <4>1. dev'.pll = j /\ dev'.at = k + 1
          BY <1>1, <2>3, <2>5, <3>2 DEF PllInv
        <4>2. (\A i \in 1..4 : i = dev.pll => PllAt(E!Plls[i], dev.at))'
          BY <2>3, <2>9, <3>2, <4>1 DEF PllAt
        <4> QED BY <1>1, <2>8, <2>10, <3>1, <4>1, <4>2 DEF PllInv
      <3>3. CASE k = 6
        <4>1. dev'.pll = j + 1 /\ dev'.at = 1
          BY <1>1, <2>3, <2>5, <3>3 DEF PllInv
        <4>2. \A i \in 1..4 : i < j + 1 => PllAt(E!Plls[i], 6)' /\ hw'.status[E!Plls[i]] = "locked"
          <5>1. \A i \in 1..4 : i < j + 1 => i < j \/ i = j
            OBVIOUS
          <5> QED BY <2>3, <2>9, <2>10, <3>3, <5>1
        <4>3. (\A i \in 1..4 : i = dev.pll => PllAt(E!Plls[i], dev.at))'
          BY <4>1 DEF PllAt
        <4> QED BY <1>1, <2>8, <3>1, <4>1, <4>2, <4>3 DEF PllInv
      <3> QED BY <2>3, <3>2, <3>3
    <2> QED BY <1>2, <2>1, <2>11
  <1> QED BY <1>3, <1>4

LEMMA ClocksStep == ClocksInv /\ [E!Next]_vars => ClocksInv'
  <1> SUFFICES ASSUME ClocksInv, [E!Next]_vars PROVE ClocksInv'
    OBVIOUS
  <1>1. CASE UNCHANGED vars
    BY <1>1 DEF vars, ClocksInv, StmInv, RccInv, PerfInv, PllInv, PllAt
  <1>2. CASE E!init_clock \/ E!HseWait \/ E!Rcc
    BY <1>2, StmStep DEF E!init_clock, E!HseWait, E!Rcc
  <1>3. CASE E!am335x_clock_config \/ E!PllFollows
    BY <1>3, PllStep DEF E!am335x_clock_config, E!PllFollows
  <1>4. CASE E!PerfTick
    BY <1>4, PerfStep DEF E!PerfTick
  <1>5. CASE E!PrcmFollows
    BY <1>5 DEF E!PrcmFollows, E!Frame, ClocksInv
  <1>6. ASSUME NEW t \in Tasks, E!RccCall(t) \/ E!RccLoad(t) \/ E!rcc_set_clock_enable(t) \/ E!rcc_peripheral_bus(t)
        PROVE  ClocksInv'
    BY <1>6, RccStep DEF E!RccCall, E!RccLoad, E!rcc_set_clock_enable, E!rcc_peripheral_bus
  <1>7. ASSUME NEW t \in Tasks, E!PerfCall(t) \/ E!PerfLower(t) \/ E!perfcounter_getcount(t)
        PROVE  ClocksInv'
    BY <1>7, PerfStep DEF E!PerfCall, E!PerfLower, E!perfcounter_getcount
  <1>8. ASSUME NEW t \in Tasks, E!PrcmCall(t) \/ E!PrcmWait(t) PROVE ClocksInv'
    BY <1>8 DEF E!PrcmCall, E!PrcmWait, E!Step, E!Goto, E!Set, ClocksInv
  <1>9. ASSUME NEW t \in Tasks, E!Return(t) PROVE ClocksInv'
    BY <1>9 DEF E!Return, E!Step, E!Goto, ClocksInv, StmInv, RccInv, PerfInv, PllInv, PllAt
  <1> QED BY <1>1, <1>2, <1>3, <1>4, <1>5, <1>6, <1>7, <1>8, <1>9 DEF E!Next, E!Work, E!Hardware

LEMMA ClocksGoal == ClocksInv => E!ClockSafe /\ E!PllSafe /\ E!RateExact /\ E!CountExact
  <1> SUFFICES ASSUME ClocksInv PROVE E!ClockSafe /\ E!PllSafe /\ E!RateExact /\ E!CountExact
    OBVIOUS
  <1>1. E!ClockSafe
    BY DEF ClocksInv, StmInv, E!ClockSafe, E!Steps
  <1>2. E!PllSafe
    BY DEF ClocksInv, PllInv, PllAt, E!PllSafe, E!Plls, E!PllSet
  <1>3. E!RateExact
    <2>1. E!rcc_clock_lookup("SPI2") = "APB1" /\ E!rcc_clock_lookup("SPI3") = "APB1"
      BY DEF E!rcc_clock_lookup, E!Buses, E!Bus
    <2> SUFFICES ASSUME dev.part = "rcc", NEW t \in Tasks, pc[t] = "return"
                 PROVE  LET real == E!rcc_bus_clock(E!rcc_clock_lookup(loc[t].p))
                        IN  loc[t].clock = IF loc[t].p \in E!Misplaced THEN real \div 2 ELSE real
      BY DEF E!RateExact
    <2>2. loc[t].clock = E!rcc_bus_clock(E!periph_bus_lookup(loc[t].p))
      BY DEF ClocksInv, RccInv
    <2>3. CASE loc[t].p \in E!Misplaced
      <3>1. loc[t].clock = 2
        BY <2>2, <2>3 DEF E!periph_bus_lookup, E!rcc_bus_clock
      <3>2. E!rcc_bus_clock(E!rcc_clock_lookup(loc[t].p)) = 4
        BY <2>1, <2>3 DEF E!Misplaced, E!rcc_bus_clock
      <3> QED BY <2>3, <3>1, <3>2
    <2>4. CASE loc[t].p \notin E!Misplaced
      BY <2>2, <2>4 DEF E!periph_bus_lookup
    <2> QED BY <2>3, <2>4
  <1>4. E!CountExact
    BY DEF ClocksInv, PerfInv, E!CountExact
  <1> QED BY <1>1, <1>2, <1>3, <1>4

-------------------------------------------------------------------------------
(* The bitfield allocator *)

\* Bit o of block i is before bit q of block j.
LEMMA BitOrder ==
    ASSUME NEW n \in Nat \ {0}, NEW i \in Int, NEW j \in Int,
           NEW o \in 0..(n - 1), NEW q \in 0..(n - 1)
    PROVE  i * n + o <= j * n + q <=> i < j \/ (i = j /\ o <= q)
  <1>1. ASSUME NEW k \in Int, NEW l \in Int, k < l PROVE k * n + n <= l * n
    <2>1. (k + 1) * n <= l * n
      BY <1>1
    <2>2. (k + 1) * n = k * n + n
      OBVIOUS
    <2> QED BY <2>1, <2>2
  <1>2. CASE i < j
    BY <1>1, <1>2
  <1>3. CASE j < i
    BY <1>1, <1>3
  <1>4. CASE i = j
    BY <1>4
  <1> QED BY <1>2, <1>3, <1>4

LEMMA QuotientIs ==
    ASSUME NEW n \in Nat \ {0}, NEW i \in Nat, NEW o \in 0..(n - 1)
    PROVE  (i * n + o) \div n = i /\ (i * n + o) % n = o
  <1>1. PICK q \in Int, r \in Int : q = (i * n + o) \div n /\ r = (i * n + o) % n
    OBVIOUS
  <1>2. i * n + o \in Nat
    OBVIOUS
  <1>3. q \in Nat /\ r \in 0..(n - 1) /\ n * q + r = i * n + o
    BY <1>1, <1>2, Quotients
  <1>4. i * n + o <= q * n + r /\ q * n + r <= i * n + o
    BY <1>3
  <1>5. i = q
    BY <1>3, <1>4, BitOrder
  <1> QED BY <1>1, <1>3, <1>5

\* The bits of the n grains from o of block i on: b whole blocks, and g more.
BitRange(i, o, b, g, j, q) == j \in i..(i + b - 1) \/ (j = i + b /\ q \in o..(o + g - 1))

LEMMA BitBlocks ==
    ASSUME GrainsPerBlock \in Nat \ {0}, NEW i \in Nat, NEW o \in B!All,
           NEW n \in Nat \ {0}, NEW b \in Nat, NEW g \in B!All, n = b * GrainsPerBlock + g,
           o = 0 \/ o + n <= GrainsPerBlock,
           NEW j \in Nat, NEW q \in B!All
    PROVE  i * GrainsPerBlock + o <= j * GrainsPerBlock + q
           /\ j * GrainsPerBlock + q < i * GrainsPerBlock + o + n <=> BitRange(i, o, b, g, j, q)
  <1> DEFINE L == GrainsPerBlock
             k == j * L + q
  <1>0. L \in Nat \ {0} /\ o \in 0..(L - 1) /\ q \in 0..(L - 1) /\ g \in 0..(L - 1) /\ k \in Nat
    BY DEF B!All
  <1>1. i * L + o <= k <=> i < j \/ (i = j /\ o <= q)
    BY <1>0, BitOrder
  <1>2. CASE b = 0
    <2>1. n = g /\ o + n <= L
      BY <1>0, <1>2
    <2>2. k <= i * L + (o + n - 1) <=> j < i \/ (j = i /\ q <= o + n - 1)
      BY <1>0, <2>1, BitOrder
    <2>3. k < i * L + o + n <=> k <= i * L + (o + n - 1)
      BY <1>0, <2>1
    <2> HIDE DEF k
    <2> QED BY <1>0, <1>1, <1>2, <2>1, <2>2, <2>3 DEF BitRange
  <1>3. CASE b > 0
    <2>1. b * L >= L
      BY <1>0, <1>3
    <2>2. o = 0
      BY <1>0, <2>1
    <2>3. i * L + n = (i + b) * L + g /\ (i + b) * L = (i + b - 1) * L + L
      BY <1>0
    <2>4. CASE g > 0
      <3>1. k <= (i + b) * L + (g - 1) <=> j < i + b \/ (j = i + b /\ q <= g - 1)
        BY <1>0, <2>4, BitOrder
      <3>2. k < i * L + o + n <=> k <= (i + b) * L + (g - 1)
        BY <1>0, <2>2, <2>3
      <3> HIDE DEF k
      <3> QED BY <1>0, <1>1, <1>3, <2>2, <3>1, <3>2 DEF BitRange
    <2>5. CASE g = 0
      <3>1. k <= (i + b - 1) * L + (L - 1) <=> j < i + b - 1 \/ (j = i + b - 1 /\ q <= L - 1)
        BY <1>0, <1>3, BitOrder
      <3>2. k < i * L + o + n <=> k <= (i + b - 1) * L + (L - 1)
        BY <1>0, <2>2, <2>3, <2>5
      <3> HIDE DEF k
      <3> QED BY <1>0, <1>1, <1>3, <2>2, <2>5, <3>1, <3>2 DEF BitRange
    <2> QED BY <1>0, <2>4, <2>5
  <1> QED BY <1>2, <1>3

\* Where an address is that to_addr has made.
LEMMA BitAddress ==
    ASSUME GrainsPerBlock \in Nat \ {0}, GrainSize \in Nat \ {0}, HeaderSize \in Nat,
           NEW i \in Nat, NEW o \in B!All, NEW addr, addr = B!to_addr(i, o) + HeaderSize
    PROVE  /\ addr \in Nat
           /\ addr - HeaderSize = (i * GrainsPerBlock + o) * GrainSize
           /\ (addr - HeaderSize) \div GrainSize = i * GrainsPerBlock + o
           /\ B!addr_to_block(addr - HeaderSize) = i
           /\ B!addr_to_grain_offset(addr - HeaderSize) = o
  <1> DEFINE s == B!to_addr(i, o)
             Z == GrainSize
             N == GrainsPerBlock * GrainSize
  <1>0. o \in 0..(GrainsPerBlock - 1) /\ o \in Nat /\ Z \in Nat \ {0} /\ N \in Nat \ {0}
    BY DEF B!All
  <1>1. s = i * N + o * Z
    BY DEF B!to_addr, B!BlockSize
  <1>2. s = (i * GrainsPerBlock + o) * Z + 0
    BY <1>0, <1>1
  <1>3. s \in Nat /\ addr - HeaderSize = s /\ addr \in Nat
    BY <1>0, <1>2
  <1>4. i * GrainsPerBlock + o \in Nat /\ 0 \in 0..(Z - 1)
    BY <1>0
  <1>5. s \div Z = i * GrainsPerBlock + o
    BY <1>0, <1>2, <1>4, QuotientIs
  <1>6. o * Z \in 0..(N - 1)
    <2>1. (o + 1) * Z <= GrainsPerBlock * Z
      BY <1>0
    <2>2. (o + 1) * Z = o * Z + Z /\ o * Z \in Nat
      BY <1>0
    <2> QED BY <1>0, <2>1, <2>2
  <1>7. s \div N = i /\ s % N = o * Z
    BY <1>0, <1>1, <1>6, QuotientIs
  <1>8. (o * Z + 0) \div Z = o
    BY <1>0, QuotientIs
  <1>9. (o * Z) \div Z = o
    BY <1>0, <1>8
  <1> QED BY <1>2, <1>3, <1>5, <1>7, <1>9 DEF B!addr_to_block, B!addr_to_grain_offset, B!BlockSize
BitStart(a) == (a.addr - HeaderSize) \div GrainSize
BitCovers(a, k) == BitStart(a) <= k /\ k < BitStart(a) + a.grains

\* An allocation of n grains from o of block i on is inside one block, or begins
\* with a whole one, and is in the heap.
BitPlace(i, o, n) ==
    /\ i \in 0..(NumBlocks - 1) /\ o \in B!All
    /\ n \in Nat \ {0} /\ (o = 0 \/ o + n <= GrainsPerBlock)
    /\ i * GrainsPerBlock + o + n <= NumBlocks * GrainsPerBlock

BitOwned(a) ==
    /\ a.size \in MallocSizes /\ a.size + HeaderSize <= a.grains * GrainSize
    /\ \E i, o : BitPlace(i, o, a.grains) /\ a.addr = B!to_addr(i, o) + HeaderSize

\* A block of the heap, and the bits that are set in it.
BitBlock(b) ==
    /\ DOMAIN b = {"free_mask", "free_grains"} /\ b.free_mask \subseteq B!All
    /\ b.free_grains = GrainsPerBlock - Cardinality(b.free_mask)

\* The block after the last is full, every bit of the others belongs to one
\* allocation if it is set and to none else.
BitfieldInv ==
    /\ DOMAIN dev = {"heap", "owned"} /\ DOMAIN dev.heap = B!Searched
    /\ \A i \in B!Searched : BitBlock(dev.heap[i])
    /\ dev.heap[NumBlocks].free_mask = B!All
    /\ \A a \in dev.owned : BitOwned(a)
    /\ \A i \in 0..(NumBlocks - 1), o \in B!All :
          o \in dev.heap[i].free_mask <=> \E a \in dev.owned : BitCovers(a, i * GrainsPerBlock + o)
    /\ \A a, b \in dev.owned : \A k \in Nat : BitCovers(a, k) /\ BitCovers(b, k) => a = b

\* The constants of the bitfield allocator.
LEMMA BitInterval ==
    ASSUME NEW a \in Int, NEW n \in Nat
    PROVE  IsFiniteSet(a..(a + n - 1)) /\ Cardinality(a..(a + n - 1)) = n
  <1>1. PICK b \in Int : b = a + n - 1
    OBVIOUS
  <1>2. IsFiniteSet(a..b) /\ Cardinality(a..b) = IF a > b THEN 0 ELSE b - a + 1
    BY FS_Interval
  <1>3. (IF a > b THEN 0 ELSE b - a + 1) = n
    BY <1>1
  <1> QED BY <1>1, <1>2, <1>3

LEMMA BitConstants ==
    /\ NumBlocks \in Nat \ {0} /\ GrainsPerBlock \in 1..32 /\ GrainsPerBlock \in Nat \ {0}
    /\ GrainSize \in Nat \ {0} /\ HeaderSize \in Nat \ {0} /\ SizeWord \in Nat \ {0}
    /\ MallocSizes \subseteq Nat
    /\ B!All = 0..(GrainsPerBlock - 1) /\ B!Searched = 0..NumBlocks
    /\ IsFiniteSet(B!All) /\ Cardinality(B!All) = GrainsPerBlock
  <1>1. GrainsPerBlock \in 1..32
    BY DriversAssumption DEF B!BitfieldAssumption
  <1>2. B!All = 0..(0 + GrainsPerBlock - 1) /\ 0 \in Int /\ GrainsPerBlock \in Nat
    BY <1>1 DEF B!All
  <1>3. IsFiniteSet(B!All) /\ Cardinality(B!All) = GrainsPerBlock
    BY <1>2, BitInterval
  <1> QED BY <1>1, <1>2, <1>3, DriversAssumption DEF B!BitfieldAssumption, B!Searched

LEMMA BitMask ==
    ASSUME NEW g \in B!All, NEW o \in B!All
    PROVE  /\ B!Shift(B!MASK(g), o) = o..(o + g - 1)
           /\ IsFiniteSet(o..(o + g - 1)) /\ Cardinality(o..(o + g - 1)) = g
  <1>1. g \in Nat /\ o \in Nat
    BY BitConstants
  <1>2. B!MASK(g) = 0..(g - 1)
    BY DEF B!MASK
  <1>3. ASSUME NEW k \in o..(o + g - 1) PROVE k \in B!Shift(B!MASK(g), o)
    <2>1. k - o \in 0..(g - 1) /\ (k - o) + o = k
      BY <1>1
    <2> QED BY <1>2, <2>1 DEF B!Shift
  <1>4. \A k \in B!Shift(B!MASK(g), o) : k \in o..(o + g - 1)
    BY <1>1, <1>2 DEF B!Shift
  <1>5. IsFiniteSet(o..(o + g - 1)) /\ Cardinality(o..(o + g - 1)) = g
    BY <1>1, BitInterval
  <1> QED BY <1>3, <1>4, <1>5

\* The bits that an allocation has.
LEMMA BitOwnedRange ==
    ASSUME NEW a, NEW i, NEW o, BitPlace(i, o, a.grains), a.addr = B!to_addr(i, o) + HeaderSize
    PROVE  /\ BitStart(a) = i * GrainsPerBlock + o /\ BitStart(a) \in Nat
           /\ B!addr_to_block(a.addr - HeaderSize) = i
           /\ B!addr_to_grain_offset(a.addr - HeaderSize) = o
           /\ \E b \in Nat, g \in B!All :
                /\ b = a.grains \div GrainsPerBlock /\ g = a.grains % GrainsPerBlock
                /\ a.grains = b * GrainsPerBlock + g
                /\ i + b <= NumBlocks /\ (g > 0 => i + b < NumBlocks)
                /\ b > 0 => o = 0
                /\ \A j \in Nat, q \in B!All :
                      BitCovers(a, j * GrainsPerBlock + q) <=> BitRange(i, o, b, g, j, q)
  <1> DEFINE L == GrainsPerBlock
  <1>a. PICK n \in Nat \ {0} : n = a.grains
    BY DEF BitPlace
  <1>0. /\ L \in Nat \ {0} /\ i \in Nat /\ o \in Nat /\ o \in B!All /\ o \in 0..(L - 1)
        /\ o = 0 \/ o + n <= L
        /\ i * L + o + n <= NumBlocks * L /\ NumBlocks \in Nat
    BY <1>a, BitConstants DEF BitPlace
  <1>1. /\ (a.addr - HeaderSize) \div GrainSize = i * GrainsPerBlock + o
        /\ B!addr_to_block(a.addr - HeaderSize) = i
        /\ B!addr_to_grain_offset(a.addr - HeaderSize) = o
    BY <1>0, BitConstants, BitAddress
  <1>2. BitStart(a) = i * L + o /\ i * L + o \in Nat
    BY <1>0, <1>1 DEF BitStart
  <1>3. PICK b \in Int, g \in Int : b = n \div L /\ g = n % L
    BY <1>0
  <1>4. b \in Nat /\ g \in 0..(L - 1) /\ L * b + g = n
    BY <1>0, <1>3, Quotients
  <1>5. g \in B!All /\ n = b * L + g
    BY <1>0, <1>4, BitConstants
  <1>6. b > 0 => o = 0
    <2>1. b > 0 => b * L >= L
      BY <1>0, <1>4
    <2> QED BY <1>0, <1>4, <1>5, <2>1
  <1>7. i + b <= NumBlocks /\ (g > 0 => i + b < NumBlocks)
    <2>1. (i + b) * L = i * L + b * L
      BY <1>0, <1>4
    <2>2. (i + b) * L + g <= NumBlocks * L + 0
      BY <1>0, <1>4, <1>5, <2>1
    <2>3. i + b < NumBlocks \/ (i + b = NumBlocks /\ g <= 0)
      <3>1. i + b \in Int /\ NumBlocks \in Int /\ 0 \in 0..(L - 1)
        BY <1>0, <1>4
      <3> QED BY <1>0, <1>4, <2>2, <3>1, BitOrder
    <2> QED BY <1>0, <1>4, <2>3
  <1>8. ASSUME NEW j \in Nat, NEW q \in B!All
        PROVE  BitCovers(a, j * L + q) <=> BitRange(i, o, b, g, j, q)
    <2>1. i * L + o <= j * L + q /\ j * L + q < i * L + o + n <=> BitRange(i, o, b, g, j, q)
      BY <1>0, <1>4, <1>5, BitBlocks
    <2> QED BY <1>a, <1>2, <2>1 DEF BitCovers
  <1> QED BY <1>a, <1>1, <1>2, <1>3, <1>4, <1>5, <1>6, <1>7, <1>8

LEMMA BitfieldInit == ~BeyondFree /\ B!Init => BitfieldInv
  <1> SUFFICES ASSUME ~BeyondFree, B!Init PROVE BitfieldInv
    OBVIOUS
  <1> DEFINE full == [free_mask |-> B!All, free_grains |-> 0]
  <1>1. dev = [heap |-> [i \in B!Searched |-> IF i = NumBlocks THEN full ELSE B!FreeBlock], owned |-> {}]
    BY DEF B!Init
  <1>2. BitBlock(full) /\ BitBlock(B!FreeBlock)
    BY BitConstants, FS_EmptySet DEF BitBlock, B!FreeBlock
  <1>3. NumBlocks \in B!Searched /\ \A i \in 0..(NumBlocks - 1) : i \in B!Searched /\ i # NumBlocks
    BY BitConstants
  <1>4. dev.owned = {} /\ DOMAIN dev = {"heap", "owned"} /\ DOMAIN dev.heap = B!Searched
    BY <1>1
  <1>5. \A i \in B!Searched : BitBlock(dev.heap[i])
    BY <1>1, <1>2
  <1>6. dev.heap[NumBlocks].free_mask = B!All /\ \A i \in 0..(NumBlocks - 1) : dev.heap[i].free_mask = {}
    BY <1>1, <1>3 DEF B!FreeBlock
  <1> QED BY <1>4, <1>5, <1>6 DEF BitfieldInv
LEMMA BitNumber ==
    ASSUME NEW j \in Nat, NEW q \in B!All
    PROVE  j * GrainsPerBlock + q \in Nat
  <1>1. q \in Nat /\ GrainsPerBlock \in Nat
    BY BitConstants
  <1> QED BY <1>1

\* A bit has one place.
LEMMA BitPlaceOf ==
    ASSUME NEW k \in Nat
    PROVE  \E j \in Nat, q \in B!All : k = j * GrainsPerBlock + q
  <1>1. PICK j \in Int, q \in Int : j = k \div GrainsPerBlock /\ q = k % GrainsPerBlock
    BY BitConstants
  <1>2. j \in Nat /\ q \in 0..(GrainsPerBlock - 1) /\ GrainsPerBlock * j + q = k
    BY <1>1, BitConstants, Quotients
  <1>3. j * GrainsPerBlock + q = k
    BY <1>2, BitConstants
  <1> QED BY <1>2, <1>3, BitConstants

\* Grains are claimed in a block: the count follows, and does not wrap.
LEMMA BitClaim ==
    ASSUME NEW c, BitBlock(c), NEW g \in B!All, NEW Q \in SUBSET B!All, Cardinality(Q) = g,
           c.free_mask \cap Q = {}
    PROVE  /\ BitBlock(B!Claim(c, Q, g))
           /\ B!Claim(c, Q, g).free_mask = c.free_mask \cup Q
  <1> DEFINE m == c.free_mask
             d == B!Claim(c, Q, g)
  <1>1. m \subseteq B!All /\ c.free_grains = GrainsPerBlock - Cardinality(m)
    BY DEF BitBlock
  <1>2. IsFiniteSet(m) /\ IsFiniteSet(Q) /\ Cardinality(Q) = g
    <2>1. IsFiniteSet(m)
      BY <1>1, BitConstants, FS_Subset
    <2>2. IsFiniteSet(Q)
      BY BitConstants, FS_Subset
    <2> QED BY <2>1, <2>2
  <1>3. IsFiniteSet(m \cup Q) /\ Cardinality(m \cup Q) = Cardinality(m) + Cardinality(Q) - Cardinality(m \cap Q)
    BY <1>2, FS_Union
  <1>4. Cardinality(m \cup Q) <= GrainsPerBlock
    <2>1. (m \cup Q) \in SUBSET B!All
      BY <1>1
    <2> QED BY <2>1, BitConstants, FS_Subset
  <1>5. Cardinality(m) \in Nat
    BY <1>2, FS_CardinalityType
  <1>6. Cardinality(m \cap Q) = 0
    BY FS_EmptySet
  <1>7. /\ d.free_mask = m \cup Q /\ DOMAIN d = {"free_mask", "free_grains"}
        /\ d.free_grains = (c.free_grains - g) % 256
    BY DEF B!Claim
  <1>8. PICK k \in Nat : k = Cardinality(m)
    BY <1>5
  <1>0. GrainsPerBlock \in 1..32 /\ g \in Nat
    BY BitConstants
  <1>9. Cardinality(m \cup Q) = k + g
    BY <1>0, <1>2, <1>3, <1>6, <1>8
  <1>10. k + g <= GrainsPerBlock
    BY <1>4, <1>9
  <1>11. c.free_grains = GrainsPerBlock - k
    BY <1>1, <1>8
  <1>12. (GrainsPerBlock - k - g) % 256 = GrainsPerBlock - (k + g)
    BY <1>0, <1>10
  <1>13. d.free_grains = GrainsPerBlock - Cardinality(d.free_mask)
    BY <1>7, <1>9, <1>11, <1>12
  <1>14. d.free_mask \subseteq B!All
    BY <1>1, <1>7
  <1> QED BY <1>7, <1>13, <1>14 DEF BitBlock

\* Grains are freed in a block.
LEMMA BitFreed ==
    ASSUME NEW c, BitBlock(c), NEW g \in B!All, NEW Q \in SUBSET B!All, Cardinality(Q) = g,
           Q \subseteq c.free_mask
    PROVE  /\ BitBlock(B!Freed(c, Q, g))
           /\ B!Freed(c, Q, g).free_mask = c.free_mask \ Q
  <1> DEFINE m == c.free_mask
             d == B!Freed(c, Q, g)
  <1>1. m \subseteq B!All /\ c.free_grains = GrainsPerBlock - Cardinality(m) /\ m \cap Q = Q
    BY DEF BitBlock
  <1>2. IsFiniteSet(m) /\ Cardinality(m) <= Cardinality(B!All)
    BY <1>1, BitConstants, FS_Subset
  <1>3. IsFiniteSet(m \ Q) /\ Cardinality(m \ Q) = Cardinality(m) - Cardinality(m \cap Q)
    BY <1>2, FS_Difference
  <1>4. Cardinality(m) \in Nat /\ Cardinality(m \ Q) \in Nat
    BY <1>2, <1>3, FS_CardinalityType
  <1>5. /\ d.free_mask = m \ Q /\ DOMAIN d = {"free_mask", "free_grains"}
        /\ d.free_grains = (c.free_grains + g) % 256
    BY DEF B!Freed
  <1>0. GrainsPerBlock \in 1..32 /\ g \in Nat /\ Cardinality(B!All) = GrainsPerBlock /\ Cardinality(Q) = g
    BY BitConstants
  <1>6. PICK k \in Nat : k = Cardinality(m)
    BY <1>4
  <1>7. Cardinality(m \ Q) = k - g
    BY <1>0, <1>1, <1>3, <1>6
  <1>8. k <= GrainsPerBlock /\ k - g >= 0
    BY <1>0, <1>2, <1>4, <1>6, <1>7
  <1>9. c.free_grains = GrainsPerBlock - k
    BY <1>1, <1>6
  <1>10. (GrainsPerBlock - k + g) % 256 = GrainsPerBlock - (k - g)
    BY <1>0, <1>8
  <1>11. d.free_grains = GrainsPerBlock - Cardinality(d.free_mask)
    BY <1>5, <1>7, <1>9, <1>10
  <1>12. d.free_mask \subseteq B!All
    BY <1>1, <1>5
  <1> QED BY <1>5, <1>11, <1>12 DEF BitBlock

\* A new allocation of bits that were clear.
LEMMA BitAllocated ==
    ASSUME BitfieldInv, NEW a, BitOwned(a), NEW i, NEW o, NEW b, NEW g,
           \A j \in Nat, q \in B!All :
               BitCovers(a, j * GrainsPerBlock + q) <=> BitRange(i, o, b, g, j, q),
           \A j \in Nat, q \in B!All : BitRange(i, o, b, g, j, q) =>
               j \in 0..(NumBlocks - 1) /\ q \notin dev.heap[j].free_mask,
           DOMAIN dev' = {"heap", "owned"}, DOMAIN dev'.heap = B!Searched,
           dev'.owned = dev.owned \cup {a},
           \A j \in B!Searched : BitBlock(dev'.heap[j]) /\ \A q \in B!All :
               q \in dev'.heap[j].free_mask <=> q \in dev.heap[j].free_mask \/ BitRange(i, o, b, g, j, q)
    PROVE  BitfieldInv'
  <1>1. NumBlocks \in B!Searched /\ \A j \in 0..(NumBlocks - 1) : j \in B!Searched /\ j \in Nat
    BY BitConstants
  <1>2. dev'.heap[NumBlocks].free_mask = B!All
    <2>1. dev'.heap[NumBlocks].free_mask \subseteq B!All
      BY <1>1 DEF BitBlock
    <2>2. \A q \in B!All : q \in dev'.heap[NumBlocks].free_mask
      BY <1>1 DEF BitfieldInv
    <2> QED BY <2>1, <2>2
  <1>3. ASSUME NEW j \in 0..(NumBlocks - 1), NEW q \in B!All
        PROVE  q \in dev'.heap[j].free_mask
                  <=> \E x \in dev'.owned : BitCovers(x, j * GrainsPerBlock + q)
    BY <1>1, <1>3 DEF BitfieldInv
  <1>4. ASSUME NEW x \in dev.owned, NEW k \in Nat, BitCovers(a, k), BitCovers(x, k) PROVE FALSE
    <2>1. PICK j \in Nat, q \in B!All : k = j * GrainsPerBlock + q
      BY BitPlaceOf
    <2>2. j \in 0..(NumBlocks - 1) /\ q \notin dev.heap[j].free_mask
      BY <1>4, <2>1
    <2> QED BY <1>4, <2>1, <2>2 DEF BitfieldInv
  <1>5. \A x, y \in dev'.owned : \A k \in Nat : BitCovers(x, k) /\ BitCovers(y, k) => x = y
    BY <1>4 DEF BitfieldInv
  <1>6. \A x \in dev'.owned : BitOwned(x)
    BY DEF BitfieldInv
  <1> QED BY <1>2, <1>3, <1>5, <1>6 DEF BitfieldInv

\* An allocation is given back with its bits.
LEMMA BitGivenBack ==
    ASSUME BitfieldInv, NEW a \in dev.owned, NEW i, NEW o, NEW b, NEW g,
           \A j \in Nat, q \in B!All :
               BitCovers(a, j * GrainsPerBlock + q) <=> BitRange(i, o, b, g, j, q),
           \A q \in B!All : ~BitRange(i, o, b, g, NumBlocks, q),
           DOMAIN dev' = {"heap", "owned"}, DOMAIN dev'.heap = B!Searched,
           dev'.owned = dev.owned \ {a},
           \A j \in B!Searched : BitBlock(dev'.heap[j]) /\ \A q \in B!All :
               q \in dev'.heap[j].free_mask <=> q \in dev.heap[j].free_mask /\ ~BitRange(i, o, b, g, j, q)
    PROVE  BitfieldInv'
  <1>1. NumBlocks \in B!Searched /\ \A j \in 0..(NumBlocks - 1) : j \in B!Searched /\ j \in Nat
    BY BitConstants
  <1>2. dev'.heap[NumBlocks].free_mask = B!All
    <2>1. dev'.heap[NumBlocks].free_mask \subseteq B!All
      BY <1>1 DEF BitBlock
    <2>2. \A q \in B!All : q \in dev'.heap[NumBlocks].free_mask
      BY <1>1 DEF BitfieldInv
    <2> QED BY <2>1, <2>2
  <1>3. ASSUME NEW j \in 0..(NumBlocks - 1), NEW q \in B!All
        PROVE  q \in dev'.heap[j].free_mask
                  <=> \E x \in dev'.owned : BitCovers(x, j * GrainsPerBlock + q)
    <2> DEFINE k == j * GrainsPerBlock + q
    <2>1. k \in Nat /\ (BitCovers(a, k) <=> BitRange(i, o, b, g, j, q))
      BY <1>1, BitNumber
    <2>2. q \in dev.heap[j].free_mask <=> \E x \in dev.owned : BitCovers(x, k)
      BY DEF BitfieldInv
    <2>3. \A x \in dev.owned : BitCovers(x, k) /\ BitCovers(a, k) => x = a
      BY <2>1 DEF BitfieldInv
    <2>4. q \in dev'.heap[j].free_mask <=> q \in dev.heap[j].free_mask /\ ~BitCovers(a, k)
      BY <1>1, <2>1
    <2> HIDE DEF k
    <2>5. q \in dev'.heap[j].free_mask <=> \E x \in dev'.owned : BitCovers(x, k)
      BY <2>2, <2>3, <2>4
    <2> QED BY <2>5 DEF k
  <1>4. \A x \in dev'.owned : BitOwned(x)
    BY DEF BitfieldInv
  <1>5. \A x, y \in dev'.owned : \A k \in Nat : BitCovers(x, k) /\ BitCovers(y, k) => x = y
    BY DEF BitfieldInv
  <1> QED BY <1>2, <1>3, <1>4, <1>5 DEF BitfieldInv
\* malloc inside a block.
LEMMA BitSmall ==
    ASSUME BitfieldInv, NEW size \in MallocSizes, NEW g \in B!All \ {0},
           size + HeaderSize <= g * GrainSize, B!AllocSmall(g, size)
    PROVE  \E a : BitOwned(a) /\ dev'.owned = dev.owned \cup {a} /\ BitfieldInv'
  <1> DEFINE L == GrainsPerBlock
  <1>1. PICK p \in B!SmallPlaces(g) :
            dev' = [heap |-> [dev.heap EXCEPT ![p[1]] = B!Claim(@, B!Shift(B!MASK(g), p[2]), g)],
                    owned |-> dev.owned \cup {B!Owns(B!to_addr(p[1], p[2]), g, size)}]
    BY DEF B!AllocSmall
  <1>2. PICK i, o : i = p[1] /\ o = p[2]
    OBVIOUS
  <1> DEFINE a == B!Owns(B!to_addr(i, o), g, size)
             Q == o..(o + g - 1)
  <1>3. /\ i \in B!Searched /\ o \in 0..(L - g)
        /\ dev.heap[i].free_mask \cap B!Shift(B!MASK(g), o) = {}
    BY <1>1, <1>2 DEF B!SmallPlaces
  <1>0. /\ L \in Nat \ {0} /\ g \in Nat \ {0} /\ g < L /\ g \in B!All /\ 0 \in B!All
        /\ NumBlocks \in Nat \ {0} /\ B!All = 0..(L - 1) /\ B!Searched = 0..NumBlocks
    BY BitConstants
  <1>4. o \in B!All /\ o + g <= L /\ Q \subseteq B!All /\ o \in Q /\ i \in Nat
    BY <1>0, <1>3
  <1>5. B!Shift(B!MASK(g), o) = Q
    BY <1>0, <1>4, BitMask
  <1>6. i # NumBlocks
    BY <1>3, <1>4, <1>5 DEF BitfieldInv
  <1>7. i \in 0..(NumBlocks - 1)
    BY <1>0, <1>3, <1>6
  <1>8. i * L + o + g <= NumBlocks * L
    <2>1. i * L + (o + g - 1) <= (NumBlocks - 1) * L + (L - 1)
      BY <1>0, <1>4, <1>7, BitOrder
    <2>2. (NumBlocks - 1) * L = NumBlocks * L - L
      BY <1>0
    <2> QED BY <1>0, <1>4, <2>1, <2>2
  <1>9. /\ a.addr = B!to_addr(i, o) + HeaderSize /\ a.grains = g /\ a.size = size
        /\ BitPlace(i, o, a.grains)
    BY <1>0, <1>4, <1>7, <1>8 DEF B!Owns, BitPlace
  <1> HIDE DEF a
  <1>10. BitOwned(a)
    BY <1>9 DEF BitOwned
  <1>11. PICK b \in Nat, r \in B!All :
            /\ b = a.grains \div L /\ r = a.grains % L
            /\ \A j \in Nat, q \in B!All : BitCovers(a, j * L + q) <=> BitRange(i, o, b, r, j, q)
    BY <1>9, BitOwnedRange
  <1>12. b = 0 /\ r = g
    <2>1. (0 * L + g) \div L = 0 /\ (0 * L + g) % L = g
      <3>1. g \in 0..(L - 1) /\ 0 \in Nat
        BY <1>0
      <3> QED BY <1>0, <3>1, QuotientIs
    <2>2. 0 * L + g = g
      BY <1>0
    <2> QED BY <1>9, <1>11, <2>1, <2>2
  <1>13. \A j \in Nat, q \in B!All : BitRange(i, o, b, r, j, q) <=> j = i /\ q \in Q
    BY <1>0, <1>4, <1>12 DEF BitRange
  <1>14. dev' = [heap |-> [dev.heap EXCEPT ![i] = B!Claim(@, Q, g)], owned |-> dev.owned \cup {a}]
    BY <1>1, <1>2, <1>5 DEF a
  <1>15. /\ BitBlock(B!Claim(dev.heap[i], Q, g))
         /\ B!Claim(dev.heap[i], Q, g).free_mask = dev.heap[i].free_mask \cup Q
    <2>1. BitBlock(dev.heap[i])
      BY <1>3 DEF BitfieldInv
    <2>2. Cardinality(Q) = g
      BY <1>0, <1>4, BitMask
    <2>3. dev.heap[i].free_mask \cap Q = {}
      BY <1>3, <1>5
    <2>4. Q \in SUBSET B!All /\ g \in B!All
      BY <1>0, <1>4
    <2> HIDE DEF Q
    <2> QED BY <2>1, <2>2, <2>3, <2>4, BitClaim
  <1> HIDE DEF Q
  <1>16. /\ DOMAIN dev' = {"heap", "owned"} /\ DOMAIN dev'.heap = B!Searched
         /\ dev'.owned = dev.owned \cup {a}
         /\ dev'.heap[i] = B!Claim(dev.heap[i], Q, g)
         /\ \A j \in B!Searched \ {i} : dev'.heap[j] = dev.heap[j]
    BY <1>3, <1>14 DEF BitfieldInv
  <1>17. \A j \in B!Searched : BitBlock(dev'.heap[j]) /\ \A q \in B!All :
             q \in dev'.heap[j].free_mask <=> q \in dev.heap[j].free_mask \/ BitRange(i, o, b, r, j, q)
    <2> SUFFICES ASSUME NEW j \in B!Searched
                 PROVE  BitBlock(dev'.heap[j]) /\ \A q \in B!All :
                           q \in dev'.heap[j].free_mask <=> q \in dev.heap[j].free_mask \/ BitRange(i, o, b, r, j, q)
      OBVIOUS
    <2>1. j \in Nat
      BY <1>0
    <2>2. CASE j = i
      BY <1>13, <1>15, <1>16, <2>1, <2>2
    <2>3. CASE j # i
      BY <1>13, <1>16, <2>1, <2>3 DEF BitfieldInv
    <2> QED BY <2>2, <2>3
  <1>18. \A j \in Nat, q \in B!All : BitRange(i, o, b, r, j, q) =>
             j \in 0..(NumBlocks - 1) /\ q \notin dev.heap[j].free_mask
    BY <1>3, <1>5, <1>7, <1>13
  <1>19. BitfieldInv'
    BY <1>10, <1>11, <1>16, <1>17, <1>18, BitAllocated
  <1> QED BY <1>10, <1>16, <1>19

\* malloc of whole blocks, and of g grains of the one behind them.
LEMMA BitLarge ==
    ASSUME BitfieldInv, NEW size \in MallocSizes, NEW b \in Nat \ {0}, NEW g \in B!All,
           NEW n \in Nat, n = b * GrainsPerBlock + g,
           size + HeaderSize <= n * GrainSize, B!AllocLarge(b, g, size)
    PROVE  \E a : BitOwned(a) /\ dev'.owned = dev.owned \cup {a} /\ BitfieldInv'
  <1> DEFINE L == GrainsPerBlock
             full == [free_mask |-> B!All, free_grains |-> 0]
             V == B!MASK(g)
  <1>1. PICK e \in B!LargePlaces(b, g) :
            dev' = [heap |-> [j \in B!Searched |->
                                IF j \in (e - b)..(e - 1) THEN full
                                ELSE IF j = e THEN B!Claim(dev.heap[j], V, g)
                                ELSE dev.heap[j]],
                    owned |-> dev.owned \cup
                                {B!Owns(B!to_addr(e - b, 0), b * L + g, size)}]
    BY DEF B!AllocLarge
  <1>0. /\ L \in Nat \ {0} /\ g \in Nat /\ g < L /\ 0 \in B!All
        /\ NumBlocks \in Nat \ {0} /\ B!All = 0..(L - 1) /\ B!Searched = 0..NumBlocks
    BY BitConstants
  <1>2. PICK i \in Nat : i = e - b /\ e = i + b /\ e \in Nat /\ e <= NumBlocks /\ i < NumBlocks
    <2>1. e \in b..NumBlocks
      BY DEF B!LargePlaces
    <2> QED BY <1>0, <2>1
  <1> DEFINE a == B!Owns(B!to_addr(i, 0), n, size)
  <1>3. /\ \A j \in i..(e - 1) : dev.heap[j].free_mask = {}
        /\ dev.heap[e].free_mask \cap V = {}
    BY <1>2 DEF B!LargePlaces
  <1>4. V = 0..(0 + g - 1) /\ V \subseteq B!All
    BY <1>0 DEF B!MASK
  <1>5. g > 0 => e < NumBlocks
    <2>1. g > 0 => 0 \in V
      BY <1>0, <1>4
    <2>2. e = NumBlocks => dev.heap[e].free_mask = B!All
      BY DEF BitfieldInv
    <2> HIDE DEF V
    <2> QED BY <1>0, <1>2, <1>3, <2>1, <2>2
  <1>6. i * L + 0 + n <= NumBlocks * L
    <2>1. (i + b) * L = i * L + b * L
      BY <1>0, <1>2
    <2>2. e * L + g <= NumBlocks * L + 0
      <3>1. e \in Int /\ NumBlocks \in Int /\ g \in 0..(L - 1) /\ 0 \in 0..(L - 1)
        BY <1>0, <1>2
      <3>2. e < NumBlocks \/ (e = NumBlocks /\ g <= 0)
        BY <1>0, <1>2, <1>5
      <3> QED BY <1>0, <3>1, <3>2, BitOrder
    <2>3. e * L + g = i * L + b * L + g
      BY <1>2, <2>1
    <2> QED BY <1>0, <2>2, <2>3
  <1>7. n # 0
    <2>1. b * L >= L
      BY <1>0
    <2> QED BY <1>0, <2>1
  <1>8. i \in 0..(NumBlocks - 1)
    BY <1>0, <1>2
  <1>9. /\ a.addr = B!to_addr(i, 0) + HeaderSize /\ a.grains = n /\ a.size = size
        /\ BitPlace(i, 0, a.grains)
    BY <1>0, <1>6, <1>7, <1>8 DEF B!Owns, BitPlace
  <1> HIDE DEF a, V
  <1>10. BitOwned(a)
    BY <1>9 DEF BitOwned
  <1>11. PICK c \in Nat, r \in B!All :
            /\ c = a.grains \div L /\ r = a.grains % L
            /\ \A j \in Nat, q \in B!All : BitCovers(a, j * L + q) <=> BitRange(i, 0, c, r, j, q)
    BY <1>9, BitOwnedRange
  <1>12. c = b /\ r = g
    <2>1. g \in 0..(L - 1)
      BY <1>0
    <2>2. (b * L + g) \div L = b /\ (b * L + g) % L = g
      BY <1>0, <2>1, QuotientIs
    <2> QED BY <1>9, <1>11, <2>2
  <1>13. \A j \in Nat, q \in B!All :
             BitRange(i, 0, c, r, j, q) <=> j \in i..(e - 1) \/ (j = e /\ q \in V)
    <2>1. \A q \in B!All : q \in 0..(0 + g - 1) <=> q \in V
      BY <1>4
    <2> QED BY <1>2, <1>12, <2>1 DEF BitRange
  <1>14. dev' = [heap |-> [j \in B!Searched |->
                             IF j \in i..(e - 1) THEN full
                             ELSE IF j = e THEN B!Claim(dev.heap[j], V, g)
                             ELSE dev.heap[j]],
                 owned |-> dev.owned \cup {a}]
    BY <1>1, <1>2 DEF a
  <1>15. /\ BitBlock(B!Claim(dev.heap[e], V, g))
         /\ B!Claim(dev.heap[e], V, g).free_mask = dev.heap[e].free_mask \cup V
    <2>1. e \in B!Searched
      BY <1>0, <1>2
    <2>2. BitBlock(dev.heap[e])
      BY <2>1 DEF BitfieldInv
    <2>3. Cardinality(V) = g
      BY <1>0, <1>4, BitMask
    <2>4. g \in B!All /\ V \in SUBSET B!All /\ dev.heap[e].free_mask \cap V = {}
      BY <1>3, <1>4
    <2> QED BY <2>2, <2>3, <2>4, BitClaim
  <1>16. BitBlock(full)
    BY BitConstants DEF BitBlock
  <1>17. /\ DOMAIN dev' = {"heap", "owned"} /\ DOMAIN dev'.heap = B!Searched
         /\ dev'.owned = dev.owned \cup {a}
         /\ \A j \in B!Searched :
               dev'.heap[j] = IF j \in i..(e - 1) THEN full
                              ELSE IF j = e THEN B!Claim(dev.heap[j], V, g) ELSE dev.heap[j]
    BY <1>14
  <1>18. \A j \in B!Searched : BitBlock(dev'.heap[j]) /\ \A q \in B!All :
             q \in dev'.heap[j].free_mask <=> q \in dev.heap[j].free_mask \/ BitRange(i, 0, c, r, j, q)
    <2> SUFFICES ASSUME NEW j \in B!Searched
                 PROVE  BitBlock(dev'.heap[j]) /\ \A q \in B!All :
                           q \in dev'.heap[j].free_mask <=> q \in dev.heap[j].free_mask \/ BitRange(i, 0, c, r, j, q)
      OBVIOUS
    <2>1. j \in Nat
      BY <1>0
    <2>2. CASE j \in i..(e - 1)
      <3>1. dev'.heap[j] = full
        BY <1>17, <2>2
      <3> QED BY <1>13, <1>16, <2>1, <2>2, <3>1
    <2>3. CASE j = e
      <3>1. j \notin i..(e - 1)
        BY <1>2, <2>3
      <3>2. dev'.heap[j] = B!Claim(dev.heap[e], V, g)
        BY <1>17, <2>3, <3>1
      <3> QED BY <1>13, <1>15, <2>1, <2>3, <3>1, <3>2
    <2>4. CASE j # e /\ j \notin i..(e - 1)
      <3>1. dev'.heap[j] = dev.heap[j]
        BY <1>17, <2>4
      <3> QED BY <1>13, <2>1, <2>4, <3>1 DEF BitfieldInv
    <2> QED BY <2>2, <2>3, <2>4
  <1>19. \A j \in Nat, q \in B!All : BitRange(i, 0, c, r, j, q) =>
             j \in 0..(NumBlocks - 1) /\ q \notin dev.heap[j].free_mask
    <2> SUFFICES ASSUME NEW j \in Nat, NEW q \in B!All, j \in i..(e - 1) \/ (j = e /\ q \in V)
                 PROVE  j \in 0..(NumBlocks - 1) /\ q \notin dev.heap[j].free_mask
      BY <1>13
    <2>1. CASE j \in i..(e - 1)
      BY <1>0, <1>2, <1>3, <2>1
    <2>2. CASE j = e /\ q \in V
      <3>1. g > 0
        BY <1>0, <1>4, <2>2
      <3> QED BY <1>0, <1>2, <1>3, <1>5, <2>2, <3>1
    <2> QED BY <2>1, <2>2
  <1>20. BitfieldInv'
    BY <1>10, <1>11, <1>17, <1>18, <1>19, BitAllocated
  <1> QED BY <1>10, <1>17, <1>20
\* The sizes that are asked for do not wrap when the header is added and they are
\* rounded up.
NoWrap == \A size \in MallocSizes : size <= B!HeapSize => size + HeaderSize + GrainSize - 1 < SizeWord

\* A size gets the grains that it needs.
LEMMA BitGrains ==
    ASSUME NoWrap, NEW size \in MallocSizes, size <= B!HeapSize
    PROVE  B!Grains(size) \in Nat \ {0} /\ size + HeaderSize <= B!Grains(size) * GrainSize
  <1>0. size \in Nat /\ HeaderSize \in Nat \ {0} /\ GrainSize \in Nat \ {0} /\ SizeWord \in Nat \ {0}
    BY BitConstants
  <1>1. PICK s \in Nat : s = size + HeaderSize + GrainSize - 1
    BY <1>0
  <1>2. s % SizeWord = s
    BY <1>0, <1>1 DEF NoWrap
  <1>3. B!Grains(size) = s \div GrainSize
    BY <1>1, <1>2 DEF B!Grains
  <1>4. PICK q \in Int, r \in Int : q = s \div GrainSize /\ r = s % GrainSize
    BY <1>0
  <1>5. q \in Nat /\ r \in 0..(GrainSize - 1) /\ GrainSize * q + r = s
    BY <1>0, <1>4, Quotients
  <1>6. size + HeaderSize <= q * GrainSize
    BY <1>0, <1>1, <1>5
  <1>7. q # 0
    BY <1>0, <1>6
  <1> QED BY <1>3, <1>4, <1>5, <1>6, <1>7

LEMMA BitMalloc ==
    ASSUME BitfieldInv, NoWrap, NEW size \in MallocSizes, B!malloc(size)
    PROVE  \E a : BitOwned(a) /\ dev'.owned = dev.owned \cup {a} /\ BitfieldInv'
  <1>0. GrainsPerBlock \in Nat \ {0} /\ B!All = 0..(GrainsPerBlock - 1)
    BY BitConstants
  <1>1. size <= B!HeapSize
    BY DEF B!malloc
  <1>2. PICK n \in Nat \ {0} : n = B!Grains(size) /\ size + HeaderSize <= n * GrainSize
    BY <1>1, BitGrains
  <1>3. CASE n < GrainsPerBlock
    <2>1. B!AllocSmall(n, size) /\ n \in B!All \ {0}
      BY <1>0, <1>2, <1>3 DEF B!malloc
    <2> QED BY <1>2, <2>1, BitSmall
  <1>4. CASE ~(n < GrainsPerBlock)
    <2>1. PICK b \in Int, g \in Int : b = n \div GrainsPerBlock /\ g = n % GrainsPerBlock
      BY <1>0
    <2>2. B!AllocLarge(b, g, size)
      BY <1>2, <1>4, <2>1 DEF B!malloc
    <2>3. b \in Nat /\ g \in 0..(GrainsPerBlock - 1) /\ GrainsPerBlock * b + g = n
      BY <1>0, <2>1, Quotients
    <2>4. b # 0 /\ n = b * GrainsPerBlock + g
      BY <1>0, <1>4, <2>3
    <2>5. b \in Nat \ {0} /\ g \in B!All
      BY <1>0, <2>3, <2>4
    <2> QED BY <1>2, <2>2, <2>4, <2>5, BitLarge
  <1> QED BY <1>3, <1>4

LEMMA BitFree ==
    ASSUME BitfieldInv, NEW a \in dev.owned, B!free(a)
    PROVE  dev'.owned = dev.owned \ {a} /\ BitfieldInv'
  <1> DEFINE L == GrainsPerBlock
  <1>0. /\ L \in Nat \ {0} /\ NumBlocks \in Nat \ {0} /\ B!All = 0..(L - 1) /\ B!Searched = 0..NumBlocks
    BY BitConstants
  <1>1. PICK i, o : BitPlace(i, o, a.grains) /\ a.addr = B!to_addr(i, o) + HeaderSize
    BY DEF BitfieldInv, BitOwned
  <1>a. PICK n \in Nat \ {0} : n = a.grains
    BY <1>1 DEF BitPlace
  <1>2. /\ i \in Nat /\ o \in B!All /\ o \in Nat /\ i < NumBlocks
        /\ o = 0 \/ o + n <= L
    BY <1>0, <1>1, <1>a DEF BitPlace
  <1>b. B!addr_to_block(a.addr - HeaderSize) = i /\ B!addr_to_grain_offset(a.addr - HeaderSize) = o
    BY <1>1, BitOwnedRange
  <1>3. PICK b \in Nat, g \in B!All :
            /\ b = a.grains \div L /\ g = a.grains % L
            /\ a.grains = b * L + g
            /\ i + b <= NumBlocks /\ (g > 0 => i + b < NumBlocks)
            /\ b > 0 => o = 0
            /\ \A j \in Nat, q \in B!All : BitCovers(a, j * L + q) <=> BitRange(i, o, b, g, j, q)
    BY <1>1, BitOwnedRange
  <1>c. PICK e \in Nat : e = i + b
    BY <1>2
  <1>d. e <= NumBlocks /\ (g > 0 => e < NumBlocks) /\ g \in Nat /\ g < L
    <2>1. e <= NumBlocks /\ (g > 0 => e < NumBlocks)
      BY <1>3, <1>c, Zenon
    <2>2. g \in Nat /\ g < L
      BY <1>0
    <2> QED BY <2>1, <2>2
  <1>e. i + b = e /\ i + b - 1 = e - 1
    BY <1>2, <1>c
  <1>f. \A j \in Nat, q \in B!All : BitCovers(a, j * L + q) <=> BitRange(i, o, b, g, j, q)
    BY <1>3, Zenon
  <1> DEFINE V == B!Shift(B!MASK(g), o)
  <1>4. (IF b = 0 THEN o ELSE 0) = o
    BY <1>3
  <1>5. dev' = [owned |-> dev.owned \ {a},
                heap |-> [j \in B!Searched |->
                             IF j \in i..(e - 1) THEN B!FreeBlock
                             ELSE IF j = e THEN B!Freed(dev.heap[j], V, g)
                             ELSE dev.heap[j]]]
    <2>1. a.grains \div L = b /\ a.grains % L = g
      BY <1>3
    <2> QED BY <1>b, <1>e, <1>4, <2>1 DEF B!free
  <1>6. V = o..(o + g - 1) /\ Cardinality(V) = g
    BY <1>2, BitMask
  <1> HIDE DEF V
  <1>7. e \in B!Searched
    BY <1>0, <1>d
  <1>8. \A j \in Nat, q \in B!All : BitRange(i, o, b, g, j, q) <=> j \in i..(e - 1) \/ (j = e /\ q \in V)
    <2> SUFFICES ASSUME NEW j \in Nat, NEW q \in B!All
                 PROVE  BitRange(i, o, b, g, j, q) <=> j \in i..(e - 1) \/ (j = e /\ q \in V)
      OBVIOUS
    <2> QED BY <1>e, <1>6 DEF BitRange
  <1>9. V \subseteq dev.heap[e].free_mask
    <2> SUFFICES ASSUME NEW q \in V PROVE q \in dev.heap[e].free_mask
      OBVIOUS
    <2>1. g > 0 /\ q \in Nat /\ o <= q /\ q < o + g
      BY <1>2, <1>6, <1>d
    <2>2. e \in 0..(NumBlocks - 1)
      BY <1>0, <1>d, <2>1
    <2>3. q \in B!All
      <3>1. o + g <= L
        <4>1. CASE b = 0
          <5>1. b * L = 0
            BY <1>0, <4>1
          <5>2. n = g
            BY <1>a, <1>3, <1>d, <5>1
          <5> QED BY <1>0, <1>2, <1>d, <5>2
        <4>2. CASE b > 0
          BY <1>0, <1>3, <1>d, <4>2
        <4> QED BY <4>1, <4>2
      <3> QED BY <1>0, <1>2, <1>d, <2>1, <3>1
    <2>4. BitCovers(a, e * L + q)
      BY <1>f, <1>8, <2>3
    <2> QED BY <2>2, <2>3, <2>4 DEF BitfieldInv
  <1>10. /\ BitBlock(B!Freed(dev.heap[e], V, g))
         /\ B!Freed(dev.heap[e], V, g).free_mask = dev.heap[e].free_mask \ V
    <2>1. BitBlock(dev.heap[e])
      BY <1>7 DEF BitfieldInv
    <2>2. V \in SUBSET B!All
      BY <1>9, <2>1 DEF BitBlock
    <2> QED BY <1>6, <1>9, <2>1, <2>2, BitFreed
  <1>11. BitBlock(B!FreeBlock) /\ B!FreeBlock.free_mask = {}
    BY <1>0, FS_EmptySet DEF BitBlock, B!FreeBlock
  <1>12. /\ DOMAIN dev' = {"heap", "owned"} /\ DOMAIN dev'.heap = B!Searched
         /\ dev'.owned = dev.owned \ {a}
         /\ \A j \in B!Searched :
               dev'.heap[j] = IF j \in i..(e - 1) THEN B!FreeBlock
                              ELSE IF j = e THEN B!Freed(dev.heap[j], V, g) ELSE dev.heap[j]
    BY <1>5
  <1>13. \A j \in B!Searched : BitBlock(dev'.heap[j]) /\ \A q \in B!All :
             q \in dev'.heap[j].free_mask <=> q \in dev.heap[j].free_mask /\ ~BitRange(i, o, b, g, j, q)
    <2> SUFFICES ASSUME NEW j \in B!Searched
                 PROVE  BitBlock(dev'.heap[j]) /\ \A q \in B!All :
                           q \in dev'.heap[j].free_mask <=> q \in dev.heap[j].free_mask /\ ~BitRange(i, o, b, g, j, q)
      OBVIOUS
    <2>1. j \in Nat
      BY <1>0
    <2>2. CASE j \in i..(e - 1)
      <3>1. dev'.heap[j] = B!FreeBlock
        BY <1>12, <2>2
      <3> QED BY <1>8, <1>11, <2>1, <2>2, <3>1
    <2>3. CASE j = e
      <3>1. j \notin i..(e - 1)
        BY <1>2, <2>3
      <3>2. dev'.heap[j] = B!Freed(dev.heap[e], V, g)
        BY <1>12, <2>3, <3>1
      <3> QED BY <1>8, <1>10, <2>1, <2>3, <3>1, <3>2
    <2>4. CASE j # e /\ j \notin i..(e - 1)
      <3>1. dev'.heap[j] = dev.heap[j]
        BY <1>12, <2>4
      <3> QED BY <1>8, <2>1, <2>4, <3>1 DEF BitfieldInv
    <2> QED BY <2>2, <2>3, <2>4
  <1>14. \A q \in B!All : ~BitRange(i, o, b, g, NumBlocks, q)
    <2>1. NumBlocks \notin i..(e - 1)
      BY <1>0, <1>d
    <2>2. NumBlocks = e => g = 0
      BY <1>0, <1>d
    <2>3. g = 0 => V = {}
      BY <1>2, <1>6
    <2> QED BY <1>0, <1>8, <2>1, <2>2, <2>3
  <1>15. BitfieldInv'
    BY <1>f, <1>12, <1>13, <1>14, BitGivenBack
  <1> QED BY <1>12, <1>15

LEMMA BitfieldStep == NoWrap /\ BitfieldInv /\ [B!Next]_vars => BitfieldInv'
  <1> SUFFICES ASSUME NoWrap, BitfieldInv, [B!Next]_vars PROVE BitfieldInv'
    OBVIOUS
  <1>1. CASE UNCHANGED vars
    BY <1>1 DEF vars, BitfieldInv
  <1>2. ASSUME NEW size \in MallocSizes, B!malloc(size) PROVE BitfieldInv'
    BY <1>2, BitMalloc
  <1>3. ASSUME NEW a \in dev.owned, B!free(a) PROVE BitfieldInv'
    BY <1>3, BitFree
  <1> QED BY <1>1, <1>2, <1>3 DEF B!Next
\* A set of numbers that is moved keeps its size.
LEMMA BitShifted ==
    ASSUME NEW m \in SUBSET B!All, NEW c \in Int
    PROVE  Cardinality(B!Shift(m, c)) = Cardinality(m)
  <1> DEFINE f == [k \in m |-> k + c]
             T == B!Shift(m, c)
  <1>1. T = {k + c : k \in m} /\ \A k \in m : k \in Int
    BY BitConstants DEF B!Shift
  <1>2. f \in [m -> T]
    BY <1>1
  <1>3. \A k, l \in m : f[k] = f[l] => k = l
    <2>1. \A k, l \in Int : k + c = l + c => k = l
      OBVIOUS
    <2> QED BY <1>1, <2>1
  <1>4. \A x \in T : \E k \in m : f[k] = x
    BY <1>1
  <1>5. f \in Injection(m, T)
    BY <1>2, <1>3 DEF Injection, IsInjective
  <1>6. f \in Surjection(m, T)
    BY <1>2, <1>4 DEF Surjection
  <1>7. ExistsBijection(m, T)
    BY <1>5, <1>6 DEF ExistsBijection, Bijection
  <1>8. IsFiniteSet(m)
    BY BitConstants, FS_Subset
  <1> QED BY <1>7, <1>8, FS_Bijection

\* The bits of block i are the grains in it that are used.
LEMMA BitfieldGoal == BitfieldInv => B!GrainsExact
  <1> SUFFICES ASSUME BitfieldInv PROVE B!GrainsExact
    OBVIOUS
  <1> DEFINE L == GrainsPerBlock
             Used(i) == (UNION {(a.addr - HeaderSize) \div GrainSize ..
                           ((a.addr - HeaderSize) \div GrainSize + a.grains - 1) : a \in dev.owned})
                        \cap (i * L .. ((i + 1) * L - 1))
  <1>1. ASSUME NEW i \in 0..(NumBlocks - 1)
        PROVE  /\ B!Shift(dev.heap[i].free_mask, i * L) = Used(i)
               /\ dev.heap[i].free_grains = L - Cardinality(Used(i))
    <2> DEFINE m == dev.heap[i].free_mask
    <2>0. L \in Nat \ {0} /\ i \in Nat /\ i \in B!Searched /\ B!All = 0..(L - 1)
      BY BitConstants
    <2>1. PICK c \in Nat : c = i * L
      BY <2>0
    <2>2. (i + 1) * L - 1 = c + (L - 1)
      BY <2>0, <2>1
    <2>3. BitBlock(dev.heap[i]) /\ m \subseteq B!All
      BY <2>0 DEF BitfieldInv, BitBlock
    <2>4. \A a \in dev.owned : BitStart(a) \in Nat /\ a.grains \in Nat
      <3> SUFFICES ASSUME NEW a \in dev.owned PROVE BitStart(a) \in Nat /\ a.grains \in Nat
        OBVIOUS
      <3>1. PICK j, o : BitPlace(j, o, a.grains) /\ a.addr = B!to_addr(j, o) + HeaderSize
        BY DEF BitfieldInv, BitOwned
      <3>2. BitStart(a) \in Nat
        BY <3>1, BitOwnedRange
      <3> QED BY <3>1, <3>2 DEF BitPlace
    <2>5. PICK U : U = Used(i)
      OBVIOUS
    <2>6. ASSUME NEW x PROVE x \in U <=> x \in Int /\ x - c \in B!All
                                                  /\ \E a \in dev.owned : BitCovers(a, x)
      <3>1. x \in c..(c + (L - 1)) <=> x \in Int /\ x - c \in B!All
        BY <2>0, <2>1
      <3>2. ASSUME NEW a \in dev.owned, x \in Int
            PROVE  x \in BitStart(a)..(BitStart(a) + a.grains - 1) <=> BitCovers(a, x)
        BY <2>4, <3>2 DEF BitCovers
      <3>3. Used(i) = (UNION {BitStart(a)..(BitStart(a) + a.grains - 1) : a \in dev.owned})
                      \cap (c..(c + (L - 1)))
        BY <2>1, <2>2 DEF BitStart
      <3>4. x \in U <=> /\ \E a \in dev.owned : x \in BitStart(a)..(BitStart(a) + a.grains - 1)
                        /\ x \in c..(c + (L - 1))
        BY <2>5, <3>3
      <3>5. CASE x \in Int
        BY <3>1, <3>2, <3>4, <3>5
      <3>6. CASE x \notin Int
        BY <3>1, <3>4, <3>6
      <3> QED BY <3>5, <3>6
    <2>7. ASSUME NEW q \in B!All
          PROVE  q \in m <=> \E a \in dev.owned : BitCovers(a, c + q)
      BY <2>1 DEF BitfieldInv
    <2>8. ASSUME NEW x \in U PROVE x \in B!Shift(m, c)
      <3>1. x \in Int /\ x - c \in B!All /\ \E a \in dev.owned : BitCovers(a, x)
        BY <2>6
      <3>2. PICK q \in B!All : q = x - c
        BY <3>1
      <3>3. q + c = x /\ c + q = x
        BY <2>0, <2>1, <3>1, <3>2
      <3>4. q \in m
        BY <2>7, <3>1, <3>3
      <3> QED BY <3>3, <3>4 DEF B!Shift
    <2>9. ASSUME NEW x \in B!Shift(m, c) PROVE x \in U
      <3>1. PICK q \in m : x = q + c
        BY DEF B!Shift
      <3>2. q \in B!All
        BY <2>3
      <3>3. x \in Int /\ x - c = q /\ c + q = x
        BY <2>0, <2>1, <3>1, <3>2
      <3> QED BY <2>6, <2>7, <3>2, <3>3
    <2>10. B!Shift(m, c) = U
      BY <2>8, <2>9
    <2>11. Cardinality(U) = Cardinality(m)
      BY <2>1, <2>3, <2>10, BitShifted
    <2> QED BY <2>1, <2>3, <2>5, <2>10, <2>11 DEF BitBlock
  <1> QED BY <1>1 DEF B!GrainsExact, B!Cardinality, Cardinality

\* The bytes of an allocation.
LEMMA BitBytes ==
    ASSUME NEW a, BitOwned(a)
    PROVE  \E s \in Nat, n \in Nat \ {0} :
              /\ s = BitStart(a) /\ n = a.grains /\ a.size \in Nat
              /\ a.addr = s * GrainSize + HeaderSize
              /\ a.addr + a.size <= (s + n) * GrainSize
              /\ (s + n) * GrainSize <= B!HeapSize
  <1>0. /\ GrainsPerBlock \in Nat \ {0} /\ GrainSize \in Nat \ {0} /\ HeaderSize \in Nat \ {0}
        /\ NumBlocks \in Nat \ {0} /\ MallocSizes \subseteq Nat
    BY BitConstants
  <1>1. PICK i, o : BitPlace(i, o, a.grains) /\ a.addr = B!to_addr(i, o) + HeaderSize
    BY DEF BitOwned
  <1>2. PICK n \in Nat \ {0} : n = a.grains
    BY <1>1 DEF BitPlace
  <1>3. i \in Nat /\ o \in B!All /\ o \in Nat
    BY <1>0, <1>1, BitConstants DEF BitPlace
  <1>4. PICK s \in Nat : s = i * GrainsPerBlock + o /\ s = BitStart(a)
    BY <1>1, BitOwnedRange
  <1>5. a.addr \in Nat /\ a.addr - HeaderSize = s * GrainSize
    BY <1>0, <1>1, <1>3, <1>4, BitAddress
  <1>6. a.addr = s * GrainSize + HeaderSize
    BY <1>0, <1>5
  <1>7. a.size \in Nat /\ a.size + HeaderSize <= n * GrainSize
    BY <1>0, <1>2 DEF BitOwned
  <1>8. (s + n) * GrainSize = s * GrainSize + n * GrainSize /\ s * GrainSize \in Nat /\ n * GrainSize \in Nat
    BY <1>0
  <1>9. a.addr + a.size <= (s + n) * GrainSize
    BY <1>0, <1>6, <1>7, <1>8
  <1>10. s + n <= NumBlocks * GrainsPerBlock
    BY <1>0, <1>1, <1>2, <1>3, <1>4 DEF BitPlace
  <1>11. (s + n) * GrainSize <= (NumBlocks * GrainsPerBlock) * GrainSize
    BY <1>0, <1>10
  <1>12. B!HeapSize = (NumBlocks * GrainsPerBlock) * GrainSize
    BY <1>0 DEF B!HeapSize, B!BlockSize
  <1> QED BY <1>2, <1>4, <1>6, <1>7, <1>9, <1>11, <1>12

\* Two allocations are apart.
LEMMA BitApart ==
    ASSUME BitfieldInv, NEW a \in dev.owned, NEW b \in dev.owned, a # b
    PROVE  BitStart(a) + a.grains <= BitStart(b) \/ BitStart(b) + b.grains <= BitStart(a)
  <1>1. PICK s \in Nat, n \in Nat \ {0} : s = BitStart(a) /\ n = a.grains
    BY BitBytes DEF BitfieldInv
  <1>2. PICK u \in Nat, v \in Nat \ {0} : u = BitStart(b) /\ v = b.grains
    BY BitBytes DEF BitfieldInv
  <1>3. \A k \in Nat : ~(BitCovers(a, k) /\ BitCovers(b, k))
    BY DEF BitfieldInv
  <1>4. \A k \in Nat : ~(s <= k /\ k < s + n /\ u <= k /\ k < u + v)
    BY <1>1, <1>2, <1>3 DEF BitCovers
  <1>5. ~(s <= u /\ u < s + n) /\ ~(u <= s /\ s < u + v)
    BY <1>4
  <1>6. s + n <= u \/ u + v <= s
    BY <1>5
  <1> QED BY <1>1, <1>2, <1>6
\* malloc makes a region, or none.
LEMMA BitMallocIsAlloc ==
    ASSUME BitfieldInv, BitfieldInv', NEW a, BitOwned(a), a \notin dev.owned, dev'.owned = dev.owned \cup {a}
    PROVE  B!Heap!Next
  <1> DEFINE region(x) == [start |-> x.addr, len |-> x.size]
             regions == {region(x) : x \in dev.owned}
             r == region(a)
  <1>0. GrainSize \in Nat \ {0} /\ HeaderSize \in Nat \ {0} /\ B!HeapSize \in Nat
    BY BitConstants, BitBytes DEF B!HeapSize, B!BlockSize
  <1>1. PICK s \in Nat, n \in Nat \ {0} :
              /\ s = BitStart(a) /\ n = a.grains /\ a.size \in Nat
              /\ a.addr = s * GrainSize + HeaderSize
              /\ a.addr + a.size <= (s + n) * GrainSize
              /\ (s + n) * GrainSize <= B!HeapSize
    BY BitBytes
  <1>2. s * GrainSize \in Nat /\ a.addr \in Nat /\ a.addr + a.size <= B!HeapSize
    BY <1>0, <1>1
  <1>3. B!Heap!Bytes(r) = a.addr..(a.addr + a.size - 1)
    BY DEF B!Heap!Bytes
  <1>4. B!Heap!Bytes(r) \subseteq 0..(B!HeapSize - 1)
    <2>1. PICK p \in Nat, z \in Nat, h \in Nat : p = a.addr /\ z = a.size /\ h = B!HeapSize
      BY <1>0, <1>1, <1>2
    <2>2. p + z <= h
      BY <1>2, <2>1
    <2>3. p..(p + z - 1) \subseteq 0..(h - 1)
      BY <2>2
    <2> QED BY <1>3, <2>1, <2>3
  <1>5. ASSUME NEW x \in dev.owned
        PROVE  B!Heap!Bytes(r) \cap B!Heap!Bytes(region(x)) = {} /\ a.addr # x.addr
    <2>1. PICK u \in Nat, v \in Nat \ {0} :
              /\ u = BitStart(x) /\ v = x.grains /\ x.size \in Nat
              /\ x.addr = u * GrainSize + HeaderSize
              /\ x.addr + x.size <= (u + v) * GrainSize
      BY BitBytes DEF BitfieldInv
    <2>2. s + n <= u \/ u + v <= s
      <3>1. x # a /\ x \in dev'.owned /\ a \in dev'.owned
        OBVIOUS
      <3>2. \A k \in Nat : ~(BitCovers(a, k) /\ BitCovers(x, k))
        BY <3>1 DEF BitfieldInv
      <3>3. \A k \in Nat : ~(s <= k /\ k < s + n /\ u <= k /\ k < u + v)
        BY <1>1, <2>1, <3>2 DEF BitCovers
      <3>4. ~(s <= u /\ u < s + n) /\ ~(u <= s /\ s < u + v)
        BY <3>3
      <3> QED BY <3>4
    <2>3. B!Heap!Bytes(region(x)) = x.addr..(x.addr + x.size - 1)
      BY DEF B!Heap!Bytes
    <2>4. u * GrainSize \in Nat /\ x.addr \in Nat
      BY <1>0, <2>1
    <2>5. a.addr + a.size <= x.addr \/ x.addr + x.size <= a.addr
      <3>1. CASE s + n <= u
        <4>1. (s + n) * GrainSize <= u * GrainSize
          BY <1>0, <3>1
        <4> QED BY <1>0, <1>1, <1>2, <2>1, <2>4, <4>1
      <3>2. CASE u + v <= s
        <4>1. (u + v) * GrainSize <= s * GrainSize
          BY <1>0, <3>2
        <4> QED BY <1>0, <1>1, <1>2, <2>1, <2>4, <4>1
      <3> QED BY <2>2, <3>1, <3>2
    <2>6. a.addr # x.addr
      <3>1. s # u
        BY <2>2
      <3>2. s * GrainSize # u * GrainSize
        BY <1>0, <3>1
      <3> QED BY <1>0, <1>1, <1>2, <2>1, <2>4, <3>2
    <2>7. \A k : ~(k \in B!Heap!Bytes(r) /\ k \in B!Heap!Bytes(region(x)))
      BY <1>1, <1>2, <1>3, <2>1, <2>3, <2>4, <2>5
    <2> QED BY <2>6, <2>7
  <1>6. {region(x) : x \in dev'.owned} = regions \cup {r}
    OBVIOUS
  <1>7. PICK start \in 0..B!HeapSize, len \in MallocSizes : start = a.addr /\ len = a.size
    BY <1>0, <1>1, <1>2 DEF BitOwned
  <1>8. B!Heap!Alloc([start |-> start, len |-> len])
    BY <1>4, <1>5, <1>6, <1>7 DEF B!Heap!Alloc
  <1> QED BY <1>8 DEF B!Heap!Next

\* free takes back the region of its caller.
LEMMA BitFreeIsFree ==
    ASSUME BitfieldInv, NEW a \in dev.owned, dev'.owned = dev.owned \ {a}
    PROVE  B!Heap!Next
  <1> DEFINE region(x) == [start |-> x.addr, len |-> x.size]
             r == region(a)
  <1>0. GrainSize \in Nat \ {0} /\ HeaderSize \in Nat \ {0} /\ B!HeapSize \in Nat
    BY BitConstants, BitBytes DEF B!HeapSize, B!BlockSize
  <1>1. PICK s \in Nat, n \in Nat \ {0} :
              /\ s = BitStart(a) /\ n = a.grains /\ a.size \in Nat
              /\ a.addr = s * GrainSize + HeaderSize
              /\ a.addr + a.size <= (s + n) * GrainSize
              /\ (s + n) * GrainSize <= B!HeapSize
    BY BitBytes DEF BitfieldInv
  <1>2. s * GrainSize \in Nat /\ a.addr \in Nat /\ a.addr + a.size <= B!HeapSize
    BY <1>0, <1>1
  <1>3. ASSUME NEW x \in dev.owned, x # a PROVE region(x) # r
    <2>1. PICK u \in Nat, v \in Nat \ {0} :
              u = BitStart(x) /\ v = x.grains /\ x.addr = u * GrainSize + HeaderSize
      BY BitBytes DEF BitfieldInv
    <2>2. u # s
      BY <1>1, <1>3, <2>1, BitApart
    <2>3. u * GrainSize # s * GrainSize
      BY <1>0, <2>2
    <2>4. x.addr # a.addr
      BY <1>0, <1>1, <1>2, <2>1, <2>3
    <2> QED BY <2>4
  <1>4. r \in {region(x) : x \in dev.owned}
    OBVIOUS
  <1>5. {region(x) : x \in dev'.owned} = {region(x) : x \in dev.owned} \ {r}
    BY <1>3
  <1>6. PICK start \in 0..B!HeapSize, len \in MallocSizes : start = a.addr /\ len = a.size
    BY <1>0, <1>1, <1>2 DEF BitfieldInv, BitOwned
  <1>7. B!Heap!Free([start |-> start, len |-> len])
    BY <1>4, <1>5, <1>6 DEF B!Heap!Free
  <1> QED BY <1>7 DEF B!Heap!Next

LEMMA BitfieldImplements ==
    ASSUME NoWrap, BitfieldInv, [B!Next]_vars
    PROVE  B!HeapAction
  <1>1. CASE UNCHANGED vars
    BY <1>1 DEF vars, B!HeapAction
  <1>2. ASSUME NEW size \in MallocSizes, B!malloc(size) PROVE B!HeapAction
    <2>1. PICK a : BitOwned(a) /\ dev'.owned = dev.owned \cup {a} /\ BitfieldInv'
      BY <1>2, BitMalloc
    <2>2. CASE a \in dev.owned
      BY <2>1, <2>2 DEF B!HeapAction
    <2>3. CASE a \notin dev.owned
      BY <2>1, <2>3, BitMallocIsAlloc DEF B!HeapAction
    <2> QED BY <2>2, <2>3
  <1>3. ASSUME NEW a \in dev.owned, B!free(a) PROVE B!HeapAction
    BY <1>3, BitFree, BitFreeIsFree DEF B!HeapAction
  <1> QED BY <1>1, <1>2, <1>3 DEF B!Next

-------------------------------------------------------------------------------
(* Boot *)

BootDev ==
    [at : 0..10, heap : BOOLEAN, early : BOOLEAN, power_led : BOOLEAN, stderr : BOOLEAN,
     task_switching : BOOLEAN, ready : BOOLEAN, first_tx : BOOLEAN,
     dying : {"no", "print", "panic"}, left : Int]

BootHw ==
    [EN : BOOLEAN, TCIF : BOOLEAN, sender : W!Actors \cup {W!NoActor, "panic"}, lit : BOOLEAN]

BootType ==
    /\ dev \in BootDev
    /\ hw \in BootHw
    /\ lock \in [{"write_lock"} -> W!Actors \cup {Nobody}]
    /\ loc \in [W!Actors -> {"idle", "work", "send", "sent", "out"}]

\* What boot has set up before each of its calls.
BootOrderInv ==
    /\ ~dev.early
    /\ dev.at = 0 \/ dev.at > 3 => dev.heap
    /\ dev.at = 0 \/ dev.at > 7 => dev.stderr
    /\ W!Alive /\ dev.at = 0 => dev.task_switching
    /\ hw.sender # W!NoActor => dev.stderr

\* Who prints: boot at its banner, then tasks, one of them with the lock.
BootPrintsInv ==
    /\ dev.at # 8 => loc[W!Boot] = "idle"
    /\ dev.at # 0 => \A t \in Tasks : loc[t] = "idle"
    /\ W!Alive => \A a \in W!Actors : loc[a] # "idle" => lock["write_lock"] = a

Sends == \E a \in W!Actors : loc[a] = "send"

\* A transaction was begun if one was waited for; it is under way, or complete, or
\* its completion has been seen by a writer that is about to begin the next.
BootPortInv ==
    /\ dev.first_tx => ~hw.EN /\ ~hw.TCIF
    /\ hw.TCIF => ~hw.EN
    /\ Sends => ~hw.EN /\ ~hw.TCIF /\ ~dev.first_tx
    /\ ~dev.first_tx => hw.EN \/ hw.TCIF \/ Sends

BootInv == BootType /\ BootOrderInv /\ BootPrintsInv /\ BootPortInv

LEMMA BootActors ==
    /\ W!Boot \notin Tasks /\ Nobody \notin W!Actors
    /\ W!NoActor \notin W!Actors /\ "panic" \notin W!Actors /\ "panic" # W!NoActor
    /\ \A a \in W!Actors : a \in Tasks <=> a # W!Boot
  BY DriversAssumption, CallsAssumption
     DEF W!BootAssumption, W!Actors, W!Boot, W!NoActor

LEMMA BootOrder ==
    ASSUME NEW i \in 1..10
    PROVE  /\ W!Order[i] = "sched" <=> i = 10
           /\ W!Order[i] = "heap" <=> i = 3
           /\ W!Order[i] = "io" <=> i = 7
           /\ W!Order[i] = "banner" <=> i = 8
           /\ W!Order[i] = "led" <=> i = 4
           /\ W!Order[i] \in W!Allocates => i > 3
  <1>1. i \in {1, 2, 3, 4, 5, 6, 7, 8, 9, 10}
    OBVIOUS
  <1> QED BY <1>1 DEF W!Order, W!Allocates

LEMMA BootInit == W!Init => BootInv
  <1> SUFFICES ASSUME W!Init PROVE BootInv
    OBVIOUS
  <1>1. BootType
    BY DEF W!Init, BootType, BootDev, BootHw, W!NoActor
  <1>2. BootOrderInv /\ BootPrintsInv
    BY BootActors DEF W!Init, BootOrderInv, BootPrintsInv, W!Alive, W!Actors
  <1>3. BootPortInv
    BY DEF W!Init, BootPortInv, Sends
  <1> QED BY <1>1, <1>2, <1>3 DEF BootInv

\* The end of a call of os_start.
LEMMA BootDone ==
    ASSUME BootType, dev.at # 0, NEW d, d = W!Done(dev)
    PROVE  /\ d \in BootDev
           /\ d.at = IF dev.at = 10 THEN 0 ELSE dev.at + 1
           /\ d.early => dev.early \/ (dev.at > 3 /\ ~dev.heap)
           /\ d.heap <=> dev.heap \/ dev.at = 3
           /\ d.stderr <=> dev.stderr \/ dev.at = 7
           /\ d.task_switching <=> dev.task_switching \/ dev.at = 10
           /\ d.first_tx = dev.first_tx /\ d.dying = dev.dying
  <1>0. dev.at \in 1..10 /\ dev \in BootDev
    BY DEF BootType, BootDev
  <1> DEFINE s == W!Order[dev.at]
             n == IF s = "sched" THEN 0 ELSE dev.at + 1
             early == dev.early \/ (s \in W!Allocates /\ ~dev.heap)
             e == [dev EXCEPT !.at = n, !.early = early]
  <1>1. n \in 0..10 /\ n = (IF dev.at = 10 THEN 0 ELSE dev.at + 1) /\ early \in BOOLEAN
    BY <1>0, BootOrder DEF BootDev
  <1>2. d = CASE s = "heap" -> [e EXCEPT !.heap = TRUE]
              [] s = "io" -> [e EXCEPT !.stderr = TRUE]
              [] s = "sched" -> [e EXCEPT !.task_switching = TRUE]
              [] OTHER -> e
    BY DEF W!Done
  <1>3. early => dev.early \/ (dev.at > 3 /\ ~dev.heap)
    BY <1>0, BootOrder
  <1> HIDE DEF n, early
  <1>4. /\ e \in BootDev /\ e.at = n /\ e.early = early
        /\ e.heap = dev.heap /\ e.stderr = dev.stderr /\ e.task_switching = dev.task_switching
        /\ e.first_tx = dev.first_tx /\ e.dying = dev.dying
    BY <1>0, <1>1 DEF BootDev
  <1> HIDE DEF e
  <1>5. CASE dev.at = 3
    <2>1. d = [e EXCEPT !.heap = TRUE]
      BY <1>0, <1>2, <1>5, BootOrder
    <2>2. /\ d \in BootDev /\ d.at = e.at /\ d.early = e.early
          /\ d.heap = TRUE /\ d.stderr = e.stderr /\ d.task_switching = e.task_switching
          /\ d.first_tx = e.first_tx /\ d.dying = e.dying
      BY <1>4, <2>1 DEF BootDev
    <2> QED BY <1>1, <1>3, <1>4, <1>5, <2>2
  <1>6. CASE dev.at = 7
    <2>1. d = [e EXCEPT !.stderr = TRUE]
      BY <1>0, <1>2, <1>6, BootOrder
    <2>2. /\ d \in BootDev /\ d.at = e.at /\ d.early = e.early
          /\ d.heap = e.heap /\ d.stderr = TRUE /\ d.task_switching = e.task_switching
          /\ d.first_tx = e.first_tx /\ d.dying = e.dying
      BY <1>4, <2>1 DEF BootDev
    <2> QED BY <1>1, <1>3, <1>4, <1>6, <2>2
  <1>7. CASE dev.at = 10
    <2>1. d = [e EXCEPT !.task_switching = TRUE]
      BY <1>0, <1>2, <1>7, BootOrder
    <2>2. /\ d \in BootDev /\ d.at = e.at /\ d.early = e.early
          /\ d.heap = e.heap /\ d.stderr = e.stderr /\ d.task_switching = TRUE
          /\ d.first_tx = e.first_tx /\ d.dying = e.dying
      BY <1>4, <2>1 DEF BootDev
    <2> QED BY <1>1, <1>3, <1>4, <1>7, <2>2
  <1>8. CASE dev.at \notin {3, 7, 10}
    <2>1. d = e
      BY <1>0, <1>2, <1>8, BootOrder
    <2> QED BY <1>1, <1>3, <1>4, <1>8, <2>1
  <1> QED BY <1>5, <1>6, <1>7, <1>8

\* The LED is of no account.
LEMMA BootToggled ==
    ASSUME BootType, hw' = W!Toggled(hw)
    PROVE  /\ hw' \in BootHw
           /\ hw'.EN = hw.EN /\ hw'.TCIF = hw.TCIF /\ hw'.sender = hw.sender
  <1> DEFINE lit == IF dev.power_led THEN ~hw.lit ELSE hw.lit
  <1>1. lit \in BOOLEAN
    BY DEF BootType, BootHw
  <1>2. hw' = [hw EXCEPT !.lit = lit]
    BY DEF W!Toggled
  <1> HIDE DEF lit
  <1> QED BY <1>1, <1>2 DEF BootType, BootHw

LEMMA BootPanicPrint ==
    ASSUME BootInv, W!panic_print
    PROVE  BootInv'
  <1>1. PICK n \in {2, Messages} : dev' = W!Dies(dev, n)
    BY DEF W!panic_print
  <1>2. /\ dev' \in BootDev /\ dev'.dying = "print"
        /\ dev'.at = dev.at /\ dev'.early = dev.early /\ dev'.heap = dev.heap
        /\ dev'.stderr = dev.stderr /\ dev'.first_tx = dev.first_tx
    <2>1. n \in Int
      BY DriversAssumption DEF W!BootAssumption
    <2> QED BY <1>1, <2>1 DEF W!Dies, BootInv, BootType, BootDev
  <1>3. /\ hw' \in BootHw
        /\ hw'.EN = hw.EN /\ hw'.TCIF = hw.TCIF /\ hw'.sender = hw.sender
    BY BootToggled DEF W!panic_print, BootInv
  <1>4. UNCHANGED <<lock, loc>>
    BY DEF W!panic_print
  <1>5. BootType'
    BY <1>2, <1>3, <1>4 DEF BootInv, BootType, W!Actors
  <1>6. BootOrderInv' /\ BootPrintsInv'
    BY <1>2, <1>3, <1>4 DEF BootInv, BootOrderInv, BootPrintsInv, W!Alive, W!Actors
  <1>7. BootPortInv'
    BY <1>2, <1>3, <1>4 DEF BootInv, BootPortInv, Sends, W!Actors
  <1> QED BY <1>5, <1>6, <1>7 DEF BootInv

\* What a call of os_start leaves to the printing actors.
LEMMA BootOsStart ==
    ASSUME BootInv, W!os_start
    PROVE  BootInv'
  <1>0. /\ UNCHANGED <<hw, lock, loc>> /\ dev.at # 0 /\ dev.at \in 0..10
        /\ W!Alive /\ dev.at # 8
    <2>1. dev.at \in 0..10 /\ dev.at # 0 /\ ~W!In("banner") /\ W!Alive
      BY DEF W!os_start, BootInv, BootType, BootDev
    <2>2. dev.at = 8 => W!In("banner")
      BY <2>1, BootOrder DEF W!In
    <2> QED BY <2>1, <2>2 DEF W!os_start
  <1>1. CASE dev' = W!Done(dev)
    <2>1. /\ dev' \in BootDev
          /\ dev'.at = IF dev.at = 10 THEN 0 ELSE dev.at + 1
          /\ dev'.early => dev.early \/ (dev.at > 3 /\ ~dev.heap)
          /\ dev'.heap <=> dev.heap \/ dev.at = 3
          /\ dev'.stderr <=> dev.stderr \/ dev.at = 7
          /\ dev'.task_switching <=> dev.task_switching \/ dev.at = 10
          /\ dev'.first_tx = dev.first_tx /\ dev'.dying = dev.dying
      BY <1>0, <1>1, BootDone DEF BootInv
    <2>2. BootType'
      BY <1>0, <2>1 DEF BootInv, BootType, W!Actors
    <2>3. BootOrderInv'
      BY <1>0, <2>1 DEF BootInv, BootOrderInv, W!Alive
    <2>4. BootPrintsInv'
      BY <1>0, <2>1 DEF BootInv, BootPrintsInv, W!Alive, W!Actors
    <2>5. BootPortInv'
      BY <1>0, <2>1 DEF BootInv, BootPortInv, Sends, W!Actors
    <2> QED BY <2>2, <2>3, <2>4, <2>5 DEF BootInv
  <1>2. CASE dev' = W!panic(dev)
    <2>1. /\ dev' \in BootDev /\ dev'.dying = "panic"
          /\ dev'.at = dev.at /\ dev'.early = dev.early /\ dev'.heap = dev.heap
          /\ dev'.stderr = dev.stderr /\ dev'.first_tx = dev.first_tx
      BY <1>2 DEF W!panic, BootInv, BootType, BootDev
    <2>2. BootType'
      BY <1>0, <2>1 DEF BootInv, BootType, W!Actors
    <2>3. BootOrderInv' /\ BootPrintsInv'
      BY <1>0, <2>1 DEF BootInv, BootOrderInv, BootPrintsInv, W!Alive, W!Actors
    <2>4. BootPortInv'
      BY <1>0, <2>1 DEF BootInv, BootPortInv, Sends, W!Actors
    <2> QED BY <2>2, <2>3, <2>4 DEF BootInv
  <1> QED BY <1>1, <1>2 DEF W!os_start

LEMMA BootPowerLed ==
    ASSUME BootInv, W!init_power_led
    PROVE  BootInv'
  <1>1. PICK got \in BOOLEAN : /\ dev' = [W!Done(dev) EXCEPT !.power_led = got]
                               /\ hw' = [hw EXCEPT !.lit = got]
    BY DEF W!init_power_led
  <1>2. /\ UNCHANGED <<lock, loc>> /\ dev.at = 4 /\ W!Alive
    <2>1. dev.at \in 0..10 /\ dev.at # 0 /\ W!In("led") /\ W!Alive
      BY DEF W!init_power_led, BootInv, BootType, BootDev, W!In
    <2>2. dev.at = 4
      BY <2>1, BootOrder DEF W!In
    <2> QED BY <2>1, <2>2 DEF W!init_power_led
  <1> DEFINE d == W!Done(dev)
  <1>3. /\ d \in BootDev /\ d.at = 5
        /\ d.early => dev.early \/ ~dev.heap
        /\ (d.heap <=> dev.heap) /\ (d.stderr <=> dev.stderr)
        /\ d.first_tx = dev.first_tx /\ d.dying = dev.dying
    BY <1>2, BootDone DEF BootInv
  <1>4. dev' = [d EXCEPT !.power_led = got]
    BY <1>1
  <1> HIDE DEF d
  <1>5. /\ dev' \in BootDev /\ dev'.at = 5 /\ dev'.early = d.early /\ dev'.heap = d.heap
        /\ dev'.stderr = d.stderr /\ dev'.first_tx = d.first_tx /\ dev'.dying = d.dying
    BY <1>3, <1>4 DEF BootDev
  <1>6. hw' \in BootHw /\ hw'.EN = hw.EN /\ hw'.TCIF = hw.TCIF /\ hw'.sender = hw.sender
    BY <1>1 DEF BootInv, BootType, BootHw
  <1>7. BootType'
    BY <1>2, <1>5, <1>6 DEF BootInv, BootType, W!Actors
  <1>8. BootOrderInv'
    BY <1>2, <1>3, <1>5, <1>6 DEF BootInv, BootOrderInv, W!Alive
  <1>9. BootPrintsInv'
    BY <1>2, <1>3, <1>5 DEF BootInv, BootPrintsInv, W!Alive, W!Actors
  <1>10. BootPortInv'
    BY <1>2, <1>3, <1>5, <1>6 DEF BootInv, BootPortInv, Sends, W!Actors
  <1> QED BY <1>7, <1>8, <1>9, <1>10 DEF BootInv

\* A writer has the lock that no other writer has.
LEMMA BootWriter ==
    ASSUME BootInv, NEW a \in W!Actors, W!MayPrint(a), loc[a] # "idle"
    PROVE  /\ W!Alive /\ lock["write_lock"] = a
           /\ \A b \in W!Actors : b # a => loc[b] = "idle"
           /\ dev.stderr
           /\ dev.at = IF a = W!Boot THEN 8 ELSE 0
  <1>1. dev.at = IF a = W!Boot THEN 8 ELSE 0
    BY BootOrder DEF W!MayPrint, W!In, BootInv, BootType, BootDev
  <1> QED BY <1>1 DEF W!MayPrint, BootInv, BootPrintsInv, BootOrderInv

LEMMA BootAcquires ==
    ASSUME BootInv, NEW a \in W!Actors, W!Acquires(a)
    PROVE  BootInv'
  <1>0. /\ W!Alive /\ loc[a] = "idle" /\ UNCHANGED <<dev, hw>>
        /\ lock' = [lock EXCEPT !["write_lock"] = a] /\ loc' = [loc EXCEPT ![a] = "work"]
        /\ ~dev.task_switching \/ lock["write_lock"] = Nobody
        /\ dev.at = IF a = W!Boot THEN 8 ELSE 0
    BY BootOrder DEF W!Acquires, W!MayPrint, W!In, W!Free, W!Set, BootInv, BootType, BootDev
  <1>1. BootType'
    BY <1>0 DEF BootInv, BootType, W!Actors
  <1>2. BootOrderInv'
    BY <1>0 DEF BootInv, BootOrderInv, W!Alive
  <1>3. \A b \in W!Actors : loc[b] = "idle"
    BY <1>0, BootActors DEF BootInv, BootPrintsInv, BootOrderInv
  <1>4. /\ \A b \in W!Actors : loc'[b] = IF b = a THEN "work" ELSE "idle"
        /\ lock'["write_lock"] = a
    BY <1>0, <1>3 DEF BootInv, BootType
  <1>5. BootPrintsInv'
    BY <1>0, <1>4, BootActors DEF BootPrintsInv, W!Actors, W!Alive, W!Boot
  <1>6. BootPortInv'
    BY <1>0, <1>3, <1>4 DEF BootInv, BootPortInv, Sends, W!Actors
  <1> QED BY <1>1, <1>2, <1>5, <1>6 DEF BootInv

\* The look at the last transaction.
LEMMA BootLook ==
    ASSUME BootType, NEW c, c = W!TransactionComplete(dev, hw)
    PROVE  /\ c.ok <=> dev.first_tx \/ hw.TCIF
           /\ c.d \in BootDev /\ ~c.d.first_tx
           /\ c.d.at = dev.at /\ c.d.early = dev.early /\ c.d.heap = dev.heap
           /\ c.d.stderr = dev.stderr /\ c.d.task_switching = dev.task_switching
           /\ c.d.dying = dev.dying /\ c.d.left = dev.left
           /\ c.h \in BootHw /\ c.h.EN = hw.EN /\ c.h.sender = hw.sender
           /\ c.h.TCIF <=> dev.first_tx /\ hw.TCIF
  <1> DEFINE e == [dev EXCEPT !.ready = TRUE]
             d == [e EXCEPT !.first_tx = FALSE]
             h == IF e.first_tx THEN hw ELSE [hw EXCEPT !.TCIF = FALSE]
  <1>1. c = [ok |-> e.first_tx \/ hw.TCIF, d |-> d, h |-> h]
    BY DEF W!TransactionComplete, W!Initialized
  <1>2. c.ok = (e.first_tx \/ hw.TCIF) /\ c.d = d /\ c.h = h
    BY <1>1
  <1>3. /\ e \in BootDev /\ e.first_tx = dev.first_tx
        /\ e.at = dev.at /\ e.early = dev.early /\ e.heap = dev.heap
        /\ e.stderr = dev.stderr /\ e.task_switching = dev.task_switching
        /\ e.dying = dev.dying /\ e.left = dev.left
    BY DEF BootType, BootDev
  <1> HIDE DEF e
  <1>4. /\ d \in BootDev /\ d.first_tx = FALSE
        /\ d.at = e.at /\ d.early = e.early /\ d.heap = e.heap
        /\ d.stderr = e.stderr /\ d.task_switching = e.task_switching
        /\ d.dying = e.dying /\ d.left = e.left
    BY <1>3 DEF BootDev
  <1> HIDE DEF d
  <1>5. /\ h \in BootHw /\ h.EN = hw.EN /\ h.sender = hw.sender
        /\ h.TCIF = (dev.first_tx /\ hw.TCIF)
    <2>1. CASE e.first_tx
      BY <1>3, <2>1 DEF BootType, BootHw, BootDev
    <2>2. CASE ~e.first_tx
      <3>1. h = [hw EXCEPT !.TCIF = FALSE]
        BY <2>2
      <3>2. /\ h \in BootHw /\ h.EN = hw.EN /\ h.sender = hw.sender /\ h.TCIF = FALSE
        BY <3>1 DEF BootType, BootHw
      <3> QED BY <1>3, <2>2, <3>2
    <2> QED BY <2>1, <2>2
  <1> HIDE DEF h
  <1> QED BY <1>2, <1>3, <1>4, <1>5

LEMMA BootComplete ==
    ASSUME BootInv, NEW a \in W!Actors, W!Complete(a)
    PROVE  BootInv'
  <1> DEFINE c == W!TransactionComplete(dev, hw)
  <1>0. /\ W!MayPrint(a) /\ loc[a] = "work" /\ UNCHANGED lock
        /\ dev' = c.d /\ hw' = c.h
        /\ loc' = [loc EXCEPT ![a] = IF c.ok THEN "send" ELSE "out"]
    BY DEF W!Complete, W!Set
  <1>1. /\ W!Alive /\ lock["write_lock"] = a
        /\ \A b \in W!Actors : b # a => loc[b] = "idle"
        /\ dev.stderr
        /\ dev.at = IF a = W!Boot THEN 8 ELSE 0
    BY <1>0, BootWriter
  <1>2. /\ c.ok <=> dev.first_tx \/ hw.TCIF
        /\ dev' \in BootDev /\ ~dev'.first_tx
        /\ dev'.at = dev.at /\ dev'.early = dev.early /\ dev'.heap = dev.heap
        /\ dev'.stderr = dev.stderr /\ dev'.task_switching = dev.task_switching
        /\ dev'.dying = dev.dying
        /\ hw' \in BootHw /\ hw'.EN = hw.EN /\ hw'.sender = hw.sender
        /\ hw'.TCIF <=> dev.first_tx /\ hw.TCIF
    BY <1>0, BootLook DEF BootInv
  <1> HIDE DEF c
  <1>3. \A b \in W!Actors :
           loc'[b] = IF b # a THEN "idle" ELSE IF dev.first_tx \/ hw.TCIF THEN "send" ELSE "out"
    BY <1>0, <1>1, <1>2 DEF BootInv, BootType
  <1>4. BootType'
    BY <1>0, <1>2 DEF BootInv, BootType, W!Actors
  <1>5. BootOrderInv'
    BY <1>0, <1>2 DEF BootInv, BootOrderInv, W!Alive
  <1>6. BootPrintsInv'
    BY <1>0, <1>1, <1>2, <1>3, BootActors DEF BootPrintsInv, W!Actors, W!Alive, W!Boot
  <1>7. BootPortInv'
    <2>1. ~Sends
      BY <1>0, <1>1 DEF Sends
    <2>2. Sends' <=> dev.first_tx \/ hw.TCIF
      BY <1>3 DEF Sends, W!Actors
    <2> QED BY <1>2, <2>1, <2>2 DEF BootInv, BootPortInv
  <1> QED BY <1>4, <1>5, <1>6, <1>7 DEF BootInv

\* A transaction that is begun.
LEMMA BootBegins ==
    ASSUME NEW h \in BootHw, NEW a \in W!Actors \cup {"panic"}, NEW g, g = W!BeginTransaction(h, a)
    PROVE  g \in BootHw /\ g.EN /\ ~g.TCIF /\ g.sender = a
  <1>1. g = [h EXCEPT !.EN = TRUE, !.TCIF = FALSE, !.sender = a]
    BY DEF W!BeginTransaction
  <1> QED BY <1>1 DEF BootHw

LEMMA BootSend ==
    ASSUME BootInv, NEW a \in W!Actors, W!Send(a)
    PROVE  BootInv'
  <1>0. /\ W!MayPrint(a) /\ loc[a] = "send" /\ UNCHANGED <<dev, lock>>
        /\ hw' = W!BeginTransaction(hw, a) /\ loc' = [loc EXCEPT ![a] = "sent"]
    BY DEF W!Send, W!Set
  <1>1. /\ W!Alive /\ lock["write_lock"] = a
        /\ \A b \in W!Actors : b # a => loc[b] = "idle"
        /\ dev.stderr
        /\ dev.at = IF a = W!Boot THEN 8 ELSE 0
    BY <1>0, BootWriter
  <1>2. hw' \in BootHw /\ hw'.EN /\ ~hw'.TCIF /\ hw'.sender = a
    BY <1>0, BootBegins DEF BootInv, BootType
  <1>3. \A b \in W!Actors : loc'[b] = IF b # a THEN "idle" ELSE "sent"
    BY <1>0, <1>1 DEF BootInv, BootType
  <1>4. BootType'
    BY <1>0, <1>2 DEF BootInv, BootType, W!Actors
  <1>5. BootOrderInv'
    BY <1>0, <1>1, <1>2 DEF BootInv, BootOrderInv, W!Alive
  <1>6. BootPrintsInv'
    BY <1>0, <1>1, <1>3, BootActors DEF BootPrintsInv, W!Actors, W!Alive, W!Boot
  <1>7. BootPortInv'
    <2>1. Sends /\ ~Sends'
      BY <1>0, <1>3 DEF Sends, W!Actors
    <2> QED BY <1>0, <1>2, <2>1 DEF BootInv, BootPortInv
  <1> QED BY <1>4, <1>5, <1>6, <1>7 DEF BootInv

LEMMA BootReleases ==
    ASSUME BootInv, NEW a \in W!Actors, W!Releases(a)
    PROVE  BootInv'
  <1>0. /\ W!MayPrint(a) /\ loc[a] \in {"sent", "out"} /\ UNCHANGED hw
        /\ lock' = [lock EXCEPT !["write_lock"] = Nobody] /\ loc' = [loc EXCEPT ![a] = "idle"]
        /\ (dev' = W!Done(dev) /\ a = W!Boot) \/ dev' = dev
    BY DEF W!Releases, W!Set, W!release
  <1>1. /\ W!Alive /\ lock["write_lock"] = a
        /\ \A b \in W!Actors : b # a => loc[b] = "idle"
        /\ dev.stderr
        /\ dev.at = IF a = W!Boot THEN 8 ELSE 0
    BY <1>0, BootWriter
  <1>2. \A b \in W!Actors : loc'[b] = "idle"
    BY <1>0, <1>1 DEF BootInv, BootType
  <1>3. ~Sends /\ ~Sends'
    BY <1>0, <1>1, <1>2 DEF Sends, W!Actors
  <1>4. /\ dev' \in BootDev
        /\ dev'.at = dev.at \/ (dev.at = 8 /\ dev'.at = 9)
        /\ dev'.early => dev.early \/ (dev.at > 3 /\ ~dev.heap)
        /\ dev.heap => dev'.heap
        /\ dev.stderr => dev'.stderr
        /\ dev'.task_switching <=> dev.task_switching
        /\ dev'.first_tx = dev.first_tx /\ dev'.dying = dev.dying
    <2>1. CASE dev' = dev
      BY <2>1 DEF BootInv, BootType
    <2>2. CASE dev' = W!Done(dev) /\ a = W!Boot
      BY <1>1, <2>2, BootDone DEF BootInv
    <2> QED BY <1>0, <2>1, <2>2
  <1>5. BootType'
    BY <1>0, <1>4 DEF BootInv, BootType, W!Actors
  <1>6. BootOrderInv'
    BY <1>0, <1>4 DEF BootInv, BootOrderInv, W!Alive
  <1>7. BootPrintsInv'
    BY <1>2, BootActors DEF BootPrintsInv, W!Actors
  <1>8. BootPortInv'
    BY <1>0, <1>3, <1>4 DEF BootInv, BootPortInv
  <1> QED BY <1>5, <1>6, <1>7, <1>8 DEF BootInv

LEMMA BootSent ==
    ASSUME BootInv, W!Sent
    PROVE  BootInv'
  <1>0. /\ hw.EN /\ UNCHANGED <<dev, lock, loc>>
        /\ hw' = [hw EXCEPT !.EN = FALSE, !.TCIF = TRUE]
    BY DEF W!Sent
  <1>1. hw' \in BootHw /\ ~hw'.EN /\ hw'.TCIF /\ hw'.sender = hw.sender
    BY <1>0 DEF BootInv, BootType, BootHw
  <1>2. BootType'
    BY <1>0, <1>1 DEF BootInv, BootType, W!Actors
  <1>3. BootOrderInv' /\ BootPrintsInv'
    BY <1>0, <1>1 DEF BootInv, BootOrderInv, BootPrintsInv, W!Alive, W!Actors
  <1>4. BootPortInv'
    BY <1>0, <1>1 DEF BootInv, BootPortInv, Sends, W!Actors
  <1> QED BY <1>2, <1>3, <1>4 DEF BootInv

LEMMA BootPrintk ==
    ASSUME BootInv, W!printk
    PROVE  BootInv'
  <1>0. dev.dying = "print" /\ UNCHANGED loc
    BY DEF W!printk
  <1>1. CASE /\ dev' = [dev EXCEPT !.left = @ - 1] /\ UNCHANGED <<hw, lock>>
    <2>1. /\ dev' \in BootDev /\ dev'.dying = "print"
          /\ dev'.at = dev.at /\ dev'.early = dev.early /\ dev'.heap = dev.heap
          /\ dev'.stderr = dev.stderr /\ dev'.first_tx = dev.first_tx
      BY <1>0, <1>1 DEF BootInv, BootType, BootDev
    <2>2. BootType'
      BY <1>0, <1>1, <2>1 DEF BootInv, BootType, W!Actors
    <2>3. BootOrderInv' /\ BootPrintsInv'
      BY <1>0, <1>1, <2>1 DEF BootInv, BootOrderInv, BootPrintsInv, W!Alive, W!Actors
    <2>4. BootPortInv'
      BY <1>0, <1>1, <2>1 DEF BootInv, BootPortInv, Sends, W!Actors
    <2> QED BY <2>2, <2>3, <2>4 DEF BootInv
  <1> DEFINE c == W!TransactionComplete(dev, hw)
             d == c.d
  <1>2. CASE /\ dev.stderr /\ c.ok
             /\ dev' = [c.d EXCEPT !.left = @ - 1]
             /\ hw' = W!BeginTransaction(c.h, "panic")
             /\ lock' = [lock EXCEPT !["write_lock"] = Nobody]
    <2>1. /\ c.ok <=> dev.first_tx \/ hw.TCIF
          /\ d \in BootDev /\ ~d.first_tx
          /\ d.at = dev.at /\ d.early = dev.early /\ d.heap = dev.heap
          /\ d.stderr = dev.stderr /\ d.dying = dev.dying
          /\ c.h \in BootHw
      BY BootLook DEF BootInv
    <2>2. dev' = [d EXCEPT !.left = d.left - 1]
      BY <1>2
    <2> HIDE DEF d
    <2>3. /\ dev' \in BootDev /\ ~dev'.first_tx /\ dev'.dying = "print"
          /\ dev'.at = dev.at /\ dev'.early = dev.early /\ dev'.heap = dev.heap
          /\ dev'.stderr = dev.stderr
      BY <1>0, <2>1, <2>2 DEF BootDev
    <2>4. hw' \in BootHw /\ hw'.EN /\ ~hw'.TCIF
      BY <1>2, <2>1, BootBegins
    <2>5. ~Sends /\ ~Sends'
      BY <1>0, <1>2, <2>1 DEF BootInv, BootPortInv, Sends, W!Actors
    <2> HIDE DEF c
    <2>6. BootType'
      BY <1>0, <1>2, <2>3, <2>4 DEF BootInv, BootType, W!Actors
    <2>7. BootOrderInv' /\ BootPrintsInv'
      BY <1>0, <1>2, <2>3 DEF BootInv, BootOrderInv, BootPrintsInv, W!Alive, W!Actors
    <2>8. BootPortInv'
      BY <2>3, <2>4, <2>5 DEF BootPortInv
    <2> QED BY <2>6, <2>7, <2>8 DEF BootInv
  <1> QED BY <1>1, <1>2 DEF W!printk, W!release

LEMMA BootPanics ==
    ASSUME BootInv, W!Panics
    PROVE  BootInv'
  <1>0. dev' = W!panic(dev) /\ hw' = W!Toggled(hw) /\ UNCHANGED <<lock, loc>>
    BY DEF W!Panics
  <1>1. /\ dev' \in BootDev /\ dev'.dying = "panic"
        /\ dev'.at = dev.at /\ dev'.early = dev.early /\ dev'.heap = dev.heap
        /\ dev'.stderr = dev.stderr /\ dev'.first_tx = dev.first_tx
    BY <1>0 DEF W!panic, BootInv, BootType, BootDev
  <1>2. /\ hw' \in BootHw
        /\ hw'.EN = hw.EN /\ hw'.TCIF = hw.TCIF /\ hw'.sender = hw.sender
    BY <1>0, BootToggled DEF BootInv
  <1>3. BootType'
    BY <1>0, <1>1, <1>2 DEF BootInv, BootType, W!Actors
  <1>4. BootOrderInv' /\ BootPrintsInv'
    BY <1>0, <1>1, <1>2 DEF BootInv, BootOrderInv, BootPrintsInv, W!Alive, W!Actors
  <1>5. BootPortInv'
    BY <1>0, <1>1, <1>2 DEF BootInv, BootPortInv, Sends, W!Actors
  <1> QED BY <1>3, <1>4, <1>5 DEF BootInv

LEMMA BootStep == BootInv /\ [W!Next]_vars => BootInv'
  <1> SUFFICES ASSUME BootInv, [W!Next]_vars PROVE BootInv'
    OBVIOUS
  <1>1. CASE UNCHANGED vars
    BY <1>1 DEF vars, BootInv, BootType, BootOrderInv, BootPrintsInv, BootPortInv, Sends, W!Actors, W!Alive
  <1>2. CASE W!Next
    BY <1>2, BootOsStart, BootPowerLed, BootPanicPrint, BootPrintk, BootPanics, BootSent,
       BootAcquires, BootComplete, BootSend, BootReleases DEF W!Next
  <1> QED BY <1>1, <1>2

LEMMA BootGoal == BootInv => W!BootInOrder /\ W!PanicSpeaks /\ W!MessagesWhole
  BY DEF BootInv, BootOrderInv, BootPortInv, Sends, W!BootInOrder, W!PanicSpeaks, W!MessagesWhole

-------------------------------------------------------------------------------
(* The drivers together *)

\* The driver does not change, and a step is one of it.
LEMMA SameDriver ==
    ASSUME [Next]_allVars
    PROVE  /\ which' = which
           /\ which = "pwm" => [P!Next]_vars
           /\ which = "adc" => [A!Next]_vars
           /\ which = "spi" => [S!Next]_vars
           /\ which = "gpio" => [G!Next]_vars
           /\ which = "devices" => [D!Next]_vars
           /\ which = "context" => [X!Next]_vars
           /\ which = "atomic" => [M!Next]_vars
           /\ which = "dma" => [R!Next]_vars
           /\ which = "clocks" => [E!Next]_vars
           /\ which = "boot" => [W!Next]_vars
           /\ which = "bitfield" => [B!Next]_vars
  BY DEF Next, allVars

\* The invariants of the drivers whose resources have one owner.
OwnersInv ==
    /\ which = "pwm" => PwmInv
    /\ which = "adc" => AdcInv
    /\ which = "spi" => SpiInv
    /\ which = "gpio" => GpioInv
    /\ which = "devices" => DevicesInv
    /\ which = "dma" => DmaInv

\* What has one owner has no other: pwm_get, the states and channels of the
\* converters, the transactions of the SPI bus, the object of a pin and of a device,
\* and the streams of the DMA.  Two tasks that have opened the same SPI device, and
\* two that ask for the same pin at once, are outside (SharedDevice, SamePin): the
\* code keeps no lock there.
THEOREM ResourcesHaveOneOwner == ~SharedDevice /\ ~SamePin => (Spec => []OneOwner)
  <1> SUFFICES ASSUME ~SharedDevice /\ ~SamePin PROVE Spec => []OneOwner
    OBVIOUS
  <1>1. Init => OwnersInv
    BY PwmInit, AdcInit, SpiInit, GpioInit, DevicesInit, DmaInit DEF Init, OwnersInv
  <1>2. OwnersInv /\ [Next]_allVars => OwnersInv'
    BY SameDriver, PwmStep, AdcStep, SpiStep, GpioStep, DevicesStep, DmaStep DEF OwnersInv
  <1>3. OwnersInv => OneOwner
    BY AdcGoal, SpiGoal, GpioGoal, DevicesGoal, DmaGoal DEF OwnersInv, OneOwner, PwmInv
  <1> QED BY <1>1, <1>2, <1>3, PTL DEF Spec

\* A transfer of the DMA that is reported complete has moved all of its items, and the
\* flag of one that is over stays set until its task was told, whatever happens to the
\* three streams whose flags are in the same register (dma.c).
THEOREM TransfersComplete == Spec => [](which = "dma" => R!CompletionExact)
  <1> DEFINE IInv == which = "dma" => DmaInv
  <1>1. Init => IInv
    BY DmaInit DEF Init
  <1>2. IInv /\ [Next]_allVars => IInv'
    BY SameDriver, DmaStep
  <1>3. IInv => (which = "dma" => R!CompletionExact)
    BY DmaGoal
  <1> QED BY <1>1, <1>2, <1>3, PTL DEF Spec

\* init_clock has the processor run from the PLL only when the flash, the prescalers,
\* the regulator and the source of the PLL are ready for it; am335x_clock_config sets a
\* PLL while it is bypassed and leaves all four locked; a driver computes with the rate
\* of the bus of its peripheral, except for two SPIs; the two timers that
\* perfcounter_getcount reads one after the other give a count that was there during
\* the call; and the clock of the SPI bus is the fastest that is not above the one that
\* was asked for.
THEOREM ClocksAreSafe == Spec => []ClocksSafe
  <1> DEFINE IInv ==
               /\ which = "clocks" => ClocksInv
               /\ which = "spi" => SpiClockInv
  <1>1. Init => IInv
    BY ClocksInit, SpiClockInit DEF Init
  <1>2. IInv /\ [Next]_allVars => IInv'
    BY ClocksStep, SpiClockStep, SameDriver
  <1>3. IInv => ClocksSafe
    BY ClocksGoal, SpiClockGoal DEF ClocksSafe
  <1> QED BY <1>1, <1>2, <1>3, PTL DEF Spec

\* malloc and free of the bitfield allocator do what HeapSpec promises, and the bits
\* and the counts of free grains are those of the allocations.  The sizes that are
\* asked for must fit a uint16_t with the header (NoWrap), and the memory after the
\* array, which the loops of alloc read as one more block, must not look free
\* (BeyondFree).
THEOREM BitfieldImplementsHeap ==
    NoWrap /\ ~BeyondFree =>
        (Spec => [][which = "bitfield" => B!HeapAction /\ B!GrainsExact']_allVars)
  <1> SUFFICES ASSUME NoWrap, ~BeyondFree
               PROVE  Spec => [][which = "bitfield" => B!HeapAction /\ B!GrainsExact']_allVars
    OBVIOUS
  <1> DEFINE IInv == which = "bitfield" => BitfieldInv
             Promised == which = "bitfield" => B!HeapAction /\ B!GrainsExact'
  <1>1. Init => IInv
    BY BitfieldInit DEF Init
  <1>2. IInv /\ [Next]_allVars => IInv'
    BY SameDriver, BitfieldStep
  <1>3. BitfieldInv' => B!GrainsExact'
    BY BitfieldGoal, PTL
  <1>4. IInv /\ IInv' /\ [Next]_allVars => [Promised]_allVars
    <2> SUFFICES ASSUME IInv, IInv', [Next]_allVars, which = "bitfield"
                 PROVE  B!HeapAction /\ B!GrainsExact'
      OBVIOUS
    <2>1. which' = "bitfield" /\ [B!Next]_vars
      BY SameDriver
    <2>2. BitfieldInv /\ BitfieldInv'
      BY <2>1
    <2> QED BY <1>3, <2>1, <2>2, BitfieldImplements
  <1> HIDE DEF IInv, Promised
  <1>5. Spec => [][Promised]_allVars
    BY <1>1, <1>2, <1>4, PTL DEF Spec
  <1> QED BY <1>5 DEF Promised

\* Boot calls nothing before what it needs is set up, and what the port is given is
\* printed as a whole, by boot, by tasks and in a panic.
THEOREM BootAlwaysSpeaks == Spec => []BootSpeaks
  <1> DEFINE IInv == which = "boot" => BootInv
  <1>1. Init => IInv
    BY BootInit DEF Init
  <1>2. IInv /\ [Next]_allVars => IInv'
    BY BootStep, SameDriver
  <1>3. IInv => BootSpeaks
    BY BootGoal DEF BootSpeaks
  <1> QED BY <1>1, <1>2, <1>3, PTL DEF Spec

\* A task that an exception stopped goes on with the registers, the stack pointer and
\* the words on its stack that it had, however many tasks ran and ended in between,
\* with the result of a service call in r0, and one that begins finds its entry
\* (save_context, switch_task, create_context, restore_context of both architectures);
\* and an update of atomic.h that a task was stopped in is neither lost nor made
\* twice.  ARMv7-A does not save the registers of the FPU (FpuTasks), and the updates
\* need the exclusive access to end at an exception (Clears).
THEOREM ContextsAlwaysKept == Clears /\ ~FpuTasks => (Spec => []ContextsKept)
  <1> SUFFICES ASSUME Clears, ~FpuTasks PROVE Spec => []ContextsKept
    OBVIOUS
  <1> DEFINE IInv ==
               /\ which = "context" => ContextInv
               /\ which = "atomic" => AtomicInv
  <1>1. Init => IInv
    BY CtxInit, AtomicInit DEF Init
  <1>2. IInv /\ [Next]_allVars => IInv'
    BY CtxStep, AtomicStep, SameDriver
  <1>3. IInv => ContextsKept
    BY CtxGoal DEF AtomicInv, ContextsKept
  <1> QED BY <1>1, <1>2, <1>3, PTL DEF Spec
================================================================================
