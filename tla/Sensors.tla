-------------------------------- MODULE Sensors --------------------------------
(***************************************************************************)
(* The drivers of the sensor chips (dev/gyro/itg3200.c, dev/mag/hmc5883.c, *)
(* dev/baro/ms5611.c, dev/rotary_encoder/as5048b.c, dev/accel/lis302dl.c   *)
(* and dev/mpu6000): tasks call the operations of one chip, which are      *)
(* sequences of accesses over a bus that may fail.                         *)
(*                                                                         *)
(* An operation is the sequence of the steps that it has left.  The values *)
(* read are left out; the register that a chip reads next and the          *)
(* conversion that it made last are not, because tasks share them.  One    *)
(* access over I2C, and one transaction over SPI, is one step (see I2c and *)
(* Spi).  The mpu6000 is used through two drivers, accel and gyro.         *)
(***************************************************************************)
EXTENDS Calls, Sequences

Chips == {"itg3200", "hmc5883", "ms5611", "as5048b", "lis302dl", "mpu6000"}
Parts == {"accel", "gyro"}

\* The chips that sleep until they are initialized.
Sleeping == Chips \ {"ms5611", "as5048b"}

do(s) == <<s, "">>
lock_ == <<do("acquire")>>
unlock_ == <<do("release")>>

\* A register of an I2C chip: its address is written, then it is read.
Get(r) == <<<<"point", r>>, <<"read", r>>>>

-------------------------------------------------------------------------------
(* The operations of the chips *)

itg3200_init == lock_ \o <<do("active"), do("config")>> \o unlock_ \o <<do("ready")>>
itg3200_deinit == <<do("unready")>> \o lock_ \o <<do("sleep")>> \o unlock_
itg3200_get_raw_data == lock_ \o Get("XOUT_H") \o unlock_

hmc5883_init == lock_ \o <<do("active")>> \o unlock_ \o <<do("ready")>>
hmc5883_deinit == <<do("unready")>> \o lock_ \o <<do("sleep")>> \o unlock_
hmc5883_get_raw_data == lock_ \o Get("OUTXA") \o unlock_

\* The six parameters are read alike.
ms5611_init == lock_ \o Get("C1") \o Get("C6") \o unlock_ \o <<do("ready")>>

\* The conversion k that was started is read.
ms5611_read_adc(k) == <<<<"point", "ADC">>, <<"adc", k>>>>
ms5611_get_data ==
    lock_ \o <<<<"start", "pressure">>>> \o ms5611_read_adc("pressure")
          \o <<<<"start", "temperature">>>> \o ms5611_read_adc("temperature") \o unlock_

as5048b_get_raw_data == lock_ \o Get("ANGLEH") \o unlock_
as5048b_calibrate == lock_ \o unlock_
as5048b_status == lock_ \o Get("DIAG") \o unlock_

\* lis302dl_init does not set ready, so deinit has nothing to do.
lis302dl_init == <<do("active")>>
lis302dl_get_raw_data == <<do("burst")>>

\* mpu6000_spi_write_reg and mpu6000_spi_read_regs initialize the chip first
\* if it is not ready (lazy), and go on if that fails.
mpu6000_spi_access == <<do("lazy"), do("burst")>>
mpu6000_spi_init == <<do("try_active"), do("ready")>>
mpu6000_spi_deinit == <<do("unready"), do("sleep")>>
mpu6000_spi_enable_accel(on) ==
    lock_ \o mpu6000_spi_access \o mpu6000_spi_access
          \o (IF on THEN <<<<"use", "accel">>>> ELSE <<<<"unuse", "accel">>, do("if_unused")>>)
          \o unlock_
mpu6000_spi_enable_gyro(on) ==
    lock_ \o (IF on THEN <<<<"use", "gyro">>>> ELSE <<<<"unuse", "gyro">>, do("if_unused")>>)
          \o unlock_
mpu6000_enable(p, on) ==
    IF p = "accel" THEN mpu6000_spi_enable_accel(on) ELSE mpu6000_spi_enable_gyro(on)

\* mpu6000_accel_init and mpu6000_gyro_init; config_part disables the part again
\* if it fails.
mpu6000_part_init(p) ==
    mpu6000_enable(p, TRUE) \o <<do("lazy"), <<"config_part", p>>, <<"part_ready", p>>>>
mpu6000_part_deinit(p) == <<<<"part_unready", p>>>> \o mpu6000_enable(p, FALSE)

-------------------------------------------------------------------------------
Nothing == [part |-> "none", op |-> "none", code |-> <<>>]

\* parts: the drivers of the mpu6000 that are ready; in_use: accel_in_use and
\* gyro_in_use; failed: some access has failed.
TypeOK ==
    /\ dev \in [chip : Chips, ready : BOOLEAN, parts : SUBSET Parts, in_use : SUBSET Parts]
    /\ hw.awake \in BOOLEAN
    /\ lock \in [{"chip"} -> Holders]
    /\ pc \in [Tasks -> {"idle", "run"}]
    /\ \A t \in Tasks : pc[t] = "idle" <=> loc[t].code = <<>>

Init ==
    /\ \E c \in Chips :
          /\ dev = [chip |-> c, ready |-> FALSE, parts |-> {}, in_use |-> {}]
          /\ hw = [awake |-> c \notin Sleeping, pointer |-> "none", converted |-> "none",
                   failed |-> FALSE]
    /\ lock = [m \in {"chip"} |-> Nobody]
    /\ pc = [t \in Tasks |-> "idle"]
    /\ loc = [t \in Tasks |-> Nothing]

Continue(t, code) ==
    /\ loc' = [loc EXCEPT ![t] = IF code = <<>> THEN Nothing ELSE [@ EXCEPT !.code = code]]
    /\ Goto(t, IF code = <<>> THEN "idle" ELSE "run")

Code(t) == loc[t].code
At(t, s) == pc[t] = "run" /\ Head(Code(t))[1] = s
Arg(t) == Head(Code(t))[2]
Done(t) == Continue(t, Tail(Code(t)))

-------------------------------------------------------------------------------
(* Calls *)

\* The driver p of the chip is initialized by the task that uses it and
\* deinitialized when no task does.
Begin(t, p, op, code) ==
    /\ pc[t] = "idle"
    /\ \A u \in Tasks : loc[u].part = p => op # "deinit" /\ loc[u].op # "deinit"
    /\ Goto(t, "run")
    /\ loc' = [loc EXCEPT ![t] = [part |-> p, op |-> op, code |-> code]]
    /\ UNCHANGED <<dev, hw, lock>>
Use(t, code) == Begin(t, "chip", "use", code)

\* get_raw_data initializes the chip first, and reads also if that failed.
Lazily(init, read) == IF dev.ready THEN read ELSE init \o <<do("end")>> \o read

Read(t) ==
    \/ dev.chip = "itg3200" /\ Use(t, Lazily(itg3200_init, itg3200_get_raw_data))
    \/ dev.chip = "hmc5883" /\ Use(t, Lazily(hmc5883_init, hmc5883_get_raw_data))
    \/ dev.chip = "lis302dl" /\ Use(t, Lazily(lis302dl_init, lis302dl_get_raw_data))
    \/ dev.chip = "as5048b" /\ Use(t, as5048b_get_raw_data)
    \/ dev.chip = "ms5611"     \* gives up if init fails
       /\ Use(t, IF dev.ready THEN ms5611_get_data ELSE ms5611_init \o ms5611_get_data)
    \/ dev.chip = "mpu6000" /\ \E p \in Parts :
          Begin(t, p, "use",
                (IF p \in dev.parts THEN <<>> ELSE mpu6000_part_init(p) \o <<do("end")>>)
                \o mpu6000_spi_access)

Other(t) ==
    \/ dev.chip = "as5048b" /\ Use(t, as5048b_status)
    \/ dev.chip = "as5048b" /\ Use(t, as5048b_calibrate)

Deinit(t) ==
    \/ dev.chip = "itg3200" /\ Begin(t, "chip", "deinit", itg3200_deinit)
    \/ dev.chip = "hmc5883" /\ Begin(t, "chip", "deinit", hmc5883_deinit)
    \/ dev.chip = "mpu6000" /\ \E p \in Parts : Begin(t, p, "deinit", mpu6000_part_deinit(p))

Call(t) == Read(t) \/ Other(t) \/ Deinit(t)

-------------------------------------------------------------------------------
(* Steps *)

\* An acquire that does not wait.
AcquireTaken(t) ==
    /\ At(t, "acquire") /\ lock' = [lock EXCEPT !["chip"] = t] /\ Done(t)
    /\ UNCHANGED <<dev, hw>>

Acquire(t) ==
    /\ At(t, "acquire") /\ acquire(t, "chip") /\ Done(t)
    /\ UNCHANGED <<dev, hw>>

Release(t) ==
    /\ At(t, "release") /\ release("chip") /\ Done(t)
    /\ UNCHANGED <<dev, hw>>

End(t) ==
    /\ At(t, "end") /\ Done(t)
    /\ UNCHANGED <<dev, hw, lock>>

\* A deinit that leaves the flag.
FlagsStayReady(t) ==
    /\ \/ At(t, "ready") /\ dev' = [dev EXCEPT !.ready = TRUE]
       \/ At(t, "unready") /\ dev' = dev
       \/ At(t, "part_ready") /\ dev' = [dev EXCEPT !.parts = @ \cup {Arg(t)}]
       \/ At(t, "part_unready") /\ dev' = [dev EXCEPT !.parts = @ \ {Arg(t)}]
       \/ At(t, "use") /\ dev' = [dev EXCEPT !.in_use = @ \cup {Arg(t)}]
       \/ At(t, "unuse") /\ dev' = [dev EXCEPT !.in_use = @ \ {Arg(t)}]
    /\ Done(t)
    /\ UNCHANGED <<hw, lock>>

\* The flags of the driver.
Flags(t) ==
    /\ \/ At(t, "ready") /\ dev' = [dev EXCEPT !.ready = TRUE]
       \/ At(t, "unready") /\ dev' = [dev EXCEPT !.ready = FALSE]
       \/ At(t, "part_ready") /\ dev' = [dev EXCEPT !.parts = @ \cup {Arg(t)}]
       \/ At(t, "part_unready") /\ dev' = [dev EXCEPT !.parts = @ \ {Arg(t)}]
       \/ At(t, "use") /\ dev' = [dev EXCEPT !.in_use = @ \cup {Arg(t)}]
       \/ At(t, "unuse") /\ dev' = [dev EXCEPT !.in_use = @ \ {Arg(t)}]
    /\ Done(t)
    /\ UNCHANGED <<hw, lock>>

\* The conditions of the mpu6000: not ready yet; no part in use any more.
Conditions(t) ==
    /\ \/ /\ At(t, "lazy")
          /\ Continue(t, (IF dev.ready THEN <<>> ELSE mpu6000_spi_init) \o Tail(Code(t)))
       \/ /\ At(t, "if_unused")
          /\ Continue(t, (IF dev.in_use # {} THEN <<>> ELSE mpu6000_spi_deinit) \o Tail(Code(t)))
    /\ UNCHANGED <<dev, hw, lock>>

\* The accesses and what they do to the chip.
BusSteps == {"active", "try_active", "sleep", "config", "config_part", "point", "read",
             "start", "adc", "burst"}
Access(t) ==
    /\ pc[t] = "run" /\ Head(Code(t))[1] \in BusSteps
    /\ hw' = [awake |-> (hw.awake \/ At(t, "active") \/ At(t, "try_active")) /\ ~At(t, "sleep"),
              pointer |-> IF At(t, "point") THEN Arg(t) ELSE hw.pointer,
              converted |-> IF At(t, "start") THEN Arg(t) ELSE hw.converted,
              failed |-> hw.failed]
    /\ Done(t)
    /\ UNCHANGED <<dev, lock>>

\* What is left after an error: the code after the next "end".
AfterError(code) ==
    LET ends == {i \in 1..Len(code) : code[i][1] = "end"}
    IN  IF ends = {} THEN <<>> ELSE SubSeq(code, (CHOOSE i \in ends : TRUE) + 1, Len(code))

\* An error path that returns with the lock.
FailsLocked(t) ==
    /\ pc[t] = "run" /\ Head(Code(t))[1] \in BusSteps
    /\ Continue(t, AfterError(Code(t)))
    /\ UNCHANGED <<dev, hw, lock>>

\* An access that fails: the error path releases the lock.
Fails(t) ==
    /\ pc[t] = "run" /\ Head(Code(t))[1] \in BusSteps
    /\ \/ /\ At(t, "try_active")
          /\ Continue(t, Tail(Tail(Code(t)))) /\ UNCHANGED lock
       \/ /\ At(t, "config_part")
          /\ Continue(t, mpu6000_enable(Arg(t), FALSE) \o <<do("end")>> \o AfterError(Code(t)))
          /\ UNCHANGED lock
       \/ /\ ~At(t, "try_active") /\ ~At(t, "config_part")
          /\ Continue(t, AfterError(Code(t)))
          /\ lock' = [m \in {"chip"} |-> IF lock[m] = t THEN Nobody ELSE lock[m]]
    /\ hw' = [hw EXCEPT !.failed = TRUE]
    /\ UNCHANGED dev

Work(t) ==
    Acquire(t) \/ Release(t) \/ End(t) \/ Flags(t) \/ Conditions(t) \/ Access(t) \/ Fails(t)

Next == \E t \in Tasks : Call(t) \/ Work(t)

Spec == Init /\ [][Next]_vars

-------------------------------------------------------------------------------
(* Properties *)

\* A task reads the register whose address it wrote, and the conversion that it
\* started: no other task's access to the chip comes in between.
ReadsOwn ==
    \A t \in Tasks :
        /\ At(t, "read") => hw.pointer = Arg(t)
        /\ At(t, "adc") => hw.pointer = "ADC" /\ hw.converted = Arg(t)

\* A chip that is ready is awake, so lazy initialization can rely on the flag,
\* whatever the users of its two drivers do at the same time.  After an access
\* failed this is lost for the mpu6000: get_raw_data then uses the chip without
\* having it in use, and the other driver may put it to sleep.
ReadyAwake ==
    dev.ready /\ ~(dev.chip = "mpu6000" /\ hw.failed) => hw.awake

\* Every path of every operation gives the lock back.
ChipLockReturned == \A t \in Tasks : pc[t] = "idle" => lock["chip"] # t
================================================================================
