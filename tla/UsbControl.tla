------------------------------- MODULE UsbControl ------------------------------
(***************************************************************************)
(* The control endpoint of the USB device (usbdev_int.c, usbdev_cdc.c and  *)
(* usbdev_core.c in arch/armv7m/chip/stm32f40x/dev/hw/usb): how requests   *)
(* of the host are received, parsed and answered.  Only a start of frame,  *)
(* a reset, the end of enumeration and a suspend interrupt the processor   *)
(* (init_usbdev); the handler then looks at every bit of the status once,  *)
(* in order, so that a request takes several frames.  The host goes on in  *)
(* between.                                                                *)
(***************************************************************************)
EXTENDS Calls, Sequences, SequencesExt

CONSTANTS
    Requests,       \* number of requests
    Duplicates,     \* whether a SETUP packet may come twice, its acknowledgement being lost
    Aborts          \* whether the host may give a request up before it is answered

UsbControlAssumption == Requests \in Nat /\ Duplicates \in BOOLEAN /\ Aborts \in BOOLEAN

SetupLen == 12      \* sizeof(setup_buf)
PacketLen == 8

\* Requests that are answered with data, with an empty packet, and not at all.
Data == {"device", "config", "status"}
Acknowledged == {"address", "configuration", "line"}
Kinds == Data \cup Acknowledged \cup {"other"}

\* The bits of the status in the order of the loop of usbdev_handler.
Bits == <<"rxflvl", "usbrst", "enumdne", "iepint", "oepint">>

\* The bytes of the SETUP packet of a request.
Packet(r) == [i \in 1..PacketLen |-> <<r, i>>]
Garbage == [i \in 1..PacketLen |-> <<0, i>>]

\* dev: the ring of setup packets, the request whose reply is in the ring of the
\* endpoint (0: none), the bits that the handler has still to look at, where it is,
\* and what it parsed.  hw: the receive FIFO, the SETUP phase done, enable and size
\* of the IN endpoint, its FIFO, the mask of its interrupt and the flags of reset
\* and enumeration; the host's request, of which kind, and how far it is.
Init ==
    /\ dev = [setup |-> <<>>, tx |-> 0, ints |-> <<>>, at |-> "idle", packet |-> <<>>,
              endpoint |-> FALSE]
    /\ hw = [rx |-> <<>>, STUP |-> FALSE, EPENA |-> FALSE, size |-> 0, fifo |-> 0, EMPMSK |-> FALSE,
             USBRST |-> TRUE, ENUMDNE |-> FALSE, req |-> 0, kind |-> "other", phase |-> "done"]
    /\ lock = <<>> /\ loc = <<>> /\ pc = [t \in Tasks |-> "idle"]

Frame == UNCHANGED <<lock, pc, loc>>

-------------------------------------------------------------------------------
(* The host and the core *)

Settled == dev.at = "idle" /\ hw.rx = <<>> /\ ~hw.STUP /\ ~hw.USBRST /\ ~hw.ENUMDNE

\* The entries of the receive FIFO for n copies of a SETUP packet.
SetupStatus(r, n) == [i \in 1..(n + 1) |-> <<IF i <= n THEN "STUPRX" ELSE "STUPCP", r>>]

\* The host begins with a request when the last has been answered, or has not been
\* for seconds.  It repeats a packet whose acknowledgement it has not seen.
HostSetup ==
    /\ ~hw.USBRST /\ ~hw.ENUMDNE /\ hw.req < Requests
    /\ hw.phase = "done" \/ Aborts \/ (hw.kind = "other" /\ Settled)
    /\ \E k \in Kinds, n \in IF Duplicates THEN 1..2 ELSE {1} :
          hw' = [hw EXCEPT !.req = @ + 1, !.kind = k, !.phase = "waits",
                           !.rx = @ \o SetupStatus(hw.req + 1, n)]
    /\ UNCHANGED dev /\ Frame

\* The host takes the packet of the IN endpoint; for data it sends an empty packet
\* back, which is received.
HostIn ==
    /\ hw.phase = "waits" /\ hw.EPENA /\ (hw.size = 0 \/ hw.fifo = hw.size)
    /\ hw' = [hw EXCEPT !.EPENA = FALSE, !.fifo = 0, !.phase = "done",
                        !.rx = IF hw.size = 0 THEN @ ELSE @ \o <<<<"ORX", hw.req>>, <<"OCP", hw.req>>>>]
    /\ UNCHANGED dev /\ Frame

\* Between requests the host may reset the bus.
HostReset ==
    /\ hw.phase = "done" /\ hw.req > 0 /\ ~hw.USBRST
    /\ hw' = [hw EXCEPT !.USBRST = TRUE]
    /\ UNCHANGED dev /\ Frame

-------------------------------------------------------------------------------
(* usbdev_handler *)

Raised(b) ==
    CASE b = "rxflvl" -> hw.rx # <<>>      [] b = "usbrst" -> hw.USBRST
      [] b = "enumdne" -> hw.ENUMDNE       [] b = "oepint" -> hw.STUP
      [] b = "iepint" -> hw.EMPMSK /\ hw.fifo = 0

\* A frame begins, or the bus is reset: the status is read once.
usbdev_handler ==
    /\ dev.at = "idle"
    /\ dev' = [dev EXCEPT !.at = "loop", !.ints = SelectSeq(Bits, LAMBDA b : Raised(b))]
    /\ UNCHANGED hw /\ Frame

Leave ==
    /\ dev.at = "loop" /\ dev.ints = <<>>
    /\ dev' = [dev EXCEPT !.at = "idle"]
    /\ UNCHANGED hw /\ Frame

\* The handler of a bit is called.
Bit(b) == dev.at = "loop" /\ dev.ints # <<>> /\ Head(dev.ints) = b
Done(d) == [d EXCEPT !.ints = Tail(@)]

\* A ring holds one byte less than its length; the oldest are dropped.
Put(ring, bytes) ==
    LET all == ring \o bytes
    IN  IF Len(all) < SetupLen THEN all ELSE SubSeq(all, Len(all) - SetupLen + 2, Len(all))

\* A word that is read behind the packet and kept.
KeepsStatus(d, status) ==
    IF status[1] = "STUPRX" THEN [d EXCEPT !.setup = Put(@, Packet(status[2]))]
    ELSE IF status[1] = "STUPCP" THEN [d EXCEPT !.setup = Put(@, SubSeq(Garbage, 1, 4))]
    ELSE d

\* The cases of gint_rxflvl.  The packet after STUPCP is read into nothing.
ReadFifo(d, status) ==
    IF status[1] = "STUPRX" THEN [d EXCEPT !.setup = Put(@, Packet(status[2]))] ELSE d

\* One status is popped in a pass.  When that of a SETUP is, the phase is done.
gint_rxflvl ==
    /\ Bit("rxflvl")
    /\ dev' = Done(ReadFifo(dev, Head(hw.rx)))
    /\ hw' = [hw EXCEPT !.rx = Tail(@), !.STUP = @ \/ Head(hw.rx)[1] = "STUPCP"]
    /\ Frame

\* usbdev_reset.  The core then enumerates.
gint_usbrst ==
    /\ Bit("usbrst")
    /\ dev' = Done([dev EXCEPT !.endpoint = TRUE])
    /\ hw' = [hw EXCEPT !.USBRST = FALSE, !.ENUMDNE = TRUE]
    /\ Frame

gint_enumdne ==
    /\ Bit("enumdne")
    /\ dev' = Done(dev)
    /\ hw' = [hw EXCEPT !.ENUMDNE = FALSE]
    /\ Frame

\* A ring whose start is not advanced.
CopyOnly(d, h) == [d |-> d, h |-> [h EXCEPT !.fifo = d.tx, !.EMPMSK = FALSE]]

\* usbdev_data_in: the reply goes into the FIFO, which has room for it.
usbdev_data_in(d, h) ==
    [d |-> [d EXCEPT !.tx = 0], h |-> [h EXCEPT !.fifo = d.tx, !.EMPMSK = FALSE]]

gint_iepint ==
    /\ Bit("iepint")
    /\ LET in == usbdev_data_in(dev, hw)
       IN  IF hw.EPENA THEN dev' = Done(in.d) /\ hw' = in.h ELSE dev' = Done(dev) /\ UNCHANGED hw
    /\ Frame

\* usbdev_setup: eight bytes are taken from the ring, or as many as there are, and
\* the ring is cleared.
Parse(d) ==
    [d EXCEPT !.setup = <<>>,
              !.packet = [i \in 1..PacketLen |-> IF i <= Len(d.setup) THEN d.setup[i] ELSE <<0, i>>]]

\* The kind of a packet; parsed from the wrong place it may be any.
KindOf(p) == IF p = Packet(hw.req) THEN {hw.kind} ELSE Kinds

\* usbdev_status_in_packet
StatusIn(h) == [h EXCEPT !.EPENA = TRUE, !.size = 0]

\* std_setup_packet, cdc_setup_packet: data is written to the endpoint, if there is
\* one; what they set in the device is in Usb.tla.
gint_oepint ==
    /\ Bit("oepint")
    /\ LET d == Done(Parse(dev))
       IN  \E k \in KindOf(d.packet) :
             /\ dev' = IF k \in Data /\ d.endpoint THEN [d EXCEPT !.at = "write"] ELSE d
             /\ hw' = IF k \in Acknowledged THEN [StatusIn(hw) EXCEPT !.STUP = FALSE]
                      ELSE [hw EXCEPT !.STUP = FALSE]
    /\ Frame

\* A reply whose interrupt is not unmasked.
WriteMasked(d, h) ==
    [d |-> [d EXCEPT !.tx = h.req, !.at = "loop"], h |-> [h EXCEPT !.EPENA = TRUE, !.size = h.req]]

\* The reply is copied to the ring, and the transfer is begun.
Reply(d, h) ==
    [d |-> [d EXCEPT !.tx = h.req, !.at = "loop"],
     h |-> [h EXCEPT !.EPENA = TRUE, !.size = h.req, !.EMPMSK = TRUE]]

\* usbdev_write in the handler: the ring is empty and the last transfer complete, or
\* it waits for what only the handler does: for ever.
usbdev_write ==
    /\ dev.at = "write"
    /\ \/ /\ dev.tx = 0 /\ ~hw.EPENA
          /\ dev' = Reply(dev, hw).d /\ hw' = Reply(dev, hw).h
       \/ /\ dev.tx # 0 \/ hw.EPENA
          /\ dev' = [dev EXCEPT !.at = "spins"] /\ UNCHANGED hw
    /\ Frame

-------------------------------------------------------------------------------
Next ==
    \/ HostSetup \/ HostIn \/ HostReset
    \/ usbdev_handler \/ Leave \/ gint_rxflvl \/ gint_usbrst \/ gint_enumdne
    \/ gint_iepint \/ gint_oepint \/ usbdev_write

Spec == Init /\ [][Next]_vars

-------------------------------------------------------------------------------
(* Properties *)

TypeOK ==
    /\ Len(dev.setup) < SetupLen /\ dev.tx \in 0..Requests
    /\ dev.at \in {"idle", "loop", "write", "spins"}
    /\ hw.req \in 0..Requests /\ hw.size \in 0..Requests /\ hw.fifo \in 0..Requests
    /\ hw.kind \in Kinds /\ hw.phase \in {"waits", "done"}

\* What is parsed is the packet of the host's last request, all of it and nothing
\* else, if the host does not send it twice.
SetupExact == dev.packet # <<>> /\ hw.phase = "waits" /\ ~hw.STUP /\ hw.rx = <<>>
                  /\ dev.setup = <<>> => dev.packet = Packet(hw.req)

\* The handler comes to an end: it never waits for a transfer that only the handler
\* itself, or a request that the host has given up, could complete.
HandlerEnds == dev.at # "spins"

\* A request that can be answered is never forgotten: until the host has its answer
\* it is in a FIFO or in a ring with an interrupt to come, or its answer is ready.
RequestPending ==
    hw.phase = "waits" /\ hw.kind # "other" =>
        \/ \E i \in DOMAIN hw.rx : hw.rx[i] = <<"STUPCP", hw.req>>
        \/ hw.STUP \/ dev.at = "write"
        \/ hw.EPENA /\ (hw.size = 0 \/ hw.fifo = hw.size \/ (dev.tx = hw.size /\ hw.EMPMSK))
================================================================================
