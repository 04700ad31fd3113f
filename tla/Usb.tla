---------------------------------- MODULE Usb ----------------------------------
(***************************************************************************)
(* The USB serial port (arch/armv7m/chip/stm32f40x/dev/hw/usb): tasks      *)
(* write to the ring of the IN endpoint and read from the ring of the OUT  *)
(* endpoint, which the interrupt handler empties into the FIFO of the core *)
(* and fills; the handler also answers the host on the control endpoint.   *)
(* The host polls when it likes, or never.                                 *)
(*                                                                         *)
(* A packet, and a word of a FIFO, is one byte.  Bytes are numbered in the *)
(* order in which the tasks, or the host, send them.  The directions share *)
(* nothing but usb_ready, and a behaviour is about one of them.  A handler *)
(* is one step.  The bits of DIEPEMPMSK are 0, of the control endpoint,    *)
(* and TX.                                                                 *)
(***************************************************************************)
EXTENDS Calls, Sequences

CONSTANTS
    RingLen,        \* len of the rings
    Lengths,        \* the numbers of bytes that are read and written
    MaxBytes,       \* bound on the bytes sent in a direction
    Reconfigures    \* TRUE if the host may configure the device during a write

UsbAssumption ==
    /\ RingLen \in Nat /\ RingLen >= 2
    /\ Lengths \subseteq Nat /\ MaxBytes \in Nat /\ Reconfigures \in BOOLEAN

TX == 2

Nothing == [num |-> 0, written |-> 0, reg |-> {}, at |-> 0]

\* A ring holds at most RingLen - 1 bytes.
Empty == [start |-> 0, end |-> 0, buf |-> [i \in 0..(RingLen - 1) |-> 0]]
ring_buf_empty(r) == r.start = r.end
ring_buf_full(r) == r.start - r.end = 1 \/ (r.start = 0 /\ r.end = RingLen - 1)
Succ(i) == (i + 1) % RingLen
Count(r) == (r.end - r.start) % RingLen

TypeOK ==
    /\ dev.dir \in {"in", "out"}
    /\ dev.usb_ready \in BOOLEAN /\ dev.request_disable \in BOOLEAN /\ dev.reply \in BOOLEAN
    /\ \A r \in {dev.tx, dev.rx} :
          /\ r.start \in 0..(RingLen - 1) /\ r.end \in 0..(RingLen - 1)
          /\ r.buf \in [0..(RingLen - 1) -> 0..MaxBytes]
    /\ hw.EPENA \in BOOLEAN /\ hw.SNAK \in BOOLEAN /\ hw.EPDIS \in BOOLEAN
    /\ hw.XFRSIZ \in 0..MaxBytes /\ hw.fifo \in Seq(1..MaxBytes)
    /\ hw.EMPMSK \subseteq {0, TX}
    /\ lock \in [{"read", "write"} -> Holders]
    /\ pc \in [Tasks -> {"idle", "write", "begin", "wait", "fill", "end", "setup", "abort",
                         "enable", "mask", "mask_store", "read", "byte", "take", "start", "next"}]

\* dir: from the tasks to the host ("in") or back.  reply: the ring of the control
\* endpoint is not empty.  The fields from asked on are history: bytes to be
\* written, copied to the ring, the last byte that the host took, bytes that the
\* host sent, the last byte that a task read, and whether bytes were dropped.
Init ==
    /\ \E d \in {"in", "out"} :
          dev = [dir |-> d, usb_ready |-> FALSE, tx |-> Empty, rx |-> Empty,
                 request_disable |-> FALSE, reply |-> FALSE]
    /\ hw = [EPENA |-> FALSE, SNAK |-> FALSE, EPDIS |-> FALSE, XFRSIZ |-> 0, fifo |-> <<>>,
             EMPMSK |-> {}, asked |-> 0, copied |-> 0, taken |-> 0, sent |-> 0, got |-> 0,
             txlost |-> FALSE, rxlost |-> FALSE]
    /\ lock = [m \in {"read", "write"} |-> Nobody]
    /\ pc = [t \in Tasks |-> "idle"]
    /\ loc = [t \in Tasks |-> Nothing]

Return(t, m) == Goto(t, "idle") /\ Set(t, Nothing) /\ release(m)

-------------------------------------------------------------------------------
(* usb_write and usbdev_write *)

usb_write(t, n) ==
    /\ Step(t, "idle", "write") /\ dev.usb_ready /\ dev.dir = "in"
    /\ hw.asked + n <= MaxBytes
    /\ hw' = [hw EXCEPT !.asked = @ + n]
    /\ Set(t, [Nothing EXCEPT !.num = n])
    /\ UNCHANGED <<dev, lock>>

\* A write that does not take the mutex.
WriteUnlocked(t) ==
    /\ Step(t, "write", "begin")
    /\ UNCHANGED <<dev, hw, lock, loc>>

WriteLock(t) ==
    /\ Step(t, "write", "begin") /\ acquire(t, "write")
    /\ UNCHANGED <<dev, hw, loc>>

\* Also the beginning of the recursive call for the rest of the bytes.
usbdev_write(t) ==
    /\ pc[t] = "begin"
    /\ \/ dev.usb_ready /\ Goto(t, "wait") /\ UNCHANGED <<loc, lock>>
       \/ ~dev.usb_ready /\ Return(t, "write")
    /\ UNCHANGED <<dev, hw>>

WaitEmpty(t) ==
    /\ Step(t, "wait", "fill") /\ ring_buf_empty(dev.tx)
    /\ Set(t, [loc[t] EXCEPT !.written = 0])
    /\ UNCHANGED <<dev, hw, lock>>

\* A byte is copied; the end of the ring is loaded here and stored next.
Fill(t) ==
    /\ pc[t] = "fill"
    /\ IF loc[t].num > 0 /\ ~ring_buf_full(dev.tx)
          THEN /\ dev' = [dev EXCEPT !.tx.buf[dev.tx.end] = hw.copied + 1]
               /\ hw' = [hw EXCEPT !.copied = @ + 1]
               /\ Set(t, [loc[t] EXCEPT !.num = @ - 1, !.written = @ + 1, !.at = dev.tx.end])
               /\ Goto(t, "end")
          ELSE Goto(t, "setup") /\ UNCHANGED <<dev, hw, loc>>
    /\ UNCHANGED lock

FillEnd(t) ==
    /\ Step(t, "end", "fill")
    /\ dev' = [dev EXCEPT !.tx.end = Succ(loc[t].at)]
    /\ UNCHANGED <<hw, lock, loc>>

\* The last transfer is complete, or is aborted.
Setup(t) ==
    /\ pc[t] = "setup"
    /\ \/ ~hw.EPENA /\ Goto(t, "enable") /\ UNCHANGED <<dev, hw>>
       \/ /\ hw.EPENA /\ Goto(t, "abort")
          /\ dev' = [dev EXCEPT !.request_disable = TRUE]
          /\ hw' = [hw EXCEPT !.SNAK = TRUE]
    /\ UNCHANGED <<lock, loc>>

Aborted(t) ==
    /\ Step(t, "abort", "enable") /\ ~dev.request_disable
    /\ UNCHANGED <<dev, hw, lock, loc>>

Enable(t) ==
    /\ Step(t, "enable", "mask")
    /\ hw' = [hw EXCEPT !.XFRSIZ = loc[t].written, !.EPENA = TRUE, !.SNAK = FALSE]
    /\ UNCHANGED <<dev, lock, loc>>

\* DIEPEMPMSK is loaded and stored.
MaskLoad(t) ==
    /\ Step(t, "mask", "mask_store")
    /\ Set(t, [loc[t] EXCEPT !.reg = hw.EMPMSK])
    /\ UNCHANGED <<dev, hw, lock>>

\* The rest is written if the ring was full, as it was if bytes are left.
MaskStore(t) ==
    /\ pc[t] = "mask_store"
    /\ hw' = [hw EXCEPT !.EMPMSK = loc[t].reg \cup {TX}]
    /\ IF loc[t].num > 0 THEN Goto(t, "begin") /\ UNCHANGED <<loc, lock>> ELSE Return(t, "write")
    /\ UNCHANGED dev

-------------------------------------------------------------------------------
(* usb_read *)

usb_read(t, n) ==
    /\ Step(t, "idle", "read") /\ dev.usb_ready /\ dev.dir = "out"
    /\ Set(t, [Nothing EXCEPT !.num = n])
    /\ UNCHANGED <<dev, hw, lock>>

\* A read that does not take the mutex.
ReadUnlocked(t) ==
    /\ Step(t, "read", "byte")
    /\ UNCHANGED <<dev, hw, lock, loc>>

ReadLock(t) ==
    /\ Step(t, "read", "byte") /\ acquire(t, "read")
    /\ UNCHANGED <<dev, hw, loc>>

\* The start of the ring is loaded twice: for the byte, and to be advanced.
ReadByte(t) ==
    /\ pc[t] = "byte"
    /\ IF loc[t].num > 0 /\ ~ring_buf_empty(dev.rx)
          THEN Goto(t, "take") /\ Set(t, [loc[t] EXCEPT !.num = @ - 1, !.at = dev.rx.start])
               /\ UNCHANGED lock
          ELSE Return(t, "read")
    /\ UNCHANGED <<dev, hw>>

ReadTake(t) ==
    /\ Step(t, "take", "start")
    /\ hw' = [hw EXCEPT !.got = IF hw.rxlost THEN @ ELSE dev.rx.buf[loc[t].at]]
    /\ UNCHANGED <<dev, lock, loc>>

ReadStart(t) ==
    /\ Step(t, "start", "next")
    /\ Set(t, [loc[t] EXCEPT !.at = dev.rx.start])
    /\ UNCHANGED <<dev, hw, lock>>

\* A start that is not wrapped at the end of the ring.
ReadNextPast(t) ==
    /\ Step(t, "next", "byte")
    /\ dev' = [dev EXCEPT !.rx.start = loc[t].at + 1]
    /\ UNCHANGED <<hw, lock, loc>>

ReadNext(t) ==
    /\ Step(t, "next", "byte")
    /\ dev' = [dev EXCEPT !.rx.start = Succ(loc[t].at)]
    /\ UNCHANGED <<hw, lock, loc>>

-------------------------------------------------------------------------------
(* The interrupt handler *)

\* gint_rxflvl, usbdev_data_out, usbdev_fifo_read: the oldest byte of a full ring
\* is dropped.
usbdev_data_out ==
    /\ dev.dir = "out" /\ dev.usb_ready /\ hw.sent < MaxBytes
    /\ LET r == [dev.rx EXCEPT !.buf[dev.rx.end] = hw.sent + 1]
           full == ring_buf_full(dev.rx)
       IN  /\ dev' = [dev EXCEPT !.rx = [r EXCEPT !.start = IF full THEN Succ(@) ELSE @,
                                                  !.end = Succ(@)]]
           /\ hw' = [hw EXCEPT !.sent = @ + 1, !.rxlost = @ \/ full]
    /\ UNCHANGED <<lock, pc, loc>>

\* A handler that leaves the interrupt on.
DataInUnmasked ==
    /\ TX \in hw.EMPMSK /\ hw.EPENA
    /\ 2 * Len(hw.fifo) <= RingLen
    /\ LET n == Count(dev.tx)
       IN  /\ dev' = [dev EXCEPT !.tx.start = dev.tx.end]
           /\ hw' = [hw EXCEPT !.fifo = @ \o [i \in 1..n |->
                                                dev.tx.buf[(dev.tx.start + i - 1) % RingLen]]]
    /\ UNCHANGED <<lock, pc, loc>>

\* gint_iepint, TXFE of the IN endpoint, whose FIFO is as large as the ring:
\* usbdev_data_in.
usbdev_data_in ==
    /\ TX \in hw.EMPMSK /\ hw.EPENA
    /\ 2 * Len(hw.fifo) <= RingLen
    /\ LET space == RingLen - Len(hw.fifo)
           n == IF Count(dev.tx) < space THEN Count(dev.tx) ELSE space
           start == (dev.tx.start + n) % RingLen
       IN  /\ dev' = [dev EXCEPT !.tx.start = start]
           /\ hw' = [hw EXCEPT
                       !.fifo = @ \o [i \in 1..n |-> dev.tx.buf[(dev.tx.start + i - 1) % RingLen]],
                       !.EMPMSK = IF start = dev.tx.end THEN @ \ {TX} ELSE @]
    /\ UNCHANGED <<lock, pc, loc>>

\* gint_iepint, INEPNE.
NakEffective ==
    /\ hw.SNAK /\ dev.request_disable /\ ~hw.EPDIS
    /\ hw' = [hw EXCEPT !.EPDIS = TRUE]
    /\ UNCHANGED <<dev, lock, pc, loc>>

\* A handler that does not flush the FIFO.
DisabledKeeps ==
    /\ hw.EPDIS
    /\ hw' = [hw EXCEPT !.EPDIS = FALSE, !.EPENA = FALSE, !.txlost = TRUE]
    /\ dev' = [dev EXCEPT !.request_disable = FALSE]
    /\ UNCHANGED <<lock, pc, loc>>

\* A handler that leaves the request.
DisabledStays ==
    /\ hw.EPDIS
    /\ hw' = [hw EXCEPT !.EPDIS = FALSE, !.EPENA = FALSE, !.fifo = <<>>, !.SNAK = FALSE,
                        !.txlost = @ \/ hw.EPENA]
    /\ UNCHANGED <<dev, lock, pc, loc>>

\* gint_iepint, EPDISD: the FIFO is flushed.
Disabled ==
    /\ hw.EPDIS
    /\ hw' = [hw EXCEPT !.EPDIS = FALSE, !.EPENA = FALSE, !.fifo = <<>>,
                        !.txlost = @ \/ hw.EPENA]
    /\ dev' = [dev EXCEPT !.request_disable = FALSE]
    /\ UNCHANGED <<lock, pc, loc>>

\* gint_otgint, session end.
SessionEnd ==
    /\ dev.usb_ready
    /\ dev' = [dev EXCEPT !.usb_ready = FALSE]
    /\ UNCHANGED <<hw, lock, pc, loc>>

\* gint_oepint, SETUP of SET_CONFIGURATION.  The FIFO numbers of the ACM and the
\* IN endpoint are combined into that of a third FIFO, which is flushed.
cdc_set_configuration ==
    /\ Reconfigures \/ (Free("write") /\ ring_buf_empty(dev.tx))
    /\ dev' = [dev EXCEPT !.usb_ready = TRUE, !.tx.start = 0, !.tx.end = 0]
    /\ UNCHANGED <<hw, lock, pc, loc>>

\* gint_oepint, SETUP of GET_DESCRIPTOR or GET_STATUS: usbdev_write on the control
\* endpoint.  The handler would spin while the last reply is in the ring.
std_setup_packet ==
    /\ dev.dir = "in" /\ ~dev.reply
    /\ dev' = [dev EXCEPT !.reply = TRUE]
    /\ hw' = [hw EXCEPT !.EMPMSK = @ \cup {0}]
    /\ UNCHANGED <<lock, pc, loc>>

\* gint_iepint, TXFE of the control endpoint.
ReplyIn ==
    /\ dev.reply /\ 0 \in hw.EMPMSK
    /\ dev' = [dev EXCEPT !.reply = FALSE]
    /\ hw' = [hw EXCEPT !.EMPMSK = @ \ {0}]
    /\ UNCHANGED <<lock, pc, loc>>

\* The host takes a byte.
HostIn ==
    /\ hw.EPENA /\ ~hw.SNAK
    /\ \/ /\ hw.fifo # <<>> /\ hw.XFRSIZ > 0
          /\ hw' = [hw EXCEPT !.fifo = Tail(@), !.XFRSIZ = @ - 1, !.taken = Head(hw.fifo),
                              !.EPENA = hw.XFRSIZ > 1]
       \/ /\ hw.XFRSIZ = 0
          /\ hw' = [hw EXCEPT !.EPENA = FALSE]
    /\ UNCHANGED <<dev, lock, pc, loc>>

-------------------------------------------------------------------------------
Call(t) == \E n \in Lengths : usb_write(t, n) \/ usb_read(t, n)

Work(t) ==
    \/ WriteLock(t) \/ usbdev_write(t) \/ WaitEmpty(t) \/ Fill(t) \/ FillEnd(t) \/ Setup(t)
    \/ Aborted(t) \/ Enable(t) \/ MaskLoad(t) \/ MaskStore(t)
    \/ ReadLock(t) \/ ReadByte(t) \/ ReadTake(t) \/ ReadStart(t) \/ ReadNext(t)

\* What the handler does that does not wait for the host.
Handler == usbdev_data_in \/ NakEffective \/ Disabled \/ ReplyIn

Host == usbdev_data_out \/ SessionEnd \/ cdc_set_configuration \/ std_setup_packet \/ HostIn

Next == Handler \/ Host \/ \E t \in Tasks : Call(t) \/ Work(t)

Spec == Init /\ [][Next]_vars

-------------------------------------------------------------------------------
(* Properties *)

\* A transfer that is enabled has its bytes: those still to be sent are in the
\* FIFO and, until the interrupt has moved them, in the ring; so it completes
\* once the host polls, also after transfers were aborted.
TransferExact ==
    hw.EPENA /\ (\A t \in Tasks : pc[t] \notin {"fill", "end", "setup", "abort"}) =>
        hw.XFRSIZ = Len(hw.fifo) + Count(dev.tx)

\* The host takes the bytes of all tasks in the order in which they were copied,
\* each once, and all of them as long as no transfer is aborted.
TxOrderStep ==
    /\ hw'.taken >= hw.taken
    /\ hw'.taken # hw.taken /\ ~hw.txlost => hw'.taken = hw.taken + 1
TxOrder == [][TxOrderStep]_vars

\* Tasks read the bytes in the order in which the host sent them, each once and
\* all of them, as long as the ring does not overflow: the handler and the
\* readers do not disturb each other.
RxOrderStep == ~hw'.rxlost /\ hw'.got # hw.got => hw'.got = hw.got + 1
RxOrder == [][RxOrderStep]_vars

\* A TX interrupt that is not masked ends: the handler masks it only while the
\* endpoint is enabled.
TxInterruptEnds == TX \in hw.EMPMSK => hw.EPENA
================================================================================
