-------------------------------- MODULE UsbEnum --------------------------------
(***************************************************************************)
(* How the USB device starts and is found and configured by a host         *)
(* (usbdev_init.c, usbdev_int.c, usbdev_cdc.c in                           *)
(* arch/armv7m/chip/stm32f40x/dev/hw/usb): init_usbdev, step by step, the  *)
(* handler with all its interrupts, and a host that resets the bus, reads  *)
(* the descriptors, sets an address and a configuration and then sends     *)
(* data. The rings of the control endpoint are in UsbControl.tla, those of *)
(* the data endpoints in Usb.tla: a reply is here taken by the host at     *)
(* once, and a received packet is only a status.                           *)
(*                                                                         *)
(* The first part is what the device says of itself (usbdev_internals.h,   *)
(* usbdev_desc.h, usbdev_desc.c): packed structures and the descriptors    *)
(* that are kept in them, as bytes, and how a host reads them.             *)
(***************************************************************************)
EXTENDS Calls, Sequences, SequencesExt

-------------------------------------------------------------------------------
(* Packed structures: the widths of the fields, in bits *)

Bits(layout, n) == FoldLeft(LAMBDA a, b : a + b, 0, SubSeq(layout, 1, n))
sizeof(layout) == Bits(layout, Len(layout)) \div 8

\* The field that holds a bit, the first bit of the structure being 0.
FieldAt(layout, b) ==
    CHOOSE i \in DOMAIN layout : Bits(layout, i - 1) <= b /\ b < Bits(layout, i)

\* The bytes of the structure whose fields have these values.
Packed(layout, values) ==
    LET Bit(b) == LET i == FieldAt(layout, b)
                  IN  (values[i] \div 2^(b - Bits(layout, i - 1))) % 2
    IN  [k \in 1..sizeof(layout) |-> FoldLeft(LAMBDA a, j : a + Bit(8 * (k - 1) + j) * 2^j, 0,
                                             <<0, 1, 2, 3, 4, 5, 6, 7>>)]

\* The value of a field; none is wider than two bytes.
Field(layout, bytes, i) ==
    LET Bit(b) == (bytes[(b \div 8) + 1] \div 2^(b % 8)) % 2
    IN  FoldLeft(LAMBDA a, j : a + Bit(Bits(layout, i - 1) + j) * 2^j, 0,
                 [j \in 1..layout[i] |-> j - 1])

usbdev_setup_packet == <<5, 2, 1, 8, 16, 16, 16>>
usb_device == <<8, 8, 16, 8, 8, 8, 8, 16, 16, 16, 8, 8, 8, 8>>
usb_configuration == <<8, 8, 16, 8, 8, 8, 5, 1, 1, 1, 8>>
usb_interface == <<8, 8, 8, 8, 8, 8, 8, 8, 8>>
usb_endpoint == <<8, 8, 4, 3, 1, 2, 2, 2, 2, 16, 8>>
usb_cdc_header == <<8, 8, 8, 16>>
usb_cdc_call_management == <<8, 8, 8, 1, 1, 6, 8>>
usb_cdc_acm == <<8, 8, 8, 1, 1, 1, 1, 4>>
usb_cdc_acm_union == <<8, 8, 8, 8, 8>>

\* The structures of usbdev_configuration1, in order.
usbdev_configuration1_layout ==
    <<usb_configuration, usb_interface, usb_cdc_header, usb_cdc_call_management, usb_cdc_acm,
      usb_cdc_acm_union, usb_endpoint, usb_interface, usb_endpoint, usb_endpoint>>

TotalLength == FoldLeft(LAMBDA a, l : a + sizeof(l), 0, usbdev_configuration1_layout)

-------------------------------------------------------------------------------
(* Constants *)

USB_VERSION_1_1 == 272
USB_CLASS == [CDC |-> 2, CDC_DATA |-> 10]
USB_CDC == [VERSION_1_1 |-> 272, SUBCLASS_ACM |-> 2, PROTOCOL_AT |-> 1]
CS_INTERFACE == 36
SUBTYPE == [HEADER |-> 0, CALL_MANAGEMENT |-> 1, ACM |-> 2, ACM_UNION |-> 6]
RECIPIENT == [DEVICE |-> 0, INTERFACE |-> 1, ENDPOINT |-> 2, OTHERS |-> 3]
TYPE == [STD |-> 0, CLASS |-> 1, VENDOR |-> 2]
DIR == [H2D |-> 0, D2H |-> 1]
REQUEST == [CLEAR_FEATURE |-> 1, GET_CONFIGURATION |-> 8, GET_DESCRIPTOR |-> 6, GET_INTERFACE |-> 10,
            GET_STATUS |-> 0, SET_ADDRESS |-> 5, SET_CONFIGURATION |-> 9, SET_DESCRIPTOR |-> 7,
            SET_FEATURE |-> 3, SET_INTERFACE |-> 11, SYNC_FRAME |-> 12]
CDC_REQUEST == [SET_CONTROL_LINE_STATE |-> 34, SET_LINE_CODING |-> 32]
DESCRIPTOR == [DEVICE |-> 1, CONFIG |-> 2, STRING |-> 3, INTERFACE |-> 4, ENDPOINT |-> 5]
ENDPOINT_DIR == [OUTWARD |-> 0, INWARD |-> 1]   \* as the host sees it
TRANSFER == [CONTROL |-> 0, ISOSYNC |-> 1, BULK |-> 2, INTERRUPT |-> 3]
SYNC == [NONE |-> 0, ASYNC |-> 1, ADAPT |-> 2, SYNC |-> 3]

\* Words of the FIFOs, and the data endpoints.
FIFO_SIZE == [RX |-> 128, TX |-> <<32, 16, 128, 16>>]
ACM == 1
TX == 2
RX == 3
MPSIZE == [ep \in {ACM, TX, RX} |-> 64]

-------------------------------------------------------------------------------
(* The descriptors *)

usb_device_descriptor ==
    Packed(usb_device, <<sizeof(usb_device), DESCRIPTOR.DEVICE, USB_VERSION_1_1, USB_CLASS.CDC, 0, 0,
                         64, 1155, 22336, 1, 0, 0, 0, 1>>)

\* The fields of the second copy, which answers a request for its length or less.
usbdev_configuration1_descriptor ==
    Packed(usb_configuration, <<sizeof(usb_configuration), DESCRIPTOR.CONFIG, TotalLength, 2, 1, 0,
                                0, 1, 1, 1, 0>>)

config_value ==
    <<sizeof(usb_configuration), DESCRIPTOR.CONFIG, TotalLength, 2, 1, 0, 0, 1, 1, 1, 0>>
interface0_value ==
    <<sizeof(usb_interface), DESCRIPTOR.INTERFACE, 0, 0, 1, USB_CLASS.CDC, USB_CDC.SUBCLASS_ACM,
      USB_CDC.PROTOCOL_AT, 0>>
interface0_header_value ==
    <<sizeof(usb_cdc_header), CS_INTERFACE, SUBTYPE.HEADER, USB_CDC.VERSION_1_1>>
interface0_call_man_value ==
    <<sizeof(usb_cdc_call_management), CS_INTERFACE, SUBTYPE.CALL_MANAGEMENT, 1, 0, 0, 1>>
interface0_acm_value ==
    <<sizeof(usb_cdc_acm), CS_INTERFACE, SUBTYPE.ACM, 0, 1, 1, 0, 0>>
interface0_union_value ==
    <<sizeof(usb_cdc_acm_union), CS_INTERFACE, SUBTYPE.ACM_UNION, 0, 1>>
interface0_endpoint_value ==
    <<sizeof(usb_endpoint), DESCRIPTOR.ENDPOINT, ACM, 0, ENDPOINT_DIR.INWARD, TRANSFER.INTERRUPT, SYNC.NONE,
      0, 0, MPSIZE[ACM], 64>>

\* The second interface without its second endpoint.
Interface1Short ==
    <<sizeof(usb_interface), DESCRIPTOR.INTERFACE, 1, 0, 1, USB_CLASS.CDC_DATA, 0, 0, 0>>

interface1_value ==
    <<sizeof(usb_interface), DESCRIPTOR.INTERFACE, 1, 0, 2, USB_CLASS.CDC_DATA, 0, 0, 0>>
interface1_endpoint1_value ==
    <<sizeof(usb_endpoint), DESCRIPTOR.ENDPOINT, RX, 0, ENDPOINT_DIR.OUTWARD, TRANSFER.BULK, SYNC.NONE,
      0, 0, MPSIZE[RX], 0>>
interface1_endpoint2_value ==
    <<sizeof(usb_endpoint), DESCRIPTOR.ENDPOINT, TX, 0, ENDPOINT_DIR.INWARD, TRANSFER.BULK, SYNC.NONE,
      0, 0, MPSIZE[TX], 0>>

usbdev_configuration1 ==
    LET values == <<config_value, interface0_value, interface0_header_value, interface0_call_man_value,
                    interface0_acm_value, interface0_union_value, interface0_endpoint_value,
                    interface1_value, interface1_endpoint1_value, interface1_endpoint2_value>>
    IN  FlattenSeq([i \in DOMAIN values |-> Packed(usbdev_configuration1_layout[i], values[i])])

-------------------------------------------------------------------------------
(* The host: how it reads a configuration *)

\* The descriptors of a configuration: each begins with its length.  One that goes
\* beyond the end, or has no length, is left out.
Descriptors(bytes) ==
    LET from[i \in 1..(Len(bytes) + 1)] ==
            IF i > Len(bytes) THEN <<>>
            ELSE IF bytes[i] = 0 \/ i + bytes[i] > Len(bytes) + 1 THEN <<>>
            ELSE <<SubSeq(bytes, i, i + bytes[i] - 1)>> \o from[i + bytes[i]]
    IN  from[1]

OfType(ds, type) == SelectSeq(ds, LAMBDA d : d[2] = type)
Functional(ds, subtype) == SelectSeq(ds, LAMBDA d : d[2] = CS_INTERFACE /\ d[3] = subtype)

\* An endpoint as its descriptor gives it.
Endpoint(d) ==
    [num |-> Field(usb_endpoint, d, 3), dir |-> Field(usb_endpoint, d, 5),
     type |-> Field(usb_endpoint, d, 6), mpsize |-> Field(usb_endpoint, d, 10)]

Endpoints(bytes) ==
    LET eps == OfType(Descriptors(bytes), DESCRIPTOR.ENDPOINT)
    IN  {Endpoint(eps[i]) : i \in DOMAIN eps}

\* What the host's driver for a modem asks of a configuration: the descriptors fill
\* the length it names; interfaces are as many as it says and are numbered from 0,
\* each followed by its endpoints; no two endpoints have an address; and the
\* functional descriptors lead from the first interface to the one with the data.
WellFormed(bytes) ==
    LET ds == Descriptors(bytes)
        is == OfType(ds, DESCRIPTOR.INTERFACE)
        eps == OfType(ds, DESCRIPTOR.ENDPOINT)
        \* The endpoints between the descriptor at i and the next interface.
        Count(i) == Cardinality({j \in (i + 1)..Len(ds) :
                        ds[j][2] = DESCRIPTOR.ENDPOINT
                        /\ \A k \in (i + 1)..j : ds[k][2] # DESCRIPTOR.INTERFACE})
        Data == {n \in 0..(Len(is) - 1) : is[n + 1][6] = USB_CLASS.CDC_DATA}
    IN  /\ Len(FlattenSeq(ds)) = Len(bytes)
        /\ bytes[3] + 256 * bytes[4] = Len(bytes)
        /\ bytes[5] = Len(is) /\ \A n \in DOMAIN is : is[n][3] = n - 1
        /\ \A i \in DOMAIN ds : ds[i][2] = DESCRIPTOR.INTERFACE => ds[i][5] = Count(i)
        /\ \A i, j \in DOMAIN eps : eps[i][3] = eps[j][3] => i = j
        /\ \A i \in DOMAIN eps : Endpoint(eps[i]).num # 0
        /\ Len(Functional(ds, SUBTYPE.HEADER)) = 1
        /\ \A u \in ToSet(Functional(ds, SUBTYPE.ACM_UNION)) : u[4] = 0 /\ u[5] \in Data
        /\ \A c \in ToSet(Functional(ds, SUBTYPE.CALL_MANAGEMENT)) : c[5] \in Data

-------------------------------------------------------------------------------
(* The device and its host *)

CONSTANTS
    DeviceAsked,    \* lengths that a host asks the descriptor of the device for
    ConfigAsked,    \* and the configuration, when it has seen its first nine bytes
    Addresses,      \* addresses that a host gives
    MaxResets,      \* bound on resets of the bus
    Raises,         \* sets of interrupts of suspension, errors and so on that come
    MaxRaised,      \* bound on how often they do
    ResetClears     \* whether the core forgets the address when the bus is reset

UsbEnumAssumption ==
    /\ DeviceAsked \subseteq Nat /\ ConfigAsked \subseteq Nat /\ Addresses \subseteq 1..127
    /\ MaxResets \in Nat /\ MaxRaised \in Nat /\ Raises \subseteq SUBSET (1..31 \ {2, 3, 4, 12, 13, 18, 19})
    /\ ResetClears \in BOOLEAN

\* The memory of the FIFOs of the core, in words.
FifoWords == 320

\* An address has seven bits.
Or(a, b) == FoldLeft(LAMBDA n, j : n + (IF (a \div 2^j) % 2 = 1 \/ (b \div 2^j) % 2 = 1 THEN 2^j ELSE 0),
                     0, <<0, 1, 2, 3, 4, 5, 6>>)

-------------------------------------------------------------------------------
(* State *)

\* The endpoints as they are at the start: no transmit buffer is there yet.
ep_ctl == [num |-> 0, mpsize |-> 64, rx |-> 4 * FIFO_SIZE.RX, tx |-> 0]
ep_acm == [num |-> ACM, mpsize |-> MPSIZE[ACM], rx |-> 0, tx |-> 0]
ep_rx == [num |-> RX, mpsize |-> MPSIZE[RX], rx |-> 4 * FIFO_SIZE.RX, tx |-> 0]
ep_tx == [num |-> TX, mpsize |-> MPSIZE[TX], rx |-> 0, tx |-> 0]

Unset == [USBAEP |-> FALSE, EPENA |-> FALSE, SNAK |-> FALSE, MPSIZE |-> 0, EPTYP |-> 0, TXFNUM |-> 0]

\* What a host knows of a configuration: whether it is well formed and as it was told
\* first, the value that selects it and its endpoints.
Unread == [ok |-> TRUE, value |-> 0, endpoints |-> {}]

\* dev: how far init_usbdev is, the buffers it has, the endpoints by number (NULL:
\* not in the table), the bits that the handler still looks at and the SETUP packet
\* in its ring.  read is history: the bits that it has read and that have not come
\* again since, and when it has ended those that it left; dropped: a reply was not
\* written.
\* hw: what is on, the pins, the status and mask, the FIFOs, the endpoints, the
\* address, the statuses to be received and the host.
Init ==
    /\ dev = [step |-> 1, buf |-> <<0, 0, 0, 0>>, ep |-> <<ep_ctl, ep_acm, ep_tx, ep_rx>>,
              endpoints |-> {}, usb_ready |-> FALSE, ints |-> <<>>, at |-> "idle",
              setup |-> <<>>, read |-> {}, dropped |-> FALSE]
    /\ hw = [on |-> {}, pins |-> {}, GINTSTS |-> {}, GINTMSK |-> {}, GOTGINT |-> {},
             GRXFSIZ |-> 0, DIEPTXF |-> [n \in 0..3 |-> [sa |-> 0, fd |-> 0]],
             inep |-> [n \in 0..3 |-> Unset], outep |-> [n \in 0..3 |-> Unset],
             DAINTMSK |-> {}, DAD |-> 0, rx |-> <<>>, STUP |-> FALSE, reply |-> <<>>,
             host |-> [at |-> "away", step |-> 0, asked |-> <<>>, short |-> <<>>,
                       config |-> Unread, address |-> 0, resets |-> 0, raised |-> 0]]
    /\ lock = <<>> /\ loc = <<>> /\ pc = [t \in Tasks |-> "idle"]

Frame == UNCHANGED <<lock, pc, loc>>

-------------------------------------------------------------------------------
(* init_usbdev *)

\* The pins, the type of their outputs and their pulls.
usbdev_pins ==
    {[pin |-> p, moder |-> "ALT", afr |-> "OTG", ospeedr |-> "100M",
      otyper |-> IF p = 10 THEN "OD" ELSE "PP", pupdr |-> IF p = 10 THEN "UP" ELSE "NONE"] : p \in 8..12}

usbdev_clocks_init ==
    /\ hw' = [hw EXCEPT !.on = @ \cup {"OTGFSEN", "GPIOAEN", "NVIC"}, !.pins = usbdev_pins]
    /\ dev' = [dev EXCEPT !.step = @ + 1]

\* The buffers; one that cannot be allocated is a panic.
BufferLen == <<4 * FIFO_SIZE.TX[1] + 1, 4 * FIFO_SIZE.TX[2], 4 * FIFO_SIZE.TX[3], 4 * FIFO_SIZE.TX[4]>>

AllocBuffers ==
    /\ \/ dev' = [dev EXCEPT !.step = @ + 1, !.buf = BufferLen, !.ep[1].tx = BufferLen[1]]
       \/ dev' = [dev EXCEPT !.at = "panic"]
    /\ UNCHANGED hw

\* The registers; a bit of GINTSTS is cleared by writing it.
CoreConfig ==
    /\ hw' = [hw EXCEPT !.on = @ \cup {"GAHBCFG_GINTMSK", "SRPCAP", "TRDT", "FDMOD"},
                        !.GINTSTS = {}, !.GOTGINT = {}]
    /\ dev' = [dev EXCEPT !.step = @ + 1]

Unmask ==
    /\ hw' = [hw EXCEPT !.GINTMSK = @ \cup {12, 13, 10, 11, 3}]
    /\ dev' = [dev EXCEPT !.step = @ + 1]

PowerOn ==
    /\ hw' = [hw EXCEPT !.on = @ \cup {"DSPD_FS", "NZLSOHSK", "VBUSBSEN", "PWRDWN"}]
    /\ dev' = [dev EXCEPT !.step = @ + 1]

\* The power before the buffers.
PowerFirst == <<"clocks", "power", "config", "unmask", "buffers">>

InitOrder == <<"clocks", "buffers", "config", "unmask", "power">>

init_usbdev ==
    /\ dev.step \in DOMAIN InitOrder /\ dev.at = "idle"
    /\ LET s == InitOrder[dev.step]
       IN  \/ s = "clocks" /\ usbdev_clocks_init
           \/ s = "buffers" /\ AllocBuffers
           \/ s = "config" /\ CoreConfig
           \/ s = "unmask" /\ Unmask
           \/ s = "power" /\ PowerOn
    /\ Frame

-------------------------------------------------------------------------------
(* The host and the core *)

Attached == {"PWRDWN", "VBUSBSEN", "OTGFSEN"} \subseteq hw.on

\* Bits of the status that are levels of something else.
Levels ==
    (IF hw.rx # <<>> THEN {4} ELSE {}) \cup (IF hw.STUP THEN {19} ELSE {})
        \cup (IF hw.GOTGINT # {} THEN {2} ELSE {})
Status == hw.GINTSTS \cup Levels

Latched(h, b) == [h EXCEPT !.GINTSTS = @ \cup {b}]
Again(b) == [dev EXCEPT !.read = @ \ {b}]

\* The core raises interrupts of suspension and so on, and one for each frame.
Raise ==
    /\ Attached /\ hw.host.raised < MaxRaised
    /\ \E bs \in Raises :
          /\ hw' = [hw EXCEPT !.GINTSTS = @ \cup bs, !.host.raised = @ + 1]
          /\ dev' = [dev EXCEPT !.read = @ \ bs]
    /\ Frame

FrameBegins ==
    /\ Attached /\ 3 \notin hw.GINTSTS
    /\ hw' = Latched(hw, 3) /\ dev' = Again(3) /\ Frame

\* The host resets the bus when it finds the device, and between requests; the core
\* forgets which endpoints are active.
HostReset ==
    /\ Attached /\ hw.host.at \in {"away", "ready"} /\ hw.host.resets < MaxResets
    /\ 12 \notin hw.GINTSTS /\ hw.rx = <<>>
    /\ hw' = [Latched(hw, 12) EXCEPT
                 !.inep = [n \in 0..3 |-> [hw.inep[n] EXCEPT !.USBAEP = FALSE, !.EPENA = FALSE]],
                 !.outep = [n \in 0..3 |-> [hw.outep[n] EXCEPT !.USBAEP = FALSE, !.EPENA = FALSE]],
                 !.DAD = IF ResetClears THEN 0 ELSE @,
                 !.host = [@ EXCEPT !.at = "reset", !.step = 0, !.address = 0, !.config = Unread,
                                    !.short = <<>>, !.resets = @ + 1]]
    /\ dev' = Again(12) /\ Frame

HostEnumerates ==
    /\ hw.host.at = "reset"
    /\ hw' = [Latched(hw, 13) EXCEPT !.host.at = "recovers"]
    /\ dev' = Again(13) /\ Frame

\* A host waits before its first request, for many frames.
HostBegins ==
    /\ hw.host.at = "recovers" /\ dev.at = "idle" /\ hw.GINTSTS \cap {12, 13} = {}
    /\ hw' = [hw EXCEPT !.host.at = "ready"] /\ UNCHANGED dev /\ Frame

\* The cable is pulled.
HostLeaves ==
    /\ hw.host.at = "ready" /\ hw.rx = <<>> /\ hw.host.resets < MaxResets
    /\ \E b \in {"SEDET", "DBCDNE"} : hw' = [hw EXCEPT !.GOTGINT = @ \cup {"SEDET", b}, !.host.at = "away"]
    /\ dev' = Again(2) /\ Frame

\* The requests of a host in their order, and those that it may make at the end.
Setup(recipient, type, dir, request, value, length) ==
    <<recipient, type, dir, request, value, 0, length>>
GetDescriptor(type, length) ==
    Setup(RECIPIENT.DEVICE, TYPE.STD, DIR.D2H, REQUEST.GET_DESCRIPTOR, 256 * type, length)
Asks(n) ==
    CASE n = 0 -> {GetDescriptor(DESCRIPTOR.DEVICE, l) : l \in DeviceAsked}
      [] n = 1 -> {Setup(RECIPIENT.DEVICE, TYPE.STD, DIR.H2D, REQUEST.SET_ADDRESS, a, 0) : a \in Addresses}
      [] n = 2 -> {GetDescriptor(DESCRIPTOR.DEVICE, sizeof(usb_device))}
      [] n = 3 -> {GetDescriptor(DESCRIPTOR.CONFIG, sizeof(usb_configuration))}
      [] n = 4 -> {GetDescriptor(DESCRIPTOR.CONFIG, l) : l \in ConfigAsked}
      [] n = 5 -> {Setup(RECIPIENT.DEVICE, TYPE.STD, DIR.H2D, REQUEST.SET_CONFIGURATION,
                         hw.host.config.value, 0)}
      [] n = 6 -> {GetDescriptor(DESCRIPTOR.STRING, 255),
                   Setup(RECIPIENT.DEVICE, TYPE.STD, DIR.D2H, REQUEST.GET_STATUS, 0, 2),
                   Setup(RECIPIENT.INTERFACE, TYPE.STD, DIR.D2H, REQUEST.GET_STATUS, 0, 2),
                   Setup(RECIPIENT.INTERFACE, TYPE.CLASS, DIR.H2D, CDC_REQUEST.SET_LINE_CODING, 0, 7),
                   Setup(RECIPIENT.INTERFACE, TYPE.CLASS, DIR.H2D, CDC_REQUEST.SET_CONTROL_LINE_STATE, 3, 0),
                   Setup(RECIPIENT.DEVICE, TYPE.VENDOR, DIR.D2H, 0, 0, 1)}

\* A request reaches the device whose address it names.
HostSetup ==
    /\ hw.host.at = "ready" /\ hw.host.step \in 0..6 /\ hw.rx = <<>>
    /\ \E s \in Asks(hw.host.step) :
          hw' = [hw EXCEPT !.host.at = "waits", !.host.asked = s,
                           !.rx = IF hw.DAD = hw.host.address
                                  THEN <<[status |-> "STUPRX", ep |-> 0], [status |-> "STUPCP", ep |-> 0]>>
                                  ELSE <<>>]
    /\ UNCHANGED dev /\ Frame

asked == [type |-> hw.host.asked[2], request |-> hw.host.asked[4], value |-> hw.host.asked[5],
          length |-> hw.host.asked[7], dir |-> hw.host.asked[3]]

Reads(bytes, short) ==
    [ok |-> WellFormed(bytes) /\ short = SubSeq(bytes, 1, Len(short)), value |-> bytes[6],
     endpoints |-> Endpoints(bytes)]

\* What the host keeps of the answer, and the next request.
Learns(h) ==
    LET next == [h EXCEPT !.at = "ready", !.asked = <<>>, !.step = IF @ < 6 THEN @ + 1 ELSE @]
    IN  IF h.step = 1 THEN [next EXCEPT !.address = asked.value]
        ELSE IF h.step = 3 THEN [next EXCEPT !.short = hw.reply]
        ELSE IF h.step = 4 THEN [next EXCEPT !.short = <<>>, !.config = Reads(hw.reply, h.short)]
        ELSE next

\* The packets of the answer; those with data are acknowledged by an empty one.
HostIn ==
    /\ hw.host.at = "waits" /\ hw.inep[0].EPENA
    /\ asked.dir = DIR.D2H => hw.outep[0].EPENA
    /\ hw' = [hw EXCEPT !.inep[0].EPENA = FALSE, !.host = Learns(@), !.reply = <<>>,
                        !.outep[0].EPENA = IF asked.dir = DIR.D2H THEN FALSE ELSE @,
                        !.rx = IF asked.dir = DIR.D2H
                               THEN @ \o <<[status |-> "ORX", ep |-> 0], [status |-> "OCP", ep |-> 0]>>
                               ELSE @]
    /\ UNCHANGED dev /\ Frame

\* A request that is not answered is given up, after seconds.
HostGivesUp ==
    /\ hw.host.at = "waits" /\ hw.host.step = 6 /\ hw.rx = <<>> /\ ~hw.STUP /\ dev.at = "idle"
    /\ ~hw.inep[0].EPENA
    /\ hw' = [hw EXCEPT !.host.at = "ready", !.host.asked = <<>>] /\ UNCHANGED dev /\ Frame

\* A packet to the endpoint that the configuration names for data.
HostOut ==
    /\ hw.host.at = "ready" /\ hw.host.step = 6 /\ Len(hw.rx) < 3
    /\ \E e \in hw.host.config.endpoints :
          /\ e.dir = ENDPOINT_DIR.OUTWARD /\ hw.outep[e.num].EPENA
          /\ hw' = [hw EXCEPT !.outep[e.num].EPENA = FALSE,
                              !.rx = @ \o <<[status |-> "ORX", ep |-> e.num], [status |-> "OCP", ep |-> e.num]>>]
    /\ UNCHANGED dev /\ Frame

-------------------------------------------------------------------------------
(* usbdev_handler *)

\* The handlers by the bit of the status, from bit 1 on.
usbdev_gint_handler ==
    <<"mmis", "otgint", "sof", "rxflvl", "NULL", "ginakeff", "gonakeff", "NULL", "NULL", "esusp", "usbsusp",
      "usbrst", "enumdne", "isoodrp", "eopf", "NULL", "NULL", "iepint", "oepint", "iisoixfr", "ipxfr",
      "NULL", "NULL", "NULL", "NULL", "NULL", "NULL", "cidschg", "NULL", "srqint", "wkupint">>

\* Writing a bit of the status clears it.
Clear(s, b) == [s EXCEPT !.h.GINTSTS = @ \ {b}]

\* A suspension that is reported and not cleared.
SuspendReported(s) == s

gint_mmis(s) == Clear(s, 1)
gint_sof(s) == Clear(s, 3)
gint_esusp(s) == Clear(s, 10)
gint_usbsusp(s) == Clear(s, 11)
gint_isoodrp(s) == Clear(s, 14)
gint_eopf(s) == Clear(s, 15)
gint_iisoixfr(s) == Clear(s, 20)
gint_ipxfr(s) == Clear(s, 21)
gint_cidschg(s) == Clear(s, 28)
gint_srqint(s) == Clear(s, 30)
gint_wkupint(s) == Clear(s, 31)

\* The global NAKs are reported and nothing else.
gint_ginakeff(s) == s
gint_gonakeff(s) == s

\* All but the end of a debounce is cleared; the end of the session stops writes.
gint_otgint(s) ==
    [s EXCEPT !.h.GOTGINT = @ \cap {"DBCDNE"}, !.d.usb_ready = @ /\ "SEDET" \notin s.h.GOTGINT]

\* FIFOs that are all taken to be as deep as the first.
FifoEven(n) == [sa |-> FIFO_SIZE.RX + n * FIFO_SIZE.TX[1], fd |-> FIFO_SIZE.TX[n + 1]]

\* usbdev_reset: the FIFOs follow each other.
Fifo(n) ==
    [sa |-> FIFO_SIZE.RX + FoldLeft(LAMBDA a, b : a + b, 0, SubSeq(FIFO_SIZE.TX, 1, n)),
     fd |-> FIFO_SIZE.TX[n + 1]]

usbdev_reset(s) ==
    [s EXCEPT !.h.outep = [n \in 0..3 |-> [s.h.outep[n] EXCEPT !.SNAK = TRUE]],
              !.h.DAINTMSK = @ \cup {<<"in", 0>>, <<"out", 0>>},
              !.d.endpoints = @ \cup {0},
              !.h.GRXFSIZ = FIFO_SIZE.RX, !.h.DIEPTXF = [n \in 0..3 |-> Fifo(n)]]

gint_usbrst(s) == usbdev_reset(Clear(s, 12))

gint_enumdne(s) == [Clear(s, 13) EXCEPT !.h.inep[0].MPSIZE = 64, !.h.outep[0].MPSIZE = 64]

\* An endpoint that is not in the table is left alone.
usbdev_enable_receive(s, n) ==
    IF n \in s.d.endpoints
    THEN [s EXCEPT !.h.outep[n].EPENA = TRUE, !.h.outep[n].SNAK = FALSE]
    ELSE s

\* A packet is popped, and its endpoint stays as it is.
ReceivesOnce(s) ==
    LET r == Head(s.h.rx)
    IN  [s EXCEPT !.h.rx = Tail(@), !.h.STUP = @ \/ r.status = "STUPCP",
                  !.d.setup = IF r.status = "STUPRX"
                              THEN Packed(usbdev_setup_packet, s.h.host.asked) ELSE @]

\* A status is popped, and the endpoint receives again.
gint_rxflvl(s) ==
    LET r == Head(s.h.rx)
        t == [s EXCEPT !.h.rx = Tail(@), !.h.STUP = @ \/ r.status = "STUPCP",
                       !.d.setup = IF r.status = "STUPRX"
                                   THEN Packed(usbdev_setup_packet, s.h.host.asked) ELSE @]
    IN  usbdev_enable_receive(t, r.ep)

\* usbdev_write, on the control endpoint: what does not fit the ring at once is
\* waited for in the handler, for ever.
usbdev_write(s, bytes) ==
    LET ctl == s.d.ep[1]
    IN  IF 0 \notin s.d.endpoints \/ ctl.tx = 0 THEN [s EXCEPT !.d.dropped = TRUE]
        ELSE IF Len(bytes) >= ctl.tx THEN [s EXCEPT !.d.at = "spins"]
        ELSE [s EXCEPT !.h.reply = bytes, !.h.inep[0].EPENA = TRUE]

usbdev_status_in_packet(s) == [s EXCEPT !.h.inep[0].EPENA = TRUE, !.h.reply = <<>>]

\* cdc_set_configuration: bits are set, none is cleared; the value is not looked at.
Config(reg, type, mpsize, fifo) ==
    [reg EXCEPT !.USBAEP = TRUE, !.MPSIZE = mpsize, !.EPTYP = type, !.TXFNUM = fifo]

cdc_set_configuration(s) ==
    LET t == [s EXCEPT
                !.h.inep[ACM] = Config(@, TRANSFER.INTERRUPT, MPSIZE[ACM], ACM),
                !.h.outep[RX] = Config(@, TRANSFER.BULK, MPSIZE[RX], 0),
                !.h.inep[TX] = Config(@, TRANSFER.BULK, MPSIZE[TX], TX),
                !.h.DAINTMSK = @ \cup {<<"in", ACM>>, <<"in", TX>>, <<"out", RX>>},
                !.d.endpoints = 0..3,
                !.d.ep = [i \in 1..4 |-> IF i = 1 THEN s.d.ep[1] ELSE [s.d.ep[i] EXCEPT !.tx = s.d.buf[i]]],
                !.d.usb_ready = TRUE]
    IN  usbdev_enable_receive(t, RX)

std_setup_packet(s, request, value, length, recipient) ==
    CASE request = REQUEST.GET_DESCRIPTOR /\ value \div 256 = DESCRIPTOR.DEVICE ->
            usbdev_write(s, usb_device_descriptor)
      [] request = REQUEST.GET_DESCRIPTOR /\ value \div 256 = DESCRIPTOR.CONFIG ->
            usbdev_write(s, IF length <= sizeof(usb_configuration) THEN usbdev_configuration1_descriptor
                            ELSE usbdev_configuration1)
      [] request = REQUEST.SET_ADDRESS ->
            usbdev_status_in_packet([s EXCEPT !.h.DAD = Or(@, value)])
      [] request = REQUEST.SET_CONFIGURATION -> usbdev_status_in_packet(cdc_set_configuration(s))
      [] request = REQUEST.GET_STATUS /\ recipient = RECIPIENT.DEVICE -> usbdev_write(s, <<17>>)
      [] OTHER -> s

cdc_setup_packet(s, request) ==
    IF request \in {CDC_REQUEST.SET_CONTROL_LINE_STATE, CDC_REQUEST.SET_LINE_CODING}
    THEN usbdev_status_in_packet(s) ELSE s

\* The fields of the packet; the ring is cleared.
usbdev_setup(s) ==
    LET t == [s EXCEPT !.d.setup = <<>>]
        F(i) == Field(usbdev_setup_packet, s.d.setup, i)
    IN  CASE F(2) = TYPE.STD -> std_setup_packet(t, F(4), F(5), F(7), F(1))
          [] F(2) = TYPE.CLASS -> cdc_setup_packet(t, F(4))
          [] OTHER -> t

gint_oepint(s) == usbdev_setup([s EXCEPT !.h.STUP = FALSE])

Handle(b, s) ==
    LET h == usbdev_gint_handler[b]
    IN  CASE h = "mmis" -> gint_mmis(s)           [] h = "otgint" -> gint_otgint(s)
          [] h = "sof" -> gint_sof(s)             [] h = "rxflvl" -> gint_rxflvl(s)
          [] h = "ginakeff" -> gint_ginakeff(s)   [] h = "gonakeff" -> gint_gonakeff(s)
          [] h = "esusp" -> gint_esusp(s)         [] h = "usbsusp" -> gint_usbsusp(s)
          [] h = "usbrst" -> gint_usbrst(s)       [] h = "enumdne" -> gint_enumdne(s)
          [] h = "isoodrp" -> gint_isoodrp(s)     [] h = "eopf" -> gint_eopf(s)
          [] h = "oepint" -> gint_oepint(s)       [] h = "iisoixfr" -> gint_iisoixfr(s)
          [] h = "ipxfr" -> gint_ipxfr(s)         [] h = "cidschg" -> gint_cidschg(s)
          [] h = "srqint" -> gint_srqint(s)       [] h = "wkupint" -> gint_wkupint(s)

\* The processor is interrupted by what is unmasked; the status is read once.
usbdev_handler ==
    /\ dev.at = "idle" /\ {"NVIC", "GAHBCFG_GINTMSK"} \subseteq hw.on
    /\ Status \cap hw.GINTMSK # {}
    /\ dev' = [dev EXCEPT !.at = "loop", !.read = Status,
                          !.ints = SelectSeq([i \in 1..31 |-> i],
                                             LAMBDA b : b \in Status /\ usbdev_gint_handler[b] # "NULL")]
    /\ UNCHANGED hw /\ Frame

HandlerStep ==
    /\ dev.at = "loop"
    /\ IF dev.ints = <<>>
       THEN /\ dev' = [dev EXCEPT !.at = "idle", !.read = @ \cap hw.GINTSTS \cap hw.GINTMSK]
            /\ UNCHANGED hw
       ELSE LET s == Handle(Head(dev.ints), [d |-> [dev EXCEPT !.ints = Tail(@)], h |-> hw])
            IN  dev' = s.d /\ hw' = s.h
    /\ Frame

-------------------------------------------------------------------------------
Next ==
    \/ init_usbdev
    \/ Raise \/ FrameBegins \/ HostReset \/ HostEnumerates \/ HostBegins \/ HostLeaves
    \/ HostSetup \/ HostIn \/ HostGivesUp \/ HostOut
    \/ usbdev_handler \/ HandlerStep

Spec == Init /\ [][Next]_vars

-------------------------------------------------------------------------------
(* Properties *)

TypeOK ==
    /\ dev.step \in 1..(Len(InitOrder) + 1) /\ dev.at \in {"idle", "loop", "spins", "panic"}
    /\ dev.endpoints \subseteq 0..3 /\ dev.usb_ready \in BOOLEAN
    /\ hw.GINTSTS \subseteq 1..31 /\ hw.GINTMSK \subseteq 1..31
    /\ hw.DAD \in 0..127 /\ hw.host.step \in 0..6
    /\ hw.host.at \in {"away", "reset", "recovers", "ready", "waits"}

Configured == hw.host.at # "away" /\ hw.host.step = 6

\* The answers of the device fit what the host asked for: not longer, and if
\* shorter the last packet is a short one, which ends the answer.
AnswersFit ==
    hw.host.at = "waits" /\ hw.inep[0].EPENA /\ asked.dir = DIR.D2H =>
        /\ Len(hw.reply) <= asked.length
        /\ Len(hw.reply) = asked.length \/ Len(hw.reply) % dev.ep[1].mpsize # 0

\* The configuration that the host has read is well formed and begins with what it
\* was told first, from the other copy of the descriptor.
DescriptorsExact == hw.host.config.ok

\* When the host has set the configuration, each endpoint that the descriptors name
\* is active with that type and packet size, is in the table of the driver with a
\* buffer and its interrupt, and, for data to the host, a FIFO of its own that holds
\* a packet and lies in the memory of the core.
EndpointsExact ==
    Configured =>
        /\ dev.usb_ready
        /\ \A e \in hw.host.config.endpoints :
              LET reg == IF e.dir = ENDPOINT_DIR.INWARD THEN hw.inep[e.num] ELSE hw.outep[e.num]
                  ep == dev.ep[e.num + 1]
                  fifo == hw.DIEPTXF[reg.TXFNUM]
              IN  /\ reg.USBAEP /\ reg.EPTYP = e.type /\ reg.MPSIZE = e.mpsize
                  /\ e.num \in dev.endpoints /\ ep.num = e.num /\ ep.mpsize = e.mpsize
                  /\ IF e.dir = ENDPOINT_DIR.INWARD
                     THEN /\ ep.tx > 0 /\ <<"in", e.num>> \in hw.DAINTMSK
                          /\ 4 * fifo.fd >= e.mpsize /\ fifo.sa >= hw.GRXFSIZ /\ fifo.sa + fifo.fd <= FifoWords
                          /\ \A n \in 0..3 \ {reg.TXFNUM} :
                                LET other == hw.DIEPTXF[n]
                                IN  other.sa + other.fd <= fifo.sa \/ fifo.sa + fifo.fd <= other.sa
                     ELSE /\ ep.rx > e.mpsize /\ <<"out", e.num>> \in hw.DAINTMSK

\* The host can send: the endpoint receives, or will when the handler has taken what
\* was received.  That is the control endpoint when it has an answer, which the host
\* acknowledges, and that for data while the device is configured.
Receives(n) == hw.outep[n].EPENA \/ \E i \in DOMAIN hw.rx : hw.rx[i].ep = n
ReceivesAgain ==
    /\ hw.host.at = "waits" /\ hw.inep[0].EPENA /\ asked.dir = DIR.D2H => Receives(0)
    /\ Configured => \A e \in hw.host.config.endpoints :
                        e.dir = ENDPOINT_DIR.OUTWARD => Receives(e.num)

\* The device has the address that the host gave it.
AddressExact == hw.host.at \in {"ready", "waits"} /\ hw.host.step # 1 => hw.DAD = hw.host.address

\* A host that sees the device finds it ready: no answer is dropped because the
\* endpoint or its buffer is not there yet, and the handler never waits for itself.
ReadyWhenSeen ==
    /\ ~dev.dropped /\ dev.at # "spins"
    /\ Attached => \A p \in {11, 12} : \E r \in hw.pins : r.pin = p /\ r.afr = "OTG" /\ r.otyper = "PP"

\* An interrupt that is unmasked does not come again for what was handled.
NoStorm == dev.at = "idle" => dev.read = {}
================================================================================
