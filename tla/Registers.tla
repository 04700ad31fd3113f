------------------------------- MODULE Registers -------------------------------
(***************************************************************************)
(* The registers of the chips, as their headers name them, and changes to  *)
(* them with the helpers of include/dev/raw_mem.h.                         *)
(*                                                                         *)
(* The map says where the blocks and their registers are, and which bits   *)
(* each field has. An address is in bytes from the base of the peripherals *)
(* (STM32F4: 2^30), of the system control space (ARMv7-M) or of memory     *)
(* (AM335x). A block that a struct describes is a sequence of names of     *)
(* words, "" where one is reserved. A field is a set of bits.              *)
(*                                                                         *)
(* A task reads a register, changes some bits and writes it, while it      *)
(* holds the lock of the driver. A behaviour is about two places of the    *)
(* map that are next to each other, and have each its owner: two fields of *)
(* a register, two registers, two blocks.                                  *)
(***************************************************************************)
EXTENDS Calls, Sequences

Flags(S) == {{b} : b \in S}

Reserved(n) == [i \in 1..n |-> ""]

\* The offset of a register in a struct.
Offset(layout, name) == 4 * ((CHOOSE i \in DOMAIN layout : layout[i] = name) - 1)

-------------------------------------------------------------------------------
(* STM32F4: blocks *)

APB1PERIPH_BASE == 0
APB2PERIPH_BASE == \h10000
AHB1PERIPH_BASE == \h20000
AHB2PERIPH_BASE == \h10000000

USB_FS_BASE == AHB2PERIPH_BASE
RCC_BASE == AHB1PERIPH_BASE + \h3800
FLASH_R_BASE == AHB1PERIPH_BASE + \h3C00
DMA_BASE(n) == AHB1PERIPH_BASE + \h6000 + \h400 * (n - 1)
GPIO_BASE(port) == AHB1PERIPH_BASE + \h400 * port
PWR_BASE == APB1PERIPH_BASE + \h7000
I2C_BASE(n) == APB1PERIPH_BASE + \h5400 + \h400 * (n - 1)
SPI_BASE(port) == IF port = 1 THEN APB2PERIPH_BASE + \h3000 ELSE APB1PERIPH_BASE + \h3800 + \h400 * (port - 2)
SPI456_BASE(n) == APB2PERIPH_BASE + (CASE n = 4 -> \h3400 [] n = 5 -> \h5000 [] n = 6 -> \h5400)
USART_BASE(n) ==
    IF n \in {1, 6} THEN APB2PERIPH_BASE + (IF n = 1 THEN \h1000 ELSE \h1400)
    ELSE APB1PERIPH_BASE + (IF n \in 2..5 THEN \h4400 + \h400 * (n - 2) ELSE \h7800 + \h400 * (n - 7))

timer_get_regs(num) ==
    CASE num \in {1, 8} -> APB2PERIPH_BASE + (IF num = 1 THEN 0 ELSE \h400)
      [] num \in 9..11 -> APB2PERIPH_BASE + \h4000 + \h400 * (num - 9)
      [] num \in 2..7 -> APB1PERIPH_BASE + \h400 * (num - 2)
      [] num \in 12..14 -> APB1PERIPH_BASE + \h1800 + \h400 * (num - 12)

-------------------------------------------------------------------------------
(* STM32F4: registers of a block *)

stm32f4_rcc_regs ==
    <<"CR", "PLLCFGR", "CFGR", "CIR", "AHB1RSTR", "AHB2RSTR", "AHB3RSTR", "", "APB1RSTR", "APB2RSTR", "", "",
      "AHB1ENR", "AHB2ENR", "AHB3ENR", "", "APB1ENR", "APB2ENR", "", "",
      "AHB1LPENR", "AHB2LPENR", "AHB3LPENR", "", "APB1LPENR", "APB2LPENR", "", "",
      "BDCR", "CSR", "", "", "SSCGR", "PLLI2SCFG">>

\* The same by a macro each.
RCC ==
    [CR |-> 0, PLLCFGR |-> 4, CFGR |-> 8, CIR |-> \hC, AHB1RSTR |-> \h10, AHB1ENR |-> \h30, AHB2ENR |-> \h34,
     AHB3ENR |-> \h38, APB1ENR |-> \h40, APB2ENR |-> \h44]

stm32f4_dma_stream_regs == <<"CR", "NDTR", "PAR", "M0AR", "M1AR", "FCR">>
stm32f4_dma_regs == <<"LISR", "HISR", "LIFCR", "HIFCR">>
StreamBase(n) == 4 * (Len(stm32f4_dma_regs) + n * Len(stm32f4_dma_stream_regs))

DMA == [LISR |-> 0, HISR |-> 4, LIFCR |-> 8, HIFCR |-> \hC]
DMA_S(n) ==
    [CR |-> \h10 + \h18 * n, NDTR |-> \h14 + \h18 * n, PAR |-> \h18 + \h18 * n, M0AR |-> \h1C + \h18 * n,
     M1AR |-> \h20 + \h18 * n, FCR |-> \h24 + \h18 * n]

stm32f4_timer_regs ==
    <<"CR1", "CR2", "SMCR", "DIER", "SR", "EGR", "CCMR1", "CCMR2", "CCER", "CNT", "PSC", "ARR", "RCR",
      "CCR1", "CCR2", "CCR3", "CCR4", "BDTR", "DCR", "DMAR", "OR">>
stm32f4_spi_regs == <<"CR1", "CR2", "SR", "DR", "CRCPR", "RXCRCR", "TXCRCR", "I2SCFGR", "I2SPR">>
stm32f4_i2c_regs == <<"CR1", "CR2", "OAR1", "OAR2", "DR", "SR1", "SR2", "CCR", "TRISE", "FLTR">>
stm32f4_usart_regs == <<"SR", "DR", "BRR", "CR1", "CR2", "CR3", "GTPR">>

\* One converter, with the reserved bytes after it.
stm32f4_adc_individual_regs ==
    <<"SR", "CR1", "CR2", "SMPR1", "SMPR2", "JOFR1", "JOFR2", "JOFR3", "JOFR4", "HTR", "LTR", "SQR1", "SQR2", "SQR3",
      "JSQR", "JDR1", "JDR2", "JDR3", "JDR4", "DR">> \o Reserved(\h50 \div 4)
stm32f4_adc_common_regs == <<"CSR", "CCR", "CDR">>
stm32f4_adc_regs ==
    stm32f4_adc_individual_regs \o stm32f4_adc_individual_regs \o stm32f4_adc_individual_regs \o stm32f4_adc_common_regs

GPIO ==
    [MODER |-> 0, OTYPER |-> 4, OSPEEDR |-> 8, PUPDR |-> \hC, IDR |-> \h10, ODR |-> \h14, BSRR |-> \h18, LCKR |-> \h1C,
     AFRL |-> \h20, AFRH |-> \h24]

USB_FS ==
    [GOTGCTL |-> 0, GOTGINT |-> 4, GAHBCFG |-> 8, GUSBCFG |-> \hC, GRSTCTL |-> \h10, GINTSTS |-> \h14, GINTMSK |-> \h18,
     GRXSTSR |-> \h1C, GRXSTSP |-> \h20, GRXFSIZ |-> \h24, DIEPTXF0 |-> \h28, HNPTXSTS |-> \h2C, GCCFG |-> \h38,
     CID |-> \h3C, HPTXFSIZ |-> \h100, DIEPTXF1 |-> \h104, DIEPTXF2 |-> \h108, DIEPTXF3 |-> \h10C,
     DCFG |-> \h800, DCTL |-> \h804, DSTS |-> \h808, DIEPMSK |-> \h810, DOEPMSK |-> \h814, DAINT |-> \h818,
     DAINTMSK |-> \h81C, DVBUSDIS |-> \h828, DVBUSPULSE |-> \h82C, DIEPEMPMSK |-> \h834, PCGCR |-> \hE00]
\* Those of endpoint n; endpoint 0 has the names DIEPCTL0 and so on too.
USB_FS_EP(n) ==
    [DIEPCTL |-> \h900 + n * \h20, DIEPINT |-> \h908 + n * \h20, DIEPTSIZ |-> \h910 + n * \h20,
     DTXFSTS |-> \h918 + n * \h20, DOEPCTL |-> \hB00 + n * \h20, DOEPINT |-> \hB08 + n * \h20,
     DOEPTSIZ |-> \hB10 + n * \h20, DFIFO_EP |-> \h1000 + n * \h1000]
USB_FS_EP0 == [DIEPCTL |-> \h900, DIEPTSIZ |-> \h910, DOEPCTL |-> \hB00, DOEPTSIZ |-> \hB10]

-------------------------------------------------------------------------------
(* STM32F4: fields *)

USB_FS_core ==
    [GOTGCTL |-> Flags((8..11) \cup (16..19) \cup {0, 1}), GOTGINT |-> Flags((17..19) \cup {2, 8, 9}),
     GAHBCFG |-> Flags({0, 7, 8}), GUSBCFG |-> Flags((7..9) \cup (29..31)) \cup {0..2, 10..13},
     GRSTCTL |-> Flags((0..2) \cup {4, 5, 31}) \cup {6..10},
     GINTSTS |-> Flags((0..7) \cup (10..15) \cup (18..21) \cup (24..26) \cup (28..31)),
     GINTMSK |-> Flags((1..7) \cup (10..15) \cup (17..21) \cup (24..26) \cup (28..31)),
     GRXSTS |-> {0..3, 4..14, 15..16, 17..20, 21..24}, DIEPTXF0 |-> {0..15, 16..31},
     GCCFG |-> Flags((18..21) \cup {16}), DIEPTXF |-> {0..15, 16..31}]

USB_FS_device ==
    [DCFG |-> Flags({2}) \cup {0..1, 4..10, 11..12}, DCTL |-> Flags((0..3) \cup (7..11)) \cup {4..6},
     DSTS |-> Flags({0, 3}) \cup {1..2, 8..21}, DIEPMSK |-> Flags((3..6) \cup {0, 1}),
     DOEPMSK |-> Flags({0, 1, 3, 4})]

USB_FS_endpoint ==
    [DIEPCTL0 |-> Flags({15, 17, 21, 26, 27, 30, 31}) \cup {0..1, 22..25},
     DIEPCTLx |-> Flags((15..17) \cup (26..31) \cup {21}) \cup {0..10, 18..19, 22..25},
     DOEPCTL0 |-> Flags({15, 17, 20, 21, 26, 27, 30, 31}) \cup {0..1},
     DOEPCTLx |-> Flags((15..17) \cup (26..31) \cup {20, 21}) \cup {0..10, 18..19},
     DIEPINTx |-> Flags({0, 1, 3, 4, 6, 7}), DOEPINTx |-> Flags({0, 1, 3, 4, 6}), DIEPTSIZ0 |-> {0..6, 19..20},
     DIEPTSIZx |-> {0..18, 19..28, 29..30}, DOEPTSIZ0 |-> Flags({19}) \cup {0..6, 29..30},
     DOEPTSIZx |-> {0..18, 19..28, 29..30}, PCGCCTL |-> Flags({0, 1, 4})]

RCC_clock ==
    [CR |-> Flags((16..19) \cup (24..27) \cup {0, 1}) \cup {3..7, 8..15}, PLLCFGR |-> Flags({22}),
     CFGR |-> {0..1, 2..3, 4..7, 10..12, 13..15, 16..20}]

RCC_RSTR ==
    [AHB1RSTR |-> Flags((0..8) \cup {12, 21, 22, 25, 29}), AHB2RSTR |-> Flags((4..7) \cup {0}),
     AHB3RSTR |-> Flags({0}), APB1RSTR |-> Flags((0..8) \cup (17..23) \cup {11, 14, 15, 25, 26, 28, 29}),
     APB2RSTR |-> Flags((16..18) \cup {0, 1, 4, 5, 8, 11, 12, 14})]

RCC_ENR ==
    [AHB1ENR |-> Flags((0..8) \cup (20..22) \cup (25..30) \cup {12, 18}), AHB2ENR |-> Flags((4..7) \cup {0}),
     AHB3ENR |-> Flags({0}), APB1ENR |-> Flags((0..8) \cup (17..23) \cup {11, 14, 15, 25, 26, 28, 29}),
     APB2ENR |-> Flags((8..14) \cup (16..18) \cup {0, 1, 4, 5, 20, 21})]

\* The flags of stream 0 to 3 of LISR, 4 to 7 of HISR; LIFCR and HIFCR have the same.
DMA_ISR == Flags({s + b : s \in {0, 6, 16, 22}, b \in {0, 2, 3, 4, 5}})

DMA_SxCR ==
    Flags((0..5) \cup (8..10) \cup {15, 18, 19}) \cup
    {6..7, 11..12, 13..14, 16..17, 21..22, 23..24, 25..27}
DMA_SxFCR == Flags({2, 7}) \cup {0..1, 3..5}
TIM_control ==
    [CR1 |-> Flags((0..4) \cup {7}) \cup {5..6, 8..9}, CR2 |-> Flags({3, 7}) \cup {4..6},
     SMCR |-> Flags({7, 14, 15}) \cup {0..2, 4..6, 8..11, 12..13}, DIER |-> Flags((0..4) \cup (8..12) \cup {6, 14}),
     EGR |-> Flags(0..7)]

TIM_channels ==
    [CCMR1 |-> Flags({2, 3, 7, 10, 11, 15}) \cup {0..1, 4..6, 8..9, 12..14},
     CCMR2 |-> Flags({2, 3, 7, 10, 11, 15}) \cup {0..1, 4..6, 8..9, 12..14}, CCER |-> Flags(0..15),
     BDTR |-> Flags(10..15) \cup {0..7, 8..9}]

SPI ==
    [CR1 |-> Flags((0..2) \cup (6..9) \cup (11..15)) \cup {3..5}, CR2 |-> Flags((0..2) \cup (4..7)),
     SR |-> Flags(0..8), I2SCFGR |-> Flags({0, 3, 7, 10, 11}) \cup {1..2, 4..5, 8..9},
     I2SPR |-> Flags({8, 9}) \cup {0..7}]

I2C ==
    [CR1 |-> Flags((3..13) \cup {0, 1, 15}), CR2 |-> Flags(8..12) \cup {0..5}, OAR1 |-> Flags({15}) \cup {0..9},
     OAR2 |-> Flags({0}) \cup {1..7}, SR1 |-> Flags((0..4) \cup (6..12) \cup {14, 15}),
     SR2 |-> Flags((0..2) \cup (4..7)) \cup {8..15}, CCR |-> Flags({14, 15}) \cup {0..11}]

USART ==
    [SR |-> Flags(0..9), CR1 |-> Flags((0..13) \cup {15}),
     CR2 |-> Flags((8..11) \cup {5, 6, 14}) \cup {0..3, 12..13}, CR3 |-> Flags(4..11)]

ADC_control ==
    [SR |-> Flags(0..5), CR1 |-> Flags((5..12) \cup {22, 23, 26}) \cup {0..4, 13..15, 24..25},
     CR2 |-> Flags((8..11) \cup {0, 1, 22, 30}) \cup {16..19, 20..21, 24..27, 28..29}]

Bits(first, width) == first..(first + width - 1)

\* The sample time of a channel, and the place of a conversion in the sequence.
ADC_SMP(n) == Bits(3 * (IF n >= 10 THEN n - 10 ELSE n), 3)
ADC_SQ(n) == Bits(5 * (n - (CASE n \in 1..6 -> 1 [] n \in 7..12 -> 7 [] n \in 13..16 -> 13)), 5)
ADC_SQR1_LEN == 20..23

ADC_channels ==
    [SMPR1 |-> {ADC_SMP(n) : n \in 10..18}, SMPR2 |-> {ADC_SMP(n) : n \in 0..9},
     SQR1 |-> {ADC_SQ(n) : n \in 13..16} \cup {ADC_SQR1_LEN}, SQR2 |-> {ADC_SQ(n) : n \in 7..12},
     SQR3 |-> {ADC_SQ(n) : n \in 1..6}]

FLASH_PWR == [ACR |-> Flags(8..12) \cup {0..2}, CR |-> {{14}}]

\* The fields of a pin.
GPIO_pin(n) ==
    [MODER |-> Bits(2 * n, 2), OTYPER |-> {n}, OSPEEDR |-> Bits(2 * n, 2), PUPDR |-> Bits(2 * n, 2),
     AFR |-> Bits(4 * (IF n < 8 THEN n ELSE n - 8), 4)]

\* BSRR has two bits for a pin, ODR has one.
GPIO_outputs == [BSRR |-> Flags({n : n \in 0..15} \cup {n + 16 : n \in 0..15}), ODR |-> Flags(0..15)]

-------------------------------------------------------------------------------
(* ARMv7-M: the system control space *)

SYSTICK_BASE == \h10
NVIC_BASE == \h100
SCB_BASE == \hD00
MPU_BASE == SCB_BASE + \h90
FPU_BASE == SCB_BASE + \h230

\* NVIC_IPR(n) is a byte: the word is that of four interrupts.
SCS ==
    [SYSTICK_CTL |-> SYSTICK_BASE, SYSTICK_RELOAD |-> SYSTICK_BASE + 4, SYSTICK_VAL |-> SYSTICK_BASE + 8,
     SYSTICK_CAL |-> SYSTICK_BASE + \hC,
     NVIC_ISER0 |-> NVIC_BASE, NVIC_ISER1 |-> NVIC_BASE + 4, NVIC_ISER2 |-> NVIC_BASE + 8, NVIC_ISER3 |-> NVIC_BASE + \hC,
     NVIC_ICER0 |-> NVIC_BASE + \h80, NVIC_ICER1 |-> NVIC_BASE + \h84, NVIC_ICER2 |-> NVIC_BASE + \h88,
     NVIC_ISPR0 |-> NVIC_BASE + \h100, NVIC_ICPR0 |-> NVIC_BASE + \h180, NVIC_ICPR1 |-> NVIC_BASE + \h184,
     NVIC_ICPR2 |-> NVIC_BASE + \h188, NVIC_IPR0 |-> NVIC_BASE + \h300, NVIC_IPR92 |-> NVIC_BASE + \h300 + 92,
     SCB_ICSR |-> SCB_BASE + 4, SCB_VTOR |-> SCB_BASE + 8, SCB_SCR |-> SCB_BASE + \h10, SCB_SHCSR |-> SCB_BASE + \h24,
     SCB_CFSR |-> SCB_BASE + \h28, SCB_HFSR |-> SCB_BASE + \h2C, SCB_MMFAR |-> SCB_BASE + \h34,
     SCB_BFAR |-> SCB_BASE + \h38, SCB_CPACR |-> SCB_BASE + \h88,
     MPU_TYPER |-> MPU_BASE, MPU_CTRL |-> MPU_BASE + 4, MPU_RNR |-> MPU_BASE + 8, MPU_RBAR |-> MPU_BASE + \hC,
     MPU_RASR |-> MPU_BASE + \h10, FPU_CCR |-> FPU_BASE + 4, FPU_CAR |-> FPU_BASE + 8]

SCB ==
    [ICSR |-> Flags({27, 28}), SCR |-> Flags({1, 2, 4}), SHCSR |-> Flags(16..18), HFSR |-> Flags({1, 30}),
     MMFSR |-> Flags((3..5) \cup {0, 1, 7}), BFSR |-> Flags((0..5) \cup {7}), UFSR |-> Flags((0..3) \cup {8, 9}),
     CPACR |-> {20..21, 22..23}]

MPU ==
    [CTRL |-> Flags(0..2), RASR |-> Flags({0, 28}) \cup {1..5, 16..18, 24..26}]

-------------------------------------------------------------------------------
(* AM335x *)

am335x_dmtimer ==
    <<"tidr">> \o Reserved(3) \o <<"tiocp_cfg">> \o Reserved(3) \o
    <<"irq_eqi", "irqstatus_raw", "irqstatus", "irqenable_set", "irqenable_clear", "irqwakeen", "tclr", "tcrr", "tldr",
      "ttgr", "twps", "tmar", "tcar1", "tsicr", "tcar2">>

am335x_dmtimer_1ms ==
    <<"tidr">> \o Reserved(3) \o
    <<"tiocp_cfg", "tistat", "tisr", "tier", "twer", "tclr", "tcrr", "tldr", "ttgr", "twps", "tmar", "tcar1", "tsicr",
      "tcar2", "tpir", "tnir", "tcvr", "tocr", "towr">>

AM335X_DMTIMER ==
    [TISR |-> Flags(0..2), TIER |-> Flags(0..2),
     TCLR |-> Flags({0, 1, 5, 6, 7, 12, 13}) \cup {2..4, 8..9, 10..11}]

\* The words of the clock modules: 61 for the peripherals, 54 for wakeup and the
\* PLLs, and so on.
am335x_clock_cmper_words == 61
am335x_clock_cmwkup_words == 54
am335x_clock_words ==
    [cmdpll |-> 15, cmmpu |-> 2, cmdevice |-> 1, cmrtc |-> 2, cmgfx |-> 6, cmcefuse |-> 13, prmirq |-> 5]

CM == [CLKCTRL |-> {0..1, 16..17}, CLKSEL_DPLL |-> {8..15, 0..6}, CLKMODE |-> {0..2}, IDLEST |-> {{0}, {8}}]

AM335X_IRQ == (66..69) \cup (92..95)

am335x_intc_bank == <<"itr", "mir", "mir_clear", "mir_set", "isr_set", "isr_clear", "pending_irq", "pending_fiq">>
am335x_intc ==
    <<"revision">> \o Reserved(3) \o <<"sysconfig", "sysstatus">> \o Reserved(10) \o
    <<"sir_irq", "sir_fiq", "control", "protection", "idle">> \o Reserved(3) \o
    <<"irq_priority", "fiq_priority", "threshold">> \o Reserved(5)
\* Three banks of 32 interrupts, then a word for each of 128.
bank(n) == 4 * (Len(am335x_intc) + n * Len(am335x_intc_bank))
ilr(n) == bank(3) + 4 * n

AM335X_INTC == [CONTROL |-> {{0}, {1}}, ILR |-> {{0}, 2..7}]

\* Where the blocks of a bus start, in the order of the header, from the base of the
\* bus; the external memory, at 2^31, is left out.
AM335X_L3 ==
    <<0, \h40000000, \h402F0400, \h40300000, \h44000000, \h44800000, \h44C00000, \h46000000, \h46400000, \h47400000,
      \h47401000, \h47401300, \h47401400, \h47401800, \h47401B00, \h47401C00, \h47402000, \h47403000, \h47810000,
      \h48000000, \h49000000, \h49800000, \h49900000, \h49A00000, \h4A000000, \h4B000000, \h4C000000, \h50000000,
      \h54C00000, \h56000000>>

AM335X_L4_WKUP ==
    <<0, \h200000, \h200400, \h200500, \h200600, \h200700, \h200800, \h200900, \h200A00, \h200B00, \h200C00,
      \h200D00, \h200E00, \h200F00, \h201000, \h201100, \h201200, \h205000, \h207000, \h209000, \h20B000, \h20D000,
      \h210000, \h212000, \h231000, \h235000, \h237000, \h239000, \h23E000, \h240000>>

AM335X_L4_PER ==
    <<\h22000, \h24000, \h2A000, \h30000, \h38000, \h3C000, \h40000, \h42000, \h44000, \h46000, \h48000, \h4C000,
      \h60000, \h80000, \hC8000, \hCA000, \h18C000, \h19C000, \h1A0000, \h1A6000, \h1A8000, \h1AA000, \h1AC000,
      \h1AE000, \h1CC000, \h1D0000, \h1D8000, \h200000, \h240000, \h300000, \h300100, \h300180, \h300200, \h302000,
      \h302100, \h302180, \h302200, \h304000, \h304100, \h304180, \h304200, \h30E000>>

AM335X_L4_FAST ==
    <<0, \h100000, \h100100, \h100800, \h100900, \h100A00, \h100C00, \h100D00, \h100D80, \h100DC0, \h101000,
      \h101200, \h102000, \h300000>>

-------------------------------------------------------------------------------
(* All of them *)

Block(name, base, words) == [name |-> name, base |-> base, words |-> words]

\* The blocks of each address space.  The converters are where the device tree says.
STM32F4_blocks ==
    {Block(<<"USB", r>>, USB_FS_BASE + USB_FS[r], 1) : r \in DOMAIN USB_FS} \cup
    UNION {{Block(<<"USB", n, r>>, USB_FS_BASE + USB_FS_EP(n)[r], 1) : r \in DOMAIN USB_FS_EP(n)} : n \in 0..3} \cup
    {Block(<<"GPIO", p>>, GPIO_BASE(p), Cardinality(DOMAIN GPIO)) : p \in 0..8} \cup
    {Block(<<"RCC">>, RCC_BASE, Len(stm32f4_rcc_regs)), Block(<<"FLASH">>, FLASH_R_BASE, 1),
     Block(<<"PWR">>, PWR_BASE, 2), Block(<<"ADC">>, APB2PERIPH_BASE + \h2000, Len(stm32f4_adc_regs))} \cup
    {Block(<<"DMA", n>>, DMA_BASE(n), StreamBase(8) \div 4) : n \in 1..2} \cup
    {Block(<<"I2C", n>>, I2C_BASE(n), Len(stm32f4_i2c_regs)) : n \in 1..3} \cup
    {Block(<<"SPI", n>>, SPI_BASE(n), Len(stm32f4_spi_regs)) : n \in 1..3} \cup
    {Block(<<"SPI", n>>, SPI456_BASE(n), Len(stm32f4_spi_regs)) : n \in 4..6} \cup
    {Block(<<"USART", n>>, USART_BASE(n), Len(stm32f4_usart_regs)) : n \in 1..8} \cup
    {Block(<<"TIM", n>>, timer_get_regs(n), Len(stm32f4_timer_regs)) : n \in 1..14}

SCS_blocks == {Block(<<r>>, SCS[r], 1) : r \in DOMAIN SCS}

AM335X_blocks(bases, words) ==
    {Block(<<i>>, bases[i], IF i \in DOMAIN words THEN words[i] ELSE 1) : i \in DOMAIN bases}

\* The sizes of the clock modules, which are 2 to 10 of their bus, and of the timer.
AM335X_WKUP_words ==
    LET w == am335x_clock_words
        modules == <<am335x_clock_cmper_words, am335x_clock_cmwkup_words, w.cmdpll, w.cmmpu, w.cmdevice, w.cmrtc, w.cmgfx,
                     w.cmcefuse, w.prmirq>>
        timers == {18, 25}
    IN  [i \in (2..10) \cup timers |->
            IF i = 18 THEN Len(am335x_dmtimer) ELSE IF i = 25 THEN Len(am335x_dmtimer_1ms) ELSE modules[i - 1]]

\* Five timers, and the controller of the interrupts.
AM335X_PER_words == [i \in (7..11) \cup {28} |-> IF i = 28 THEN ilr(128) \div 4 ELSE Len(am335x_dmtimer)]

Spaces ==
    {STM32F4_blocks, SCS_blocks, AM335X_blocks(AM335X_L3, <<>>), AM335X_blocks(AM335X_L4_WKUP, AM335X_WKUP_words),
     AM335X_blocks(AM335X_L4_PER, AM335X_PER_words), AM335X_blocks(AM335X_L4_FAST, <<>>)}

GPIO_fields ==
    [r \in {"MODER", "OTYPER", "OSPEEDR", "PUPDR"} |-> {GPIO_pin(n)[r] : n \in 0..15}]
GPIO_AFR == [AFRL |-> {GPIO_pin(n).AFR : n \in 0..7}, AFRH |-> {GPIO_pin(n).AFR : n \in 8..15}]
DMA_fields == [LISR |-> DMA_ISR, SxCR |-> DMA_SxCR, SxFCR |-> DMA_SxFCR]

Tables ==
    <<USB_FS_core, USB_FS_device, USB_FS_endpoint, RCC_clock, RCC_RSTR, RCC_ENR, DMA_fields, TIM_control, TIM_channels,
      SPI, I2C, USART, ADC_control, ADC_channels, FLASH_PWR, GPIO_fields, GPIO_AFR, GPIO_outputs, SCB, MPU,
      AM335X_DMTIMER, CM, AM335X_INTC>>

\* What has two names: a macro and a place in a struct, or the names of endpoint 0.
Names ==
    {{RCC[r], Offset(stm32f4_rcc_regs, r)} : r \in DOMAIN RCC} \cup
    {{DMA[r], Offset(stm32f4_dma_regs, r)} : r \in DOMAIN DMA} \cup
    UNION {{{DMA_S(n)[r], StreamBase(n) + Offset(stm32f4_dma_stream_regs, r)} : r \in DOMAIN DMA_S(n)} : n \in 0..7} \cup
    {{USB_FS_EP(0)[r], USB_FS_EP0[r]} : r \in DOMAIN USB_FS_EP0}

-------------------------------------------------------------------------------
(* Changes *)

\* A place: the addresses that the code has for it, its bits, the ones that set_mask
\* clears, the values that it is given.
Place(names, mask) == [names |-> names, mask |-> mask, clear |-> mask, values |-> {{}, mask}]

\* A field of a register, and all its other fields.
FieldPairs ==
    UNION {UNION {{<<Place({0}, f), Place({0}, UNION (Tables[i][r] \ {f}))>> : f \in Tables[i][r]}
                  : r \in DOMAIN Tables[i]} : i \in DOMAIN Tables}

\* A register with two names, and the ones that are next to it.
NamePairs ==
    UNION {{<<Place(a, {0}), Place({y}, {0})>> : y \in {x + d : x \in a, d \in {-4, 4}} \ a} : a \in Names}

\* The start of a block, and what is nearest to it of the block before.
Nearest(a, b) == IF a <= b.base + 4 * (b.words - 1) THEN a ELSE b.base + 4 * (b.words - 1)
BlockPairs ==
    UNION {{<<Place({Nearest(c.base, b)}, {0}), Place({c.base}, {0})>> :
              <<b, c>> \in {d \in space \X space :
                  /\ d[1] # d[2] /\ d[1].base <= d[2].base
                  /\ ~\E e \in space : e \notin {d[1], d[2]} /\ d[1].base <= e.base /\ e.base < d[2].base}} :
           space \in Spaces}

\* The mask of an interrupt in its bank, and the word of the same or another.
InterruptPairs ==
    {<<Place({bank(n \div 32) + Offset(am335x_intc_bank, "mir")}, {n % 32}), Place({ilr(m)}, 0..7)>> :
        n \in AM335X_IRQ, m \in AM335X_IRQ \cup {0}}

\* Values with more bits than the mask: the frequency of I2C, 42, and the factor of
\* a PLL, 1000 from bit 8.  Each is always written as the same value.
Wide(mask, clear, value) == [names |-> {0}, mask |-> mask, clear |-> clear, values |-> {value}]
WidePairs ==
    {<<Wide(0..5, 0..4, {1, 3, 5}), Place({0}, 8..12)>>, <<Wide(8..18, 8..15, {11, 13, 14, 15, 16, 17}), Place({0}, 0..6)>>}

-------------------------------------------------------------------------------
NoPlace == [place |-> 0, addr |-> 0, val |-> {}]

\* want is history: what the owner of each place has made it.
Init ==
    /\ \E p \in FieldPairs \cup NamePairs \cup BlockPairs \cup InterruptPairs \cup WidePairs :
          dev = [place |-> p, want |-> <<{}, {}>>]
    /\ hw = [a \in dev.place[1].names \cup dev.place[2].names |-> {}]
    /\ lock = [m \in {"regs"} |-> Nobody]
    /\ pc = [t \in Tasks |-> "idle"]
    /\ loc = [t \in Tasks |-> NoPlace]

raw_mem_set_bits(val, bits) == val \cup bits
raw_mem_clear_bits(val, bits) == val \ bits

\* Only sets bits.
MaskKept(val, mask, bits) == val \cup bits

raw_mem_set_mask(val, mask, bits) == (val \ mask) \cup bits

raw_mem_read(t) ==
    /\ Step(t, "idle", "modify")
    /\ acquire(t, "regs")
    /\ \E i \in 1..2 : \E a \in dev.place[i].names : Set(t, [place |-> i, addr |-> a, val |-> hw[a]])
    /\ UNCHANGED <<dev, hw>>

raw_mem_write(t) ==
    /\ Step(t, "modify", "idle")
    /\ LET i == loc[t].place
           p == dev.place[i]
           Store(val, want) == hw' = [hw EXCEPT ![loc[t].addr] = val] /\ dev' = [dev EXCEPT !.want[i] = want]
       IN  \E v \in p.values :
               \/ Store(raw_mem_set_mask(loc[t].val, p.clear, v), v)
               \/ Store(raw_mem_set_bits(loc[t].val, v), dev.want[i] \cup v)
               \/ p.clear = p.mask /\ Store(raw_mem_clear_bits(loc[t].val, v), dev.want[i] \ v)
    /\ release("regs")
    /\ Set(t, NoPlace)

Work(t) == raw_mem_write(t)

Next == \E t \in Tasks : raw_mem_read(t) \/ raw_mem_write(t)

Spec == Init /\ [][Next]_vars

-------------------------------------------------------------------------------
(* Properties *)

TypeOK ==
    /\ \A a \in DOMAIN hw : hw[a] \subseteq 0..31
    /\ lock \in [{"regs"} -> Holders]
    /\ pc \in [Tasks -> {"idle", "modify"}]
    /\ \A t \in Tasks : (pc[t] = "idle") = (loc[t] = NoPlace)

\* A place has the value that its owner gave it, by whichever of its names it is
\* read, whatever is done to the place next to it; and no bit is set that belongs
\* to neither.
FieldsKept ==
    Free("regs") =>
        /\ \A i \in 1..2 : \A a \in dev.place[i].names : hw[a] \cap dev.place[i].mask = dev.want[i]
        /\ \A a \in DOMAIN hw : hw[a] \subseteq dev.place[1].mask \cup dev.place[2].mask
================================================================================
