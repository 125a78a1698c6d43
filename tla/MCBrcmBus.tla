----------------------------- MODULE MCBrcmBus -----------------------------
(***************************************************************************)
(* What lies between the driver's core and a device, for one run of TLC:   *)
(* the three buses (PCIe, the two directions of SDIO, USB) and the files   *)
(* the device is started with.  A device has one bus, and its files are    *)
(* read before it runs, so the parts share no state; the part chosen in    *)
(* the initial state is the one that takes steps.                          *)
(***************************************************************************)
EXTENDS BrcmPcie, Sequences

CONSTANTS Wrap, CtlCredits, Window, GlomSize, QueueLen, QueueHigh, QueueLow,
          RxBound, TxBound, TxMinMax, IdleTime, Budget,      \* of BrcmSdio
          RxWrap, RxFrames, RxFaults, RxLeft,                \* of BrcmSdioRx
          NTxq, NRxq, ImageLen, Chunk, Align, VersionTries,
          UsbPkts, UsbCmds, UsbPower, UsbFaults,             \* of BrcmUsb
          Docs, FwRequests, BoardTypes, MaxNvram, FwFaults   \* of BrcmFirmware

VARIABLES part,
          sd, dpc, cmd, dog, sLeft,
          fifo, made, fwseq, naked, rx, call, taken, gone, faults,
          uLoad, usb, uTx, uRx, uCtl, uPm, uUsed,
          rq, np, doc

S == INSTANCE BrcmSdio WITH left <- sLeft
R == INSTANCE BrcmSdioRx
U == INSTANCE BrcmUsb WITH load <- uLoad, tx <- uTx, rx <- uRx, ctl <- uCtl, pm <- uPm,
                           used <- uUsed
N == INSTANCE BrcmFirmware

sVars == <<sd, dpc, cmd, dog, sLeft>>
rVars == <<fifo, made, fwseq, naked, rx, call, taken, gone, faults>>
uVars == <<uLoad, usb, uTx, uRx, uCtl, uPm, uUsed>>
nVars == <<rq, np, doc>>

\* One initial state of the parts that take no steps.
BusInit ==
    /\ part \in {"pcie", "sdio", "sdio_rx", "usb", "files"}
    /\ PcieInit /\ S!SdioInit /\ R!SdioRxInit /\ U!UsbInit /\ N!FwInit
    /\ part # "sdio" => ~sd.sr /\ ~sd.oob
    /\ sd.sr = sd.oob
    /\ part # "files" => rq.boards = 0 /\ rq.req = CHOOSE q \in FwRequests : TRUE

PcieStep == part = "pcie" /\ PcieNext /\ UNCHANGED <<part, sVars, rVars, uVars, nVars>>
SdioStep == part = "sdio" /\ S!SdioNext /\ UNCHANGED <<part, pcieVars, rVars, uVars, nVars>>
RxStep   == part = "sdio_rx" /\ R!SdioRxNext /\ UNCHANGED <<part, pcieVars, sVars, uVars, nVars>>
UsbStep  == part = "usb" /\ U!UsbNext /\ UNCHANGED <<part, pcieVars, sVars, rVars, nVars>>
FileStep == part = "files" /\ N!FwNext /\ UNCHANGED <<part, pcieVars, sVars, rVars, uVars>>

BusNext == PcieStep \/ SdioStep \/ RxStep \/ UsbStep \/ FileStep
BusSpec == BusInit /\ [][BusNext]_<<part, pcieVars, sVars, rVars, uVars, nVars>>

----------------------------------------------------------------------------
(***************************************************************************)
(* What SDIO sends: frames within the firmware's window, every packet      *)
(* completed once, commands told the truth about their frame, and function *)
(* 2 used only while the device is awake (brcmf_sdio_sendfromq,            *)
(* brcmf_sdio_bus_txctl, brcmf_sdio_dpc).                                  *)
(***************************************************************************)
SdioSent == part = "sdio" => S!WindowKept /\ S!PacketsOnce /\ S!FrameHonest /\ S!BusAwake

\* At rest SDIO has left nothing behind that could go on (brcmf_sdio_trigger_dpc).
SdioPrompt == part = "sdio" => S!NothingWaits

\* What SDIO receives: every frame once, its number the one expected, and
\* every refused frame sent again (brcmf_sdio_readframes, brcmf_sdio_rxfail).
SdioFrames == part = "sdio_rx" => R!FramesOnce /\ R!SeqFollows /\ R!NakAnswered

(***************************************************************************)
(* USB: the boot loader gets the whole image, a flow block is lifted, a    *)
(* running bus listens and a stopped one has its requests back, and the    *)
(* one control URB serves the command that waits (brcmf_usb_dl_writeimage, *)
(* brcmf_usb_tx_complete, brcmf_cancel_all_urbs, brcmf_usb_rx_ctlpkt).     *)
(***************************************************************************)
UsbPools == part = "usb" => U!ImageWhole /\ U!BlockEnds /\ U!Listens /\ U!CtlOwned

\* A removal of the PCIe device leaves no reset armed, no thread in freed
\* memory and nothing allocated, but as said there (brcmf_pcie_remove).
PcieRemoved == part = "pcie" => ResetDrained /\ IsrOutlived /\ PcieGivesBack

\* A device that is up hears the firmware, and both agree about D3
\* (brcmf_pcie_isr_thread, brcmf_pcie_pm_enter_D3).
PcieAgrees == part = "pcie" => NotDeaf /\ SleepAgreed

\* The NVRAM image holds what its text says for this device, and a request
\* for files is answered once and keeps what it says (brcmf_fw_nvram_strip,
\* brcmf_fw_request_done).
FilesRight == part = "files" => N!NvramRight /\ N!RequestRight

----------------------------------------------------------------------------
MCAllowed == [all |-> 5, faults |-> 1, probes |-> 1, resets |-> 1, timeouts |-> 1, sleeps |-> 2,
              removes |-> 1, doorbells |-> 1, deepsleeps |-> 1, halts |-> 1]
MCBudget == [all |-> 4, fails |-> 1, ticks |-> 2, suspends |-> 1, pkts |-> 3, cmds |-> 2,
             timeouts |-> 1, frames |-> 1]

\* No item; firmware with optional NVRAM and CLM; firmware with NVRAM.
Item(k, o) == [kind |-> k, opt |-> o]
MCRequests ==
    {<<>>, <<Item("binary", FALSE), Item("nvram", TRUE), Item("binary", TRUE)>>,
     <<Item("binary", FALSE), Item("nvram", FALSE)>>}

\* Lines of one device: empty, with spaces, comments and characters that do
\* not belong, without an assignment, and with the keys the parser knows.
Lines == {<<>>, <<"x", "eq", "x">>, <<"sp", "x", "eq", "x", "sp", "x">>,
          <<"x", "eq", "x", "hash", "x", "eq">>, <<"hash", "x", "eq", "x">>,
          <<"x", "sp", "eq", "x">>, <<"x", "bad", "eq">>, <<"x">>, <<"bad", "x", "eq">>,
          <<"raw", "eq", "x">>, <<"mac", "eq", "x">>, <<"rev", "eq", "x", "x">>}
Seconds == {<<"x", "eq", "x">>, <<"rev", "eq", "x", "x">>, <<"hash", "x", "eq", "x">>}
\* Texts of several devices, in both forms, and one that is too long.
Several == {
    <<<<"rev", "eq">>, <<"here", "eq">>>>,
    <<<<"dev", "0", "eq", "here">>, <<"0", ":", "x", "eq">>, <<"1", ":", "x", "eq", "x">>,
      <<"0", ":", "rev", "eq", "x">>>>,
    <<<<"rev", "eq", "x">>, <<"dev", "1", "eq", "there">>, <<"dev", "0", "eq", "here">>,
      <<"1", ":", "rev", "eq", "x">>, <<"0", ":", "x", "eq", "x">>>>,
    <<<<"dev", "0", "eq", "there">>, <<"0", ":", "x", "eq">>, <<"x", "eq", "x", "x">>>>,
    <<<<"here", "x", "eq", "x">>, <<"there", "rev", "eq">>, <<"x", "eq", "x">>,
      <<"here", "x", "x", "eq">>>>,
    <<<<"there", "x", "eq", "x">>, <<"here", "rev", "eq", "x">>>>,
    [i \in 1 .. 7 |-> <<"mac", "eq", "x">>]}
\* The same end for all lines, or newlines and NULs in turn; the text may lack
\* the last of them.
Ends(n, es) == {[i \in 1 .. n |-> IF i % 2 = 1 THEN e[1] ELSE e[2]] : e \in es}
Same == {<<<<"nl">>, <<"nl">>>>, <<<<"cr", "nl">>, <<"cr", "nl">>>>}
Mixed == {<<<<"nul">>, <<"nl">>>>, <<<<"nl">>, <<"nul">>>>}
Texts == {<<a, b>> : a \in Lines, b \in Seconds} \cup Several
MCDocs ==
    UNION {[lines : {t}, ends : Ends(Len(t), Same \cup Mixed), whole : {TRUE}] : t \in Texts}
    \cup UNION {[lines : {t}, ends : Ends(Len(t), Same), whole : {FALSE}] : t \in Texts}
============================================================================
