----------------------------- MODULE SerialLink -----------------------------
(***************************************************************************)
(* The serial boot protocol end to end: bootFromSerial, the line, image.py *)
(* and the person who runs it, interrupts it, runs it again, or types at   *)
(* the console in between.                                                 *)
(*                                                                         *)
(* The line keeps order.  A byte that finds the receive FIFO full is lost  *)
(* (uart_getc clears the overrun flag, so nobody hears of it).             *)
(***************************************************************************)
EXTENDS Integers, Sequences

CONSTANTS
    ByteBase, SYN, ExitBytes, CHUNK_SIZE,
    KERNEL_LOAD_ADDR, DTB_LOAD_ADDR, MEMORY_END, MAX_DTB_SIZE,
    PowerOn, StackBytes, DtbMagic, Trees, SyncPolls, RxDepth, TxDepth, MaxUpdated,
    Kernels, Dtbs,     \* the files the host may have
    Overruns,          \* whether the device may be too slow for its FIFO
    Prompt,            \* whether its delays, and a person's, are long enough
    Keys,              \* bytes a person types
    MaxRuns,           \* bound: times image.py is run
    MaxInterrupts,     \* bound: times it is interrupted
    MaxTyped           \* bound: keys typed at the console

VARIABLES
    pc, ret, c, t, kernel_size, dtb_size, ptr, remaining, i, mem, rx, tx,
    step, waiting, sent, kernel, dtb, wire,
    runs, interrupts, typed

Device == INSTANCE SerialDevice
Host == INSTANCE SerialHost WITH back <- tx, Settled <- Prompt

ASSUME LinkAssumption ==
    /\ ByteBase \in Nat \ {0} /\ CHUNK_SIZE \in Nat \ {0}
    /\ {MAX_DTB_SIZE, SyncPolls, MaxUpdated} \subseteq Nat
    /\ RxDepth \in Nat \ {0} /\ TxDepth \in Nat \ {0, 1}
    /\ SYN \in Device!Byte
    /\ PowerOn \subseteq Device!Byte /\ StackBytes \subseteq Device!Byte
    /\ ExitBytes \subseteq Device!Byte /\ SYN \notin ExitBytes
    /\ {KERNEL_LOAD_ADDR, DTB_LOAD_ADDR, MEMORY_END} \subseteq Device!Addr
    /\ \E n \in 0 .. MEMORY_END :
          /\ DtbMagic \in [0 .. (n - 1) -> Device!Byte]
          /\ DTB_LOAD_ADDR + n <= MEMORY_END
    /\ Kernels \union Dtbs \subseteq Seq(Device!Byte) /\ Keys \subseteq Device!Byte
    /\ \A f \in Kernels \union Dtbs : Len(f) < Device!AddrSpace

device == <<pc, ret, c, t, kernel_size, dtb_size, ptr, remaining, i, mem>>
host == <<step, waiting, sent, kernel, dtb>>
person == <<runs, interrupts, typed>>
vars == <<device, rx, tx, host, wire, person>>

TypeOK ==
    /\ Device!TypeOK /\ Host!TypeOK
    /\ runs \in 0 .. MaxRuns
    /\ interrupts \in 0 .. MaxInterrupts /\ typed \in 0 .. MaxTyped

Init ==
    /\ Device!Init /\ Host!Init
    /\ kernel \in Kernels /\ dtb \in Dtbs
    /\ runs = 0 /\ interrupts = 0 /\ typed = 0

DeviceRuns ==
    /\ Device!BootFromSerial
    /\ UNCHANGED <<host, wire, person>>

DeviceEnters ==
    /\ Device!Enter
    /\ UNCHANGED <<host, wire, person>>

OtherReader ==
    /\ Device!OtherReader
    /\ UNCHANGED <<host, wire, person>>

(* The next byte reaches the UART. *)
Deliver ==
    /\ wire # <<>> /\ Len(rx) < RxDepth
    /\ rx' = Append(rx, Head(wire)) /\ wire' = Tail(wire)
    /\ UNCHANGED <<device, tx, host, person>>

Overrun ==
    /\ Overruns
    /\ wire # <<>> /\ Len(rx) = RxDepth
    /\ wire' = Tail(wire)
    /\ UNCHANGED <<device, rx, tx, host, person>>

(* With nobody at the port, what the device sends is gone. *)
Unheard ==
    /\ step = "closed" /\ tx # <<>>
    /\ tx' = <<>>
    /\ UNCHANGED <<device, rx, host, wire, person>>

(* Nothing is under way that could still become an answer. *)
Quiet == wire = <<>> /\ tx = <<>> /\ (rx = <<>> \/ pc = "linux")

HostOpens ==
    /\ Prompt /\ runs > 0 => Quiet
    /\ runs < MaxRuns /\ runs' = runs + 1
    /\ Host!Open
    /\ UNCHANGED <<device, rx, interrupts, typed>>

HostRuns ==
    /\ Host!SendSyn \/ Host!SendSize \/ Host!SendChunk
       \/ Host!AckArrives \/ Host!OtherArrives \/ Host!Monitor
    /\ UNCHANGED <<device, rx, person>>

HostTimesOut ==
    /\ Prompt => Quiet
    /\ Host!Timeout
    /\ UNCHANGED <<device, rx, person>>

HostInterrupted ==
    /\ interrupts < MaxInterrupts /\ interrupts' = interrupts + 1
    /\ Host!Interrupt
    /\ UNCHANGED <<device, rx, runs, typed>>

(* With image.py closed a terminal may be attached. *)
Type ==
    /\ step = "closed"
    /\ typed < MaxTyped /\ typed' = typed + 1
    /\ \E b \in Keys : wire' = Append(wire, b)
    /\ UNCHANGED <<device, rx, tx, host, runs, interrupts>>

Next ==
    \/ DeviceEnters \/ DeviceRuns \/ OtherReader
    \/ Deliver \/ Overrun \/ Unheard
    \/ HostOpens \/ HostRuns \/ HostTimesOut \/ HostInterrupted \/ Type

(* The device's loop, the line and the two programs keep going, but the    *)
(* updates of a blob that is no tree may not end; a person need not do     *)
(* anything, and bootFromSerial is called at least once.                   *)
Fairness ==
    /\ WF_vars(DeviceRuns /\ (pc = "boot" => Device!blob \in Trees))
    /\ WF_vars(OtherReader) /\ WF_vars(Deliver)
    /\ WF_vars(DeviceEnters /\ ret = "none")
    /\ WF_vars(Unheard) /\ WF_vars(HostRuns) /\ WF_vars(HostTimesOut)

Spec == Init /\ [][Next]_vars
FairSpec == Spec /\ Fairness

----------------------------------------------------------------------------
Holds(base, data) == \A k \in 1 .. Len(data) : mem[base + k - 1] = data[k]

(* The two files satisfy every condition serial_boot.c:70-209 sets. *)
Acceptable ==
    /\ kernel # <<>> /\ KERNEL_LOAD_ADDR + Len(kernel) <= MEMORY_END
    /\ dtb # <<>> /\ Len(dtb) <= MAX_DTB_SIZE
    /\ DTB_LOAD_ADDR + Len(dtb) <= MEMORY_END
    /\ \/ DTB_LOAD_ADDR + Len(dtb) <= KERNEL_LOAD_ADDR
       \/ KERNEL_LOAD_ADDR + Len(kernel) <= DTB_LOAD_ADDR
    /\ \A j \in DOMAIN DtbMagic : j < Len(dtb) /\ dtb[j + 1] = DtbMagic[j]

(* Whenever image.py is about to write, the device is at the byte it is    *)
(* about to write: the ACKs keep the two loops (serial_boot.c:104, 181 and *)
(* image.py:63) in step, although neither says how far it is.              *)
InStep ==
    ~ waiting =>
    CASE step = "kernel_size" -> pc = "kernel_size_lo"
      [] step = "kernel" -> pc = "kernel" /\ ptr = KERNEL_LOAD_ADDR + sent
      [] step = "dtb_size" -> pc = "dtb_size_lo"
      [] step = "dtb" -> pc = "dtb" /\ ptr = DTB_LOAD_ADDR + sent
      [] OTHER -> TRUE

(* What the device is about to boot is what the host has: no byte of the   *)
(* two files is missing, repeated or moved (serial_boot.c:211).  A key     *)
(* typed at a board that has not returned to its shell is a byte of the    *)
(* transfer, and is taken for one.                                         *)
BootsTheHostsFiles ==
    pc = "boot" /\ typed = 0 =>
        /\ kernel_size = Len(kernel) /\ Holds(KERNEL_LOAD_ADDR, kernel)
        /\ dtb_size = Len(dtb) /\ Holds(DTB_LOAD_ADDR, dtb)

(* When image.py says that both files are transferred (image.py:195-200)   *)
(* the device has them: it has yet to look at the magic, boots, or has     *)
(* refused the blob.  The kernel is still whole when Linux gets it if the  *)
(* blob is a device tree.                                                  *)
TransferredIsReceived ==
    step = "monitor" /\ pc # "sync" =>
        /\ pc \in {"magic", "boot", "linux", "out"}
        /\ pc # "linux" \/ dtb \in Trees => Holds(KERNEL_LOAD_ADDR, kernel)
        /\ pc = "magic" => Holds(DTB_LOAD_ADDR, dtb)

(* A good pair of files is never refused, if no key was typed. *)
RefusesOnlyBadFiles ==
    [][ret' = "RET_ERR" /\ ret # "RET_ERR" /\ typed = 0 => ~ Acceptable]_vars

(* Once the handshake is answered, good files end in Linux; of a blob that *)
(* has the magic and is no tree only the transfer is sure to end... *)
GoodFilesBoot ==
    step = "kernel_size" /\ Acceptable ~>
        pc = "linux" \/ (pc = "boot" /\ dtb \notin Trees)

(* ... and bad ones in a return to the caller (serial_boot.c:70-209).      *)
BadFilesReturn == step = "kernel_size" /\ ~ Acceptable ~> pc = "out"
=============================================================================
