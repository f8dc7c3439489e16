---------------------------- MODULE SerialDevice ----------------------------
(***************************************************************************)
(* bootFromSerial (core/boot_mode/serial_boot.c) with the UART it polls:   *)
(* the device's end of the serial boot protocol.  The line brings any      *)
(* bytes at all; SerialLink puts image.py at its other end.                *)
(*                                                                         *)
(* A size travels as two little-endian bytes of base ByteBase instead of   *)
(* four of base 256, so an address is a number below ByteBase^2.           *)
(***************************************************************************)
EXTENDS Integers, Sequences, FiniteSets

CONSTANTS
    ByteBase,          \* number of values of a byte
    SYN,               \* the byte that opens the protocol
    ExitBytes,         \* Ctrl-C and ESC
    CHUNK_SIZE,        \* bytes acknowledged together
    KERNEL_LOAD_ADDR,
    DTB_LOAD_ADDR,
    MEMORY_END,        \* first address past the RAM
    MAX_DTB_SIZE,
    PowerOn,           \* values a memory cell can hold at power-on
    StackBytes,        \* values the uninitialised c can hold
    DtbMagic,          \* the magic at the start of a device tree, from 0
    Trees,             \* the blobs that are device trees as dtc writes them
    SyncPolls,         \* polls of the wait for a host, one per millisecond
    RxDepth, TxDepth,  \* bounds: places in the receive and transmit FIFOs
    MaxUpdated         \* bound: cells that differ after the two updates

Byte == 0 .. (ByteBase - 1)
AddrSpace == ByteBase * ByteBase
Addr == 0 .. (AddrSpace - 1)

(* What the device sends: the three protocol bytes, and text. *)
Reply == {"READY", "ACK", "NAK", "TEXT"}

RetCode == {"none", "RET_EXIT", "RET_ERR", "RET_TIMEOUT"}

ASSUME SizesAssumption ==
    /\ ByteBase \in Nat \ {0}
    /\ CHUNK_SIZE \in Nat \ {0}
    /\ MAX_DTB_SIZE \in Nat
    /\ SyncPolls \in Nat /\ MaxUpdated \in Nat
    /\ RxDepth \in Nat \ {0} /\ TxDepth \in Nat \ {0, 1}

ASSUME BytesAssumption ==
    /\ SYN \in Byte
    /\ PowerOn \subseteq Byte /\ StackBytes \subseteq Byte
    /\ ExitBytes \subseteq Byte /\ SYN \notin ExitBytes

ASSUME LayoutAssumption ==
    /\ {KERNEL_LOAD_ADDR, DTB_LOAD_ADDR, MEMORY_END} \subseteq Addr
    /\ \E n \in 0 .. MEMORY_END :
          /\ DtbMagic \in [0 .. (n - 1) -> Byte]
          /\ DTB_LOAD_ADDR + n <= MEMORY_END

VARIABLES
    pc,                \* where bootFromSerial is; "out" when it is not running
    ret,               \* what its last call returned
    c,                 \* the byte the wait loop looks at
    t,                 \* milliseconds waited for a host
    kernel_size, dtb_size,
    ptr,               \* the cell the next byte goes to
    remaining,         \* bytes to come, counted down once per chunk
    i,                 \* bytes of the current chunk received
    mem,
    rx, tx             \* the UART's receive and transmit FIFOs

locals == <<c, t, kernel_size, dtb_size, ptr, remaining, i>>
vars == <<pc, ret, locals, mem, rx, tx>>

PcValues == {"out", "sync", "kernel_size_lo", "kernel_size_hi", "kernel",
             "dtb_size_lo", "dtb_size_hi", "dtb", "magic", "boot", "linux"}

TypeOK ==
    /\ pc \in PcValues /\ ret \in RetCode
    /\ c \in Byte /\ t \in 0 .. SyncPolls
    /\ kernel_size \in Addr /\ dtb_size \in Addr
    /\ ptr \in Addr /\ remaining \in Addr /\ i \in 0 .. (CHUNK_SIZE - 1)
    /\ mem \in [Addr -> Byte]
    /\ rx \in Seq(Byte) /\ tx \in Seq(Reply)

----------------------------------------------------------------------------
(* The sum of two words. *)
Add(a, b) == IF a + b < AddrSpace THEN a + b ELSE (a + b) - AddrSpace

Lesser(a, b) == IF a <= b THEN a ELSE b

(* Mutant: the last chunk is not cut to what remains. *)
chunkUncut == CHUNK_SIZE

chunk == Lesser(remaining, CHUNK_SIZE)
kernel_end == Add(KERNEL_LOAD_ADDR, kernel_size)

(* uart_putc waits until the transmit FIFO has room. *)
Put(s) == Len(tx) + Len(s) <= TxDepth /\ tx' = tx \o s

(* Mutant: it reads the data register without waiting. *)
GetUnready(b) ==
    \/ rx # <<>> /\ b = Head(rx) /\ rx' = Tail(rx)
    \/ rx = <<>> /\ b = 0 /\ rx' = rx

(* uart_getc waits for a byte and takes it. *)
Get(b) == rx # <<>> /\ b = Head(rx) /\ rx' = Tail(rx)

(* The locals end with the call. *)
Return(code) ==
    /\ pc' = "out" /\ ret' = code
    /\ c' = 0 /\ t' = 0
    /\ kernel_size' = 0 /\ dtb_size' = 0
    /\ ptr' = KERNEL_LOAD_ADDR /\ remaining' = 0 /\ i' = 0

Init ==
    /\ pc = "out" /\ ret = "none"
    /\ c = 0 /\ t = 0
    /\ kernel_size = 0 /\ dtb_size = 0
    /\ ptr = KERNEL_LOAD_ADDR /\ remaining = 0 /\ i = 0
    /\ mem \in [Addr -> PowerOn]
    /\ rx = <<>> /\ tx = <<>>

(* The call, from vladBootin_main or from the shell's serialboot.  The     *)
(* wait loop's byte is not initialised: it holds whatever the stack held.  *)
Enter ==
    /\ pc = "out"
    /\ Put(<<"TEXT", "READY">>)
    /\ c' \in StackBytes /\ t' = 0
    /\ pc' = "sync" /\ ret' = "none"
    /\ UNCHANGED <<kernel_size, dtb_size, ptr, remaining, i, mem, rx>>

----------------------------------------------------------------------------
(* The wait for a host: one action is one iteration of the loop.           *)

(* The handshake is complete: acknowledge it, start reading the size. *)
Attach ==
    /\ Put(<<"ACK">>)
    /\ pc' = "kernel_size_lo" /\ kernel_size' = 0
    /\ UNCHANGED <<ret, t, dtb_size, ptr, remaining, i, mem>>

PollNothing ==
    /\ pc = "sync" /\ t < SyncPolls
    /\ rx = <<>>
    /\ t' = t + 1
    /\ UNCHANGED <<pc, ret, c, kernel_size, dtb_size, ptr, remaining, i,
                   mem, rx, tx>>

PollOther ==
    /\ pc = "sync" /\ t < SyncPolls
    /\ \E b \in Byte : Get(b) /\ b \notin ExitBytes \union {SYN} /\ c' = b
    /\ t' = t + 1
    /\ UNCHANGED <<pc, ret, kernel_size, dtb_size, ptr, remaining, i, mem, tx>>

PollExit ==
    /\ pc = "sync" /\ t < SyncPolls
    /\ \E b \in ExitBytes : Get(b)
    /\ Return("RET_EXIT")
    /\ UNCHANGED <<mem, tx>>

PollSyn ==
    /\ pc = "sync" /\ t < SyncPolls
    /\ Get(SYN) /\ c' = SYN
    /\ Attach

(* The loop ran out: only the last byte seen is looked at. *)
WaitOver ==
    /\ pc = "sync" /\ t = SyncPolls
    /\ \/ /\ c # SYN
          /\ Put(<<"TEXT">>)
          /\ Return("RET_TIMEOUT")
          /\ UNCHANGED mem
       \/ c = SYN /\ Attach /\ UNCHANGED c
    /\ UNCHANGED rx

----------------------------------------------------------------------------
(* Reading a size, and the checks on it.                                   *)

(* Mutant: the return after the NAK is missing. *)
RefuseAndGoOn ==
    /\ Put(<<"NAK">>) /\ pc' = "kernel_size_lo"
    /\ UNCHANGED <<ret, locals>>

Refuse == Put(<<"NAK">>) /\ Return("RET_ERR")

(* Mutant: an accepted size is not acknowledged. *)
ExpectSilently(base, n, next) ==
    /\ pc' = next /\ ptr' = base /\ remaining' = n /\ i' = 0
    /\ UNCHANGED <<ret, tx>>

(* Start receiving n bytes at base. *)
Expect(base, n, next) ==
    /\ Put(<<"ACK">>)
    /\ pc' = next /\ ptr' = base /\ remaining' = n /\ i' = 0
    /\ UNCHANGED ret

KernelSizeLow ==
    /\ pc = "kernel_size_lo"
    /\ \E b \in Byte : Get(b) /\ kernel_size' = b
    /\ pc' = "kernel_size_hi"
    /\ UNCHANGED <<ret, c, t, dtb_size, ptr, remaining, i, mem, tx>>

(* Mutant: an end that wraps below the load address passes. *)
KernelFitsOrWraps(n) == n # 0 /\ ~ (Add(KERNEL_LOAD_ADDR, n) > MEMORY_END)

KernelFits(n) ==
    LET end == Add(KERNEL_LOAD_ADDR, n) IN
    n # 0 /\ ~ (end < KERNEL_LOAD_ADDR \/ end > MEMORY_END)

KernelSizeHigh ==
    /\ pc = "kernel_size_hi"
    /\ \E b \in Byte :
          LET n == kernel_size + ByteBase * b IN
          /\ Get(b)
          /\ \/ /\ KernelFits(n) /\ kernel_size' = n
                /\ Expect(KERNEL_LOAD_ADDR, n, "kernel")
                /\ UNCHANGED <<c, t, dtb_size>>
             \/ ~ KernelFits(n) /\ Refuse
    /\ UNCHANGED mem

DtbSizeLow ==
    /\ pc = "dtb_size_lo"
    /\ \E b \in Byte : Get(b) /\ dtb_size' = b
    /\ pc' = "dtb_size_hi"
    /\ UNCHANGED <<ret, c, t, kernel_size, ptr, remaining, i, mem, tx>>

(* Mutants: the overlap is not looked at; the largest size is refused. *)
DtbFitsOrOverlaps(n) ==
    LET dtb_end == Add(DTB_LOAD_ADDR, n) IN
    /\ n # 0 /\ n <= MAX_DTB_SIZE
    /\ ~ (dtb_end < DTB_LOAD_ADDR \/ dtb_end > MEMORY_END)

DtbFitsBelow(n) == DtbFitsOrOverlaps(n) /\ n < MAX_DTB_SIZE

DtbFits(n) ==
    LET dtb_end == Add(DTB_LOAD_ADDR, n) IN
    /\ n # 0 /\ n <= MAX_DTB_SIZE
    /\ ~ (dtb_end < DTB_LOAD_ADDR \/ dtb_end > MEMORY_END)
    /\ ~ (DTB_LOAD_ADDR < kernel_end /\ KERNEL_LOAD_ADDR < dtb_end)

DtbSizeHigh ==
    /\ pc = "dtb_size_hi"
    /\ \E b \in Byte :
          LET n == dtb_size + ByteBase * b IN
          /\ Get(b)
          /\ \/ /\ DtbFits(n) /\ dtb_size' = n
                /\ Expect(DTB_LOAD_ADDR, n, "dtb")
                /\ UNCHANGED <<c, t, kernel_size>>
             \/ ~ DtbFits(n) /\ Refuse
    /\ UNCHANGED mem

----------------------------------------------------------------------------
(* Receiving a region.  The byte that ends a chunk is acknowledged and     *)
(* counts the whole chunk off; the last chunk ends the region.             *)
Receive(here, next) ==
    /\ pc = here
    /\ \E b \in Byte : Get(b) /\ mem' = [mem EXCEPT ![ptr] = b]
    /\ ptr' = Add(ptr, 1)
    /\ \/ /\ i + 1 < chunk
          /\ i' = i + 1
          /\ UNCHANGED <<pc, remaining, tx>>
       \/ /\ i + 1 = chunk
          /\ i' = 0 /\ remaining' = remaining - chunk
          /\ Put(<<"ACK">>)
          /\ pc' = IF remaining' > 0 THEN here ELSE next
    /\ UNCHANGED <<ret, c, t, kernel_size>>

KernelByte == 
    /\ Receive("kernel", "dtb_size_lo")
    /\ dtb_size' = IF pc' = "kernel" THEN dtb_size ELSE 0

DtbByte == Receive("dtb", "magic") /\ UNCHANGED dtb_size

----------------------------------------------------------------------------
(* The device tree is looked at only after its last chunk was acknowledged. *)
(* Mutant: any blob passes. *)
MagicUnchecked == TRUE

MagicOK == \A j \in DOMAIN DtbMagic : mem[DTB_LOAD_ADDR + j] = DtbMagic[j]

CheckMagic ==
    /\ pc = "magic"
    /\ \/ /\ MagicOK
          /\ Put(<<"TEXT">>) /\ pc' = "boot"
          /\ UNCHANGED <<ret, locals>>
       \/ ~ MagicOK /\ Refuse
    /\ UNCHANGED <<mem, rx>>

blob == [j \in 1 .. dtb_size |-> mem[DTB_LOAD_ADDR + j - 1]]

(* The cells that fdt_update_bootargs and fdt_update_memory may change.    *)
(* In a device tree these are values of properties, behind the magic (Fdt).*)
(* But the walkers take every offset and length from the blob and hold none*)
(* against dtb_size (fdt.c:17-37, 178-204): with any other blob that has   *)
(* the magic they may write anywhere.                                      *)
FdtCells ==
    IF blob \in Trees
    THEN {a \in Addr : DTB_LOAD_ADDR <= a /\ a < DTB_LOAD_ADDR + dtb_size} \
             {DTB_LOAD_ADDR + j : j \in DOMAIN DtbMagic}
    ELSE Addr

(* The updates of the device tree, prepare_boot and the jump.  A walk over *)
(* a blob that is no tree need not come back: see Fairness in SerialLink.  *)
Boot ==
    /\ pc = "boot"
    /\ \E cells \in SUBSET FdtCells :
          /\ Cardinality(cells) <= MaxUpdated
          /\ \E new \in [cells -> Byte] :
                mem' = [a \in Addr |-> IF a \in cells THEN new[a] ELSE mem[a]]
    /\ Put(<<"TEXT">>) /\ pc' = "linux"
    /\ UNCHANGED <<ret, locals, rx>>

----------------------------------------------------------------------------
(* Around bootFromSerial.                                                  *)

(* The shell, or Linux, takes what arrives while bootFromSerial is not     *)
(* running, and the shell echoes it.                                       *)
OtherReader ==
    /\ pc \in {"out", "linux"}
    /\ \E b \in Byte : Get(b)
    /\ UNCHANGED tx \/ Put(<<"TEXT">>)
    /\ UNCHANGED <<pc, ret, locals, mem>>

Arrive ==
    /\ Len(rx) < RxDepth
    /\ \E b \in Byte : rx' = Append(rx, b)
    /\ UNCHANGED <<pc, ret, locals, mem, tx>>

Depart ==
    /\ \E n \in 1 .. Len(tx) : tx' = SubSeq(tx, n + 1, Len(tx))
    /\ UNCHANGED <<pc, ret, locals, mem, rx>>

BootFromSerial ==
    \/ PollNothing \/ PollOther \/ PollExit \/ PollSyn \/ WaitOver
    \/ KernelSizeLow \/ KernelSizeHigh \/ KernelByte
    \/ DtbSizeLow \/ DtbSizeHigh \/ DtbByte
    \/ CheckMagic \/ Boot

Next == Enter \/ BootFromSerial \/ OtherReader \/ Arrive \/ Depart

Spec == Init /\ [][Next]_vars

----------------------------------------------------------------------------
KernelAdmitted ==
    kernel_size > 0 /\ KERNEL_LOAD_ADDR + kernel_size <= MEMORY_END

DtbAdmitted ==
    /\ dtb_size > 0 /\ DTB_LOAD_ADDR + dtb_size <= MEMORY_END
    /\ \/ DTB_LOAD_ADDR + dtb_size <= KERNEL_LOAD_ADDR
       \/ KERNEL_LOAD_ADDR + kernel_size <= DTB_LOAD_ADDR

Receiving(base, size) ==
    /\ base <= ptr /\ i < chunk
    /\ ptr + (remaining - i) = base + size

(* What is known at each point of bootFromSerial: the regions are in RAM   *)
(* and apart from the moment they are accepted, and the write pointer is   *)
(* as far from the end of its region as there are bytes to come            *)
(* (serial_boot.c:88-119, 148-196).                                        *)
RegionsHold ==
    /\ pc = "kernel_size_hi" => kernel_size \in Byte
    /\ pc = "dtb_size_hi" => dtb_size \in Byte
    /\ pc \in {"kernel", "dtb_size_lo", "dtb_size_hi", "dtb", "magic", "boot",
               "linux"} => KernelAdmitted
    /\ pc = "kernel" => Receiving(KERNEL_LOAD_ADDR, kernel_size)
    /\ pc \in {"dtb_size_lo", "dtb_size_hi"} =>
           ptr = KERNEL_LOAD_ADDR + kernel_size
    /\ pc \in {"dtb", "magic", "boot", "linux"} => DtbAdmitted
    /\ pc = "dtb" => Receiving(DTB_LOAD_ADDR, dtb_size)
    /\ pc \in {"magic", "boot", "linux"} => ptr = DTB_LOAD_ADDR + dtb_size
    /\ pc = "boot" => MagicOK

----------------------------------------------------------------------------
(* bootFromSerial as an attempt in the sense of BootAttempt.               *)
stage ==
    CASE pc = "out" -> "idle"
      [] pc \in {"sync", "kernel_size_lo", "kernel_size_hi"} -> "open"
      [] pc = "kernel" -> "kernel"
      [] pc \in {"dtb_size_lo", "dtb_size_hi"} -> "kernelFull"
      [] pc = "dtb" -> "dtb"
      [] pc = "magic" -> "dtbFull"
      [] pc = "boot" -> "verified"
      [] OTHER -> "linux"

kernelCells ==
    IF stage \in {"idle", "open"} THEN {}
    ELSE KERNEL_LOAD_ADDR .. (KERNEL_LOAD_ADDR + kernel_size - 1)

dtbCells ==
    IF stage \in {"idle", "open", "kernel", "kernelFull"} THEN {}
    ELSE DTB_LOAD_ADDR .. (DTB_LOAD_ADDR + dtb_size - 1)

filled ==
    CASE stage \in {"idle", "open"} -> 0
      [] stage \in {"kernel", "kernelFull"} -> ptr - KERNEL_LOAD_ADDR
      [] OTHER -> ptr - DTB_LOAD_ADDR

Attempt == INSTANCE BootAttempt WITH
    KernelBase <- KERNEL_LOAD_ADDR, DtbBase <- DTB_LOAD_ADDR,
    MemoryEnd <- MEMORY_END, Magic <- DtbMagic,
    kernel <- kernelCells, dtb <- dtbCells

(* Whatever bytes the line brings, every run of bootFromSerial is a run of *)
(* BootAttempt: serial_boot.c:70-209 writes no byte outside a region it    *)
(* admitted, admits only disjoint regions of RAM although its addresses    *)
(* wrap, and goes on to the updates and the jump only with both regions    *)
(* full and the magic in place.  The updates keep to the tree if the blob  *)
(* is one (223-224); of other blobs with the magic nothing is promised.    *)
ImplementsBootAttempt == Attempt!Spec
=============================================================================
