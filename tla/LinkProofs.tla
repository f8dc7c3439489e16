----------------------------- MODULE LinkProofs -----------------------------
(***************************************************************************)
(* The two ends of the serial boot protocol put together, for every pair   *)
(* of files, every size of the FIFOs and any number of interrupts and      *)
(* keys: one run of image.py stays in step with bootFromSerial.            *)
(***************************************************************************)
EXTENDS SerialLink, SequenceTheorems, TLAPS

Byte == Device!Byte

(* What the line and the host hold is made of bytes, and a file's length   *)
(* is written with two digits.                                             *)
File(f) == f \in Seq(Byte) /\ Len(f) < Device!AddrSpace

Inv ==
    /\ File(kernel) /\ File(dtb) /\ sent \in Nat /\ step \in Host!Steps
    /\ wire \in Seq(Byte) /\ tx \in Seq(Device!Reply)

LEMMA Bytes ==
    /\ ByteBase \in Nat \ {0} /\ SYN \in Byte /\ Keys \subseteq Byte
    /\ Byte = 0 .. (ByteBase - 1) /\ Device!AddrSpace = ByteBase * ByteBase
BY LinkAssumption DEF Byte, Device!Byte, Device!AddrSpace

(* The digits of a length are bytes. *)
LEMMA Digits ==
    ASSUME NEW n \in Nat, n < ByteBase * ByteBase
    PROVE  n % ByteBase \in Byte /\ n \div ByteBase \in Byte
<1> DEFINE b == ByteBase
           q == n \div b
           r == n % b
<1>1. b \in Nat \ {0}
    BY Bytes
<1>2. q \in Int /\ r \in 0 .. (b - 1) /\ n = b * q + r
    BY <1>1, SMT
<1>3. q >= 0
  <2>1. SUFFICES ASSUME q <= -1 PROVE FALSE
    BY <1>2
  <2>2. b * q <= -b
    BY <1>1, <1>2, <2>1, SMT
  <2> QED
    BY <1>1, <1>2, <2>2
<1>4. q < b
  <2>1. SUFFICES ASSUME q >= b PROVE FALSE
    BY <1>1, <1>2
  <2>2. b * q >= b * b
    BY <1>1, <1>2, <2>1, SMT
  <2> QED
    BY <1>1, <1>2, <2>2
<1> QED
    BY <1>1, <1>2, <1>3, <1>4, Bytes

----------------------------------------------------------------------------
(* The host writes bytes.                                                  *)

LEMMA SliceOfBytes ==
    ASSUME NEW s \in Seq(Byte), NEW m \in Int, NEW n \in Int, m >= 1, n <= Len(s)
    PROVE  SubSeq(s, m, n) \in Seq(Byte)
BY SubSeqProperties

LEMMA SyllablesOfBytes ==
    ASSUME Inv
    PROVE  /\ <<SYN>> \in Seq(Byte)
           /\ <<Len(kernel) % ByteBase, Len(kernel) \div ByteBase>> \in Seq(Byte)
           /\ <<Len(dtb) % ByteBase, Len(dtb) \div ByteBase>> \in Seq(Byte)
<1>1. SYN \in Byte
    BY Bytes
<1>2. Len(kernel) \in Nat /\ Len(dtb) \in Nat
    BY LenProperties DEF Inv, File
<1>3. Len(kernel) % ByteBase \in Byte /\ Len(kernel) \div ByteBase \in Byte
    BY <1>2, Digits, Bytes DEF Inv, File
<1>4. Len(dtb) % ByteBase \in Byte /\ Len(dtb) \div ByteBase \in Byte
    BY <1>2, Digits, Bytes DEF Inv, File
<1> QED
    BY <1>1, <1>3, <1>4

LEMMA ChunkOfBytes ==
    ASSUME Inv
    PROVE  /\ SubSeq(Host!file, sent + 1, Host!sentNext) \in Seq(Byte)
           /\ Host!sentNext \in Nat
<1>1. Host!file \in Seq(Byte) /\ Len(Host!file) \in Nat /\ sent \in Nat
    BY LenProperties DEF Inv, File, Host!file
<1>2. CHUNK_SIZE \in Nat
    BY LinkAssumption
<1>3. Host!sentNext \in Nat /\ Host!sentNext <= Len(Host!file)
    BY <1>1, <1>2 DEF Host!sentNext
<1> QED
    BY <1>1, <1>3, SliceOfBytes

----------------------------------------------------------------------------
(* The invariant.                                                          *)

LEMMA InitInv == Init => Inv
<1> SUFFICES ASSUME Init PROVE Inv
    OBVIOUS
<1>1. File(kernel) /\ File(dtb)
    BY LinkAssumption DEF Init, File, Byte
<1>2. wire = <<>> /\ sent = 0 /\ step \in Host!Steps
    BY DEF Init, Host!Init, Host!Steps
<1>3. tx = <<>>
    BY DEF Init, Device!Init
<1> QED
    BY <1>1, <1>2, <1>3, EmptySeq DEF Inv

LEMMA WriteType ==
    ASSUME Inv, NEW s \in Seq(Byte), Host!Write(s)
    PROVE  wire' \in Seq(Byte)
BY ConcatProperties DEF Inv, Host!Write

(* The host takes replies off the front of what the device sent. *)
LEMMA Reading ==
    ASSUME Inv, NEW n \in 0 .. Len(tx)
    PROVE  /\ SubSeq(tx, n + 1, Len(tx)) \in Seq(Device!Reply)
           /\ n = 0 => SubSeq(tx, n + 1, Len(tx)) = tx
           /\ n = 1 => SubSeq(tx, n + 1, Len(tx)) = Tail(tx)
           /\ n = Len(tx) => SubSeq(tx, n + 1, Len(tx)) = <<>>
BY SubSeqProperties, LenProperties DEF Inv

LEMMA PutType ==
    ASSUME Inv, NEW s \in Seq(Device!Reply), Device!Put(s)
    PROVE  tx' \in Seq(Device!Reply)
BY ConcatProperties DEF Inv, Device!Put

LEMMA DeviceReplies ==
    ASSUME Inv, Device!Enter \/ Device!BootFromSerial \/ Device!OtherReader
    PROVE  tx' \in Seq(Device!Reply)
<1> DEFINE Puts == \E s \in Seq(Device!Reply) : Device!Put(s)
           Keeps == tx' = tx
<1>1. SUFFICES Puts \/ Keeps
    BY PutType DEF Inv
<1>2. /\ <<"ACK">> \in Seq(Device!Reply) /\ <<"NAK">> \in Seq(Device!Reply)
      /\ <<"TEXT">> \in Seq(Device!Reply) /\ <<"TEXT", "READY">> \in Seq(Device!Reply)
    BY DEF Device!Reply
<1>3. ASSUME Device!Enter \/ Device!OtherReader PROVE Puts \/ Keeps
    BY <1>2, <1>3 DEF Device!Enter, Device!OtherReader
<1>4. ASSUME Device!PollNothing \/ Device!PollOther \/ Device!PollExit
             \/ Device!PollSyn \/ Device!WaitOver
      PROVE  Puts \/ Keeps
    BY <1>2, <1>4 DEF Device!PollNothing, Device!PollOther, Device!PollExit,
        Device!PollSyn, Device!WaitOver, Device!Attach
<1>5. ASSUME Device!KernelSizeLow \/ Device!KernelSizeHigh
             \/ Device!DtbSizeLow \/ Device!DtbSizeHigh
      PROVE  Puts \/ Keeps
    BY <1>2, <1>5 DEF Device!KernelSizeLow, Device!KernelSizeHigh,
        Device!DtbSizeLow, Device!DtbSizeHigh, Device!Expect, Device!Refuse
<1>6. ASSUME Device!KernelByte \/ Device!DtbByte PROVE Puts \/ Keeps
    BY <1>2, <1>6 DEF Device!KernelByte, Device!DtbByte, Device!Receive
<1>7. ASSUME Device!CheckMagic \/ Device!Boot PROVE Puts \/ Keeps
    BY <1>2, <1>7 DEF Device!CheckMagic, Device!Boot, Device!Refuse
<1> QED
    BY <1>3, <1>4, <1>5, <1>6, <1>7 DEF Device!BootFromSerial

LEMMA HostRunsInv ==
    ASSUME Inv, HostRuns
    PROVE  Inv'
<1> USE DEF Inv, File, Host!Steps
<1>1. CASE Host!SendSyn
    BY <1>1, SyllablesOfBytes, WriteType, Reading DEF Host!SendSyn
<1>2. CASE Host!SendSize
  <2>1. wire' \in Seq(Byte)
      BY <1>2, SyllablesOfBytes, WriteType DEF Host!SendSize
  <2> QED
      BY <1>2, <2>1 DEF Host!SendSize
<1>3. CASE Host!SendChunk
    BY <1>3, ChunkOfBytes, WriteType DEF Host!SendChunk
<1>4. CASE Host!AckArrives
    BY <1>4, ChunkOfBytes, HeadTailProperties DEF Host!AckArrives, Host!StepAfter
<1>5. CASE Host!OtherArrives
    BY <1>5, HeadTailProperties DEF Host!OtherArrives, Host!Close
<1>6. CASE Host!Monitor
    BY <1>6, EmptySeq DEF Host!Monitor
<1> QED
    BY <1>1, <1>2, <1>3, <1>4, <1>5, <1>6 DEF HostRuns

LEMMA NextInv ==
    ASSUME Inv, [Next]_vars
    PROVE  Inv'
<1> USE DEF Inv, File, Host!Steps
<1>1. CASE DeviceEnters \/ DeviceRuns \/ OtherReader
    BY <1>1, DeviceReplies DEF DeviceEnters, DeviceRuns, OtherReader, host
<1>9. CASE Unheard
    BY <1>9, EmptySeq DEF Unheard, host
<1>2. CASE Deliver \/ Overrun
    BY <1>2, HeadTailProperties DEF Deliver, Overrun, host
<1>3. CASE HostOpens
    BY <1>3 DEF HostOpens, Host!Open
<1>4. CASE HostRuns
    BY <1>4, HostRunsInv
<1>5. CASE HostTimesOut
    BY <1>5 DEF HostTimesOut, Host!Timeout, Host!Close
<1>6. CASE HostInterrupted
  <2>1. PICK n \in 0 .. Len(wire) : wire' = SubSeq(wire, 1, n)
    BY <1>6 DEF HostInterrupted, Host!Interrupt
  <2>2. wire' \in Seq(Byte)
    BY <2>1, SliceOfBytes, LenProperties
  <2> QED
    BY <1>6, <2>2 DEF HostInterrupted, Host!Interrupt, Host!Close
<1>7. CASE Type
  <2>1. PICK b \in Keys : wire' = Append(wire, b)
    BY <1>7 DEF Type
  <2>2. wire' \in Seq(Byte)
    BY <2>1, Bytes, AppendProperties
  <2> QED
    BY <1>7, <2>2 DEF Type, host
<1>8. CASE UNCHANGED vars
    BY <1>8 DEF vars, host
<1> QED
    BY <1>1, <1>2, <1>3, <1>4, <1>5, <1>6, <1>7, <1>8, <1>9 DEF Next

----------------------------------------------------------------------------
(* One run of image.py, and nobody but the host says SYN: the 0.1 s before *)
(* the wait leave no other on the line, and no key or stack byte is one.   *)
OneCleanRun == MaxRuns \in 0 .. 1 /\ SYN \notin StackBytes /\ SYN \notin Keys

Q == rx \o wire           \* what is on its way to the device
Flight == Len(Q)

(* The digits of a file's length. *)
Low(f) == Len(f) % ByteBase
High(f) == Len(f) \div ByteBase

Transfers == {"kernel_size_lo", "kernel_size_hi", "kernel",
              "dtb_size_lo", "dtb_size_hi", "dtb"}

(* Bytes the device takes before it answers next, and the j-th of them if  *)
(* none is lost.                                                           *)
Need ==
    CASE pc \in {"kernel_size_lo", "dtb_size_lo"} -> 2
      [] pc \in {"kernel_size_hi", "dtb_size_hi"} -> 1
      [] OTHER -> Device!chunk - i

Coming(j) ==
    CASE pc = "kernel_size_lo" -> IF j = 1 THEN Low(kernel) ELSE High(kernel)
      [] pc = "kernel_size_hi" -> High(kernel)
      [] pc = "kernel" -> kernel[ptr - KERNEL_LOAD_ADDR + j]
      [] pc = "dtb_size_lo" -> IF j = 1 THEN Low(dtb) ELSE High(dtb)
      [] pc = "dtb_size_hi" -> High(dtb)
      [] OTHER -> dtb[ptr - DTB_LOAD_ADDR + j]

(* The device has what the host sent so far.                               *)
Copied(base, f, n) == \A a \in 1 .. n : mem[base + a - 1] = f[a]

KernelIn ==
    /\ kernel # <<>> /\ kernel_size = Len(kernel)
    /\ KERNEL_LOAD_ADDR + Len(kernel) <= MEMORY_END

DtbIn ==
    /\ dtb # <<>> /\ dtb_size = Len(dtb) /\ DTB_LOAD_ADDR + Len(dtb) <= MEMORY_END
    /\ \/ DTB_LOAD_ADDR + Len(dtb) <= KERNEL_LOAD_ADDR
       \/ KERNEL_LOAD_ADDR + Len(kernel) <= DTB_LOAD_ADDR

Filling(base, f) ==
    /\ base <= ptr /\ remaining - i = base + Len(f) - ptr
    /\ Copied(base, f, ptr - base)

KernelCopied == Copied(KERNEL_LOAD_ADDR, kernel, Len(kernel))
DtbCopied == Copied(DTB_LOAD_ADDR, dtb, Len(dtb))

(* The updates leave the kernel alone only if they walk a device tree. *)
KernelWhole == pc # "linux" \/ dtb \in Trees => KernelCopied

Right ==
    /\ pc = "kernel_size_hi" => kernel_size = Low(kernel)
    /\ pc = "kernel" => KernelIn /\ Filling(KERNEL_LOAD_ADDR, kernel)
    /\ pc \in {"dtb_size_lo", "dtb_size_hi", "dtb", "magic", "boot"}
          => KernelIn /\ KernelCopied
    /\ pc = "dtb_size_hi" => dtb_size = Low(dtb)
    /\ pc = "dtb" => DtbIn /\ Filling(DTB_LOAD_ADDR, dtb)
    /\ pc \in {"magic", "boot"} => DtbIn /\ DtbCopied

(* No more is on its way than the device needs.  If it is as much, none    *)
(* was lost and all is right; if it is less, the device never answers.     *)
Unit ==
    /\ pc \in Transfers =>
        /\ Flight <= Need
        /\ Flight = Need => Right /\ \A j \in 1 .. Flight : Q[j] = Coming(j)
    /\ pc \in {"magic", "boot"} => Q = <<>> /\ Right

Later == {"kernel_size", "kernel", "dtb_size", "dtb", "monitor"}

(* Keys typed before the run are gone, or there are none. *)
Clean == typed = 0 \/ step \in Later

(* The device is at the start of what the host is about to send, or within *)
(* what it has sent (how far it is matters only while nothing was lost).   *)
At(st, n) ==
    /\ st = "kernel_size" => pc = "kernel_size_lo"
    /\ st = "kernel" => pc = "kernel" /\ i = 0 /\ ptr = KERNEL_LOAD_ADDR + n
    /\ st = "dtb_size" => pc = "dtb_size_lo"
    /\ st = "dtb" => pc = "dtb" /\ i = 0 /\ ptr = DTB_LOAD_ADDR + n

Within ==
    /\ step = "kernel_size" => pc \in {"kernel_size_lo", "kernel_size_hi"}
    /\ step = "kernel" =>
          pc = "kernel" /\ (Flight = Need => ptr = KERNEL_LOAD_ADDR + sent + i)
    /\ step = "dtb_size" => pc \in {"dtb_size_lo", "dtb_size_hi"}
    /\ step = "dtb" =>
          pc = "dtb" /\ (Flight = Need => ptr = DTB_LOAD_ADDR + sent + i)

Received ==
    /\ pc \in {"magic", "boot", "linux", "out", "sync"}
    /\ Q = <<>> /\ KernelWhole

(* Where the host goes on once the device has answered. *)
MoreOfFile == step \in {"kernel", "dtb"} /\ Host!sentNext < Len(Host!file)
NextStep == IF MoreOfFile THEN step ELSE Host!StepAfter
NextSent == IF MoreOfFile THEN Host!sentNext ELSE 0

Answered ==
    \/ tx # <<>> /\ Head(tx) # "ACK"
    \/ /\ tx = <<"ACK">> /\ Q = <<>> /\ Right
       /\ NextStep # "monitor" /\ At(NextStep, NextSent)
    \/ tx # <<>> /\ NextStep = "monitor" /\ Received

HostInv ==
    /\ step \in Later \ {"monitor"} =>
          \/ waiting /\ tx = <<>> /\ Within
          \/ waiting /\ Answered
          \/ ~ waiting /\ tx = <<>> /\ Q = <<>> /\ At(step, sent) /\ Right
    /\ step = "monitor" => ~ waiting /\ Received
    /\ step \in Later /\ pc \in {"out", "sync", "linux"} => Q = <<>>

(* Before the handshake there is no SYN but the host's, and no ACK but the *)
(* one that answers it.                                                    *)
NoneIs(s, x, n) == \A j \in 1 .. n : s[j] # x

Early ==
    /\ step \in {"closed", "open"} => ~ waiting
    /\ runs = 0 => step = "closed"
    /\ runs = 0 \/ step = "open" =>
          /\ pc \in {"out", "sync"}
          /\ NoneIs(Q, SYN, Flight) /\ NoneIs(tx, "ACK", Len(tx))
    /\ step = "syn" =>
          /\ waiting
          /\ \/ /\ pc \in {"out", "sync"}
                /\ NoneIs(Q, SYN, Flight - 1) /\ NoneIs(tx, "ACK", Len(tx))
             \/ /\ pc = "kernel_size_lo" /\ Q = <<>>
                /\ tx # <<>> /\ NoneIs(tx, "ACK", Len(tx) - 1)
    /\ pc = "sync" => c # SYN
    /\ typed = 0 /\ pc \in {"out", "sync"} => Q = <<>> \/ Q = <<SYN>>

Local ==
    /\ rx \in Seq(Byte) /\ mem \in [Device!Addr -> Byte]
    /\ {kernel_size, dtb_size, ptr, remaining, i, typed, runs} \subseteq Nat
    /\ pc \in {"kernel", "dtb"} => i < Device!chunk

Together == Inv /\ Local /\ (Clean => Unit) /\ HostInv /\ Early

(* Taking a byte from the line. *)
LEMMA Lengths ==
    ASSUME Inv, Local
    PROVE  /\ Q \in Seq(Byte) /\ Flight \in Nat /\ Flight = Len(rx) + Len(wire)
           /\ Len(rx) \in Nat /\ Len(wire) \in Nat /\ Len(tx) \in Nat
           /\ (Q = <<>> <=> Flight = 0)
BY ConcatProperties, LenProperties, EmptySeq DEF Inv, Local, Q, Flight

LEMMA Taken ==
    ASSUME Inv, Local, NEW b, Device!Get(b), wire' = wire
    PROVE  /\ Q # <<>> /\ Flight \in Nat \ {0}
           /\ b = Q[1] /\ b \in Byte /\ rx' \in Seq(Byte)
           /\ Q' = Tail(Q) /\ Flight' <= Flight - 1 /\ Flight' >= Flight - 1 /\ Flight' \in Nat
           /\ \A j \in 1 .. (Flight - 1) : Q'[j] = Q[j + 1]
           /\ (Q' = <<>> <=> Flight = 1)
<1>1. rx \in Seq(Byte) /\ wire \in Seq(Byte) /\ rx # <<>>
    BY DEF Inv, Local, Device!Get
<1>2. /\ Tail(rx) \in Seq(Byte) /\ b = rx[1] /\ b \in Byte /\ rx' = Tail(rx)
      /\ Len(Tail(rx)) = Len(rx) - 1 /\ Len(rx) \in Nat \ {0}
      /\ \A j \in 1 .. Len(Tail(rx)) : Tail(rx)[j] = rx[j + 1]
    BY <1>1, HeadTailProperties, LenProperties, EmptySeq DEF Device!Get
<1>3. /\ Q \in Seq(Byte) /\ Len(Q) = Len(rx) + Len(wire) /\ Len(wire) \in Nat
      /\ \A j \in 1 .. Len(Q) : Q[j] = IF j <= Len(rx) THEN rx[j] ELSE wire[j - Len(rx)]
    BY <1>1, ConcatProperties, LenProperties DEF Q
<1>4. /\ Q' \in Seq(Byte) /\ Len(Q') = Len(Tail(rx)) + Len(wire)
      /\ \A j \in 1 .. Len(Q') : Q'[j] = IF j <= Len(Tail(rx)) THEN Tail(rx)[j]
                                                        ELSE wire[j - Len(Tail(rx))]
    BY <1>1, <1>2, ConcatProperties, LenProperties DEF Q
<1>5. Q # <<>> /\ Len(Q) \in Nat \ {0} /\ b = Q[1] /\ Len(Q') = Len(Q) - 1
    BY <1>2, <1>3, <1>4, EmptySeq
<1>6. ASSUME NEW j \in 1 .. (Len(Q) - 1) PROVE Q'[j] = Q[j + 1]
  <2>1. j \in 1 .. Len(Q') /\ j + 1 \in 1 .. Len(Q)
    BY <1>5
  <2>2. CASE j <= Len(rx) - 1
    BY <1>2, <1>3, <1>4, <2>1, <2>2
  <2>3. CASE j > Len(rx) - 1
    <3>1. Q'[j] = wire[j - (Len(rx) - 1)] /\ Q[j + 1] = wire[(j + 1) - Len(rx)]
      BY <1>2, <1>3, <1>4, <2>1, <2>3
    <3> QED
      BY <1>2, <3>1
  <2> QED
    BY <1>2, <2>2, <2>3
<1>7. Q' = <<>> <=> Len(Q) = 1
    BY <1>4, <1>5, EmptySeq
<1>8. Q' = Tail(Q)
  <2>1. /\ Tail(Q) \in Seq(Byte) /\ Len(Tail(Q)) = Len(Q) - 1
        /\ \A j \in 1 .. Len(Tail(Q)) : Tail(Q)[j] = Q[j + 1]
    BY <1>3, <1>5, HeadTailProperties
  <2> QED
    BY <1>4, <1>5, <1>6, <2>1, SeqEqual
<1>9. Len(Q') \in Nat /\ Len(Q) = Len(Q') + 1
    BY <1>5
<1> QED
    BY <1>2, <1>5, <1>6, <1>7, <1>8, <1>9 DEF Flight

----------------------------------------------------------------------------
(* What a step of the device during a transfer means to the host.          *)

LEMMA Replied ==
    ASSUME Inv, NEW s \in Seq(Device!Reply), s # <<>>, tx' = tx \o s
    PROVE  /\ tx' \in Seq(Device!Reply) /\ tx' # <<>>
           /\ tx # <<>> => Head(tx') = Head(tx)
           /\ tx = <<>> => tx' = s
<1>1. /\ tx \in Seq(Device!Reply) /\ Len(tx) \in Nat /\ Len(s) \in Nat /\ Len(s) # 0
      /\ tx' \in Seq(Device!Reply) /\ Len(tx') = Len(tx) + Len(s)
      /\ (tx # <<>> => Len(tx) # 0 /\ tx'[1] = tx[1] /\ Head(tx) = tx[1])
      /\ (tx' # <<>> => Head(tx') = tx'[1])
    BY ConcatProperties, LenProperties, EmptySeq, HeadTailProperties DEF Inv
<1>2. tx' # <<>>
    BY <1>1, EmptySeq
<1>3. tx = <<>> => tx' = s
    BY ConcatEmptySeq
<1> QED
    BY <1>1, <1>2, <1>3

LEMMA Texts ==
    /\ <<"ACK">> \in Seq(Device!Reply) /\ <<"NAK">> \in Seq(Device!Reply)
    /\ <<"TEXT">> \in Seq(Device!Reply) /\ <<"TEXT", "READY">> \in Seq(Device!Reply)
    /\ <<"ACK">> # <<>> /\ <<"NAK">> # <<>> /\ <<"TEXT">> # <<>> /\ <<"TEXT", "READY">> # <<>>
    /\ Head(<<"NAK">>) = "NAK" /\ Head(<<"ACK">>) = "ACK"
BY DEF Device!Reply

(* The device takes bytes only while the host waits for what they lead to. *)
Awaited == (tx = <<>> /\ Within) \/ (tx # <<>> /\ Head(tx) # "ACK")

LEMMA Consuming ==
    ASSUME Together, pc \in Transfers, Q # <<>>
    PROVE  /\ runs # 0 /\ step \notin {"open", "syn", "monitor"}
           /\ step \in Later =>
                 waiting /\ Awaited
<1>1. runs # 0 /\ step \notin {"open", "syn", "monitor"}
    BY DEF Together, HostInv, Early, Received, Transfers, Later
<1>2. ASSUME step \in Later
      PROVE  waiting /\ Awaited
    BY <1>1, <1>2 DEF Together, HostInv, Answered, Received, Later, Awaited
<1> QED
    BY <1>1, <1>2

LEMMA GoesOnWithin ==
    ASSUME Together, pc \in Transfers, Q # <<>>, pc' \in Transfers,
           UNCHANGED <<host, wire, person, tx>>, step \in Later /\ Within => Within'
    PROVE  HostInv' /\ Early'
<1> USE DEF host, person
<1>1. /\ runs # 0 /\ step \notin {"open", "syn", "monitor"}
      /\ step \in Later => waiting /\ Awaited
    BY Consuming
<1>2. HostInv'
    BY <1>1 DEF HostInv, Answered, Transfers, Together, Awaited
<1>3. Early'
    BY <1>1 DEF Early, Transfers, Together
<1> QED
    BY <1>2, <1>3

LEMMA Acknowledges ==
    ASSUME Together, pc \in Transfers, Q # <<>>, pc' \in Transfers \union {"magic"},
           UNCHANGED <<host, wire, person>>, tx' = tx \o <<"ACK">>,
           step \in Later /\ Within =>
               /\ Q' = <<>> /\ Right'
               /\ \/ NextStep' # "monitor" /\ At(NextStep, NextSent)'
                  \/ NextStep' = "monitor" /\ Received'
    PROVE  HostInv' /\ Early'
<1> USE DEF host, person
<1>1. /\ runs # 0 /\ step \notin {"open", "syn", "monitor"}
      /\ step \in Later => waiting /\ Awaited
    BY Consuming
<1>2. /\ tx' # <<>> /\ (tx # <<>> => Head(tx') = Head(tx))
      /\ (tx = <<>> => tx' = <<"ACK">>)
    BY Replied, Texts DEF Together
<1>3. step \in Later => Answered'
    BY <1>1, <1>2 DEF Answered, Awaited
<1>4. HostInv'
    BY <1>1, <1>3 DEF HostInv, Transfers, Together
<1>5. Early'
    BY <1>1 DEF Early, Transfers, Together
<1> QED
    BY <1>4, <1>5

LEMMA Refuses ==
    ASSUME Together, pc \in Transfers, Q # <<>>, pc' = "out",
           UNCHANGED <<host, wire, person>>, tx' = tx \o <<"NAK">>,
           Clean => Q' = <<>>
    PROVE  HostInv' /\ Early'
<1> USE DEF host, person
<1>1. /\ runs # 0 /\ step \notin {"open", "syn", "monitor"}
      /\ step \in Later => waiting /\ Awaited
    BY Consuming
<1>2. /\ tx' # <<>> /\ (tx # <<>> => Head(tx') = Head(tx))
      /\ (tx = <<>> => tx' = <<"NAK">>)
    BY Replied, Texts DEF Together
<1>3. step \in Later => tx' # <<>> /\ Head(tx') # "ACK"
    BY <1>1, <1>2, Texts DEF Awaited
<1>4. HostInv'
    BY <1>1, <1>3 DEF HostInv, Answered, Transfers, Together, Clean
<1>5. Early'
    BY <1>1 DEF Early, Together, Clean
<1> QED
    BY <1>4, <1>5

----------------------------------------------------------------------------
(* The device reads the sizes.                                             *)

LEMMA Layout ==
    /\ KERNEL_LOAD_ADDR \in Nat /\ DTB_LOAD_ADDR \in Nat /\ MEMORY_END \in Nat
    /\ MEMORY_END < Device!AddrSpace /\ CHUNK_SIZE \in Nat \ {0} /\ ByteBase \in Nat \ {0}
    /\ Device!AddrSpace \in Nat /\ Device!Addr = 0 .. (Device!AddrSpace - 1)
    /\ \A b \in Byte : b \in Nat
<1>1. ByteBase \in Nat /\ Device!AddrSpace \in Nat
    BY Bytes
<1> QED
    BY <1>1, Bytes, LinkAssumption DEF Device!Addr

LEMMA Division ==
    ASSUME NEW n \in Nat, NEW b \in Nat \ {0}
    PROVE  n = b * (n \div b) + (n % b)
BY SMT

(* A length is what its digits stand for. *)
LEMMA LengthOfDigits ==
    ASSUME NEW f, File(f)
    PROVE  /\ Low(f) \in Nat /\ High(f) \in Nat
           /\ Low(f) + ByteBase * High(f) = Len(f)
<1>1. Len(f) \in Nat /\ ByteBase \in Nat \ {0}
    BY LenProperties, Bytes DEF File
<1>2. Len(f) < ByteBase * ByteBase
    BY Bytes DEF File
<1>3. Low(f) \in Nat /\ High(f) \in Nat
    BY <1>1, <1>2, Digits, Layout DEF Low, High
<1>4. Len(f) = ByteBase * (Len(f) \div ByteBase) + (Len(f) % ByteBase)
    BY <1>1, Division
<1> QED
    BY <1>1, <1>3, <1>4 DEF Low, High

(* In the states of a transfer, what Unit says of the next byte. *)
LEMMA NextByte ==
    ASSUME Together, Clean, pc \in Transfers, Q # <<>>
    PROVE  /\ Flight <= Need
           /\ Flight = Need => Right /\ Q[1] = Coming(1)
           /\ Flight = Need => \A j \in 1 .. Flight : Q[j] = Coming(j)
<1>1. 1 \in 1 .. Flight
    BY Lengths DEF Together
<1> QED
    BY <1>1 DEF Together, Unit

LEMMA KernelSizeLowStep ==
    ASSUME Together, DeviceRuns, Device!KernelSizeLow
    PROVE  Together'
<1>1. PICK b \in Byte : Device!Get(b) /\ kernel_size' = b
    BY DEF Device!KernelSizeLow, Byte
<1>2. /\ pc = "kernel_size_lo" /\ pc' = "kernel_size_hi"
      /\ UNCHANGED <<host, wire, person, tx, mem, dtb_size, ptr, remaining, i>>
    BY DEF Device!KernelSizeLow, DeviceRuns
<1>3. /\ Q # <<>> /\ Flight \in Nat \ {0} /\ b = Q[1] /\ rx' \in Seq(Byte)
      /\ Flight' <= Flight - 1 /\ Flight' >= Flight - 1 /\ Flight' \in Nat
      /\ (Flight = 2 => Q'[1] = Q[2])
    BY <1>1, <1>2, Taken DEF Together
<1>4. Clean => Unit'
  <2>1. SUFFICES ASSUME Clean PROVE Unit'
    OBVIOUS
  <2>2. Need = 2 /\ Need' = 1
    BY <1>2 DEF Need
  <2>3. Flight' <= 1
    BY <1>2, <1>3, <2>1, <2>2, NextByte DEF Transfers
  <2>4. ASSUME Flight' = 1 PROVE kernel_size' = Low(kernel) /\ Q'[1] = High(kernel)
    <3>1. Flight = 2 /\ 1 \in 1 .. Flight /\ 2 \in 1 .. Flight
      BY <1>3, <2>4
    <3>2. \A j \in 1 .. Flight : Q[j] = Coming(j)
      BY <1>2, <1>3, <2>1, <2>2, <3>1, NextByte DEF Transfers
    <3>3. Q[1] = Coming(1) /\ Q[2] = Coming(2)
      BY <3>1, <3>2
    <3>4. Coming(1) = Low(kernel) /\ Coming(2) = High(kernel)
      BY <1>2 DEF Coming
    <3> QED
      BY <1>1, <1>3, <3>3, <3>4, <3>1
  <2>5. kernel' = kernel
    BY <1>2 DEF host
  <2>6. ASSUME Flight' = Need'
        PROVE  Right' /\ \A j \in 1 .. Flight' : Q'[j] = Coming(j)'
    BY <1>2, <2>2, <2>4, <2>5, <2>6 DEF Right, Coming, Low, High
  <2> QED
    BY <1>2, <2>2, <2>3, <2>6 DEF Unit
<1>5. HostInv' /\ Early'
  <2>1. Within => Within'
    BY <1>2 DEF Within, host
  <2> QED
    BY <1>2, <1>3, <2>1, GoesOnWithin DEF Transfers
<1>6. Local'
    BY <1>1, <1>2, <1>3, Layout DEF Local, Together, person
<1>7. Inv' /\ Clean' = Clean
    BY <1>2 DEF Inv, File, Together, Clean, host, person
<1> QED
    BY <1>4, <1>5, <1>6, <1>7 DEF Together

LEMMA DtbSizeLowStep ==
    ASSUME Together, DeviceRuns, Device!DtbSizeLow
    PROVE  Together'
<1>1. PICK b \in Byte : Device!Get(b) /\ dtb_size' = b
    BY DEF Device!DtbSizeLow, Byte
<1>2. /\ pc = "dtb_size_lo" /\ pc' = "dtb_size_hi"
      /\ UNCHANGED <<host, wire, person, tx, mem, kernel_size, ptr, remaining, i>>
    BY DEF Device!DtbSizeLow, DeviceRuns
<1>3. /\ Q # <<>> /\ Flight \in Nat \ {0} /\ b = Q[1] /\ rx' \in Seq(Byte)
      /\ Flight' <= Flight - 1 /\ Flight' >= Flight - 1 /\ Flight' \in Nat
      /\ (Flight = 2 => Q'[1] = Q[2])
    BY <1>1, <1>2, Taken DEF Together
<1>4. Clean => Unit'
  <2>1. SUFFICES ASSUME Clean PROVE Unit'
    OBVIOUS
  <2>2. Need = 2 /\ Need' = 1
    BY <1>2 DEF Need
  <2>3. Flight' <= 1
    BY <1>2, <1>3, <2>1, <2>2, NextByte DEF Transfers
  <2>4. ASSUME Flight' = 1 PROVE dtb_size' = Low(dtb) /\ Q'[1] = High(dtb)
    <3>1. Flight = 2 /\ 1 \in 1 .. Flight /\ 2 \in 1 .. Flight
      BY <1>3, <2>4
    <3>2. \A j \in 1 .. Flight : Q[j] = Coming(j)
      BY <1>2, <1>3, <2>1, <2>2, <3>1, NextByte DEF Transfers
    <3>3. Q[1] = Coming(1) /\ Q[2] = Coming(2)
      BY <3>1, <3>2
    <3>4. Coming(1) = Low(dtb) /\ Coming(2) = High(dtb)
      BY <1>2 DEF Coming
    <3> QED
      BY <1>1, <1>3, <3>3, <3>4, <3>1
  <2>5. kernel' = kernel /\ dtb' = dtb
    BY <1>2 DEF host
  <2>6. ASSUME Flight' = Need'
        PROVE  Right' /\ \A j \in 1 .. Flight' : Q'[j] = Coming(j)'
    <3>1. Right
      BY <1>2, <1>3, <2>1, <2>2, <2>6, NextByte DEF Transfers
    <3>2. Right'
      BY <1>2, <2>2, <2>4, <2>5, <2>6, <3>1
         DEF Right, KernelIn, KernelCopied, Copied, Low
    <3> QED
      BY <1>2, <2>2, <2>4, <2>5, <2>6, <3>2 DEF Coming, High
  <2> QED
    BY <1>2, <2>2, <2>3, <2>6 DEF Unit
<1>5. HostInv' /\ Early'
  <2>1. Within => Within'
    BY <1>2 DEF Within, host
  <2> QED
    BY <1>2, <1>3, <2>1, GoesOnWithin DEF Transfers
<1>6. Local'
    BY <1>1, <1>2, <1>3, Layout DEF Local, Together, person
<1>7. Inv' /\ Clean' = Clean
    BY <1>2 DEF Inv, File, Together, Clean, host, person
<1> QED
    BY <1>4, <1>5, <1>6, <1>7 DEF Together

(* The second digit completes the size, which is the file's if it counts. *)
LEMMA SizeComplete ==
    ASSUME Together, Clean, NEW b, Device!Get(b), wire' = wire,
           pc \in {"kernel_size_hi", "dtb_size_hi"}
    PROVE  /\ Q' = <<>> /\ Right
           /\ pc = "kernel_size_hi" => kernel_size + ByteBase * b = Len(kernel)
           /\ pc = "dtb_size_hi" => dtb_size + ByteBase * b = Len(dtb)
<1>1. /\ Q # <<>> /\ Flight \in Nat \ {0} /\ b = Q[1]
      /\ (Q' = <<>> <=> Flight = 1)
    BY Taken DEF Together
<1>2. Need = 1 /\ pc \in Transfers
    BY DEF Need, Transfers
<1>3. Flight = 1
  <2>1. Flight <= 1
    BY <1>1, <1>2, NextByte
  <2> QED
    BY <1>1, <2>1
<1>4. Right /\ b = Coming(1)
    BY <1>1, <1>2, <1>3, NextByte
<1>5. File(kernel) /\ File(dtb)
    BY DEF Together, Inv
<1>6. pc = "kernel_size_hi" => kernel_size = Low(kernel) /\ b = High(kernel)
    BY <1>4 DEF Right, Coming
<1>7. pc = "dtb_size_hi" => dtb_size = Low(dtb) /\ b = High(dtb)
    BY <1>4 DEF Right, Coming
<1> QED
    BY <1>1, <1>3, <1>4, <1>5, <1>6, <1>7, LengthOfDigits

LEMMA KernelFitsRam ==
    ASSUME NEW n \in Nat, Device!KernelFits(n)
    PROVE  n # 0 /\ (n < Device!AddrSpace => KERNEL_LOAD_ADDR + n <= MEMORY_END)
BY Layout DEF Device!KernelFits, Device!Add

LEMMA KernelSizeHighStep ==
    ASSUME Together, DeviceRuns, Device!KernelSizeHigh
    PROVE  Together'
<1>1. PICK b \in Byte :
          LET n == kernel_size + ByteBase * b IN
          /\ Device!Get(b)
          /\ \/ /\ Device!KernelFits(n) /\ kernel_size' = n
                /\ Device!Expect(KERNEL_LOAD_ADDR, n, "kernel")
                /\ UNCHANGED <<c, t, dtb_size>>
             \/ ~ Device!KernelFits(n) /\ Device!Refuse
    BY DEF Device!KernelSizeHigh, Byte
<1> DEFINE n == kernel_size + ByteBase * b
<1>2. /\ pc = "kernel_size_hi" /\ UNCHANGED <<host, wire, person, mem>>
      /\ Q # <<>> /\ rx' \in Seq(Byte) /\ Device!Get(b) /\ n \in Nat
  <2>1. pc = "kernel_size_hi" /\ UNCHANGED <<host, wire, person, mem>>
    BY DEF Device!KernelSizeHigh, DeviceRuns
  <2>2. Q # <<>> /\ rx' \in Seq(Byte) /\ Device!Get(b)
    BY <1>1, <2>1, Taken DEF Together
  <2>3. kernel_size \in Nat /\ b \in Nat /\ ByteBase \in Nat
    BY Layout DEF Together, Local
  <2>4. ByteBase * b \in Nat
    BY <2>3
  <2> QED
    BY <2>1, <2>2, <2>3, <2>4
<1>3. Clean => Q' = <<>> /\ n = Len(kernel)
    BY <1>2, SizeComplete
<1>4. Inv' /\ Clean' = Clean
  <2>1. tx' \in Seq(Device!Reply)
    BY DeviceReplies DEF DeviceRuns, Together
  <2> QED
    BY <1>2, <2>1 DEF Inv, File, Together, Clean, host, person
<1>5. ASSUME Device!KernelFits(n), kernel_size' = n,
             Device!Expect(KERNEL_LOAD_ADDR, n, "kernel"), UNCHANGED dtb_size
      PROVE  Together'
  <2>1. /\ tx' = tx \o <<"ACK">> /\ pc' = "kernel" /\ ptr' = KERNEL_LOAD_ADDR
        /\ remaining' = n /\ i' = 0
    BY <1>5 DEF Device!Expect, Device!Put
  <2>2. n # 0 /\ (Clean => KERNEL_LOAD_ADDR + n <= MEMORY_END)
    BY <1>2, <1>3, <1>5, KernelFitsRam DEF Together, Inv, File
  <2>3. i' < Device!chunk'
    BY <1>2, <2>1, <2>2, Layout DEF Device!chunk, Device!Lesser
  <2>4. Local'
    BY <1>2, <1>5, <2>1, <2>3, Layout DEF Local, Together, person
  <2>5. ASSUME Clean PROVE Q' = <<>> /\ Right'
    <3>1. kernel # <<>> /\ kernel' = kernel
      BY <1>2, <1>3, <2>2, <2>5, EmptySeq DEF host
    <3>2. KernelIn'
      BY <1>3, <1>5, <2>2, <2>5, <3>1 DEF KernelIn
    <3>3. Filling(KERNEL_LOAD_ADDR, kernel)'
      BY <1>2, <1>3, <2>1, <2>5, <3>1, Layout DEF Filling, Copied
    <3> QED
      BY <1>3, <2>1, <2>5, <3>2, <3>3 DEF Right
  <2>6. Clean => Unit'
    <3>1. Need' > 0 /\ Need' \in Int
      BY <1>2, <2>1, <2>2, <2>3, Layout DEF Need, Device!chunk, Device!Lesser
    <3> QED
      BY <2>1, <2>5, <3>1, EmptySeq DEF Unit, Transfers, Flight
  <2>7. ASSUME step \in Later, Within
        PROVE  NextStep' # "monitor" /\ At(NextStep, NextSent)'
    <3>1. step = "kernel_size" /\ step' = step /\ kernel' = kernel /\ kernel # <<>>
      BY <1>2, <1>3, <2>2, <2>7, EmptySeq DEF Within, Later, host, Clean, Together, HostInv, Received
    <3>2. NextStep' = "kernel" /\ NextSent' = 0
      BY <3>1 DEF NextStep, NextSent, MoreOfFile, Host!StepAfter
    <3> QED
      BY <2>1, <3>2, Layout DEF At
  <2>8. HostInv' /\ Early'
    BY <1>2, <2>1, <2>5, <2>7, Acknowledges DEF Transfers, Clean
  <2> QED
    BY <1>4, <2>4, <2>6, <2>8 DEF Together
<1>6. ASSUME Device!Refuse PROVE Together'
  <2>1. /\ tx' = tx \o <<"NAK">> /\ pc' = "out"
        /\ kernel_size' = 0 /\ dtb_size' = 0 /\ remaining' = 0 /\ i' = 0
        /\ ptr' = KERNEL_LOAD_ADDR
    BY <1>6 DEF Device!Refuse, Device!Return, Device!Put
  <2>2. HostInv' /\ Early'
    BY <1>2, <1>3, <2>1, Refuses DEF Transfers
  <2>3. Local'
    BY <1>2, <2>1, Layout DEF Local, Together, person
  <2>4. Unit'
    BY <2>1 DEF Unit, Transfers
  <2> QED
    BY <1>4, <2>2, <2>3, <2>4 DEF Together
<1> QED
    BY <1>1, <1>5, <1>6

DtbFitting(n) ==
    /\ DTB_LOAD_ADDR + n <= MEMORY_END
    /\ \/ DTB_LOAD_ADDR + n <= KERNEL_LOAD_ADDR
       \/ KERNEL_LOAD_ADDR + Len(kernel) <= DTB_LOAD_ADDR

LEMMA DtbFitsRam ==
    ASSUME NEW n \in Nat, Device!DtbFits(n), Inv
    PROVE  n # 0 /\ (n < Device!AddrSpace /\ KernelIn => DtbFitting(n))
<1>1. Len(kernel) \in Nat
    BY LenProperties DEF Inv, File
<1>2. n # 0
    BY DEF Device!DtbFits
<1>3. ASSUME n < Device!AddrSpace, KernelIn PROVE DtbFitting(n)
  <2>1. Device!kernel_end = KERNEL_LOAD_ADDR + Len(kernel)
    BY <1>1, <1>3, Layout DEF KernelIn, Device!kernel_end, Device!Add
  <2>2. Device!Add(DTB_LOAD_ADDR, n) = DTB_LOAD_ADDR + n /\ DTB_LOAD_ADDR + n <= MEMORY_END
    BY <1>3, Layout DEF Device!DtbFits, Device!Add
  <2> QED
    BY <1>1, <2>1, <2>2, Layout DEF Device!DtbFits, DtbFitting
<1> QED
    BY <1>2, <1>3

LEMMA DtbSizeHighStep ==
    ASSUME Together, DeviceRuns, Device!DtbSizeHigh
    PROVE  Together'
<1>1. PICK b \in Byte :
          LET n == dtb_size + ByteBase * b IN
          /\ Device!Get(b)
          /\ \/ /\ Device!DtbFits(n) /\ dtb_size' = n
                /\ Device!Expect(DTB_LOAD_ADDR, n, "dtb")
                /\ UNCHANGED <<c, t, kernel_size>>
             \/ ~ Device!DtbFits(n) /\ Device!Refuse
    BY DEF Device!DtbSizeHigh, Byte
<1> DEFINE n == dtb_size + ByteBase * b
<1>2. /\ pc = "dtb_size_hi" /\ UNCHANGED <<host, wire, person, mem>>
      /\ Q # <<>> /\ rx' \in Seq(Byte) /\ Device!Get(b) /\ n \in Nat
  <2>1. pc = "dtb_size_hi" /\ UNCHANGED <<host, wire, person, mem>>
    BY DEF Device!DtbSizeHigh, DeviceRuns
  <2>2. Q # <<>> /\ rx' \in Seq(Byte) /\ Device!Get(b)
    BY <1>1, <2>1, Taken DEF Together
  <2>3. dtb_size \in Nat /\ b \in Nat /\ ByteBase \in Nat
    BY Layout DEF Together, Local
  <2>4. ByteBase * b \in Nat
    BY <2>3
  <2> QED
    BY <2>1, <2>2, <2>3, <2>4
<1>3. Clean => Q' = <<>> /\ n = Len(dtb) /\ Right
    BY <1>2, SizeComplete
<1>4. Inv' /\ Clean' = Clean
  <2>1. tx' \in Seq(Device!Reply)
    BY DeviceReplies DEF DeviceRuns, Together
  <2> QED
    BY <1>2, <2>1 DEF Inv, File, Together, Clean, host, person
<1>5. ASSUME Device!DtbFits(n), dtb_size' = n,
             Device!Expect(DTB_LOAD_ADDR, n, "dtb"), UNCHANGED kernel_size
      PROVE  Together'
  <2>1. /\ tx' = tx \o <<"ACK">> /\ pc' = "dtb" /\ ptr' = DTB_LOAD_ADDR
        /\ remaining' = n /\ i' = 0
    BY <1>5 DEF Device!Expect, Device!Put
  <2>2. n # 0 /\ (Clean => KernelIn /\ KernelCopied /\ DtbFitting(n))
    <3>1. Clean => KernelIn /\ KernelCopied
      BY <1>2, <1>3 DEF Right
    <3> QED
      BY <1>2, <1>3, <1>5, <3>1, DtbFitsRam DEF Together, Inv, File
  <2>3. i' < Device!chunk'
    BY <1>2, <2>1, <2>2, Layout DEF Device!chunk, Device!Lesser
  <2>4. Local'
    BY <1>2, <1>5, <2>1, <2>3, Layout DEF Local, Together, person
  <2>5. ASSUME Clean PROVE Q' = <<>> /\ Right'
    <3>1. dtb # <<>> /\ dtb' = dtb /\ kernel' = kernel /\ kernel_size' = kernel_size
      BY <1>2, <1>3, <1>5, <2>2, <2>5, EmptySeq DEF host
    <3>2. DtbIn'
      BY <1>3, <1>5, <2>2, <2>5, <3>1 DEF DtbIn, DtbFitting
    <3>3. Filling(DTB_LOAD_ADDR, dtb)'
      BY <1>2, <1>3, <2>1, <2>5, <3>1, Layout DEF Filling, Copied
    <3>4. KernelIn' /\ KernelCopied'
      BY <1>2, <2>2, <2>5, <3>1 DEF KernelIn, KernelCopied, Copied
    <3> QED
      BY <1>3, <2>1, <2>5, <3>2, <3>3, <3>4 DEF Right
  <2>6. Clean => Unit'
    <3>1. Need' > 0 /\ Need' \in Int
      BY <1>2, <2>1, <2>2, <2>3, Layout DEF Need, Device!chunk, Device!Lesser
    <3> QED
      BY <2>1, <2>5, <3>1, EmptySeq DEF Unit, Transfers, Flight
  <2>7. ASSUME step \in Later, Within
        PROVE  NextStep' # "monitor" /\ At(NextStep, NextSent)'
    <3>1. step = "dtb_size" /\ step' = step /\ dtb' = dtb /\ dtb # <<>>
      BY <1>2, <1>3, <2>2, <2>7, EmptySeq DEF Within, Later, host, Clean, Together, HostInv, Received
    <3>2. NextStep' = "dtb" /\ NextSent' = 0
      BY <3>1 DEF NextStep, NextSent, MoreOfFile, Host!StepAfter
    <3> QED
      BY <2>1, <3>2, Layout DEF At
  <2>8. HostInv' /\ Early'
    BY <1>2, <2>1, <2>5, <2>7, Acknowledges DEF Transfers, Clean
  <2> QED
    BY <1>4, <2>4, <2>6, <2>8 DEF Together
<1>6. ASSUME Device!Refuse PROVE Together'
  <2>1. /\ tx' = tx \o <<"NAK">> /\ pc' = "out"
        /\ dtb_size' = 0 /\ kernel_size' = 0 /\ remaining' = 0 /\ i' = 0
        /\ ptr' = KERNEL_LOAD_ADDR
    BY <1>6 DEF Device!Refuse, Device!Return, Device!Put
  <2>2. HostInv' /\ Early'
    BY <1>2, <1>3, <2>1, Refuses DEF Transfers
  <2>3. Local'
    BY <1>2, <2>1, Layout DEF Local, Together, person
  <2>4. Unit'
    BY <2>1 DEF Unit, Transfers
  <2> QED
    BY <1>4, <2>2, <2>3, <2>4 DEF Together
<1> QED
    BY <1>1, <1>5, <1>6

----------------------------------------------------------------------------
(* The device receives a file.                                             *)

(* The byte that comes is the next of the file, and is put behind the rest.*)
LEMMA Stored ==
    ASSUME Inv, Local, NEW base \in Nat, NEW f, File(f), base + Len(f) <= MEMORY_END,
           Filling(base, f), pc \in {"kernel", "dtb"},
           NEW b, b = f[ptr - base + 1],
           mem' = [mem EXCEPT ![ptr] = b], ptr' = Device!Add(ptr, 1)
    PROVE  /\ ptr' = ptr + 1 /\ base <= ptr /\ ptr < base + Len(f) /\ Len(f) \in Nat
           /\ remaining - i = base + Len(f) - ptr
           /\ \A a \in 1 .. (ptr + 1 - base) : mem'[base + a - 1] = f[a]
           /\ \A x \in Device!Addr : x # ptr => mem'[x] = mem[x]
<1>1. /\ Len(f) \in Nat /\ ptr \in Nat /\ remaining \in Nat /\ i \in Nat
      /\ i < Device!chunk /\ mem \in [Device!Addr -> Byte]
    BY LenProperties DEF Local, File
<1>2. Device!chunk <= remaining
    BY <1>1, Layout DEF Device!chunk, Device!Lesser
<1>3. base <= ptr /\ ptr < base + Len(f) /\ remaining - i = base + Len(f) - ptr
    BY <1>1, <1>2, Layout DEF Filling, Device!chunk, Device!Lesser
<1>4. ptr' = ptr + 1 /\ ptr \in Device!Addr
    BY <1>1, <1>3, Layout DEF Device!Add
<1>5. \A x \in Device!Addr : x # ptr => mem'[x] = mem[x]
    BY <1>1
<1>6. ASSUME NEW a \in 1 .. (ptr + 1 - base)
      PROVE  mem'[base + a - 1] = f[a]
  <2>1. CASE a = ptr - base + 1
    BY <1>1, <1>3, <1>4, <2>1
  <2>2. CASE a # ptr - base + 1
    <3>1. a \in 1 .. (ptr - base) /\ base + a - 1 \in Device!Addr /\ base + a - 1 # ptr
      BY <1>1, <1>3, <1>4, <1>6, <2>2, Layout
    <3>2. mem[base + a - 1] = f[a]
      BY <3>1 DEF Filling, Copied
    <3> QED
      BY <1>5, <3>1, <3>2
  <2> QED
    BY <2>1, <2>2
<1> QED
    BY <1>1, <1>3, <1>4, <1>5, <1>6

(* The length of a chunk, and what is left after it, on both ends.         *)
LEMMA ChunkEnds ==
    ASSUME NEW rem \in Nat, NEW len \in Nat, NEW done \in Nat, NEW k \in Nat,
           rem = len - done, k < Device!Lesser(rem, CHUNK_SIZE)
    PROVE  /\ Device!Lesser(rem, CHUNK_SIZE) \in Nat
           /\ k + 1 = Device!Lesser(rem, CHUNK_SIZE) /\ rem - (k + 1) > 0 =>
                 done + CHUNK_SIZE < len /\ k + 1 = CHUNK_SIZE
           /\ k + 1 = Device!Lesser(rem, CHUNK_SIZE) /\ ~ (rem - (k + 1) > 0) =>
                 ~ (done + CHUNK_SIZE < len) /\ k + 1 = rem
BY Layout DEF Device!Lesser

(* What stays so while bytes are received.                                 *)
LEMMA ReceiveLocal ==
    ASSUME Inv, Local, NEW b \in Byte, Device!Get(b), mem' = [mem EXCEPT ![ptr] = b],
           ptr' = Device!Add(ptr, 1), rx' \in Seq(Byte), pc \in {"kernel", "dtb"},
           UNCHANGED <<person, kernel_size>>, dtb_size' \in {0, dtb_size},
           \/ i + 1 < Device!chunk /\ i' = i + 1 /\ UNCHANGED <<pc, remaining>>
           \/ /\ i + 1 = Device!chunk /\ i' = 0 /\ remaining' = remaining - Device!chunk
              /\ remaining' > 0 \/ pc' \notin {"kernel", "dtb"}
    PROVE  Local'
<1>1. /\ ptr \in Nat /\ remaining \in Nat /\ i \in Nat /\ i < Device!chunk
      /\ Device!chunk \in Nat /\ Device!chunk <= remaining /\ mem \in [Device!Addr -> Byte]
    BY Layout DEF Local, Device!chunk, Device!Lesser
<1>2. mem' \in [Device!Addr -> Byte]
    BY <1>1
<1>3. ptr' \in Nat
    BY <1>1, Layout DEF Device!Add
<1>4. i' \in Nat /\ remaining' \in Nat
    BY <1>1
<1>5. pc' \in {"kernel", "dtb"} => i' < Device!chunk'
    BY <1>1, <1>4, Layout DEF Device!chunk, Device!Lesser
<1> QED
    BY <1>2, <1>3, <1>4, <1>5, SMTT(30) DEF Local, person

LEMMA KernelByteStep ==
    ASSUME Together, DeviceRuns, Device!KernelByte
    PROVE  Together'
<1>1. PICK b \in Byte : Device!Get(b) /\ mem' = [mem EXCEPT ![ptr] = b]
    BY DEF Device!KernelByte, Device!Receive, Byte
<1>2. /\ pc = "kernel" /\ pc \in Transfers /\ ptr' = Device!Add(ptr, 1)
      /\ UNCHANGED <<host, wire, person, kernel_size>>
      /\ \/ i + 1 < Device!chunk /\ i' = i + 1 /\ UNCHANGED <<pc, remaining, tx>>
         \/ /\ i + 1 = Device!chunk /\ i' = 0 /\ remaining' = remaining - Device!chunk
            /\ tx' = tx \o <<"ACK">>
            /\ pc' = IF remaining' > 0 THEN "kernel" ELSE "dtb_size_lo"
    BY DEF Device!KernelByte, Device!Receive, DeviceRuns, Device!Put, Transfers
<1>3. /\ Q # <<>> /\ Flight \in Nat \ {0} /\ b = Q[1] /\ rx' \in Seq(Byte)
      /\ Flight' <= Flight - 1 /\ Flight' >= Flight - 1 /\ Flight' \in Nat
      /\ \A j \in 1 .. (Flight - 1) : Q'[j] = Q[j + 1]
      /\ (Q' = <<>> <=> Flight = 1)
    BY <1>1, <1>2, Taken DEF Together
<1>4. Inv' /\ Clean' = Clean
  <2>1. tx' \in Seq(Device!Reply)
    BY DeviceReplies DEF DeviceRuns, Together
  <2> QED
    BY <1>2, <2>1 DEF Inv, File, Together, Clean, host, person
<1>5. Local'
  <2>1. dtb_size' \in {0, dtb_size}
    BY DEF Device!KernelByte
  <2> QED
    BY <1>1, <1>2, <1>3, <2>1, ReceiveLocal DEF Together
<1>6. /\ i \in Nat /\ remaining \in Nat /\ ptr \in Nat /\ sent \in Nat
      /\ i < Device!chunk /\ Device!chunk \in Nat
      /\ Need = Device!chunk - i
    BY <1>2, Layout DEF Together, Local, Inv, Device!chunk, Device!Lesser, Need
<1>7. ASSUME Clean, Flight = Need
      PROVE  /\ KernelIn' /\ ptr' = ptr + 1 /\ KERNEL_LOAD_ADDR <= ptr
             /\ Len(kernel) \in Nat
             /\ remaining - i = KERNEL_LOAD_ADDR + Len(kernel) - ptr
             /\ \A a \in 1 .. (ptr + 1 - KERNEL_LOAD_ADDR) :
                   mem'[KERNEL_LOAD_ADDR + a - 1] = kernel[a]
             /\ \A j \in 1 .. Flight : Q[j] = Coming(j)
  <2>1. Right /\ b = Coming(1) /\ \A j \in 1 .. Flight : Q[j] = Coming(j)
    BY <1>2, <1>3, <1>7, NextByte
  <2>2. KernelIn /\ Filling(KERNEL_LOAD_ADDR, kernel) /\ b = kernel[ptr - KERNEL_LOAD_ADDR + 1]
    BY <1>2, <2>1 DEF Right, Coming
  <2>3. /\ ptr' = ptr + 1 /\ KERNEL_LOAD_ADDR <= ptr /\ Len(kernel) \in Nat
        /\ remaining - i = KERNEL_LOAD_ADDR + Len(kernel) - ptr
        /\ \A a \in 1 .. (ptr + 1 - KERNEL_LOAD_ADDR) :
              mem'[KERNEL_LOAD_ADDR + a - 1] = kernel[a]
  <3>1. /\ Inv /\ Local /\ KERNEL_LOAD_ADDR \in Nat /\ File(kernel)
        /\ KERNEL_LOAD_ADDR + Len(kernel) <= MEMORY_END /\ pc \in {"kernel", "dtb"}
      BY <1>2, <2>2, Layout DEF Together, Inv, KernelIn
  <3> QED
      BY <1>1, <1>2, <2>2, <3>1, Stored, ZenonT(30)
  <2>4. KernelIn'
    BY <1>2, <2>2 DEF KernelIn, host
  <2> QED
    BY <2>1, <2>3, <2>4
<1>8. CASE i + 1 < Device!chunk
  <2>1. i' = i + 1 /\ UNCHANGED <<pc, remaining, tx>>
    BY <1>2, <1>6, <1>8
  <2>2. Device!chunk' = Device!chunk /\ Need' = Need - 1
    BY <1>2, <1>6, <2>1 DEF Need, Device!chunk
  <2>3. Flight' = Need' => Flight = Need
    BY <1>3, <1>6, <2>2
  <2>4. Clean => Unit'
    <3>1. Clean => Flight' <= Need'
      BY <1>2, <1>3, <1>6, <2>2, NextByte
    <3>2. ASSUME Clean, Flight' = Need'
          PROVE  Right' /\ \A j \in 1 .. Flight' : Q'[j] = Coming(j)'
      <4>1. Filling(KERNEL_LOAD_ADDR, kernel)'
        <5>1. ptr' - KERNEL_LOAD_ADDR = ptr + 1 - KERNEL_LOAD_ADDR /\ KERNEL_LOAD_ADDR <= ptr'
              /\ remaining' - i' = KERNEL_LOAD_ADDR + Len(kernel) - ptr'
          <6>1. /\ ptr' = ptr + 1 /\ KERNEL_LOAD_ADDR <= ptr /\ Len(kernel) \in Nat
                /\ remaining - i = KERNEL_LOAD_ADDR + Len(kernel) - ptr
            BY <1>7, <2>3, <3>2
          <6> QED
            BY <1>6, <2>1, <6>1, Layout
        <5> QED
          BY <1>2, <1>7, <2>3, <3>2, <5>1 DEF Filling, Copied, host
      <4>2. Right'
        BY <1>2, <1>7, <2>1, <2>3, <3>2, <4>1 DEF Right
      <4>3. ASSUME NEW j \in 1 .. Flight' PROVE Q'[j] = Coming(j)'
        <5>1. j \in 1 .. (Flight - 1) /\ j + 1 \in 1 .. Flight /\ j \in Nat
          BY <1>3, <4>3
        <5>2. Q'[j] = Coming(j + 1)
          BY <1>3, <1>7, <2>3, <3>2, <5>1
        <5>3. ptr - KERNEL_LOAD_ADDR + (j + 1) = ptr' - KERNEL_LOAD_ADDR + j
          BY <1>6, <1>7, <2>3, <3>2, <5>1, Layout
        <5>4. Coming(j + 1) = kernel[ptr - KERNEL_LOAD_ADDR + (j + 1)]
          BY <1>2 DEF Coming
        <5>5. Coming(j)' = kernel[ptr' - KERNEL_LOAD_ADDR + j]
          BY <1>2, <2>1 DEF Coming, host
        <5> QED
          BY <5>2, <5>3, <5>4, <5>5
      <4> QED
        BY <4>2, <4>3
    <3> QED
      BY <1>2, <2>1, <3>1, <3>2 DEF Unit, Transfers
  <2>5. step \in Later /\ Within => Within'
    <3>1. SUFFICES ASSUME step \in Later, Within PROVE Within'
      OBVIOUS
    <3>2. UNCHANGED <<step, sent>> /\ Clean
      BY <1>2, <3>1 DEF host, Clean
    <3>3. step \in {"kernel", "monitor"}
      BY <1>2, <3>1 DEF Within, Later
    <3>4. ASSUME step = "kernel", Flight' = Need' PROVE ptr' = KERNEL_LOAD_ADDR + sent' + i'
      <4>1. ptr' = ptr + 1 /\ ptr = KERNEL_LOAD_ADDR + sent + i
        BY <1>7, <2>3, <3>1, <3>2, <3>4 DEF Within
      <4> QED
        BY <1>6, <2>1, <3>2, <4>1, Layout
    <3> QED
      BY <1>2, <2>1, <3>2, <3>3, <3>4 DEF Within
  <2>6. HostInv' /\ Early'
    BY <1>2, <1>3, <2>1, <2>5, GoesOnWithin
  <2> QED
    BY <1>4, <1>5, <2>4, <2>6 DEF Together
<1>9. CASE i + 1 = Device!chunk
  <2>1. /\ i' = 0 /\ remaining' = remaining - Device!chunk /\ tx' = tx \o <<"ACK">>
        /\ pc' = IF remaining' > 0 THEN "kernel" ELSE "dtb_size_lo"
    BY <1>2, <1>6, <1>9
  <2>2. /\ remaining' \in Nat /\ remaining' = remaining - (i + 1)
        /\ (remaining' > 0 => Need' > 0) /\ Need' \in Int
        /\ (~ (remaining' > 0) => Need' = 2)
    BY <1>6, <1>9, <2>1, Layout, SMTT(30) DEF Need, Device!chunk, Device!Lesser
  <2>3. Clean => Flight = Need /\ Q' = <<>> /\ Flight' = 0
    <3>1. Need = 1
      BY <1>6, <1>9
    <3>2. Clean => Flight <= 1
      BY <1>2, <1>3, <3>1, NextByte
    <3> QED
      BY <1>3, <3>1, <3>2
  <2>4. Clean => Right'
    <3>1. SUFFICES ASSUME Clean PROVE Right'
      OBVIOUS
    <3>2. CASE remaining' > 0
      <4>1. Filling(KERNEL_LOAD_ADDR, kernel)'
        <5>1. ptr' - KERNEL_LOAD_ADDR = ptr + 1 - KERNEL_LOAD_ADDR /\ KERNEL_LOAD_ADDR <= ptr'
              /\ remaining' - i' = KERNEL_LOAD_ADDR + Len(kernel) - ptr'
          <6>1. /\ ptr' = ptr + 1 /\ KERNEL_LOAD_ADDR <= ptr /\ Len(kernel) \in Nat
                /\ remaining - i = KERNEL_LOAD_ADDR + Len(kernel) - ptr
            BY <1>7, <2>3, <3>1
          <6>2. i \in Nat /\ remaining \in Nat /\ ptr \in Nat
            BY <1>6
          <6>3. i' = 0 /\ remaining' = remaining - (i + 1)
            BY <2>1, <2>2
          <6>4. remaining' - i' = (remaining - i) - 1
            BY <6>2, <6>3
          <6> QED
            BY <6>1, <6>2, <6>4, Layout
        <5> QED
          BY <1>2, <1>7, <2>3, <3>1, <5>1 DEF Filling, Copied, host
      <4> QED
        BY <1>7, <2>1, <2>3, <3>1, <3>2, <4>1 DEF Right
    <3>3. CASE ~ (remaining' > 0)
      <4>1. ptr + 1 - KERNEL_LOAD_ADDR = Len(kernel)
        <5>1. remaining' = 0 /\ remaining = i + 1
          BY <1>6, <2>2, <3>3
        <5>2. remaining - i = KERNEL_LOAD_ADDR + Len(kernel) - ptr /\ Len(kernel) \in Nat
          BY <1>7, <2>3, <3>1
        <5> QED
          BY <1>6, <5>1, <5>2, Layout
      <4>2. KernelCopied'
        BY <1>2, <1>7, <2>3, <3>1, <4>1 DEF KernelCopied, Copied, host
      <4> QED
        BY <1>7, <2>1, <2>3, <3>1, <3>3, <4>2 DEF Right
    <3> QED
      BY <3>2, <3>3
  <2>5. Clean => Unit'
    BY <2>1, <2>2, <2>3 DEF Unit, Transfers
  <2>6. ASSUME step \in Later, Within
        PROVE  NextStep' # "monitor" /\ At(NextStep, NextSent)'
    <3>1. step = "kernel" /\ UNCHANGED <<step, sent, kernel>> /\ Clean
      BY <1>2, <1>3, <2>6, Consuming DEF Within, Later, host, Clean
    <3>2. /\ ptr = KERNEL_LOAD_ADDR + sent + i /\ ptr' = ptr + 1
          /\ remaining = Len(kernel) - sent /\ Len(kernel) \in Nat
      <4>1. /\ ptr = KERNEL_LOAD_ADDR + sent + i /\ ptr' = ptr + 1 /\ Len(kernel) \in Nat
            /\ remaining - i = KERNEL_LOAD_ADDR + Len(kernel) - ptr
        BY <1>7, <2>3, <2>6, <3>1 DEF Within
      <4> QED
        BY <1>6, <4>1, Layout
    <3>3. /\ (remaining' > 0 => sent + CHUNK_SIZE < Len(kernel) /\ i + 1 = CHUNK_SIZE)
          /\ (~ (remaining' > 0) => ~ (sent + CHUNK_SIZE < Len(kernel)))
      <4>1. i < Device!Lesser(remaining, CHUNK_SIZE) /\ i + 1 = Device!Lesser(remaining, CHUNK_SIZE)
        BY <1>6, <1>9 DEF Device!chunk
      <4>2. /\ remaining - (i + 1) > 0 => sent + CHUNK_SIZE < Len(kernel) /\ i + 1 = CHUNK_SIZE
            /\ ~ (remaining - (i + 1) > 0) => ~ (sent + CHUNK_SIZE < Len(kernel))
        BY <1>6, <3>2, <4>1, ChunkEnds
      <4> QED
        BY <2>2, <4>2
    <3>4. CASE remaining' > 0
      <4>1. MoreOfFile' /\ Host!sentNext' = sent + CHUNK_SIZE
        BY <3>1, <3>2, <3>3, <3>4, Layout DEF MoreOfFile, Host!sentNext, Host!file
      <4>2. NextStep' = "kernel" /\ NextSent' = sent + CHUNK_SIZE
        BY <3>1, <4>1 DEF NextStep, NextSent
      <4> QED
        BY <1>6, <2>1, <3>2, <3>3, <3>4, <4>2, Layout DEF At
    <3>5. CASE ~ (remaining' > 0)
      <4>1. ~ MoreOfFile'
        BY <3>1, <3>2, <3>3, <3>5, Layout DEF MoreOfFile, Host!sentNext, Host!file
      <4>2. NextStep' = "dtb_size"
        BY <3>1, <4>1 DEF NextStep, Host!StepAfter
      <4> QED
        BY <2>1, <3>5, <4>2 DEF At
    <3> QED
      BY <3>4, <3>5
  <2>7. HostInv' /\ Early'
    <3>1. step \in Later => Clean
      BY DEF Clean
    <3>2. pc' \in Transfers \union {"magic"}
      BY <2>1 DEF Transfers
    <3> QED
      BY <1>2, <1>3, <2>1, <2>3, <2>4, <2>6, <3>1, <3>2, Acknowledges
  <2> QED
    BY <1>4, <1>5, <2>5, <2>7 DEF Together
<1> QED
  <2>1. i + 1 < Device!chunk \/ i + 1 = Device!chunk
    BY <1>6
  <2> QED
    BY <1>8, <1>9, <2>1
(* The kernel is not overwritten. *)
LEMMA KernelUntouched ==
    ASSUME Inv, Local, KernelIn, KernelCopied, UNCHANGED kernel,
           NEW x \in Nat, x < DTB_LOAD_ADDR + Len(dtb), DTB_LOAD_ADDR <= x,
           \/ DTB_LOAD_ADDR + Len(dtb) <= KERNEL_LOAD_ADDR
           \/ KERNEL_LOAD_ADDR + Len(kernel) <= DTB_LOAD_ADDR,
           NEW b, mem' = [mem EXCEPT ![x] = b]
    PROVE  KernelCopied'
<1>1. Len(kernel) \in Nat /\ Len(dtb) \in Nat
    BY LenProperties DEF Inv, File
<1>2. ASSUME NEW a \in 1 .. Len(kernel)
      PROVE  mem'[KERNEL_LOAD_ADDR + a - 1] = mem[KERNEL_LOAD_ADDR + a - 1]
  <2>1. KERNEL_LOAD_ADDR + a - 1 # x /\ KERNEL_LOAD_ADDR + a - 1 \in Device!Addr
    BY <1>1, <1>2, Layout DEF KernelIn
  <2> QED
    BY <2>1 DEF Local
<1> QED
    BY <1>2 DEF KernelCopied, Copied

LEMMA DtbByteStep ==
    ASSUME Together, DeviceRuns, Device!DtbByte
    PROVE  Together'
<1>1. PICK b \in Byte : Device!Get(b) /\ mem' = [mem EXCEPT ![ptr] = b]
    BY DEF Device!DtbByte, Device!Receive, Byte
<1>2. /\ pc = "dtb" /\ pc \in Transfers /\ ptr' = Device!Add(ptr, 1)
      /\ UNCHANGED <<host, wire, person, kernel_size, dtb_size>>
      /\ \/ i + 1 < Device!chunk /\ i' = i + 1 /\ UNCHANGED <<pc, remaining, tx>>
         \/ /\ i + 1 = Device!chunk /\ i' = 0 /\ remaining' = remaining - Device!chunk
            /\ tx' = tx \o <<"ACK">>
            /\ pc' = IF remaining' > 0 THEN "dtb" ELSE "magic"
    BY DEF Device!DtbByte, Device!Receive, DeviceRuns, Device!Put, Transfers
<1>3. /\ Q # <<>> /\ Flight \in Nat \ {0} /\ b = Q[1] /\ rx' \in Seq(Byte)
      /\ Flight' <= Flight - 1 /\ Flight' >= Flight - 1 /\ Flight' \in Nat
      /\ \A j \in 1 .. (Flight - 1) : Q'[j] = Q[j + 1]
      /\ (Q' = <<>> <=> Flight = 1)
    BY <1>1, <1>2, Taken DEF Together
<1>4. Inv' /\ Clean' = Clean
  <2>1. tx' \in Seq(Device!Reply)
    BY DeviceReplies DEF DeviceRuns, Together
  <2> QED
    BY <1>2, <2>1 DEF Inv, File, Together, Clean, host, person
<1>5. Local'
  <2>1. dtb_size' \in {0, dtb_size}
    BY DEF Device!DtbByte
  <2> QED
    BY <1>1, <1>2, <1>3, <2>1, ReceiveLocal DEF Together
<1>6. /\ i \in Nat /\ remaining \in Nat /\ ptr \in Nat /\ sent \in Nat
      /\ i < Device!chunk /\ Device!chunk \in Nat
      /\ Need = Device!chunk - i
    BY <1>2, Layout DEF Together, Local, Inv, Device!chunk, Device!Lesser, Need
<1>7. ASSUME Clean, Flight = Need
      PROVE  /\ DtbIn' /\ ptr' = ptr + 1 /\ DTB_LOAD_ADDR <= ptr
             /\ Len(dtb) \in Nat
             /\ remaining - i = DTB_LOAD_ADDR + Len(dtb) - ptr
             /\ \A a \in 1 .. (ptr + 1 - DTB_LOAD_ADDR) :
                   mem'[DTB_LOAD_ADDR + a - 1] = dtb[a]
             /\ \A j \in 1 .. Flight : Q[j] = Coming(j)
             /\ KernelIn' /\ KernelCopied'
  <2>1. Right /\ b = Coming(1) /\ \A j \in 1 .. Flight : Q[j] = Coming(j)
    BY <1>2, <1>3, <1>7, NextByte
  <2>2. DtbIn /\ Filling(DTB_LOAD_ADDR, dtb) /\ b = dtb[ptr - DTB_LOAD_ADDR + 1]
    BY <1>2, <2>1 DEF Right, Coming
  <2>9. /\ Inv /\ Local /\ DTB_LOAD_ADDR \in Nat /\ File(dtb)
        /\ DTB_LOAD_ADDR + Len(dtb) <= MEMORY_END /\ pc \in {"kernel", "dtb"}
    BY <1>2, <2>2, Layout DEF Together, Inv, DtbIn
  <2>3. /\ ptr' = ptr + 1 /\ DTB_LOAD_ADDR <= ptr /\ Len(dtb) \in Nat
        /\ remaining - i = DTB_LOAD_ADDR + Len(dtb) - ptr
        /\ \A a \in 1 .. (ptr + 1 - DTB_LOAD_ADDR) :
              mem'[DTB_LOAD_ADDR + a - 1] = dtb[a]
    BY <1>1, <1>2, <2>2, <2>9, Stored, ZenonT(30)
  <2>4. DtbIn'
    BY <1>2, <2>2 DEF DtbIn, host
  <2>5. KernelIn /\ KernelCopied
    BY <1>2, <2>1 DEF Right
  <2>6. KernelIn'
    BY <1>2, <2>5 DEF KernelIn, host
  <2>7. ptr < DTB_LOAD_ADDR + Len(dtb)
    BY <1>1, <1>2, <2>2, <2>9, Stored
  <2>8. KernelCopied'
    <3>1. UNCHANGED kernel /\ Inv /\ Local
      BY <1>2 DEF Together, host
    <3>2. \/ DTB_LOAD_ADDR + Len(dtb) <= KERNEL_LOAD_ADDR
          \/ KERNEL_LOAD_ADDR + Len(kernel) <= DTB_LOAD_ADDR
      BY <2>2 DEF DtbIn
    <3> QED
      BY <1>1, <1>6, <2>3, <2>5, <2>7, <3>1, <3>2, KernelUntouched
  <2> QED
    BY <2>1, <2>3, <2>4, <2>6, <2>8
<1>8. CASE i + 1 < Device!chunk
  <2>1. i' = i + 1 /\ UNCHANGED <<pc, remaining, tx>>
    BY <1>2, <1>6, <1>8
  <2>2. Device!chunk' = Device!chunk /\ Need' = Need - 1
    BY <1>2, <1>6, <2>1 DEF Need, Device!chunk
  <2>3. Flight' = Need' => Flight = Need
    BY <1>3, <1>6, <2>2
  <2>4. Clean => Unit'
    <3>1. Clean => Flight' <= Need'
      BY <1>2, <1>3, <1>6, <2>2, NextByte
    <3>2. ASSUME Clean, Flight' = Need'
          PROVE  Right' /\ \A j \in 1 .. Flight' : Q'[j] = Coming(j)'
      <4>1. Filling(DTB_LOAD_ADDR, dtb)'
        <5>1. ptr' - DTB_LOAD_ADDR = ptr + 1 - DTB_LOAD_ADDR /\ DTB_LOAD_ADDR <= ptr'
              /\ remaining' - i' = DTB_LOAD_ADDR + Len(dtb) - ptr'
          <6>1. /\ ptr' = ptr + 1 /\ DTB_LOAD_ADDR <= ptr /\ Len(dtb) \in Nat
                /\ remaining - i = DTB_LOAD_ADDR + Len(dtb) - ptr
            BY <1>7, <2>3, <3>2
          <6> QED
            BY <1>6, <2>1, <6>1, Layout
        <5> QED
          BY <1>2, <1>7, <2>3, <3>2, <5>1 DEF Filling, Copied, host
      <4>2. Right'
        BY <1>2, <1>7, <2>1, <2>3, <3>2, <4>1 DEF Right
      <4>3. ASSUME NEW j \in 1 .. Flight' PROVE Q'[j] = Coming(j)'
        <5>1. j \in 1 .. (Flight - 1) /\ j + 1 \in 1 .. Flight /\ j \in Nat
          BY <1>3, <4>3
        <5>2. Q'[j] = Coming(j + 1)
          BY <1>3, <1>7, <2>3, <3>2, <5>1
        <5>3. ptr - DTB_LOAD_ADDR + (j + 1) = ptr' - DTB_LOAD_ADDR + j
          BY <1>6, <1>7, <2>3, <3>2, <5>1, Layout
        <5>4. Coming(j + 1) = dtb[ptr - DTB_LOAD_ADDR + (j + 1)]
          BY <1>2 DEF Coming
        <5>5. Coming(j)' = dtb[ptr' - DTB_LOAD_ADDR + j]
          BY <1>2, <2>1 DEF Coming, host
        <5> QED
          BY <5>2, <5>3, <5>4, <5>5
      <4> QED
        BY <4>2, <4>3
    <3> QED
      BY <1>2, <2>1, <3>1, <3>2 DEF Unit, Transfers
  <2>5. step \in Later /\ Within => Within'
    <3>1. SUFFICES ASSUME step \in Later, Within PROVE Within'
      OBVIOUS
    <3>2. UNCHANGED <<step, sent>> /\ Clean
      BY <1>2, <3>1 DEF host, Clean
    <3>3. step \in {"dtb", "monitor"}
      BY <1>2, <3>1 DEF Within, Later
    <3>4. ASSUME step = "dtb", Flight' = Need' PROVE ptr' = DTB_LOAD_ADDR + sent' + i'
      <4>1. ptr' = ptr + 1 /\ ptr = DTB_LOAD_ADDR + sent + i
        BY <1>7, <2>3, <3>1, <3>2, <3>4 DEF Within
      <4> QED
        BY <1>6, <2>1, <3>2, <4>1, Layout
    <3> QED
      BY <1>2, <2>1, <3>2, <3>3, <3>4 DEF Within
  <2>6. HostInv' /\ Early'
    BY <1>2, <1>3, <2>1, <2>5, GoesOnWithin
  <2> QED
    BY <1>4, <1>5, <2>4, <2>6 DEF Together
<1>9. CASE i + 1 = Device!chunk
  <2>1. /\ i' = 0 /\ remaining' = remaining - Device!chunk /\ tx' = tx \o <<"ACK">>
        /\ pc' = IF remaining' > 0 THEN "dtb" ELSE "magic"
    BY <1>2, <1>6, <1>9
  <2>2. /\ remaining' \in Nat /\ remaining' = remaining - (i + 1)
        /\ (remaining' > 0 => Need' > 0) /\ Need' \in Int
    BY <1>6, <1>9, <2>1, Layout, SMTT(30) DEF Need, Device!chunk, Device!Lesser
  <2>3. Clean => Flight = Need /\ Q' = <<>> /\ Flight' = 0
    <3>1. Need = 1
      BY <1>6, <1>9
    <3>2. Clean => Flight <= 1
      BY <1>2, <1>3, <3>1, NextByte
    <3> QED
      BY <1>3, <3>1, <3>2
  <2>4. Clean => Right'
    <3>1. SUFFICES ASSUME Clean PROVE Right'
      OBVIOUS
    <3>2. CASE remaining' > 0
      <4>1. Filling(DTB_LOAD_ADDR, dtb)'
        <5>1. ptr' - DTB_LOAD_ADDR = ptr + 1 - DTB_LOAD_ADDR /\ DTB_LOAD_ADDR <= ptr'
              /\ remaining' - i' = DTB_LOAD_ADDR + Len(dtb) - ptr'
          <6>1. /\ ptr' = ptr + 1 /\ DTB_LOAD_ADDR <= ptr /\ Len(dtb) \in Nat
                /\ remaining - i = DTB_LOAD_ADDR + Len(dtb) - ptr
            BY <1>7, <2>3, <3>1
          <6>2. i \in Nat /\ remaining \in Nat /\ ptr \in Nat
            BY <1>6
          <6>3. i' = 0 /\ remaining' = remaining - (i + 1)
            BY <2>1, <2>2
          <6>4. remaining' - i' = (remaining - i) - 1
            BY <6>2, <6>3
          <6> QED
            BY <6>1, <6>2, <6>4, Layout
        <5> QED
          BY <1>2, <1>7, <2>3, <3>1, <5>1 DEF Filling, Copied, host
      <4> QED
        BY <1>7, <2>1, <2>3, <3>1, <3>2, <4>1 DEF Right
    <3>3. CASE ~ (remaining' > 0)
      <4>1. ptr + 1 - DTB_LOAD_ADDR = Len(dtb)
        <5>1. remaining' = 0 /\ remaining = i + 1
          BY <1>6, <2>2, <3>3
        <5>2. remaining - i = DTB_LOAD_ADDR + Len(dtb) - ptr /\ Len(dtb) \in Nat
          BY <1>7, <2>3, <3>1
        <5> QED
          BY <1>6, <5>1, <5>2, Layout
      <4>2. DtbCopied'
        BY <1>2, <1>7, <2>3, <3>1, <4>1 DEF DtbCopied, Copied, host
      <4> QED
        BY <1>7, <2>1, <2>3, <3>1, <3>3, <4>2 DEF Right
    <3> QED
      BY <3>2, <3>3
  <2>5. Clean => Unit'
    BY <2>1, <2>2, <2>3, <2>4 DEF Unit, Transfers
  <2>6. ASSUME step \in Later, Within
        PROVE  \/ NextStep' # "monitor" /\ At(NextStep, NextSent)'
               \/ NextStep' = "monitor" /\ Received'
    <3>1. step = "dtb" /\ UNCHANGED <<step, sent, dtb, kernel>> /\ Clean
      BY <1>2, <1>3, <2>6, Consuming DEF Within, Later, host, Clean
    <3>2. /\ ptr = DTB_LOAD_ADDR + sent + i /\ ptr' = ptr + 1
          /\ remaining = Len(dtb) - sent /\ Len(dtb) \in Nat
      <4>1. /\ ptr = DTB_LOAD_ADDR + sent + i /\ ptr' = ptr + 1 /\ Len(dtb) \in Nat
            /\ remaining - i = DTB_LOAD_ADDR + Len(dtb) - ptr
        BY <1>7, <2>3, <2>6, <3>1 DEF Within
      <4> QED
        BY <1>6, <4>1, Layout
    <3>3. /\ (remaining' > 0 => sent + CHUNK_SIZE < Len(dtb) /\ i + 1 = CHUNK_SIZE)
          /\ (~ (remaining' > 0) => ~ (sent + CHUNK_SIZE < Len(dtb)))
      <4>1. i < Device!Lesser(remaining, CHUNK_SIZE) /\ i + 1 = Device!Lesser(remaining, CHUNK_SIZE)
        BY <1>6, <1>9 DEF Device!chunk
      <4>2. /\ remaining - (i + 1) > 0 => sent + CHUNK_SIZE < Len(dtb) /\ i + 1 = CHUNK_SIZE
            /\ ~ (remaining - (i + 1) > 0) => ~ (sent + CHUNK_SIZE < Len(dtb))
        BY <1>6, <3>2, <4>1, ChunkEnds
      <4> QED
        BY <2>2, <4>2
    <3>4. CASE remaining' > 0
      <4>1. MoreOfFile' /\ Host!sentNext' = sent + CHUNK_SIZE
        BY <3>1, <3>2, <3>3, <3>4, Layout DEF MoreOfFile, Host!sentNext, Host!file
      <4>2. NextStep' = "dtb" /\ NextSent' = sent + CHUNK_SIZE
        BY <3>1, <4>1 DEF NextStep, NextSent
      <4> QED
        BY <1>6, <2>1, <3>2, <3>3, <3>4, <4>2, Layout DEF At
    <3>5. CASE ~ (remaining' > 0)
      <4>1. ~ MoreOfFile'
        BY <3>1, <3>2, <3>3, <3>5, Layout DEF MoreOfFile, Host!sentNext, Host!file
      <4>2. NextStep' = "monitor"
        BY <3>1, <4>1 DEF NextStep, Host!StepAfter
      <4> QED
        BY <1>7, <2>1, <2>3, <3>1, <3>5, <4>2 DEF Received, KernelWhole
    <3> QED
      BY <3>4, <3>5
  <2>7. HostInv' /\ Early'
    <3>1. step \in Later => Clean
      BY DEF Clean
    <3>2. pc' \in Transfers \union {"magic"}
      BY <2>1 DEF Transfers
    <3> QED
      BY <1>2, <1>3, <2>1, <2>3, <2>4, <2>6, <3>1, <3>2, Acknowledges
  <2> QED
    BY <1>4, <1>5, <2>5, <2>7 DEF Together
<1> QED
  <2>1. i + 1 < Device!chunk \/ i + 1 = Device!chunk
    BY <1>6
  <2> QED
    BY <1>8, <1>9, <2>1
----------------------------------------------------------------------------
(* The device has both files.                                              *)

LEMMA SaysMore ==
    ASSUME Together, pc \in {"magic", "boot"}, pc' \in {"boot", "linux", "out"},
           NEW s \in {<<"TEXT">>, <<"NAK">>}, tx' = tx \o s,
           UNCHANGED <<host, wire, rx, person>>,
           step \in Later /\ KernelWhole => KernelWhole'
    PROVE  HostInv' /\ Early'
<1> USE DEF host, person
<1>1. /\ tx' # <<>> /\ (tx # <<>> => Head(tx') = Head(tx))
    BY Replied, Texts DEF Together
<1>2. /\ Q' = Q /\ UNCHANGED <<NextStep, step, waiting, typed, runs>>
    BY DEF Q, NextStep, MoreOfFile, Host!StepAfter, Host!sentNext, Host!file
<1>3. step \notin {"open", "syn"} /\ runs # 0
    BY DEF Together, Early
<1>4. Clean => Q = <<>>
    BY DEF Together, Unit
<1>5. ASSUME step \in Later, Received PROVE Received'
    BY <1>2, <1>5 DEF Received
<1>6. ASSUME step \in Later \ {"monitor"}
      PROVE  /\ waiting
             /\ \/ tx # <<>> /\ Head(tx) # "ACK"
                \/ NextStep = "monitor" /\ Received
  <2>1. ~ Within
    BY <1>6 DEF Within, Later
  <2>2. ~ At(step, sent)
    BY <1>6 DEF At, Later
  <2>3. NextStep # "monitor" => ~ At(NextStep, NextSent)
    BY <1>6 DEF At, Later, NextStep, MoreOfFile, Host!StepAfter
  <2> QED
    <3>1. HostInv
      BY DEF Together
    <3>2. waiting /\ Answered
      BY <1>6, <2>1, <2>2, <3>1 DEF HostInv
    <3> QED
      BY <2>3, <3>2 DEF Answered
<1>7. HostInv'
  <2>1. step' \in Later \ {"monitor"} => waiting' /\ Answered'
    BY <1>1, <1>2, <1>5, <1>6 DEF Answered
  <2>2. step' = "monitor" => ~ waiting' /\ Received'
    BY <1>2, <1>5 DEF Together, HostInv, Later
  <2>3. step' \in Later => Q' = <<>>
    BY <1>2, <1>4 DEF Clean
  <2> QED
    BY <2>1, <2>2, <2>3 DEF HostInv
<1>8. Early'
  <2>1. typed = 0 => Q' = <<>>
    BY <1>2, <1>4 DEF Clean
  <2> QED
    BY <1>2, <1>3, <2>1 DEF Together, Early
<1> QED
    BY <1>7, <1>8

LEMMA CheckMagicStep ==
    ASSUME Together, DeviceRuns, Device!CheckMagic
    PROVE  Together'
<1>1. /\ pc = "magic" /\ UNCHANGED <<host, wire, person, mem, rx>>
      /\ \/ /\ tx' = tx \o <<"TEXT">> /\ pc' = "boot"
            /\ UNCHANGED <<kernel_size, dtb_size, ptr, remaining, i>>
         \/ /\ tx' = tx \o <<"NAK">> /\ pc' = "out"
            /\ kernel_size' = 0 /\ dtb_size' = 0 /\ remaining' = 0 /\ i' = 0
            /\ ptr' = KERNEL_LOAD_ADDR
    BY DEF Device!CheckMagic, DeviceRuns, Device!Refuse, Device!Return, Device!Put,
       Device!locals
<1>2. Inv' /\ Clean' = Clean
  <2>1. tx' \in Seq(Device!Reply)
    BY DeviceReplies DEF DeviceRuns, Together
  <2> QED
    BY <1>1, <2>1 DEF Inv, File, Together, Clean, host, person
<1>3. Local'
  <2>1. rx' \in Seq(Byte) /\ mem' \in [Device!Addr -> Byte]
    BY <1>1 DEF Local, Together
  <2>2. pc' \notin {"kernel", "dtb"}
    BY <1>1
  <2>3. {kernel_size', dtb_size', ptr', remaining', i'} \subseteq Nat
    <3>1. KERNEL_LOAD_ADDR \in Nat
      BY Layout
    <3> QED
      BY <1>1, <3>1 DEF Local, Together
  <2>4. {typed', runs'} \subseteq Nat
    BY <1>1 DEF Local, Together, person
  <2> QED
    BY <2>1, <2>2, <2>3, <2>4 DEF Local
<1>4. Clean => Unit'
  <2>1. Q' = Q
    BY <1>1 DEF Q
  <2>2. Clean => Q = <<>> /\ Right
    BY <1>1 DEF Together, Unit
  <2>3. pc' = "boot" /\ Right => Right'
    BY <1>1 DEF Right, KernelIn, KernelCopied, DtbIn, DtbCopied, Copied, host
  <2> QED
    BY <1>1, <2>1, <2>2, <2>3 DEF Unit, Transfers
<1>5. HostInv' /\ Early'
  <2>1. KernelWhole => KernelWhole'
    BY <1>1 DEF KernelWhole, KernelCopied, Copied, host
  <2> QED
    BY <1>1, <2>1, SaysMore
<1> QED
    BY <1>2, <1>3, <1>4, <1>5 DEF Together

(* fdt_update_bootargs and fdt_update_memory leave the kernel alone, if    *)
(* what the host sent is a device tree.                                    *)
LEMMA BootStep ==
    ASSUME Together, DeviceRuns, Device!Boot
    PROVE  Together'
<1>1. /\ pc = "boot" /\ pc' = "linux" /\ UNCHANGED <<host, wire, person, rx>>
      /\ tx' = tx \o <<"TEXT">> /\ UNCHANGED <<kernel_size, dtb_size, ptr, remaining, i>>
    BY DEF Device!Boot, DeviceRuns, Device!Put, Device!locals
<1>2. PICK cells \in SUBSET Device!FdtCells :
          \E new \in [cells -> Byte] :
              mem' = [a \in Device!Addr |-> IF a \in cells THEN new[a] ELSE mem[a]]
    BY DEF Device!Boot, Byte
<1>3. Inv' /\ Clean' = Clean
  <2>1. tx' \in Seq(Device!Reply)
    BY DeviceReplies DEF DeviceRuns, Together
  <2> QED
    BY <1>1, <2>1 DEF Inv, File, Together, Clean, host, person
<1>4. Local'
  <2>1. mem' \in [Device!Addr -> Byte]
    BY <1>2 DEF Together, Local
  <2> QED
    BY <1>1, <2>1, Layout DEF Local, Together, person
<1>5. Clean => Unit'
    BY <1>1 DEF Unit, Transfers
<1>6. HostInv' /\ Early'
  <2>1. ASSUME step \in Later, KernelCopied, dtb \in Trees PROVE KernelCopied'
    <3>1. KernelIn /\ DtbIn /\ DtbCopied
      BY <1>1, <2>1 DEF Together, Unit, Clean, Right
    <3>2. /\ Len(kernel) \in Nat /\ Len(dtb) \in Nat /\ kernel' = kernel
          /\ dtb = [j \in 1 .. Len(dtb) |-> dtb[j]]
      BY <1>1, LenProperties DEF Together, Inv, File, host
    <3>3. Device!blob = dtb
      BY <3>1, <3>2 DEF DtbIn, DtbCopied, Copied, Device!blob
    <3>4. Device!FdtCells \subseteq
              {a \in Device!Addr : DTB_LOAD_ADDR <= a /\ a < DTB_LOAD_ADDR + Len(dtb)}
      BY <2>1, <3>1, <3>3 DEF DtbIn, Device!FdtCells
    <3>5. ASSUME NEW a \in 1 .. Len(kernel)
          PROVE  mem'[KERNEL_LOAD_ADDR + a - 1] = mem[KERNEL_LOAD_ADDR + a - 1]
      <4>1. KERNEL_LOAD_ADDR + a - 1 \in Device!Addr
        BY <3>1, <3>2, <3>5, Layout DEF KernelIn
      <4>2. KERNEL_LOAD_ADDR + a - 1 \notin Device!FdtCells
        BY <3>1, <3>2, <3>4, <3>5, Layout DEF KernelIn, DtbIn
      <4> QED
        BY <1>2, <4>1, <4>2
    <3> QED
      BY <2>1, <3>2, <3>5 DEF KernelCopied, Copied
  <2>2. step \in Later /\ KernelWhole => KernelWhole'
    BY <1>1, <2>1 DEF KernelWhole, host
  <2> QED
    BY <1>1, <2>2, SaysMore
<1> QED
    BY <1>3, <1>4, <1>5, <1>6 DEF Together
----------------------------------------------------------------------------
(* The device is not in a transfer.                                        *)
Elsewhere == {"out", "sync", "linux"}

LEMMA SaysNoAck ==
    ASSUME Inv, NEW s \in {<<"TEXT">>, <<"TEXT", "READY">>}, tx' = tx \o s,
           NoneIs(tx, "ACK", Len(tx))
    PROVE  NoneIs(tx', "ACK", Len(tx'))
<1>1. /\ tx \in Seq(Device!Reply) /\ s \in Seq(Device!Reply)
      /\ Len(tx) \in Nat /\ Len(s) \in Nat /\ \A j \in 1 .. Len(s) : s[j] # "ACK"
  <2>1. tx \in Seq(Device!Reply) /\ s \in Seq(Device!Reply)
    BY Texts DEF Inv
  <2>2. Len(tx) \in Nat /\ Len(s) \in Nat
    BY <2>1, LenProperties
  <2>3. \A j \in 1 .. Len(s) : s[j] # "ACK"
    OBVIOUS
  <2> QED
    BY <2>1, <2>2, <2>3
<1>2. /\ Len(tx') = Len(tx) + Len(s)
      /\ \A j \in 1 .. Len(tx') : tx'[j] = IF j <= Len(tx) THEN tx[j] ELSE s[j - Len(tx)]
    BY <1>1, ConcatProperties
<1> QED
    BY <1>1, <1>2 DEF NoneIs

(* A shorter line has no more of a byte. *)
LEMMA FewerNone ==
    ASSUME Flight \in Nat \ {0}, Flight' \in Nat, Flight' <= Flight - 1,
           \A j \in 1 .. (Flight - 1) : Q'[j] = Q[j] \/ Q'[j] = Q[j + 1]
    PROVE  /\ NoneIs(Q, SYN, Flight) => NoneIs(Q', SYN, Flight')
           /\ NoneIs(Q, SYN, Flight - 1) => NoneIs(Q', SYN, Flight' - 1)
<1> DEFINE m == Flight'
           n == m - 1
<1>1. Flight \in Nat \ {0} /\ Flight' \in Nat /\ Flight' <= Flight - 1
    OBVIOUS
<1>2. \A j \in 1 .. (Flight - 1) : Q'[j] = Q[j] \/ Q'[j] = Q[j + 1]
    OBVIOUS
<1>3. ASSUME NoneIs(Q, SYN, Flight), NEW j \in 1 .. Flight' PROVE Q'[j] # SYN
  <2>1. j \in 1 .. (Flight - 1) /\ j \in 1 .. Flight /\ j + 1 \in 1 .. Flight
    BY <1>1, <1>3
  <2> QED
    BY <1>2, <1>3, <2>1 DEF NoneIs
<1>4. ASSUME NoneIs(Q, SYN, Flight - 1) PROVE NoneIs(Q', SYN, Flight' - 1)
  <2>1. n \in Int /\ n <= Flight - 2
    <3>1. m \in Nat /\ m <= Flight - 1 /\ Flight \in Nat
      BY <1>1
    <3> HIDE DEF m
    <3> QED
      BY <3>1
  <2>2. \A j \in 1 .. n : j \in 1 .. (Flight - 1) /\ j + 1 \in 1 .. (Flight - 1)
    <3> HIDE DEF n
    <3> QED
      BY <1>1, <2>1
  <2> QED
    BY <1>2, <1>4, <2>2 DEF NoneIs
<1> QED
    BY <1>3, <1>4 DEF NoneIs

LEMMA Elsewise ==
    ASSUME Together, pc \in Elsewhere
    PROVE  /\ step \in Later => Q = <<>>
           /\ step \in Later \ {"monitor"} =>
                /\ waiting /\ tx # <<>>
                /\ Head(tx) # "ACK" \/ (NextStep = "monitor" /\ Received)
<1>1. step \in Later => Q = <<>>
    BY DEF Together, HostInv, Elsewhere
<1>2. ASSUME step \in Later \ {"monitor"}
      PROVE  /\ waiting /\ tx # <<>>
             /\ Head(tx) # "ACK" \/ (NextStep = "monitor" /\ Received)
  <2>1. ~ Within
    BY <1>2 DEF Within, Later, Elsewhere
  <2>2. ~ At(step, sent)
    BY <1>2 DEF At, Later, Elsewhere
  <2>3. NextStep # "monitor" => ~ At(NextStep, NextSent)
    BY <1>2 DEF At, Later, NextStep, MoreOfFile, Host!StepAfter, Elsewhere
  <2>4. HostInv
    BY DEF Together
  <2>5. waiting /\ Answered
    BY <1>2, <2>1, <2>2, <2>4 DEF HostInv
  <2> QED
    BY <2>3, <2>5 DEF Answered
<1> QED
    BY <1>1, <1>2

LEMMA ElsewhereStep ==
    ASSUME Together, pc \in Elsewhere, Local', Inv',
           \/ pc = "linux" /\ pc' = "linux"
           \/ pc \in {"out", "sync"} /\ pc' \in {"out", "sync"},
           UNCHANGED <<host, wire, person, mem>>,
           rx' = rx \/ \E b \in Byte : Device!Get(b),
           tx' = tx \/ \E s \in {<<"TEXT">>, <<"TEXT", "READY">>} : tx' = tx \o s,
           pc' = "sync" => c' # SYN
    PROVE  Together'
<1> USE DEF host, person
<1>1. /\ Flight \in Nat /\ Flight' \in Nat
      /\ Q = <<>> => Q' = <<>>
      /\ Flight' <= Flight
      /\ NoneIs(Q, SYN, Flight) => NoneIs(Q', SYN, Flight')
      /\ NoneIs(Q, SYN, Flight - 1) => NoneIs(Q', SYN, Flight' - 1)
      /\ Q = <<SYN>> => Q' = <<SYN>> \/ Q' = <<>>
  <2>0. Flight \in Nat
    BY Lengths DEF Together
  <2>1. CASE rx' = rx
    BY <2>0, <2>1 DEF Q, Flight
  <2>2. CASE \E b \in Byte : Device!Get(b)
    <3>1. /\ Q # <<>> /\ Flight \in Nat \ {0} /\ Flight' \in Nat
          /\ Flight' <= Flight - 1 /\ Flight' >= Flight - 1
          /\ \A j \in 1 .. (Flight - 1) : Q'[j] = Q[j + 1]
          /\ (Q' = <<>> <=> Flight = 1)
      BY <2>2, Taken DEF Together
    <3>2. /\ NoneIs(Q, SYN, Flight) => NoneIs(Q', SYN, Flight')
          /\ NoneIs(Q, SYN, Flight - 1) => NoneIs(Q', SYN, Flight' - 1)
      BY <2>2, <3>1, FewerNone
    <3>3. Q = <<SYN>> => Flight = 1
      BY DEF Flight
    <3> QED
      BY <3>1, <3>2, <3>3
  <2> QED
    BY <2>1, <2>2
<1>2. /\ tx # <<>> => tx' # <<>> /\ Head(tx') = Head(tx)
      /\ NoneIs(tx, "ACK", Len(tx)) => NoneIs(tx', "ACK", Len(tx'))
  <2>1. CASE tx' = tx
    BY <2>1
  <2>2. CASE \E s \in {<<"TEXT">>, <<"TEXT", "READY">>} : tx' = tx \o s
    BY <2>2, Replied, Texts, SaysNoAck DEF Together
  <2> QED
    BY <2>1, <2>2
<1>3. UNCHANGED <<NextStep, step, waiting, typed, runs>> /\ Clean' = Clean
    BY DEF NextStep, MoreOfFile, Host!StepAfter, Host!sentNext, Host!file, Clean
<1>4. /\ step \in Later => Q = <<>>
      /\ step \in Later \ {"monitor"} =>
            /\ waiting /\ tx # <<>>
            /\ Head(tx) # "ACK" \/ (NextStep = "monitor" /\ Received)
    BY Elsewise
<1>5. Received => Received'
  <2>1. KernelCopied => KernelCopied'
    BY DEF KernelCopied, Copied
  <2> QED
    BY <1>1, <2>1 DEF Received, KernelWhole, Elsewhere
<1>6. HostInv'
  <2>1. step' \in Later \ {"monitor"} => waiting' /\ Answered'
    BY <1>2, <1>3, <1>4, <1>5 DEF Answered
  <2>2. step' = "monitor" => ~ waiting' /\ Received'
    BY <1>3, <1>5 DEF Together, HostInv, Later
  <2>3. step' \in Later => Q' = <<>>
    BY <1>1, <1>3, <1>4
  <2> QED
    BY <2>1, <2>2, <2>3 DEF HostInv
<1>7. Early'
  <2>1. runs' = 0 \/ step' = "open" =>
          /\ pc' \in {"out", "sync"}
          /\ NoneIs(Q', SYN, Flight') /\ NoneIs(tx', "ACK", Len(tx'))
    <3>1. SUFFICES ASSUME runs = 0 \/ step = "open"
                   PROVE  /\ pc' \in {"out", "sync"}
                          /\ NoneIs(Q', SYN, Flight') /\ NoneIs(tx', "ACK", Len(tx'))
      BY <1>3
    <3>2. /\ pc \in {"out", "sync"}
          /\ NoneIs(Q, SYN, Flight) /\ NoneIs(tx, "ACK", Len(tx))
      BY <3>1 DEF Together, Early
    <3> QED
      BY <1>1, <1>2, <3>2
  <2>2. step' = "syn" =>
          /\ waiting'
          /\ \/ /\ pc' \in {"out", "sync"}
                /\ NoneIs(Q', SYN, Flight' - 1) /\ NoneIs(tx', "ACK", Len(tx'))
             \/ /\ pc' = "kernel_size_lo" /\ Q' = <<>>
                /\ tx' # <<>> /\ NoneIs(tx', "ACK", Len(tx') - 1)
    <3>1. SUFFICES ASSUME step = "syn"
                   PROVE  /\ waiting /\ pc' \in {"out", "sync"}
                          /\ NoneIs(Q', SYN, Flight' - 1) /\ NoneIs(tx', "ACK", Len(tx'))
      BY <1>3
    <3>2. /\ waiting /\ pc \in {"out", "sync"}
          /\ NoneIs(Q, SYN, Flight - 1) /\ NoneIs(tx, "ACK", Len(tx))
      BY <3>1 DEF Together, Early, Elsewhere
    <3> QED
      BY <1>1, <1>2, <3>2
  <2>3. typed' = 0 /\ pc' \in {"out", "sync"} => Q' = <<>> \/ Q' = <<SYN>>
    BY <1>1, <1>3 DEF Together, Early
  <2> QED
    BY <1>3, <2>1, <2>2, <2>3 DEF Together, Early
<1>8. Unit'
    BY DEF Unit, Transfers
<1> QED
    BY <1>6, <1>7, <1>8 DEF Together
LEMMA EndsWith ==
    ASSUME Inv, NoneIs(tx, "ACK", Len(tx)), tx' = tx \o <<"ACK">>
    PROVE  NoneIs(tx', "ACK", Len(tx') - 1)
<1>1. /\ tx \in Seq(Device!Reply) /\ Len(tx) \in Nat /\ <<"ACK">> \in Seq(Device!Reply)
      /\ Len(<<"ACK">>) = 1
    BY LenProperties, Texts DEF Inv
<1>2. /\ Len(tx') = Len(tx) + 1
      /\ \A j \in 1 .. Len(tx) : tx'[j] = tx[j]
    BY <1>1, ConcatProperties
<1> QED
    BY <1>1, <1>2 DEF NoneIs

(* Polls that find no SYN, a call that starts or ends, and what the shell  *)
(* or Linux reads.                                                         *)
LEMMA ElsewhereSteps ==
    ASSUME Together, OneCleanRun, UNCHANGED <<host, wire, person>>,
           \/ Device!Enter \/ Device!OtherReader \/ Device!PollNothing
           \/ Device!PollOther \/ Device!PollExit \/ Device!WaitOver
    PROVE  Together'
<1>1. /\ UNCHANGED mem /\ pc \in Elsewhere
      /\ \/ pc = "linux" /\ pc' = "linux"
         \/ pc \in {"out", "sync"} /\ pc' \in {"out", "sync"}
      /\ rx' = rx \/ \E b \in Byte : Device!Get(b)
      /\ tx' = tx \/ \E s \in {<<"TEXT">>, <<"TEXT", "READY">>} : tx' = tx \o s
      /\ pc' = "sync" => c' # SYN
      /\ \/ UNCHANGED <<kernel_size, dtb_size, ptr, remaining, i>>
         \/ /\ kernel_size' = 0 /\ dtb_size' = 0 /\ remaining' = 0 /\ i' = 0
            /\ ptr' = KERNEL_LOAD_ADDR
  <2> USE DEF Elsewhere, Device!locals, Byte
  <2>0. pc = "sync" => c # SYN
    BY DEF Together, Early
  <2>1. CASE Device!Enter
    BY <2>1 DEF Device!Enter, Device!Put, OneCleanRun
  <2>2. CASE Device!OtherReader
    BY <2>2 DEF Device!OtherReader, Device!Put
  <2>3. CASE Device!PollNothing
    BY <2>0, <2>3 DEF Device!PollNothing
  <2>4. CASE Device!PollOther
    BY <2>4 DEF Device!PollOther, Device!Get
  <2>5. CASE Device!PollExit
    BY <2>5, LinkAssumption DEF Device!PollExit, Device!Return
  <2>6. CASE Device!WaitOver
    BY <2>0, <2>6 DEF Device!WaitOver, Device!Return, Device!Put
  <2> QED
    BY <2>1, <2>2, <2>3, <2>4, <2>5, <2>6
<1>2. Local'
  <2>1. rx' \in Seq(Byte)
    BY <1>1, Taken DEF Together, Local
  <2>2. pc' \notin {"kernel", "dtb"}
    BY <1>1
  <2>3. {kernel_size', dtb_size', ptr', remaining', i'} \subseteq Nat
    <3>1. KERNEL_LOAD_ADDR \in Nat
      BY Layout
    <3> QED
      BY <1>1, <3>1 DEF Local, Together
  <2>4. {typed', runs'} \subseteq Nat /\ mem' \in [Device!Addr -> Byte]
    BY <1>1 DEF Local, Together, person
  <2> QED
    BY <2>1, <2>2, <2>3, <2>4 DEF Local
<1>3. Inv'
  <2>1. tx' \in Seq(Device!Reply)
    BY <1>1, Replied, Texts DEF Together, Inv
  <2> QED
    BY <2>1 DEF Inv, File, Together, host
<1> QED
    BY <1>1, <1>2, <1>3, ElsewhereStep

(* The SYN the device finds is the host's, and the last byte of the line. *)
LEMMA PollSynStep ==
    ASSUME Together, DeviceRuns, Device!PollSyn
    PROVE  Together'
<1> USE DEF host, person
<1>1. /\ pc = "sync" /\ pc' = "kernel_size_lo" /\ kernel_size' = 0
      /\ Device!Get(SYN) /\ tx' = tx \o <<"ACK">>
      /\ UNCHANGED <<dtb_size, ptr, remaining, i, mem, host, wire, person>>
    BY DEF Device!PollSyn, Device!Attach, Device!Put, DeviceRuns
<1>2. /\ Q # <<>> /\ Flight \in Nat \ {0} /\ Q[1] = SYN /\ rx' \in Seq(Byte)
      /\ (Q' = <<>> <=> Flight = 1)
    BY <1>1, Taken DEF Together
<1>3. step \notin Later /\ step # "open" /\ runs # 0
  <2>1. step \in Later => Q = <<>>
    BY <1>1, Elsewise DEF Elsewhere
  <2>2. 1 \in 1 .. Flight
    BY <1>2
  <2> QED
    BY <1>2, <2>1, <2>2 DEF Together, Early, NoneIs
<1>4. Inv' /\ Clean' = Clean
  <2>1. tx' \in Seq(Device!Reply)
    BY DeviceReplies DEF DeviceRuns, Together
  <2> QED
    BY <1>1, <2>1 DEF Inv, File, Together, Clean
<1>5. Local'
    BY <1>1, <1>2, Layout DEF Local, Together
<1>6. Clean => Unit'
  <2>1. SUFFICES ASSUME Clean PROVE Unit'
    OBVIOUS
  <2>2. Q = <<SYN>>
    BY <1>1, <1>2, <1>3, <2>1 DEF Clean, Together, Early
  <2>3. Flight = 1
    BY <2>2 DEF Flight
  <2>4. Flight' = 0
    BY <1>2, <2>3 DEF Flight
  <2>5. Need' = 2
    BY <1>1 DEF Need
  <2> QED
    BY <1>1, <2>4, <2>5 DEF Unit, Transfers
<1>7. HostInv'
    BY <1>1, <1>3 DEF HostInv, Later
<1>8. Early'
  <2>1. step = "syn" =>
           waiting /\ Q' = <<>> /\ tx' # <<>> /\ NoneIs(tx', "ACK", Len(tx') - 1)
    <3>1. SUFFICES ASSUME step = "syn"
                   PROVE  waiting /\ Q' = <<>> /\ tx' # <<>> /\ NoneIs(tx', "ACK", Len(tx') - 1)
      OBVIOUS
    <3>2. waiting /\ NoneIs(Q, SYN, Flight - 1) /\ NoneIs(tx, "ACK", Len(tx))
      BY <1>1, <3>1 DEF Together, Early
    <3>3. Flight = 1
      <4>1. ASSUME Flight # 1 PROVE FALSE
        <5>1. 1 \in 1 .. (Flight - 1)
          BY <1>2, <4>1
        <5> QED
          BY <1>2, <3>2, <5>1 DEF NoneIs
      <4> QED
        BY <4>1
    <3>4. tx' # <<>>
      BY <1>1, Replied, Texts DEF Together
    <3>5. NoneIs(tx', "ACK", Len(tx') - 1)
      BY <1>1, <3>2, EndsWith DEF Together
    <3> QED
      BY <1>2, <3>2, <3>3, <3>4, <3>5
  <2>2. step = "closed" => ~ waiting
    BY DEF Together, Early
  <2> QED
    BY <1>1, <1>3, <2>1, <2>2 DEF Early
<1> QED
    BY <1>4, <1>5, <1>6, <1>7, <1>8 DEF Together
----------------------------------------------------------------------------
(* The line.                                                               *)

LEMMA NeedIsInt == ASSUME Local PROVE Need \in Int
BY Layout, SMTT(30) DEF Local, Need, Device!chunk, Device!Lesser

LEMMA DeviceStays ==
    ASSUME UNCHANGED <<device, kernel, dtb>>
    PROVE  /\ Right => Right'
           /\ KernelCopied => KernelCopied'
           /\ Need' = Need /\ \A j : Coming(j)' = Coming(j)
           /\ Q' = Q => (Unit => Unit') /\ (Received => Received')
<1> USE DEF device
<1>1. (Right => Right') /\ (KernelCopied => KernelCopied')
    BY DEF Right, KernelIn, KernelCopied, DtbIn, DtbCopied, Copied, Filling, Low
<1>2. Need' = Need
    BY DEF Need, Device!chunk
<1>3. \A j : Coming(j)' = Coming(j)
    BY DEF Coming, Low, High
<1>4. ASSUME Q' = Q PROVE (Unit => Unit') /\ (Received => Received')
  <2>1. Flight' = Flight
    BY <1>4 DEF Flight
  <2> QED
    BY <1>1, <1>2, <1>3, <1>4, <2>1 DEF Unit, Received, KernelWhole
<1> QED
    BY <1>1, <1>2, <1>3, <1>4

LEMMA LocalStays ==
    ASSUME Local, UNCHANGED device, rx' \in Seq(Byte), typed' \in Nat, runs' \in Nat
    PROVE  Local'
BY DEF Local, device, Device!chunk

(* A byte moves from the line to the FIFO. *)
LEMMA Delivered ==
    ASSUME NEW r \in Seq(Byte), NEW w \in Seq(Byte), w # <<>>
    PROVE  /\ Append(r, Head(w)) \o Tail(w) = r \o w
           /\ Append(r, Head(w)) \in Seq(Byte) /\ Tail(w) \in Seq(Byte)
<1> DEFINE a == Append(r, Head(w))
           u == Tail(w)
<1>1. /\ Head(w) \in Byte /\ u \in Seq(Byte) /\ Len(u) = Len(w) - 1 /\ Len(w) \in Nat \ {0}
      /\ \A j \in 1 .. Len(u) : u[j] = w[j + 1]
      /\ Head(w) = w[1] /\ Len(r) \in Nat
    BY HeadTailProperties, LenProperties, EmptySeq
<1>2. /\ a \in Seq(Byte) /\ Len(a) = Len(r) + 1
      /\ \A j \in 1 .. Len(r) : a[j] = r[j]
      /\ a[Len(r) + 1] = w[1]
    BY <1>1, AppendProperties
<1>3. /\ a \o u \in Seq(Byte) /\ Len(a \o u) = Len(a) + Len(u)
      /\ \A j \in 1 .. Len(a \o u) : (a \o u)[j] = IF j <= Len(a) THEN a[j] ELSE u[j - Len(a)]
    BY <1>1, <1>2, ConcatProperties
<1>4. /\ r \o w \in Seq(Byte) /\ Len(r \o w) = Len(r) + Len(w)
      /\ \A j \in 1 .. Len(r \o w) : (r \o w)[j] = IF j <= Len(r) THEN r[j] ELSE w[j - Len(r)]
    BY ConcatProperties
<1>5. Len(a \o u) = Len(r \o w)
    BY <1>1, <1>2, <1>3, <1>4
<1>6. ASSUME NEW j \in 1 .. Len(a \o u) PROVE (a \o u)[j] = (r \o w)[j]
  <2> HIDE DEF a, u
  <2>1. CASE j <= Len(r)
    BY <1>1, <1>2, <1>3, <1>4, <1>5, <2>1
  <2>2. CASE j = Len(r) + 1
    BY <1>1, <1>2, <1>3, <1>4, <1>5, <2>2
  <2>3. CASE j > Len(r) + 1
    <3>1. j - Len(a) \in 1 .. Len(u) /\ (j - Len(a)) + 1 = j - Len(r)
      BY <1>1, <1>2, <1>3, <2>3
    <3>2. (a \o u)[j] = u[j - Len(a)] /\ u[j - Len(a)] = w[(j - Len(a)) + 1]
      BY <1>1, <1>2, <1>3, <2>3, <3>1, SMTT(30)
    <3>3. (r \o w)[j] = w[j - Len(r)]
      BY <1>1, <1>4, <1>5, <2>3
    <3> QED
      BY <3>1, <3>2, <3>3
  <2>4. j <= Len(r) \/ j = Len(r) + 1 \/ j > Len(r) + 1
    <3>1. j \in Int /\ Len(r) \in Nat
      BY <1>1, <1>3, <1>5
    <3> QED
      BY <3>1
  <2> QED
    BY <2>1, <2>2, <2>3, <2>4
<1>7. a \o u = r \o w
    BY <1>3, <1>4, <1>5, <1>6, SeqEqual
<1> QED
    BY <1>1, <1>2, <1>7

LEMMA DeliverStep ==
    ASSUME Together, Deliver
    PROVE  Together'
<1> USE DEF host, person
<1>1. /\ wire # <<>> /\ rx' = Append(rx, Head(wire)) /\ wire' = Tail(wire)
      /\ UNCHANGED <<device, tx, host, person>>
    BY DEF Deliver
<1>2. rx \in Seq(Byte) /\ wire \in Seq(Byte) /\ Head(wire) \in Byte
    BY <1>1, HeadTailProperties DEF Together, Local, Inv
<1>3. Q' = Q /\ rx' \in Seq(Byte) /\ wire' \in Seq(Byte)
    BY <1>1, <1>2, Delivered DEF Q
<1>4. Inv' /\ Local' /\ Clean' = Clean
    BY <1>1, <1>3, LocalStays DEF Together, Inv, File, Local, Clean
<1>5. /\ (Unit => Unit') /\ (Received => Received') /\ (Right => Right')
      /\ Need' = Need /\ Flight' = Flight
    BY <1>1, <1>3, DeviceStays DEF Flight
<1>6. HostInv'
  <2>1. Within => Within'
    BY <1>1, <1>5 DEF Within, device
  <2>2. Answered => Answered'
    BY <1>1, <1>3, <1>5 DEF Answered, At, NextStep, NextSent, MoreOfFile,
       Host!StepAfter, Host!sentNext, Host!file, device
  <2>3. At(step, sent) => At(step, sent)'
    BY <1>1 DEF At, device
  <2> QED
    BY <1>1, <1>3, <1>5, <2>1, <2>2, <2>3 DEF Together, HostInv, device
<1>7. Early'
    BY <1>1, <1>3, <1>5 DEF Together, Early, NoneIs, device
<1> QED
    BY <1>4, <1>5, <1>6, <1>7 DEF Together
(* A byte is lost. *)
LEMMA Dropped ==
    ASSUME NEW r \in Seq(Byte), NEW w \in Seq(Byte), w # <<>>
    PROVE  /\ Tail(w) \in Seq(Byte)
           /\ Len(r \o Tail(w)) <= Len(r \o w) - 1 /\ Len(r \o Tail(w)) >= Len(r \o w) - 1
           /\ \A j \in 1 .. (Len(r \o w) - 1) :
                 \/ (r \o Tail(w))[j] = (r \o w)[j]
                 \/ (r \o Tail(w))[j] = (r \o w)[j + 1]
<1> DEFINE u == Tail(w)
<1>1. /\ u \in Seq(Byte) /\ Len(u) = Len(w) - 1 /\ Len(w) \in Nat \ {0}
      /\ \A j \in 1 .. Len(u) : u[j] = w[j + 1]
      /\ Len(r) \in Nat /\ Len(u) \in Nat
    BY HeadTailProperties, LenProperties, EmptySeq
<1>3. /\ Len(r \o u) = Len(r) + Len(u)
      /\ \A j \in 1 .. Len(r \o u) : (r \o u)[j] = IF j <= Len(r) THEN r[j] ELSE u[j - Len(r)]
    BY <1>1, ConcatProperties
<1>4. /\ Len(r \o w) = Len(r) + Len(w)
      /\ \A j \in 1 .. Len(r \o w) : (r \o w)[j] = IF j <= Len(r) THEN r[j] ELSE w[j - Len(r)]
    BY ConcatProperties
<1>5. Len(r \o u) <= Len(r \o w) - 1 /\ Len(r \o u) >= Len(r \o w) - 1
    BY <1>1, <1>3, <1>4
<1>6. ASSUME NEW j \in 1 .. (Len(r \o w) - 1)
      PROVE  (r \o u)[j] = (r \o w)[j] \/ (r \o u)[j] = (r \o w)[j + 1]
  <2> HIDE DEF u
  <2>0. j \in Nat /\ j \in 1 .. Len(r \o u) /\ j \in 1 .. Len(r \o w) /\ j + 1 \in 1 .. Len(r \o w)
    BY <1>1, <1>3, <1>4
  <2>1. CASE j <= Len(r)
    BY <1>3, <1>4, <2>0, <2>1
  <2>2. CASE j > Len(r)
    <3>1. j - Len(r) \in 1 .. Len(u) /\ (j - Len(r)) + 1 = (j + 1) - Len(r)
      BY <1>1, <1>3, <2>0, <2>2
    <3>2. (r \o u)[j] = u[j - Len(r)] /\ u[j - Len(r)] = w[(j - Len(r)) + 1]
      BY <1>1, <1>3, <2>0, <2>2, <3>1, SMTT(30)
    <3>3. (r \o w)[j + 1] = w[(j + 1) - Len(r)]
      BY <1>1, <1>4, <2>0, <2>2
    <3> QED
      BY <3>1, <3>2, <3>3
  <2> QED
    BY <1>1, <2>0, <2>1, <2>2
<1> QED
    BY <1>1, <1>5, <1>6

LEMMA OverrunStep ==
    ASSUME Together, Overrun
    PROVE  Together'
<1> USE DEF host, person
<1>1. /\ wire # <<>> /\ wire' = Tail(wire)
      /\ UNCHANGED <<device, rx, tx, host, person>>
    BY DEF Overrun
<1>2. /\ Q # <<>> /\ Flight \in Nat \ {0} /\ Flight' \in Nat
      /\ Flight' <= Flight - 1 /\ Flight' >= Flight - 1
      /\ \A j \in 1 .. (Flight - 1) : Q'[j] = Q[j] \/ Q'[j] = Q[j + 1]
      /\ wire' \in Seq(Byte)
  <2>1. rx \in Seq(Byte) /\ wire \in Seq(Byte) /\ Len(wire) # 0
    BY <1>1, EmptySeq DEF Together, Local, Inv
  <2>2. Flight \in Nat \ {0} /\ Q # <<>>
    BY <2>1, Lengths DEF Together
  <2>3. /\ wire' \in Seq(Byte)
        /\ Flight' <= Flight - 1 /\ Flight' >= Flight - 1
        /\ \A j \in 1 .. (Flight - 1) : Q'[j] = Q[j] \/ Q'[j] = Q[j + 1]
    BY <1>1, <2>1, Dropped DEF Q, Flight
  <2>4. Flight' \in Nat
    BY <1>1, <2>1, <2>3, ConcatProperties, LenProperties DEF Q, Flight
  <2> QED
    BY <2>2, <2>3, <2>4
<1>4. Inv' /\ Local' /\ Clean' = Clean
    BY <1>1, <1>2, LocalStays DEF Together, Inv, File, Local, Clean
<1>5. Need' = Need
    BY <1>1, DeviceStays
<1>6. ASSUME Clean PROVE Unit' /\ (pc \in Transfers => Flight' # Need')
  <2>1. pc \notin {"magic", "boot"} /\ (pc \in Transfers => Flight <= Need)
    BY <1>2, <1>6 DEF Together, Unit
  <2>2. Need \in Int
    BY NeedIsInt DEF Together
  <2>3. pc \in Transfers => Flight' <= Need' /\ Flight' # Need'
    BY <1>2, <1>5, <2>1, <2>2
  <2> QED
    BY <1>1, <2>1, <2>3 DEF Unit, device
<1>7. HostInv'
  <2>1. ASSUME step \in Later
        PROVE  step # "monitor" /\ waiting /\ Awaited
    BY <1>2, <2>1 DEF Together, HostInv, Answered, Received, Awaited
  <2>2. ASSUME step \in Later, Within PROVE Within'
    <3>1. pc \in Transfers /\ Clean
      BY <2>1, <2>2 DEF Within, Transfers, Later, Clean
    <3> QED
      BY <1>1, <1>6, <2>2, <3>1 DEF Within, device
  <2>3. step \in Later => pc \notin {"out", "sync", "linux"}
    BY <1>2 DEF Together, HostInv
  <2> QED
    <3>1. UNCHANGED <<step, waiting, tx, pc>>
      BY <1>1 DEF device
    <3>2. step \in Later =>
             waiting' /\ ((tx' = <<>> /\ Within') \/ (tx' # <<>> /\ Head(tx') # "ACK"))
      BY <2>1, <2>2, <3>1 DEF Awaited
    <3>3. step \in Later => step # "monitor"
      BY <2>1
    <3> QED
      BY <2>3, <3>1, <3>2, <3>3 DEF HostInv, Answered, Later
<1>8. Early'
  <2>1. /\ NoneIs(Q, SYN, Flight) => NoneIs(Q', SYN, Flight')
        /\ NoneIs(Q, SYN, Flight - 1) => NoneIs(Q', SYN, Flight' - 1)
    BY <1>2, FewerNone
  <2>2. Q = <<SYN>> => Q' = <<>>
    <3>1. ASSUME Q = <<SYN>> PROVE Q' = <<>>
      <4>1. Flight = 1
        BY <3>1 DEF Flight
      <4>2. Flight' = 0
        BY <1>2, <4>1
      <4>3. Q' \in Seq(Byte)
        BY <1>1, <1>2, ConcatProperties DEF Together, Local, Q
      <4> QED
        BY <4>2, <4>3, EmptySeq DEF Flight
    <3> QED
      BY <3>1
  <2> QED
    BY <1>1, <1>2, <2>1, <2>2 DEF Together, Early, device
<1> QED
    BY <1>4, <1>6, <1>7, <1>8 DEF Together

----------------------------------------------------------------------------
(* The end of a run, and what happens without one.                         *)

LEMMA Cut ==
    ASSUME NEW w \in Seq(Byte), NEW n \in 0 .. Len(w)
    PROVE  /\ SubSeq(w, 1, n) \in Seq(Byte) /\ Len(SubSeq(w, 1, n)) = n
           /\ n = Len(w) => SubSeq(w, 1, n) = w
<1>1. Len(w) \in Nat /\ w \in Seq(Byte)
    BY LenProperties
<1>2. /\ SubSeq(w, 1, n) \in Seq(Byte) /\ Len(SubSeq(w, 1, n)) = n
      /\ \A j \in 1 .. n : SubSeq(w, 1, n)[j] = w[j]
    BY <1>1, SubSeqProperties
<1>3. n = Len(w) => SubSeq(w, 1, n) = w
    BY <1>1, <1>2, SeqEqual
<1> QED
    BY <1>2, <1>3

(* One more byte on the line. *)
LEMMA Added ==
    ASSUME NEW r \in Seq(Byte), NEW w \in Seq(Byte), NEW b \in Byte
    PROVE  /\ Len(r \o Append(w, b)) = Len(r \o w) + 1 /\ Len(r \o w) \in Nat
           /\ \A j \in 1 .. Len(r \o w) : (r \o Append(w, b))[j] = (r \o w)[j]
           /\ (r \o Append(w, b))[Len(r \o w) + 1] = b
<1> DEFINE u == Append(w, b)
<1>1. /\ u \in Seq(Byte) /\ Len(u) = Len(w) + 1 /\ Len(w) \in Nat /\ Len(r) \in Nat
      /\ \A j \in 1 .. Len(w) : u[j] = w[j]
      /\ u[Len(w) + 1] = b
    BY AppendProperties, LenProperties
<1>3. /\ Len(r \o u) = Len(r) + Len(u)
      /\ \A j \in 1 .. Len(r \o u) : (r \o u)[j] = IF j <= Len(r) THEN r[j] ELSE u[j - Len(r)]
    BY <1>1, ConcatProperties
<1>4. /\ Len(r \o w) = Len(r) + Len(w)
      /\ \A j \in 1 .. Len(r \o w) : (r \o w)[j] = IF j <= Len(r) THEN r[j] ELSE w[j - Len(r)]
    BY ConcatProperties
<1> HIDE DEF u
<1>5. Len(r \o u) = Len(r \o w) + 1 /\ Len(r \o w) \in Nat
    BY <1>1, <1>3, <1>4
<1>6. ASSUME NEW j \in 1 .. Len(r \o w) PROVE (r \o u)[j] = (r \o w)[j]
  <2>0. j \in Nat /\ j \in 1 .. Len(r \o u)
    BY <1>1, <1>3, <1>4, <1>5
  <2>1. CASE j <= Len(r)
    BY <1>3, <1>4, <2>0, <2>1
  <2>2. CASE j > Len(r)
    <3>1. j - Len(r) \in 1 .. Len(w)
      BY <1>1, <1>4, <2>0, <2>2
    <3> QED
      BY <1>1, <1>3, <1>4, <2>0, <2>2, <3>1
  <2> QED
    BY <1>1, <2>0, <2>1, <2>2
<1>7. (r \o u)[Len(r \o w) + 1] = b
  <2>1. Len(r \o w) + 1 \in 1 .. Len(r \o u) /\ ~ (Len(r \o w) + 1 <= Len(r))
        /\ (Len(r \o w) + 1) - Len(r) = Len(w) + 1
    BY <1>1, <1>4, <1>5
  <2> QED
    BY <1>1, <1>3, <2>1
<1> QED
    BY <1>5, <1>6, <1>7 DEF u

LEMMA AddedNone ==
    ASSUME NEW r \in Seq(Byte), NEW w \in Seq(Byte), NEW b \in Byte, b # SYN,
           NoneIs(r \o w, SYN, Len(r \o w))
    PROVE  NoneIs(r \o Append(w, b), SYN, Len(r \o Append(w, b)))
<1> DEFINE n == Len(r \o w)
           s == r \o Append(w, b)
<1>1. /\ Len(s) = n + 1 /\ n \in Nat /\ \A j \in 1 .. n : s[j] = (r \o w)[j]
      /\ s[n + 1] = b
    BY Added
<1>2. \A j \in 1 .. n : (r \o w)[j] # SYN
    BY DEF NoneIs
<1> HIDE DEF n, s
<1>3. ASSUME NEW j \in 1 .. (n + 1) PROVE s[j] # SYN
  <2>1. CASE j \in 1 .. n
    BY <1>1, <1>2, <2>1 DEF n
  <2>2. CASE j = n + 1
    BY <1>1, <2>2
  <2> QED
    BY <1>1, <2>1, <2>2
<1> QED
    BY <1>1, <1>3 DEF NoneIs, s

(* The host is gone for good. *)
LEMMA ClosedStep ==
    ASSUME Together, Inv', UNCHANGED <<device, kernel, dtb, rx, typed, runs>>,
           runs # 0, step' = "closed", waiting' = FALSE,
           NEW n \in 0 .. Len(wire), wire' = SubSeq(wire, 1, n)
    PROVE  Together'
<1>1. rx \in Seq(Byte) /\ wire \in Seq(Byte) /\ Len(wire) \in Nat
    BY LenProperties DEF Together, Local, Inv
<1>2. /\ Flight \in Nat /\ Flight' \in Nat /\ Flight' <= Flight
      /\ Flight' = Flight => Q' = Q
      /\ Q' = <<>> <=> Flight' = 0
      /\ Q = <<>> => Q' = <<>>
      /\ Q = <<SYN>> => Q' = <<>> \/ Q' = <<SYN>>
  <2>1. /\ wire' \in Seq(Byte) /\ Len(wire') = n
        /\ n = Len(wire) => wire' = wire
    BY <1>1, Cut
  <2>2. /\ Len(Q) = Len(rx) + Len(wire) /\ Len(Q') = Len(rx) + n /\ Len(rx) \in Nat
        /\ Q \in Seq(Byte) /\ Q' \in Seq(Byte)
    BY <1>1, <2>1, ConcatProperties, LenProperties DEF Q
  <2>3. Len(Q') = Len(Q) => Q' = Q
    BY <1>1, <2>1, <2>2 DEF Q
  <2>4. Len(Q') \in Nat /\ Len(Q) \in Nat /\ Len(Q') <= Len(Q)
    BY <1>1, <2>2
  <2>5. (Q' = <<>> <=> Len(Q') = 0) /\ (Q = <<>> <=> Len(Q) = 0)
    BY <2>2, EmptySeq
  <2>6. ASSUME Q = <<SYN>> PROVE Q' = <<>> \/ Q' = <<SYN>>
    <3>1. Len(Q) = 1
      BY <2>6
    <3>2. Len(Q') = 0 \/ Len(Q') = Len(Q)
      BY <2>4, <3>1
    <3> QED
      BY <2>3, <2>5, <2>6, <3>2
  <2>7. Q = <<>> => Q' = <<>>
    BY <2>4, <2>5
  <2> QED
    BY <2>3, <2>4, <2>5, <2>6, <2>7 DEF Flight
<1>3. Local'
    BY LocalStays DEF Together, Local
<1>4. Clean' => Unit'
  <2>1. SUFFICES ASSUME Clean' PROVE Unit'
    OBVIOUS
  <2>2. Unit
    BY <2>1 DEF Clean, Later, Together
  <2>3. Need' = Need /\ (Right => Right') /\ (\A j : Coming(j)' = Coming(j)) /\ pc' = pc
    BY DeviceStays DEF device
  <2>4. Need \in Int
    BY NeedIsInt DEF Together
  <2>5. CASE pc \in Transfers
    <3>1. Flight' <= Need'
      BY <1>2, <2>2, <2>3, <2>4, <2>5 DEF Unit
    <3>2. ASSUME Flight' = Need' PROVE Flight = Need /\ Flight' = Flight
      BY <1>2, <2>2, <2>3, <2>4, <2>5, <3>2 DEF Unit
    <3> QED
      BY <1>2, <2>2, <2>3, <2>5, <3>1, <3>2 DEF Unit, Transfers
  <2>6. CASE pc \notin Transfers
    BY <1>2, <2>2, <2>3, <2>6 DEF Unit
  <2> QED
    BY <2>5, <2>6
<1>5. HostInv'
    BY DEF HostInv, Later
<1>6. Early'
    BY <1>2 DEF Early, Together, device
<1> QED
    BY <1>3, <1>4, <1>5, <1>6 DEF Together

LEMMA HostTimesOutStep ==
    ASSUME Together, HostTimesOut
    PROVE  Together'
<1>1. /\ UNCHANGED <<device, kernel, dtb, rx, typed, runs, wire>>
      /\ step' = "closed" /\ waiting' = FALSE /\ waiting
    BY DEF HostTimesOut, Host!Timeout, Host!Close, person
<1>2. runs # 0
    BY <1>1 DEF Together, Early
<1>3. Inv'
    BY NextInv DEF Next, Together
<1>4. Len(wire) \in 0 .. Len(wire) /\ wire' = SubSeq(wire, 1, Len(wire))
  <2>1. wire \in Seq(Byte) /\ Len(wire) \in Nat
    BY LenProperties DEF Together, Inv
  <2> QED
    BY <1>1, <2>1, Cut
<1> QED
    BY <1>1, <1>2, <1>3, <1>4, ClosedStep

LEMMA HostInterruptedStep ==
    ASSUME Together, HostInterrupted
    PROVE  Together'
<1>1. /\ UNCHANGED <<device, kernel, dtb, rx, typed, runs>>
      /\ step' = "closed" /\ waiting' = FALSE /\ step # "closed"
      /\ \E n \in 0 .. Len(wire) : wire' = SubSeq(wire, 1, n)
    BY DEF HostInterrupted, Host!Interrupt, Host!Close
<1>2. runs # 0
    BY <1>1 DEF Together, Early
<1>3. Inv'
    BY NextInv DEF Next, Together
<1> QED
    BY <1>1, <1>2, <1>3, ClosedStep

LEMMA UnheardStep ==
    ASSUME Together, Unheard
    PROVE  Together'
<1> USE DEF host, person
<1>1. /\ UNCHANGED <<device, rx, host, wire, person>> /\ step = "closed" /\ tx' = <<>>
    BY DEF Unheard
<1>2. Q' = Q /\ Flight' = Flight
    BY <1>1 DEF Q, Flight
<1>3. Inv'
    BY NextInv DEF Next, Together
<1>4. Local' /\ Clean' = Clean /\ (Unit => Unit')
    BY <1>1, <1>2, LocalStays, DeviceStays DEF Together, Local, Clean
<1>5. HostInv'
    BY <1>1 DEF HostInv, Later
<1>6. Early'
    BY <1>1, <1>2 DEF Together, Early, NoneIs, device
<1> QED
    BY <1>3, <1>4, <1>5, <1>6 DEF Together

LEMMA TypeStep ==
    ASSUME Together, OneCleanRun, Type
    PROVE  Together'
<1> USE DEF host
<1>1. /\ UNCHANGED <<device, rx, tx, host, runs>> /\ step = "closed" /\ typed' = typed + 1
      /\ \E b \in Keys : wire' = Append(wire, b)
    BY DEF Type
<1>2. PICK b \in Keys : wire' = Append(wire, b)
    BY <1>1
<1>3. Inv'
    BY NextInv DEF Next, Together
<1>4. typed \in Nat /\ typed' \in Nat /\ typed' # 0
    BY <1>1 DEF Together, Local
<1>5. Local'
    BY <1>1, <1>4, LocalStays DEF Together, Local
<1>6. ~ Clean'
    BY <1>1, <1>4 DEF Clean, Later
<1>7. HostInv'
    BY <1>1 DEF HostInv, Later
<1>8. NoneIs(Q, SYN, Flight) => NoneIs(Q', SYN, Flight')
  <2>1. b # SYN /\ b \in Byte
    BY Bytes DEF OneCleanRun
  <2>2. rx \in Seq(Byte) /\ wire \in Seq(Byte)
    BY DEF Together, Inv, Local
  <2> QED
    BY <1>1, <1>2, <2>1, <2>2, AddedNone DEF Q, Flight
<1>9. Early'
    BY <1>1, <1>4, <1>8 DEF Together, Early, device
<1> QED
    BY <1>3, <1>5, <1>6, <1>7, <1>9 DEF Together

LEMMA HostOpensStep ==
    ASSUME Together, OneCleanRun, HostOpens
    PROVE  Together'
<1>1. /\ UNCHANGED <<device, rx, tx, wire, waiting, kernel, dtb, typed>>
      /\ step = "closed" /\ step' = "open" /\ runs' = runs + 1 /\ runs < MaxRuns
    BY DEF HostOpens, Host!Open
<1>2. Q' = Q /\ Flight' = Flight
    BY <1>1 DEF Q, Flight
<1>3. Inv'
    BY NextInv DEF Next, Together
<1>4. runs = 0 /\ runs' = 1
    BY <1>1 DEF Together, Local, OneCleanRun
<1>5. Local' /\ Clean' = Clean /\ (Unit => Unit')
    BY <1>1, <1>2, <1>4, LocalStays, DeviceStays DEF Together, Local, Clean, Later
<1>6. HostInv'
    BY <1>1 DEF HostInv, Later
<1>7. Early'
    BY <1>1, <1>2, <1>4 DEF Together, Early, NoneIs, device
<1> QED
    BY <1>3, <1>5, <1>6, <1>7 DEF Together

----------------------------------------------------------------------------
(* The host's steps.                                                       *)

LEMMA Suffix ==
    ASSUME Inv, NEW n \in 0 .. Len(tx), tx' = SubSeq(tx, n + 1, Len(tx)),
           NoneIs(tx, "ACK", Len(tx))
    PROVE  NoneIs(tx', "ACK", Len(tx'))
<1>1. Len(tx) \in Nat /\ tx \in Seq(Device!Reply)
    BY LenProperties DEF Inv
<1>2. CASE n = Len(tx)
  <2>1. tx' = <<>>
    BY <1>2, Reading
  <2> QED
    BY <2>1 DEF NoneIs
<1>3. CASE n # Len(tx)
  <2>1. /\ Len(tx') = Len(tx) - n
        /\ \A j \in 1 .. (Len(tx) - n) : tx'[j] = tx[n + j]
    BY <1>1, <1>3, SubSeqProperties
  <2>2. ASSUME NEW j \in 1 .. (Len(tx) - n) PROVE tx'[j] # "ACK"
    <3>1. n + j \in 1 .. Len(tx)
      BY <1>1
    <3> QED
      BY <2>1, <3>1 DEF NoneIs
  <2> QED
    BY <2>1, <2>2 DEF NoneIs
<1> QED
    BY <1>2, <1>3

LEMMA SendSynStep ==
    ASSUME Together, HostRuns, Host!SendSyn
    PROVE  Together'
<1>1. /\ UNCHANGED <<device, rx, kernel, dtb, typed, runs>> /\ step = "open" /\ step' = "syn"
      /\ wire' = wire \o <<SYN>> /\ waiting' = TRUE
    BY DEF HostRuns, Host!SendSyn, Host!Write, person
<1>2. PICK n \in 0 .. Len(tx) : tx' = SubSeq(tx, n + 1, Len(tx))
    BY DEF Host!SendSyn
<1>3. Inv'
    BY NextInv DEF Next, Together
<1>4. /\ pc \in {"out", "sync"} /\ NoneIs(Q, SYN, Flight) /\ NoneIs(tx, "ACK", Len(tx))
    BY <1>1 DEF Together, Early
<1>5. NoneIs(tx', "ACK", Len(tx'))
    BY <1>2, <1>4, Suffix DEF Together
<1>6. rx \in Seq(Byte) /\ wire \in Seq(Byte) /\ SYN \in Byte /\ wire' = Append(wire, SYN)
    BY <1>1, Bytes, AppendIsConcat DEF Together, Inv, Local
<1>7. NoneIs(Q', SYN, Flight' - 1)
  <2> DEFINE m == Flight'
  <2>1. /\ m = Flight + 1 /\ Flight \in Nat
        /\ \A j \in 1 .. Flight : Q'[j] = Q[j]
    BY <1>1, <1>6, Added DEF Q, Flight
  <2>2. m - 1 = Flight
    <3> HIDE DEF m
    <3> QED
      BY <2>1
  <2> QED
    BY <1>4, <2>1, <2>2 DEF NoneIs
<1>8. Q = <<SYN>> \/ Q = <<>> => Q' = <<SYN>>
  <2>1. Q # <<SYN>>
    BY <1>4 DEF NoneIs, Flight
  <2>2. ASSUME Q = <<>> PROVE Q' = <<SYN>>
    <3>1. Len(rx) + Len(wire) = 0 /\ Len(rx) \in Nat /\ Len(wire) \in Nat
      BY <2>2, Lengths DEF Together
    <3>2. rx = <<>> /\ wire = <<>>
      BY <1>6, <3>1, EmptySeq
    <3> QED
      BY <1>1, <1>6, <3>2, ConcatEmptySeq DEF Q
  <2> QED
    BY <2>1, <2>2
<1>9. Local' /\ Clean' = Clean
    BY <1>1, LocalStays DEF Together, Local, Clean, Later
<1>10. Unit'
    BY <1>1, <1>4 DEF Unit, Transfers, device
<1>11. HostInv'
    BY <1>1 DEF HostInv, Later
<1>12. Early'
  <2>1. runs # 0
    BY <1>1 DEF Together, Early
  <2>2. UNCHANGED <<pc, c, runs, typed>>
    BY <1>1 DEF device
  <2>3. typed' = 0 => Q' = <<>> \/ Q' = <<SYN>>
    BY <1>4, <1>8, <2>2 DEF Together, Early
  <2> QED
    BY <1>1, <1>4, <1>5, <1>7, <2>1, <2>2, <2>3 DEF Early, Together
<1> QED
    BY <1>3, <1>9, <1>10, <1>11, <1>12 DEF Together

(* What the host knows when it is about to write. *)
LEMMA AboutToSend ==
    ASSUME Together, step \in Later, ~ waiting
    PROVE  /\ runs # 0 /\ Q = <<>> /\ rx = <<>> /\ wire = <<>>
           /\ step # "monitor" => tx = <<>> /\ At(step, sent) /\ Right
<1>1. Q = <<>> /\ (step # "monitor" => tx = <<>> /\ At(step, sent) /\ Right)
    BY DEF Together, HostInv, Received
<1>2. Len(rx) + Len(wire) = 0 /\ Len(rx) \in Nat /\ Len(wire) \in Nat
    BY <1>1, Lengths DEF Together
<1>3. rx = <<>> /\ wire = <<>>
    BY <1>2, EmptySeq DEF Together, Inv, Local
<1>4. runs # 0
    BY DEF Together, Early, Later
<1> QED
    BY <1>1, <1>3, <1>4

(* The host writes what the device needs next. *)
LEMMA SendsWhatIsNeeded ==
    ASSUME Together, HostRuns, step \in {"kernel_size", "kernel", "dtb_size", "dtb"},
           UNCHANGED <<step, sent, tx>>, waiting' = TRUE, ~ waiting,
           NEW s \in Seq(Byte), wire' = wire \o s, pc \in Transfers,
           Len(s) = Need, s # <<>>, \A j \in 1 .. Len(s) : s[j] = Coming(j),
           At(step, sent) => Within'
    PROVE  Together'
<1>1. /\ UNCHANGED <<device, rx, kernel, dtb, typed, runs>> /\ step \in Later
    BY DEF HostRuns, person, Later, Host!SendSyn, Host!SendSize, Host!SendChunk,
       Host!AckArrives, Host!OtherArrives, Host!Monitor
<1>2. /\ runs # 0 /\ rx = <<>> /\ wire = <<>> /\ tx = <<>> /\ At(step, sent) /\ Right
    BY <1>1, AboutToSend
<1>3. Q' = s
    BY <1>1, <1>2, ConcatEmptySeq DEF Q
<1>4. Inv'
    BY NextInv DEF Next, Together
<1>5. Local' /\ Clean'
    BY <1>1, LocalStays DEF Together, Local, Clean
<1>6. /\ Right' /\ Need' = Need /\ (\A j : Coming(j)' = Coming(j)) /\ pc' = pc
    BY <1>1, <1>2, DeviceStays DEF device
<1>7. Unit'
  <2>1. Need \in Int /\ Flight' = Need
    BY <1>3, NeedIsInt DEF Together, Flight
  <2>2. \A j \in 1 .. Flight' : Q'[j] = Coming(j)'
    BY <1>3, <1>6 DEF Flight
  <2>3. Flight' <= Need'
    BY <1>6, <2>1
  <2> QED
    BY <1>6, <2>2, <2>3 DEF Unit, Transfers
<1>8. HostInv'
    BY <1>1, <1>2, <1>6 DEF HostInv, Transfers
<1>9. Early'
    BY <1>1, <1>2, <1>6 DEF Early, Later, Transfers, Together
<1> QED
    BY <1>4, <1>5, <1>7, <1>8, <1>9 DEF Together

LEMMA SendSizeStep ==
    ASSUME Together, HostRuns, Host!SendSize
    PROVE  Together'
<1>1. /\ UNCHANGED <<step, sent, tx>> /\ waiting' = TRUE /\ ~ waiting
      /\ \/ step = "kernel_size" /\ wire' = wire \o <<Low(kernel), High(kernel)>>
         \/ step = "dtb_size" /\ wire' = wire \o <<Low(dtb), High(dtb)>>
    BY DEF Host!SendSize, Host!Write, Low, High
<1>2. step \in Later /\ step # "monitor" /\ step \in {"kernel_size", "kernel", "dtb_size", "dtb"}
    BY <1>1 DEF Later
<1>3. At(step, sent)
    BY <1>1, <1>2, AboutToSend
<1>4. UNCHANGED pc
    BY DEF HostRuns, device
<1>5. ASSUME NEW f \in {kernel, dtb},
             pc \in {"kernel_size_lo", "dtb_size_lo"}, wire' = wire \o <<Low(f), High(f)>>,
             Coming(1) = Low(f), Coming(2) = High(f), Within'
      PROVE  Together'
  <2>1. <<Low(f), High(f)>> \in Seq(Byte)
    BY SyllablesOfBytes DEF Together, Low, High
  <2>2. Len(<<Low(f), High(f)>>) = 2 /\ <<Low(f), High(f)>> # <<>>
    OBVIOUS
  <2>3. \A j \in 1 .. Len(<<Low(f), High(f)>>) : <<Low(f), High(f)>>[j] = Coming(j)
    BY <1>5
  <2>4. Need = 2 /\ pc \in Transfers
    BY <1>5 DEF Need, Transfers
  <2> QED
    BY <1>1, <1>2, <1>5, <2>1, <2>2, <2>3, <2>4, SendsWhatIsNeeded
<1>6. CASE step = "kernel_size"
  <2>1. pc = "kernel_size_lo"
    BY <1>3, <1>6 DEF At
  <2>2. Coming(1) = Low(kernel) /\ Coming(2) = High(kernel)
    BY <2>1 DEF Coming
  <2>3. Within'
    BY <1>1, <1>4, <1>6, <2>1 DEF Within
  <2> QED
    BY <1>1, <1>5, <1>6, <2>1, <2>2, <2>3
<1>7. CASE step = "dtb_size"
  <2>1. pc = "dtb_size_lo"
    BY <1>3, <1>7 DEF At
  <2>2. Coming(1) = Low(dtb) /\ Coming(2) = High(dtb)
    BY <2>1 DEF Coming
  <2>3. Within'
    BY <1>1, <1>4, <1>7, <2>1 DEF Within
  <2> QED
    BY <1>1, <1>5, <1>7, <2>1, <2>2, <2>3
<1> QED
    BY <1>1, <1>6, <1>7

LEMMA Slice ==
    ASSUME NEW f \in Seq(Byte), NEW m \in Nat, NEW n \in Nat, m + n <= Len(f), n # 0
    PROVE  /\ SubSeq(f, m + 1, m + n) \in Seq(Byte)
           /\ Len(SubSeq(f, m + 1, m + n)) = n
           /\ \A j \in 1 .. n : SubSeq(f, m + 1, m + n)[j] = f[m + j]
<1>1. Len(f) \in Nat
    BY LenProperties
<1>2. m + 1 \in 1 .. (m + n) + 1 /\ m + n \in m .. Len(f) /\ (m + n) - (m + 1) + 1 = n
    BY <1>1
<1> QED
    BY <1>1, <1>2, SubSeqProperties

LEMMA SendChunkStep ==
    ASSUME Together, HostRuns, Host!SendChunk
    PROVE  Together'
<1> DEFINE s == SubSeq(Host!file, sent + 1, Host!sentNext)
<1>1. /\ UNCHANGED <<step, sent, tx>> /\ waiting' = TRUE /\ ~ waiting
      /\ step \in {"kernel", "dtb"} /\ wire' = wire \o s
    BY DEF Host!SendChunk, Host!Write
<1>2. step \in Later /\ step # "monitor"
    BY <1>1 DEF Later
<1>3. At(step, sent) /\ Right
    BY <1>1, <1>2, AboutToSend
<1>4. UNCHANGED <<pc, ptr, i>>
    BY DEF HostRuns, device
<1>5. /\ step = "kernel" => pc = "kernel" /\ i = 0 /\ ptr = KERNEL_LOAD_ADDR + sent
                            /\ Filling(KERNEL_LOAD_ADDR, kernel) /\ Host!file = kernel
      /\ step = "dtb" => pc = "dtb" /\ i = 0 /\ ptr = DTB_LOAD_ADDR + sent
                            /\ Filling(DTB_LOAD_ADDR, dtb) /\ Host!file = dtb
    BY <1>3 DEF At, Right, Host!file
<1>6. /\ sent \in Nat /\ Len(Host!file) \in Nat /\ Host!file \in Seq(Byte)
      /\ remaining \in Nat /\ i \in Nat /\ i < Device!chunk
    BY <1>1, <1>5, LenProperties DEF Together, Inv, File, Local, Host!file
<1>7. remaining = Len(Host!file) - sent /\ i = 0
  <2>1. ASSUME NEW base \in Nat, i = 0, ptr = base + sent, Filling(base, Host!file)
        PROVE  remaining = Len(Host!file) - sent
    <3>1. remaining - i = base + Len(Host!file) - ptr
      BY <2>1 DEF Filling
    <3> QED
      BY <1>6, <2>1, <3>1
  <2> QED
    BY <1>1, <1>5, <2>1, Layout
<1>8. /\ Need = Device!chunk /\ Device!chunk \in Nat \ {0}
      /\ Host!sentNext = sent + Device!chunk /\ Host!sentNext <= Len(Host!file)
  <2>1. Need = Device!chunk - i
    BY <1>1, <1>5 DEF Need
  <2>2. Device!chunk \in Nat \ {0}
    BY <1>6, <1>7, Layout DEF Device!chunk, Device!Lesser
  <2>3. Host!sentNext = sent + Device!chunk /\ Host!sentNext <= Len(Host!file)
    BY <1>6, <1>7, Layout DEF Device!chunk, Device!Lesser, Host!sentNext
  <2> QED
    BY <1>7, <2>1, <2>2, <2>3
<1>9. /\ s \in Seq(Byte) /\ Len(s) = Need /\ s # <<>>
      /\ \A j \in 1 .. Len(s) : s[j] = Host!file[sent + j]
  <2>1. /\ s \in Seq(Byte) /\ Len(s) = Device!chunk
        /\ \A j \in 1 .. Len(s) : s[j] = Host!file[sent + j]
    <3> DEFINE n == Device!chunk
               f == Host!file
    <3>1. sent + n <= Len(f) /\ n \in Nat /\ n # 0 /\ sent \in Nat /\ f \in Seq(Byte)
      BY <1>6, <1>8
    <3> HIDE DEF n, f
    <3>2. /\ SubSeq(f, sent + 1, sent + n) \in Seq(Byte)
          /\ Len(SubSeq(f, sent + 1, sent + n)) = n
          /\ \A j \in 1 .. n : SubSeq(f, sent + 1, sent + n)[j] = f[sent + j]
      BY <3>1, Slice
    <3>3. s = SubSeq(f, sent + 1, sent + n)
      BY <1>8 DEF n, f
    <3> QED
      BY <3>2, <3>3 DEF n, f
  <2>2. s # <<>>
    BY <1>8, <2>1, EmptySeq
  <2> QED
    BY <1>8, <2>1, <2>2
<1>10. \A j \in 1 .. Len(s) : s[j] = Coming(j)
  <2>1. ASSUME NEW j \in Int PROVE Coming(j) = Host!file[sent + j]
    <3>1. CASE step = "kernel"
      <4>1. ptr - KERNEL_LOAD_ADDR + j = sent + j
        BY <1>5, <1>6, <3>1, Layout
      <4> QED
        BY <1>5, <3>1, <4>1 DEF Coming
    <3>2. CASE step = "dtb"
      <4>1. ptr - DTB_LOAD_ADDR + j = sent + j
        BY <1>5, <1>6, <3>2, Layout
      <4> QED
        BY <1>5, <3>2, <4>1 DEF Coming
    <3> QED
      BY <1>1, <3>1, <3>2
  <2> HIDE DEF s
  <2> QED
    BY <1>9, <2>1
<1>11. Within'
  <2>1. /\ step = "kernel" => ptr' = KERNEL_LOAD_ADDR + sent' + i'
        /\ step = "dtb" => ptr' = DTB_LOAD_ADDR + sent' + i'
    <3>1. sent' = sent /\ i' = i /\ ptr' = ptr
      BY <1>1, <1>4
    <3>2. \A base \in Nat : base + sent = base + sent + i
      BY <1>6, <1>7
    <3> QED
      BY <1>5, <3>1, <3>2, Layout
  <2> QED
    BY <1>1, <1>4, <1>5, <2>1 DEF Within
<1>12. pc \in Transfers
    BY <1>1, <1>5 DEF Transfers
<1> HIDE DEF s
<1> QED
    BY <1>1, <1>9, <1>10, <1>11, <1>12, SendsWhatIsNeeded

LEMMA AckArrivesStep ==
    ASSUME Together, HostRuns, Host!AckArrives
    PROVE  Together'
<1>1. /\ UNCHANGED <<device, rx, kernel, dtb, typed, runs, wire>>
      /\ waiting /\ waiting' = FALSE /\ tx # <<>> /\ Head(tx) = "ACK" /\ tx' = Tail(tx)
      /\ step' = NextStep /\ sent' = NextSent
  <2>1. /\ UNCHANGED <<device, rx, kernel, dtb, typed, runs, wire>>
        /\ waiting /\ waiting' = FALSE /\ tx # <<>> /\ Head(tx) = "ACK" /\ tx' = Tail(tx)
    BY DEF HostRuns, Host!AckArrives, person
  <2>2. Len(Host!file) \in Nat
    BY LenProperties DEF Together, Inv, File, Host!file
  <2>3. step' = NextStep /\ sent' = NextSent
    BY <2>2 DEF Host!AckArrives, NextStep, NextSent, MoreOfFile
  <2> QED
    BY <2>1, <2>3
<1>2. Inv'
    BY NextInv DEF Next, Together
<1>3. Local'
    BY <1>1, LocalStays DEF Together, Local
<1>4. Q' = Q /\ Flight' = Flight
    BY <1>1 DEF Q, Flight
<1>5. UNCHANGED <<pc, i, ptr, runs, typed>> /\ runs # 0 /\ step # "monitor"
  <2>1. UNCHANGED <<pc, i, ptr, runs, typed>>
    BY <1>1 DEF device
  <2>2. runs # 0 /\ step # "monitor"
    BY <1>1 DEF Together, Early, HostInv
  <2> QED
    BY <2>1, <2>2
<1>6. (Right => Right') /\ (Unit => Unit') /\ (Received => Received')
    BY <1>1, <1>4, DeviceStays
<1>7. CASE step = "syn"
  <2>1. /\ pc = "kernel_size_lo" /\ Q = <<>> /\ NoneIs(tx, "ACK", Len(tx) - 1)
    <3>1. ~ NoneIs(tx, "ACK", Len(tx))
      <4>1. 1 \in 1 .. Len(tx) /\ tx[1] = "ACK"
        BY <1>1, EmptySeq, LenProperties DEF Together, Inv
      <4> QED
        BY <4>1 DEF NoneIs
    <3> QED
      BY <1>7, <3>1 DEF Together, Early
  <2>2. tx' = <<>>
    <3>1. Len(tx) \in Nat \ {0} /\ tx[1] = "ACK" /\ tx \in Seq(Device!Reply)
      BY <1>1, EmptySeq, LenProperties DEF Together, Inv
    <3>2. ~ (1 \in 1 .. (Len(tx) - 1))
      BY <2>1, <3>1 DEF NoneIs
    <3> DEFINE n == Len(tx)
    <3>3. Len(tx) = 1
      <4>1. n \in Nat \ {0} /\ ~ (1 \in 1 .. (n - 1))
        BY <3>1, <3>2
      <4> HIDE DEF n
      <4>2. n = 1
        BY <4>1
      <4> QED
        BY <4>2 DEF n
    <3>4. tx' \in Seq(Device!Reply) /\ Len(tx') = 0
      BY <1>1, <3>1, <3>3, HeadTailProperties
    <3> QED
      BY <3>4, EmptySeq
  <2>3. step' = "kernel_size" /\ sent' = 0
    BY <1>1, <1>7 DEF NextStep, NextSent, MoreOfFile, Host!StepAfter
  <2>4. At(step, sent)' /\ Right'
    BY <1>5, <2>1, <2>3 DEF At, Right
  <2>5. HostInv'
    BY <1>1, <1>4, <1>5, <2>1, <2>2, <2>3, <2>4 DEF HostInv
  <2>6. Unit'
    <3>1. Need' = 2 /\ Flight' = 0 /\ pc' = "kernel_size_lo"
      BY <1>4, <1>5, <2>1 DEF Need, Flight
    <3> QED
      BY <3>1 DEF Unit, Transfers
  <2>7. Early'
    BY <1>5, <2>1, <2>3 DEF Early
  <2> QED
    BY <1>2, <1>3, <2>5, <2>6, <2>7 DEF Together
<1>8. CASE step \in Later
  <2>1. Answered
    BY <1>1, <1>5, <1>8 DEF Together, HostInv
  <2>2. Clean /\ Unit'
    BY <1>6, <1>8 DEF Together, Clean
  <2>3. NextStep \in Later
    BY <1>5, <1>8 DEF Later, NextStep, MoreOfFile, Host!StepAfter
  <2>4. CASE /\ tx = <<"ACK">> /\ Q = <<>> /\ Right
             /\ NextStep # "monitor" /\ At(NextStep, NextSent)
    <3>1. tx' = <<>>
      BY <1>1, <2>4
    <3>2. At(step, sent)'
      BY <1>1, <1>5, <2>4 DEF At
    <3> QED
      <4>1. HostInv'
        BY <1>1, <1>4, <1>6, <2>3, <2>4, <3>1, <3>2 DEF HostInv
      <4>2. Early'
        BY <1>1, <1>4, <1>5, <1>8, <2>3, <2>4 DEF Early, Later, Together, device
      <4> QED
        BY <1>2, <1>3, <2>2, <4>1, <4>2 DEF Together
  <2>5. CASE NextStep = "monitor" /\ Received
    <3>1. HostInv'
      BY <1>1, <1>4, <1>6, <2>5 DEF HostInv, Received
    <3>2. Early'
      BY <1>1, <1>4, <1>5, <1>8, <2>5 DEF Early, Later, Together, device, Received
    <3> QED
      BY <1>2, <1>3, <2>2, <3>1, <3>2 DEF Together
  <2> QED
    BY <1>1, <2>1, <2>4, <2>5 DEF Answered
<1>9. step = "syn" \/ step \in Later
    BY <1>1 DEF Together, Early, Later, Inv, Host!Steps
<1> QED
    BY <1>7, <1>8, <1>9

LEMMA OtherArrivesStep ==
    ASSUME Together, HostRuns, Host!OtherArrives
    PROVE  Together'
<1>1. /\ UNCHANGED <<device, kernel, dtb, rx, typed, runs, wire>>
      /\ step' = "closed" /\ waiting' = FALSE /\ waiting
    BY DEF HostRuns, Host!OtherArrives, Host!Close, person
<1>2. runs # 0
    BY <1>1 DEF Together, Early
<1>3. Inv'
    BY NextInv DEF Next, Together
<1>4. Len(wire) \in 0 .. Len(wire) /\ wire' = SubSeq(wire, 1, Len(wire))
  <2>1. wire \in Seq(Byte) /\ Len(wire) \in Nat
    BY LenProperties DEF Together, Inv
  <2> QED
    BY <1>1, <2>1, Cut
<1> QED
    BY <1>1, <1>2, <1>3, <1>4, ClosedStep

LEMMA MonitorStep ==
    ASSUME Together, HostRuns, Host!Monitor
    PROVE  Together'
<1>1. /\ UNCHANGED <<device, rx, host, wire, person>> /\ step = "monitor" /\ tx' = <<>>
    BY DEF HostRuns, Host!Monitor, host
<1>2. Q' = Q
    BY <1>1 DEF Q
<1>3. Inv'
    BY NextInv DEF Next, Together
<1>4. UNCHANGED <<kernel, dtb, step, waiting, typed, runs, pc, c>>
    BY <1>1 DEF host, person, device
<1>5. Local' /\ Clean' = Clean /\ (Unit => Unit') /\ (Received => Received')
    BY <1>1, <1>2, <1>4, LocalStays, DeviceStays DEF Together, Local, Clean
<1>6. HostInv'
    BY <1>1, <1>2, <1>4, <1>5 DEF HostInv, Together
<1>7. Early'
    BY <1>1, <1>2, <1>4 DEF Together, Early
<1> QED
    BY <1>3, <1>5, <1>6, <1>7 DEF Together

----------------------------------------------------------------------------
(* Together is an invariant of one clean run.                              *)

LEMMA InitTogether == Init => Together
<1> SUFFICES ASSUME Init PROVE Together
    OBVIOUS
<1>1. /\ pc = "out" /\ kernel_size = 0 /\ dtb_size = 0 /\ remaining = 0 /\ i = 0
      /\ ptr = KERNEL_LOAD_ADDR /\ mem \in [Device!Addr -> PowerOn]
      /\ rx = <<>> /\ tx = <<>> /\ wire = <<>>
      /\ step = "closed" /\ waiting = FALSE /\ runs = 0 /\ typed = 0
    BY DEF Init, Device!Init, Host!Init
<1>2. Inv
    BY InitInv
<1>3. Local
  <2>1. mem \in [Device!Addr -> Byte] /\ rx \in Seq(Byte)
    BY <1>1, LinkAssumption, EmptySeq DEF Byte
  <2> QED
    BY <1>1, <2>1, Layout DEF Local
<1>4. Unit
    BY <1>1 DEF Unit, Transfers
<1>5. HostInv
    BY <1>1 DEF HostInv, Later
<1>6. Early
  <2>1. Q = <<>> /\ Flight = 0
    BY <1>1, <1>2, <1>3, Lengths, EmptySeq DEF Q
  <2> QED
    BY <1>1, <2>1 DEF Early, NoneIs
<1> QED
    BY <1>2, <1>3, <1>4, <1>5, <1>6 DEF Together

LEMMA DeviceRunsStep ==
    ASSUME Together, OneCleanRun, DeviceRuns
    PROVE  Together'
<1>1. UNCHANGED <<host, wire, person>> /\ Device!BootFromSerial
    BY DEF DeviceRuns
<1>2. CASE Device!PollNothing \/ Device!PollOther \/ Device!PollExit \/ Device!WaitOver
    BY <1>1, <1>2, ElsewhereSteps
<1>3. CASE Device!PollSyn
    BY <1>3, PollSynStep
<1>4. CASE Device!KernelSizeLow
    BY <1>4, KernelSizeLowStep
<1>5. CASE Device!KernelSizeHigh
    BY <1>5, KernelSizeHighStep
<1>6. CASE Device!KernelByte
    BY <1>6, KernelByteStep
<1>7. CASE Device!DtbSizeLow
    BY <1>7, DtbSizeLowStep
<1>8. CASE Device!DtbSizeHigh
    BY <1>8, DtbSizeHighStep
<1>9. CASE Device!DtbByte
    BY <1>9, DtbByteStep
<1>10. CASE Device!CheckMagic
    BY <1>10, CheckMagicStep
<1>11. CASE Device!Boot
    BY <1>11, BootStep
<1> QED
    BY <1>1, <1>2, <1>3, <1>4, <1>5, <1>6, <1>7, <1>8, <1>9, <1>10, <1>11
       DEF Device!BootFromSerial

LEMMA HostRunsStep ==
    ASSUME Together, HostRuns
    PROVE  Together'
<1>1. \/ Host!SendSyn \/ Host!SendSize \/ Host!SendChunk
      \/ Host!AckArrives \/ Host!OtherArrives \/ Host!Monitor
    BY DEF HostRuns
<1> QED
    BY <1>1, SendSynStep, SendSizeStep, SendChunkStep, AckArrivesStep,
       OtherArrivesStep, MonitorStep

LEMMA NextTogether ==
    ASSUME Together, OneCleanRun, [Next]_vars
    PROVE  Together'
<1>1. CASE DeviceRuns
    BY <1>1, DeviceRunsStep
<1>2. CASE DeviceEnters \/ OtherReader
    BY <1>2, ElsewhereSteps DEF DeviceEnters, OtherReader
<1>3. CASE Deliver \/ Overrun \/ Unheard
    BY <1>3, DeliverStep, OverrunStep, UnheardStep
<1>4. CASE HostRuns
    BY <1>4, HostRunsStep
<1>5. CASE HostOpens \/ HostTimesOut \/ HostInterrupted \/ Type
    BY <1>5, HostOpensStep, HostTimesOutStep, HostInterruptedStep, TypeStep
<1>6. CASE UNCHANGED vars
  <2>1. UNCHANGED <<device, kernel, dtb, rx, tx, wire, step, waiting, sent, typed, runs, c>>
    BY <1>6 DEF vars, host, person, device
  <2>2. Q' = Q /\ Flight' = Flight
    BY <2>1 DEF Q, Flight
  <2>3. Inv' /\ Local' /\ Clean' = Clean
    BY <1>6, <2>1, NextInv, LocalStays DEF Together, Local, Clean
  <2>4. /\ (Unit => Unit') /\ (Received => Received') /\ (Right => Right')
        /\ Need' = Need
    BY <2>1, <2>2, DeviceStays
  <2>5. UNCHANGED <<pc, ptr, i>>
    BY <2>1 DEF device
  <2>6. HostInv'
    <3>1. Within => Within'
      BY <2>1, <2>2, <2>4, <2>5 DEF Within
    <3>2. Answered => Answered'
      BY <2>1, <2>2, <2>4, <2>5 DEF Answered, At, NextStep, NextSent, MoreOfFile,
         Host!StepAfter, Host!sentNext, Host!file
    <3>3. At(step, sent) => At(step, sent)'
      BY <2>1, <2>5 DEF At
    <3> QED
      BY <2>1, <2>2, <2>4, <2>5, <3>1, <3>2, <3>3 DEF Together, HostInv
  <2>7. Early'
    BY <2>1, <2>2, <2>5 DEF Together, Early
  <2> QED
    BY <2>3, <2>4, <2>6, <2>7 DEF Together
<1> QED
    BY <1>1, <1>2, <1>3, <1>4, <1>5, <1>6 DEF Next

THEOREM OneRunStaysTogether ==
    ASSUME OneCleanRun
    PROVE  Spec => []Together
BY InitTogether, NextTogether, PTL DEF Spec

----------------------------------------------------------------------------
(* What follows.                                                           *)

(* The ACKs keep the loops of serial_boot.c:104-119, 181-196 and           *)
(* image.py:63 in step, for files of any length, chunks of any size and    *)
(* any losses on the way.                                                  *)
THEOREM LoopsStayInStep ==
    ASSUME OneCleanRun
    PROVE  Spec => []InStep
<1>1. Together => InStep
    BY DEF Together, HostInv, At, InStep, Later
<1> QED
    BY <1>1, OneRunStaysTogether, PTL

(* What bootFromSerial boots (serial_boot.c:211) is what image.py read     *)
(* from the two files.                                                     *)
THEOREM BootsWhatTheHostHas ==
    ASSUME OneCleanRun
    PROVE  Spec => []BootsTheHostsFiles
<1>1. Together => BootsTheHostsFiles
    BY DEF Together, Clean, Unit, Right, KernelIn, KernelCopied, DtbIn, DtbCopied,
       Copied, Holds, BootsTheHostsFiles
<1> QED
    BY <1>1, OneRunStaysTogether, PTL

(* Once image.py says that both files are transferred (image.py:195-200)   *)
(* they are in the device's memory; when Linux starts the kernel still is, *)
(* if the blob is a device tree.                                           *)
THEOREM SuccessMeansReceived ==
    ASSUME OneCleanRun
    PROVE  Spec => []TransferredIsReceived
<1>1. Together => TransferredIsReceived
  <2>1. SUFFICES ASSUME Together, step = "monitor", pc # "sync"
                 PROVE  /\ pc \in {"magic", "boot", "linux", "out"}
                        /\ KernelWhole
                        /\ pc = "magic" => Holds(DTB_LOAD_ADDR, dtb)
    BY DEF TransferredIsReceived, KernelWhole, KernelCopied, Copied, Holds
  <2>2. Received
    BY <2>1 DEF Together, HostInv
  <2>3. pc = "magic" => Right
    BY <2>1 DEF Together, Clean, Later, Unit
  <2> QED
    BY <2>1, <2>2, <2>3 DEF Received, Right, DtbCopied, Copied, Holds
<1> QED
    BY <1>1, OneRunStaysTogether, PTL

LEMMA RefusalStep ==
    ASSUME Together, [Next]_vars, ret' = "RET_ERR", ret # "RET_ERR", typed = 0
    PROVE  ~ Acceptable
<1>1. /\ Len(kernel) \in Nat /\ Len(dtb) \in Nat
      /\ Len(kernel) < Device!AddrSpace /\ Len(dtb) < Device!AddrSpace /\ Clean
      /\ kernel # <<>> => Len(kernel) # 0
      /\ dtb # <<>> => Len(dtb) # 0
    BY LenProperties, EmptySeq DEF Together, Inv, File, Clean
<1>2. DeviceRuns
    BY DEF Next, DeviceEnters, OtherReader, Deliver, Overrun, Unheard, HostOpens, HostRuns,
       HostTimesOut, HostInterrupted, Type, vars, device, Device!Enter, Device!OtherReader
<1>3. Device!KernelSizeHigh \/ Device!DtbSizeHigh \/ Device!CheckMagic
    BY <1>2 DEF DeviceRuns, Device!BootFromSerial, Device!PollNothing, Device!PollOther,
       Device!PollExit, Device!PollSyn, Device!WaitOver, Device!Attach, Device!Return,
       Device!KernelSizeLow, Device!KernelByte, Device!DtbSizeLow, Device!DtbByte,
       Device!Receive, Device!Boot
<1>4. CASE Device!KernelSizeHigh
  <2>1. PICK b \in Byte : Device!Get(b) /\ ~ Device!KernelFits(kernel_size + ByteBase * b)
    BY <1>4 DEF Device!KernelSizeHigh, Device!Expect, Byte
  <2>2. kernel_size + ByteBase * b = Len(kernel)
    BY <1>1, <1>2, <1>4, <2>1, SizeComplete DEF DeviceRuns, Device!KernelSizeHigh
  <2>3. ASSUME Acceptable PROVE Device!KernelFits(Len(kernel))
    BY <1>1, <2>3, Layout DEF Acceptable, Device!KernelFits, Device!Add
  <2> QED
    BY <2>1, <2>2, <2>3
<1>5. CASE Device!DtbSizeHigh
  <2>1. PICK b \in Byte : Device!Get(b) /\ ~ Device!DtbFits(dtb_size + ByteBase * b)
    BY <1>5 DEF Device!DtbSizeHigh, Device!Expect, Byte
  <2>2. dtb_size + ByteBase * b = Len(dtb) /\ Right /\ pc = "dtb_size_hi"
    BY <1>1, <1>2, <1>5, <2>1, SizeComplete DEF DeviceRuns, Device!DtbSizeHigh
  <2>3. ASSUME Acceptable PROVE Device!DtbFits(Len(dtb))
    <3>1. KernelIn
      BY <2>2 DEF Right
    <3>2. Device!kernel_end = KERNEL_LOAD_ADDR + Len(kernel)
      BY <1>1, <3>1, Layout DEF KernelIn, Device!kernel_end, Device!Add
    <3>3. Device!Add(DTB_LOAD_ADDR, Len(dtb)) = DTB_LOAD_ADDR + Len(dtb)
      BY <1>1, <2>3, Layout DEF Acceptable, Device!Add
    <3> QED
      BY <1>1, <2>3, <3>2, <3>3, Layout, LinkAssumption DEF Acceptable, Device!DtbFits
  <2> QED
    BY <2>1, <2>2, <2>3
<1>6. CASE Device!CheckMagic
  <2>1. pc = "magic" /\ ~ Device!MagicOK
    BY <1>6 DEF Device!CheckMagic
  <2>2. DtbCopied
    BY <1>1, <2>1 DEF Together, Unit, Right
  <2>3. ASSUME Acceptable, NEW j \in DOMAIN DtbMagic
        PROVE  mem[DTB_LOAD_ADDR + j] = DtbMagic[j]
    <3>1. j < Len(dtb) /\ dtb[j + 1] = DtbMagic[j]
      BY <2>3 DEF Acceptable
    <3>2. j \in Nat
      BY LinkAssumption
    <3>3. j + 1 \in 1 .. Len(dtb) /\ DTB_LOAD_ADDR + (j + 1) - 1 = DTB_LOAD_ADDR + j
      BY <1>1, <3>1, <3>2, Layout
    <3>4. mem[DTB_LOAD_ADDR + (j + 1) - 1] = dtb[j + 1]
      BY <2>2, <3>3 DEF DtbCopied, Copied
    <3> QED
      BY <3>1, <3>3, <3>4
  <2> QED
    BY <2>1, <2>3 DEF Device!MagicOK
<1> QED
    BY <1>3, <1>4, <1>5, <1>6

(* A pair of files that meets every condition of serial_boot.c:70-209 is   *)
(* not refused.                                                            *)
THEOREM RefusesNoGoodFiles ==
    ASSUME OneCleanRun
    PROVE  Spec => RefusesOnlyBadFiles
<1>1. Together /\ [Next]_vars =>
          [ret' = "RET_ERR" /\ ret # "RET_ERR" /\ typed = 0 => ~ Acceptable]_vars
    BY RefusalStep
<1> QED
    BY <1>1, OneRunStaysTogether, PTL DEF Spec, RefusesOnlyBadFiles
=============================================================================
