---------------------------- MODULE SerialProofs ----------------------------
(***************************************************************************)
(* bootFromSerial, proved for every layout of memory, every size and every *)
(* line: the types, the regions it writes (RegionsHold), and that it       *)
(* implements BootAttempt.                                                 *)
(***************************************************************************)
EXTENDS SerialDevice, SequenceTheorems, TLAPS

Inv == TypeOK /\ RegionsHold

(* The constants, as the proofs below use them. *)
LEMMA Constants ==
    /\ ByteBase \in Nat \ {0} /\ CHUNK_SIZE \in Nat \ {0} /\ SyncPolls \in Nat
    /\ SYN \in Byte /\ ExitBytes \subseteq Byte
    /\ PowerOn \subseteq Byte /\ StackBytes \subseteq Byte /\ 0 \in Byte
    /\ AddrSpace \in Nat /\ 0 \in Addr
    /\ KERNEL_LOAD_ADDR \in Addr /\ DTB_LOAD_ADDR \in Addr /\ MEMORY_END \in Addr
<1>1. AddrSpace \in Nat
    BY SizesAssumption DEF AddrSpace
<1>2. KERNEL_LOAD_ADDR \in Addr /\ DTB_LOAD_ADDR \in Addr /\ MEMORY_END \in Addr
    BY LayoutAssumption
<1>3. 0 \in Addr
    BY <1>1, <1>2 DEF Addr
<1>4. QED
    BY <1>1, <1>2, <1>3, SizesAssumption, BytesAssumption DEF Byte

LEMMA Layout ==
    /\ KERNEL_LOAD_ADDR \in Nat /\ DTB_LOAD_ADDR \in Nat /\ MEMORY_END \in Nat
    /\ \A a \in Nat : a < MEMORY_END => a \in Addr
BY Constants DEF Addr

----------------------------------------------------------------------------
(* The two FIFOs.                                                          *)

LEMMA GetType ==
    ASSUME NEW b, rx \in Seq(Byte), Get(b)
    PROVE  rx' \in Seq(Byte) /\ b \in Byte
BY HeadTailProperties DEF Get

LEMMA PutType ==
    ASSUME NEW s \in Seq(Reply), tx \in Seq(Reply), Put(s)
    PROVE  tx' \in Seq(Reply)
BY ConcatProperties DEF Put

LEMMA Replies ==
    /\ <<"ACK">> \in Seq(Reply) /\ <<"NAK">> \in Seq(Reply)
    /\ <<"TEXT">> \in Seq(Reply) /\ <<"TEXT", "READY">> \in Seq(Reply)
BY DEF Reply

(* Two digits make a word. *)
LEMMA TwoDigits ==
    ASSUME NEW lo \in Byte, NEW hi \in Byte
    PROVE  lo + ByteBase * hi \in Addr
<1> DEFINE B == ByteBase
<1>1. B \in Nat \ {0} /\ lo \in Nat /\ hi \in Nat /\ lo <= B - 1 /\ hi <= B - 1
    BY Constants DEF Byte
<1>2. B * hi <= B * (B - 1)
    BY <1>1, SMT
<1>3. B * hi \in Nat /\ B * (B - 1) = B * B - B
    BY <1>1, SMT
<1>4. QED
    BY <1>1, <1>2, <1>3 DEF Addr, AddrSpace

LEMMA DigitIsWord ==
    ASSUME NEW b \in Byte
    PROVE  b \in Addr
<1>1. b + ByteBase * 0 \in Addr
    BY TwoDigits, Constants
<1>2. b + ByteBase * 0 = b
    BY Constants DEF Byte
<1>3. QED
    BY <1>1, <1>2

(* What the two checks on a size establish although addresses wrap. *)
LEMMA KernelFitsRam ==
    ASSUME NEW n \in Addr, KernelFits(n)
    PROVE  n > 0 /\ KERNEL_LOAD_ADDR + n <= MEMORY_END
BY Constants DEF KernelFits, Add, Addr

LEMMA DtbFitsRam ==
    ASSUME NEW n \in Addr, DtbFits(n), kernel_size \in Addr, KernelAdmitted
    PROVE  /\ n > 0 /\ DTB_LOAD_ADDR + n <= MEMORY_END
           /\ \/ DTB_LOAD_ADDR + n <= KERNEL_LOAD_ADDR
              \/ KERNEL_LOAD_ADDR + kernel_size <= DTB_LOAD_ADDR
BY Constants DEF DtbFits, KernelAdmitted, kernel_end, Add, Addr

----------------------------------------------------------------------------
(* The invariant.                                                          *)

LEMMA InitInv == Init => Inv
<1> SUFFICES ASSUME Init PROVE Inv
    OBVIOUS
<1>1. mem \in [Addr -> Byte]
    BY Constants DEF Init
<1>2. rx \in Seq(Byte) /\ tx \in Seq(Reply)
    BY EmptySeq DEF Init
<1>3. t \in 0 .. SyncPolls /\ i \in 0 .. (CHUNK_SIZE - 1)
    BY Constants DEF Init
<1>4. TypeOK
    BY <1>1, <1>2, <1>3, Constants DEF Init, TypeOK, PcValues, RetCode
<1>5. RegionsHold
    BY DEF Init, RegionsHold
<1>6. QED
    BY <1>4, <1>5 DEF Inv

(* A return leaves nothing to say. *)
LEMMA ReturnInv ==
    ASSUME Inv, NEW code \in RetCode, Return(code), UNCHANGED mem,
           rx' \in Seq(Byte), tx' \in Seq(Reply)
    PROVE  Inv'
<1>1. TypeOK'
    BY Constants DEF Inv, TypeOK, Return, PcValues
<1>2. RegionsHold'
    BY DEF RegionsHold, Return
<1>3. QED
    BY <1>1, <1>2 DEF Inv

LEMMA RefuseInv ==
    ASSUME Inv, Refuse, UNCHANGED mem, rx' \in Seq(Byte)
    PROVE  Inv'
BY ReturnInv, PutType, Replies DEF Refuse, Inv, TypeOK, RetCode

LEMMA AttachInv ==
    ASSUME Inv, Attach, c' \in Byte, rx' \in Seq(Byte)
    PROVE  Inv'
<1>1. tx' \in Seq(Reply)
    BY PutType, Replies DEF Attach, Inv, TypeOK
<1>2. QED
    BY <1>1, Constants DEF Attach, Inv, TypeOK, RegionsHold, PcValues

(* A byte of the region at base: the pointer stays inside, and comes to    *)
(* the end of the region with the last byte.                               *)
LEMMA ReceiveStep ==
    ASSUME Inv, NEW here, NEW next, Receive(here, next),
           NEW base \in Nat, NEW size \in Nat, Receiving(base, size),
           base + size <= MEMORY_END
    PROVE  /\ rx' \in Seq(Byte) /\ tx' \in Seq(Reply)
           /\ \E b \in Byte : mem' = [mem EXCEPT ![ptr] = b]
           /\ mem' \in [Addr -> Byte]
           /\ ptr < base + size /\ ptr' = ptr + 1 /\ ptr' \in Addr
           /\ remaining' \in Addr /\ i' \in 0 .. (CHUNK_SIZE - 1)
           /\ \/ pc' = here /\ ptr' < base + size /\ Receiving(base, size)'
              \/ pc' = next /\ ptr' = base + size
<1> USE Constants
<1>1. rx' \in Seq(Byte)
    BY GetType DEF Receive, Inv, TypeOK
<1>2. tx' \in Seq(Reply)
    BY PutType, Replies DEF Receive, Inv, TypeOK
<1>3. \E b \in Byte : mem' = [mem EXCEPT ![ptr] = b]
    BY DEF Receive
<1>4. mem' \in [Addr -> Byte]
    BY <1>3 DEF Inv, TypeOK
<1>5. /\ ptr \in Addr /\ remaining \in Addr /\ i \in 0 .. (CHUNK_SIZE - 1)
      /\ i < chunk /\ chunk <= remaining /\ chunk <= CHUNK_SIZE /\ chunk \in Nat
    BY DEF Inv, TypeOK, Receiving, chunk, Lesser, Addr
<1>6. ptr < base + size /\ ptr' = ptr + 1 /\ ptr' \in Addr
    BY <1>5 DEF Receive, Receiving, Add, Addr
<1>7. CASE i + 1 < chunk
    <2>1. i' = i + 1 /\ pc' = here /\ remaining' = remaining
        BY <1>5, <1>7 DEF Receive
    <2>2. chunk' = chunk
        BY <2>1 DEF chunk
    <2>3. Receiving(base, size)'
        BY <1>5, <1>6, <1>7, <2>1, <2>2 DEF Receiving, Addr
    <2>4. ptr' < base + size
        BY <1>5, <1>6, <1>7, <2>1 DEF Receiving, Addr
    <2>5. i' \in 0 .. (CHUNK_SIZE - 1)
        BY <1>5, <1>7, <2>1
    <2>6. QED
        BY <1>1, <1>2, <1>3, <1>4, <1>5, <1>6, <2>1, <2>3, <2>4, <2>5
<1>8. CASE i + 1 = chunk
    <2>1. i' = 0 /\ remaining' = remaining - chunk
          /\ pc' = IF remaining' > 0 THEN here ELSE next
        BY <1>5, <1>8 DEF Receive
    <2>2. remaining' \in Addr /\ i' \in 0 .. (CHUNK_SIZE - 1)
        BY <1>5, <2>1 DEF Addr
    <2>3. ptr' + remaining' = base + size
        BY <1>5, <1>6, <1>8, <2>1 DEF Receiving, Addr
    <2>4. CASE remaining' > 0
        <3>1. i' < chunk'
            BY <2>1, <2>2, <2>4 DEF chunk, Lesser, Addr
        <3>2. Receiving(base, size)' /\ ptr' < base + size
            BY <1>5, <1>6, <2>1, <2>2, <2>3, <2>4, <3>1 DEF Receiving, Addr
        <3>3. QED
            BY <1>1, <1>2, <1>3, <1>4, <1>6, <2>1, <2>2, <2>4, <3>2
    <2>5. CASE ~ remaining' > 0
        <3>1. remaining' = 0 /\ pc' = next
            BY <2>1, <2>2, <2>5 DEF Addr
        <3>2. ptr' = base + size
            BY <1>6, <2>3, <3>1 DEF Addr
        <3>3. QED
            BY <1>1, <1>2, <1>3, <1>4, <1>6, <2>2, <3>1, <3>2
    <2>6. QED
        BY <2>4, <2>5
<1>9. QED
    BY <1>5, <1>7, <1>8 DEF Receive

LEMMA EnterInv == Inv /\ Enter => Inv'
<1> SUFFICES ASSUME Inv, Enter PROVE Inv'
    OBVIOUS
<1>1. tx' \in Seq(Reply)
    BY PutType, Replies DEF Enter, Inv, TypeOK
<1>2. TypeOK'
    BY <1>1, Constants DEF Enter, Inv, TypeOK, PcValues, RetCode
<1>3. RegionsHold'
    BY DEF Enter, RegionsHold
<1>4. QED
    BY <1>2, <1>3 DEF Inv

LEMMA SyncInv ==
    Inv /\ (PollNothing \/ PollOther \/ PollExit \/ PollSyn \/ WaitOver) => Inv'
<1> SUFFICES ASSUME Inv, PollNothing \/ PollOther \/ PollExit \/ PollSyn \/ WaitOver
             PROVE  Inv'
    OBVIOUS
<1>1. CASE PollNothing
    BY <1>1, Constants DEF PollNothing, Inv, TypeOK, RegionsHold
<1>2. CASE PollOther
    <2>1. rx' \in Seq(Byte) /\ c' \in Byte
        BY <1>2, GetType DEF PollOther, Inv, TypeOK
    <2>2. TypeOK'
        BY <1>2, <2>1, Constants DEF PollOther, Inv, TypeOK
    <2>3. RegionsHold'
        BY <1>2 DEF PollOther, Inv, RegionsHold
    <2>4. QED
        BY <2>2, <2>3 DEF Inv
<1>3. CASE PollExit
    <2>1. rx' \in Seq(Byte)
        BY <1>3, GetType DEF PollExit, Inv, TypeOK
    <2>2. QED
        BY <1>3, <2>1, ReturnInv DEF PollExit, Inv, TypeOK, RetCode
<1>4. CASE PollSyn
    <2>1. rx' \in Seq(Byte) /\ c' \in Byte
        BY <1>4, GetType, Constants DEF PollSyn, Inv, TypeOK
    <2>2. QED
        BY <1>4, <2>1, AttachInv DEF PollSyn
<1>5. CASE WaitOver
    <2>1. CASE c # SYN /\ Put(<<"TEXT">>) /\ Return("RET_TIMEOUT") /\ UNCHANGED mem
        BY <1>5, <2>1, ReturnInv, PutType, Replies DEF WaitOver, Inv, TypeOK, RetCode
    <2>2. CASE c = SYN /\ Attach /\ UNCHANGED c
        BY <1>5, <2>2, AttachInv, Constants DEF WaitOver, Inv, TypeOK
    <2>3. QED
        BY <1>5, <2>1, <2>2 DEF WaitOver
<1>6. QED
    BY <1>1, <1>2, <1>3, <1>4, <1>5

LEMMA KernelSizeInv == Inv /\ (KernelSizeLow \/ KernelSizeHigh) => Inv'
<1> SUFFICES ASSUME Inv, KernelSizeLow \/ KernelSizeHigh PROVE Inv'
    OBVIOUS
<1>1. CASE KernelSizeLow
    <2>1. rx' \in Seq(Byte) /\ kernel_size' \in Byte
        BY <1>1, GetType DEF KernelSizeLow, Inv, TypeOK
    <2>2. kernel_size' \in Addr
        BY <2>1, DigitIsWord
    <2>3. TypeOK'
        BY <1>1, <2>1, <2>2 DEF KernelSizeLow, Inv, TypeOK, PcValues
    <2>4. RegionsHold'
        BY <1>1, <2>1 DEF KernelSizeLow, RegionsHold
    <2>5. QED
        BY <2>3, <2>4 DEF Inv
<1>2. CASE KernelSizeHigh
    <2>1. PICK b \in Byte :
              LET n == kernel_size + ByteBase * b IN
              /\ Get(b)
              /\ \/ /\ KernelFits(n) /\ kernel_size' = n
                    /\ Expect(KERNEL_LOAD_ADDR, n, "kernel")
                    /\ UNCHANGED <<c, t, dtb_size>>
                 \/ ~ KernelFits(n) /\ Refuse
        BY <1>2 DEF KernelSizeHigh
    <2> DEFINE n == kernel_size + ByteBase * b
    <2>2. rx' \in Seq(Byte)
        BY <2>1, GetType DEF Inv, TypeOK
    <2>3. kernel_size \in Byte
        BY <1>2 DEF KernelSizeHigh, Inv, RegionsHold
    <2>4. n \in Addr
        BY <2>3, TwoDigits
    <2>5. mem' = mem
        BY <1>2 DEF KernelSizeHigh
    <2> HIDE DEF n
    <2>6. CASE ~ KernelFits(n) /\ Refuse
        BY <2>2, <2>5, <2>6, RefuseInv
    <2>7. CASE /\ KernelFits(n) /\ kernel_size' = n
               /\ Expect(KERNEL_LOAD_ADDR, n, "kernel")
               /\ UNCHANGED <<c, t, dtb_size>>
        <3>1. n > 0 /\ KERNEL_LOAD_ADDR + n <= MEMORY_END
            BY <2>4, <2>7, KernelFitsRam
        <3>2. tx' \in Seq(Reply)
            BY <2>7, PutType, Replies DEF Expect, Inv, TypeOK
        <3>3. i' \in 0 .. (CHUNK_SIZE - 1)
            BY <2>7, Constants DEF Expect
        <3>4. TypeOK'
            BY <2>2, <2>4, <2>5, <2>7, <3>2, <3>3, Constants
            DEF Expect, Inv, TypeOK, PcValues
        <3>5. KernelAdmitted'
            BY <2>7, <3>1 DEF KernelAdmitted
        <3>6. Receiving(KERNEL_LOAD_ADDR, kernel_size)'
            BY <2>4, <2>7, <3>1, Constants DEF Expect, Receiving, chunk, Lesser, Addr
        <3>7. pc' = "kernel"
            BY <2>7 DEF Expect
        <3>8. RegionsHold'
            BY <3>5, <3>6, <3>7 DEF RegionsHold
        <3>9. QED
            BY <3>4, <3>8 DEF Inv
    <2>8. QED
        BY <2>1, <2>6, <2>7 DEF n
<1>3. QED
    BY <1>1, <1>2

LEMMA KernelByteInv == Inv /\ KernelByte => Inv'
<1> SUFFICES ASSUME Inv, KernelByte PROVE Inv'
    OBVIOUS
<1>1. /\ pc = "kernel" /\ Receive("kernel", "dtb_size_lo")
      /\ KernelAdmitted /\ Receiving(KERNEL_LOAD_ADDR, kernel_size)
    BY DEF KernelByte, Receive, Inv, RegionsHold
<1>2. KERNEL_LOAD_ADDR \in Nat /\ kernel_size \in Nat
    BY Constants DEF Inv, TypeOK, Addr
<1>3. /\ rx' \in Seq(Byte) /\ tx' \in Seq(Reply) /\ mem' \in [Addr -> Byte]
      /\ ptr' \in Addr /\ remaining' \in Addr /\ i' \in 0 .. (CHUNK_SIZE - 1)
      /\ \/ pc' = "kernel" /\ Receiving(KERNEL_LOAD_ADDR, kernel_size)'
         \/ pc' = "dtb_size_lo" /\ ptr' = KERNEL_LOAD_ADDR + kernel_size
    <2>1. KERNEL_LOAD_ADDR + kernel_size <= MEMORY_END
        BY <1>1 DEF KernelAdmitted
    <2>2. kernel_size' = kernel_size
        BY <1>1 DEF Receive
    <2>3. QED
        BY <1>1, <1>2, <2>1, <2>2, ReceiveStep DEF Receiving
<1>4. /\ ret' = ret /\ c' = c /\ t' = t /\ kernel_size' = kernel_size
      /\ dtb_size' \in {dtb_size, 0}
    BY DEF KernelByte, Receive
<1>5. TypeOK'
    BY <1>3, <1>4, Constants DEF Inv, TypeOK, PcValues
<1>6. RegionsHold'
    BY <1>1, <1>3, <1>4 DEF RegionsHold, KernelAdmitted
<1>7. QED
    BY <1>5, <1>6 DEF Inv

LEMMA DtbSizeInv == Inv /\ (DtbSizeLow \/ DtbSizeHigh) => Inv'
<1> SUFFICES ASSUME Inv, DtbSizeLow \/ DtbSizeHigh PROVE Inv'
    OBVIOUS
<1>1. CASE DtbSizeLow
    <2>1. rx' \in Seq(Byte) /\ dtb_size' \in Byte
        BY <1>1, GetType DEF DtbSizeLow, Inv, TypeOK
    <2>2. dtb_size' \in Addr
        BY <2>1, DigitIsWord
    <2>3. TypeOK'
        BY <1>1, <2>1, <2>2 DEF DtbSizeLow, Inv, TypeOK, PcValues
    <2>4. RegionsHold'
        BY <1>1, <2>1 DEF DtbSizeLow, Inv, RegionsHold, KernelAdmitted
    <2>5. QED
        BY <2>3, <2>4 DEF Inv
<1>2. CASE DtbSizeHigh
    <2>1. PICK b \in Byte :
              LET n == dtb_size + ByteBase * b IN
              /\ Get(b)
              /\ \/ /\ DtbFits(n) /\ dtb_size' = n
                    /\ Expect(DTB_LOAD_ADDR, n, "dtb")
                    /\ UNCHANGED <<c, t, kernel_size>>
                 \/ ~ DtbFits(n) /\ Refuse
        BY <1>2 DEF DtbSizeHigh
    <2> DEFINE n == dtb_size + ByteBase * b
    <2>2. rx' \in Seq(Byte)
        BY <2>1, GetType DEF Inv, TypeOK
    <2>3. dtb_size \in Byte /\ KernelAdmitted /\ kernel_size \in Addr
        BY <1>2 DEF DtbSizeHigh, Inv, TypeOK, RegionsHold
    <2>4. n \in Addr
        BY <2>3, TwoDigits
    <2>5. mem' = mem
        BY <1>2 DEF DtbSizeHigh
    <2> HIDE DEF n
    <2>6. CASE ~ DtbFits(n) /\ Refuse
        BY <2>2, <2>5, <2>6, RefuseInv
    <2>7. CASE /\ DtbFits(n) /\ dtb_size' = n
               /\ Expect(DTB_LOAD_ADDR, n, "dtb")
               /\ UNCHANGED <<c, t, kernel_size>>
        <3>1. /\ n > 0 /\ DTB_LOAD_ADDR + n <= MEMORY_END
              /\ \/ DTB_LOAD_ADDR + n <= KERNEL_LOAD_ADDR
                 \/ KERNEL_LOAD_ADDR + kernel_size <= DTB_LOAD_ADDR
            BY <2>3, <2>4, <2>7, DtbFitsRam
        <3>2. tx' \in Seq(Reply)
            BY <2>7, PutType, Replies DEF Expect, Inv, TypeOK
        <3>3. i' \in 0 .. (CHUNK_SIZE - 1)
            BY <2>7, Constants DEF Expect
        <3>4. TypeOK'
            BY <2>2, <2>4, <2>5, <2>7, <3>2, <3>3, Constants
            DEF Expect, Inv, TypeOK, PcValues
        <3>5. KernelAdmitted' /\ DtbAdmitted'
            BY <2>3, <2>7, <3>1 DEF KernelAdmitted, DtbAdmitted
        <3>6. Receiving(DTB_LOAD_ADDR, dtb_size)'
            BY <2>4, <2>7, <3>1, Constants DEF Expect, Receiving, chunk, Lesser, Addr
        <3>7. pc' = "dtb"
            BY <2>7 DEF Expect
        <3>8. RegionsHold'
            BY <3>5, <3>6, <3>7 DEF RegionsHold
        <3>9. QED
            BY <3>4, <3>8 DEF Inv
    <2>8. QED
        BY <2>1, <2>6, <2>7 DEF n
<1>3. QED
    BY <1>1, <1>2

LEMMA DtbByteInv == Inv /\ DtbByte => Inv'
<1> SUFFICES ASSUME Inv, DtbByte PROVE Inv'
    OBVIOUS
<1>1. /\ pc = "dtb" /\ Receive("dtb", "magic") /\ KernelAdmitted
      /\ DtbAdmitted /\ Receiving(DTB_LOAD_ADDR, dtb_size)
    BY DEF DtbByte, Receive, Inv, RegionsHold
<1>2. DTB_LOAD_ADDR \in Nat /\ dtb_size \in Nat
    BY Constants DEF Inv, TypeOK, Addr
<1>3. /\ ret' = ret /\ c' = c /\ t' = t /\ kernel_size' = kernel_size
      /\ dtb_size' = dtb_size
    BY DEF DtbByte, Receive
<1>4. /\ rx' \in Seq(Byte) /\ tx' \in Seq(Reply) /\ mem' \in [Addr -> Byte]
      /\ ptr' \in Addr /\ remaining' \in Addr /\ i' \in 0 .. (CHUNK_SIZE - 1)
      /\ \/ pc' = "dtb" /\ Receiving(DTB_LOAD_ADDR, dtb_size)'
         \/ pc' = "magic" /\ ptr' = DTB_LOAD_ADDR + dtb_size
    <2>1. DTB_LOAD_ADDR + dtb_size <= MEMORY_END
        BY <1>1 DEF DtbAdmitted
    <2>2. QED
        BY <1>1, <1>2, <1>3, <2>1, ReceiveStep DEF Receiving
<1>5. TypeOK'
    BY <1>3, <1>4 DEF Inv, TypeOK, PcValues
<1>6. RegionsHold'
    BY <1>1, <1>3, <1>4 DEF RegionsHold, KernelAdmitted, DtbAdmitted
<1>7. QED
    BY <1>5, <1>6 DEF Inv

LEMMA BootInv == Inv /\ (CheckMagic \/ Boot) => Inv'
<1> SUFFICES ASSUME Inv, CheckMagic \/ Boot PROVE Inv'
    OBVIOUS
<1>1. CASE CheckMagic
    <2>1. rx' \in Seq(Byte) /\ mem' = mem
        BY <1>1 DEF CheckMagic, Inv, TypeOK
    <2>2. CASE ~ MagicOK /\ Refuse
        BY <2>1, <2>2, RefuseInv
    <2>3. CASE MagicOK /\ Put(<<"TEXT">>) /\ pc' = "boot" /\ UNCHANGED <<ret, locals>>
        <3>1. tx' \in Seq(Reply)
            BY <2>3, PutType, Replies DEF Inv, TypeOK
        <3>2. TypeOK'
            BY <2>1, <2>3, <3>1 DEF Inv, TypeOK, PcValues, locals
        <3>3. MagicOK'
            BY <2>1, <2>3 DEF MagicOK
        <3>4. RegionsHold'
            BY <1>1, <2>3, <3>3
            DEF CheckMagic, Inv, RegionsHold, KernelAdmitted, DtbAdmitted, locals
        <3>5. QED
            BY <3>2, <3>4 DEF Inv
    <2>4. QED
        BY <1>1, <2>2, <2>3 DEF CheckMagic
<1>2. CASE Boot
    <2>1. tx' \in Seq(Reply)
        BY <1>2, PutType, Replies DEF Boot, Inv, TypeOK
    <2>2. mem' \in [Addr -> Byte]
        <3>1. PICK cells \in SUBSET FdtCells :
                  \E new \in [cells -> Byte] :
                      mem' = [a \in Addr |-> IF a \in cells THEN new[a] ELSE mem[a]]
            BY <1>2 DEF Boot
        <3>2. PICK new \in [cells -> Byte] :
                  mem' = [a \in Addr |-> IF a \in cells THEN new[a] ELSE mem[a]]
            BY <3>1
        <3>3. QED
            BY <3>2 DEF Inv, TypeOK
    <2>3. TypeOK'
        BY <1>2, <2>1, <2>2 DEF Boot, Inv, TypeOK, PcValues, locals
    <2>4. RegionsHold'
        BY <1>2 DEF Boot, Inv, RegionsHold, KernelAdmitted, DtbAdmitted, locals
    <2>5. QED
        BY <2>3, <2>4 DEF Inv
<1>3. QED
    BY <1>1, <1>2

LEMMA LineInv == Inv /\ (OtherReader \/ Arrive \/ Depart) => Inv'
<1> SUFFICES ASSUME Inv, OtherReader \/ Arrive \/ Depart PROVE Inv'
    OBVIOUS
<1>1. UNCHANGED <<pc, ret, locals, mem>>
    BY DEF OtherReader, Arrive, Depart
<1>2. rx' \in Seq(Byte)
    <2>1. CASE OtherReader
        BY <2>1, GetType DEF OtherReader, Inv, TypeOK
    <2>2. CASE Arrive
        BY <2>2 DEF Arrive, Inv, TypeOK
    <2>3. CASE Depart
        BY <2>3 DEF Depart, Inv, TypeOK
    <2>4. QED
        BY <2>1, <2>2, <2>3
<1>3. tx' \in Seq(Reply)
    <2>1. CASE OtherReader
        BY <2>1, PutType, Replies DEF OtherReader, Inv, TypeOK
    <2>2. CASE Arrive
        BY <2>2 DEF Arrive, Inv, TypeOK
    <2>3. CASE Depart
        <3>1. PICK n \in 1 .. Len(tx) : tx' = SubSeq(tx, n + 1, Len(tx))
            BY <2>3 DEF Depart
        <3>2. tx \in Seq(Reply) /\ Len(tx) \in Nat
            BY LenProperties DEF Inv, TypeOK
        <3>3. \A k \in (n + 1) .. Len(tx) : tx[k] \in Reply
            BY <3>2, ElementOfSeq
        <3>4. QED
            BY <3>1, <3>2, <3>3, SubSeqProperties
    <2>4. QED
        BY <2>1, <2>2, <2>3
<1>4. TypeOK'
    BY <1>1, <1>2, <1>3 DEF Inv, TypeOK, locals
<1>5. RegionsHold'
    BY <1>1 DEF Inv, RegionsHold, KernelAdmitted, DtbAdmitted, Receiving, chunk,
                MagicOK, locals
<1>6. QED
    BY <1>4, <1>5 DEF Inv

LEMMA StepInv == Inv /\ [Next]_vars => Inv'
<1> SUFFICES ASSUME Inv, [Next]_vars PROVE Inv'
    OBVIOUS
<1>1. CASE Next
    BY <1>1, EnterInv, SyncInv, KernelSizeInv, KernelByteInv, DtbSizeInv,
       DtbByteInv, BootInv, LineInv DEF Next, BootFromSerial
<1>2. CASE UNCHANGED vars
    BY <1>2 DEF Inv, TypeOK, RegionsHold, KernelAdmitted, DtbAdmitted, Receiving,
                chunk, MagicOK, vars, locals
<1>3. QED
    BY <1>1, <1>2

(* Every variable of bootFromSerial stays in its type: no size, pointer or *)
(* count ever leaves the machine word (serial_boot.c:63-196).              *)
THEOREM TypeCorrect == Spec => []TypeOK
<1>1. Inv => TypeOK
    BY DEF Inv
<1>2. QED
    BY InitInv, StepInv, <1>1, PTL DEF Spec

(* For every layout, size and line: an accepted region is in RAM, the two  *)
(* are apart, and the pointer is inside the region being received.         *)
THEOREM RegionsAlwaysHold == Spec => []RegionsHold
<1>1. Inv => RegionsHold
    BY DEF Inv
<1>2. QED
    BY InitInv, StepInv, <1>1, PTL DEF Spec

----------------------------------------------------------------------------
(* The refinement: what the refinement mapping says at each point.         *)
StageTable ==
    /\ pc = "out" =>
          stage = "idle" /\ kernelCells = {} /\ dtbCells = {} /\ filled = 0
    /\ pc \in {"sync", "kernel_size_lo", "kernel_size_hi"} =>
          stage = "open" /\ kernelCells = {} /\ dtbCells = {} /\ filled = 0
    /\ pc = "kernel" =>
          /\ stage = "kernel" /\ dtbCells = {}
          /\ kernelCells = KERNEL_LOAD_ADDR .. (KERNEL_LOAD_ADDR + kernel_size - 1)
          /\ filled = ptr - KERNEL_LOAD_ADDR
    /\ pc \in {"dtb_size_lo", "dtb_size_hi"} =>
          /\ stage = "kernelFull" /\ dtbCells = {}
          /\ kernelCells = KERNEL_LOAD_ADDR .. (KERNEL_LOAD_ADDR + kernel_size - 1)
          /\ filled = ptr - KERNEL_LOAD_ADDR
    /\ pc \in {"dtb", "magic", "boot", "linux"} =>
          /\ stage = (CASE pc = "dtb" -> "dtb" [] pc = "magic" -> "dtbFull"
                        [] pc = "boot" -> "verified" [] OTHER -> "linux")
          /\ kernelCells = KERNEL_LOAD_ADDR .. (KERNEL_LOAD_ADDR + kernel_size - 1)
          /\ dtbCells = DTB_LOAD_ADDR .. (DTB_LOAD_ADDR + dtb_size - 1)
          /\ filled = ptr - DTB_LOAD_ADDR

LEMMA Table == StageTable /\ StageTable'
<1>1. StageTable
    BY DEF StageTable, stage, kernelCells, dtbCells, filled
<1>2. StageTable'
    BY DEF StageTable, stage, kernelCells, dtbCells, filled
<1>3. QED
    BY <1>1, <1>2

(* A region that ends in RAM lies in RAM. *)
LEMMA RegionInRam ==
    ASSUME NEW base \in Nat, NEW n \in Nat, n > 0, base + n <= MEMORY_END
    PROVE  /\ n \in 1 .. MEMORY_END
           /\ Attempt!Region(base, n) \subseteq Attempt!Ram
BY Layout DEF Attempt!Region, Attempt!Ram

LEMMA RefineInit == Init => Attempt!Init
<1> SUFFICES ASSUME Init PROVE Attempt!Init
    OBVIOUS
<1>1. mem \in [Addr -> Byte]
    BY Constants DEF Init
<1>2. QED
    BY <1>1, Table DEF Init, StageTable, Attempt!Init

LEMMA ReturnGivesUp ==
    ASSUME NEW code, Return(code), UNCHANGED mem, pc \in PcValues,
           pc \notin {"out", "boot", "linux"}
    PROVE  Attempt!GiveUp
<1>1. /\ stage' = "idle" /\ kernelCells' = {} /\ dtbCells' = {} /\ filled' = 0
      /\ mem' = mem
    BY Table DEF StageTable, Return
<1>2. stage \notin {"idle", "verified", "linux"}
    BY DEF stage, PcValues
<1>3. QED
    BY <1>1, <1>2 DEF Attempt!GiveUp

LEMMA RefineSync ==
    ASSUME Inv, Inv',
           PollNothing \/ PollOther \/ PollExit \/ PollSyn \/ WaitOver
    PROVE  Attempt!GiveUp \/ UNCHANGED Attempt!vars
<1>1. pc = "sync" /\ mem' = mem
    BY DEF PollNothing, PollOther, PollExit, PollSyn, WaitOver, Attach
<1>2. CASE pc' \in {"sync", "kernel_size_lo"}
    BY <1>1, <1>2, Table DEF StageTable, Attempt!vars
<1>3. CASE \E code \in RetCode : Return(code)
    BY <1>1, <1>3, ReturnGivesUp DEF PcValues
<1>4. QED
    BY <1>1, <1>2, <1>3
    DEF PollNothing, PollOther, PollExit, PollSyn, WaitOver, Attach, RetCode

LEMMA RefineKernelSize ==
    ASSUME Inv, Inv', KernelSizeLow \/ KernelSizeHigh
    PROVE  [Attempt!Next]_(Attempt!vars)
<1>1. CASE KernelSizeLow
    BY <1>1, Table DEF KernelSizeLow, StageTable, Attempt!vars
<1>2. CASE KernelSizeHigh /\ pc' = "kernel"
    <2>1. /\ pc = "kernel_size_hi" /\ pc' = "kernel" /\ mem' = mem
          /\ ptr' = KERNEL_LOAD_ADDR
        BY <1>2 DEF KernelSizeHigh, Expect, Refuse, Return
    <2>2. /\ kernel_size' \in Nat /\ kernel_size' > 0
          /\ KERNEL_LOAD_ADDR + kernel_size' <= MEMORY_END
        BY <2>1 DEF Inv, TypeOK, RegionsHold, KernelAdmitted, Addr
    <2>3. /\ kernel_size' \in 1 .. MEMORY_END
          /\ Attempt!Region(KERNEL_LOAD_ADDR, kernel_size') \subseteq Attempt!Ram
        BY <2>2, Layout, RegionInRam
    <2>4. kernelCells' = Attempt!Region(KERNEL_LOAD_ADDR, kernel_size')
        BY <2>1, Table DEF StageTable, Attempt!Region
    <2>5. kernelCells' \subseteq Attempt!Ram
        BY <2>3, <2>4
    <2>6. filled' = 0 /\ stage = "open" /\ stage' = "kernel" /\ dtbCells' = dtbCells
        BY <2>1, Layout, Table DEF StageTable
    <2>7. Attempt!AdmitKernel(kernel_size')
        BY <2>1, <2>4, <2>5, <2>6 DEF Attempt!AdmitKernel
    <2>8. QED
        BY <2>3, <2>7 DEF Attempt!Next
<1>3. CASE KernelSizeHigh /\ pc' # "kernel"
    <2>1. Return("RET_ERR") /\ mem' = mem /\ pc = "kernel_size_hi"
        BY <1>3 DEF KernelSizeHigh, Expect, Refuse
    <2>2. QED
        BY <2>1, ReturnGivesUp DEF PcValues, Attempt!Next
<1>4. QED
    BY <1>1, <1>2, <1>3

LEMMA RefineKernelByte ==
    ASSUME Inv, Inv', KernelByte
    PROVE  [Attempt!Next]_(Attempt!vars)
<1>1. /\ pc = "kernel" /\ Receive("kernel", "dtb_size_lo")
      /\ KernelAdmitted /\ Receiving(KERNEL_LOAD_ADDR, kernel_size)
    BY DEF KernelByte, Receive, Inv, RegionsHold
<1>2. /\ KERNEL_LOAD_ADDR \in Nat /\ kernel_size \in Nat /\ ptr \in Nat
      /\ kernel_size' = kernel_size
    BY <1>1, Constants DEF Inv, TypeOK, Receive, Addr
<1>3. PICK b \in Byte :
          /\ mem' = [mem EXCEPT ![ptr] = b]
          /\ ptr < KERNEL_LOAD_ADDR + kernel_size /\ ptr' = ptr + 1
          /\ \/ pc' = "kernel" /\ ptr' < KERNEL_LOAD_ADDR + kernel_size
             \/ pc' = "dtb_size_lo" /\ ptr' = KERNEL_LOAD_ADDR + kernel_size
    BY <1>1, <1>2, ReceiveStep DEF KernelAdmitted
<1>4. /\ stage = "kernel" /\ filled = ptr - KERNEL_LOAD_ADDR
      /\ filled' = ptr' - KERNEL_LOAD_ADDR
      /\ kernelCells' = kernelCells /\ dtbCells' = dtbCells
      /\ kernelCells = KERNEL_LOAD_ADDR .. (KERNEL_LOAD_ADDR + kernel_size - 1)
      /\ stage' = IF ptr' < KERNEL_LOAD_ADDR + kernel_size THEN "kernel"
                  ELSE "kernelFull"
    BY <1>1, <1>2, <1>3, Table DEF StageTable
<1>5. KERNEL_LOAD_ADDR + filled = ptr /\ filled' = filled + 1 /\ KERNEL_LOAD_ADDR <= ptr
    BY <1>1, <1>2, <1>3, <1>4 DEF Receiving
<1>6. Attempt!FillKernel(b)
    BY <1>2, <1>3, <1>4, <1>5 DEF Attempt!FillKernel, Attempt!Fill
<1>7. QED
    BY <1>6 DEF Attempt!Next

LEMMA RefineDtbSize ==
    ASSUME Inv, Inv', DtbSizeLow \/ DtbSizeHigh
    PROVE  [Attempt!Next]_(Attempt!vars)
<1>1. CASE DtbSizeLow
    BY <1>1, Table DEF DtbSizeLow, StageTable, Attempt!vars
<1>2. CASE DtbSizeHigh /\ pc' = "dtb"
    <2>1. /\ pc = "dtb_size_hi" /\ mem' = mem /\ kernel_size' = kernel_size
          /\ ptr' = DTB_LOAD_ADDR
        BY <1>2 DEF DtbSizeHigh, Expect, Refuse, Return
    <2>2. /\ dtb_size' \in Nat /\ dtb_size' > 0
          /\ DTB_LOAD_ADDR + dtb_size' <= MEMORY_END
          /\ \/ DTB_LOAD_ADDR + dtb_size' <= KERNEL_LOAD_ADDR
             \/ KERNEL_LOAD_ADDR + kernel_size <= DTB_LOAD_ADDR
        BY <1>2, <2>1 DEF Inv, TypeOK, RegionsHold, DtbAdmitted, Addr
    <2>3. /\ dtb_size' \in 1 .. MEMORY_END
          /\ Attempt!Region(DTB_LOAD_ADDR, dtb_size') \subseteq Attempt!Ram
        BY <2>2, Layout, RegionInRam
    <2>4. /\ stage = "kernelFull" /\ stage' = "dtb" /\ filled' = 0
          /\ kernelCells' = kernelCells
          /\ dtbCells' = Attempt!Region(DTB_LOAD_ADDR, dtb_size')
        BY <1>2, <2>1, Layout, Table DEF StageTable, Attempt!Region
    <2>5. dtbCells' \cap kernelCells = {}
        <3>1. PICK n \in Nat : n = dtb_size'
            BY <2>2
        <3>2. dtbCells' = DTB_LOAD_ADDR .. (DTB_LOAD_ADDR + n - 1)
            BY <2>4, <3>1 DEF Attempt!Region
        <3>3. kernelCells = KERNEL_LOAD_ADDR .. (KERNEL_LOAD_ADDR + kernel_size - 1)
            BY <2>1, Table DEF StageTable
        <3>4. \/ DTB_LOAD_ADDR + n <= KERNEL_LOAD_ADDR
              \/ KERNEL_LOAD_ADDR + kernel_size <= DTB_LOAD_ADDR
            BY <2>2, <3>1
        <3>5. kernel_size \in Nat
            BY DEF Inv, TypeOK, Addr
        <3>6. QED
            BY <3>2, <3>3, <3>4, <3>5, Layout
    <2>6. Attempt!AdmitDtb(dtb_size')
        BY <2>1, <2>3, <2>4, <2>5 DEF Attempt!AdmitDtb
    <2>7. QED
        BY <2>3, <2>6 DEF Attempt!Next
<1>3. CASE DtbSizeHigh /\ pc' # "dtb"
    <2>1. Return("RET_ERR") /\ mem' = mem /\ pc = "dtb_size_hi"
        BY <1>3 DEF DtbSizeHigh, Expect, Refuse
    <2>2. QED
        BY <2>1, ReturnGivesUp DEF PcValues, Attempt!Next
<1>4. QED
    BY <1>1, <1>2, <1>3

LEMMA RefineDtbByte ==
    ASSUME Inv, Inv', DtbByte
    PROVE  [Attempt!Next]_(Attempt!vars)
<1>1. /\ pc = "dtb" /\ Receive("dtb", "magic")
      /\ DtbAdmitted /\ Receiving(DTB_LOAD_ADDR, dtb_size)
    BY DEF DtbByte, Receive, Inv, RegionsHold
<1>2. /\ DTB_LOAD_ADDR \in Nat /\ dtb_size \in Nat /\ ptr \in Nat
      /\ dtb_size' = dtb_size /\ kernel_size' = kernel_size
    BY <1>1, Layout DEF DtbByte, Receive, Inv, TypeOK, Addr
<1>3. PICK b \in Byte :
          /\ mem' = [mem EXCEPT ![ptr] = b]
          /\ ptr < DTB_LOAD_ADDR + dtb_size /\ ptr' = ptr + 1
          /\ \/ pc' = "dtb" /\ ptr' < DTB_LOAD_ADDR + dtb_size
             \/ pc' = "magic" /\ ptr' = DTB_LOAD_ADDR + dtb_size
    BY <1>1, <1>2, ReceiveStep DEF DtbAdmitted
<1>4. /\ stage = "dtb" /\ filled = ptr - DTB_LOAD_ADDR
      /\ filled' = ptr' - DTB_LOAD_ADDR
      /\ kernelCells' = kernelCells /\ dtbCells' = dtbCells
      /\ dtbCells = DTB_LOAD_ADDR .. (DTB_LOAD_ADDR + dtb_size - 1)
      /\ stage' = IF ptr' < DTB_LOAD_ADDR + dtb_size THEN "dtb" ELSE "dtbFull"
    BY <1>1, <1>2, <1>3, Table DEF StageTable
<1>5. DTB_LOAD_ADDR + filled = ptr /\ filled' = filled + 1 /\ DTB_LOAD_ADDR <= ptr
    BY <1>1, <1>2, <1>3, <1>4 DEF Receiving
<1>6. Attempt!FillDtb(b)
    BY <1>2, <1>3, <1>4, <1>5 DEF Attempt!FillDtb, Attempt!Fill
<1>7. QED
    BY <1>6 DEF Attempt!Next

LEMMA RefineCheckMagic ==
    ASSUME Inv, Inv', CheckMagic
    PROVE  [Attempt!Next]_(Attempt!vars)
<1>1. pc = "magic" /\ mem' = mem
    BY DEF CheckMagic
<1>2. CASE MagicOK /\ pc' = "boot" /\ UNCHANGED locals
    <2>1. /\ stage = "dtbFull" /\ stage' = "verified" /\ filled' = filled
          /\ kernelCells' = kernelCells /\ dtbCells' = dtbCells
        BY <1>1, <1>2, Table DEF StageTable, locals
    <2>2. Attempt!HasMagic(mem)
        BY <1>2 DEF MagicOK, Attempt!HasMagic
    <2>3. Attempt!Verify
        BY <1>1, <2>1, <2>2 DEF Attempt!Verify
    <2>4. QED
        BY <2>3 DEF Attempt!Next
<1>3. CASE Return("RET_ERR")
    BY <1>1, <1>3, ReturnGivesUp DEF PcValues, Attempt!Next
<1>4. QED
    BY <1>2, <1>3 DEF CheckMagic, Refuse

(* The updates of a device tree leave everything else, the magic too. *)
LEMMA RefineBoot ==
    ASSUME Inv, Inv', Boot
    PROVE  [Attempt!Next]_(Attempt!vars)
<1>1. pc = "boot" /\ pc' = "linux" /\ UNCHANGED locals
    BY DEF Boot
<1>2. /\ stage = "verified" /\ stage' = "linux" /\ filled' = filled
      /\ kernelCells' = kernelCells /\ dtbCells' = dtbCells
      /\ dtbCells = DTB_LOAD_ADDR .. (DTB_LOAD_ADDR + dtb_size - 1)
      /\ filled = ptr - DTB_LOAD_ADDR
    BY <1>1, Table DEF StageTable, locals
<1>3. mem' \in [Addr -> Byte] /\ dtb_size \in Nat
    BY DEF Inv, TypeOK, Addr
<1>4. \A a \in Addr : a \notin FdtCells => mem'[a] = mem[a]
    <2>1. PICK cells \in SUBSET FdtCells :
              \E new \in [cells -> Byte] :
                  mem' = [a \in Addr |-> IF a \in cells THEN new[a] ELSE mem[a]]
        BY DEF Boot
    <2>2. PICK new \in [cells -> Byte] :
              mem' = [a \in Addr |-> IF a \in cells THEN new[a] ELSE mem[a]]
        BY <2>1
    <2>3. QED
        BY <2>2
<1>5. Attempt!Blob = blob
    <2>1. filled = dtb_size
        BY <1>1, <1>2, <1>3, Layout DEF Inv, RegionsHold
    <2>2. QED
        BY <2>1 DEF Attempt!Blob, blob
<1>6. ASSUME blob \in Trees
      PROVE  Attempt!HasMagic(mem') /\ \A a \in Addr : mem'[a] # mem[a] => a \in dtbCells
    <2>1. FdtCells = {a \in Addr : DTB_LOAD_ADDR <= a /\ a < DTB_LOAD_ADDR + dtb_size} \
                         {DTB_LOAD_ADDR + j : j \in DOMAIN DtbMagic}
        BY <1>6 DEF FdtCells
    <2>2. \A a \in Addr : mem'[a] # mem[a] => a \in dtbCells
        BY <1>2, <1>3, <1>4, <2>1, Layout DEF Addr
    <2>3. \A j \in DOMAIN DtbMagic : mem[DTB_LOAD_ADDR + j] = DtbMagic[j]
        BY <1>1 DEF Inv, RegionsHold, MagicOK
    <2>4. \A j \in DOMAIN DtbMagic : DTB_LOAD_ADDR + j \in Addr
        <3>1. PICK n \in 0 .. MEMORY_END :
                  /\ DtbMagic \in [0 .. (n - 1) -> Byte]
                  /\ DTB_LOAD_ADDR + n <= MEMORY_END
            BY LayoutAssumption
        <3>2. DOMAIN DtbMagic = 0 .. (n - 1)
            BY <3>1
        <3>3. QED
            BY <3>1, <3>2, Layout
    <2>5. \A j \in DOMAIN DtbMagic : mem'[DTB_LOAD_ADDR + j] = DtbMagic[j]
        BY <1>4, <2>1, <2>3, <2>4
    <2>6. QED
        BY <2>2, <2>5 DEF Attempt!HasMagic
<1>7. Attempt!Leave
    BY <1>2, <1>3, <1>5, <1>6 DEF Attempt!Leave
<1>8. QED
    BY <1>7 DEF Attempt!Next

LEMMA RefineStep ==
    ASSUME Inv, Inv', [Next]_vars
    PROVE  [Attempt!Next]_(Attempt!vars)
<1>1. CASE Enter
    <2>1. pc = "out" /\ pc' = "sync" /\ mem' = mem
        BY <1>1 DEF Enter
    <2>2. Attempt!Begin
        BY <2>1, Table DEF StageTable, Attempt!Begin
    <2>3. QED
        BY <2>2 DEF Attempt!Next
<1>2. CASE PollNothing \/ PollOther \/ PollExit \/ PollSyn \/ WaitOver
    BY <1>2, RefineSync DEF Attempt!Next
<1>3. CASE KernelSizeLow \/ KernelSizeHigh
    BY <1>3, RefineKernelSize
<1>4. CASE KernelByte
    BY <1>4, RefineKernelByte
<1>5. CASE DtbSizeLow \/ DtbSizeHigh
    BY <1>5, RefineDtbSize
<1>6. CASE DtbByte
    BY <1>6, RefineDtbByte
<1>7. CASE CheckMagic
    BY <1>7, RefineCheckMagic
<1>8. CASE Boot
    BY <1>8, RefineBoot
<1>9. CASE OtherReader \/ Arrive \/ Depart \/ UNCHANGED vars
    <2>1. UNCHANGED <<pc, locals, mem>>
        BY <1>9 DEF OtherReader, Arrive, Depart, vars
    <2>2. QED
        BY <2>1 DEF Attempt!vars, stage, kernelCells, dtbCells, filled, locals
<1>10. QED
    BY <1>1, <1>2, <1>3, <1>4, <1>5, <1>6, <1>7, <1>8, <1>9 DEF Next, BootFromSerial

(* bootFromSerial implements BootAttempt for every layout of memory, every *)
(* size of the files and of the chunks, and every line: it writes what     *)
(* arrives only into admitted, disjoint regions of RAM, fills them in order*)
(* and completely, and leaves for Linux only then; the updates keep to a   *)
(* blob that is a device tree (serial_boot.c:14-231).                      *)
THEOREM DeviceImplementsBootAttempt == Spec => ImplementsBootAttempt
<1>1. Inv /\ Inv' /\ [Next]_vars => [Attempt!Next]_(Attempt!vars)
    BY RefineStep
<1>2. QED
    BY InitInv, StepInv, RefineInit, <1>1, PTL
    DEF Spec, ImplementsBootAttempt, Attempt!Spec
=============================================================================
