----------------------------- MODULE SerialHost -----------------------------
(***************************************************************************)
(* Image_Loader/image.py: the host's end of the serial boot protocol.  It  *)
(* stops and waits: after each thing it writes it reads one byte, and      *)
(* anything but an ACK within ACK_TIMEOUT ends the program.                *)
(***************************************************************************)
EXTENDS Integers, Sequences

CONSTANTS
    ByteBase, SYN,
    CHUNK_SIZE,
    Settled            \* whether 0.5 s is enough for all that was sent to come

VARIABLES
    step,              \* what the program is transferring; "closed" if not run
    waiting,           \* it is in wait_ack
    sent,              \* bytes of the current file acknowledged
    kernel, dtb,       \* the files
    wire,              \* bytes written that the device's UART has yet to get
    back               \* bytes from the device that were not read

vars == <<step, waiting, sent, kernel, dtb, wire, back>>

Steps == {"closed", "open", "syn", "kernel_size", "kernel", "dtb_size", "dtb",
          "monitor"}

Byte == 0 .. (ByteBase - 1)

TypeOK ==
    /\ step \in Steps /\ waiting \in BOOLEAN
    /\ kernel \in Seq(Byte) /\ dtb \in Seq(Byte)
    /\ sent \in 0 .. Len(kernel) \union 0 .. Len(dtb)
    /\ wire \in Seq(Byte)

file == IF step = "kernel" THEN kernel ELSE dtb

(* Mutant: a chunk is cut one byte too long. *)
sentNextLong == IF sent + CHUNK_SIZE + 1 < Len(file) THEN sent + CHUNK_SIZE + 1
                                                     ELSE Len(file)

sentNext == IF sent + CHUNK_SIZE < Len(file) THEN sent + CHUNK_SIZE
                                             ELSE Len(file)

Init ==
    /\ step = "closed" /\ waiting = FALSE /\ sent = 0
    /\ wire = <<>> /\ back = <<>>

(* main opens the port and sleeps. *)
Open ==
    /\ step = "closed" /\ step' = "open"
    /\ UNCHANGED <<waiting, sent, kernel, dtb, wire, back>>

Write(bytes) ==
    /\ ~ waiting /\ waiting' = TRUE
    /\ wire' = wire \o bytes

(* reset_input_buffer drops what has come so far. *)
SendSyn ==
    /\ step = "open" /\ step' = "syn"
    /\ \E n \in 0 .. Len(back) :
          /\ Settled => n = Len(back)
          /\ back' = SubSeq(back, n + 1, Len(back))
    /\ Write(<<SYN>>)
    /\ UNCHANGED <<sent, kernel, dtb>>

SendSize ==
    /\ \/ step = "kernel_size" /\ Write(<<Len(kernel) % ByteBase,
                                          Len(kernel) \div ByteBase>>)
       \/ step = "dtb_size" /\ Write(<<Len(dtb) % ByteBase,
                                       Len(dtb) \div ByteBase>>)
    /\ UNCHANGED <<step, sent, kernel, dtb, back>>

SendChunk ==
    /\ step \in {"kernel", "dtb"}
    /\ Write(SubSeq(file, sent + 1, sentNext))
    /\ UNCHANGED <<step, sent, kernel, dtb, back>>

(* What follows once everything of the current step is acknowledged.       *)
(* send_file sends nothing of an empty file.                               *)
StepAfter ==
    CASE step = "syn" -> "kernel_size"
      [] step = "kernel_size" /\ kernel # <<>> -> "kernel"
      [] step \in {"kernel_size", "kernel"} /\ (step = "kernel" \/ kernel = <<>>)
             -> "dtb_size"
      [] step = "dtb_size" /\ dtb # <<>> -> "dtb"
      [] OTHER -> "monitor"

AckArrives ==
    /\ waiting /\ back # <<>> /\ Head(back) = "ACK"
    /\ back' = Tail(back) /\ waiting' = FALSE
    /\ \/ /\ step \in {"kernel", "dtb"} /\ sentNext < Len(file)
          /\ sent' = sentNext
          /\ UNCHANGED step
       \/ /\ step \notin {"kernel", "dtb"} \/ sentNext = Len(file)
          /\ sent' = 0 /\ step' = StepAfter
    /\ UNCHANGED <<kernel, dtb, wire>>

Close == step' = "closed" /\ waiting' = FALSE /\ sent' = 0

(* NAK, or a byte that is no answer: RuntimeError, exit 1. *)
OtherArrives ==
    /\ waiting /\ back # <<>> /\ Head(back) # "ACK"
    /\ back' = Tail(back)
    /\ Close
    /\ UNCHANGED <<kernel, dtb, wire>>

Timeout ==
    /\ waiting /\ back = <<>>
    /\ Close
    /\ UNCHANGED <<kernel, dtb, wire, back>>

(* Ctrl-C at any moment; what the port had not sent yet may be dropped. *)
Interrupt ==
    /\ step # "closed"
    /\ Close
    /\ \E n \in 0 .. Len(wire) : wire' = SubSeq(wire, 1, n)
    /\ UNCHANGED <<kernel, dtb, back>>

(* serial_monitor shows what comes until Ctrl-C. *)
Monitor ==
    /\ step = "monitor" /\ back # <<>>
    /\ back' = <<>>
    /\ UNCHANGED <<step, waiting, sent, kernel, dtb, wire>>

Next ==
    \/ Open \/ SendSyn \/ SendSize \/ SendChunk
    \/ AckArrives \/ OtherArrives \/ Timeout \/ Interrupt \/ Monitor
=============================================================================
