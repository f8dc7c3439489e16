------------------------------- MODULE SdCard -------------------------------
(***************************************************************************)
(* The SD card driver (driver/sd/sd.c).  sd_init and sd_readblock work     *)
(* through a script of commands and waits, and give up at the first that   *)
(* fails.  Every wait is sd_status or sd_int, which poll the controller a  *)
(* limited number of times.                                                *)
(*                                                                         *)
(* The controller and the card are external: they run by themselves, and   *)
(* may fail or fall silent at any point.  A sector is known by its number. *)
(***************************************************************************)
EXTENDS Integers, Sequences

CONSTANTS
    WordSpace,         \* number of values of a word: 2^32
    Polls,             \* 10000: a poll loop's counter
    OpTries,           \* 1000: times ACMD41 is sent
    Lbas, Nums,        \* the sectors and counts sd_readblock is called with
    Cards              \* what may be in the slot

ASSUME SdAssumption ==
    /\ WordSpace \in Nat /\ Polls \in 1 .. (WordSpace - 2) /\ OpTries \in Nat \ {0}
    /\ Lbas \subseteq Nat /\ Nums \subseteq Nat \ {0}
    /\ Cards \subseteq [hc : BOOLEAN, early : BOOLEAN, blkcnt : BOOLEAN, wide : BOOLEAN,
                        bit : BOOLEAN]

(* The driver takes the CCS bit from any answer to ACMD41, also from one   *)
(* that says busy: a card may set it early only if it stays set.           *)
ASSUME CcsAssumption == \A c \in Cards : c.early => c.hc

VARIABLES
    pc,                \* "out" of any call; "reset"; "poll" in a poll loop,
                       \* "check" after it; "take" before a sector is read
    todo,              \* what is left of the script
    issued,            \* the command at its head was written to CMDTM
    cnt,               \* counter of the poll loop
    tries,             \* counter of the ACMD41 loop
    init, ccs,
    sd_rca,            \* whether the card has given its address
    sd_scr,            \* the card's capabilities as far as they are known
    lba, num, dest,    \* of sd_readblock: what it was asked for, what it got
    ret,               \* what the last call returned: "fail" stands for every
                       \* error, "ready" and "read" for success

    card,              \* what is in the slot
    mode,              \* the card's state
    cmd,               \* the command on the line, or NoCommand
    resp,              \* the answer in the response register
    dat,               \* SR_DAT_INHIBIT
    ints,              \* pending interrupts: "done", "ready", "error"
    fifo,              \* sector in the controller's buffer, or Nothing
    stream,            \* sectors the controller has yet to take from the card

    late               \* history: since the last reset a poll ran out and the
                       \* driver went on without what it had waited for

call == <<lba, num, dest>>
found == <<init, ccs, sd_rca, sd_scr>>
controller == <<mode, cmd, resp, dat, ints, fifo, stream>>
vars == <<pc, todo, issued, cnt, tries, found, call, ret, card, controller, late>>

(* What may be in the buffer besides a sector.                             *)
Nothing == -1
Scr == -2
Foreign == -3

NoCommand == [op |-> "none", code |-> "none", at |-> 0, unit |-> "none"]
NoCaps == [hc |-> FALSE, blkcnt |-> FALSE, wide |-> FALSE]

(* The steps of a script.                                                  *)
Step(name) == [NoCommand EXCEPT !.op = name]
Cmd(code) == [Step("cmd") EXCEPT !.code = code]
Read(code, at, unit) == [Cmd(code) EXCEPT !.at = at, !.unit = unit]
Idle == Step("idle")                    \* sd_status(SR_DAT_INHIBIT)
Data == Step("data")                    \* sd_int(INT_READ_RDY) and a sector
Clock == Step("clk")
op == Head(todo)

----------------------------------------------------------------------------
(* sd_init: the commands, each with the APP_CMD that precedes it if it has *)
(* to, the reading of the SCR, and for cards that can the wider bus.       *)
AcmdOpCond == <<Cmd("APP"), Cmd("OP_COND")>>

InitScript ==
    <<Cmd("GO_IDLE"), Cmd("IF_COND")>> \o AcmdOpCond \o
    <<Cmd("ALL_SEND_CID"), Cmd("SEND_REL_ADDR"), Clock, Cmd("SELECT"),
      Idle, Cmd("APP"), Cmd("SEND_SCR"), Step("scr"), Idle>>

WidthScript == <<Cmd("APP"), Cmd("BUS_WIDTH"), Idle>>

(* Mutant: a transfer of several blocks is never stopped.                  *)
ByBlocksUnstopped(l, n) ==
    <<Read(IF n = 1 THEN "SINGLE" ELSE "MULTI", l, "block")>>
    \o [k \in 1 .. n |-> Data] \o <<Idle>>

(* sd_readblock: one command for all blocks of a card addressed by blocks, *)
(* one per block of a card addressed by bytes.                             *)
ByBlocks(l, n) ==
    (IF n > 1 /\ sd_scr.blkcnt THEN <<Cmd("BLOCKCNT")>> ELSE <<>>)
    \o <<Read(IF n = 1 THEN "SINGLE" ELSE "MULTI", l, "block")>>
    \o [k \in 1 .. n |-> Data] \o <<Idle>>
    \o (IF n > 1 /\ ~ sd_scr.blkcnt THEN <<Cmd("STOP")>> ELSE <<>>)

(* Mutant: the address does not move on with the blocks.                   *)
ByBytesInPlace(l, n) ==
    [k \in 1 .. (2 * n) |-> IF k % 2 = 1 THEN Read("SINGLE", l, "byte") ELSE Data]
    \o <<Idle>>

ByBytes(l, n) ==
    [k \in 1 .. (2 * n) |->
        IF k % 2 = 1 THEN Read("SINGLE", l + k \div 2, "byte") ELSE Data]
    \o <<Idle>>

ReadScript(l, n) ==
    <<Idle>> \o (IF sd_scr.hc THEN ByBlocks(l, n) ELSE ByBytes(l, n))

----------------------------------------------------------------------------
(* How a call goes on and ends.                                            *)
Return(r) ==
    pc' = "out" /\ todo' = <<>> /\ issued' = FALSE /\ cnt' = Polls /\ ret' = r

Fail == Return("fail") /\ UNCHANGED <<tries, found, call>>

Poll(script) ==
    pc' = "poll" /\ todo' = script /\ issued' = FALSE /\ cnt' = Polls /\ ret' = ret

(* Mutant: the bit is set but never cleared.                               *)
FinishCapsOr == [sd_scr EXCEPT !.hc = sd_scr.hc \/ ccs]

(* sd_init ends: bit 0 of the SCR is replaced by what ACMD41 said.         *)
FinishCaps == [sd_scr EXCEPT !.hc = ccs]

Inits == num = 0

Proceed(rest) ==
    \/ rest # <<>> /\ Poll(rest) /\ UNCHANGED <<init, sd_scr>>
    \/ rest = <<>> /\ Inits /\ Return("ready") /\ init' = TRUE /\ sd_scr' = FinishCaps
    \/ rest = <<>> /\ ~ Inits /\ Return("read") /\ UNCHANGED <<init, sd_scr>>

GoOn == Proceed(Tail(todo)) /\ UNCHANGED <<tries, ccs, sd_rca, call>>

----------------------------------------------------------------------------
(* The calls.                                                              *)
SdInit ==
    /\ pc = "out"
    /\ num' = 0 /\ dest' = <<>> /\ lba' = 0
    /\ \/ init /\ ret' = "ready" /\ pc' = pc
       \/ ~ init /\ ret' = "none" /\ pc' = "reset"
    /\ UNCHANGED <<todo, issued, cnt, tries, found, card, controller, late>>

(* The controller is reset and gets its first clock; then the driver       *)
(* forgets the card.  Every command starts without a pending poll.         *)
ResetController ==
    /\ cmd' = NoCommand /\ dat' = FALSE /\ ints' = {} /\ fifo' = Nothing
    /\ stream' = <<>> /\ late' = FALSE /\ UNCHANGED <<mode, resp>>

Reset ==
    /\ pc = "reset" /\ ResetController
    /\ Poll(InitScript) /\ tries' = OpTries - 1
    /\ ccs' = FALSE /\ sd_rca' = FALSE /\ sd_scr' = NoCaps
    /\ UNCHANGED <<init, call, card>>

ResetFails ==
    /\ pc = "reset" /\ Fail /\ UNCHANGED card
    /\ ResetController \/ UNCHANGED <<controller, late>>

ReadBlock(l, n) ==
    /\ pc = "out"
    /\ lba' = l /\ num' = n /\ dest' = <<>>
    /\ pc' = "poll" /\ todo' = ReadScript(l, n) /\ issued' = FALSE /\ cnt' = Polls
    /\ ret' = "none"
    /\ UNCHANGED <<tries, found, card, controller, late>>

----------------------------------------------------------------------------
(* The poll loops.  sd_status waits for the data path, or before a command *)
(* is issued for the command path; sd_int waits for an interrupt.          *)
ByStatus == op = Idle \/ (op.op = "cmd" /\ ~ issued)

Wanted == IF op.op = "cmd" THEN "done" ELSE "ready"

Here ==
    \/ op.op = "idle" /\ ~ dat
    \/ op.op = "cmd" /\ ~ issued /\ cmd = NoCommand
    \/ ~ ByStatus /\ Wanted \in ints

Waiting == ~ Here /\ "error" \notin ints

(* Mutant: the counter is never counted down.                              *)
CountDownNever == cnt

(* cnt--: what is left when the loop runs out is the largest word.         *)
CountDown == (cnt - 1) % WordSpace

PollStep ==
    /\ pc = "poll" /\ op # Clock
    /\ \/ Waiting /\ cnt' = CountDown /\ pc' = IF cnt = 0 THEN "check" ELSE "poll"
       \/ ~ Waiting /\ cnt' = cnt /\ pc' = "check"
    /\ UNCHANGED <<todo, issued, tries, found, call, ret, card, controller, late>>

(* The loop's verdict: the counter is taken for run out when it is zero,   *)
(* which is when what was waited for came at the very last poll.           *)
Refused == cnt = 0 \/ "error" \in ints
Passed == pc = "check" /\ ~ Refused /\ late' = (late \/ ~ Here)

Codes(codes) == op.op = "cmd" /\ op.code \in codes

(* ACMD41 is sent again, after an answer that says busy as after a command *)
(* path that was not free, which is the error that does not end the loop.  *)
AcmdPending == Codes({"OP_COND"}) \/ (Codes({"APP"}) /\ todo[2].code = "OP_COND")
AfterAcmd == IF Codes({"APP"}) THEN SubSeq(todo, 3, Len(todo)) ELSE Tail(todo)

Retry ==
    \/ tries = 0 /\ Fail
    \/ tries > 0 /\ tries' = tries - 1 /\ Poll(AcmdOpCond \o AfterAcmd)
       /\ UNCHANGED <<found, call>>

StatusFails ==
    /\ pc = "check" /\ ByStatus /\ Refused
    /\ IF AcmdPending THEN Retry ELSE Fail
    /\ UNCHANGED <<card, controller, late>>

DataIdle ==
    /\ Passed /\ op = Idle /\ GoOn
    /\ UNCHANGED <<card, controller>>

(* Mutant: they are not cleared.                                           *)
PendingKept == ints

(* A command is written once pending interrupts are cleared; GO_IDLE is    *)
(* not waited for.                                                         *)
Pending == {}

Issue ==
    /\ Passed /\ op.op = "cmd" /\ ~ issued
    /\ ints' = Pending /\ cmd' = op
    /\ \/ Codes({"GO_IDLE"}) /\ GoOn
       \/ ~ Codes({"GO_IDLE"}) /\ issued' = TRUE /\ pc' = "poll" /\ cnt' = Polls
          /\ UNCHANGED <<todo, tries, found, call, ret>>
    /\ UNCHANGED <<card, mode, resp, dat, fifo, stream>>

(* sd_int fails and clears what it has read.                               *)
IntFails ==
    /\ pc = "check" /\ ~ ByStatus /\ Refused
    /\ ints' = {} /\ Fail
    /\ UNCHANGED <<card, mode, cmd, resp, dat, fifo, stream, late>>

(* What a command makes of its answer.  A register read before the answer  *)
(* is there may hold any.                                                  *)
Judged(a) ==
    \/ Codes({"IF_COND", "SEND_REL_ADDR"})
    \/ Codes({"APP"}) /\ sd_rca
    \/ Codes({"OP_COND"}) /\ a = "bad"

Answers == IF Here THEN {resp} ELSE {"good", "bad", "busy"}

(* The CCS bit of an answer to ACMD41, busy or not. *)
CcsOf(a) == IF ~ Here THEN BOOLEAN ELSE IF a = "busy" THEN {card.early} ELSE {card.hc}

Answered ==
    /\ Passed /\ ~ ByStatus /\ op.op = "cmd"
    /\ ints' = ints \ {"done"}
    /\ sd_rca' = (sd_rca \/ Codes({"SEND_REL_ADDR"}))
    /\ \E a \in Answers : \E bit \in CcsOf(a) :
        /\ ccs' = (ccs \/ (Codes({"OP_COND"}) /\ bit))
        /\ \/ /\ ~ (Judged(a) /\ a # "good")
              /\ ~ (Codes({"OP_COND"}) /\ (a = "busy" \/ tries = 0))
              /\ Proceed(Tail(todo)) /\ UNCHANGED tries
           \/ Codes({"OP_COND"}) /\ a = "busy" /\ tries > 0
              /\ tries' = tries - 1 /\ Poll(AcmdOpCond \o Tail(todo))
              /\ UNCHANGED <<init, sd_scr>>
           \/ /\ (Judged(a) /\ a # "good") \/ (Codes({"OP_COND"}) /\ tries = 0)
              /\ Return("fail") /\ UNCHANGED <<tries, init, sd_scr>>
    /\ UNCHANGED <<call, card, mode, cmd, resp, dat, fifo, stream>>

(* A sector is announced; its interrupt is cleared before it is read.      *)
Announced ==
    /\ Passed /\ ~ ByStatus /\ op.op # "cmd"
    /\ ints' = ints \ {"ready"} /\ pc' = "take"
    /\ UNCHANGED <<todo, issued, cnt, tries, found, call, ret, card, mode, cmd, resp, dat,
                   fifo, stream>>

TakeSector ==
    /\ pc = "take" /\ op = Data
    /\ dest' = Append(dest, fifo) /\ fifo' = Nothing
    /\ Proceed(Tail(todo)) /\ UNCHANGED <<tries, ccs, sd_rca, lba, num>>
    /\ UNCHANGED <<card, mode, cmd, resp, dat, ints, stream, late>>

(* The SCR is read when it is there, or after a while given up.            *)
TakeScr ==
    /\ pc = "take" /\ op = Step("scr") /\ fifo # Nothing /\ fifo' = Nothing
    /\ sd_scr' = [hc |-> card.bit, blkcnt |-> card.blkcnt, wide |-> card.wide]
    /\ Poll(Tail(todo) \o (IF card.wide THEN WidthScript ELSE <<>>))
    /\ UNCHANGED <<tries, init, ccs, sd_rca, call>>
    /\ UNCHANGED <<card, mode, cmd, resp, dat, ints, stream, late>>

ScrFails ==
    /\ pc = "take" /\ op = Step("scr") /\ Fail
    /\ UNCHANGED <<card, controller, late>>

(* sd_clk: its counters are signed, and one that ran out is noticed.       *)
SetClock ==
    /\ pc = "poll" /\ op = Clock
    /\ \/ cmd = NoCommand /\ ~ dat /\ GoOn
       \/ Fail
    /\ UNCHANGED <<card, controller, late>>

Driver ==
    \/ Reset \/ ResetFails \/ PollStep \/ StatusFails \/ DataIdle \/ Issue \/ IntFails
    \/ Answered \/ Announced \/ TakeSector \/ TakeScr \/ ScrFails \/ SetClock

----------------------------------------------------------------------------
(* The card: the state it must be in to take a command, and the one it is  *)
(* in then.  It sends sectors in "data", and in "open" until stopped.      *)
States == {"idle", "ready", "ident", "stby", "tran", "data", "open"}
AppCodes == {"OP_COND", "SEND_SCR", "BUS_WIDTH"}

From(code) ==
    CASE code \in {"GO_IDLE", "APP"} -> States
      [] code \in {"IF_COND", "OP_COND"} -> {"idle"}
      [] code = "ALL_SEND_CID" -> {"ready"}
      [] code = "SEND_REL_ADDR" -> {"ident"}
      [] code = "SELECT" -> {"stby"}
      [] code = "STOP" -> {"open"}
      [] OTHER -> {"tran"}

To(code) ==
    CASE code = "GO_IDLE" -> "idle"
      [] code = "OP_COND" -> "ready"
      [] code = "ALL_SEND_CID" -> "ident"
      [] code = "SEND_REL_ADDR" -> "stby"
      [] code \in {"SELECT", "STOP"} -> "tran"
      [] code \in {"SEND_SCR", "SINGLE"} -> "data"
      [] code = "MULTI" -> IF mode.set THEN "data" ELSE "open"
      [] OTHER -> mode.st

Takes == mode.st \in From(cmd.code) /\ (cmd.code \in AppCodes => mode.app)

Obeys(a) ==
    mode' = [st |-> IF a = "busy" THEN mode.st ELSE To(cmd.code),
             app |-> cmd.code = "APP", set |-> cmd.code = "BLOCKCNT"]

Sent ==
    CASE cmd.code = "SEND_SCR" -> <<Scr>>
      [] cmd.unit # IF card.hc THEN "block" ELSE "byte" -> <<Foreign>>
      [] cmd.code = "SINGLE" -> <<cmd.at>>
      [] OTHER -> [k \in 1 .. num |-> cmd.at + k - 1]

Reply(code) ==
    CASE code = "OP_COND" -> {"good", "bad", "busy"}
      [] code \in {"IF_COND", "APP", "SEND_REL_ADDR"} -> {"good", "bad"}
      [] OTHER -> {"good"}

(* The card takes a command and its answer arrives, with data to follow.   *)
Responds ==
    /\ cmd # NoCommand /\ Takes
    /\ cmd' = NoCommand /\ ints' = ints \union {"done"}
    /\ \E a \in Reply(cmd.code) : resp' = a /\ Obeys(a)
    /\ \/ cmd.code \in {"SEND_SCR", "SINGLE", "MULTI"} /\ dat' = TRUE /\ stream' = Sent
       \/ cmd.code \notin {"SEND_SCR", "SINGLE", "MULTI"} /\ UNCHANGED <<dat, stream>>
    /\ UNCHANGED fifo

(* No answer arrives, though the card may have taken the command; GO_IDLE  *)
(* has none.                                                               *)
NoAnswer ==
    /\ cmd # NoCommand /\ cmd' = NoCommand
    /\ mode' = mode \/ (Takes /\ Obeys("good"))
    /\ ints' = ints \union {IF cmd.code = "GO_IDLE" THEN "done" ELSE "error"}
    /\ UNCHANGED <<resp, dat, fifo, stream>>

SectorArrives ==
    /\ dat /\ stream # <<>> /\ fifo = Nothing
    /\ fifo' = Head(stream) /\ stream' = Tail(stream) /\ ints' = ints \union {"ready"}
    /\ UNCHANGED <<mode, cmd, resp, dat>>

TransferEnds ==
    /\ dat /\ stream = <<>> /\ fifo = Nothing /\ dat' = FALSE
    /\ mode' = [mode EXCEPT !.st = IF @ = "data" THEN "tran" ELSE @]
    /\ UNCHANGED <<cmd, resp, ints, fifo, stream>>

(* An error in the data: the controller drops the transfer or hangs in it. *)
DataError ==
    /\ dat /\ ints' = ints \union {"error"} /\ stream' = <<>>
    /\ \/ dat' = FALSE /\ fifo' = Nothing
       \/ UNCHANGED <<dat, fifo>>
    /\ UNCHANGED <<mode, cmd, resp>>

(* A card nobody listens to has sent all it was asked for.                 *)
CardStops ==
    /\ mode.st = "data" /\ ~ dat /\ mode' = [mode EXCEPT !.st = "tran"]
    /\ UNCHANGED <<cmd, resp, dat, ints, fifo, stream>>

Controller ==
    /\ Responds \/ NoAnswer \/ SectorArrives \/ TransferEnds \/ DataError \/ CardStops
    /\ UNCHANGED <<pc, todo, issued, cnt, tries, found, call, ret, card, late>>

----------------------------------------------------------------------------
Init ==
    /\ pc = "out" /\ todo = <<>> /\ issued = FALSE /\ cnt = Polls /\ tries = 0
    /\ init = FALSE /\ ccs = FALSE /\ sd_rca = FALSE /\ sd_scr = NoCaps
    /\ lba = 0 /\ num = 0 /\ dest = <<>> /\ ret = "none"
    /\ card \in Cards /\ mode = [st |-> "idle", app |-> FALSE, set |-> FALSE]
    /\ cmd = NoCommand /\ resp = "good" /\ dat = FALSE /\ ints = {} /\ fifo = Nothing
    /\ stream = <<>> /\ late = FALSE

Next ==
    \/ SdInit \/ \E l \in Lbas, n \in Nums : ReadBlock(l, n)
    \/ Driver \/ Controller

Spec == Init /\ [][Next]_vars

(* The processor runs; nothing is asked of the controller or the card.     *)
FairSpec == Spec /\ WF_vars(Driver)

----------------------------------------------------------------------------
(* The steps a script is made of. *)
CmdCodes ==
    {"GO_IDLE", "IF_COND", "APP", "OP_COND", "ALL_SEND_CID", "SEND_REL_ADDR", "SELECT",
     "SEND_SCR", "BUS_WIDTH", "BLOCKCNT", "SINGLE", "MULTI", "STOP"}
Steps ==
    {Idle, Data, Clock, Step("scr")}
    \union [op : {"cmd"}, code : CmdCodes, at : Nat, unit : {"none", "block", "byte"}]

(* The poll counter is a word, ACMD41 has a limit, a wait is under way     *)
(* exactly when a script is, and only announced sectors are taken          *)
(* (sd.c:129, 152, 321).                                                   *)
SdTypeOK ==
    /\ pc \in {"out", "reset", "poll", "check", "take"}
    /\ cnt \in 0 .. (WordSpace - 1) /\ tries \in 0 .. (OpTries - 1)
    /\ todo \in Seq(Steps) /\ ((todo = <<>>) <=> pc \in {"out", "reset"})
    /\ pc = "check" => op # Clock
    /\ pc = "take" => op \in {Data, Step("scr")}
    /\ issued \in BOOLEAN
    /\ issued => op.op = "cmd" /\ pc \in {"poll", "check"}
    /\ num \in Nat /\ ints \subseteq {"done", "ready", "error"}

(* A read that succeeds on an initialised card brought the sectors asked   *)
(* for, in order, whatever was reported as failed before it: lost answers, *)
(* broken transfers and failed initialisations (sd.c:321-447).  Once a poll*)
(* has run out unnoticed (sd.c:135) nothing more is said: the code goes on *)
(* with what it has, and may report success with garbage.                  *)
Asked == [k \in 1 .. num |-> lba + k - 1]
ReadIsRight == ret = "read" /\ init /\ ~ late => dest = Asked

(* A read that succeeds on an initialised card, no poll having run out,    *)
(* leaves the card ready for the next: the transfer stopped, the data path *)
(* free (sd.c:418-444).                                                    *)
ReadLeavesIdle == ret = "read" /\ init /\ ~ late => mode.st = "tran" /\ ~ dat

(* While no poll ran out unnoticed since the reset, sd_init sets init only *)
(* for a card that is selected and addressed, and                          *)
(* takes it for a card addressed by blocks exactly if it is one, whatever  *)
(* bit 0 of the SCR holds (sd.c:694-891).                                  *)
InitMeansSelected ==
    [][init' /\ ~ init /\ ~ late' =>
        /\ mode.st = "tran" /\ sd_rca
        /\ sd_scr' = [hc |-> card.hc, blkcnt |-> card.blkcnt, wide |-> card.wide]]_vars

(* What a command takes for its answer was never raised by an earlier one: *)
(* the command has left the line by then (sd.c:239-270), from a reset to   *)
(* the first poll that runs out unnoticed.  Such a poll has no answer.     *)
NoStaleAnswer ==
    [][issued /\ ~ issued' /\ ret' # "fail" /\ ~ late' => cmd = NoCommand]_vars

(* Every call returns, whatever the controller and the card do.            *)
CallsEnd == pc # "out" ~> pc = "out"
=============================================================================
