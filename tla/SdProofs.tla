------------------------------ MODULE SdProofs ------------------------------
(***************************************************************************)
(* The SD card driver, proved for every width of a word, every limit on    *)
(* the polls, every card and every request: the types, that a command      *)
(* never takes an earlier command's answer for its own (NoStaleAnswer),    *)
(* what an initialisation leaves (InitMeansSelected), and that a read that *)
(* succeeds brought what was asked for and left the card idle (ReadIsRight,*)
(* ReadLeavesIdle).                                                        *)
(*                                                                         *)
(* The last three need to know, at every step of a script, how far card    *)
(* and controller have gone with it: Whole says so, as a phase for each    *)
(* step of sd_init (InitPhase) and for each step of a read (ReadPhase).    *)
(***************************************************************************)
EXTENDS SdCard, SequenceTheorems, TLAPS

(* An answer that was raised since the command was written is its own: the *)
(* command has left the line.                                              *)
OwnAnswer == issued /\ "done" \in ints => cmd = NoCommand

(* The reading of the SCR is never the last step: the data path is waited  *)
(* for after it.                                                           *)
Script(s) == s \in Seq(Steps) /\ (s # <<>> => s[Len(s)] # Step("scr"))

Inv == SdTypeOK /\ Script(todo) /\ OwnAnswer

----------------------------------------------------------------------------
(* Steps and scripts.                                                      *)

LEMMA Kinds ==
    /\ Idle.op = "idle" /\ Data.op = "data" /\ Clock.op = "clk" /\ Step("scr").op = "scr"
BY DEF Idle, Data, Clock, Step, NoCommand

LEMMA Commands ==
    ASSUME NEW code
    PROVE  Cmd(code) = [op |-> "cmd", code |-> code, at |-> 0, unit |-> "none"]
<1>1. Step("cmd") = [op |-> "cmd", code |-> "none", at |-> 0, unit |-> "none"]
    BY DEF Step, NoCommand
<1> QED
    BY <1>1 DEF Cmd

LEMMA Reads ==
    ASSUME NEW code, NEW at, NEW unit
    PROVE  Read(code, at, unit) = [op |-> "cmd", code |-> code, at |-> at, unit |-> unit]
<1>1. [Cmd(code) EXCEPT !.at = at] = [op |-> "cmd", code |-> code, at |-> at, unit |-> "none"]
    BY Commands
<1>2. Read(code, at, unit) = [[Cmd(code) EXCEPT !.at = at] EXCEPT !.unit = unit]
    BY Commands DEF Read
<1> QED
    BY <1>1, <1>2

LEMMA CmdIsStep ==
    ASSUME NEW code \in CmdCodes
    PROVE  Cmd(code) \in Steps
BY Commands DEF Steps

LEMMA ReadIsStep ==
    ASSUME NEW code \in CmdCodes, NEW at \in Nat, NEW unit \in {"block", "byte"}
    PROVE  Read(code, at, unit) \in Steps
BY Reads DEF Steps

LEMMA WaitsAreSteps ==
    Idle \in Steps /\ Data \in Steps /\ Clock \in Steps /\ Step("scr") \in Steps
BY DEF Steps

(* A step that is not a command is one of the four waits. *)
LEMMA OtherSteps ==
    ASSUME NEW s \in Steps, s.op # "cmd"
    PROVE  s \in {Idle, Data, Clock, Step("scr")}
BY DEF Steps

LEMMA ScriptJoins ==
    ASSUME NEW a \in Seq(Steps), a # <<>>, NEW b, Script(b), Script(a) \/ b # <<>>
    PROVE  Script(a \o b) /\ a \o b # <<>>
<1>1. /\ b \in Seq(Steps) /\ Len(a) \in Nat /\ Len(b) \in Nat /\ Len(a) # 0
      /\ (a \o b) \in Seq(Steps) /\ Len(a \o b) = Len(a) + Len(b)
      /\ (b # <<>> => Len(b) # 0)
    BY ConcatProperties, EmptySeq, LenProperties DEF Script
<1>2. a \o b # <<>>
    BY <1>1, EmptySeq
<1>3. CASE b = <<>>
    BY <1>1, <1>2, <1>3, ConcatEmptySeq DEF Script
<1>4. CASE b # <<>>
  <2>1. (a \o b)[Len(a) + Len(b)] = b[Len(b)]
    BY <1>1, <1>4, ConcatProperties
  <2> QED
    BY <1>1, <1>2, <1>4, <2>1 DEF Script
<1> QED
    BY <1>3, <1>4

LEMMA TailOfScript ==
    ASSUME NEW s, Script(s), s # <<>>
    PROVE  Script(Tail(s)) /\ Head(s) \in Steps
<1>1. /\ s \in Seq(Steps) /\ Tail(s) \in Seq(Steps) /\ Head(s) \in Steps
      /\ Len(s) \in Nat /\ Len(Tail(s)) = Len(s) - 1
    BY HeadTailProperties, LenProperties DEF Script
<1>2. ASSUME Tail(s) # <<>> PROVE Tail(s)[Len(Tail(s))] = s[Len(s)]
  <2>1. Len(Tail(s)) \in 1 .. Len(Tail(s))
    BY <1>1, <1>2, EmptySeq, LenProperties
  <2> QED
    BY <1>1, <2>1, HeadTailProperties
<1> QED
    BY <1>1, <1>2 DEF Script

LEMMA AcmdScript == AcmdOpCond \in Seq(Steps) /\ AcmdOpCond # <<>> /\ Script(AcmdOpCond)
<1>1. AcmdOpCond \in Seq(Steps) /\ AcmdOpCond # <<>>
    BY CmdIsStep DEF AcmdOpCond, CmdCodes
<1>2. AcmdOpCond[Len(AcmdOpCond)] = Cmd("OP_COND")
    BY DEF AcmdOpCond
<1> QED
    BY <1>1, <1>2, Kinds, Commands DEF Script

LEMMA IdleScript == <<Idle>> \in Seq(Steps) /\ <<Idle>> # <<>> /\ Script(<<Idle>>)
BY WaitsAreSteps, Kinds DEF Script

LEMMA InitScriptType == Script(InitScript) /\ InitScript # <<>>
<1> DEFINE a == <<Cmd("GO_IDLE"), Cmd("IF_COND")>>
           b == <<Cmd("ALL_SEND_CID"), Cmd("SEND_REL_ADDR"), Clock, Cmd("SELECT"),
                  Idle, Cmd("APP"), Cmd("SEND_SCR"), Step("scr"), Idle>>
<1>1. a \in Seq(Steps) /\ a # <<>>
    BY CmdIsStep DEF CmdCodes
<1>2. b \in Seq(Steps) /\ b # <<>> /\ b[Len(b)] = Idle
    BY CmdIsStep, WaitsAreSteps DEF CmdCodes
<1>3. Script(b)
    BY <1>2, Kinds DEF Script
<1>4. (a \o AcmdOpCond) \in Seq(Steps) /\ (a \o AcmdOpCond) # <<>>
    BY <1>1, AcmdScript, ScriptJoins DEF Script
<1>5. Script((a \o AcmdOpCond) \o b) /\ ((a \o AcmdOpCond) \o b) # <<>>
    BY <1>2, <1>3, <1>4, ScriptJoins
<1> QED
    BY <1>5 DEF InitScript

LEMMA WidthScriptType == Script(WidthScript) /\ WidthScript # <<>>
<1>1. WidthScript \in Seq(Steps)
    BY CmdIsStep, WaitsAreSteps DEF WidthScript, CmdCodes
<1>2. WidthScript # <<>> /\ WidthScript[Len(WidthScript)] = Idle
    BY DEF WidthScript
<1> QED
    BY <1>1, <1>2, Kinds DEF Script

LEMMA ByBlocksType ==
    ASSUME NEW l \in Nat, NEW n \in Nat
    PROVE  Script(ByBlocks(l, n))
<1> DEFINE a == IF n > 1 /\ sd_scr.blkcnt THEN <<Cmd("BLOCKCNT")>> ELSE <<>>
           b == <<Read(IF n = 1 THEN "SINGLE" ELSE "MULTI", l, "block")>>
           d == [k \in 1 .. n |-> Data]
           e == IF n > 1 /\ ~ sd_scr.blkcnt THEN <<Cmd("STOP")>> ELSE <<>>
<1>1. a \in Seq(Steps)
    BY CmdIsStep, EmptySeq DEF CmdCodes
<1>2. b \in Seq(Steps) /\ b # <<>>
    BY ReadIsStep DEF CmdCodes
<1>3. d \in Seq(Steps)
    BY WaitsAreSteps, SeqDef
<1>4. Script(e)
  <2>1. Script(<<>>)
    BY EmptySeq DEF Script
  <2>2. Script(<<Cmd("STOP")>>)
    BY CmdIsStep, Commands, Kinds DEF Script, CmdCodes
  <2> QED
    BY <2>1, <2>2
<1>5. a \o b \o d \in Seq(Steps) /\ a \o b \o d # <<>>
  <2>1. /\ a \o b \in Seq(Steps) /\ Len(a \o b) = Len(a) + Len(b)
        /\ Len(a) \in Nat /\ Len(b) \in Nat /\ Len(b) # 0 /\ Len(d) \in Nat
    BY <1>1, <1>2, <1>3, ConcatProperties, LenProperties, EmptySeq
  <2>2. a \o b \o d \in Seq(Steps) /\ Len(a \o b \o d) = Len(a \o b) + Len(d)
    BY <1>3, <2>1, ConcatProperties
  <2> QED
    BY <2>1, <2>2, EmptySeq
<1>6. Script(a \o b \o d \o <<Idle>>) /\ a \o b \o d \o <<Idle>> # <<>>
    BY <1>5, IdleScript, ScriptJoins
<1>7. Script(a \o b \o d \o <<Idle>> \o e)
    BY <1>4, <1>6, ScriptJoins DEF Script
<1> QED
    BY <1>7 DEF ByBlocks

LEMMA ByBytesType ==
    ASSUME NEW l \in Nat, NEW n \in Nat
    PROVE  Script(ByBytes(l, n))
<1> DEFINE s(k) == IF k % 2 = 1 THEN Read("SINGLE", l + k \div 2, "byte") ELSE Data
           d == [k \in 1 .. (2 * n) |-> s(k)]
<1>1. ASSUME NEW k \in 1 .. (2 * n) PROVE s(k) \in Steps
  <2>1. l + k \div 2 \in Nat
    BY SMT
  <2> QED
    BY <2>1, ReadIsStep, WaitsAreSteps DEF CmdCodes
<1>2. d \in [1 .. (2 * n) -> Steps] /\ 2 * n \in Nat
    BY <1>1
<1>3. d \in Seq(Steps)
    BY <1>2, SeqDef
<1>4. CASE d = <<>>
    BY <1>3, <1>4, IdleScript, ConcatEmptySeq DEF ByBytes
<1>5. CASE d # <<>>
    BY <1>3, <1>5, IdleScript, ScriptJoins DEF ByBytes
<1> QED
    BY <1>4, <1>5

LEMMA ReadScriptType ==
    ASSUME NEW l \in Nat, NEW n \in Nat
    PROVE  Script(ReadScript(l, n)) /\ ReadScript(l, n) # <<>>
BY IdleScript, ByBlocksType, ByBytesType, ScriptJoins DEF ReadScript

----------------------------------------------------------------------------
(* How a call goes on and ends.                                            *)

LEMMA Counters == Polls \in 0 .. (WordSpace - 1) /\ OpTries \in Nat \ {0}
BY SdAssumption

(* The part of the invariant that a call's own steps are about. *)
Control ==
    /\ pc \in {"out", "reset", "poll", "check", "take"}
    /\ cnt \in 0 .. (WordSpace - 1)
    /\ Script(todo) /\ ((todo = <<>>) <=> pc \in {"out", "reset"})
    /\ pc = "check" => op # Clock
    /\ pc = "take" => op \in {Data, Step("scr")}
    /\ issued \in BOOLEAN
    /\ issued => op.op = "cmd" /\ pc \in {"poll", "check"}

LEMMA ReturnControl ==
    ASSUME NEW r, Return(r)
    PROVE  Control' /\ ~ issued'
BY Counters, EmptySeq DEF Return, Control, Script

LEMMA PollControl ==
    ASSUME NEW s, Script(s), s # <<>>, Poll(s)
    PROVE  Control' /\ ~ issued'
BY Counters DEF Poll, Control

LEMMA ProceedControl ==
    ASSUME NEW s, Script(s), Proceed(s)
    PROVE  Control' /\ ~ issued'
BY ReturnControl, PollControl DEF Proceed

(* A step that ends with no command issued needs no answer. *)
LEMMA Unissued ==
    ASSUME Control', ~ issued', tries' \in 0 .. (OpTries - 1), num' \in Nat,
           ints' \subseteq {"done", "ready", "error"}
    PROVE  Inv'
BY DEF Control, Script, Inv, SdTypeOK, OwnAnswer

LEMMA GoOnInv ==
    ASSUME Inv, GoOn, todo # <<>>, ints' \subseteq {"done", "ready", "error"}
    PROVE  Inv'
<1>1. Script(Tail(todo))
    BY TailOfScript DEF Inv
<1>2. Control' /\ ~ issued'
    BY <1>1, ProceedControl DEF GoOn
<1> QED
    BY <1>2, Unissued DEF GoOn, call, Inv, SdTypeOK

LEMMA FailInv ==
    ASSUME Inv, Fail, ints' \subseteq {"done", "ready", "error"}
    PROVE  Inv'
BY ReturnControl, Unissued DEF Fail, call, Inv, SdTypeOK

----------------------------------------------------------------------------
(* One lemma per action.                                                   *)

LEMMA InitInv == Init => Inv
<1> SUFFICES ASSUME Init PROVE Inv
    OBVIOUS
<1>1. pc = "out" /\ todo = <<>> /\ issued = FALSE /\ num = 0 /\ ints = {}
    BY DEF Init
<1>2. cnt \in 0 .. (WordSpace - 1) /\ tries \in 0 .. (OpTries - 1)
    BY Counters DEF Init
<1> QED
    BY <1>1, <1>2, EmptySeq DEF Inv, SdTypeOK, OwnAnswer, Script

LEMMA SdInitInv == Inv /\ SdInit => Inv'
BY DEF SdInit, Inv, SdTypeOK, OwnAnswer, controller

LEMMA ResetInv ==
    ASSUME Inv, Reset \/ ResetFails
    PROVE  Inv'
<1>1. CASE Reset
  <2>1. Control' /\ ~ issued'
    BY <1>1, InitScriptType, PollControl DEF Reset
  <2> QED
    BY <1>1, <2>1, Counters, Unissued DEF Reset, ResetController, call, Inv, SdTypeOK
<1>2. CASE ResetFails
    BY <1>2, FailInv DEF ResetFails, ResetController, controller, Inv, SdTypeOK
<1> QED
    BY <1>1, <1>2

LEMMA ReadBlockInv ==
    ASSUME Inv, NEW l \in Lbas, NEW n \in Nums, ReadBlock(l, n)
    PROVE  Inv'
<1>1. l \in Nat /\ n \in Nat
    BY SdAssumption
<1>2. Script(todo') /\ todo' # <<>>
    BY <1>1, ReadScriptType DEF ReadBlock
<1>3. Control' /\ ~ issued'
    BY <1>2, Counters DEF ReadBlock, Control
<1> QED
    BY <1>1, <1>3, Unissued DEF ReadBlock, controller, Inv, SdTypeOK

LEMMA PollStepInv ==
    ASSUME Inv, PollStep
    PROVE  Inv'
<1>1. cnt' \in 0 .. (WordSpace - 1)
  <2>1. WordSpace \in Nat \ {0} /\ cnt \in Int
    BY SdAssumption DEF Inv, SdTypeOK
  <2>2. (cnt - 1) % WordSpace \in 0 .. (WordSpace - 1)
    BY <2>1, SMT
  <2> QED
    BY <2>2 DEF PollStep, CountDown, Inv, SdTypeOK
<1> QED
    BY <1>1 DEF PollStep, controller, call, Inv, SdTypeOK, OwnAnswer, op

(* APP_CMD is not sent again for a retry, but the script goes on as before. *)
LEMMA ThirdOnward ==
    ASSUME Script(todo)
    PROVE  Script(SubSeq(todo, 3, Len(todo)))
<1> DEFINE r == SubSeq(todo, 3, Len(todo))
           n == IF 3 <= Len(todo) THEN Len(todo) - 2 ELSE 0
<1>1. todo \in Seq(Steps) /\ Len(todo) \in Nat
    BY LenProperties DEF Script
<1>2. r \in Seq(Steps) /\ Len(r) = n
    BY <1>1, SubSeqProperties
<1>3. ASSUME r # <<>> PROVE r[Len(r)] = todo[Len(todo)] /\ todo # <<>>
  <2>1. n # 0
    BY <1>2, <1>3, EmptySeq
  <2>2. r[n] = todo[3 + n - 1]
    BY <1>1, <1>2, <2>1, SubSeqProperties
  <2> QED
    BY <1>1, <1>2, <2>1, <2>2, EmptySeq
<1> QED
    BY <1>2, <1>3 DEF Script

LEMMA StatusFailsInv ==
    ASSUME Inv, StatusFails
    PROVE  Inv'
<1>1. ints' = ints /\ ints' \subseteq {"done", "ready", "error"} /\ Script(todo)
    BY DEF StatusFails, controller, Inv, SdTypeOK
<1>2. CASE Fail
    BY <1>1, <1>2, FailInv
<1>3. CASE Retry
  <2>1. CASE tries = 0 /\ Fail
    BY <1>1, <2>1, FailInv
  <2>2. CASE tries > 0 /\ tries' = tries - 1 /\ Poll(AcmdOpCond \o AfterAcmd)
             /\ UNCHANGED <<found, call>>
    <3>1. todo # <<>>
      BY DEF StatusFails, Inv, SdTypeOK
    <3>2. Script(AfterAcmd)
      BY <1>1, <3>1, TailOfScript, ThirdOnward DEF AfterAcmd
    <3>3. Control' /\ ~ issued'
      BY <2>2, <3>2, AcmdScript, ScriptJoins, PollControl
    <3> QED
      BY <1>1, <2>2, <3>3, Counters, Unissued DEF call, Inv, SdTypeOK
  <2> QED
    BY <1>3, <2>1, <2>2 DEF Retry
<1> QED
    BY <1>2, <1>3 DEF StatusFails

LEMMA DataIdleInv ==
    ASSUME Inv, DataIdle
    PROVE  Inv'
BY GoOnInv DEF DataIdle, Passed, controller, Inv, SdTypeOK

LEMMA IssueInv ==
    ASSUME Inv, Issue
    PROVE  Inv'
<1>1. ints' = {} /\ todo # <<>> /\ op.op = "cmd"
    BY DEF Issue, Pending, Passed, Inv, SdTypeOK
<1>2. CASE Codes({"GO_IDLE"}) /\ GoOn
    BY <1>1, <1>2, GoOnInv
<1>3. CASE ~ Codes({"GO_IDLE"}) /\ issued' = TRUE /\ pc' = "poll" /\ cnt' = Polls
           /\ UNCHANGED <<todo, tries, found, call, ret>>
    BY <1>1, <1>3, Counters DEF Inv, SdTypeOK, OwnAnswer, call, op
<1> QED
    BY <1>2, <1>3 DEF Issue

LEMMA IntFailsInv ==
    ASSUME Inv, IntFails
    PROVE  Inv'
BY FailInv DEF IntFails

LEMMA AnsweredInv ==
    ASSUME Inv, Answered
    PROVE  Inv'
<1>1. /\ Script(Tail(todo))
      /\ tries \in 0 .. (OpTries - 1) /\ OpTries \in Nat
    BY TailOfScript, Counters DEF Answered, Passed, Inv, SdTypeOK
<1>2. num' = num /\ num \in Nat /\ ints' \subseteq {"done", "ready", "error"}
    BY DEF Answered, call, Inv, SdTypeOK
<1>3. CASE Proceed(Tail(todo)) /\ UNCHANGED tries
    BY <1>1, <1>2, <1>3, ProceedControl, Unissued
<1>4. CASE tries > 0 /\ tries' = tries - 1 /\ Poll(AcmdOpCond \o Tail(todo))
  <2>1. Control' /\ ~ issued'
    BY <1>1, <1>4, AcmdScript, ScriptJoins, PollControl
  <2> QED
    BY <1>1, <1>2, <1>4, <2>1, Unissued
<1>5. CASE Return("fail") /\ UNCHANGED tries
    BY <1>1, <1>2, <1>5, ReturnControl, Unissued
<1> QED
    BY <1>3, <1>4, <1>5 DEF Answered

LEMMA AnnouncedInv ==
    ASSUME Inv, Announced
    PROVE  Inv'
<1>1. todo # <<>> /\ op \in Steps /\ op.op # "cmd" /\ op # Idle /\ op # Clock
    BY TailOfScript DEF Announced, Passed, ByStatus, op, Inv, SdTypeOK
<1>2. op \in {Data, Step("scr")}
    BY <1>1, OtherSteps
<1>3. ~ issued
    BY <1>1 DEF Inv, SdTypeOK
<1>4. op' = op
    BY DEF Announced, op
<1> QED
    BY <1>1, <1>2, <1>3, <1>4 DEF Announced, Inv, SdTypeOK, OwnAnswer, call

LEMMA TakeSectorInv ==
    ASSUME Inv, TakeSector
    PROVE  Inv'
<1>1. Script(Tail(todo))
    BY TailOfScript DEF TakeSector, Inv, SdTypeOK
<1>2. Control' /\ ~ issued'
    BY <1>1, ProceedControl DEF TakeSector
<1> QED
    BY <1>2, Unissued DEF TakeSector, Inv, SdTypeOK

LEMMA TakeScrInv ==
    ASSUME Inv, TakeScr
    PROVE  Inv'
<1>1. todo \in Seq(Steps) /\ todo # <<>> /\ todo[Len(todo)] # Head(todo)
    BY DEF TakeScr, Inv, SdTypeOK, op, Script
<1>2. Script(Tail(todo)) /\ Tail(todo) \in Seq(Steps)
    BY <1>1, TailOfScript DEF Inv, Script
<1>3. Tail(todo) # <<>>
  <2>1. Len(todo) # 1
    BY <1>1
  <2>2. Len(todo) \in Nat /\ Len(todo) # 0
    BY <1>1, LenProperties, EmptySeq
  <2>3. Len(Tail(todo)) = Len(todo) - 1
    BY <1>1, HeadTailProperties
  <2> QED
    BY <2>1, <2>2, <2>3, EmptySeq
<1>4. Script(WidthScript) /\ Script(<<>>)
    BY WidthScriptType, EmptySeq DEF Script
<1>5. /\ Script(Tail(todo) \o (IF card.wide THEN WidthScript ELSE <<>>))
      /\ Tail(todo) \o (IF card.wide THEN WidthScript ELSE <<>>) # <<>>
    BY <1>2, <1>3, <1>4, ScriptJoins
<1>6. Control' /\ ~ issued'
    BY <1>5, PollControl DEF TakeScr
<1> QED
    BY <1>6, Unissued DEF TakeScr, call, Inv, SdTypeOK

LEMMA ScrFailsInv == Inv /\ ScrFails => Inv'
BY FailInv DEF ScrFails, controller, Inv, SdTypeOK

LEMMA SetClockInv ==
    ASSUME Inv, SetClock
    PROVE  Inv'
<1>1. todo # <<>> /\ ints' \subseteq {"done", "ready", "error"}
    BY DEF SetClock, controller, Inv, SdTypeOK
<1> QED
    BY <1>1, GoOnInv, FailInv DEF SetClock

(* The controller raises "done" only with the command off the line. *)
LEMMA ControllerInv ==
    ASSUME Inv, Controller
    PROVE  Inv'
<1>1. UNCHANGED <<pc, todo, issued, cnt, tries, num>>
    BY DEF Controller, call
<1>2. ints' \subseteq {"done", "ready", "error"}
    BY DEF Controller, Responds, NoAnswer, SectorArrives, TransferEnds, DataError,
        CardStops, Inv, SdTypeOK
<1>3. OwnAnswer'
    BY <1>1 DEF Controller, Responds, NoAnswer, SectorArrives, TransferEnds, DataError,
        CardStops, Inv, OwnAnswer
<1> QED
    BY <1>1, <1>2, <1>3 DEF Inv, SdTypeOK, op, Script

LEMMA NextInv ==
    ASSUME Inv, [Next]_vars
    PROVE  Inv'
<1>1. CASE SdInit
    BY <1>1, SdInitInv
<1>2. CASE \E l \in Lbas, n \in Nums : ReadBlock(l, n)
    BY <1>2, ReadBlockInv
<1>3. CASE Driver
    BY <1>3, ResetInv, PollStepInv, StatusFailsInv, DataIdleInv, IssueInv, IntFailsInv,
       AnsweredInv, AnnouncedInv, TakeSectorInv, TakeScrInv, ScrFailsInv, SetClockInv
       DEF Driver
<1>4. CASE Controller
    BY <1>4, ControllerInv
<1>5. CASE UNCHANGED vars
    BY <1>5 DEF vars, call, controller, Inv, SdTypeOK, OwnAnswer, op, Script
<1> QED
    BY <1>1, <1>2, <1>3, <1>4, <1>5 DEF Next

(* The driver's state is what sd.c's declarations and loops allow: the     *)
(* poll counter stays a word although it is counted below zero (sd.c:129), *)
(* and a wait is under way exactly while a script is.                      *)
THEOREM SdTypeCorrect == Spec => []SdTypeOK
<1>1. Inv => SdTypeOK
    BY DEF Inv
<1> QED
    BY <1>1, InitInv, NextInv, PTL DEF Spec

----------------------------------------------------------------------------
(* Only an answer that was there in time ends a command well.              *)
LEMMA OwnAnswerStep ==
    ASSUME Inv, [Next]_vars, issued, ~ issued', ret' # "fail", ~ late'
    PROVE  cmd = NoCommand
<1>1. pc \in {"poll", "check"} /\ op.op = "cmd" /\ op # Idle /\ op # Clock
    BY Kinds DEF Inv, SdTypeOK
<1>2. ~ ByStatus /\ Wanted = "done" /\ (Here => "done" \in ints)
    BY <1>1 DEF ByStatus, Wanted, Here
<1>3. CASE Answered
    BY <1>2, <1>3 DEF Answered, Passed, Inv, OwnAnswer
<1>4. ~ (SdInit \/ (\E l \in Lbas, n \in Nums : ReadBlock(l, n)) \/ Reset \/ ResetFails)
    BY <1>1 DEF SdInit, ReadBlock, Reset, ResetFails
<1>5. ~ (PollStep \/ StatusFails \/ DataIdle \/ Issue \/ IntFails)
    BY <1>1, <1>2 DEF PollStep, StatusFails, DataIdle, Issue, IntFails, Fail, Return
<1>6. ~ (Announced \/ TakeSector \/ TakeScr \/ ScrFails \/ SetClock)
    BY <1>1 DEF Announced, TakeSector, TakeScr, ScrFails, SetClock
<1>7. ~ Controller /\ ~ UNCHANGED vars
    BY DEF Controller, vars
<1> QED
    BY <1>3, <1>4, <1>5, <1>6, <1>7 DEF Next, Driver

(* From a reset to the first poll that runs out unnoticed, no command takes*)
(* for its own the answer to an earlier one that came late, was lost or was*)
(* never waited for: interrupts are cleared before it is written, and      *)
(* nothing but its own end raises one (sd.c:239-270).  A poll that runs out*)
(* unnoticed (sd.c:135) goes on without an answer, and is left out.        *)
THEOREM AnswersAreNeverStale == Spec => NoStaleAnswer
<1>1. Inv /\ [Next]_vars
      => [issued /\ ~ issued' /\ ret' # "fail" /\ ~ late' => cmd = NoCommand]_vars
    BY OwnAnswerStep
<1> QED
    BY <1>1, InitInv, NextInv, PTL DEF Spec, NoStaleAnswer

----------------------------------------------------------------------------
(* What a read brings rests on more: on the state the card and the         *)
(* controller are in at every step of a script, as long as no poll ran out *)
(* unnoticed.                                                              *)
Error == "error" \in ints
Empty == stream = <<>> /\ fifo = Nothing
Answer == issued /\ "done" \in ints
Suffix(s, k) == SubSeq(s, k, Len(s))

(* Nothing is left to come once the data path is free, and a poll that saw *)
(* what it waited for too late saw it.                                     *)
Flow ==
    /\ card \in Cards /\ mode \in [st : States, app : BOOLEAN, set : BOOLEAN]
    /\ ~ dat => Empty
    /\ ret = "read" => pc = "out"
    /\ pc = "reset" => num = 0
    /\ num = 0 /\ pc # "out" => ~ init
    /\ pc = "check" /\ cnt = 0 /\ issued => "done" \in ints \/ Error

(* sd_init at the k-th of its steps: the card has gone as far.             *)
LastScript == <<Idle>> \o WidthScript

InitPlace(s, k) ==
    \/ k \in 1 .. 12 /\ s = Suffix(InitScript, k)
    \/ k \in 13 .. 16 /\ s = Suffix(LastScript, k - 12)
InitAt(k) == InitPlace(todo, k)

InitPhase(k) ==
    /\ InitAt(k)
    /\ k < 5 => (ccs = FALSE \/ ccs = card.hc)
    /\ k > 4 => ccs = card.hc
    /\ k > 6 => sd_rca
    /\ cmd # NoCommand => (issued /\ cmd = op) \/ (k = 2 /\ ~ issued /\ cmd = Cmd("GO_IDLE"))
    /\ k < 9 => ~ dat
    /\ k = 8 /\ Answer => mode.st = "tran" /\ ~ mode.set
    /\ k > 8 => mode.st = (IF dat THEN "data" ELSE "tran") /\ ~ mode.set
    /\ k > 12 => sd_scr = [hc |-> card.bit, blkcnt |-> card.blkcnt, wide |-> card.wide]

InitGoes ==
    num = 0 /\ todo # <<>> /\ ~ late =>
        \E k \in 1 .. 16 : InitAt(k) /\ (Error \/ InitPhase(k))

(* An initialised card: between reads, and after failed ones.  A card      *)
(* addressed by bytes may still have a command of a failed read to take.   *)
Caps == [hc |-> card.hc, blkcnt |-> card.blkcnt, wide |-> card.wide]

(* Such a command asks for one sector, which is not the mark of an empty   *)
(* buffer.                                                                 *)
Asks == cmd.code = "SINGLE" /\ cmd.at \in Nat
Short == stream = <<>> \/ \E x \in Nat \union {Foreign} : stream = <<x>>

Ready ==
    /\ sd_scr = Caps /\ (mode.set => card.blkcnt)
    /\ issued /\ cmd # NoCommand => cmd = op
    /\ card.hc => (cmd # NoCommand => issued /\ ints = {} /\ ~ dat)
    /\ ~ card.hc => (cmd # NoCommand => Asks) /\ (dat => mode.st = "data") /\ Short
    /\ ret = "read" => mode.st = "tran" /\ ~ dat /\ cmd = NoCommand /\ dest = Asked

(* A read: the sectors so far are right, and those to come are on the way. *)
Counts == num > 1 /\ card.blkcnt
Stops == num > 1 /\ ~ card.blkcnt
Good == Len(dest) \in Nat /\ dest = [j \in 1 .. Len(dest) |-> lba + j - 1]

Expected == lba + Len(dest)
Sectors == IF card.hc THEN num - Len(dest) ELSE 1
Sending == IF card.hc /\ Stops THEN "open" ELSE "data"
Coming ==
    /\ dat /\ mode.st = Sending
    /\ "ready" \in ints => fifo # Nothing
    /\ \/ fifo = Nothing /\ stream = [j \in 1 .. Sectors |-> Expected + j - 1]
       \/ /\ Sectors > 0 /\ fifo = Expected
          /\ stream = [j \in 1 .. (Sectors - 1) |-> Expected + j]

CountWait == ~ dat /\ (Answer => mode.set)
ReadWait ==
    \/ Answer /\ Coming
    \/ /\ ~ Answer
       /\ issued /\ "ready" \in ints => fifo # Nothing
       /\ card.hc => ~ dat /\ (Counts => mode.set)
DataWait == cmd = NoCommand /\ Coming /\ (pc = "take" => fifo # Nothing /\ "ready" \notin ints)
EndWait ==
    /\ cmd = NoCommand /\ Empty
    /\ mode.st = IF Sending = "data" /\ ~ dat THEN "tran" ELSE Sending
StopWait == ~ dat /\ (Answer => mode.st = "tran")

(* Where the read is in its script.                                        *)
Extra == IF Counts THEN 1 ELSE 0
CountAt(k) == card.hc /\ Counts /\ k = 2 /\ Len(dest) = 0
ReadAt(k) == IF card.hc THEN k = 2 + Extra /\ Len(dest) = 0
                        ELSE k = 2 * Len(dest) + 2 /\ Len(dest) < num
DataAt(k) == /\ Len(dest) < num
             /\ k = IF card.hc THEN 3 + Extra + Len(dest) ELSE 2 * Len(dest) + 3
EndAt(k) == /\ Len(dest) = num
            /\ k = IF card.hc THEN 3 + Extra + num ELSE 2 * num + 2
StopAt(k) == card.hc /\ Stops /\ Len(dest) = num /\ k = 4 + num

At(k) == k \in 1 .. Len(ReadScript(lba, num)) /\ todo = Suffix(ReadScript(lba, num), k)

ReadPhase(k) ==
    /\ Good
    /\ \/ k = 1 /\ Len(dest) = 0
       \/ CountAt(k) /\ CountWait
       \/ ReadAt(k) /\ ReadWait
       \/ DataAt(k) /\ DataWait
       \/ EndAt(k) /\ EndWait
       \/ StopAt(k) /\ StopWait

ReadGoes ==
    num > 0 /\ todo # <<>> => \E k \in Nat : At(k) /\ (Error \/ ReadPhase(k))

Whole == Inv /\ Flow /\ InitGoes /\ lba \in Nat /\ (init /\ ~ late => Ready /\ ReadGoes)

----------------------------------------------------------------------------
(* Walking through a script.                                               *)

LEMMA Suffixes ==
    ASSUME NEW s \in Seq(Steps), NEW k \in 1 .. Len(s)
    PROVE  /\ Head(Suffix(s, k)) = s[k]
           /\ Tail(Suffix(s, k)) = Suffix(s, k + 1)
           /\ Suffix(s, k) # <<>>
           /\ Tail(Suffix(s, k)) = <<>> <=> k = Len(s)
           /\ k < Len(s) => Suffix(s, k)[2] = s[k + 1]
           /\ Suffix(s, 1) = s
<1>1. Len(s) \in Nat /\ k \in Int /\ k + 1 \in Int /\ \A i \in 1 .. Len(s) : s[i] \in Steps
    BY LenProperties, ElementOfSeq
<1>2. Head(Suffix(s, k)) = s[k] /\ Tail(Suffix(s, k)) = Suffix(s, k + 1)
    BY <1>1, HeadTailOfSubSeq DEF Suffix
<1>3. /\ Suffix(s, k) \in Seq(Steps) /\ Len(Suffix(s, k)) = Len(s) - k + 1
      /\ \A i \in 1 .. (Len(s) - k + 1) : Suffix(s, k)[i] = s[k + i - 1]
  <2>1. \A i \in k .. Len(s) : s[i] \in Steps
    BY <1>1
  <2> QED
    BY <1>1, <2>1, SubSeqProperties DEF Suffix
<1>4. Suffix(s, k) # <<>>
    BY <1>1, <1>3, EmptySeq
<1>5. /\ Suffix(s, k + 1) \in Seq(Steps)
      /\ Len(Suffix(s, k + 1)) = IF k + 1 <= Len(s) THEN Len(s) - k ELSE 0
  <2>1. \A i \in (k + 1) .. Len(s) : s[i] \in Steps
    BY <1>1
  <2> QED
    BY <1>1, <2>1, SubSeqProperties DEF Suffix
<1>6. Suffix(s, k + 1) = <<>> <=> k = Len(s)
    BY <1>1, <1>5, EmptySeq
<1>7. k < Len(s) => Suffix(s, k)[2] = s[k + 1]
    BY <1>1, <1>3
<1>8. Suffix(s, 1) = s
    BY SubSeqFull DEF Suffix
<1> QED
    BY <1>2, <1>4, <1>6, <1>7, <1>8

LEMMA Joined ==
    ASSUME NEW a \in Seq(Steps), NEW b \in Seq(Steps)
    PROVE  /\ Len(a) \in Nat /\ Len(b) \in Nat
           /\ a \o b \in Seq(Steps) /\ Len(a \o b) = Len(a) + Len(b)
           /\ \A i \in 1 .. Len(a) : (a \o b)[i] = a[i]
           /\ \A i \in 1 .. Len(b) : (a \o b)[Len(a) + i] = b[i]
<1>1. /\ a \o b \in Seq(Steps) /\ Len(a \o b) = Len(a) + Len(b)
      /\ \A i \in 1 .. Len(a) + Len(b) :
            (a \o b)[i] = IF i <= Len(a) THEN a[i] ELSE b[i - Len(a)]
      /\ Len(a) \in Nat /\ Len(b) \in Nat
    BY ConcatProperties, LenProperties
<1>2. ASSUME NEW i \in 1 .. Len(b) PROVE (a \o b)[Len(a) + i] = b[i]
  <2>1. /\ Len(a) + i \in 1 .. Len(a) + Len(b) /\ ~ (Len(a) + i <= Len(a))
        /\ Len(a) + i - Len(a) = i
    BY <1>1
  <2> QED
    BY <1>1, <2>1
<1> QED
    BY <1>1, <1>2

(* The steps of sd_readblock for a card addressed by blocks.               *)
LEMMA BlockScript ==
    ASSUME NEW l \in Nat, NEW n \in Nat \ {0}, sd_scr.hc
    PROVE  LET s == ReadScript(l, n)
               c == IF n > 1 /\ sd_scr.blkcnt THEN 1 ELSE 0
               t == IF n > 1 /\ ~ sd_scr.blkcnt THEN 1 ELSE 0 IN
           /\ s \in Seq(Steps) /\ Len(s) = 3 + c + n + t
           /\ s[1] = Idle
           /\ c = 1 => s[2] = Cmd("BLOCKCNT")
           /\ s[2 + c] = Read(IF n = 1 THEN "SINGLE" ELSE "MULTI", l, "block")
           /\ \A j \in 1 .. n : s[2 + c + j] = Data
           /\ s[3 + c + n] = Idle
           /\ t = 1 => s[4 + c + n] = Cmd("STOP")
<1> DEFINE a == IF n > 1 /\ sd_scr.blkcnt THEN <<Cmd("BLOCKCNT")>> ELSE <<>>
           b == <<Read(IF n = 1 THEN "SINGLE" ELSE "MULTI", l, "block")>>
           d == [k \in 1 .. n |-> Data]
           e == IF n > 1 /\ ~ sd_scr.blkcnt THEN <<Cmd("STOP")>> ELSE <<>>
           w == <<Idle>>
           s == ReadScript(l, n)
           c == IF n > 1 /\ sd_scr.blkcnt THEN 1 ELSE 0
           t == IF n > 1 /\ ~ sd_scr.blkcnt THEN 1 ELSE 0
<1>1. a \in Seq(Steps) /\ Len(a) = c /\ (c = 1 => a[1] = Cmd("BLOCKCNT"))
    BY CmdIsStep, EmptySeq DEF CmdCodes
<1>2. /\ b \in Seq(Steps) /\ Len(b) = 1
      /\ b[1] = Read(IF n = 1 THEN "SINGLE" ELSE "MULTI", l, "block")
    BY ReadIsStep DEF CmdCodes
<1>3. d \in Seq(Steps) /\ Len(d) = n /\ \A j \in 1 .. n : d[j] = Data
  <2>1. d \in [1 .. n -> Steps] /\ DOMAIN d = 1 .. n
    BY WaitsAreSteps
  <2>2. d \in Seq(Steps)
    BY <2>1, SeqDef
  <2> QED
    BY <2>1, <2>2, LenProperties
<1>4. e \in Seq(Steps) /\ Len(e) = t /\ (t = 1 => e[1] = Cmd("STOP"))
    BY CmdIsStep, EmptySeq DEF CmdCodes
<1>5. w \in Seq(Steps) /\ Len(w) = 1 /\ w[1] = Idle
    BY WaitsAreSteps
<1>6. s = w \o (a \o b \o d \o w \o e)
    BY DEF ReadScript, ByBlocks
<1>7. c \in {0, 1} /\ t \in {0, 1} /\ (c = 1 => t = 0)
    OBVIOUS
<1> HIDE DEF a, b, d, e, w, s, c, t
<1> DEFINE f == a \o b
           g == f \o d
           x == g \o w
           y == x \o e
<1>a. a \in Seq(Steps) /\ b \in Seq(Steps)
    BY <1>1, <1>2
<1>b. /\ f \in Seq(Steps) /\ Len(f) = Len(a) + Len(b)
      /\ \A i \in 1 .. Len(a) : f[i] = a[i]
      /\ \A i \in 1 .. Len(b) : f[Len(a) + i] = b[i]
    BY <1>a, Joined, SMTT(30)
<1> HIDE DEF f
<1>d. /\ g \in Seq(Steps) /\ Len(g) = Len(f) + Len(d)
      /\ \A i \in 1 .. Len(f) : g[i] = f[i]
      /\ \A i \in 1 .. Len(d) : g[Len(f) + i] = d[i]
    BY <1>3, <1>b, Joined
<1> HIDE DEF g
<1>8. /\ x \in Seq(Steps) /\ Len(x) = Len(g) + Len(w)
      /\ \A i \in 1 .. Len(g) : x[i] = g[i]
      /\ \A i \in 1 .. Len(w) : x[Len(g) + i] = w[i]
    BY <1>5, <1>d, Joined
<1> HIDE DEF x
<1>9. /\ y \in Seq(Steps) /\ Len(y) = Len(x) + Len(e)
      /\ \A i \in 1 .. Len(x) : y[i] = x[i]
      /\ \A i \in 1 .. Len(e) : y[Len(x) + i] = e[i]
    BY <1>4, <1>8, Joined
<1>10. s = w \o y
    BY <1>6 DEF x, g, f
<1> HIDE DEF y
<1>11. /\ s \in Seq(Steps) /\ Len(s) = Len(w) + Len(y)
       /\ \A i \in 1 .. Len(w) : s[i] = w[i]
       /\ \A i \in 1 .. Len(y) : s[Len(w) + i] = y[i]
    BY <1>5, <1>9, <1>10, Joined
<1>12. /\ Len(a) = c /\ Len(b) = 1 /\ Len(d) = n /\ Len(e) = t /\ Len(w) = 1
       /\ Len(f) = c + 1 /\ Len(g) = c + n + 1 /\ Len(x) = c + n + 2
       /\ Len(y) = c + n + 2 + t /\ Len(s) = 3 + c + n + t
    BY <1>1, <1>2, <1>3, <1>4, <1>5, <1>7, <1>8, <1>9, <1>11, <1>b, <1>d
<1>13. ASSUME NEW i \in 1 .. c + n + 1 PROVE s[1 + i] = g[i]
  <2>1. i \in 1 .. Len(g) /\ i \in 1 .. Len(x) /\ i \in 1 .. Len(y) /\ Len(w) + i = 1 + i
    BY <1>7, <1>12
  <2>2. s[Len(w) + i] = y[i] /\ y[i] = x[i] /\ x[i] = g[i]
    BY <1>8, <1>9, <1>11, <2>1
  <2> QED
    BY <2>1, <2>2
<1>14. c = 1 => s[2] = Cmd("BLOCKCNT")
  <2>1. ASSUME c = 1 PROVE s[1 + 1] = g[1] /\ g[1] = f[1] /\ f[1] = a[1]
    BY <1>12, <1>13, <1>b, <1>d, <2>1
  <2> QED
    BY <1>1, <2>1
<1>15. s[2 + c] = Read(IF n = 1 THEN "SINGLE" ELSE "MULTI", l, "block")
  <2>1. s[1 + (c + 1)] = g[c + 1]
    BY <1>7, <1>13
  <2>3. g[c + 1] = f[c + 1]
    <3>1. c + 1 \in 1 .. Len(f)
      BY <1>7, <1>12
    <3> QED
      BY <1>d, <3>1
  <2>2. f[Len(a) + 1] = b[1]
    BY <1>12, <1>b
  <2> QED
    BY <1>2, <1>7, <1>12, <2>1, <2>2, <2>3
<1>16. ASSUME NEW j \in 1 .. n PROVE s[2 + c + j] = Data
  <2>1. s[1 + (c + 1 + j)] = g[c + 1 + j]
    BY <1>7, <1>13
  <2>2. g[Len(f) + j] = d[j]
    BY <1>12, <1>d
  <2>3. 1 + (c + 1 + j) = 2 + c + j /\ d[j] = Data
    BY <1>3, <1>7
  <2> QED
    BY <1>12, <2>1, <2>2, <2>3
<1>17. s[3 + c + n] = Idle
  <2>1. s[1 + (c + n + 2)] = y[c + n + 2] /\ y[c + n + 2] = x[c + n + 2]
    <3>1. c + n + 2 \in 1 .. Len(y) /\ c + n + 2 \in 1 .. Len(x)
      BY <1>7, <1>12
    <3>2. s[Len(w) + (c + n + 2)] = y[c + n + 2] /\ y[c + n + 2] = x[c + n + 2]
      BY <1>9, <1>11, <3>1
    <3> QED
      BY <1>12, <3>2
  <2>2. x[Len(g) + 1] = w[1]
    BY <1>8, <1>12
  <2>3. 1 + (c + n + 2) = 3 + c + n /\ (c + n + 1) + 1 = c + n + 2
    BY <1>7
  <2> QED
    BY <1>5, <1>12, <2>1, <2>2, <2>3
<1>18. ASSUME t = 1 PROVE s[4 + c + n] = Cmd("STOP")
  <2>1. s[1 + (c + n + 3)] = y[c + n + 3]
    <3>1. c + n + 3 \in 1 .. Len(y) /\ Len(w) + (c + n + 3) = 1 + (c + n + 3)
      BY <1>7, <1>12, <1>18
    <3>2. s[Len(w) + (c + n + 3)] = y[c + n + 3]
      BY <1>11, <3>1
    <3> QED
      BY <3>1, <3>2
  <2>2. y[Len(x) + 1] = e[1] /\ e[1] = Cmd("STOP")
    BY <1>4, <1>9, <1>12, <1>18
  <2>3. 1 + (c + n + 3) = 4 + c + n /\ (c + n + 2) + 1 = c + n + 3
    BY <1>7
  <2> QED
    BY <1>12, <2>1, <2>2, <2>3
<1>19. s[1] = Idle
    BY <1>5, <1>11
<1> QED
    BY <1>11, <1>12, <1>14, <1>15, <1>16, <1>17, <1>18, <1>19 DEF s, c, t

(* And for one addressed by bytes.                                         *)
LEMMA ByteScript ==
    ASSUME NEW l \in Nat, NEW n \in Nat \ {0}, ~ sd_scr.hc
    PROVE  LET s == ReadScript(l, n) IN
           /\ s \in Seq(Steps) /\ Len(s) = 2 * n + 2
           /\ s[1] = Idle /\ s[2 * n + 2] = Idle
           /\ \A j \in 0 .. (n - 1) : /\ s[2 * j + 2] = Read("SINGLE", l + j, "byte")
                                       /\ s[2 * j + 3] = Data
<1> DEFINE f(k) == IF k % 2 = 1 THEN Read("SINGLE", l + k \div 2, "byte") ELSE Data
           d == [k \in 1 .. (2 * n) |-> f(k)]
           s == ReadScript(l, n)
<1>1. ASSUME NEW k \in 1 .. (2 * n) PROVE f(k) \in Steps
  <2>1. l + k \div 2 \in Nat
    BY SMT
  <2> QED
    BY <2>1, ReadIsStep, WaitsAreSteps DEF CmdCodes
<1>2. d \in [1 .. (2 * n) -> Steps] /\ DOMAIN d = 1 .. (2 * n) /\ 2 * n \in Nat
    BY <1>1
<1>3. d \in Seq(Steps)
    BY <1>2, SeqDef
<1>4. Len(d) = 2 * n
    BY <1>2, <1>3, LenProperties
<1>5. ASSUME NEW j \in 0 .. (n - 1)
      PROVE  d[2 * j + 1] = Read("SINGLE", l + j, "byte") /\ d[2 * j + 2] = Data
  <2>1. /\ (2 * j + 1) % 2 = 1 /\ (2 * j + 1) \div 2 = j /\ (2 * j + 2) % 2 = 0
        /\ 2 * j + 1 \in 1 .. (2 * n) /\ 2 * j + 2 \in 1 .. (2 * n)
    BY SMT
  <2>2. d[2 * j + 1] = f(2 * j + 1) /\ d[2 * j + 2] = f(2 * j + 2)
    BY <2>1
  <2> QED
    BY <2>1, <2>2
<1>6. <<Idle>> \in Seq(Steps) /\ Len(<<Idle>>) = 1 /\ <<Idle>>[1] = Idle
    BY WaitsAreSteps
<1> DEFINE di == d \o <<Idle>>
<1>7. s = <<Idle>> \o di
    BY DEF ReadScript, ByBytes
<1> HIDE DEF d, s
<1>8. /\ di \in Seq(Steps) /\ Len(di) = Len(d) + Len(<<Idle>>)
      /\ \A i \in 1 .. Len(d) : di[i] = d[i]
      /\ \A i \in 1 .. Len(<<Idle>>) : di[Len(d) + i] = <<Idle>>[i]
    BY <1>3, <1>6, Joined
<1> HIDE DEF di
<1>9. /\ s \in Seq(Steps) /\ Len(s) = Len(<<Idle>>) + Len(di)
      /\ \A i \in 1 .. Len(<<Idle>>) : s[i] = <<Idle>>[i]
      /\ \A i \in 1 .. Len(di) : s[Len(<<Idle>>) + i] = di[i]
    BY <1>6, <1>7, <1>8, Joined
<1>a. Len(di) = 2 * n + 1 /\ Len(s) = 2 * n + 2
    BY <1>2, <1>4, <1>6, <1>8, <1>9
<1>10. Len(s) = 2 * n + 2 /\ s[1] = Idle /\ s[2 * n + 2] = Idle
  <2>1. s[1 + (2 * n + 1)] = di[2 * n + 1] /\ di[2 * n + 1] = Idle
    BY <1>2, <1>4, <1>6, <1>8, <1>9, <1>a
  <2> QED
    BY <1>2, <1>6, <1>9, <1>a, <2>1
<1>11. ASSUME NEW j \in 0 .. (n - 1)
       PROVE  s[2 * j + 2] = Read("SINGLE", l + j, "byte") /\ s[2 * j + 3] = Data
  <2>1. /\ 2 * j + 1 \in 1 .. 2 * n /\ 2 * j + 2 \in 1 .. 2 * n
        /\ 2 * j + 1 \in 1 .. 2 * n + 1 /\ 2 * j + 2 \in 1 .. 2 * n + 1
        /\ 1 + (2 * j + 1) = 2 * j + 2 /\ 1 + (2 * j + 2) = 2 * j + 3
    OBVIOUS
  <2>2. s[2 * j + 2] = di[2 * j + 1] /\ s[2 * j + 3] = di[2 * j + 2]
    BY <1>6, <1>9, <1>a, <2>1
  <2>3. di[2 * j + 1] = d[2 * j + 1] /\ di[2 * j + 2] = d[2 * j + 2]
    BY <1>4, <1>8, <2>1
  <2> QED
    BY <1>5, <2>2, <2>3
<1> QED
    BY <1>9, <1>10, <1>11 DEF s

(* The steps of sd_init; its last ones are put together once the SCR is    *)
(* known.                                                                  *)
LEMMA InitSteps ==
    LET s == InitScript IN
    /\ s \in Seq(Steps) /\ Len(s) = 13
    /\ s[1] = Cmd("GO_IDLE") /\ s[2] = Cmd("IF_COND") /\ s[3] = Cmd("APP")
    /\ s[4] = Cmd("OP_COND") /\ s[5] = Cmd("ALL_SEND_CID") /\ s[6] = Cmd("SEND_REL_ADDR")
    /\ s[7] = Clock /\ s[8] = Cmd("SELECT") /\ s[9] = Idle /\ s[10] = Cmd("APP")
    /\ s[11] = Cmd("SEND_SCR") /\ s[12] = Step("scr") /\ s[13] = Idle
<1> DEFINE a == <<Cmd("GO_IDLE"), Cmd("IF_COND")>>
           b == <<Cmd("ALL_SEND_CID"), Cmd("SEND_REL_ADDR"), Clock, Cmd("SELECT"),
                  Idle, Cmd("APP"), Cmd("SEND_SCR"), Step("scr"), Idle>>
           c == a \o AcmdOpCond
           s == InitScript
<1>1. a \in Seq(Steps) /\ AcmdOpCond \in Seq(Steps) /\ b \in Seq(Steps)
    BY AcmdScript, CmdIsStep, WaitsAreSteps DEF CmdCodes
<1>2. /\ Len(a) = 2 /\ a[1] = Cmd("GO_IDLE") /\ a[2] = Cmd("IF_COND")
      /\ Len(AcmdOpCond) = 2 /\ AcmdOpCond[1] = Cmd("APP") /\ AcmdOpCond[2] = Cmd("OP_COND")
    BY DEF AcmdOpCond
<1>3. /\ Len(b) = 9 /\ b[1] = Cmd("ALL_SEND_CID") /\ b[2] = Cmd("SEND_REL_ADDR")
      /\ b[3] = Clock /\ b[4] = Cmd("SELECT") /\ b[5] = Idle /\ b[6] = Cmd("APP")
      /\ b[7] = Cmd("SEND_SCR") /\ b[8] = Step("scr") /\ b[9] = Idle
    OBVIOUS
<1>4. s = c \o b
    BY DEF InitScript
<1> HIDE DEF a, b, s
<1>5. /\ c \in Seq(Steps) /\ Len(c) = Len(a) + Len(AcmdOpCond)
      /\ \A i \in 1 .. Len(a) : c[i] = a[i]
      /\ \A i \in 1 .. Len(AcmdOpCond) : c[Len(a) + i] = AcmdOpCond[i]
    BY <1>1, Joined
<1> HIDE DEF c
<1>a. c \in Seq(Steps) /\ b \in Seq(Steps)
    BY <1>1, <1>5
<1>6. /\ s \in Seq(Steps) /\ Len(s) = Len(c) + Len(b)
      /\ \A i \in 1 .. Len(c) : s[i] = c[i]
      /\ \A i \in 1 .. Len(b) : s[Len(c) + i] = b[i]
    BY <1>4, <1>a, Joined
<1>7. Len(c) = 4 /\ c[1] = a[1] /\ c[2] = a[2] /\ c[3] = AcmdOpCond[1] /\ c[4] = AcmdOpCond[2]
    BY <1>2, <1>5
<1>8. Len(s) = 13 /\ s[1] = c[1] /\ s[2] = c[2] /\ s[3] = c[3] /\ s[4] = c[4]
    BY <1>3, <1>6, <1>7
<1>9. ASSUME NEW i \in 1 .. 9 PROVE s[4 + i] = b[i]
    BY <1>3, <1>6, <1>7
<1>10. /\ s[5] = b[1] /\ s[6] = b[2] /\ s[7] = b[3] /\ s[8] = b[4] /\ s[9] = b[5]
       /\ s[10] = b[6] /\ s[11] = b[7] /\ s[12] = b[8] /\ s[13] = b[9]
  <2>1. /\ s[4 + 1] = b[1] /\ s[4 + 2] = b[2] /\ s[4 + 3] = b[3] /\ s[4 + 4] = b[4]
        /\ s[4 + 5] = b[5] /\ s[4 + 6] = b[6] /\ s[4 + 7] = b[7] /\ s[4 + 8] = b[8]
        /\ s[4 + 9] = b[9]
    BY <1>9
  <2> QED
    BY <2>1
<1> QED
    BY <1>2, <1>3, <1>6, <1>7, <1>8, <1>10 DEF s

LEMMA LastSteps ==
    LET s == LastScript IN
    /\ s \in Seq(Steps) /\ Len(s) = 4
    /\ s[1] = Idle /\ s[2] = Cmd("APP") /\ s[3] = Cmd("BUS_WIDTH") /\ s[4] = Idle
<1> DEFINE w == <<Idle>>
           s == LastScript
<1>1. w \in Seq(Steps) /\ WidthScript \in Seq(Steps)
    BY IdleScript, WidthScriptType DEF Script
<1>2. /\ Len(w) = 1 /\ w[1] = Idle /\ Len(WidthScript) = 3 /\ WidthScript[1] = Cmd("APP")
      /\ WidthScript[2] = Cmd("BUS_WIDTH") /\ WidthScript[3] = Idle
    BY DEF WidthScript
<1>3. s = w \o WidthScript
    BY DEF LastScript
<1> HIDE DEF w, s
<1>4. /\ s \in Seq(Steps) /\ Len(s) = Len(w) + Len(WidthScript)
      /\ \A i \in 1 .. Len(w) : s[i] = w[i]
      /\ \A i \in 1 .. Len(WidthScript) : s[Len(w) + i] = WidthScript[i]
    BY <1>1, <1>3, Joined
<1>5. /\ Len(s) = 4 /\ s[1] = w[1] /\ s[2] = WidthScript[1] /\ s[3] = WidthScript[2]
      /\ s[4] = WidthScript[3]
    BY <1>2, <1>4
<1> QED
    BY <1>2, <1>4, <1>5 DEF s

LEMMA InitPlaces ==
    ASSUME NEW k, InitAt(k)
    PROVE  /\ k \in 1 .. 16 /\ todo # <<>>
           /\ k < 13 => op = InitScript[k]
           /\ k > 12 => op = LastScript[k - 12]
           /\ Tail(todo) = <<>> <=> k = 16
           /\ k < 12 => todo[2] = InitScript[k + 1]
           /\ k \in 13 .. 15 => todo[2] = LastScript[k - 11]
           /\ k \notin {12, 16} /\ todo' = Tail(todo) => InitAt(k + 1)'
<1>1. CASE k \in 1 .. 12 /\ todo = Suffix(InitScript, k)
  <2>1. InitScript \in Seq(Steps) /\ k \in 1 .. Len(InitScript)
    BY <1>1, InitSteps
  <2>2. op = InitScript[k] /\ Tail(todo) = Suffix(InitScript, k + 1) /\ todo # <<>>
    BY <1>1, <2>1, Suffixes DEF op
  <2>3. Tail(todo) = <<>> <=> k = Len(InitScript)
    BY <1>1, <2>1, Suffixes
  <2>4. k < Len(InitScript) => todo[2] = InitScript[k + 1]
    BY <1>1, <2>1, Suffixes
  <2>5. k # 12 /\ todo' = Tail(todo) => InitPlace(todo', k + 1)
    BY <1>1, <2>2 DEF InitPlace
  <2>6. Len(InitScript) = 13
    BY InitSteps
  <2>7. (Tail(todo) = <<>> <=> k = 13) /\ (k < 13 => todo[2] = InitScript[k + 1])
    BY <2>3, <2>4, <2>6
  <2>8. k # 12 /\ todo' = Tail(todo) => InitAt(k + 1)'
    BY <2>5 DEF InitAt
  <2>9. /\ k \in 1 .. 16 /\ k < 13 /\ ~ (k > 12) /\ k # 13 /\ k # 16 /\ k \notin 13 .. 15
        /\ k < 12 => k < 13
        /\ k \notin {12, 16} => k # 12
    BY <1>1
  <2> QED
    BY <2>2, <2>7, <2>8, <2>9
<1>2. CASE k \in 13 .. 16 /\ todo = Suffix(LastScript, k - 12)
  <2>1. LastScript \in Seq(Steps) /\ k - 12 \in 1 .. Len(LastScript)
    BY <1>2, LastSteps
  <2>2. /\ op = LastScript[k - 12] /\ Tail(todo) = Suffix(LastScript, k - 12 + 1)
        /\ todo # <<>>
    BY <1>2, <2>1, Suffixes DEF op
  <2>3. Tail(todo) = <<>> <=> k - 12 = Len(LastScript)
    BY <1>2, <2>1, Suffixes
  <2>4. k - 12 < Len(LastScript) => todo[2] = LastScript[k - 12 + 1]
    BY <1>2, <2>1, Suffixes
  <2>5. k - 12 + 1 = k + 1 - 12 /\ k - 12 + 1 = k - 11
    BY <1>2
  <2>6. k # 16 /\ todo' = Tail(todo) => InitPlace(todo', k + 1)
    BY <1>2, <2>2, <2>5 DEF InitPlace
  <2>7. Len(LastScript) = 4
    BY LastSteps
  <2> QED
    BY <1>2, <2>2, <2>3, <2>4, <2>5, <2>6, <2>7 DEF InitAt
<1> QED
    BY <1>1, <1>2 DEF InitAt, InitPlace

LEMMA InitStarts == InitPlace(InitScript, 1)
<1>1. Suffix(InitScript, 1) = InitScript
  <2>1. InitScript \in Seq(Steps) /\ 1 \in 1 .. Len(InitScript)
    BY InitSteps
  <2> QED
    BY <2>1, Suffixes
<1> QED
    BY <1>1 DEF InitPlace

LEMMA LastSuffix ==
    ASSUME NEW s \in Seq(Steps), s # <<>>
    PROVE  Suffix(s, Len(s)) = <<s[Len(s)]>>
<1>1. Len(s) \in Nat \ {0} /\ s[Len(s)] \in Steps
    BY EmptySeq, ElementOfSeq
<1>2. SubSeq(s, Len(s), Len(s)) = <<s[Len(s)]>> \o SubSeq(s, Len(s) + 1, Len(s))
    BY <1>1, SubSeqRecursiveFirst
<1>3. SubSeq(s, Len(s) + 1, Len(s)) = <<>>
    BY <1>1, SubSeqEmpty
<1>4. <<s[Len(s)]>> \in Seq(Steps)
    BY <1>1
<1> QED
    BY <1>2, <1>3, <1>4, ConcatEmptySeq DEF Suffix

(* The SCR read, what is left depends on the bus.                          *)
LEMMA WidthFollows ==
    ASSUME InitAt(12)
    PROVE  /\ InitPlace(Tail(todo) \o WidthScript, 13)
           /\ InitPlace(Tail(todo) \o <<>>, 16)
<1>1. InitScript \in Seq(Steps) /\ Len(InitScript) = 13 /\ InitScript[13] = Idle
    BY InitSteps
<1>2. Tail(todo) = Suffix(InitScript, 13)
  <2>1. todo = Suffix(InitScript, 12)
    BY DEF InitAt, InitPlace
  <2>2. InitScript \in Seq(Steps) /\ 12 \in 1 .. Len(InitScript)
    BY <1>1
  <2>3. Tail(Suffix(InitScript, 12)) = Suffix(InitScript, 12 + 1)
    BY <2>2, Suffixes
  <2> QED
    BY <2>1, <2>3
<1>3. Tail(todo) = <<Idle>>
  <2>1. InitScript # <<>>
    BY InitScriptType
  <2>2. Suffix(InitScript, Len(InitScript)) = <<InitScript[Len(InitScript)]>>
    BY <1>1, <2>1, LastSuffix
  <2> QED
    BY <1>1, <1>2, <2>2
<1>4. LastScript \in Seq(Steps) /\ Len(LastScript) = 4 /\ LastScript[4] = Idle
    BY LastSteps
<1>5. Suffix(LastScript, 1) = LastScript
  <2>1. 1 \in 1 .. Len(LastScript)
    BY <1>4
  <2> QED
    BY <1>4, <2>1, Suffixes
<1>6. Suffix(LastScript, 4) = <<Idle>>
  <2>1. LastScript # <<>>
    BY <1>4, EmptySeq
  <2>2. Suffix(LastScript, Len(LastScript)) = <<LastScript[Len(LastScript)]>>
    BY <1>4, <2>1, LastSuffix
  <2> QED
    BY <1>4, <2>2
<1>7. InitPlace(<<Idle>> \o WidthScript, 13)
    BY <1>5 DEF InitPlace, LastScript
<1>8. InitPlace(<<Idle>> \o <<>>, 16)
    BY <1>6, IdleScript, ConcatEmptySeq DEF InitPlace
<1> QED
    BY <1>3, <1>7, <1>8

LEMMA Pairs ==
    ASSUME NEW a \in Steps, NEW b \in Steps
    PROVE  <<a>> \o <<b>> = <<a, b>>
<1> DEFINE x == <<a>>
           y == <<b>>
           z == <<a, b>>
<1>1. x \in Seq(Steps) /\ y \in Seq(Steps) /\ z \in Seq(Steps)
    OBVIOUS
<1>2. /\ Len(x) = 1 /\ Len(y) = 1 /\ Len(z) = 2 /\ x[1] = a /\ y[1] = b
      /\ z[1] = a /\ z[2] = b
    OBVIOUS
<1> HIDE DEF x, y, z
<1>3. /\ x \o y \in Seq(Steps) /\ Len(x \o y) = Len(x) + Len(y)
      /\ \A i \in 1 .. Len(x) : (x \o y)[i] = x[i]
      /\ \A i \in 1 .. Len(y) : (x \o y)[Len(x) + i] = y[i]
    BY <1>1, Joined
<1>a. 1 \in 1 .. Len(x) /\ 1 \in 1 .. Len(y) /\ Len(x) + 1 = 2
    BY <1>2
<1>4. Len(x \o y) = Len(z) /\ (x \o y)[1] = z[1] /\ (x \o y)[2] = z[2]
  <2>1. Len(x \o y) = Len(z)
    BY <1>2, <1>3
  <2>2. (x \o y)[1] = z[1]
    BY <1>2, <1>3, <1>a
  <2>3. (x \o y)[2] = z[2]
    BY <1>2, <1>3, <1>a
  <2> QED
    BY <2>1, <2>2, <2>3
<1>5. \A i \in 1 .. Len(x \o y) : (x \o y)[i] = z[i]
  <2>1. Len(x \o y) = 2
    BY <1>2, <1>4
  <2> QED
    BY <1>4, <2>1
<1>6. x \o y = z
    BY <1>1, <1>3, <1>4, <1>5, SeqEqual
<1> QED
    BY <1>6 DEF x, y, z

LEMMA Regroup ==
    ASSUME NEW u \in Seq(Steps), NEW v \in Seq(Steps), NEW x \in Seq(Steps)
    PROVE  u \o (v \o x) = (u \o v) \o x
BY ConcatAssociative, SMTT(30)

(* ACMD41 sent again.                                                      *)
LEMMA AcmdAgain ==
    /\ InitAt(4) => InitPlace(AcmdOpCond \o Tail(todo), 3)
    /\ InitAt(3) => InitPlace(AcmdOpCond \o SubSeq(todo, 3, Len(todo)), 3)
<1> DEFINE s == InitScript
<1>1. s \in Seq(Steps) /\ Len(s) = 13 /\ s[3] = Cmd("APP") /\ s[4] = Cmd("OP_COND")
    BY InitSteps
<1> HIDE DEF s
<1>2. /\ Suffix(s, 3) \in Seq(Steps) /\ Suffix(s, 4) \in Seq(Steps) /\ Suffix(s, 5) \in Seq(Steps)
      /\ Len(Suffix(s, 3)) = 11
  <2>1. \A i \in 1 .. 13 : s[i] \in Steps
    BY <1>1, ElementOfSeq
  <2>2. (\A i \in 3 .. 13 : s[i] \in Steps) /\ (\A i \in 4 .. 13 : s[i] \in Steps)
    BY <2>1
  <2>3. \A i \in 5 .. 13 : s[i] \in Steps
    BY <2>1
  <2>4. SubSeq(s, 3, 13) \in Seq(Steps) /\ Len(SubSeq(s, 3, 13)) = 13 - 3 + 1
    BY <2>2, SubSeqProperties
  <2>5. SubSeq(s, 4, 13) \in Seq(Steps)
    BY <2>2, SubSeqProperties
  <2>6. SubSeq(s, 5, 13) \in Seq(Steps)
    BY <2>3, SubSeqProperties
  <2> QED
    BY <1>1, <2>4, <2>5, <2>6 DEF Suffix
<1>3. AcmdOpCond \o Suffix(s, 5) = Suffix(s, 3)
  <2>1. 3 \in 1 .. Len(s) /\ Len(s) \in 3 .. Len(s) /\ 4 \in 1 .. Len(s) /\ Len(s) \in 4 .. Len(s)
    BY <1>1
  <2>2. Suffix(s, 3) = <<s[3]>> \o Suffix(s, 4)
    BY <1>1, <2>1, SubSeqRecursiveFirst, 3 + 1 = 4 DEF Suffix
  <2>3. Suffix(s, 4) = <<s[4]>> \o Suffix(s, 5)
    BY <1>1, <2>1, SubSeqRecursiveFirst, 4 + 1 = 5 DEF Suffix
  <2>4. s[3] \in Steps /\ s[4] \in Steps
    BY <1>1, CmdIsStep DEF CmdCodes
  <2> DEFINE u == <<s[3]>>
             v == <<s[4]>>
             x == Suffix(s, 5)
  <2>5. u \in Seq(Steps) /\ v \in Seq(Steps) /\ x \in Seq(Steps)
    BY <1>2, <2>4
  <2>6. Suffix(s, 3) = (<<s[3]>> \o <<s[4]>>) \o Suffix(s, 5)
    <3>1. Suffix(s, 3) = u \o (v \o x)
      BY <2>2, <2>3
    <3> HIDE DEF u, v, x
    <3>2. u \o (v \o x) = (u \o v) \o x
      BY <2>5, Regroup
    <3>3. Suffix(s, 3) = (u \o v) \o x
      BY <3>1, <3>2
    <3> QED
      BY <3>3 DEF u, v, x
  <2>7. <<s[3]>> \o <<s[4]>> = AcmdOpCond
    BY <1>1, <2>4, Pairs DEF AcmdOpCond
  <2> QED
    BY <2>6, <2>7
<1>4. Tail(Suffix(s, 4)) = Suffix(s, 5)
  <2>1. s \in Seq(Steps) /\ 4 \in 1 .. Len(s)
    BY <1>1
  <2>2. Tail(Suffix(s, 4)) = Suffix(s, 4 + 1)
    BY <2>1, Suffixes
  <2> QED
    BY <2>2
<1>5. SubSeq(Suffix(s, 3), 3, 11) = Suffix(s, 5)
  <2>1. SubSeq(SubSeq(s, 3, 13), 3, 11) = SubSeq(s, 3 + 3 - 1, 3 + 11 - 1)
    BY <1>1, SubSeqOfSubSeq
  <2> QED
    BY <1>1, <2>1 DEF Suffix
<1>6. InitPlace(Suffix(s, 3), 3)
    BY DEF InitPlace, s
<1>7. /\ InitAt(4) => todo = Suffix(s, 4)
      /\ InitAt(3) => todo = Suffix(s, 3)
    BY DEF InitAt, InitPlace, s
<1> QED
    BY <1>2, <1>3, <1>4, <1>5, <1>6, <1>7

----------------------------------------------------------------------------
(* Flow, action by action.                                                 *)

Calm == UNCHANGED <<card, mode, dat, fifo, stream>>

LEMMA FlowKept ==
    ASSUME Flow, Calm,
           ret' = "read" => pc' = "out",
           pc' = "reset" => num' = 0,
           num' = 0 /\ pc' # "out" => ~ init',
           pc' = "check" /\ cnt' = 0 /\ issued' => "done" \in ints' \/ Error'
    PROVE  Flow'
BY DEF Flow, Calm, Empty

LEMMA FlowReturns ==
    ASSUME Flow, Calm, NEW r, Return(r)
    PROVE  Flow'
BY FlowKept DEF Return

LEMMA FlowPolls ==
    ASSUME Flow, Calm, NEW s, Poll(s), pc # "out", num' = num, init' = init
    PROVE  Flow'
<1>1. ret # "read" /\ (num = 0 => ~ init)
    BY DEF Flow
<1> QED
    BY <1>1, FlowKept DEF Poll

LEMMA FlowProceeds ==
    ASSUME Flow, Calm, NEW s, Proceed(s), pc # "out", num' = num
    PROVE  Flow'
BY FlowReturns, FlowPolls DEF Proceed

LEMMA FlowCalls ==
    ASSUME Inv, Flow, SdInit \/ \E l \in Lbas, n \in Nums : ReadBlock(l, n)
    PROVE  Flow'
<1>1. Calm
    BY DEF SdInit, ReadBlock, Calm, controller
<1>2. CASE SdInit
    BY <1>1, <1>2, FlowKept DEF SdInit, found, controller
<1>3. CASE \E l \in Lbas, n \in Nums : ReadBlock(l, n)
    BY <1>1, <1>3, FlowKept, SdAssumption DEF ReadBlock
<1> QED
    BY <1>2, <1>3

LEMMA FlowResets ==
    ASSUME Inv, Flow, Reset \/ ResetFails
    PROVE  Flow'
<1>1. /\ card' = card /\ mode' = mode /\ (~ dat => Empty) /\ num' = num /\ num = 0
      /\ init' = init /\ ~ init
    BY DEF Reset, ResetFails, ResetController, Fail, call, found, controller, Flow
<1>2. ~ dat' => Empty'
    BY <1>1 DEF Reset, ResetFails, ResetController, controller, Empty
<1>3. CASE Reset
    BY <1>1, <1>2, <1>3 DEF Reset, Poll, Flow
<1>4. CASE ResetFails
    BY <1>1, <1>2, <1>4 DEF ResetFails, Fail, Return, Flow
<1> QED
    BY <1>3, <1>4

LEMMA FlowPollStep ==
    ASSUME Inv, Flow, PollStep
    PROVE  Flow'
<1>1. Calm /\ issued' = issued /\ num' = num /\ init' = init /\ ints' = ints /\ ret' = ret
    BY DEF PollStep, Calm, controller, found, call
<1>2. pc = "poll" /\ pc' \in {"poll", "check"}
    BY DEF PollStep
<1>3. ASSUME pc' = "check", cnt' = 0, issued PROVE "done" \in ints \/ Error
  <2>1. op.op = "cmd" /\ op # Idle
    BY <1>3, Kinds DEF Inv, SdTypeOK
  <2>2. Here => "done" \in ints
    BY <1>3, <2>1, Kinds DEF Here, ByStatus, Wanted
  <2>3. CASE ~ Waiting
    BY <2>2, <2>3 DEF Waiting, Error
  <2>4. CASE Waiting /\ cnt = 0 /\ cnt' = CountDown
    <3>1. (0 - 1) % WordSpace # 0
      BY SdAssumption, SMT
    <3> QED
      BY <1>3, <2>4, <3>1 DEF CountDown
  <2> QED
    BY <1>3, <2>3, <2>4 DEF PollStep
<1> QED
    BY <1>1, <1>2, <1>3, FlowKept DEF Flow, Error

LEMMA FlowDriver ==
    ASSUME Inv, Flow, StatusFails \/ DataIdle \/ Issue \/ IntFails \/ Answered \/ Announced
                      \/ TakeSector \/ TakeScr \/ ScrFails \/ SetClock
    PROVE  Flow'
<1>1. pc \in {"poll", "check", "take"}
    BY DEF StatusFails, DataIdle, Issue, IntFails, Answered, Announced, TakeSector, TakeScr,
        ScrFails, SetClock, Passed
<1>2. CASE StatusFails
  <2>1. Calm
    BY <1>2 DEF StatusFails, controller, Calm
  <2> QED
    BY <1>1, <1>2, <2>1, FlowReturns, FlowPolls DEF StatusFails, Retry, Fail, found, call
<1>3. CASE DataIdle \/ SetClock
  <2>1. Calm
    BY <1>3 DEF DataIdle, SetClock, controller, Calm
  <2> QED
    BY <1>1, <1>3, <2>1, FlowReturns, FlowProceeds
       DEF DataIdle, SetClock, GoOn, Fail, call
<1>4. CASE Issue
  <2>1. Calm
    BY <1>4 DEF Issue, Calm
  <2>2. CASE GoOn
    BY <1>1, <2>1, <2>2, FlowProceeds DEF GoOn, call
  <2>3. CASE pc' = "poll" /\ UNCHANGED <<found, call, ret>>
    BY <1>1, <2>1, <2>3, FlowKept DEF found, call, Flow
  <2> QED
    BY <1>4, <2>2, <2>3 DEF Issue
<1>5. CASE IntFails \/ ScrFails
  <2>1. Calm
    BY <1>5 DEF IntFails, ScrFails, controller, Calm
  <2> QED
    BY <1>5, <2>1, FlowReturns DEF IntFails, ScrFails, Fail
<1>6. CASE Answered
  <2>1. Calm /\ num' = num
    BY <1>6 DEF Answered, Calm, call
  <2> QED
    BY <1>1, <1>6, <2>1, FlowReturns, FlowPolls, FlowProceeds DEF Answered
<1>7. CASE Announced
  <2>1. Calm /\ num' = num /\ init' = init /\ pc' = "take" /\ ret' = ret
    BY <1>7 DEF Announced, Calm, call, found
  <2> QED
    BY <1>1, <2>1, FlowKept DEF Flow
<1>8. CASE TakeSector \/ TakeScr
  <2>1. /\ num' = num /\ (init' = init \/ Proceed(Tail(todo)))
        /\ UNCHANGED <<card, mode, dat, stream>> /\ fifo' = Nothing
    BY <1>8 DEF TakeSector, TakeScr, call
  <2>2. CASE TakeSector
    <3>1. \/ pc' = "out"
          \/ pc' = "poll" /\ init' = init /\ ret' = ret /\ ~ issued'
      BY <2>2 DEF TakeSector, Proceed, Poll, Return
    <3> QED
      BY <1>1, <2>1, <3>1 DEF Flow, Empty
  <2>3. CASE TakeScr
    BY <1>1, <2>1, <2>3 DEF TakeScr, Poll, Flow, Empty
  <2> QED
    BY <1>8, <2>2, <2>3
<1> QED
    BY <1>2, <1>3, <1>4, <1>5, <1>6, <1>7, <1>8

(* The card's state stays one of its states.                               *)
LEMMA Obeying ==
    ASSUME Flow, NEW a, Obeys(a)
    PROVE  mode' \in [st : States, app : BOOLEAN, set : BOOLEAN]
<1>1. To(cmd.code) \in States /\ mode.st \in States
    BY DEF To, States, Flow
<1> QED
    BY <1>1 DEF Obeys

LEMMA FlowController ==
    ASSUME Inv, Flow, Controller
    PROVE  Flow'
<1>1. UNCHANGED <<pc, todo, issued, cnt, init, num, ret, card>> /\ ints \subseteq ints'
    BY DEF Controller, found, call, Responds, NoAnswer, SectorArrives, TransferEnds, DataError,
        CardStops
<1>2. mode' \in [st : States, app : BOOLEAN, set : BOOLEAN]
  <2>1. CASE \E a \in {"good", "bad", "busy"} : Obeys(a)
    BY <2>1, Obeying
  <2>2. CASE mode' = mode
    BY <2>2 DEF Flow
  <2>3. CASE mode' = [mode EXCEPT !.st = IF @ = "data" THEN "tran" ELSE @]
    BY <2>3 DEF Flow, States
  <2>4. CASE mode' = [mode EXCEPT !.st = "tran"]
    BY <2>4 DEF Flow, States
  <2> QED
    BY <2>1, <2>2, <2>3, <2>4 DEF Controller, Responds, Reply, NoAnswer, SectorArrives,
       TransferEnds, DataError, CardStops
<1>3. ~ dat' => Empty'
    BY DEF Controller, Responds, NoAnswer, SectorArrives, TransferEnds, DataError, CardStops,
        Flow, Empty
<1> QED
    BY <1>1, <1>2, <1>3 DEF Flow, Error

LEMMA FlowStep ==
    ASSUME Inv, Flow, [Next]_vars
    PROVE  Flow'
<1>1. CASE UNCHANGED vars
    BY <1>1 DEF vars, found, call, controller, Flow, Empty, Error
<1> QED
    BY <1>1, FlowCalls, FlowResets, FlowPollStep, FlowDriver, FlowController DEF Next, Driver

----------------------------------------------------------------------------
(* What holds of every step of a script.                                   *)

(* An error ends the script: until then it stays pending.                  *)
LEMMA ErrorStays ==
    ASSUME Inv, [Next]_vars, todo # <<>>, todo' # <<>>, Error
    PROVE  Error'
<1>1. pc \notin {"out", "reset"}
    BY DEF Inv, SdTypeOK
<1>2. ~ Passed
    BY DEF Passed, Refused, Error
<1>3. ~ (SdInit \/ (\E l \in Lbas, n \in Nums : ReadBlock(l, n)) \/ Reset \/ ResetFails)
    BY <1>1 DEF SdInit, ReadBlock, Reset, ResetFails
<1>4. ~ (DataIdle \/ Issue \/ Answered \/ Announced)
    BY <1>2 DEF DataIdle, Issue, Answered, Announced
<1>5. CASE IntFails
    BY <1>5 DEF IntFails, Fail, Return
<1>6. CASE PollStep \/ StatusFails \/ TakeSector \/ TakeScr \/ ScrFails \/ SetClock
    BY <1>6 DEF PollStep, StatusFails, TakeSector, TakeScr, ScrFails, SetClock, controller, Error
<1>7. CASE Controller
    BY <1>7 DEF Controller, Responds, NoAnswer, SectorArrives, TransferEnds, DataError,
       CardStops, Error
<1>8. CASE UNCHANGED vars
    BY <1>8 DEF vars, controller, Error
<1> QED
    BY <1>3, <1>4, <1>5, <1>6, <1>7, <1>8 DEF Next, Driver

(* Only a reset makes up for a poll that ran out.                          *)
LEMMA LateStays ==
    ASSUME [Next]_vars, late
    PROVE  late' \/ Reset \/ ResetFails
<1>1. CASE SdInit \/ \E l \in Lbas, n \in Nums : ReadBlock(l, n)
    BY <1>1 DEF SdInit, ReadBlock
<1>2. CASE PollStep \/ StatusFails \/ IntFails \/ TakeSector \/ TakeScr \/ ScrFails \/ SetClock
    BY <1>2 DEF PollStep, StatusFails, IntFails, TakeSector, TakeScr, ScrFails, SetClock
<1>3. CASE DataIdle \/ Issue \/ Answered \/ Announced
    BY <1>3 DEF DataIdle, Issue, Answered, Announced, Passed
<1>4. CASE Controller \/ UNCHANGED vars
    BY <1>4 DEF Controller, vars
<1> QED
    BY <1>1, <1>2, <1>3, <1>4 DEF Next, Driver

(* While a script is at work, nothing but its steps and the controller's   *)
(* happen, and the call is the same.                                       *)
Works ==
    \/ PollStep \/ StatusFails \/ DataIdle \/ Issue \/ IntFails
    \/ Answered \/ Announced \/ TakeSector \/ TakeScr \/ ScrFails \/ SetClock \/ Controller

LEMMA AtWork ==
    ASSUME Inv, [Next]_vars, todo # <<>>
    PROVE  /\ Works \/ UNCHANGED vars
           /\ num' = num /\ lba' = lba /\ card' = card
           /\ late => late'
<1>1. ~ (SdInit \/ (\E l \in Lbas, n \in Nums : ReadBlock(l, n)) \/ Reset \/ ResetFails)
    BY DEF SdInit, ReadBlock, Reset, ResetFails, Inv, SdTypeOK
<1>2. Works \/ UNCHANGED vars
    BY <1>1 DEF Next, Driver, Works
<1>3. late => late'
    BY <1>1, LateStays
<1>4. ASSUME StatusFails \/ IntFails \/ ScrFails PROVE UNCHANGED <<call, card>>
    BY <1>4 DEF StatusFails, IntFails, ScrFails, Fail, Retry
<1>5. ASSUME PollStep \/ DataIdle \/ Issue \/ SetClock PROVE UNCHANGED <<call, card>>
    BY <1>5 DEF PollStep, DataIdle, Issue, SetClock, GoOn, Fail
<1>6. ASSUME Answered \/ Announced \/ TakeSector \/ TakeScr PROVE UNCHANGED <<lba, num, card>>
    BY <1>6 DEF Answered, Announced, TakeSector, TakeScr, call
<1>7. ASSUME Controller \/ UNCHANGED vars PROVE UNCHANGED <<call, card>>
    BY <1>7 DEF Controller, vars
<1> QED
    BY <1>2, <1>3, <1>4, <1>5, <1>6, <1>7 DEF Works, call

LEMMA Proceeding ==
    ASSUME NEW s, Proceed(s)
    PROVE  todo' = s /\ ~ issued'
BY DEF Proceed, Poll, Return

(* A poll that was passed in time had what it waited for.                  *)
LEMMA InTime ==
    ASSUME Passed, ~ late'
    PROVE  Here /\ ~ late /\ ~ Error /\ cnt # 0 /\ pc = "check"
BY DEF Passed, Refused, Error

----------------------------------------------------------------------------
(* InitGoes, action by action.                                             *)

LEMMA InitOps ==
    ASSUME NEW k, InitAt(k)
    PROVE  /\ k = 1 => op = Cmd("GO_IDLE")
           /\ k = 2 => op = Cmd("IF_COND")
           /\ k \in {3, 10, 14} => op = Cmd("APP")
           /\ k = 4 => op = Cmd("OP_COND")
           /\ k = 5 => op = Cmd("ALL_SEND_CID")
           /\ k = 6 => op = Cmd("SEND_REL_ADDR")
           /\ k = 7 => op = Clock
           /\ k = 8 => op = Cmd("SELECT")
           /\ k \in {9, 13, 16} => op = Idle
           /\ k = 11 => op = Cmd("SEND_SCR")
           /\ k = 12 => op = Step("scr")
           /\ k = 15 => op = Cmd("BUS_WIDTH")
           /\ k = 3 => todo[2] = Cmd("OP_COND")
           /\ k = 10 => todo[2] = Cmd("SEND_SCR")
           /\ k = 14 => todo[2] = Cmd("BUS_WIDTH")
<1>1. k \in 1 .. 16
    BY InitPlaces
<1>2. /\ k < 13 => op = InitScript[k]
      /\ k > 12 => op = LastScript[k - 12]
      /\ k < 12 => todo[2] = InitScript[k + 1]
      /\ k \in 13 .. 15 => todo[2] = LastScript[k - 11]
    BY InitPlaces
<1>3. CASE k < 13
    BY <1>1, <1>2, <1>3, InitSteps
<1>4. CASE k > 12
  <2>1. k = 13 \/ k = 14 \/ k = 15 \/ k = 16
    BY <1>1, <1>4
  <2>2. CASE k = 13
    BY <1>2, <2>2, LastSteps
  <2>3. CASE k = 14
    BY <1>2, <2>3, LastSteps
  <2>4. CASE k = 15
    BY <1>2, <2>4, LastSteps
  <2>5. CASE k = 16
    BY <1>2, <2>5, LastSteps
  <2> QED
    BY <2>1, <2>2, <2>3, <2>4, <2>5
<1> QED
    BY <1>1, <1>3, <1>4

(* The codes alone.                                                        *)
LEMMA InitCodes ==
    ASSUME NEW k, InitAt(k)
    PROVE  /\ k \in 1 .. 16
           /\ k \in {1, 2, 3, 4, 5, 6, 8, 10, 11, 14, 15} <=> op.op = "cmd"
           /\ op.op = "cmd" =>
                op.code = CASE k = 1 -> "GO_IDLE" [] k = 2 -> "IF_COND" [] k = 4 -> "OP_COND"
                            [] k = 5 -> "ALL_SEND_CID" [] k = 6 -> "SEND_REL_ADDR"
                            [] k = 8 -> "SELECT" [] k = 11 -> "SEND_SCR"
                            [] k = 15 -> "BUS_WIDTH" [] OTHER -> "APP"
           /\ op = Idle <=> k \in {9, 13, 16}
           /\ op = Clock <=> k = 7
           /\ op = Step("scr") <=> k = 12
           /\ op # Data
<1>1. k \in 1 .. 16
    BY InitPlaces
<1>2. CASE k \in {7, 9, 12, 13, 16}
    BY <1>2, InitOps, Kinds
<1>3. CASE k \in {1, 2, 3, 4, 5, 6, 8, 10, 11, 14, 15}
  <2>1. op = Cmd(CASE k = 1 -> "GO_IDLE" [] k = 2 -> "IF_COND" [] k = 4 -> "OP_COND"
                   [] k = 5 -> "ALL_SEND_CID" [] k = 6 -> "SEND_REL_ADDR"
                   [] k = 8 -> "SELECT" [] k = 11 -> "SEND_SCR"
                   [] k = 15 -> "BUS_WIDTH" [] OTHER -> "APP")
    BY <1>3, InitOps
  <2> QED
    BY <1>3, <2>1, Commands, Kinds
<1> QED
    BY <1>1, <1>2, <1>3

LEMMA CardBits ==
    ASSUME Flow
    PROVE  /\ card.hc \in BOOLEAN /\ card.blkcnt \in BOOLEAN /\ card.wide \in BOOLEAN
           /\ (card.early = FALSE \/ card.early = card.hc)
BY SdAssumption, CcsAssumption DEF Flow

Advancing == \E j \in 1 .. 16 : InitPhase(j)

(* A step that stays where it is, and leaves what its place rests on.      *)
LEMMA InitSame ==
    ASSUME NEW k, InitPhase(k), k \in 1 .. 16,
           UNCHANGED <<todo, issued, ccs, sd_rca, sd_scr, card, cmd, dat, mode>>,
           Answer' => Answer
    PROVE  Advancing'
<1>1. InitAt(k)' /\ op' = op
    BY DEF InitPhase, InitAt, op
<1>2. InitPhase(k)'
    BY <1>1 DEF InitPhase
<1> QED
    BY <1>2 DEF Advancing

(* The next step, nothing being on the line.                               *)
LEMMA InitNext ==
    ASSUME NEW k, InitPhase(k), k \in 1 .. 15, k # 12, todo' = Tail(todo), ~ issued',
           UNCHANGED <<sd_scr, card, dat, mode>>, cmd' = NoCommand,
           k < 4 => (ccs' = FALSE \/ ccs' = card.hc), k > 3 => ccs' = card.hc,
           (k = 6 \/ sd_rca) => sd_rca',
           k < 8 => ~ dat,
           k = 8 => Answer
    PROVE  Advancing'
<1>1. InitAt(k + 1)'
    BY InitPlaces DEF InitPhase
<1>2. ~ Answer'
    BY DEF Answer
<1>3. /\ k > 5 => sd_rca'
      /\ k + 1 < 9 => ~ dat
      /\ k > 7 => mode.st = (IF dat THEN "data" ELSE "tran") /\ ~ mode.set
      /\ k > 11 => sd_scr = [hc |-> card.bit, blkcnt |-> card.blkcnt, wide |-> card.wide]
    BY DEF InitPhase
<1>4. InitPhase(k + 1)'
    BY <1>1, <1>2, <1>3 DEF InitPhase
<1> QED
    BY <1>4 DEF Advancing

LEMMA InitPolls ==
    ASSUME NEW k, InitPhase(k), k \in 1 .. 16, PollStep
    PROVE  Advancing'
<1>1. /\ UNCHANGED <<todo, issued, ccs, sd_rca, sd_scr, card, cmd, dat, mode>>
      /\ Answer' => Answer
    BY DEF PollStep, found, controller, Answer
<1> QED
    BY <1>1, InitSame

(* ACMD41 is the only command that is sent again.                          *)
LEMMA RetryPlaces ==
    ASSUME NEW k, InitAt(k), AcmdPending
    PROVE  /\ (k = 4 /\ Codes({"OP_COND"})) \/ (k = 3 /\ Codes({"APP"}))
           /\ InitPlace(AcmdOpCond \o AfterAcmd, 3)
<1>1. (k = 4 /\ Codes({"OP_COND"})) \/ (k = 3 /\ Codes({"APP"}))
  <2>1. CASE Codes({"OP_COND"})
    BY <2>1, InitCodes DEF Codes
  <2>2. CASE Codes({"APP"}) /\ todo[2].code = "OP_COND"
    <3>1. k \in {3, 10, 14}
      BY <2>2, InitCodes DEF Codes
    <3> QED
      BY <2>2, <3>1, InitOps, Commands
  <2> QED
    BY <2>1, <2>2 DEF AcmdPending
<1>2. InitPlace(AcmdOpCond \o AfterAcmd, 3)
  <2>1. CASE k = 4 /\ Codes({"OP_COND"})
    <3>1. AfterAcmd = Tail(todo)
      BY <2>1 DEF AfterAcmd, Codes
    <3> QED
      BY <2>1, <3>1, AcmdAgain
  <2>2. CASE k = 3 /\ Codes({"APP"})
    <3>1. AfterAcmd = SubSeq(todo, 3, Len(todo))
      BY <2>2 DEF AfterAcmd
    <3> QED
      BY <2>2, <3>1, AcmdAgain
  <2> QED
    BY <1>1, <2>1, <2>2
<1> QED
    BY <1>1, <1>2

LEMMA InitRetries ==
    ASSUME Inv, NEW k, InitPhase(k), StatusFails, todo' # <<>>
    PROVE  Advancing'
<1>1. InitAt(k)
    BY DEF InitPhase
<1>2. AcmdPending /\ tries > 0 /\ Poll(AcmdOpCond \o AfterAcmd) /\ UNCHANGED <<found, call>>
    BY DEF StatusFails, Retry, Fail, Return
<1>3. op.op = "cmd" /\ ~ issued
    BY <1>2, Kinds DEF StatusFails, ByStatus, AcmdPending, Codes
<1>4. k \in {3, 4} /\ InitPlace(AcmdOpCond \o AfterAcmd, 3)
    BY <1>1, <1>2, RetryPlaces
<1>6. InitAt(3)' /\ ~ issued' /\ UNCHANGED <<ccs, sd_rca, sd_scr, card, cmd, dat, mode>>
    BY <1>2, <1>4 DEF InitAt, Poll, found, StatusFails, controller
<1>7. cmd = NoCommand /\ (ccs = FALSE \/ ccs = card.hc) /\ ~ dat
    BY <1>3, <1>4 DEF InitPhase
<1>8. InitPhase(3)'
    BY <1>6, <1>7 DEF InitPhase
<1> QED
    BY <1>8 DEF Advancing

LEMMA InitIdles ==
    ASSUME Inv, NEW k, InitPhase(k), DataIdle, ~ late', todo' # <<>>
    PROVE  Advancing'
<1>1. InitAt(k) /\ op = Idle /\ k \in {9, 13, 16}
    BY InitCodes DEF InitPhase, DataIdle
<1>2. ~ issued /\ cmd = NoCommand
    BY <1>1, Kinds DEF InitPhase, Inv, SdTypeOK
<1>3. Poll(Tail(todo)) /\ UNCHANGED <<init, sd_scr, ccs, sd_rca, card, cmd, dat, mode>>
    BY DEF DataIdle, GoOn, Proceed, Return, controller
<1>4. k # 16
    BY <1>1, <1>3, InitPlaces DEF Poll
<1>5. ccs = card.hc /\ sd_rca
    BY <1>1 DEF InitPhase
<1>6. /\ k \in 1 .. 15 /\ k # 12 /\ k > 8 /\ todo' = Tail(todo) /\ ~ issued'
      /\ UNCHANGED <<sd_scr, card, dat, mode>> /\ cmd' = NoCommand /\ ccs' = card.hc /\ sd_rca'
    BY <1>1, <1>2, <1>3, <1>4, <1>5 DEF Poll
<1>7. /\ k < 4 => (ccs' = FALSE \/ ccs' = card.hc)
      /\ k > 3 => ccs' = card.hc
      /\ (k = 6 \/ sd_rca) => sd_rca'
      /\ k < 8 => ~ dat
      /\ k = 8 => Answer
    BY <1>6
<1> QED
    BY <1>6, <1>7, InitNext

LEMMA InitIssues ==
    ASSUME Inv, NEW k, InitPhase(k), Issue, ~ late', todo' # <<>>
    PROVE  Advancing'
<1>1. InitAt(k) /\ op.op = "cmd" /\ ~ issued /\ Here
    BY InTime DEF InitPhase, Issue
<1>2. cmd' = op /\ ints' = {} /\ UNCHANGED <<card, mode, dat>>
    BY DEF Issue, Pending
<1>3. CASE Codes({"GO_IDLE"}) /\ GoOn
  <2>1. k = 1 /\ op = Cmd("GO_IDLE")
    BY <1>1, <1>3, InitCodes, InitOps DEF Codes
  <2>2. Poll(Tail(todo)) /\ UNCHANGED <<init, sd_scr, ccs, sd_rca>>
    BY <1>3 DEF GoOn, Proceed, Return
  <2>3. InitAt(2)'
    BY <1>1, <2>1, <2>2, InitPlaces DEF Poll
  <2>4. InitPhase(2)'
    BY <1>2, <2>1, <2>2, <2>3 DEF InitPhase, Poll, Answer
  <2> QED
    BY <2>4 DEF Advancing
<1>4. CASE issued' = TRUE /\ UNCHANGED <<todo, found>>
  <2>1. InitAt(k)' /\ op' = op /\ k \in 1 .. 16
    BY <1>1, <1>4, InitPlaces DEF InitAt, op
  <2>2. InitPhase(k)'
    BY <1>2, <1>4, <2>1 DEF InitPhase, found, Answer
  <2> QED
    BY <2>1, <2>2 DEF Advancing
<1> QED
    BY <1>3, <1>4 DEF Issue

LEMMA InitAnswers ==
    ASSUME Inv, Flow, NEW k, InitPhase(k), Answered, ~ late', todo' # <<>>
    PROVE  Advancing'
<1>1. InitAt(k) /\ op.op = "cmd" /\ Here /\ issued /\ k \in 1 .. 16
    BY Kinds, InTime, InitPlaces DEF InitPhase, Answered, ByStatus, Inv, SdTypeOK
<1>2. Answer /\ cmd = NoCommand
    BY <1>1, Kinds DEF Here, Answered, Wanted, Inv, OwnAnswer, Answer, ByStatus
<1>3. UNCHANGED <<card, mode, cmd, dat>> /\ sd_rca' = (sd_rca \/ Codes({"SEND_REL_ADDR"}))
    BY DEF Answered
<1>4. PICK a \in Answers :
        /\ ccs' = (ccs \/ (Codes({"OP_COND"}) /\ IF a = "busy" THEN card.early ELSE card.hc))
        /\ \/ /\ ~ (Codes({"OP_COND"}) /\ a = "busy")
              /\ Proceed(Tail(todo))
           \/ /\ Codes({"OP_COND"}) /\ a = "busy"
              /\ Poll(AcmdOpCond \o Tail(todo)) /\ UNCHANGED <<init, sd_scr>>
    BY <1>1 DEF Answered, CcsOf, Return
<1>5. Codes({"OP_COND"}) <=> k = 4
    BY <1>1, InitCodes DEF Codes
<1>6. Codes({"SEND_REL_ADDR"}) <=> k = 6
    BY <1>1, InitCodes DEF Codes
<1>7. /\ card.hc \in BOOLEAN /\ (card.early = FALSE \/ card.early = card.hc)
      /\ k < 5 => (ccs = FALSE \/ ccs = card.hc)
      /\ k > 4 => ccs = card.hc
    BY CardBits DEF InitPhase
<1>8. CASE ~ (Codes({"OP_COND"}) /\ a = "busy") /\ Proceed(Tail(todo))
  <2>1. Poll(Tail(todo)) /\ UNCHANGED <<init, sd_scr>>
    BY <1>8 DEF Proceed, Return
  <2>2. k \notin {12, 16}
    BY <1>1, InitCodes
  <2>3. (k < 4 => (ccs' = FALSE \/ ccs' = card.hc)) /\ (k > 3 => ccs' = card.hc)
    <3>1. CASE k = 4
      <4>1. (ccs = FALSE \/ ccs = card.hc) /\ Codes({"OP_COND"}) /\ a # "busy"
        BY <1>5, <1>7, <1>8, <3>1
      <4>2. ccs' = (ccs \/ (TRUE /\ card.hc))
        BY <1>4, <4>1
      <4>3. ccs' = card.hc
        BY <1>7, <4>1, <4>2
      <4> QED
        BY <3>1, <4>3
    <3>2. CASE k # 4
      <4>1. (ccs = FALSE \/ ccs = card.hc)
        BY <1>1, <1>7
      <4>2. ccs' = ccs
        BY <1>4, <1>5, <1>7, <3>2, <4>1
      <4> QED
        BY <1>1, <1>7, <3>2, <4>1, <4>2
    <3> QED
      BY <3>1, <3>2
  <2>4. ((k = 6 \/ sd_rca) => sd_rca') /\ (k < 8 => ~ dat)
    <3>1. (k = 6 \/ sd_rca) => sd_rca'
      BY <1>3, <1>6
    <3>2. k < 8 => ~ dat
      BY <1>1 DEF InitPhase
    <3> QED
      BY <3>1, <3>2
  <2>5. /\ k \in 1 .. 15 /\ k # 12 /\ todo' = Tail(todo) /\ ~ issued'
        /\ UNCHANGED <<sd_scr, card, dat, mode>> /\ cmd' = NoCommand
    BY <1>1, <1>2, <1>3, <2>1, <2>2 DEF Poll
  <2> QED
    BY <1>2, <2>3, <2>4, <2>5, InitNext
<1>9. CASE /\ Codes({"OP_COND"}) /\ a = "busy"
           /\ Poll(AcmdOpCond \o Tail(todo)) /\ UNCHANGED <<init, sd_scr>>
  <2>1. k = 4 /\ InitAt(3)'
    BY <1>1, <1>5, <1>9, AcmdAgain DEF Poll, InitAt
  <2>2. ~ issued' /\ ~ dat
    BY <1>9, <2>1 DEF Poll, InitPhase
  <2>4. (ccs = FALSE \/ ccs = card.hc) /\ a = "busy"
    BY <1>7, <1>9, <2>1
  <2>5. ccs' = (ccs \/ (Codes({"OP_COND"}) /\ card.early))
    BY <1>4, <2>4
  <2>6. (ccs' = FALSE \/ ccs' = card.hc)
    BY <1>7, <1>9, <2>4, <2>5
  <2>3. InitPhase(3)'
    BY <1>2, <1>3, <1>9, <2>1, <2>2, <2>6 DEF InitPhase
  <2> QED
    BY <2>3 DEF Advancing
<1> QED
    BY <1>4, <1>8, <1>9

LEMMA InitWaits ==
    ASSUME Inv, NEW k, InitPhase(k), k \in 1 .. 16, Announced
    PROVE  Advancing'
<1>1. /\ UNCHANGED <<todo, issued, ccs, sd_rca, sd_scr, card, cmd, dat, mode>>
      /\ Answer' => Answer
    BY DEF Announced, found, Answer
<1> QED
    BY <1>1, InitSame

LEMMA InitTakes ==
    ASSUME Inv, NEW k, InitPhase(k), TakeScr
    PROVE  Advancing'
<1>1. InitAt(k) /\ k = 12
    BY InitCodes DEF InitPhase, TakeScr
<1>2. ~ issued /\ cmd = NoCommand
    BY <1>1, Kinds DEF InitPhase, TakeScr, Inv, SdTypeOK
<1>3. /\ sd_scr' = [hc |-> card.bit, blkcnt |-> card.blkcnt, wide |-> card.wide]
      /\ UNCHANGED <<ccs, sd_rca, card, mode, cmd, dat>> /\ ~ issued'
      /\ todo' = Tail(todo) \o (IF card.wide THEN WidthScript ELSE <<>>)
    BY DEF TakeScr, Poll
<1>4. PICK j \in {13, 16} : InitAt(j)'
    BY <1>1, <1>3, WidthFollows DEF InitAt
<1>5. InitPhase(j)'
    BY <1>1, <1>2, <1>3, <1>4 DEF InitPhase, Answer
<1> QED
    BY <1>5 DEF Advancing

LEMMA InitClocks ==
    ASSUME Inv, NEW k, InitPhase(k), SetClock, todo' # <<>>
    PROVE  Advancing'
<1>1. InitAt(k) /\ k = 7
    BY InitCodes DEF InitPhase, SetClock
<1>2. cmd = NoCommand /\ GoOn /\ UNCHANGED <<card, controller>>
    BY DEF SetClock, Fail, Return
<1>3. Poll(Tail(todo)) /\ UNCHANGED <<init, sd_scr, ccs, sd_rca>>
    BY <1>2 DEF GoOn, Proceed, Return
<1>4. ccs = card.hc /\ ~ dat
    BY <1>1 DEF InitPhase
<1>5. /\ k \in 1 .. 15 /\ k # 12 /\ k # 8 /\ k # 6 /\ todo' = Tail(todo) /\ ~ issued'
      /\ UNCHANGED <<sd_scr, card, dat, mode>> /\ cmd' = NoCommand /\ ccs' = card.hc
      /\ sd_rca' = sd_rca /\ ~ dat
    BY <1>1, <1>2, <1>3, <1>4 DEF Poll, controller
<1>6. /\ k < 4 => (ccs' = FALSE \/ ccs' = card.hc)
      /\ k > 3 => ccs' = card.hc
      /\ (k = 6 \/ sd_rca) => sd_rca'
      /\ k < 8 => ~ dat
      /\ k = 8 => Answer
    BY <1>1, <1>5
<1> QED
    BY <1>5, <1>6, InitNext

(* The card takes a command of the initialisation.                         *)
LEMMA InitResponds ==
    ASSUME Inv, Flow, NEW k, InitPhase(k), Responds,
           UNCHANGED <<todo, issued, found, card>>
    PROVE  Advancing'
<1>1. InitAt(k) /\ k \in 1 .. 16 /\ InitAt(k)' /\ op' = op
    BY InitPlaces DEF InitPhase, InitAt, op
<1>2. /\ cmd' = NoCommand
      /\ mode.st \in From(cmd.code)
      /\ \/ cmd.code \in {"SEND_SCR", "SINGLE", "MULTI"} /\ dat' = TRUE
         \/ cmd.code \notin {"SEND_SCR", "SINGLE", "MULTI"} /\ dat' = dat
    BY DEF Responds, Takes
<1>3. PICK a \in Reply(cmd.code) : Obeys(a)
    BY DEF Responds
<1>4. /\ mode'.st = IF a = "busy" THEN mode.st ELSE To(cmd.code)
      /\ mode'.set = (cmd.code = "BLOCKCNT")
    BY <1>3 DEF Obeys
<1>5. (issued /\ cmd = op) \/ (k = 2 /\ cmd = Cmd("GO_IDLE"))
    BY DEF InitPhase, Responds
<1>6. k # 2 => op.op = "cmd" /\ cmd.code = op.code
    BY <1>5 DEF Inv, SdTypeOK
<1>7. k = 2 => cmd.code \in {"GO_IDLE", "IF_COND"}
    BY <1>1, <1>5, InitOps, Commands
<1>8. cmd.code \notin {"SINGLE", "MULTI", "BLOCKCNT"} /\ (cmd.code = "SEND_SCR" <=> k = 11)
    BY <1>1, <1>6, <1>7, InitCodes
<1>9. ~ mode'.set /\ (k < 9 => ~ dat')
  <2>1. ~ mode'.set
    BY <1>4, <1>8
  <2>2. k < 9 => ~ dat /\ cmd.code \notin {"SEND_SCR", "SINGLE", "MULTI"}
    BY <1>1, <1>8 DEF InitPhase
  <2>3. k < 9 => ~ dat'
    BY <1>2, <2>2
  <2> QED
    BY <2>1, <2>3
<1>10. k = 8 => mode'.st = "tran"
  <2>1. k = 8 => cmd.code = "SELECT"
    BY <1>1, <1>6, InitCodes
  <2> QED
    BY <1>3, <1>4, <2>1 DEF Reply, To
<1>11. k > 8 => mode'.st = IF dat' THEN "data" ELSE "tran"
  <2>1. CASE k = 11
    <3>1. cmd.code = "SEND_SCR" /\ dat' = TRUE /\ a # "busy"
      BY <1>2, <1>3, <1>8, <2>1 DEF Reply
    <3> QED
      BY <1>4, <3>1 DEF To
  <2>2. CASE k > 8 /\ k # 11
    <3>1. cmd.code \in {"APP", "BUS_WIDTH"}
      BY <1>1, <1>6, <2>2, InitCodes
    <3>2. mode'.st = mode.st /\ dat' = dat
      BY <1>2, <1>4, <3>1 DEF To
    <3> QED
      BY <2>2, <3>2 DEF InitPhase
  <2> QED
    BY <1>1, <2>1, <2>2
<1>12. InitPhase(k)'
    BY <1>1, <1>2, <1>9, <1>10, <1>11 DEF InitPhase, found
<1> QED
    BY <1>1, <1>12 DEF Advancing

LEMMA InitController ==
    ASSUME Inv, Flow, NEW k, InitPhase(k), Controller
    PROVE  Error' \/ Advancing'
<1>1. UNCHANGED <<todo, issued, found, card>> /\ k \in 1 .. 16
    BY InitPlaces DEF Controller, InitPhase
<1>2. CASE Responds
    BY <1>1, <1>2, InitResponds
<1>3. CASE NoAnswer
  <2>1. CASE cmd.code # "GO_IDLE"
    BY <1>3, <2>1 DEF NoAnswer, Error
  <2>2. CASE cmd.code = "GO_IDLE"
    <3>1. InitAt(k) /\ InitAt(k)' /\ op' = op
      BY <1>1 DEF InitPhase, InitAt, op
    <3>2. k < 3
      <4>1. (issued /\ cmd = op) \/ k = 2
        BY <1>3 DEF InitPhase, NoAnswer
      <4>2. issued => op.op = "cmd"
        BY DEF Inv, SdTypeOK
      <4> QED
        BY <1>1, <2>2, <3>1, <4>1, <4>2, InitCodes
    <3>3. cmd' = NoCommand /\ dat' = dat
      BY <1>3 DEF NoAnswer
    <3>4. InitPhase(k)'
      BY <1>1, <3>1, <3>2, <3>3 DEF InitPhase, found
    <3> QED
      BY <1>1, <3>4 DEF Advancing
  <2> QED
    BY <2>1, <2>2
<1>4. CASE SectorArrives
    BY <1>1, <1>4, InitSame DEF SectorArrives, found, Answer
<1>5. CASE TransferEnds \/ CardStops
  <2>1. /\ InitAt(k)' /\ op' = op /\ cmd' = cmd /\ ~ dat' /\ (Answer' => Answer)
    BY <1>1, <1>5 DEF InitPhase, InitAt, op, TransferEnds, CardStops, Answer
  <2>2. mode \in [st : States, app : BOOLEAN, set : BOOLEAN]
    BY DEF Flow
  <2>3. mode'.set = mode.set /\ mode'.st = IF mode.st = "data" THEN "tran" ELSE mode.st
    BY <1>5, <2>2 DEF TransferEnds, CardStops
  <2>4. /\ k = 8 /\ Answer => mode'.st = "tran" /\ ~ mode'.set
        /\ k > 8 => mode'.st = "tran" /\ ~ mode'.set
    BY <2>3 DEF InitPhase
  <2>5. InitPhase(k)'
    BY <1>1, <2>1, <2>4 DEF InitPhase, found
  <2> QED
    BY <1>1, <2>5 DEF Advancing
<1>6. CASE DataError
    BY <1>6 DEF DataError, Error
<1> QED
    BY <1>2, <1>3, <1>4, <1>5, <1>6 DEF Controller

(* After an error the script goes on, if it does, as it would without.     *)
LEMMA InitMoves ==
    ASSUME Inv, NEW k, InitAt(k), Error, Works \/ UNCHANGED vars, todo' # <<>>
    PROVE  \E j \in 1 .. 16 : InitAt(j)'
<1>1. k \in 1 .. 16 /\ op # Data
    BY InitCodes
<1>2. ~ Passed
    BY DEF Passed, Refused, Error
<1>3. ~ (DataIdle \/ Issue \/ Answered \/ Announced \/ TakeSector \/ IntFails \/ ScrFails)
    BY <1>1, <1>2 DEF DataIdle, Issue, Answered, Announced, TakeSector, IntFails, ScrFails,
       Fail, Return
<1>4. CASE PollStep \/ Controller \/ UNCHANGED vars
  <2>1. todo' = todo
    BY <1>4 DEF PollStep, Controller, vars
  <2> QED
    BY <1>1, <2>1 DEF InitAt
<1>5. CASE StatusFails
  <2>1. AcmdPending /\ todo' = AcmdOpCond \o AfterAcmd
    BY <1>5 DEF StatusFails, Retry, Fail, Return, Poll
  <2>2. InitAt(3)'
    BY <2>1, RetryPlaces DEF InitAt
  <2> QED
    BY <2>2
<1>6. CASE TakeScr
  <2>1. k = 12
    BY <1>6, InitCodes DEF TakeScr
  <2>2. todo' = Tail(todo) \o (IF card.wide THEN WidthScript ELSE <<>>)
    BY <1>6 DEF TakeScr, Poll
  <2>3. InitAt(13)' \/ InitAt(16)'
    BY <2>1, <2>2, WidthFollows DEF InitAt
  <2> QED
    BY <2>3
<1>7. CASE SetClock
  <2>1. k = 7
    BY <1>7, InitCodes DEF SetClock
  <2>2. todo' = Tail(todo)
    BY <1>7, Proceeding DEF SetClock, GoOn, Fail, Return
  <2>3. InitAt(k + 1)' /\ k + 1 \in 1 .. 16
    BY <2>1, <2>2, InitPlaces
  <2> QED
    BY <2>3
<1> QED
    BY <1>3, <1>4, <1>5, <1>6, <1>7 DEF Works

LEMMA InitGoesStep ==
    ASSUME Inv, Flow, InitGoes, [Next]_vars
    PROVE  InitGoes'
<1> SUFFICES ASSUME num' = 0, todo' # <<>>, ~ late'
             PROVE  \E j \in 1 .. 16 : InitAt(j)' /\ (Error' \/ InitPhase(j)')
    BY DEF InitGoes
<1>a. ASSUME Advancing' PROVE \E j \in 1 .. 16 : InitAt(j)' /\ InitPhase(j)'
    BY <1>a DEF Advancing, InitPhase
<1>1. CASE todo = <<>>
  <2>1. pc \in {"out", "reset"}
    BY <1>1 DEF Inv, SdTypeOK
  <2>2. ~ SdInit /\ ~ ResetFails /\ ~ Controller /\ ~ UNCHANGED vars
    BY <1>1 DEF SdInit, ResetFails, Fail, Return, Controller, vars
  <2>3. ~ \E l \in Lbas, n \in Nums : ReadBlock(l, n)
    BY SdAssumption DEF ReadBlock
  <2>4. ~ (PollStep \/ StatusFails \/ DataIdle \/ Issue \/ IntFails \/ Answered \/ Announced
           \/ TakeSector \/ TakeScr \/ ScrFails \/ SetClock)
    BY <2>1 DEF PollStep, StatusFails, DataIdle, Issue, IntFails, Answered, Announced,
       TakeSector, TakeScr, ScrFails, SetClock, Passed
  <2>5. Reset
    BY <2>2, <2>3, <2>4 DEF Next, Driver
  <2>6. /\ InitAt(1)' /\ ~ issued' /\ ccs' = FALSE /\ cmd' = NoCommand /\ ~ dat'
    BY <2>5, InitStarts DEF Reset, ResetController, Poll, InitAt
  <2>7. InitPhase(1)'
    BY <2>6 DEF InitPhase
  <2> QED
    BY <1>a, <2>7 DEF Advancing
<1>2. CASE todo # <<>> /\ Error
  <2>1. Error' /\ num = 0 /\ ~ late /\ (Works \/ UNCHANGED vars)
    BY <1>2, ErrorStays, AtWork
  <2>2. PICK k \in 1 .. 16 : InitAt(k)
    BY <1>2, <2>1 DEF InitGoes
  <2> QED
    BY <1>2, <2>1, <2>2, InitMoves
<1>3. CASE todo # <<>> /\ ~ Error
  <2>1. (Works \/ UNCHANGED vars) /\ num = 0 /\ ~ late
    BY <1>3, AtWork
  <2>2. PICK k \in 1 .. 16 : InitPhase(k)
    BY <1>3, <2>1 DEF InitGoes
  <2>3. ~ IntFails /\ ~ ScrFails
    BY DEF IntFails, ScrFails, Fail, Return
  <2>4. ~ TakeSector
    BY <2>2, InitCodes DEF TakeSector, InitPhase
  <2>5. CASE UNCHANGED vars
    BY <1>a, <2>2, <2>5, InitSame DEF vars, found, controller, Answer
  <2>6. CASE PollStep \/ StatusFails \/ DataIdle \/ Issue
    BY <1>a, <2>2, <2>6, InitPolls, InitRetries, InitIdles, InitIssues
  <2>7. CASE Answered \/ Announced \/ TakeScr \/ SetClock
    BY <1>a, <2>2, <2>7, InitAnswers, InitWaits, InitTakes, InitClocks
  <2>8. CASE Controller
    <3>1. InitAt(k)'
      BY <2>2, <2>8 DEF Controller, InitPhase, InitAt
    <3> QED
      BY <1>a, <2>2, <2>8, <3>1, InitController
  <2> QED
    BY <2>1, <2>3, <2>4, <2>5, <2>6, <2>7, <2>8 DEF Works
<1> QED
    BY <1>1, <1>2, <1>3

----------------------------------------------------------------------------
(* ReadGoes, action by action.  What a read of an initialised card rests   *)
(* on as long as it goes:                                                  *)
Reading ==
    /\ Inv /\ Flow /\ lba \in Nat /\ num > 0 /\ Ready

LEMMA SameScript ==
    ASSUME UNCHANGED <<sd_scr, lba, num>>
    PROVE  ReadScript(lba, num)' = ReadScript(lba, num)
BY DEF ReadScript, ByBlocks, ByBytes

LEMMA ReadCaps ==
    ASSUME Reading
    PROVE  /\ num \in Nat \ {0} /\ lba \in Nat
           /\ card.hc \in BOOLEAN /\ card.blkcnt \in BOOLEAN
           /\ sd_scr.hc = card.hc /\ sd_scr.blkcnt = card.blkcnt
           /\ Extra \in {0, 1} /\ (Extra = 1 <=> Counts) /\ (Counts => ~ Stops)
           /\ ReadScript(lba, num) \in Seq(Steps)
<1>1. num \in Nat \ {0} /\ lba \in Nat /\ card.hc \in BOOLEAN /\ card.blkcnt \in BOOLEAN
    BY CardBits DEF Reading, Inv, SdTypeOK
<1>2. sd_scr.hc = card.hc /\ sd_scr.blkcnt = card.blkcnt
    BY DEF Reading, Ready, Caps
<1>3. Extra \in {0, 1} /\ (Extra = 1 <=> Counts) /\ (Counts => ~ Stops)
    BY DEF Extra, Counts, Stops
<1>4. ReadScript(lba, num) \in Seq(Steps)
    BY <1>1, ReadScriptType DEF Script
<1> QED
    BY <1>1, <1>2, <1>3, <1>4

(* Where a step leads.                                                     *)
LEMMA ReadPlaces ==
    ASSUME NEW k, At(k), ReadScript(lba, num) \in Seq(Steps)
    PROVE  /\ todo # <<>> /\ op = ReadScript(lba, num)[k]
           /\ Tail(todo) = <<>> <=> k = Len(ReadScript(lba, num))
           /\ todo' = Tail(todo) /\ todo' # <<>> /\ UNCHANGED <<sd_scr, lba, num>> => At(k + 1)'
           /\ todo' = todo /\ UNCHANGED <<sd_scr, lba, num>> => At(k)'
<1> DEFINE s == ReadScript(lba, num)
<1>1. s \in Seq(Steps) /\ k \in 1 .. Len(s) /\ todo = Suffix(s, k) /\ Len(s) \in Nat
    BY LenProperties DEF At
<1>2. At(k) <=> k \in 1 .. Len(s) /\ todo = Suffix(s, k)
    BY DEF At
<1>5. UNCHANGED <<sd_scr, lba, num>> => s' = s
    BY SameScript
<1>6. UNCHANGED <<sd_scr, lba, num>> =>
        \A j : At(j)' <=> j \in 1 .. Len(s) /\ todo' = Suffix(s, j)
    BY <1>5 DEF At
<1> HIDE DEF s
<1>3. op = s[k] /\ Tail(todo) = Suffix(s, k + 1) /\ todo # <<>>
    BY <1>1, Suffixes DEF op
<1>4. Tail(todo) = <<>> <=> k = Len(s)
    BY <1>1, Suffixes
<1>7. todo' = Tail(todo) /\ todo' # <<>> /\ UNCHANGED <<sd_scr, lba, num>> => At(k + 1)'
  <2>1. ASSUME todo' = Tail(todo), todo' # <<>>
        PROVE  k + 1 \in 1 .. Len(s) /\ todo' = Suffix(s, k + 1)
    <3>1. k # Len(s) /\ todo' = Suffix(s, k + 1)
      BY <1>3, <1>4, <2>1
    <3> QED
      BY <1>1, <3>1
  <2> QED
    BY <1>6, <2>1
<1>8. todo' = todo /\ UNCHANGED <<sd_scr, lba, num>> => At(k)'
    BY <1>1, <1>6
<1> QED
    BY <1>3, <1>4, <1>7, <1>8 DEF s

(* The steps of a read, and which of them may be the last.                 *)
LEMMA ReadOps ==
    ASSUME Reading, NEW k, At(k)
    PROVE  /\ Len(dest) \in Nat =>
              /\ k = 1 => op = Idle
              /\ CountAt(k) => op = Cmd("BLOCKCNT")
              /\ ReadAt(k) =>
                   op = IF card.hc
                          THEN Read(IF num = 1 THEN "SINGLE" ELSE "MULTI", lba, "block")
                          ELSE Read("SINGLE", Expected, "byte")
              /\ DataAt(k) => op = Data
              /\ EndAt(k) => op = Idle
              /\ StopAt(k) => op = Cmd("STOP")
           /\ \/ op \in {Idle, Data}
              \/ op.op = "cmd" /\ op.code \in {"BLOCKCNT", "SINGLE", "MULTI", "STOP"}
           /\ Tail(todo) = <<>> => op # Data
           /\ Tail(todo) = <<>> <=>
                k = IF card.hc THEN (IF Stops THEN 4 + num ELSE 3 + Extra + num)
                               ELSE 2 * num + 2
<1> DEFINE s == ReadScript(lba, num)
<1>1. /\ num \in Nat \ {0} /\ lba \in Nat /\ card.hc \in BOOLEAN
      /\ sd_scr.hc = card.hc /\ sd_scr.blkcnt = card.blkcnt
      /\ Extra \in {0, 1} /\ (Extra = 1 <=> Counts) /\ (Counts => ~ Stops)
      /\ s \in Seq(Steps)
    BY ReadCaps
<1>2. k \in 1 .. Len(s) /\ op = s[k] /\ (Tail(todo) = <<>> <=> k = Len(s))
    BY <1>1, ReadPlaces DEF At
<1>3. CASE card.hc
  <2> DEFINE c == Extra
             t == IF Stops THEN 1 ELSE 0
  <2>1. /\ c = IF num > 1 /\ sd_scr.blkcnt THEN 1 ELSE 0
        /\ t = IF num > 1 /\ ~ sd_scr.blkcnt THEN 1 ELSE 0
    BY <1>1 DEF Extra, Counts, Stops
  <2>2. /\ Len(s) = 3 + c + num + t
        /\ s[1] = Idle
        /\ c = 1 => s[2] = Cmd("BLOCKCNT")
        /\ s[2 + c] = Read(IF num = 1 THEN "SINGLE" ELSE "MULTI", lba, "block")
        /\ \A j \in 1 .. num : s[2 + c + j] = Data
        /\ s[3 + c + num] = Idle
        /\ t = 1 => s[4 + c + num] = Cmd("STOP")
    <3> DEFINE d == IF num > 1 /\ sd_scr.blkcnt THEN 1 ELSE 0
               e == IF num > 1 /\ ~ sd_scr.blkcnt THEN 1 ELSE 0
    <3>1. c = d /\ t = e
      BY <2>1
    <3>2. /\ Len(s) = 3 + d + num + e
          /\ s[1] = Idle
          /\ d = 1 => s[2] = Cmd("BLOCKCNT")
          /\ s[2 + d] = Read(IF num = 1 THEN "SINGLE" ELSE "MULTI", lba, "block")
          /\ \A j \in 1 .. num : s[2 + d + j] = Data
          /\ s[3 + d + num] = Idle
          /\ e = 1 => s[4 + d + num] = Cmd("STOP")
      BY <1>1, <1>3, BlockScript
    <3> HIDE DEF c, t, d, e, s
    <3> QED
      BY <3>1, <3>2
  <2>3. /\ c \in {0, 1} /\ t \in {0, 1} /\ (c = 1 <=> Counts) /\ (t = 1 <=> Stops)
        /\ c = 1 => t = 0
    BY <1>1
  <2> HIDE DEF s, c, t
  <2>b. Len(s) = 3 + c + num + t
    BY <2>2
  <2>4. k = 1 => op = Idle
    BY <1>2, <2>2
  <2>5. CountAt(k) => op = Cmd("BLOCKCNT")
    BY <1>2, <2>2, <2>3 DEF CountAt
  <2>6. ReadAt(k) => k = 2 + c /\ op = Read(IF num = 1 THEN "SINGLE" ELSE "MULTI", lba, "block")
    BY <1>2, <1>3, <2>2 DEF ReadAt, c
  <2>7. ASSUME NEW j \in 1 .. num, k = 2 + c + j PROVE op = Data
    BY <1>2, <2>2, <2>7
  <2>8. Len(dest) \in Nat /\ DataAt(k) => op = Data
    <3>1. ASSUME Len(dest) \in Nat, DataAt(k)
          PROVE  Len(dest) + 1 \in 1 .. num /\ k = 2 + c + (Len(dest) + 1)
      BY <1>1, <1>3, <2>3, <3>1 DEF DataAt, c
    <3> QED
      BY <2>7, <3>1
  <2>9. EndAt(k) => op = Idle
    BY <1>2, <1>3, <2>2 DEF EndAt, c
  <2>10. StopAt(k) => op = Cmd("STOP")
    BY <1>1, <1>2, <2>2, <2>3 DEF StopAt
  <2>11. Len(s) = IF Stops THEN 4 + num ELSE 3 + c + num
    BY <1>1, <2>2, <2>3
  <2>12. \/ k = 1
         \/ c = 1 /\ k = 2
         \/ k = 2 + c
         \/ k - 2 - c \in 1 .. num /\ k = 2 + c + (k - 2 - c)
         \/ k = 3 + c + num
         \/ t = 1 /\ k = 4 + c + num
    BY <1>1, <1>2, <2>3, <2>b
  <2>13. \/ op \in {Idle, Data}
         \/ op \in {Cmd("BLOCKCNT"), Cmd("STOP"), Read("SINGLE", lba, "block"),
                    Read("MULTI", lba, "block")}
    BY <1>2, <2>2, <2>7, <2>12
  <2>14. \/ op \in {Idle, Data}
         \/ op.op = "cmd" /\ op.code \in {"BLOCKCNT", "SINGLE", "MULTI", "STOP"}
    BY <2>13, Commands, Reads
  <2>15. k = Len(s) => op # Data
    <3>1. CASE t = 1
      <4>1. Len(s) = 4 + c + num
        BY <1>1, <2>3, <2>b, <3>1
      <4> QED
        BY <1>2, <2>2, <3>1, <4>1, Kinds, Commands
    <3>2. CASE t = 0
      <4>1. Len(s) = 3 + c + num
        BY <1>1, <2>3, <2>b, <3>2
      <4> QED
        BY <1>2, <2>2, <4>1, Kinds
    <3> QED
      BY <2>3, <3>1, <3>2
  <2> QED
    BY <1>2, <1>3, <2>4, <2>5, <2>6, <2>8, <2>9, <2>10, <2>11, <2>14, <2>15 DEF c
<1>4. CASE ~ card.hc
  <2>2. /\ Len(s) = 2 * num + 2
        /\ s[1] = Idle /\ s[2 * num + 2] = Idle
        /\ \A j \in 0 .. (num - 1) : /\ s[2 * j + 2] = Read("SINGLE", lba + j, "byte")
                                     /\ s[2 * j + 3] = Data
    BY <1>1, <1>4, ByteScript
  <2> HIDE DEF s
  <2>3. k = 1 => op = Idle
    BY <1>2, <2>2
  <2>4. ~ CountAt(k) /\ ~ StopAt(k)
    BY <1>4 DEF CountAt, StopAt
  <2>5. ASSUME Len(dest) \in Nat, Len(dest) < num
        PROVE  /\ ReadAt(k) => op = Read("SINGLE", Expected, "byte")
               /\ DataAt(k) => op = Data
    <3>1. Len(dest) \in 0 .. (num - 1)
      BY <1>1, <2>5
    <3>2. /\ s[2 * Len(dest) + 2] = Read("SINGLE", lba + Len(dest), "byte")
          /\ s[2 * Len(dest) + 3] = Data
      BY <2>2, <3>1
    <3> QED
      BY <1>2, <1>4, <3>2 DEF ReadAt, DataAt, Expected
  <2>6. (ReadAt(k) => Len(dest) < num) /\ (DataAt(k) => Len(dest) < num)
    BY <1>4 DEF ReadAt, DataAt
  <2>7. EndAt(k) => op = Idle
    BY <1>2, <1>4, <2>2 DEF EndAt
  <2>8. \/ k = 1 \/ k = 2 * num + 2
        \/ \E j \in 0 .. (num - 1) : k = 2 * j + 2 \/ k = 2 * j + 3
    <3>1. k \in 1 .. 2 * num + 2
      BY <1>2, <2>2
    <3>2. CASE k % 2 = 0 /\ k # 2 * num + 2
      <4>1. (k \div 2) - 1 \in 0 .. (num - 1) /\ k = 2 * ((k \div 2) - 1) + 2
        BY <1>1, <3>1, <3>2, SMT
      <4> QED
        BY <4>1
    <3>3. CASE k % 2 = 1 /\ k # 1
      <4>1. (k \div 2) - 1 \in 0 .. (num - 1) /\ k = 2 * ((k \div 2) - 1) + 3
        BY <1>1, <3>1, <3>3, SMT
      <4> QED
        BY <4>1
    <3>4. k % 2 \in {0, 1}
      BY <1>1, <3>1, SMT
    <3> QED
      BY <3>2, <3>3, <3>4
  <2>9. op \in {Idle, Data} \/ \E j \in 0 .. (num - 1) : op = Read("SINGLE", lba + j, "byte")
    BY <1>2, <2>2, <2>8
  <2>10. \/ op \in {Idle, Data}
         \/ op.op = "cmd" /\ op.code \in {"BLOCKCNT", "SINGLE", "MULTI", "STOP"}
    BY <2>9, Reads
  <2>11. k = Len(s) => op # Data
    BY <1>2, <2>2, Kinds
  <2> QED
    BY <1>2, <1>4, <2>3, <2>4, <2>5, <2>6, <2>2, <2>7, <2>10, <2>11
<1> QED
    BY <1>1, <1>3, <1>4

Fetching == \E k \in Nat : At(k) /\ (Error \/ ReadPhase(k))

(* What a read leaves alone.                                               *)
LEMMA ReadKeeps ==
    ASSUME Reading, init, NEW k, At(k), [Next]_vars
    PROVE  /\ Works \/ UNCHANGED vars
           /\ UNCHANGED <<sd_scr, init, card, lba, num>>
           /\ ~ TakeScr /\ ~ ScrFails /\ ~ SetClock
           /\ StatusFails \/ IntFails => Return("fail")
           /\ DataIdle \/ Issue => ~ Codes({"GO_IDLE"})
<1>1. /\ \/ op \in {Idle, Data}
         \/ op.op = "cmd" /\ op.code \in {"BLOCKCNT", "SINGLE", "MULTI", "STOP"}
      /\ todo # <<>> /\ num # 0
    BY ReadOps, ReadPlaces, ReadCaps
<1>2. (Works \/ UNCHANGED vars) /\ UNCHANGED <<card, lba, num>>
    BY <1>1, AtWork DEF Reading
<1>3. op # Clock /\ op # Step("scr") /\ ~ Codes({"GO_IDLE", "OP_COND", "APP"})
    BY <1>1, Kinds DEF Codes
<1>4. ~ TakeScr /\ ~ ScrFails /\ ~ SetClock /\ ~ Codes({"GO_IDLE"}) /\ ~ AcmdPending
    BY <1>3 DEF TakeScr, ScrFails, SetClock, Codes, AcmdPending
<1>5. ASSUME NEW s, Proceed(s) PROVE UNCHANGED <<init, sd_scr>>
    BY <1>1, <1>5 DEF Proceed, Inits
<1>6. StatusFails \/ IntFails => Fail
    BY <1>4 DEF StatusFails, IntFails
<1>7. ASSUME Works PROVE UNCHANGED <<init, sd_scr>>
  <2>1. CASE StatusFails \/ IntFails
    BY <1>6, <2>1 DEF Fail, found
  <2>2. CASE PollStep \/ Announced \/ Controller
    BY <2>2 DEF PollStep, Announced, Controller, found
  <2>3. CASE DataIdle
    BY <1>5, <2>3 DEF DataIdle, GoOn
  <2>4. CASE Issue
    BY <1>4, <2>4 DEF Issue, found
  <2>5. CASE Answered
    BY <1>5, <2>5 DEF Answered
  <2>6. CASE TakeSector
    BY <1>5, <2>6 DEF TakeSector
  <2> QED
    BY <1>4, <1>7, <2>1, <2>2, <2>3, <2>4, <2>5, <2>6 DEF Works
<1>8. UNCHANGED vars => UNCHANGED <<init, sd_scr>>
    BY DEF vars, found
<1> QED
    BY <1>2, <1>4, <1>6, <1>7, <1>8 DEF Fail

LEMMA SamePlaces ==
    ASSUME UNCHANGED <<card, lba, num, dest>>, NEW k
    PROVE  /\ CountAt(k)' = CountAt(k) /\ ReadAt(k)' = ReadAt(k) /\ DataAt(k)' = DataAt(k)
           /\ EndAt(k)' = EndAt(k) /\ StopAt(k)' = StopAt(k)
           /\ Good' = Good /\ Expected' = Expected /\ Sectors' = Sectors
           /\ Sending' = Sending /\ Counts' = Counts /\ Stops' = Stops /\ Extra' = Extra
BY DEF CountAt, ReadAt, DataAt, EndAt, StopAt, Good, Expected, Sectors, Sending, Counts,
       Stops, Extra

LEMMA SameComing ==
    ASSUME UNCHANGED <<card, lba, num, dest, mode, dat, fifo, stream>>,
           Coming, "ready" \in ints' => "ready" \in ints
    PROVE  Coming'
BY SamePlaces DEF Coming

(* A step that changes nothing but the counter.                            *)
LEMMA ReadSame ==
    ASSUME Reading, NEW k \in Nat, At(k), ReadPhase(k),
           UNCHANGED <<todo, issued, sd_scr, call, card, controller>>,
           pc' = "take" => pc = "take"
    PROVE  Fetching'
<1>1. /\ UNCHANGED <<todo, issued, sd_scr, lba, num, dest, card>>
      /\ UNCHANGED <<mode, cmd, dat, ints, fifo, stream>>
    BY DEF call, controller
<1>2. At(k)'
    BY <1>1, ReadPlaces, ReadCaps
<1>3. Coming => Coming'
    BY <1>1, SameComing
<1>4. /\ CountAt(k)' = CountAt(k) /\ ReadAt(k)' = ReadAt(k) /\ DataAt(k)' = DataAt(k)
      /\ EndAt(k)' = EndAt(k) /\ StopAt(k)' = StopAt(k)
      /\ Good' = Good /\ Sending' = Sending /\ Counts' = Counts
    BY <1>1, SamePlaces
<1>5. CountWait => CountWait'
    BY <1>1 DEF CountWait, Answer
<1>6. ReadWait => ReadWait'
    BY <1>1, <1>3, <1>4 DEF ReadWait, Answer
<1>7. DataWait => DataWait'
    BY <1>1, <1>3 DEF DataWait
<1>8. EndWait => EndWait'
    BY <1>1, <1>4 DEF EndWait, Empty
<1>9. StopWait => StopWait'
    BY <1>1 DEF StopWait, Answer
<1>10. ReadPhase(k)'
    BY <1>1, <1>4, <1>5, <1>6, <1>7, <1>8, <1>9 DEF ReadPhase
<1> QED
    BY <1>2, <1>10 DEF Fetching

(* What the phase of a step says of the step.                              *)
LEMMA PhaseOps ==
    ASSUME Reading, NEW k \in Nat, At(k), ReadPhase(k)
    PROVE  /\ Len(dest) \in Nat /\ Good
           /\ op = Idle => (k = 1 /\ Len(dest) = 0) \/ (EndAt(k) /\ EndWait)
           /\ op = Data => DataAt(k) /\ DataWait
           /\ op.op = "cmd" => \/ CountAt(k) /\ CountWait /\ op = Cmd("BLOCKCNT")
                               \/ ReadAt(k) /\ ReadWait
                               \/ StopAt(k) /\ StopWait /\ op = Cmd("STOP")
           /\ op.op = "cmd" => ~ DataAt(k) /\ ~ EndAt(k) /\ k # 1
<1>1. Len(dest) \in Nat /\ Good
    BY DEF ReadPhase, Good
<1>2. /\ k = 1 => op = Idle
      /\ CountAt(k) => op = Cmd("BLOCKCNT")
      /\ ReadAt(k) =>
           op = IF card.hc THEN Read(IF num = 1 THEN "SINGLE" ELSE "MULTI", lba, "block")
                           ELSE Read("SINGLE", Expected, "byte")
      /\ DataAt(k) => op = Data
      /\ EndAt(k) => op = Idle
      /\ StopAt(k) => op = Cmd("STOP")
    BY <1>1, ReadOps
<1>3. /\ CountAt(k) => op.op = "cmd"
      /\ ReadAt(k) => op.op = "cmd"
      /\ StopAt(k) => op.op = "cmd"
      /\ Idle.op = "idle" /\ Data.op = "data"
    BY <1>2, Kinds, Commands, Reads
<1> QED
    BY <1>1, <1>2, <1>3 DEF ReadPhase

(* The next step.                                                          *)
LEMMA Goes ==
    ASSUME Reading, NEW k \in Nat, At(k), todo' = Tail(todo), todo' # <<>>,
           UNCHANGED <<sd_scr, lba, num>>, ReadPhase(k + 1)'
    PROVE  Fetching'
<1>1. At(k + 1)' /\ k + 1 \in Nat
    BY ReadPlaces, ReadCaps
<1> QED
    BY <1>1 DEF Fetching

LEMMA ReadIdles ==
    ASSUME Reading, NEW k \in Nat, At(k), ReadPhase(k), DataIdle, todo' # <<>>, ~ late',
           UNCHANGED <<sd_scr, card, lba, num>>
    PROVE  Fetching'
<1>1. /\ num \in Nat \ {0} /\ card.hc \in BOOLEAN /\ Extra \in {0, 1}
      /\ (Extra = 1 <=> Counts) /\ (Counts => ~ Stops)
    BY ReadCaps
<1>2. op = Idle /\ ~ dat
    BY Kinds, InTime DEF DataIdle, Here, ByStatus
<1>3. todo' = Tail(todo) /\ ~ issued' /\ UNCHANGED <<controller, dest>>
    BY Proceeding DEF DataIdle, GoOn, call
<1>4. /\ \A j : /\ CountAt(j)' = CountAt(j) /\ ReadAt(j)' = ReadAt(j) /\ DataAt(j)' = DataAt(j)
                /\ EndAt(j)' = EndAt(j) /\ StopAt(j)' = StopAt(j)
      /\ Good' = Good /\ Counts' = Counts
    BY <1>3, SamePlaces
<1>5. CASE k = 1 /\ Len(dest) = 0
  <2>1. CASE card.hc /\ Counts
    <3>1. CountAt(k + 1) /\ CountWait'
      BY <1>2, <1>3, <1>5, <2>1 DEF CountAt, CountWait, Answer, controller
    <3>2. ReadPhase(k + 1)'
      BY <1>4, <3>1, PhaseOps DEF ReadPhase
    <3> QED
      BY <1>3, <3>2, Goes
  <2>2. CASE ~ (card.hc /\ Counts)
    <3>1. ReadAt(k + 1)
      BY <1>1, <1>5, <2>2 DEF ReadAt
    <3>2. ReadWait'
      BY <1>2, <1>3, <1>4, <2>2 DEF ReadWait, Answer, controller
    <3>3. ReadPhase(k + 1)'
      BY <1>4, <3>1, <3>2, PhaseOps DEF ReadPhase
    <3> QED
      BY <1>3, <3>3, Goes
  <2> QED
    BY <2>1, <2>2
<1>6. CASE EndAt(k)
  <2>2. card.hc /\ Stops /\ k = 3 + num
    <3>1. Tail(todo) # <<>>
      BY <1>3
    <3>2. ASSUME ~ (card.hc /\ Stops)
          PROVE  Tail(todo) = <<>>
      <4>1. CASE card.hc
        <5>1. k = 3 + Extra + num /\ ~ Stops
          BY <1>6, <3>2, <4>1 DEF EndAt
        <5> QED
          BY <4>1, <5>1, ReadOps
      <4>2. CASE ~ card.hc
        <5>1. k = 2 * num + 2
          BY <1>6, <4>2 DEF EndAt
        <5> QED
          BY <4>2, <5>1, ReadOps
      <4> QED
        BY <4>1, <4>2
    <3> QED
      BY <1>1, <1>6, <3>1, <3>2 DEF EndAt
  <2>3. StopAt(k + 1) /\ StopWait'
    BY <1>1, <1>2, <1>3, <1>6, <2>2 DEF EndAt, StopAt, StopWait, Answer, controller
  <2>4. ReadPhase(k + 1)'
    BY <1>4, <2>3, PhaseOps DEF ReadPhase
  <2> QED
    BY <1>3, <2>4, Goes
<1> QED
    BY <1>2, <1>5, <1>6, PhaseOps

LEMMA ReadIssues ==
    ASSUME Reading, NEW k \in Nat, At(k), ReadPhase(k), Issue, ~ Codes({"GO_IDLE"}),
           UNCHANGED <<sd_scr, card, lba, num>>
    PROVE  Fetching'
<1>1. op.op = "cmd" /\ ~ issued
    BY DEF Issue
<1>2. /\ UNCHANGED <<todo, dest, mode, dat, fifo, stream>> /\ ints' = {}
    BY DEF Issue, Pending, call
<1>3. At(k)'
    BY <1>2, ReadPlaces, ReadCaps
<1>4. /\ CountAt(k)' = CountAt(k) /\ ReadAt(k)' = ReadAt(k) /\ StopAt(k)' = StopAt(k)
      /\ Good' = Good /\ Counts' = Counts
    BY <1>2, SamePlaces
<1>5. ~ Answer /\ ~ Answer'
    BY <1>1, <1>2 DEF Answer
<1>6. /\ CountWait => CountWait'
      /\ StopWait => StopWait'
    BY <1>2, <1>5 DEF CountWait, StopWait
<1>7. ReadWait => ReadWait'
    BY <1>2, <1>4, <1>5 DEF ReadWait
<1>8. ReadPhase(k)'
    BY <1>1, <1>4, <1>6, <1>7, PhaseOps DEF ReadPhase
<1> QED
    BY <1>3, <1>8 DEF Fetching

LEMMA ReadAnswers ==
    ASSUME Reading, NEW k \in Nat, At(k), ReadPhase(k), Answered, todo' # <<>>, ~ late',
           UNCHANGED <<sd_scr, card, lba, num>>
    PROVE  Fetching'
<1>1. /\ num \in Nat \ {0} /\ card.hc \in BOOLEAN /\ Extra \in {0, 1}
      /\ (Extra = 1 <=> Counts) /\ (Counts => ~ Stops)
    BY ReadCaps
<1>2. op.op = "cmd" /\ ~ ByStatus /\ Here
    BY InTime DEF Answered
<1>3. Answer /\ cmd = NoCommand
    BY <1>2, Kinds DEF Here, Wanted, ByStatus, Reading, Inv, OwnAnswer, Answer, SdTypeOK
<1>4. op.code \notin {"OP_COND"}
  <2>1. /\ \/ op \in {Idle, Data}
           \/ op.op = "cmd" /\ op.code \in {"BLOCKCNT", "SINGLE", "MULTI", "STOP"}
    BY ReadOps
  <2> QED
    BY <1>2, <2>1, Kinds
<1>5. todo' = Tail(todo) /\ ~ issued' /\ pc' = "poll"
  <2>1. Proceed(Tail(todo))
    BY <1>4 DEF Answered, Codes, Return
  <2> QED
    BY <2>1, Proceeding DEF Proceed, Poll, Return
<1>6. UNCHANGED <<dest, mode, cmd, dat, fifo, stream>> /\ ints' = ints \ {"done"}
    BY DEF Answered, call
<1>7. /\ \A j : ReadAt(j)' = ReadAt(j) /\ DataAt(j)' = DataAt(j)
      /\ Good' = Good /\ Counts' = Counts
    BY <1>6, SamePlaces
<1>8. Good /\ Len(dest) \in Nat
    BY PhaseOps
<1>9. CASE CountAt(k) /\ CountWait
  <2>1. ReadAt(k + 1)
    BY <1>1, <1>9 DEF CountAt, ReadAt
  <2>2. ReadWait'
    BY <1>3, <1>5, <1>6, <1>7, <1>9 DEF CountAt, CountWait, ReadWait, Answer
  <2>3. ReadPhase(k + 1)'
    BY <1>7, <1>8, <2>1, <2>2 DEF ReadPhase
  <2> QED
    BY <1>5, <2>3, Goes
<1>10. CASE ReadAt(k) /\ ReadWait
  <2>1. DataAt(k + 1)
    BY <1>1, <1>8, <1>10 DEF ReadAt, DataAt
  <2>2. DataWait'
    BY <1>3, <1>5, <1>6, <1>10, SameComing DEF ReadWait, DataWait
  <2>3. ReadPhase(k + 1)'
    BY <1>7, <1>8, <2>1, <2>2 DEF ReadPhase
  <2> QED
    BY <1>5, <2>3, Goes
<1>11. CASE StopAt(k)
  <2>1. Tail(todo) = <<>>
    BY <1>11, ReadOps DEF StopAt
  <2> QED
    BY <1>5, <2>1
<1> QED
    BY <1>2, <1>9, <1>10, <1>11, PhaseOps

LEMMA ReadWaits ==
    ASSUME Reading, NEW k \in Nat, At(k), ReadPhase(k), Announced, ~ late',
           UNCHANGED <<sd_scr, card, lba, num>>
    PROVE  Fetching'
<1>1. op = Data
  <2>1. op # Idle /\ op.op # "cmd"
    BY DEF Announced, ByStatus
  <2>2. op \in {Idle, Data} \/ op.op = "cmd"
    BY ReadOps
  <2> QED
    BY <2>1, <2>2
<1>2. DataAt(k) /\ DataWait /\ Good
    BY <1>1, PhaseOps
<1>3. "ready" \in ints
    BY <1>1, Kinds, InTime DEF Announced, Here, Wanted, ByStatus
<1>4. /\ UNCHANGED <<todo, dest, cmd, mode, dat, fifo, stream>> /\ ints' = ints \ {"ready"}
    BY DEF Announced, call
<1>5. Coming' /\ fifo # Nothing
    BY <1>2, <1>3, <1>4, SameComing DEF DataWait, Coming
<1>6. DataWait'
    BY <1>2, <1>4, <1>5 DEF DataWait
<1>7. DataAt(k)' = DataAt(k) /\ Good' = Good
    BY <1>4, SamePlaces
<1>8. ReadPhase(k)' /\ At(k)'
    BY <1>2, <1>4, <1>6, <1>7, ReadPlaces, ReadCaps DEF ReadPhase
<1> QED
    BY <1>8 DEF Fetching

(* One sector more, and the right one.                                     *)
LEMMA OneMore ==
    ASSUME lba \in Nat, lba' = lba, Good, dest' = Append(dest, Expected)
    PROVE  Good' /\ Len(dest') = Len(dest) + 1
<1> DEFINE n == Len(dest)
           f == [j \in 1 .. n + 1 |-> lba + j - 1]
<1>1. n \in Nat /\ dest = [j \in 1 .. n |-> lba + j - 1]
    BY DEF Good
<1> HIDE DEF n
<1>2. dest \in [1 .. n -> Int]
    BY <1>1
<1>3. dest \in Seq(Int)
    BY <1>1, <1>2, SeqDef
<1>4. Expected \in Int /\ Len(dest) = n
    BY <1>1 DEF Expected, n
<1>5. /\ Append(dest, Expected) \in Seq(Int) /\ Len(Append(dest, Expected)) = n + 1
      /\ \A i \in 1 .. n : Append(dest, Expected)[i] = dest[i]
      /\ Append(dest, Expected)[n + 1] = Expected
    BY <1>3, <1>4, AppendProperties
<1>6. Expected = lba + n
    BY DEF Expected, n
<1>7. DOMAIN dest' = 1 .. n + 1 /\ dest' = [i \in 1 .. n + 1 |-> dest'[i]]
    BY <1>1, <1>5, LenProperties
<1>8. ASSUME NEW i \in 1 .. n + 1 PROVE dest'[i] = lba + i - 1
  <2>1. CASE i = n + 1
    BY <1>1, <1>5, <1>6, <2>1
  <2>2. CASE i # n + 1
    <3>1. i \in 1 .. n
      BY <1>1, <2>2
    <3> QED
      BY <1>1, <1>5, <3>1
  <2> QED
    BY <2>1, <2>2
<1>9. dest' = f
    BY <1>7, <1>8
<1>10. Len(dest') = n + 1 /\ n + 1 \in Nat
    BY <1>1, <1>5
<1> QED
    BY <1>9, <1>10 DEF Good, n

LEMMA ReadTakes ==
    ASSUME Reading, NEW k \in Nat, At(k), ReadPhase(k), TakeSector, todo' # <<>>,
           UNCHANGED <<sd_scr, card, lba, num>>
    PROVE  Fetching'
<1>1. /\ num \in Nat \ {0} /\ card.hc \in BOOLEAN /\ Extra \in {0, 1} /\ lba \in Nat
      /\ (Extra = 1 <=> Counts) /\ (Counts => ~ Stops)
    BY ReadCaps
<1>2. /\ pc = "take" /\ op = Data /\ dest' = Append(dest, fifo) /\ fifo' = Nothing
      /\ UNCHANGED <<mode, cmd, dat, ints, stream>>
    BY DEF TakeSector
<1>3. todo' = Tail(todo) /\ ~ issued' /\ pc' = "poll"
  <2>1. Proceed(Tail(todo))
    BY DEF TakeSector
  <2> QED
    BY <2>1, Proceeding DEF Proceed, Poll, Return
<1>4. DataAt(k) /\ DataWait /\ Good /\ Len(dest) \in Nat
    BY <1>2, PhaseOps
<1>5. /\ fifo = Expected /\ stream = [j \in 1 .. (Sectors - 1) |-> Expected + j]
      /\ "ready" \notin ints /\ cmd = NoCommand /\ dat /\ mode.st = Sending
    BY <1>2, <1>4 DEF DataWait, Coming
<1>6. Good' /\ Len(dest') = Len(dest) + 1
    BY <1>1, <1>2, <1>4, <1>5, OneMore
<1>7. Expected' = Expected + 1 /\ Expected \in Nat
    BY <1>1, <1>4, <1>6 DEF Expected
<1>8. Sending' = Sending /\ Extra' = Extra
    BY DEF Sending, Stops, Extra, Counts
<1>9. ~ Answer'
    BY <1>3 DEF Answer
<1>10. CASE card.hc
  <2>1. k = 3 + Extra + Len(dest) /\ Len(dest) < num
    BY <1>4, <1>10 DEF DataAt
  <2>2. CASE Len(dest) + 1 < num
    <3>1. DataAt(k + 1)'
      BY <1>1, <1>4, <1>6, <1>8, <1>10, <2>1, <2>2 DEF DataAt
    <3>2. Sectors' = Sectors - 1 /\ Sectors \in Nat
      BY <1>1, <1>4, <1>6, <1>10, <2>1 DEF Sectors
    <3>3. \A j \in 1 .. (Sectors - 1) : Expected' + j - 1 = Expected + j
      BY <1>7, <3>2
    <3>4. stream' = [j \in 1 .. Sectors' |-> Expected' + j - 1]
      BY <1>2, <1>5, <3>2, <3>3
    <3>5. DataWait'
      BY <1>2, <1>3, <1>5, <1>8, <3>4 DEF DataWait, Coming
    <3>6. ReadPhase(k + 1)'
      BY <1>6, <3>1, <3>5 DEF ReadPhase
    <3> QED
      BY <1>3, <3>6, Goes
  <2>3. CASE Len(dest) + 1 = num
    <3>1. EndAt(k + 1)'
      BY <1>1, <1>4, <1>6, <1>8, <1>10, <2>1, <2>3 DEF EndAt
    <3>2. Sectors - 1 = 0
      BY <1>1, <1>4, <1>10, <2>3 DEF Sectors
    <3>3. Empty'
      BY <1>2, <1>5, <3>2 DEF Empty
    <3>4. EndWait'
      BY <1>2, <1>5, <1>8, <3>3 DEF EndWait
    <3>5. ReadPhase(k + 1)'
      BY <1>6, <3>1, <3>4 DEF ReadPhase
    <3> QED
      BY <1>3, <3>5, Goes
  <2> QED
    BY <1>1, <1>4, <2>1, <2>2, <2>3
<1>11. CASE ~ card.hc
  <2>1. k = 2 * Len(dest) + 3 /\ Len(dest) < num
    BY <1>4, <1>11 DEF DataAt
  <2>2. CASE Len(dest) + 1 < num
    <3>1. ReadAt(k + 1)'
      BY <1>1, <1>4, <1>6, <1>11, <2>1, <2>2 DEF ReadAt
    <3>2. ReadWait'
      BY <1>3, <1>9, <1>11 DEF ReadWait
    <3>3. ReadPhase(k + 1)'
      BY <1>6, <3>1, <3>2 DEF ReadPhase
    <3> QED
      BY <1>3, <3>3, Goes
  <2>3. CASE Len(dest) + 1 = num
    <3>1. EndAt(k + 1)'
      BY <1>1, <1>4, <1>6, <1>11, <2>1, <2>3 DEF EndAt
    <3>2. Sectors - 1 = 0
      BY <1>11 DEF Sectors
    <3>3. Empty'
      BY <1>2, <1>5, <3>2 DEF Empty
    <3>4. EndWait'
      BY <1>2, <1>5, <1>8, <3>3 DEF EndWait
    <3>5. ReadPhase(k + 1)'
      BY <1>6, <3>1, <3>4 DEF ReadPhase
    <3> QED
      BY <1>3, <3>5, Goes
  <2> QED
    BY <1>1, <1>4, <2>1, <2>2, <2>3
<1> QED
    BY <1>10, <1>11

(* The card takes a command of the read, or one an earlier read left.      *)
LEMMA ReadResponds ==
    ASSUME Reading, NEW k \in Nat, At(k), ReadPhase(k), Responds,
           UNCHANGED <<pc, todo, issued, sd_scr, call, card>>
    PROVE  Fetching'
<1>1. /\ num \in Nat \ {0} /\ card.hc \in BOOLEAN /\ Extra \in {0, 1} /\ lba \in Nat
      /\ (Extra = 1 <=> Counts) /\ (Counts => ~ Stops)
    BY ReadCaps
<1>2. UNCHANGED <<lba, num, dest, todo, issued, card>> /\ At(k)' /\ op' = op
    BY ReadPlaces, ReadCaps DEF call, op
<1>3. /\ \A j : /\ CountAt(j)' = CountAt(j) /\ ReadAt(j)' = ReadAt(j) /\ StopAt(j)' = StopAt(j)
      /\ Good' = Good /\ Counts' = Counts /\ Sending' = Sending /\ Expected' = Expected
      /\ Sectors' = Sectors
    BY <1>2, SamePlaces
<1>4. Good /\ Len(dest) \in Nat
    BY PhaseOps
<1>5. /\ cmd # NoCommand /\ cmd' = NoCommand /\ ints' = ints \union {"done"} /\ fifo' = fifo
      /\ mode.st \in From(cmd.code)
      /\ \/ /\ cmd.code \in {"SEND_SCR", "SINGLE", "MULTI"} /\ dat' = TRUE
            /\ stream' = Sent
         \/ /\ cmd.code \notin {"SEND_SCR", "SINGLE", "MULTI"}
            /\ UNCHANGED <<dat, stream>>
    BY DEF Responds, Takes
<1>6. PICK a \in Reply(cmd.code) : Obeys(a)
    BY DEF Responds
<1>7. /\ mode'.st = IF a = "busy" THEN mode.st ELSE To(cmd.code)
      /\ mode'.set = (cmd.code = "BLOCKCNT")
    BY <1>6 DEF Obeys
<1>8. ~ Answer
    BY <1>5 DEF Answer, Reading, Inv, OwnAnswer
<1>9. /\ issued => cmd = op /\ op.op = "cmd"
      /\ card.hc => issued /\ ints = {} /\ ~ dat
      /\ ~ card.hc => cmd.code = "SINGLE" /\ (dat => mode.st = "data")
    BY <1>5 DEF Reading, Ready, Asks, Inv, SdTypeOK
<1>10. CASE k = 1 /\ Len(dest) = 0
  <2>1. ReadPhase(k)'
    BY <1>2, <1>3, <1>4, <1>10 DEF ReadPhase
  <2> QED
    BY <1>2, <2>1 DEF Fetching
<1>11. CASE CountAt(k)
  <2>1. cmd = Cmd("BLOCKCNT") /\ card.hc
    BY <1>4, <1>9, <1>11, ReadOps DEF CountAt
  <2>2. cmd.code = "BLOCKCNT"
    BY <2>1, Commands
  <2>3. mode'.set /\ dat' = dat
    BY <1>5, <1>7, <2>2
  <2>4. CountWait'
    BY <1>9, <2>1, <2>3 DEF CountWait
  <2>5. ReadPhase(k)'
    BY <1>3, <1>4, <1>11, <2>4 DEF ReadPhase
  <2> QED
    BY <1>2, <2>5 DEF Fetching
<1>12. CASE StopAt(k)
  <2>1. cmd = Cmd("STOP") /\ card.hc
    BY <1>4, <1>9, <1>12, ReadOps DEF StopAt
  <2>2. cmd.code = "STOP"
    BY <2>1, Commands
  <2>3. mode'.st = "tran" /\ dat' = dat
    BY <1>5, <1>6, <1>7, <2>2 DEF Reply, To
  <2>4. StopWait'
    BY <1>9, <2>1, <2>3 DEF StopWait
  <2>5. ReadPhase(k)'
    BY <1>3, <1>4, <1>12, <2>4 DEF ReadPhase
  <2> QED
    BY <1>2, <2>5 DEF Fetching
<1>13. CASE ReadAt(k) /\ ReadWait /\ card.hc
  <2>1. /\ cmd = Read(IF num = 1 THEN "SINGLE" ELSE "MULTI", lba, "block")
        /\ Len(dest) = 0
    BY <1>4, <1>9, <1>13, ReadOps DEF ReadAt
  <2>2. cmd.code = (IF num = 1 THEN "SINGLE" ELSE "MULTI") /\ cmd.at = lba /\ cmd.unit = "block"
    BY <2>1, Reads
  <2>3. dat' = TRUE /\ stream' = Sent /\ a = "good" /\ ~ dat
    BY <1>5, <1>6, <1>9, <1>13, <2>2 DEF Reply
  <2>4. Empty /\ fifo' = Nothing
    BY <1>5, <2>3 DEF Reading, Flow, Empty
  <2>5. Expected = lba /\ Sectors = num
    BY <1>1, <1>13, <2>1 DEF Expected, Sectors
  <2>6. stream' = [j \in 1 .. num |-> lba + j - 1]
    <3>1. CASE num = 1
      <4>1. stream' = <<lba>>
        BY <1>13, <2>2, <2>3, <3>1 DEF Sent
      <4>2. <<lba>> = [j \in 1 .. 1 |-> lba + j - 1]
        <5>1. <<lba>> = [j \in 1 .. 1 |-> lba]
          OBVIOUS
        <5>2. \A j \in 1 .. 1 : lba + j - 1 = lba
          BY <1>1
        <5> QED
          BY <5>1, <5>2
      <4> QED
        BY <3>1, <4>1, <4>2
    <3>2. CASE num # 1
      BY <1>13, <2>2, <2>3, <3>2 DEF Sent
    <3> QED
      BY <3>1, <3>2
  <2>7. mode'.st = Sending
    <3>1. Counts => mode.set
      BY <1>8, <1>13 DEF ReadWait
    <3>2. Stops => ~ mode.set
      BY DEF Stops, Reading, Ready
    <3>3. num # 1 => Counts \/ Stops
      BY <1>1 DEF Counts, Stops
    <3>4. num = 1 => ~ Stops
      BY DEF Stops
    <3> QED
      BY <1>1, <1>7, <1>13, <2>2, <2>3, <3>1, <3>2, <3>3, <3>4 DEF To, Sending
  <2>8. Coming' /\ Answer'
    <3>1. "ready" \notin ints' /\ "done" \in ints' /\ issued'
      BY <1>2, <1>5, <1>9, <1>13
    <3> QED
      BY <1>3, <2>3, <2>4, <2>5, <2>6, <2>7, <3>1 DEF Coming, Answer
  <2>9. ReadPhase(k)'
    BY <1>3, <1>4, <1>13, <2>8 DEF ReadPhase, ReadWait
  <2> QED
    BY <1>2, <2>9 DEF Fetching
<1>14. CASE ReadAt(k) /\ ReadWait /\ ~ card.hc
  <2>1. ~ dat /\ cmd.code = "SINGLE"
    BY <1>5, <1>9, <1>14 DEF From
  <2>2. Empty /\ fifo' = Nothing
    BY <1>5, <2>1 DEF Reading, Flow, Empty
  <2>3. "ready" \in ints' => ~ issued
    BY <1>5, <1>8, <1>14, <2>2 DEF ReadWait, Empty
  <2>4. CASE ~ issued
    <3>1. ReadWait'
      BY <1>2, <1>14, <2>4 DEF ReadWait, Answer
    <3>2. ReadPhase(k)'
      BY <1>3, <1>4, <1>14, <3>1 DEF ReadPhase
    <3> QED
      BY <1>2, <3>2 DEF Fetching
  <2>5. CASE issued
    <3>1. cmd = Read("SINGLE", Expected, "byte")
      BY <1>4, <1>9, <1>14, <2>5, ReadOps
    <3>2. cmd.at = Expected /\ cmd.unit = "byte"
      BY <3>1, Reads
    <3>3. dat' = TRUE /\ stream' = <<Expected>> /\ a = "good"
      BY <1>5, <1>6, <1>14, <2>1, <3>2 DEF Reply, Sent
    <3>4. mode'.st = "data" /\ Sending = "data" /\ Sectors = 1
      BY <1>7, <1>14, <2>1, <3>3 DEF To, Sending, Sectors
    <3>5. stream' = [j \in 1 .. 1 |-> Expected + j - 1]
      <4>1. <<Expected>> = [j \in 1 .. 1 |-> Expected]
        OBVIOUS
      <4>2. Expected \in Nat
        BY <1>1, <1>4 DEF Expected
      <4>3. \A j \in 1 .. 1 : Expected + j - 1 = Expected
        BY <4>2
      <4> QED
        BY <3>3, <4>1, <4>3
    <3>6. Coming' /\ Answer'
      BY <1>2, <1>3, <1>5, <2>2, <2>3, <2>5, <3>3, <3>4, <3>5 DEF Coming, Answer
    <3>7. ReadPhase(k)'
      BY <1>3, <1>4, <1>14, <3>6 DEF ReadPhase, ReadWait
    <3> QED
      BY <1>2, <3>7 DEF Fetching
  <2> QED
    BY <2>4, <2>5
<1>15. CASE (DataAt(k) /\ DataWait) \/ (EndAt(k) /\ EndWait)
    BY <1>5, <1>15 DEF DataWait, EndWait
<1> QED
    BY <1>10, <1>11, <1>12, <1>13, <1>14, <1>15 DEF ReadPhase

LEMMA Arriving ==
    ASSUME Reading, Len(dest) \in Nat, Coming, SectorArrives,
           UNCHANGED <<lba, num, dest, card>>
    PROVE  Coming' /\ fifo = Nothing
<1>1. /\ num \in Nat \ {0} /\ card.hc \in BOOLEAN /\ lba \in Nat
    BY ReadCaps
<1>2. /\ Expected \in Nat /\ Sectors \in Int
    BY <1>1 DEF Expected, Sectors
<1>3. Sending' = Sending /\ Expected' = Expected /\ Sectors' = Sectors
    BY SamePlaces
<1>4. /\ stream # <<>> /\ fifo = Nothing /\ fifo' = Head(stream) /\ stream' = Tail(stream)
      /\ UNCHANGED <<mode, dat>>
    BY DEF SectorArrives
<1>5. stream = [j \in 1 .. Sectors |-> Expected + j - 1]
    BY <1>2, <1>4 DEF Coming, Nothing
<1>6. Sectors > 0
  <2>1. ASSUME ~ (Sectors > 0) PROVE FALSE
    <3>1. 1 .. Sectors = {}
      BY <1>2, <2>1
    <3>2. stream = <<>>
      BY <1>5, <3>1
    <3> QED
      BY <1>4, <3>2
  <2> QED
    BY <2>1
<1>7. stream \in Seq(Int) /\ Len(stream) = Sectors
  <2>1. stream \in [1 .. Sectors -> Int] /\ Sectors \in Nat
    BY <1>2, <1>5, <1>6
  <2> QED
    BY <2>1, <1>5, SeqDef, LenProperties
<1>8. /\ Head(stream) = stream[1] /\ Tail(stream) \in Seq(Int)
      /\ Len(Tail(stream)) = Sectors - 1
      /\ \A i \in 1 .. Len(Tail(stream)) : Tail(stream)[i] = stream[i + 1]
  <2>1. /\ Head(stream) = stream[1] /\ Tail(stream) \in Seq(Int)
        /\ Len(Tail(stream)) = Len(stream) - 1
        /\ \A i \in 1 .. Len(Tail(stream)) : Tail(stream)[i] = stream[i + 1]
    BY <1>4, <1>7, HeadTailProperties
  <2> QED
    BY <1>7, <2>1
<1>9. fifo' = Expected /\ fifo' # Nothing
    BY <1>2, <1>4, <1>5, <1>6, <1>8 DEF Nothing
<1>10. stream' = [j \in 1 .. (Sectors - 1) |-> Expected + j]
  <2>1. DOMAIN stream' = 1 .. (Sectors - 1) /\ stream' = [i \in DOMAIN stream' |-> stream'[i]]
    BY <1>4, <1>8, LenProperties
  <2>2. ASSUME NEW i \in 1 .. (Sectors - 1) PROVE stream'[i] = Expected + i
    <3>1. stream'[i] = stream[i + 1] /\ i + 1 \in 1 .. Sectors
      BY <1>2, <1>4, <1>6, <1>8
    <3> QED
      BY <1>2, <1>5, <3>1
  <2> QED
    BY <2>1, <2>2
<1> QED
    BY <1>3, <1>4, <1>6, <1>9, <1>10 DEF Coming

LEMMA ReadArrives ==
    ASSUME Reading, NEW k \in Nat, At(k), ReadPhase(k), SectorArrives,
           UNCHANGED <<pc, todo, issued, sd_scr, call, card>>
    PROVE  Fetching'
<1>1. UNCHANGED <<lba, num, dest, todo, issued, card>> /\ At(k)'
    BY ReadPlaces, ReadCaps DEF call
<1>2. /\ \A j : /\ CountAt(j)' = CountAt(j) /\ ReadAt(j)' = ReadAt(j) /\ DataAt(j)' = DataAt(j)
                /\ EndAt(j)' = EndAt(j)
      /\ Good' = Good
    BY <1>1, SamePlaces
<1>3. Good /\ Len(dest) \in Nat
    BY PhaseOps
<1>4. /\ dat /\ stream # <<>> /\ fifo = Nothing /\ fifo' = Head(stream) /\ cmd' = cmd
      /\ (Answer' <=> Answer)
    BY <1>1 DEF SectorArrives, Answer
<1>5. CASE k = 1 /\ Len(dest) = 0
    BY <1>1, <1>2, <1>3, <1>5 DEF ReadPhase, Fetching
<1>6. CASE (CountAt(k) /\ CountWait) \/ (StopAt(k) /\ StopWait) \/ (EndAt(k) /\ EndWait)
    BY <1>4, <1>6 DEF CountWait, StopWait, EndWait, Empty
<1>7. CASE ReadAt(k) /\ ReadWait
  <2>1. CASE Answer
    <3>1. Coming'
      BY <1>1, <1>3, <1>7, <2>1, Arriving DEF ReadWait
    <3> QED
      BY <1>1, <1>2, <1>3, <1>4, <1>7, <2>1, <3>1 DEF ReadWait, ReadPhase, Fetching
  <2>2. CASE ~ Answer
    <3>1. ~ card.hc
      BY <1>4, <1>7, <2>2 DEF ReadWait
    <3>2. PICK x \in Nat \union {Foreign} : stream = <<x>>
      BY <1>4, <3>1 DEF Reading, Ready, Short
    <3>3. Head(stream) = x
      BY <3>2
    <3>4. fifo' # Nothing
      BY <1>4, <3>3 DEF Nothing, Foreign
    <3>5. ReadWait'
      BY <1>1, <1>4, <2>2, <3>1, <3>4 DEF ReadWait
    <3> QED
      BY <1>1, <1>2, <1>3, <1>7, <3>5 DEF ReadPhase, Fetching
  <2> QED
    BY <2>1, <2>2
<1>8. CASE DataAt(k) /\ DataWait
  <2>1. Coming' /\ cmd' = NoCommand /\ pc # "take"
    BY <1>1, <1>3, <1>4, <1>8, Arriving DEF DataWait
  <2>2. DataWait'
    BY <2>1 DEF DataWait
  <2> QED
    BY <1>1, <1>2, <1>3, <1>8, <2>2 DEF ReadPhase, Fetching
<1> QED
    BY <1>5, <1>6, <1>7, <1>8 DEF ReadPhase

(* A transfer does not end while sectors are to come.                      *)
LEMMA StillComing ==
    ASSUME Reading, Len(dest) \in Nat, Len(dest) < num, Coming
    PROVE  stream # <<>> \/ fifo # Nothing
<1>1. /\ num \in Nat \ {0} /\ card.hc \in BOOLEAN /\ lba \in Nat
    BY ReadCaps
<1>2. Sectors > 0 /\ Sectors \in Int
    BY <1>1 DEF Sectors
<1>3. SUFFICES ASSUME fifo = Nothing PROVE stream # <<>>
    OBVIOUS
<1>4. Expected \in Nat
    BY <1>1 DEF Expected
<1>5. stream = [j \in 1 .. Sectors |-> Expected + j - 1]
    BY <1>3, <1>4 DEF Coming, Nothing
<1>6. 1 \in DOMAIN stream
    BY <1>2, <1>5
<1>7. DOMAIN <<>> = {}
    OBVIOUS
<1> QED
    BY <1>6, <1>7

LEMMA ReadEnds ==
    ASSUME Reading, NEW k \in Nat, At(k), ReadPhase(k), TransferEnds \/ CardStops,
           UNCHANGED <<pc, todo, issued, sd_scr, call, card>>
    PROVE  Fetching'
<1>1. UNCHANGED <<lba, num, dest, todo, issued, card>> /\ At(k)'
    BY ReadPlaces, ReadCaps DEF call
<1>2. /\ \A j : /\ CountAt(j)' = CountAt(j) /\ ReadAt(j)' = ReadAt(j) /\ DataAt(j)' = DataAt(j)
                /\ EndAt(j)' = EndAt(j) /\ StopAt(j)' = StopAt(j)
      /\ Good' = Good /\ Sending' = Sending /\ Counts' = Counts
    BY <1>1, SamePlaces
<1>3. Good /\ Len(dest) \in Nat
    BY PhaseOps
<1>4. /\ UNCHANGED <<cmd, ints, fifo, stream>> /\ ~ dat' /\ (Answer' <=> Answer)
    BY <1>1 DEF TransferEnds, CardStops, Answer
<1>5. mode'.set = mode.set /\ mode'.st = IF mode.st = "data" THEN "tran" ELSE mode.st
  <2>1. mode \in [st : States, app : BOOLEAN, set : BOOLEAN]
    BY DEF Reading, Flow
  <2> QED
    BY <2>1 DEF TransferEnds, CardStops
<1>6. /\ dat => stream = <<>> /\ fifo = Nothing
      /\ ~ dat => mode.st = "data"
    BY DEF TransferEnds, CardStops
<1>7. CASE k = 1 /\ Len(dest) = 0
    BY <1>1, <1>2, <1>3, <1>7 DEF ReadPhase, Fetching
<1>8. CASE CountAt(k) /\ CountWait
  <2>1. CountWait'
    BY <1>4, <1>5, <1>8 DEF CountWait
  <2> QED
    BY <1>1, <1>2, <1>3, <1>8, <2>1 DEF ReadPhase, Fetching
<1>9. CASE StopAt(k) /\ StopWait
  <2>1. StopWait'
    BY <1>4, <1>5, <1>9 DEF StopWait
  <2> QED
    BY <1>1, <1>2, <1>3, <1>9, <2>1 DEF ReadPhase, Fetching
<1>10. CASE EndAt(k) /\ EndWait
  <2>1. EndWait'
    <3>1. cmd' = NoCommand /\ Empty'
      BY <1>4, <1>10 DEF EndWait, Empty
    <3>2. mode'.st = IF Sending' = "data" /\ ~ dat' THEN "tran" ELSE Sending'
      BY <1>2, <1>4, <1>5, <1>10 DEF EndWait, Sending
    <3> QED
      BY <3>1, <3>2 DEF EndWait
  <2> QED
    BY <1>1, <1>2, <1>3, <1>10, <2>1 DEF ReadPhase, Fetching
<1>11. Len(dest) < num => ~ Coming
  <2>1. Coming => dat
    BY DEF Coming
  <2> QED
    BY <1>3, <1>6, <2>1, StillComing
<1>12. CASE ReadAt(k) /\ ReadWait
  <2>1. Len(dest) < num
    BY <1>12, ReadCaps DEF ReadAt
  <2>2. ~ Answer
    BY <1>11, <1>12, <2>1 DEF ReadWait
  <2>3. ReadWait'
    BY <1>1, <1>2, <1>4, <1>5, <1>12, <2>2 DEF ReadWait
  <2> QED
    BY <1>1, <1>2, <1>3, <1>12, <2>3 DEF ReadPhase, Fetching
<1>13. CASE DataAt(k) /\ DataWait
    BY <1>11, <1>13 DEF DataAt, DataWait
<1> QED
    BY <1>7, <1>8, <1>9, <1>10, <1>12, <1>13 DEF ReadPhase

LEMMA ReadController ==
    ASSUME Reading, NEW k \in Nat, At(k), ReadPhase(k), Controller
    PROVE  Fetching'
<1>1. UNCHANGED <<pc, todo, issued, sd_scr, call, card>>
    BY DEF Controller, found
<1>2. At(k)'
    BY <1>1, ReadPlaces, ReadCaps DEF call
<1>3. CASE NoAnswer
  <2>1. cmd.code # "GO_IDLE"
    <3>1. CASE issued
      <4>1. cmd = op /\ op.op = "cmd"
        BY <1>3, <3>1 DEF NoAnswer, Reading, Ready, Inv, SdTypeOK
      <4>2. \/ op \in {Idle, Data}
            \/ op.op = "cmd" /\ op.code \in {"BLOCKCNT", "SINGLE", "MULTI", "STOP"}
        BY ReadOps
      <4> QED
        BY <4>1, <4>2, Kinds
    <3>2. CASE ~ issued
      BY <1>3, <3>2 DEF NoAnswer, Reading, Ready, Asks
    <3> QED
      BY <3>1, <3>2
  <2>2. Error'
    BY <1>3, <2>1 DEF NoAnswer, Error
  <2> QED
    BY <1>2, <2>2 DEF Fetching
<1>4. CASE DataError
    BY <1>2, <1>4 DEF DataError, Error, Fetching
<1> QED
    BY <1>1, <1>3, <1>4, ReadResponds, ReadArrives, ReadEnds DEF Controller

LEMMA ReadGoesStep ==
    ASSUME Inv, Flow, lba \in Nat, init, ~ late, Ready, ReadGoes, [Next]_vars, ~ late'
    PROVE  ReadGoes'
<1> SUFFICES ASSUME num' > 0, todo' # <<>>
             PROVE  Fetching'
    BY DEF ReadGoes, Fetching
<1>1. CASE todo = <<>>
  <2>1. pc \in {"out", "reset"} /\ pc # "reset"
    BY <1>1 DEF Inv, SdTypeOK, Flow
  <2>2. ~ (PollStep \/ StatusFails \/ DataIdle \/ Issue \/ IntFails \/ Answered \/ Announced
           \/ TakeSector \/ TakeScr \/ ScrFails \/ SetClock \/ Reset \/ ResetFails)
    BY <2>1 DEF PollStep, StatusFails, DataIdle, Issue, IntFails, Answered, Announced,
       TakeSector, TakeScr, ScrFails, SetClock, Reset, ResetFails, Passed
  <2>3. ~ SdInit /\ ~ Controller /\ ~ UNCHANGED vars
    BY <1>1 DEF SdInit, Controller, vars
  <2>4. PICK l \in Lbas, n \in Nums : ReadBlock(l, n)
    BY <2>2, <2>3 DEF Next, Driver
  <2>5. /\ lba' = l /\ num' = n /\ dest' = <<>> /\ todo' = ReadScript(l, n)
        /\ sd_scr' = sd_scr
    BY <2>4 DEF ReadBlock, found
  <2>6. ReadScript(lba, num)' = ReadScript(l, n)
    BY <2>5 DEF ReadScript, ByBlocks, ByBytes
  <2>7. l \in Nat /\ n \in Nat /\ ReadScript(l, n) \in Seq(Steps) /\ ReadScript(l, n) # <<>>
    BY ReadScriptType, SdAssumption DEF Script
  <2> DEFINE s == ReadScript(l, n)
  <2> HIDE DEF s
  <2>8. s \in Seq(Steps) /\ s # <<>> /\ todo' = s /\ ReadScript(lba, num)' = s
    BY <2>5, <2>6, <2>7 DEF s
  <2>9. 1 \in 1 .. Len(s)
    BY <2>8, LenProperties, EmptySeq
  <2>10. Suffix(s, 1) = s
    BY <2>8, <2>9, Suffixes
  <2>11. At(1)'
    BY <2>8, <2>9, <2>10 DEF At
  <2>12. Len(dest') = 0 /\ Good'
    <3>1. Len(<<>>) = 0 /\ <<>> = [j \in 1 .. 0 |-> l + j - 1]
      OBVIOUS
    <3> QED
      BY <2>5, <3>1 DEF Good
  <2>13. ReadPhase(1)'
    BY <2>12 DEF ReadPhase
  <2> QED
    BY <2>11, <2>13 DEF Fetching
<1>2. CASE todo # <<>>
  <2>1. num' = num /\ num > 0
    BY <1>2, AtWork DEF Inv, SdTypeOK
  <2>2. Reading
    BY <2>1 DEF Reading
  <2>3. PICK k \in Nat : At(k) /\ (Error \/ ReadPhase(k))
    BY <1>2, <2>1 DEF ReadGoes
  <2>4. /\ Works \/ UNCHANGED vars
        /\ UNCHANGED <<sd_scr, init, card, lba, num>>
        /\ ~ TakeScr /\ ~ ScrFails /\ ~ SetClock
        /\ StatusFails \/ IntFails => Return("fail")
        /\ DataIdle \/ Issue => ~ Codes({"GO_IDLE"})
    BY <2>2, <2>3, ReadKeeps
  <2>5. ~ StatusFails /\ ~ IntFails
    BY <2>4 DEF Return
  <2>6. CASE Error
    <3>1. Error'
      BY <1>2, <2>6, ErrorStays
    <3>2. ~ (DataIdle \/ Issue \/ Answered \/ Announced)
      BY <2>6 DEF DataIdle, Issue, Answered, Announced, Passed, Refused, Error
    <3>3. CASE TakeSector
      <4>1. todo' = Tail(todo)
        BY <3>3, Proceeding DEF TakeSector
      <4>2. At(k + 1)' /\ k + 1 \in Nat
        BY <2>2, <2>3, <2>4, <4>1, ReadPlaces, ReadCaps
      <4> QED
        BY <3>1, <4>2 DEF Fetching
    <3>4. CASE PollStep \/ Controller \/ UNCHANGED vars
      <4>1. todo' = todo
        BY <3>4 DEF PollStep, Controller, vars
      <4>2. At(k)'
        BY <2>2, <2>3, <2>4, <4>1, ReadPlaces, ReadCaps
      <4> QED
        BY <3>1, <4>2 DEF Fetching
    <3> QED
      BY <2>4, <2>5, <3>2, <3>3, <3>4 DEF Works
  <2>7. CASE ReadPhase(k)
    <3>1. CASE PollStep
      <4>1. /\ UNCHANGED <<todo, issued, sd_scr, call, card, controller>> /\ pc' # "take"
        BY <3>1 DEF PollStep, found
      <4> QED
        BY <2>2, <2>3, <2>7, <4>1, ReadSame
    <3>2. CASE UNCHANGED vars
      BY <2>2, <2>3, <2>7, <3>2, ReadSame DEF vars, found
    <3>3. CASE DataIdle \/ Issue
      BY <2>2, <2>3, <2>4, <2>7, <3>3, ReadIdles, ReadIssues
    <3>4. CASE Answered \/ Announced \/ TakeSector
      BY <2>2, <2>3, <2>4, <2>7, <3>4, ReadAnswers, ReadWaits, ReadTakes
    <3>5. CASE Controller
      BY <2>2, <2>3, <2>7, <3>5, ReadController
    <3> QED
      BY <2>4, <2>5, <3>1, <3>2, <3>3, <3>4, <3>5 DEF Works
  <2> QED
    BY <2>3, <2>6, <2>7
<1> QED
  BY <1>1, <1>2

----------------------------------------------------------------------------
(* Ready, from the end of sd_init on.                                      *)

(* sd_init sets init at its last step only.                                *)
LEMMA InitEnds ==
    ASSUME Inv, Flow, InitGoes, [Next]_vars, ~ init, init', ~ late'
    PROVE  /\ mode.st = "tran" /\ sd_rca /\ sd_scr' = Caps
           /\ Ready' /\ todo' = <<>>
<1>1. /\ Proceed(Tail(todo)) /\ Tail(todo) = <<>> /\ num = 0 /\ ret' = "ready" /\ ~ issued'
      /\ sd_scr' = FinishCaps /\ todo # <<>> /\ todo' = <<>>
  <2>1. ASSUME NEW s, Proceed(s)
        PROVE  /\ s = <<>> /\ num = 0 /\ ret' = "ready" /\ ~ issued' /\ sd_scr' = FinishCaps
               /\ todo' = <<>>
    BY <2>1 DEF Proceed, Return, Inits
  <2>2. pc # "out" => todo # <<>> \/ pc = "reset"
    BY DEF Inv, SdTypeOK
  <2>3. ~ (SdInit \/ (\E l \in Lbas, n \in Nums : ReadBlock(l, n)) \/ Reset \/ ResetFails)
    BY DEF SdInit, ReadBlock, Reset, ResetFails, Fail, found
  <2>4. ~ (PollStep \/ StatusFails \/ IntFails \/ Announced \/ TakeScr \/ ScrFails)
    BY DEF PollStep, StatusFails, Retry, IntFails, Announced, TakeScr, ScrFails, Fail, found
  <2>5. ~ Controller /\ ~ UNCHANGED vars
    BY DEF Controller, vars, found
  <2>6. Proceed(Tail(todo))
    BY <2>3, <2>4, <2>5 DEF Next, Driver, DataIdle, Issue, SetClock, Answered, TakeSector,
       GoOn, Fail, found
  <2>7. todo # <<>>
    BY <2>2, <2>3, <2>4, <2>5 DEF Next, Driver, DataIdle, Issue, SetClock, Answered,
       TakeSector, Passed
  <2> QED
    BY <2>1, <2>6, <2>7
<1>2. (Works \/ UNCHANGED vars) /\ ~ late /\ UNCHANGED card
    BY <1>1, AtWork
<1>3. PICK k \in 1 .. 16 : InitAt(k) /\ (Error \/ InitPhase(k))
    BY <1>1, <1>2 DEF InitGoes
<1>4. k = 16 /\ op = Idle
    BY <1>1, <1>3, InitPlaces, InitOps
<1>5. DataIdle
  <2>1. op.op = "idle" /\ op # Clock /\ op # Data
    BY <1>4, Kinds
  <2>2. ~ (Issue \/ SetClock \/ Answered \/ TakeSector)
    BY <2>1 DEF Issue, SetClock, Answered, TakeSector
  <2>3. ~ (PollStep \/ StatusFails \/ IntFails \/ Announced \/ TakeScr \/ ScrFails)
    BY DEF PollStep, StatusFails, Retry, IntFails, Announced, TakeScr, ScrFails, Fail, found
  <2>4. ~ Controller /\ ~ UNCHANGED vars
    BY DEF Controller, vars, found
  <2> QED
    BY <1>2, <2>2, <2>3, <2>4 DEF Works
<1>6. ~ dat /\ ~ Error
    BY <1>4, <1>5, Kinds, InTime DEF DataIdle, Here, ByStatus
<1>7. InitPhase(16)
    BY <1>3, <1>4, <1>6
<1>8. /\ ccs = card.hc /\ sd_rca /\ mode.st = "tran" /\ ~ mode.set
      /\ sd_scr = [hc |-> card.bit, blkcnt |-> card.blkcnt, wide |-> card.wide]
    BY <1>6, <1>7 DEF InitPhase
<1>9. cmd = NoCommand
    BY <1>4, <1>7, Kinds DEF InitPhase, Inv, SdTypeOK
<1>10. sd_scr' = Caps
  <2>1. [sd_scr EXCEPT !.hc = ccs] = [hc |-> ccs, blkcnt |-> card.blkcnt, wide |-> card.wide]
    BY <1>8
  <2> QED
    BY <1>1, <1>8, <2>1 DEF FinishCaps, Caps
<1>11. UNCHANGED <<card, mode, cmd, dat, ints, stream>>
    BY <1>5 DEF DataIdle, controller
<1>12. stream = <<>>
    BY <1>6 DEF Flow, Empty
<1>13. Caps' = Caps
    BY <1>11 DEF Caps
<1>14. Ready'
    BY <1>1, <1>6, <1>8, <1>9, <1>10, <1>11, <1>12, <1>13 DEF Ready, Short
<1> QED
    BY <1>1, <1>8, <1>10, <1>14

LEMMA ReadyController ==
    ASSUME Inv, Flow, Ready, Controller,
           cmd # NoCommand /\ cmd.code = "BLOCKCNT" => card.blkcnt
    PROVE  Ready'
<1>1. UNCHANGED <<todo, issued, sd_scr, ret, card, call>> /\ op' = op /\ Caps' = Caps
    BY DEF Controller, found, op, Caps
<1>2. /\ sd_scr = Caps /\ (mode.set => card.blkcnt)
      /\ issued /\ cmd # NoCommand => cmd = op
      /\ card.hc => (cmd # NoCommand => issued /\ ints = {} /\ ~ dat)
      /\ ~ card.hc => (cmd # NoCommand => Asks) /\ (dat => mode.st = "data") /\ Short
      /\ mode \in [st : States, app : BOOLEAN, set : BOOLEAN]
    BY DEF Ready, Flow
<1>3. ret' # "read"
  <2>1. ret = "read" => mode.st = "tran" /\ ~ dat /\ cmd = NoCommand
    BY DEF Ready
  <2>2. CASE Responds \/ NoAnswer
    BY <1>1, <2>1, <2>2 DEF Responds, NoAnswer
  <2>3. CASE SectorArrives \/ TransferEnds \/ DataError \/ CardStops
    BY <1>1, <2>1, <2>3 DEF SectorArrives, TransferEnds, DataError, CardStops
  <2> QED
    BY <2>2, <2>3 DEF Controller
<1>4. ASSUME NEW a, Obeys(a), cmd # NoCommand
      PROVE  mode'.set => card.blkcnt
    BY <1>4 DEF Obeys
<1>5. mode'.set => card.blkcnt
  <2>1. CASE Responds
    <3>1. PICK a \in Reply(cmd.code) : Obeys(a)
      BY <2>1 DEF Responds
    <3> QED
      BY <1>4, <2>1, <3>1 DEF Responds
  <2>2. CASE NoAnswer
    BY <1>2, <1>4, <2>2 DEF NoAnswer
  <2>3. CASE SectorArrives \/ TransferEnds \/ DataError \/ CardStops
    BY <1>2, <2>3 DEF SectorArrives, TransferEnds, DataError, CardStops
  <2> QED
    BY <2>1, <2>2, <2>3 DEF Controller
<1>6. cmd' = cmd \/ cmd' = NoCommand
    BY DEF Controller, Responds, NoAnswer, SectorArrives, TransferEnds, DataError, CardStops
<1>7. issued' /\ cmd' # NoCommand => cmd' = op'
    BY <1>1, <1>2, <1>6
<1>8. card.hc => (cmd' # NoCommand => issued' /\ ints' = {} /\ ~ dat')
  <2>1. ASSUME card.hc, cmd' # NoCommand PROVE CardStops
    BY <1>2, <1>6, <2>1 DEF Controller, Responds, NoAnswer, SectorArrives, TransferEnds,
       DataError
  <2> QED
    BY <1>1, <1>2, <1>6, <2>1 DEF CardStops
<1>9. ASSUME ~ card.hc
      PROVE  (cmd' # NoCommand => Asks') /\ (dat' => mode'.st = "data") /\ Short'
  <2>1. cmd' # NoCommand => Asks'
    BY <1>2, <1>6, <1>9 DEF Asks
  <2>2. CASE Responds
    <3>1. Asks /\ mode.st \in From(cmd.code) /\ cmd.code = "SINGLE" /\ cmd.at \in Nat
      BY <1>2, <1>9, <2>2 DEF Responds, Takes, Asks
    <3>2. PICK a \in Reply(cmd.code) : Obeys(a)
      BY <2>2 DEF Responds
    <3>3. a = "good"
      BY <3>1, <3>2 DEF Reply
    <3>4. mode'.st = "data"
      BY <3>1, <3>2, <3>3 DEF Obeys, To
    <3>5. stream' = Sent
      BY <2>2, <3>1 DEF Responds
    <3>6. Sent = <<Foreign>> \/ Sent = <<cmd.at>>
      BY <3>1 DEF Sent
    <3> QED
      BY <2>1, <3>1, <3>4, <3>5, <3>6 DEF Short
  <2>3. CASE NoAnswer
    <3>1. cmd.code = "SINGLE"
      BY <1>2, <1>9, <2>3 DEF NoAnswer, Asks
    <3>2. dat => ~ Takes
      BY <1>2, <1>9, <3>1 DEF Takes, From
    <3>3. UNCHANGED <<dat, stream>> /\ (dat => mode' = mode)
      BY <2>3, <3>2 DEF NoAnswer
    <3> QED
      BY <1>2, <1>9, <2>1, <3>3 DEF Short
  <2>4. CASE SectorArrives
    <3>1. PICK x \in Nat \union {Foreign} : stream = <<x>>
      BY <1>2, <1>9, <2>4 DEF SectorArrives, Short
    <3>2. Tail(<<x>>) = <<>>
      OBVIOUS
    <3>3. stream' = <<>> /\ dat' = dat /\ mode' = mode
      BY <2>4, <3>1, <3>2 DEF SectorArrives
    <3> QED
      BY <1>2, <1>9, <2>1, <3>3 DEF Short
  <2>5. CASE TransferEnds \/ CardStops
    <3>1. ~ dat' /\ stream' = stream
      BY <2>5 DEF TransferEnds, CardStops
    <3> QED
      BY <1>2, <1>9, <2>1, <3>1 DEF Short
  <2>6. CASE DataError
    <3>1. stream' = <<>> /\ mode' = mode /\ (dat' => dat)
      BY <2>6 DEF DataError
    <3> QED
      BY <1>2, <1>9, <2>1, <3>1 DEF Short
  <2> QED
    BY <2>2, <2>3, <2>4, <2>5, <2>6 DEF Controller
<1> QED
    BY <1>1, <1>2, <1>3, <1>5, <1>7, <1>8, <1>9 DEF Ready

(* What is ready stays so over a step that clears no more than interrupts, *)
(* if a card addressed by blocks has no command left to take.              *)
LEMMA ReadyKept ==
    ASSUME Flow, Ready, UNCHANGED <<sd_scr, card, mode, cmd, dat, stream>>,
           ret' = "read" => mode.st = "tran" /\ ~ dat /\ cmd = NoCommand /\ dest' = Asked',
           \/ ~ issued' /\ (card.hc => cmd = NoCommand)
           \/ issued' = issued /\ todo' = todo /\ ints' \subseteq ints
    PROVE  Ready'
<1>1. Caps' = Caps /\ (Asks' <=> Asks) /\ (Short' <=> Short)
    BY DEF Caps, Asks, Short
<1>2. todo' = todo => op' = op
    BY DEF op
<1>3. /\ sd_scr' = Caps' /\ (mode'.set => card'.blkcnt)
      /\ ~ card'.hc => (cmd' # NoCommand => Asks') /\ (dat' => mode'.st = "data") /\ Short'
    BY <1>1 DEF Ready
<1>4. issued' /\ cmd' # NoCommand => cmd' = op'
    BY <1>2 DEF Ready
<1>5. card'.hc => (cmd' # NoCommand => issued' /\ ints' = {} /\ ~ dat')
    BY DEF Ready
<1>6. ret' = "read" => mode'.st = "tran" /\ ~ dat' /\ cmd' = NoCommand /\ dest' = Asked'
    OBVIOUS
<1> QED
    BY <1>3, <1>4, <1>5, <1>6 DEF Ready

(* A read that ends well got all it was asked for, and the card is idle.   *)
LEMMA ReadDone ==
    ASSUME Reading, NEW k \in Nat, At(k), ReadPhase(k), DataIdle \/ Answered, ~ late',
           Tail(todo) = <<>>
    PROVE  mode.st = "tran" /\ ~ dat /\ cmd = NoCommand /\ dest = Asked
<1>1. /\ num \in Nat \ {0} /\ card.hc \in BOOLEAN /\ Extra \in {0, 1}
      /\ (Extra = 1 <=> Counts) /\ (Counts => ~ Stops)
    BY ReadCaps
<1>2. k = IF card.hc THEN (IF Stops THEN 4 + num ELSE 3 + Extra + num) ELSE 2 * num + 2
    BY ReadOps
<1>3. Len(dest) \in Nat /\ Good
    BY PhaseOps
<1>4. ~ CountAt(k) /\ ~ ReadAt(k) /\ k # 1
    BY <1>1, <1>2, <1>3 DEF CountAt, ReadAt
<1>5. Len(dest) = num => dest = Asked
    BY <1>3 DEF Good, Asked
<1>6. CASE DataIdle
  <2>1. op = Idle /\ ~ dat
    BY <1>6, Kinds, InTime DEF DataIdle, Here, ByStatus
  <2>2. EndAt(k) /\ EndWait
    BY <1>4, <2>1, PhaseOps
  <2>3. Sending = "data"
    BY <1>1, <1>2, <2>2 DEF EndAt, Sending
  <2> QED
    BY <1>5, <2>1, <2>2, <2>3 DEF EndAt, EndWait
<1>7. CASE Answered
  <2>1. op.op = "cmd" /\ Here /\ ~ ByStatus
    BY <1>7, InTime DEF Answered
  <2>2. StopAt(k) /\ StopWait
    BY <1>4, <2>1, PhaseOps
  <2>3. Answer /\ cmd = NoCommand
    BY <2>1, Kinds DEF Here, Wanted, ByStatus, Reading, Inv, OwnAnswer, Answer, SdTypeOK
  <2> QED
    BY <1>5, <2>2, <2>3 DEF StopAt, StopWait
<1> QED
    BY <1>6, <1>7

LEMMA ReadyIssues ==
    ASSUME Reading, NEW k \in Nat, At(k), ReadPhase(k), Issue, ~ Codes({"GO_IDLE"}),
           UNCHANGED <<sd_scr, card>>
    PROVE  Ready'
<1>1. /\ op.op = "cmd" /\ ~ issued /\ issued' = TRUE /\ todo' = todo /\ cmd' = op /\ ints' = {}
      /\ UNCHANGED <<mode, dat, stream, ret>> /\ op' = op /\ pc # "out"
    BY DEF Issue, Pending, op, Passed
<1>2. ~ Answer
    BY <1>1 DEF Answer
<1>3. card.hc => ~ dat
  <2>1. CASE CountAt(k) /\ CountWait
    BY <2>1 DEF CountWait
  <2>2. CASE ReadAt(k) /\ ReadWait
    BY <1>2, <2>2 DEF ReadWait
  <2>3. CASE StopAt(k) /\ StopWait
    BY <2>3 DEF StopWait
  <2> QED
    BY <1>1, <2>1, <2>2, <2>3, PhaseOps
<1>4. ~ card.hc => op.code = "SINGLE" /\ op.at \in Nat
  <2>1. ASSUME ~ card.hc PROVE ReadAt(k)
    BY <1>1, <2>1, PhaseOps DEF CountAt, StopAt
  <2>2. ~ card.hc => op = Read("SINGLE", Expected, "byte")
    BY <2>1, PhaseOps, ReadOps
  <2>3. Expected \in Nat
    BY PhaseOps, ReadCaps DEF Expected
  <2> QED
    BY <2>2, <2>3, Reads
<1>5. ret' # "read"
    BY <1>1 DEF Reading, Flow
<1>6. Caps' = Caps /\ (Short' <=> Short)
    BY <1>1 DEF Caps, Short
<1>7. /\ sd_scr = Caps /\ (mode.set => card.blkcnt)
      /\ ~ card.hc => (dat => mode.st = "data") /\ Short
    BY DEF Reading, Ready
<1> QED
    BY <1>1, <1>3, <1>4, <1>5, <1>6, <1>7 DEF Ready, Asks

LEMMA ReadyWorks ==
    ASSUME Reading, init, NEW k \in Nat, At(k), Error \/ ReadPhase(k), [Next]_vars, ~ late'
    PROVE  Ready'
<1>1. /\ Works \/ UNCHANGED vars
      /\ UNCHANGED <<sd_scr, card, lba, num>>
      /\ ~ TakeScr /\ ~ ScrFails /\ ~ SetClock
      /\ StatusFails \/ IntFails => Return("fail")
      /\ DataIdle \/ Issue => ~ Codes({"GO_IDLE"})
    BY ReadKeeps
<1>2. /\ todo # <<>> /\ pc # "out" /\ ret # "read" /\ Flow /\ Ready /\ Inv /\ num # 0
    BY ReadPlaces, ReadCaps DEF Reading, Inv, SdTypeOK, Flow
<1>3. issued => op.op = "cmd"
    BY <1>2 DEF Inv, SdTypeOK
<1>4. card.hc /\ cmd # NoCommand => issued /\ ints = {}
    BY <1>2 DEF Ready
<1>5. CASE PollStep \/ Announced
  <2>1. UNCHANGED <<mode, cmd, dat, stream, ret, issued, todo>> /\ ints' \subseteq ints
    BY <1>5 DEF PollStep, Announced, controller
  <2> QED
    BY <1>1, <1>2, <2>1, ReadyKept
<1>6. CASE UNCHANGED vars
  <2>1. UNCHANGED <<mode, cmd, dat, stream, ret, issued, todo, ints>>
    BY <1>6 DEF vars, controller
  <2> QED
    BY <1>1, <1>2, <2>1, ReadyKept
<1>7. CASE StatusFails
  <2>1. ~ issued
    BY <1>3, <1>7, Kinds DEF StatusFails, ByStatus
  <2>2. UNCHANGED <<mode, cmd, dat, stream>> /\ ~ issued' /\ ret' # "read"
    BY <1>1, <1>7 DEF StatusFails, controller, Return
  <2> QED
    BY <1>1, <1>2, <1>4, <2>1, <2>2, ReadyKept
<1>8. CASE IntFails
  <2>1. card.hc => cmd = NoCommand
    <3>1. pc = "check" /\ Refused
      BY <1>8 DEF IntFails
    <3>2. ASSUME card.hc, cmd # NoCommand PROVE FALSE
      BY <1>2, <1>4, <3>1, <3>2 DEF Refused, Flow, Error
    <3> QED
      BY <3>2
  <2>2. UNCHANGED <<mode, cmd, dat, stream>> /\ ~ issued' /\ ret' # "read"
    BY <1>1, <1>8 DEF IntFails, Return
  <2> QED
    BY <1>1, <1>2, <2>1, <2>2, ReadyKept
<1>9. CASE DataIdle \/ Answered
  <2>1. ReadPhase(k)
    BY <1>9, InTime DEF DataIdle, Answered
  <2>2. UNCHANGED <<mode, cmd, dat, stream, dest>> /\ ~ issued'
    BY <1>9, Proceeding DEF DataIdle, Answered, GoOn, controller, call, Poll, Return
  <2>3. card.hc => cmd = NoCommand
    <3>1. CASE DataIdle
      BY <1>3, <1>4, <3>1, Kinds DEF DataIdle
    <3>2. CASE Answered
      <4>1. op.op = "cmd" /\ ~ ByStatus /\ Here
        BY <3>2, InTime DEF Answered
      <4> QED
        BY <1>2, <4>1, Kinds DEF Here, Wanted, ByStatus, Inv, OwnAnswer, SdTypeOK
    <3> QED
      BY <1>9, <3>1, <3>2
  <2>4. ret' = "read" => Tail(todo) = <<>>
    BY <1>2, <1>9 DEF DataIdle, Answered, GoOn, Proceed, Poll, Return
  <2>5. ret' = "read" => mode.st = "tran" /\ ~ dat /\ cmd = NoCommand /\ dest = Asked
    BY <1>9, <2>1, <2>4, ReadDone
  <2>6. Asked' = Asked
    BY <1>1 DEF Asked
  <2> QED
    BY <1>1, <1>2, <2>2, <2>3, <2>5, <2>6, ReadyKept
<1>10. CASE Issue
  <2>1. ReadPhase(k)
    BY <1>10, InTime DEF Issue
  <2> QED
    BY <1>1, <1>10, <2>1, ReadyIssues
<1>11. CASE TakeSector
  <2>1. op = Data /\ Tail(todo) # <<>>
    BY <1>11, ReadOps DEF TakeSector
  <2>2. /\ UNCHANGED <<mode, cmd, dat, stream>> /\ ~ issued' /\ ret' # "read"
    BY <1>2, <1>11, <2>1 DEF TakeSector, Proceed, Poll
  <2>3. card.hc => cmd = NoCommand
    BY <1>3, <1>4, <2>1, Kinds
  <2> QED
    BY <1>1, <1>2, <2>2, <2>3, ReadyKept
<1>12. CASE Controller
  <2>1. ASSUME cmd # NoCommand, cmd.code = "BLOCKCNT" PROVE card.blkcnt
    <3>1. card.hc
      BY <1>2, <2>1 DEF Ready, Asks
    <3>2. issued /\ ints = {} /\ cmd = op /\ op.op = "cmd"
      BY <1>2, <1>3, <1>4, <2>1, <3>1 DEF Ready
    <3>3. ReadPhase(k)
      BY <3>2 DEF Error
    <3>4. ~ ReadAt(k)
      <4>1. ReadAt(k) => op.code \in {"SINGLE", "MULTI"}
        BY <3>1, <3>3, PhaseOps, ReadOps, Reads
      <4> QED
        BY <2>1, <3>2, <4>1
    <3>5. CountAt(k)
      BY <2>1, <3>2, <3>3, <3>4, PhaseOps, Commands
    <3> QED
      BY <3>5 DEF CountAt, Counts
  <2> QED
    BY <1>2, <1>12, <2>1, ReadyController
<1> QED
    BY <1>1, <1>5, <1>6, <1>7, <1>8, <1>9, <1>10, <1>11, <1>12 DEF Works

LEMMA ReadyStep ==
    ASSUME Inv, Flow, lba \in Nat, init, ~ late, Ready, ReadGoes, [Next]_vars, ~ late'
    PROVE  Ready'
<1>1. CASE todo = <<>>
  <2>1. pc = "out" /\ ~ issued
    BY <1>1 DEF Inv, SdTypeOK, Flow
  <2>2. card.hc => cmd = NoCommand
    BY <2>1 DEF Ready
  <2>3. ~ (PollStep \/ StatusFails \/ DataIdle \/ Issue \/ IntFails \/ Answered \/ Announced
           \/ TakeSector \/ TakeScr \/ ScrFails \/ SetClock \/ Reset \/ ResetFails)
    BY <2>1 DEF PollStep, StatusFails, DataIdle, Issue, IntFails, Answered, Announced,
       TakeSector, TakeScr, ScrFails, SetClock, Reset, ResetFails, Passed
  <2>4. CASE SdInit \/ \E l \in Lbas, n \in Nums : ReadBlock(l, n)
    <3>1. UNCHANGED <<sd_scr, card, mode, cmd, dat, stream>> /\ ret' # "read" /\ ~ issued'
      <4>1. CASE SdInit
        BY <2>1, <4>1 DEF SdInit, found, controller
      <4>2. CASE \E l \in Lbas, n \in Nums : ReadBlock(l, n)
        BY <2>1, <4>2 DEF ReadBlock, found, controller
      <4> QED
        BY <2>4, <4>1, <4>2
    <3> QED
      BY <2>2, <3>1, ReadyKept
  <2>5. CASE UNCHANGED vars
    <3>1. /\ UNCHANGED <<sd_scr, card, mode, cmd, dat, stream, ret, issued, todo, ints>>
          /\ UNCHANGED <<dest, lba, num>>
      BY <2>5 DEF vars, found, controller, call
    <3>2. ret' = "read" => mode.st = "tran" /\ ~ dat /\ cmd = NoCommand /\ dest' = Asked'
      BY <3>1 DEF Ready, Asked
    <3> QED
      BY <3>1, <3>2, ReadyKept
  <2>6. CASE Controller
    <3>1. cmd # NoCommand => cmd.code # "BLOCKCNT"
      BY <2>2 DEF Ready, Asks
    <3> QED
      BY <2>6, <3>1, ReadyController
  <2> QED
    BY <2>3, <2>4, <2>5, <2>6 DEF Next, Driver
<1>2. CASE todo # <<>>
  <2>1. num > 0
    BY <1>2 DEF Inv, SdTypeOK, Flow
  <2>2. Reading
    BY <2>1 DEF Reading
  <2>3. PICK k \in Nat : At(k) /\ (Error \/ ReadPhase(k))
    BY <1>2, <2>1 DEF ReadGoes
  <2> QED
    BY <2>2, <2>3, ReadyWorks
<1> QED
    BY <1>1, <1>2

----------------------------------------------------------------------------
LEMMA WholeInit == Init => Whole
<1> SUFFICES ASSUME Init PROVE Whole
    OBVIOUS
<1>1. Inv
    BY InitInv
<1>2. Flow
  <2>1. card \in Cards /\ mode = [st |-> "idle", app |-> FALSE, set |-> FALSE]
    BY DEF Init
  <2>2. mode \in [st : States, app : BOOLEAN, set : BOOLEAN]
    BY <2>1 DEF States
  <2> QED
    BY <2>1, <2>2 DEF Init, Flow, Empty
<1>3. InitGoes /\ lba \in Nat /\ ~ init
    BY DEF Init, InitGoes
<1> QED
    BY <1>1, <1>2, <1>3 DEF Whole

LEMMA LbaStep ==
    ASSUME lba \in Nat, [Next]_vars
    PROVE  lba' \in Nat
<1>1. CASE SdInit
    BY <1>1 DEF SdInit
<1>2. CASE \E l \in Lbas, n \in Nums : ReadBlock(l, n)
    BY <1>2, SdAssumption DEF ReadBlock
<1>3. CASE Reset \/ ResetFails \/ StatusFails \/ IntFails \/ ScrFails
    BY <1>3 DEF Reset, ResetFails, StatusFails, IntFails, ScrFails, Fail, Retry, call
<1>4. CASE PollStep \/ DataIdle \/ Issue \/ SetClock
    BY <1>4 DEF PollStep, DataIdle, Issue, SetClock, GoOn, Fail, call
<1>5. CASE Answered \/ Announced \/ TakeSector \/ TakeScr
    BY <1>5 DEF Answered, Announced, TakeSector, TakeScr, call
<1>6. CASE Controller \/ UNCHANGED vars
    BY <1>6 DEF Controller, vars, call
<1> QED
    BY <1>1, <1>2, <1>3, <1>4, <1>5, <1>6 DEF Next, Driver

LEMMA WholeStep ==
    ASSUME Whole, [Next]_vars
    PROVE  Whole'
<1>1. Inv' /\ Flow' /\ InitGoes' /\ lba' \in Nat
    BY NextInv, FlowStep, InitGoesStep, LbaStep DEF Whole
<1>2. ASSUME init', ~ late' PROVE Ready' /\ ReadGoes'
  <2>1. CASE ~ init
    <3>1. Ready' /\ todo' = <<>>
      BY <1>2, <2>1, InitEnds DEF Whole
    <3> QED
      BY <3>1 DEF ReadGoes
  <2>2. CASE init
    <3>1. ~ late
      <4>1. ~ Reset /\ ~ ResetFails
        BY <2>2 DEF Whole, Flow, Reset, ResetFails
      <4> QED
        BY <1>2, <4>1, LateStays
    <3> QED
      BY <1>2, <2>2, <3>1, ReadyStep, ReadGoesStep DEF Whole
  <2> QED
    BY <2>1, <2>2
<1> QED
    BY <1>1, <1>2 DEF Whole

LEMMA WholeAlways == Spec => []Whole
BY WholeInit, WholeStep, PTL DEF Spec

(* A read that succeeds on an initialised card brought exactly the sectors *)
(* asked for, in order, for every card, request and limit on the polls, as *)
(* long as no poll ran out unnoticed since the reset: nothing that was     *)
(* reported as failed before it, no command an earlier read left on the    *)
(* line and no sector it left in the buffer takes a place in it            *)
(* (sd.c:321-447).  From an unnoticed poll on nothing is claimed, and with *)
(* init set no later reset comes.                                          *)
THEOREM ReadsAreRight == Spec => []ReadIsRight
<1>1. Whole => ReadIsRight
    BY DEF Whole, Ready, ReadIsRight
<1> QED
    BY <1>1, WholeAlways, PTL

(* And on the same conditions it leaves the card in its transfer state with*)
(* the data path free: an open transfer was stopped, a counted one has     *)
(* ended (sd.c:418-444).                                                   *)
THEOREM ReadsLeaveIdle == Spec => []ReadLeavesIdle
<1>1. Whole => ReadLeavesIdle
    BY DEF Whole, Ready, ReadLeavesIdle
<1> QED
    BY <1>1, WholeAlways, PTL

(* As long as no poll ran out unnoticed since the reset,                   *)
(* sd_init only ever takes for initialised a card that has given its       *)
(* address, is selected, and is addressed as it wants to be, whatever bit 0*)
(* of the SCR holds (sd.c:694-891).                                        *)
THEOREM InitSelects == Spec => InitMeansSelected
<1>1. Whole /\ [Next]_vars
      => [init' /\ ~ init /\ ~ late' =>
            /\ mode.st = "tran" /\ sd_rca
            /\ sd_scr' = [hc |-> card.hc, blkcnt |-> card.blkcnt, wide |-> card.wide]]_vars
    BY InitEnds DEF Whole, Caps
<1> QED
    BY <1>1, WholeAlways, PTL DEF Spec, InitMeansSelected
=============================================================================
