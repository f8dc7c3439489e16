------------------------------- MODULE Shell -------------------------------
(***************************************************************************)
(* main.c: what vladBootin_main tries one after the other, and the shell   *)
(* it ends in.  The shell edits a line in a buffer, echoes what it takes,  *)
(* and splits the line in a command and its arguments.                     *)
(*                                                                         *)
(* The three loaders are known by how they return: SerialDevice models     *)
(* bootFromSerial, FileBoot bootFromFile, SdCard sd_init, Signature the    *)
(* check of the image.  A command that changes nothing of this module      *)
(* (help, banner, printf, mem, dump, testalloc, memreset, homer, clearfb,  *)
(* testrsa) is "other", and so is a line that is no command.               *)
(***************************************************************************)
EXTENDS Naturals, Sequences, FiniteSets

CONSTANTS
    CmdBufferLength,   \* CMD_BUFFER_LENGTH, 256
    ArgLength,         \* 128: size of the buffers for the arguments of boot
    Letters,           \* printable characters other than the space
    Name               \* command -> what is typed for it

Commands == {"serialboot", "debug", "sdinit", "fileboot", "testfile", "ls",
             "relocate", "fatpart", "cat", "boot", "hexcat", "other"}

ASSUME ShellAssumption ==
    /\ CmdBufferLength \in Nat \ {0} /\ ArgLength \in Nat \ {0}
    /\ " " \notin Letters /\ "NUL" \notin Letters
    /\ Name \in [Commands \ {"other"} -> Seq(Letters) \ {<<>>}]
    /\ \A f, g \in DOMAIN Name : Name[f] = Name[g] => f = g

VARIABLES
    pc,                \* where the program is; "left" for Linux, "lost" in
                       \* the relocated copy, "halted", "returned" to start.S
    command, position, \* of handleMenu; the cell CmdBufferLength is the byte
                       \* past the buffer
    DEBUG, sd_ret,
    cmd, args,         \* parseCommand's two halves of the last line
    names,             \* k_arg and dtb_arg while bootFromFile runs
    card,              \* external: how the last sd_init left the card
    reads,             \* the last command tested sd_ret and went to the card
    seen               \* external: the line on the terminal after the prompt

line == <<command, position, seen>>
parsed == <<cmd, args>>
vars == <<pc, line, DEBUG, sd_ret, parsed, names, card, reads>>

Printable == Letters \cup {" "}
Empty == [i \in 0 .. CmdBufferLength |-> "NUL"]

NoNames == <<<<>>, <<>>>>

Init ==
    /\ pc = "start"
    /\ command = Empty /\ position = 0 /\ seen = <<>>
    /\ DEBUG = FALSE /\ sd_ret = "SD_OK"
    /\ cmd = <<>> /\ args = <<>> /\ names = NoNames
    /\ card = "untried" /\ reads = FALSE

(***************************************************************************)
(* vladBootin_main.                                                        *)
(***************************************************************************)
Main(from, to) ==
    /\ pc = from /\ pc' = to
    /\ UNCHANGED <<line, DEBUG, parsed, names, reads>>

SelfCheck ==
    /\ Main("start", "serial") \/ Main("start", "halted")
    /\ UNCHANGED <<sd_ret, card>>

(* RET_ERR and RET_EXIT go to the shell, RET_TIMEOUT on to the card.       *)
BootFromSerial ==
    /\ \E to \in {"menu", "card", "left"} : Main("serial", to)
    /\ UNCHANGED <<sd_ret, card>>

(* The driver's answer: SD_OK when the card answered every command.        *)
SdInit ==
    \/ sd_ret' = "SD_OK" /\ card' = "ready"
    \/ sd_ret' = "SD_ERROR" /\ card' = "dead"

BootInitCard ==
    \E to \in {"file", "returned"} :
        /\ Main("card", to)
        /\ SdInit
        /\ (to = "file") = (sd_ret' = "SD_OK")

(* Called by vladBootin_main and by the commands fileboot and boot.        *)
BootFromFile ==
    /\ pc = "file" /\ pc' \in {"menu", "left"}
    /\ names' = NoNames
    /\ UNCHANGED <<line, DEBUG, sd_ret, parsed, card, reads>>

(***************************************************************************)
(* handleMenu: one key.                                                    *)
(***************************************************************************)
(* Mutant: the comparison admits one character more than the buffer holds. *)
FitsAtTheEnd(p) == p <= CmdBufferLength

Fits(p) == p < CmdBufferLength

Type(ch) ==
    /\ Fits(position)
    /\ command' = [command EXCEPT ![position] = ch]
    /\ position' = position + 1
    /\ seen' = Append(seen, ch)

(* Mutant: the character is taken from the buffer and left on the screen.  *)
RubSilently ==
    /\ Fits(position) /\ position > 0
    /\ position' = position - 1
    /\ command' = [command EXCEPT ![position'] = "NUL"]
    /\ UNCHANGED seen

(* Backspace and delete: back, blank, back on the terminal.                *)
Rub ==
    /\ Fits(position) /\ position > 0
    /\ position' = position - 1
    /\ command' = [command EXCEPT ![position'] = "NUL"]
    /\ seen' = SubSeq(seen, 1, Len(seen) - 1)

(* Other control characters are ignored: a step that changes nothing.      *)
(* Any key but Enter after a full line: it is lost with the line, but the  *)
(* buffer is not emptied.                                                  *)
TooLong ==
    /\ ~Fits(position)
    /\ position' = 0 /\ seen' = <<>>
    /\ UNCHANGED command

Key ==
    /\ pc = "menu"
    /\ \/ \E ch \in Printable : Type(ch)
       \/ Rub
       \/ TooLong
    /\ UNCHANGED <<pc, DEBUG, sd_ret, parsed, names, card, reads>>

(***************************************************************************)
(* parseCommand.                                                           *)
(***************************************************************************)
(* Length of the longest beginning of s with characters of C, up to most.  *)
Run(s, C, most) ==
    CHOOSE n \in 0 .. Len(s) :
        /\ n <= most /\ \A i \in 1 .. n : s[i] \in C
        /\ n < Len(s) /\ n < most => s[n + 1] \notin C

Rest(s, n) == SubSeq(s, n + 1, Len(s))

Line(buf, length) == [i \in 1 .. length |-> buf[i - 1]]

Split(s) ==
    LET n == Run(s, Letters, Len(s))
        tail == Rest(s, n + 1)
    IN  <<SubSeq(s, 1, n), SubSeq(tail, 1, Run(tail, Printable, Len(tail)))>>

(* Enter terminates the line, at position CmdBufferLength past the buffer. *)
Enter ==
    /\ pc = "menu" /\ pc' = "command"
    /\ command' = [command EXCEPT ![position] = "NUL"]
    /\ \E halves \in {Split(Line(command', position))} :
          cmd' = halves[1] /\ args' = halves[2]
    /\ UNCHANGED <<position, seen, DEBUG, sd_ret, names, card, reads>>

(* bufCompare takes a command typed in full, and the empty line for none.  *)
Called(f) ==
    IF f = "other" THEN \A g \in DOMAIN Name : cmd # Name[g] ELSE cmd = Name[f]

(* A command empties the three buffers, and the prompt is back when it is. *)
Command(f, to) ==
    /\ pc = "command" /\ Called(f)
    /\ pc' = to
    /\ command' = [i \in 0 .. CmdBufferLength |->
                     IF i < CmdBufferLength THEN "NUL" ELSE command[i]]
    /\ position' = 0 /\ seen' = <<>>
    /\ cmd' = <<>> /\ args' = <<>>

(* Mutant: one space is skipped before each name.                          *)
BootNamesOneSpace(s) ==
    LET Skip(t) == Rest(t, Run(t, {" "}, 1))
        Word(t) == Run(t, Letters, ArgLength - 1)
        k == Skip(s)
        d == Skip(Rest(k, Word(k)))
    IN  <<SubSeq(k, 1, Word(k)), SubSeq(d, 1, Word(d))>>

(* The two words after boot; an empty one is passed on as NULL.            *)
BootNames(s) ==
    LET Skip(t) == Rest(t, Run(t, {" "}, Len(t)))
        Word(t) == Run(t, Letters, ArgLength - 1)
        k == Skip(s)
        d == Skip(Rest(k, Word(k)))
    IN  <<SubSeq(k, 1, Word(k)), SubSeq(d, 1, Word(d))>>

DebugCommand ==
    /\ Command("debug", "menu")
    /\ DEBUG' = ~DEBUG
    /\ reads' = FALSE
    /\ UNCHANGED <<sd_ret, card, names>>

InitCommand ==
    /\ \E f \in {"sdinit", "ls"} : Command(f, "menu")
    /\ SdInit
    /\ reads' = FALSE
    /\ UNCHANGED <<DEBUG, names>>

(* The commands that leave the program's variables as they are, with how   *)
(* they may end.  relocate copies each byte to a word of its own and jumps *)
(* there.                                                                  *)
OtherCommand ==
    /\ \/ \E f \in {"other", "fatpart", "serialboot"} : Command(f, "menu")
       \/ Command("serialboot", "left")
       \/ Command("fileboot", "file")
       \/ Command("relocate", "lost")
    /\ reads' = FALSE
    /\ UNCHANGED <<DEBUG, sd_ret, card, names>>

BootCommand ==
    /\ Command("boot", "file")
    /\ names' = BootNames(args)
    /\ reads' = FALSE
    /\ UNCHANGED <<DEBUG, sd_ret, card>>

(* Mutant: the card is read whatever the second initialisation says.       *)
ReadCommandAnyway ==
    /\ \E f \in {"cat", "hexcat", "testfile"} : Command(f, "menu")
    /\ IF sd_ret = "SD_OK" THEN UNCHANGED <<sd_ret, card>> ELSE SdInit
    /\ reads' = TRUE
    /\ UNCHANGED <<DEBUG, names>>

(* cat, hexcat and testfile initialise the card if the last try failed, and*)
(* read it if it is said to be there.                                      *)
ReadCommand ==
    /\ \E f \in {"cat", "hexcat", "testfile"} : Command(f, "menu")
    /\ IF sd_ret = "SD_OK" THEN UNCHANGED <<sd_ret, card>> ELSE SdInit
    /\ reads' = (sd_ret' = "SD_OK")
    /\ UNCHANGED <<DEBUG, names>>

Next ==
    \/ SelfCheck \/ BootFromSerial \/ BootInitCard \/ BootFromFile
    \/ Key \/ Enter
    \/ DebugCommand \/ InitCommand \/ OtherCommand \/ BootCommand \/ ReadCommand

Spec == Init /\ [][Next]_vars

-----------------------------------------------------------------------------
(* What is run is what is on the screen: the command and its arguments are *)
(* the line the terminal shows, cut at its first space, whatever was typed,*)
(* rubbed out or thrown away as too long before.                           *)
LineShownIsParsed ==
    pc = "command" =>
        /\ \A i \in DOMAIN cmd : cmd[i] # " "
        /\ \/ seen = cmd /\ args = <<>>
           \/ seen = cmd \o <<" ">> \o args

(* Of the bytes handleMenu stores only the NUL that ends a full line goes  *)
(* past the buffer, and it goes to the first byte after it.                *)
OnlyTheNulSpills ==
    /\ position \in 0 .. CmdBufferLength
    /\ command[CmdBufferLength] = "NUL"
    /\ pc = "command" => command[position] = "NUL"

(* boot passes on the first two words of its arguments, unless a word is   *)
(* longer than the buffer for it.                                          *)
Words(s) ==
    {w \in (1 .. Len(s)) \X (1 .. Len(s)) :
        /\ \A i \in 1 .. Len(s) : w[1] <= i /\ i <= w[2] => s[i] # " "
        /\ w[1] <= w[2]
        /\ w[1] > 1 => s[w[1] - 1] = " "
        /\ w[2] < Len(s) => s[w[2] + 1] = " "}

NthWord(s, n) ==
    LET before(w) == {v \in Words(s) : v[1] < w[1]}
        nth == {w \in Words(s) : Cardinality(before(w)) = n - 1}
    IN  IF nth = {} THEN <<>> ELSE LET w == CHOOSE w \in nth : TRUE IN SubSeq(s, w[1], w[2])

BootTakesTheWordsTyped ==
    [][BootCommand /\ (\A w \in Words(args) : w[2] - w[1] < ArgLength - 1)
        => names' = <<NthWord(args, 1), NthWord(args, 2)>>]_vars

(* Once the card was tried, a command that tests sd_ret reads it only when *)
(* the last initialisation succeeded, whichever command made it.           *)
ReadsAReadyCard == reads => card \in {"untried", "ready"}

(* main.c:643 says of the first attempt that "If it fails go to shell.":   *)
(* then vladBootin_main never returns to start.S.                          *)
ShellWhenNothingBoots == pc # "returned"
=============================================================================
