------------------------------- MODULE Console -------------------------------
(***************************************************************************)
(* The framebuffer console (driver/framebuffer/lfb.c) and the mailbox call *)
(* it is set up with (driver/mbox/mbox.c).  lfb_init asks the GPU for a    *)
(* framebuffer, printf's characters are drawn at the cursor by lfb_putchar,*)
(* two routines draw a picture, lfb_clear blanks the screen.  The GPU      *)
(* answers when it likes, after answers that are not for this call.        *)
(*                                                                         *)
(* Memory is counted in pixels of four bytes.  A pixel drawn for a         *)
(* character holds which pixel of which glyph it is.                       *)
(***************************************************************************)
EXTENDS Integers, Sequences

CONSTANTS
    FontW, FontH, TabWidth,
    Modes,               \* [width, height, pitch] the GPU may set up
    Pictures,            \* [w, h] of the two pictures
    PixelSpace,          \* addresses wrap here
    Letters,             \* the characters with a glyph
    MaxTyped,            \* bound: characters printed between two clearings
    MaxForeign           \* bound: answers to others in the mailbox

VARIABLES
    lfb,                 \* the framebuffer's address, 0 when disabled
    width, height, pitch, console_cols, console_rows, cursor_x, cursor_y,
    fb,                  \* the pixels from lfb on
    pc,                  \* "idle", or in mbox_call: "write", "wait"
    mbox,                \* the message buffer: [code, depth, base, mode]
    full,                \* the GPU has not taken earlier messages yet
    replies,             \* the mailbox to read from
    typed,               \* history: characters since the screen was begun
    begun,               \* history: what it was begun with
    pictured,            \* history: a picture has been drawn on it
    outside              \* history: addresses beside the framebuffer, counted from lfb as fb
                         \* is, that drawing has reached since lfb_init

geometry == <<lfb, width, height, pitch, console_cols, console_rows>>
cursor == <<cursor_x, cursor_y>>
mailbox == <<pc, mbox, full, replies>>
history == <<typed, begun, pictured, outside>>
vars == <<geometry, cursor, fb, mailbox, history>>

NoMode == [width |-> 0, height |-> 0, pitch |-> 0]
Blank == <<>>
Junk == <<"junk">>
FbAddress == PixelSpace \div 2

ASSUME FontAssumption == {FontW, FontH, TabWidth} \subseteq Nat \ {0}
(* A mode holds a character, its lines are at least as far apart as they   *)
(* are long, and it fits the memory.                                       *)
ASSUME ModesAssumption ==
    \A m \in Modes :
        /\ m \in [width : Nat, height : Nat, pitch : Nat]
        /\ m.width >= FontW /\ m.height >= FontH /\ m.pitch >= m.width
        /\ m.height * m.pitch <= PixelSpace
(* The pictures fit every mode (200 x 90 and 96 x 64 on 640 x 480). *)
ASSUME PicturesAssumption ==
    \A q \in Pictures :
        /\ q.w \in Nat /\ q.h \in Nat
        /\ \A m \in Modes : q.w <= m.width /\ q.h <= m.height
(* What moves the cursor has no glyph. *)
ASSUME LettersAssumption ==
    MaxTyped \in Nat /\ Letters \cap {"CR", "LF", "TAB", "BS", Blank, Junk} = {}
ASSUME SpaceAssumption == PixelSpace \in Nat /\ PixelSpace > 1

----------------------------------------------------------------------------
(* Drawing: operators from a framebuffer to a framebuffer.                 *)

Offset(px, py) == py * pitch + px

(* The pixels of a character's place that are on the screen. *)
Area(col, row) ==
    {q \in ((col * FontW) .. (col * FontW + FontW - 1))
           \X ((row * FontH) .. (row * FontH + FontH - 1)) :
        q[1] < width /\ q[2] < height}

Reached(area) == {Offset(q[1], q[2]) : q \in area}

(* lfb_draw_char. *)
Drawn(f, c, col, row) ==
    LET area == Area(col, row)
        at(o) == CHOOSE q \in area : Offset(q[1], q[2]) = o
    IN  [o \in DOMAIN f |->
            IF o \in Reached(area)
            THEN <<c, at(o)[1] - col * FontW, at(o)[2] - row * FontH>> ELSE f[o]]

(* lfb_clear_cell. *)
Cleared(f, col, row) ==
    [o \in DOMAIN f |-> IF o \in Reached(Area(col, row)) THEN Blank ELSE f[o]]

(* lfb_clear_row. *)
RowReached(row) == UNION {Reached(Area(col, row)) : col \in 0 .. (console_cols - 1)}

(* Mutant: only the pixels shown are moved. *)
ScrolledShown(f) ==
    [o \in DOMAIN f |->
        IF o \in RowReached(console_rows - 1) THEN Blank
        ELSE IF o < (height - FontH) * width THEN f[o + FontH * width] ELSE f[o]]

(* Mutant: the line after the last one is moved too. *)
MovedLinesOneMore == FontH .. height

(* The lines lfb_scroll moves up by the height of a character. *)
MovedLines == FontH .. (height - 1)

(* Where the scroll reads and writes: whole lines of pitch. *)
ScrollReached ==
    {Offset(x, y) : x \in 0 .. (pitch - 1), y \in MovedLines}
    \union {Offset(x, y - FontH) : x \in 0 .. (pitch - 1), y \in MovedLines}
    \union RowReached(console_rows - 1)

(* lfb_scroll: the lines are moved, then the last row is cleared. *)
Scrolled(f) ==
    [o \in DOMAIN f |->
        IF o \in RowReached(console_rows - 1) THEN Blank
        ELSE IF (o \div pitch) + FontH \in MovedLines /\ o + FontH * pitch \in DOMAIN f
             THEN f[o + FontH * pitch] ELSE f[o]]

(* lfb_clear: width pixels of each line. *)
ClearReached == Reached((0 .. (width - 1)) \X (0 .. (height - 1)))

(* The addresses drawing has reached: those beside the framebuffer stay on record. *)
Touch(offsets) == outside' = outside \union (offsets \ DOMAIN fb)

----------------------------------------------------------------------------
Request == [code |-> "request", depth |-> 32, base |-> 4096, mode |-> NoMode]

ConsoleTypeOK ==
    /\ lfb \in {0, FbAddress} /\ {cursor_x, cursor_y} \subseteq Nat
    /\ [width |-> width, height |-> height, pitch |-> pitch] \in Modes \union {NoMode}
    /\ console_cols = width \div FontW /\ console_rows = height \div FontH
    /\ DOMAIN fb = 0 .. (height * pitch - 1)
    /\ pc \in {"idle", "write", "wait"}
    /\ mbox.code \in {"request", "response", "error"} /\ mbox.mode \in Modes \union {NoMode}
    /\ replies \in Seq({"ours", "foreign"}) /\ Len(replies) <= MaxForeign + 1

ConsoleInit ==
    /\ lfb = 0 /\ width = 0 /\ height = 0 /\ pitch = 0
    /\ console_cols = 0 /\ console_rows = 0 /\ cursor_x = 0 /\ cursor_y = 0
    /\ fb = <<>>
    /\ pc = "idle" /\ full \in BOOLEAN /\ replies = <<>>
    /\ mbox = [Request EXCEPT !.code = "error", !.depth = 0, !.base = 0]
    /\ typed = <<>> /\ begun = Junk /\ pictured = FALSE /\ outside = {}

----------------------------------------------------------------------------
(* The mailbox.                                                            *)

(* lfb_init fills the message and calls. *)
LfbInit ==
    /\ pc = "idle" /\ pc' = "write"
    /\ mbox' = Request
    /\ UNCHANGED <<geometry, cursor, fb, full, replies, history>>

MboxWrite ==
    /\ pc = "write" /\ ~ full
    /\ pc' = "wait"
    /\ UNCHANGED <<geometry, cursor, fb, mbox, full, replies, history>>

(* The GPU takes the messages that filled the mailbox. *)
GpuDrain ==
    /\ full /\ full' = FALSE
    /\ UNCHANGED <<geometry, cursor, fb, pc, mbox, replies, history>>

(* An answer for another channel; only while the call waits for its own. *)
GpuForeign ==
    /\ pc = "wait" /\ Len(replies) < MaxForeign /\ mbox.code = "request"
    /\ replies' = Append(replies, "foreign")
    /\ UNCHANGED <<geometry, cursor, fb, pc, mbox, full, history>>

(* The GPU writes its answer into the message and tells of it: a mode, a   *)
(* mode of another depth, no framebuffer, or that the request failed.      *)
GpuAnswer ==
    /\ pc = "wait" /\ mbox.code = "request"
    /\ mbox' \in {[code |-> "response", depth |-> 32, base |-> FbAddress, mode |-> m] : m \in Modes}
                 \union {[code |-> "response", depth |-> 16, base |-> FbAddress, mode |-> m] : m \in Modes}
                 \union {[Request EXCEPT !.code = "response", !.base = 0],
                         [Request EXCEPT !.code = "error"]}
    /\ replies' = Append(replies, "ours")
    /\ UNCHANGED <<geometry, cursor, fb, pc, full, history>>

MboxDiscard ==
    /\ pc = "wait" /\ replies # <<>> /\ Head(replies) = "foreign"
    /\ replies' = Tail(replies)
    /\ UNCHANGED <<geometry, cursor, fb, pc, mbox, full, history>>

(* Mutant: the code of the answer is not looked at. *)
UsableAnyCode == mbox.depth = 32 /\ mbox.base # 0

Usable == mbox.code = "response" /\ mbox.depth = 32 /\ mbox.base # 0

Begin(m, base) ==
    /\ lfb' = base
    /\ width' = m.width /\ height' = m.height /\ pitch' = m.pitch
    /\ console_cols' = m.width \div FontW /\ console_rows' = m.height \div FontH
    /\ cursor_x' = 0 /\ cursor_y' = 0
    /\ fb' = [o \in 0 .. (m.height * m.pitch - 1) |-> Junk]
    /\ typed' = <<>> /\ begun' = Junk /\ pictured' = FALSE /\ outside' = {}

(* The answer to this call: lfb_init goes on. *)
LfbInitDone ==
    /\ pc = "wait" /\ replies # <<>> /\ Head(replies) = "ours"
    /\ replies' = Tail(replies) /\ pc' = "idle"
    /\ IF Usable THEN Begin(mbox.mode, mbox.base) ELSE Begin(NoMode, 0)
    /\ UNCHANGED <<mbox, full>>

----------------------------------------------------------------------------
(* lfb_putchar: a character printed while the framebuffer is there.  What  *)
(* it ignores changes nothing.                                             *)
Printing(c) ==
    /\ pc = "idle" /\ lfb # 0 /\ Len(typed) < MaxTyped
    /\ typed' = Append(typed, c)
    /\ UNCHANGED <<geometry, mailbox, begun, pictured>>

(* The bottom of the console: the cursor stays on the last row.  f has been*)
(* drawn, at the addresses drawn.                                          *)
Settle(f, drawn, y) ==
    IF y >= console_rows
    THEN /\ fb' = Scrolled(f) /\ cursor_y' = console_rows - 1
         /\ Touch(drawn \union ScrollReached)
    ELSE fb' = f /\ cursor_y' = y /\ Touch(drawn)

(* The place after x, with the line wrapped. *)
MoveTo(f, drawn, x) ==
    IF x >= console_cols THEN cursor_x' = 0 /\ Settle(f, drawn, cursor_y + 1)
    ELSE cursor_x' = x /\ Settle(f, drawn, cursor_y)

Return ==
    /\ Printing("CR") /\ cursor_x' = 0
    /\ UNCHANGED <<cursor_y, fb, outside>>

Newline ==
    /\ Printing("LF") /\ cursor_x' = 0
    /\ Settle(fb, {}, cursor_y + 1)

TabKey ==
    /\ Printing("TAB")
    /\ MoveTo(fb, {}, ((cursor_x + TabWidth) \div TabWidth) * TabWidth)

(* Backspace and DEL, within the line only. *)
Erase ==
    /\ Printing("BS")
    /\ IF cursor_x > 0
       THEN /\ cursor_x' = cursor_x - 1
            /\ fb' = Cleared(fb, cursor_x - 1, cursor_y)
            /\ Touch(Reached(Area(cursor_x - 1, cursor_y)))
       ELSE UNCHANGED <<cursor_x, fb, outside>>
    /\ UNCHANGED cursor_y

Letter(c) ==
    /\ Printing(c)
    /\ MoveTo(Drawn(fb, c, cursor_x, cursor_y), Reached(Area(cursor_x, cursor_y)), cursor_x + 1)

LfbClear ==
    /\ pc = "idle" /\ lfb # 0
    /\ fb' = [o \in DOMAIN fb |-> IF o \in ClearReached THEN Blank ELSE fb[o]]
    /\ Touch(ClearReached)
    /\ cursor_x' = 0 /\ cursor_y' = 0
    /\ typed' = <<>> /\ begun' = Blank /\ pictured' = FALSE
    /\ UNCHANGED <<geometry, mailbox>>

----------------------------------------------------------------------------
(* lfb_showpicture and lfb_showhomer: the addresses of a picture of w by h *)
(* pixels, from the framebuffer's, whether there is one or not.            *)
Wrap(a) == a % PixelSpace
PictureStart(q) == Wrap(((height - q.h) \div 2) * pitch + (width - q.w) \div 2)

PictureOffsets(q) ==
    {Wrap(PictureStart(q) + y * pitch + x) : x \in 0 .. (q.w - 1), y \in 0 .. (q.h - 1)}

ShowPicture(q) ==
    /\ pc = "idle"
    /\ fb' = [o \in DOMAIN fb |-> IF o \in PictureOffsets(q) THEN <<"picture">> ELSE fb[o]]
    /\ Touch(PictureOffsets(q))
    /\ pictured' = TRUE
    /\ UNCHANGED <<geometry, cursor, mailbox, typed, begun>>

Gpu == GpuDrain \/ GpuForeign \/ GpuAnswer
Mbox == MboxWrite \/ MboxDiscard \/ LfbInitDone
Putchar == Return \/ Newline \/ TabKey \/ Erase \/ \E c \in Letters : Letter(c)
Next ==
    \/ LfbInit \/ Gpu \/ Mbox \/ Putchar \/ LfbClear
    \/ \E q \in Pictures : ShowPicture(q)

Spec == ConsoleInit /\ [][Next]_vars

----------------------------------------------------------------------------
(* What a terminal with lines of cols would have on its paper: the line and*)
(* column it is at and the places written, a later one over an earlier.    *)
PaperTo(t, put, col, cols) ==
    IF col >= cols THEN [line |-> t.line + 1, col |-> 0, put |-> put]
    ELSE [line |-> t.line, col |-> col, put |-> put]

PaperStep(t, c, cols) ==
    CASE c = "CR" -> PaperTo(t, t.put, 0, cols)
      [] c = "LF" -> PaperTo(t, t.put, cols, cols)
      [] c = "TAB" -> PaperTo(t, t.put, TabWidth * (t.col \div TabWidth + 1), cols)
      [] c = "BS" -> IF t.col = 0 THEN t
                     ELSE PaperTo(t, [t.put EXCEPT ![<<t.line, t.col - 1>>] = Blank], t.col - 1, cols)
      [] OTHER -> PaperTo(t, [t.put EXCEPT ![<<t.line, t.col>>] = c], t.col + 1, cols)

Sheet(ground, rows, cols) ==
    [q \in (0 .. (MaxTyped + rows)) \X (0 .. (cols - 1)) |-> IF q[1] < rows THEN ground ELSE Blank]

Paper(text, ground, rows, cols) ==
    LET paper[n \in 0 .. Len(text)] ==
            IF n = 0 THEN [line |-> 0, col |-> 0, put |-> Sheet(ground, rows, cols)]
            ELSE PaperStep(paper[n - 1], text[n], cols)
    IN  paper[Len(text)]

(* The cell of the screen holds v and nothing of another. *)
CellHolds(col, row, v) ==
    \A x \in 0 .. (FontW - 1), y \in 0 .. (FontH - 1) :
        fb[Offset(col * FontW + x, row * FontH + y)]
            = IF v \in Letters THEN <<v, x, y>> ELSE v

(* Pixel by pixel, the screen is the last console_rows lines of what has   *)
(* been printed since it was begun, with the cursor where the next         *)
(* character goes: wrapping, tabs, erasing and scrolling lose, repeat and  *)
(* misplace nothing, and a line scrolled in is blank (lfb.c:281-453).      *)
ScreenIsTail ==
    lfb # 0 /\ pc = "idle" /\ ~ pictured =>
        LET t == Paper(typed, begun, console_rows, console_cols)
            top == IF t.line < console_rows THEN 0 ELSE t.line - console_rows + 1
        IN  /\ cursor_x = t.col /\ cursor_y = t.line - top
            /\ \A row \in 0 .. (console_rows - 1), col \in 0 .. (console_cols - 1) :
                  CellHolds(col, row, t.put[top + row, col])

(* With a framebuffer, whatever its lines' pitch and the pixels left over  *)
(* at its edges, no character, no cell or screen cleared, no line moved or *)
(* read by the scroll and no picture reaches an address beside it          *)
(* (lfb.c:187, 243, 297-310, 468, 560-572).  Pictures drawn without a      *)
(* framebuffer are left out: the code draws them at address 0 and on.      *)
DrawsInside == [][lfb # 0 => outside' = outside]_vars

(* The cursor is on the screen whenever there is one, so that the last row *)
(* is there to be cleared and console_rows - 1 does not wrap (lfb.c:310,   *)
(* 450).                                                                   *)
CursorInside == lfb # 0 => cursor_x < console_cols /\ cursor_y < console_rows

(* The framebuffer is the one of an answer to this call: while lfb is set  *)
(* and no call is running, the last message came back with a response, the *)
(* depth asked for and this geometry, whatever else was in the mailbox     *)
(* (mbox.c:57-59, lfb.c:95-108).                                           *)
GeometryIsAnswered ==
    pc = "idle" /\ lfb # 0 =>
        /\ mbox.code = "response" /\ mbox.depth = 32 /\ lfb = mbox.base
        /\ mbox.mode = [width |-> width, height |-> height, pitch |-> pitch]
=============================================================================
