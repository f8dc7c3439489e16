---------------------------- MODULE ConsoleProofs ----------------------------
(***************************************************************************)
(* Proofs about Console for every font, mode, picture and bound: the cursor*)
(* stays on the screen, with a framebuffer nothing is drawn outside it, its*)
(* geometry is the one the GPU answered, and the screen is, pixel by pixel,*)
(* the end of what was printed.                                            *)
(***************************************************************************)
EXTENDS Console, SequenceTheorems, WellFoundedInduction, TLAPS

(* While there is a framebuffer its geometry is that of a mode.            *)
Geometry ==
    /\ {width, height, pitch} \subseteq Nat
    /\ width >= FontW /\ height >= FontH /\ pitch >= width
    /\ height * pitch <= PixelSpace
    /\ \A q \in Pictures : q.w <= width /\ q.h <= height
    /\ console_cols \in Nat \ {0} /\ console_rows \in Nat \ {0}
    /\ DOMAIN fb = 0 .. (height * pitch - 1)

OnScreen == cursor_x \in 0 .. (console_cols - 1) /\ cursor_y \in 0 .. (console_rows - 1)

AnswerSound == mbox.code = "response" /\ mbox.base # 0 => mbox.mode \in Modes

IInv == AnswerSound /\ (lfb # 0 => Geometry /\ OnScreen)

----------------------------------------------------------------------------
(* A screen at least as long as a character has room for one.              *)
LEMMA DivPositive ==
    ASSUME NEW a \in Nat, NEW b \in Nat, b > 0, a >= b
    PROVE  a \div b \in Nat \ {0}
<1>1. a = b * (a \div b) + (a % b) /\ a % b \in 0 .. (b - 1) /\ a \div b \in Int
  BY SMT
<1>2. a \div b > 0
  <2>1. SUFFICES ASSUME a \div b <= 0 PROVE FALSE
    BY <1>1
  <2>2. b * (a \div b) <= 0
    BY <2>1, <1>1, SMT
  <2> QED BY <1>1, <2>2
<1> QED BY <1>1, <1>2

(* The tab stop after a column is a column. *)
LEMMA TabNat ==
    ASSUME NEW x \in Nat
    PROVE  ((x + TabWidth) \div TabWidth) * TabWidth \in Nat
<1>1. TabWidth \in Nat /\ TabWidth > 0
  BY FontAssumption
<1>2. x + TabWidth \in Nat /\ x + TabWidth >= TabWidth
  BY <1>1
<1>3. (x + TabWidth) \div TabWidth \in Nat
  BY <1>1, <1>2, DivPositive
<1> QED BY <1>1, <1>3

(* A pixel of the screen is in the framebuffer. *)
LEMMA PixelInside ==
    ASSUME NEW w \in Nat, NEW h \in Nat, NEW pt \in Nat, pt >= w,
           NEW px \in Nat, NEW py \in Nat, px < w, py < h
    PROVE  py * pt + px \in 0 .. (h * pt - 1)
<1>1. py * pt + px \in Nat /\ h * pt \in Nat
  OBVIOUS
<1>2. (py + 1) * pt <= h * pt
  BY SMT
<1>3. (py + 1) * pt = py * pt + pt
  BY SMT
<1> QED BY <1>1, <1>2, <1>3

(* So is all of a character's place, wherever it is. *)
LEMMA AreaInside ==
    ASSUME Geometry, NEW col \in Nat, NEW row \in Nat
    PROVE  Reached(Area(col, row)) \subseteq DOMAIN fb
<1>1. ASSUME NEW q \in Area(col, row)
      PROVE  Offset(q[1], q[2]) \in 0 .. (height * pitch - 1)
  <2>1. col * FontW \in Nat /\ row * FontH \in Nat
    BY FontAssumption
  <2>2. q[1] \in Nat /\ q[2] \in Nat /\ q[1] < width /\ q[2] < height
    BY <2>1, FontAssumption DEF Area
  <2> QED BY <2>2, PixelInside DEF Offset, Geometry
<1> QED BY <1>1 DEF Reached, Geometry

(* The middle of a longer side leaves room for the shorter. *)
LEMMA HalfFits ==
    ASSUME NEW a \in Nat, NEW b \in Nat, a <= b, NEW i \in 0 .. (a - 1)
    PROVE  (b - a) \div 2 + i \in Nat /\ (b - a) \div 2 + i < b /\ (b - a) \div 2 \in Nat
  OBVIOUS

(* And all of a picture. *)
LEMMA PictureInside ==
    ASSUME Geometry, NEW q \in Pictures
    PROVE  PictureOffsets(q) \subseteq DOMAIN fb
<1> DEFINE x0 == (width - q.w) \div 2
           y0 == (height - q.h) \div 2
<1>1. ASSUME NEW x \in 0 .. (q.w - 1), NEW y \in 0 .. (q.h - 1)
      PROVE  Wrap(PictureStart(q) + y * pitch + x) \in 0 .. (height * pitch - 1)
  <2>1. q.w \in Nat /\ q.h \in Nat /\ q.w <= width /\ q.h <= height
    BY PicturesAssumption DEF Geometry
  <2>2. {width, height, pitch} \subseteq Nat /\ pitch >= width /\ height * pitch <= PixelSpace
    BY DEF Geometry
  <2>3. x0 + x \in Nat /\ x0 + x < width /\ x0 \in Nat
    BY <2>1, <2>2, HalfFits
  <2>4. y0 + y \in Nat /\ y0 + y < height /\ y0 \in Nat
    BY <2>1, <2>2, HalfFits
  <2>5. (y0 + y) * pitch + (x0 + x) \in 0 .. (height * pitch - 1)
    BY <2>2, <2>3, <2>4, PixelInside
  <2>6. y0 * pitch + x0 \in 0 .. (height * pitch - 1)
    <3> HIDE DEF x0, y0
    <3>0. x \in Nat /\ y \in Nat
      BY <2>1
    <3>1. y0 < height /\ x0 < width
      BY <2>2, <2>3, <2>4, <3>0
    <3> QED BY <2>2, <2>3, <2>4, <3>1, PixelInside
  <2>7. \A n \in 0 .. (height * pitch - 1) : Wrap(n) = n
    BY <2>2, SpaceAssumption, SMT DEF Wrap
  <2>8. PictureStart(q) = y0 * pitch + x0
    BY <2>6, <2>7 DEF PictureStart
  <2>9. (y0 * pitch + x0) + y * pitch + x = (y0 + y) * pitch + (x0 + x)
    <3> HIDE DEF x0, y0
    <3>1. y \in Nat /\ x \in Nat
      BY <2>1
    <3> QED BY <2>2, <2>3, <2>4, <3>1, SMT
  <2> QED BY <2>5, <2>7, <2>8, <2>9
<1> QED BY <1>1 DEF PictureOffsets, Geometry

(* The scroll reads and writes whole lines of the framebuffer. *)
LEMMA ScrollInside == ASSUME Geometry PROVE ScrollReached \subseteq DOMAIN fb
<1>1. /\ {width, height, pitch} \subseteq Nat /\ FontH \in Nat \ {0} /\ height >= FontH
      /\ DOMAIN fb = 0 .. (height * pitch - 1) /\ console_rows \in Nat \ {0}
  BY FontAssumption DEF Geometry
<1>2. ASSUME NEW x \in 0 .. (pitch - 1), NEW y \in 0 .. (height - 1)
      PROVE  Offset(x, y) \in DOMAIN fb
  <2>1. pitch >= pitch /\ x \in Nat /\ y \in Nat /\ x < pitch /\ y < height
    BY <1>1
  <2>2. y * pitch + x \in 0 .. (height * pitch - 1)
    BY <1>1, <2>1, PixelInside
  <2> QED BY <1>1, <2>2 DEF Offset
<1>3. ASSUME NEW y \in MovedLines PROVE y \in 0 .. (height - 1) /\ y - FontH \in 0 .. (height - 1)
  BY <1>1 DEF MovedLines
<1>4. RowReached(console_rows - 1) \subseteq DOMAIN fb
  <2>1. ASSUME NEW col \in 0 .. (console_cols - 1)
        PROVE  Reached(Area(col, console_rows - 1)) \subseteq DOMAIN fb
    <3>1. col \in Nat /\ console_rows - 1 \in Nat
      BY <1>1 DEF Geometry
    <3> QED BY <3>1, AreaInside
  <2> QED BY <2>1 DEF RowReached
<1>5. {Offset(x, y) : x \in 0 .. (pitch - 1), y \in MovedLines} \subseteq DOMAIN fb
  BY <1>2, <1>3
<1>6. {Offset(x, y - FontH) : x \in 0 .. (pitch - 1), y \in MovedLines} \subseteq DOMAIN fb
  BY <1>2, <1>3
<1> QED BY <1>4, <1>5, <1>6 DEF ScrollReached

(* Clearing the screen writes pixels of the screen. *)
LEMMA ClearInside == ASSUME Geometry PROVE ClearReached \subseteq DOMAIN fb
<1>1. {width, height, pitch} \subseteq Nat /\ pitch >= width /\ DOMAIN fb = 0 .. (height * pitch - 1)
  BY DEF Geometry
<1>2. ASSUME NEW x \in 0 .. (width - 1), NEW y \in 0 .. (height - 1)
      PROVE  Offset(x, y) \in DOMAIN fb
  <2>1. x \in Nat /\ y \in Nat /\ x < width /\ y < height
    BY <1>1
  <2> QED BY <1>1, <2>1, PixelInside DEF Offset
<1> QED BY <1>2 DEF ClearReached, Reached

----------------------------------------------------------------------------
(* Wherever the cursor is sent, it stays on the screen. *)
LEMMA MoveInside ==
    ASSUME Geometry, OnScreen, NEW f, DOMAIN f = DOMAIN fb, NEW x \in Nat,
           NEW drawn, MoveTo(f, drawn, x), UNCHANGED geometry
    PROVE  Geometry' /\ OnScreen'
<1>1. DOMAIN fb' = DOMAIN fb
  BY DEF MoveTo, Settle, Scrolled
<1>2. OnScreen'
  BY DEF MoveTo, Settle, Geometry, OnScreen, geometry
<1> QED BY <1>1, <1>2 DEF Geometry, geometry

LEMMA StepInside == ASSUME IInv, [Next]_vars PROVE IInv'
<1>1. CASE LfbInit
  BY <1>1 DEF LfbInit, IInv, AnswerSound, Geometry, OnScreen, geometry, cursor, Request
<1>2. CASE Gpu
  <2>1. AnswerSound'
    <3>1. CASE GpuAnswer
      <4>1. CASE \E m \in Modes, d \in {16, 32} :
                    mbox' = [code |-> "response", depth |-> d, base |-> FbAddress, mode |-> m]
        BY <4>1 DEF AnswerSound
      <4>2. CASE mbox' = [Request EXCEPT !.code = "response", !.base = 0]
        BY <4>2 DEF AnswerSound, Request
      <4>3. CASE mbox' = [Request EXCEPT !.code = "error"]
        BY <4>3 DEF AnswerSound, Request
      <4> QED BY <3>1, <4>1, <4>2, <4>3 DEF GpuAnswer
    <3>2. CASE GpuDrain \/ GpuForeign
      BY <3>2 DEF GpuDrain, GpuForeign, IInv, AnswerSound
    <3> QED BY <1>2, <3>1, <3>2 DEF Gpu
  <2> QED BY <1>2, <2>1 DEF Gpu, GpuDrain, GpuForeign, GpuAnswer, IInv, Geometry, OnScreen,
                            geometry, cursor
<1>3. CASE MboxWrite \/ MboxDiscard
  BY <1>3 DEF MboxWrite, MboxDiscard, IInv, AnswerSound, Geometry, OnScreen, geometry, cursor
<1>4. CASE LfbInitDone
  <2>1. AnswerSound'
    BY <1>4 DEF LfbInitDone, IInv, AnswerSound
  <2>2. CASE Usable
    <3> DEFINE m == mbox.mode
    <3>1. m \in Modes
      BY <2>2 DEF Usable, IInv, AnswerSound
    <3>2. Begin(m, mbox.base)
      BY <1>4, <2>2 DEF LfbInitDone
    <3>3. /\ {m.width, m.height, m.pitch} \subseteq Nat
          /\ m.width >= FontW /\ m.height >= FontH /\ m.pitch >= m.width
          /\ m.height * m.pitch <= PixelSpace
      BY <3>1, ModesAssumption
    <3>4. m.width \div FontW \in Nat \ {0} /\ m.height \div FontH \in Nat \ {0}
      BY <3>3, FontAssumption, DivPositive
    <3>5. \A q \in Pictures : q.w <= m.width /\ q.h <= m.height
      BY <3>1, PicturesAssumption
    <3> HIDE DEF m
    <3>6. Geometry'
      BY <3>2, <3>3, <3>4, <3>5 DEF Begin, Geometry
    <3>7. OnScreen'
      BY <3>2, <3>4 DEF Begin, OnScreen
    <3> QED BY <2>1, <3>6, <3>7 DEF IInv
  <2>3. CASE ~ Usable
    <3>1. lfb' = 0
      BY <1>4, <2>3 DEF LfbInitDone, Begin
    <3> QED BY <2>1, <3>1 DEF IInv
  <2> QED BY <2>2, <2>3
<1>5. CASE Putchar
  <2>1. Geometry /\ OnScreen /\ AnswerSound /\ UNCHANGED geometry /\ AnswerSound'
    BY <1>5 DEF Putchar, Return, Newline, TabKey, Erase, Letter, Printing, IInv, AnswerSound,
                mailbox
  <2>2. CASE Return
    BY <2>1, <2>2 DEF Return, IInv, Geometry, OnScreen, geometry
  <2>3. CASE Newline
    <3>1. DOMAIN fb' = DOMAIN fb
      BY <2>3 DEF Newline, Settle, Scrolled
    <3>2. OnScreen'
      BY <2>1, <2>3 DEF Newline, Settle, Geometry, OnScreen, geometry
    <3> QED BY <2>1, <3>1, <3>2 DEF IInv, Geometry, geometry
  <2>4. CASE TabKey
    <3>1. ((cursor_x + TabWidth) \div TabWidth) * TabWidth \in Nat
      BY <2>1, TabNat DEF OnScreen
    <3>2. MoveTo(fb, {}, ((cursor_x + TabWidth) \div TabWidth) * TabWidth)
      BY <2>4 DEF TabKey
    <3>3. Geometry' /\ OnScreen'
      BY <2>1, <3>1, <3>2, MoveInside
    <3> QED BY <2>1, <3>3 DEF IInv
  <2>5. CASE Erase
    <3>1. DOMAIN fb' = DOMAIN fb
      BY <2>5 DEF Erase, Cleared
    <3>2. OnScreen'
      BY <2>1, <2>5 DEF Erase, OnScreen, Geometry, geometry
    <3> QED BY <2>1, <3>1, <3>2 DEF IInv, Geometry, geometry
  <2>6. ASSUME NEW c \in Letters, Letter(c) PROVE IInv'
    <3>1. DOMAIN Drawn(fb, c, cursor_x, cursor_y) = DOMAIN fb
      BY DEF Drawn
    <3>2. MoveTo(Drawn(fb, c, cursor_x, cursor_y), Reached(Area(cursor_x, cursor_y)), cursor_x + 1)
      BY <2>6 DEF Letter
    <3>3. cursor_x + 1 \in Nat
      BY <2>1 DEF OnScreen
    <3>4. Geometry' /\ OnScreen'
      BY <2>1, <3>1, <3>2, <3>3, MoveInside
    <3> QED BY <2>1, <3>4 DEF IInv
  <2> QED BY <1>5, <2>2, <2>3, <2>4, <2>5, <2>6 DEF Putchar
<1>6. CASE LfbClear
  <2>1. DOMAIN fb' = DOMAIN fb /\ UNCHANGED <<geometry, mbox>> /\ lfb # 0
    BY <1>6 DEF LfbClear, mailbox
  <2>2. OnScreen'
    BY <1>6, <2>1 DEF LfbClear, IInv, Geometry, OnScreen, geometry
  <2> QED BY <2>1, <2>2 DEF IInv, AnswerSound, Geometry, geometry
<1>7. ASSUME NEW q \in Pictures, ShowPicture(q) PROVE IInv'
  <2>1. DOMAIN fb' = DOMAIN fb /\ UNCHANGED <<geometry, cursor, mbox>>
    BY <1>7 DEF ShowPicture, mailbox
  <2> QED BY <2>1 DEF IInv, AnswerSound, Geometry, OnScreen, geometry, cursor
<1>8. CASE UNCHANGED vars
  BY <1>8 DEF vars, IInv, AnswerSound, Geometry, OnScreen, geometry, cursor, mailbox
<1> QED BY <1>1, <1>2, <1>3, <1>4, <1>5, <1>6, <1>7, <1>8 DEF Next, Mbox

LEMMA InitInside == ConsoleInit => IInv
  BY DEF ConsoleInit, IInv, AnswerSound, Request

LEMMA AlwaysInside == Spec => []IInv
  BY InitInside, StepInside, PTL DEF Spec

(* The cursor never leaves the screen, on any screen a GPU may set up and  *)
(* for any font (lfb.c:327-453).                                           *)
THEOREM CursorStaysInside == Spec => []CursorInside
<1>1. IInv => CursorInside
  BY DEF IInv, Geometry, OnScreen, CursorInside
<1> QED BY <1>1, AlwaysInside, PTL

(* Nothing has been drawn outside a framebuffer since it was set up. *)
Clean == lfb # 0 => outside = {}

LEMMA StepClean ==
    ASSUME IInv, Clean, [Next]_vars
    PROVE  Clean' /\ [lfb # 0 => outside' = outside]_vars
<1>1. CASE LfbInitDone
  BY <1>1 DEF LfbInitDone, Begin, Clean
<1>2. CASE lfb # 0 /\ ~ LfbInitDone
  <2>1. outside = {} /\ Geometry /\ OnScreen
    BY <1>2 DEF IInv, Clean
  <2>2. cursor_x \in Nat /\ cursor_y \in Nat
    BY <2>1 DEF OnScreen, Geometry
  <2>3. Reached(Area(cursor_x, cursor_y)) \subseteq DOMAIN fb
    BY <2>1, <2>2, AreaInside
  <2>4. ScrollReached \subseteq DOMAIN fb /\ ClearReached \subseteq DOMAIN fb
    BY <2>1, ScrollInside, ClearInside
  <2>5. ASSUME NEW drawn \in SUBSET DOMAIN fb, Touch(drawn) \/ Touch(drawn \union ScrollReached)
        PROVE  outside' = outside
    BY <2>4, <2>5 DEF Touch
  <2>6. ASSUME NEW f, NEW drawn \in SUBSET DOMAIN fb, NEW y,
               Settle(f, drawn, y) \/ MoveTo(f, drawn, y)
        PROVE  outside' = outside
    <3>1. Touch(drawn) \/ Touch(drawn \union ScrollReached)
      BY <2>6 DEF MoveTo, Settle
    <3> QED BY <2>5, <3>1
  <2>7. ASSUME Putchar PROVE outside' = outside
    <3>1. ASSUME Return PROVE outside' = outside
      BY <3>1 DEF Return
    <3>2. ASSUME Newline PROVE outside' = outside
      BY <2>6, <3>2 DEF Newline
    <3>3. ASSUME TabKey PROVE outside' = outside
      BY <2>6, <3>3 DEF TabKey
    <3>4. ASSUME Erase PROVE outside' = outside
      <4>1. CASE cursor_x > 0
        <5>1. cursor_x - 1 \in Nat
          BY <2>2, <4>1
        <5>2. Reached(Area(cursor_x - 1, cursor_y)) \subseteq DOMAIN fb
          BY <2>1, <2>2, <5>1, AreaInside
        <5> QED BY <2>5, <3>4, <4>1, <5>2 DEF Erase
      <4>2. CASE ~ (cursor_x > 0)
        BY <3>4, <4>2 DEF Erase
      <4> QED BY <4>1, <4>2
    <3>5. ASSUME NEW c \in Letters, Letter(c) PROVE outside' = outside
      BY <2>3, <2>6, <3>5 DEF Letter
    <3> QED BY <2>7, <3>1, <3>2, <3>3, <3>4, <3>5 DEF Putchar
  <2>8. ASSUME Next PROVE outside' = outside
    <3>1. ASSUME LfbClear PROVE outside' = outside
      BY <2>4, <2>5, <3>1 DEF LfbClear
    <3>2. ASSUME NEW q \in Pictures, ShowPicture(q) PROVE outside' = outside
      <4>1. PictureOffsets(q) \subseteq DOMAIN fb
        BY <2>1, PictureInside
      <4> QED BY <2>5, <3>2, <4>1 DEF ShowPicture
    <3>3. ASSUME LfbInit \/ Gpu \/ MboxWrite \/ MboxDiscard PROVE outside' = outside
      BY <3>3 DEF LfbInit, Gpu, GpuDrain, GpuForeign, GpuAnswer, MboxWrite, MboxDiscard, history
    <3> QED BY <1>2, <2>7, <2>8, <3>1, <3>2, <3>3 DEF Next, Mbox
  <2>9. outside' = outside
    BY <2>8 DEF vars, history
  <2> QED BY <2>1, <2>9 DEF Clean
<1>3. CASE lfb = 0 /\ ~ LfbInitDone
  <2>1. lfb' = 0
    BY <1>3 DEF Next, LfbInit, Gpu, GpuDrain, GpuForeign, GpuAnswer, Mbox, MboxWrite, MboxDiscard,
                Putchar, Return, Newline, TabKey, Erase, Letter, Printing, LfbClear, ShowPicture,
                vars, geometry
  <2> QED BY <1>3, <2>1 DEF Clean
<1> QED BY <1>1, <1>2, <1>3

(* With a framebuffer no character, no clearing, no line the scroll moves  *)
(* and no picture reaches an address beside it (lfb.c:187, 243, 297-310,   *)
(* 459-573).                                                               *)
THEOREM DrawingStaysInside == Spec => DrawsInside
<1>1. ConsoleInit => Clean
  BY DEF ConsoleInit, Clean
<1>2. IInv /\ Clean /\ [Next]_vars => Clean' /\ [lfb # 0 => outside' = outside]_vars
  BY StepClean
<1> QED BY <1>1, <1>2, AlwaysInside, PTL DEF Spec, DrawsInside

----------------------------------------------------------------------------
LEMMA StepAnswered ==
    ASSUME IInv, GeometryIsAnswered, [Next]_vars
    PROVE  GeometryIsAnswered'
<1>1. CASE LfbInitDone
  <2>1. CASE Usable
    <3>1. mbox.mode \in [width : Nat, height : Nat, pitch : Nat]
      <4>1. mbox.mode \in Modes
        BY <2>1 DEF IInv, AnswerSound, Usable
      <4>. QED
        BY <4>1, ModesAssumption
    <3>2. Begin(mbox.mode, mbox.base) /\ mbox' = mbox
      BY <1>1, <2>1, Zenon DEF LfbInitDone
    <3>. QED
      BY <2>1, <3>1, <3>2 DEF Begin, Usable, GeometryIsAnswered
  <2>2. CASE ~ Usable
    BY <1>1, <2>2 DEF LfbInitDone, Begin, GeometryIsAnswered
  <2>. QED
    BY <2>1, <2>2
<1>2. CASE LfbInit \/ MboxWrite \/ MboxDiscard \/ GpuForeign \/ GpuAnswer
  BY <1>2 DEF LfbInit, MboxWrite, MboxDiscard, GpuForeign, GpuAnswer, GeometryIsAnswered
<1>3. CASE GpuDrain \/ Putchar \/ LfbClear \/ (\E q \in Pictures : ShowPicture(q)) \/ UNCHANGED vars
  <2>1. UNCHANGED <<pc, mbox, lfb, width, height, pitch>>
    BY <1>3 DEF GpuDrain, Putchar, Return, Newline, TabKey, Erase, Letter, Printing, LfbClear,
                ShowPicture, vars, geometry, mailbox
  <2>. QED
    BY <2>1 DEF GeometryIsAnswered
<1>. QED
  BY <1>1, <1>2, <1>3 DEF Next, Gpu, Mbox

(* The framebuffer in use is the one of an answer to this call, whatever   *)
(* else is in the mailbox and for any number of calls (mbox.c:57-59,       *)
(* lfb.c:95-108).                                                          *)
THEOREM FramebufferIsTheAnswers == Spec => []GeometryIsAnswered
<1>1. ConsoleInit => GeometryIsAnswered
  BY DEF ConsoleInit, GeometryIsAnswered
<1>2. IInv /\ GeometryIsAnswered /\ [Next]_vars => GeometryIsAnswered'
  BY StepAnswered
<1>. QED
  BY <1>1, <1>2, AlwaysInside, PTL DEF Spec
----------------------------------------------------------------------------
(* A set of naturals with a member has a least one.                        *)
LEMMA Least ==
    ASSUME NEW T, T \subseteq Nat, T # {}
    PROVE  \E x \in T : \A y \in T : x <= y
<1>. DEFINE R == OpToRel(<, Nat)
<1>1. IsWellFoundedOn(R, Nat)
  BY NatLessThanWellFounded
<1>2. \A x, y \in Nat : y < x => <<y, x>> \in R
  BY Zenon DEF OpToRel
<1>. HIDE DEF R
<1>3. PICK x \in T : \A y \in T : ~ (<<y, x>> \in R)
  BY <1>1, WFMin
<1>4. \A y \in T : ~ (y < x)
  BY <1>2, <1>3
<1>5. \A y \in Nat : ~ (y < x) => x <= y
  BY <1>3
<1>. QED
  BY <1>4, <1>5

(* The paper, character by character. *)
Fresh(ground, rows, cols) == [line |-> 0, col |-> 0, put |-> Sheet(ground, rows, cols)]

Printed(f, text, ground, rows, cols, m) ==
    f = [k \in 0 .. m |-> IF k = 0 THEN Fresh(ground, rows, cols)
                          ELSE PaperStep(f[k - 1], text[k], cols)]

LEMMA PrintedIs ==
    ASSUME NEW f, NEW text, NEW ground, NEW rows, NEW cols, NEW m \in Nat,
           Printed(f, text, ground, rows, cols, m)
    PROVE  /\ f[0] = Fresh(ground, rows, cols)
           /\ \A k \in 1 .. m : f[k] = PaperStep(f[k - 1], text[k], cols)
<1>1. \A k \in 0 .. m : f[k] = IF k = 0 THEN Fresh(ground, rows, cols)
                               ELSE PaperStep(f[k - 1], text[k], cols)
  BY DEF Printed
<1>2. 0 \in 0 .. m /\ \A k \in 1 .. m : k \in 0 .. m /\ k # 0
  OBVIOUS
<1>. QED
  BY <1>1, <1>2, Zenon

LEMMA SomePrinted ==
    ASSUME NEW text, NEW ground, NEW rows, NEW cols, NEW m \in Nat
    PROVE  \E f : Printed(f, text, ground, rows, cols, m)
<1>. DEFINE After(v, k) == PaperStep(v, text[k], cols)
            start == Fresh(ground, rows, cols)
            Chain(f, x) == f = [k \in 0 .. x |-> IF k = 0 THEN start ELSE After(f[k - 1], k)]
            T == {x \in Nat : ~ \E f : Chain(f, x)}
<1>1. ASSUME T # {} PROVE FALSE
  <2>1. PICK x \in T : \A y \in T : x <= y
    BY <1>1, Least
  <2>2. x \in Nat /\ ~ \E f : Chain(f, x)
    BY <2>1
  <2>. HIDE DEF After, start
  <2>3. CASE x = 0
    <3>. DEFINE f == [k \in 0 .. 0 |-> start]
    <3>1. f = [k \in 0 .. 0 |-> IF k = 0 THEN start ELSE After(f[k - 1], k)]
      OBVIOUS
    <3>. QED
      BY <2>2, <2>3, <3>1
  <2>4. CASE x # 0
    <3>1. x - 1 \in Nat /\ ~ (x <= x - 1)
      BY <2>2, <2>4
    <3>2. x - 1 \notin T
      <4>. HIDE DEF T
      <4>. QED
        BY <2>1, <3>1
    <3>3. PICK f : Chain(f, x - 1)
      BY <3>1, <3>2
    <3>. DEFINE g == [k \in 0 .. x |-> IF k = x THEN After(f[x - 1], x) ELSE f[k]]
    <3>4. \A k \in 0 .. (x - 1) : f[k] = IF k = 0 THEN start ELSE After(f[k - 1], k)
      BY <3>3
    <3>5. ASSUME NEW k \in 0 .. x PROVE g[k] = IF k = 0 THEN start ELSE After(g[k - 1], k)
      BY <3>4, <2>2, <2>4
    <3>6. g = [k \in 0 .. x |-> IF k = 0 THEN start ELSE After(g[k - 1], k)]
      BY <3>5
    <3>. QED
      BY <2>2, <3>6
  <2>. QED
    BY <2>3, <2>4
<1>2. m \notin T
  <2>. HIDE DEF T
  <2>. QED
    BY <1>1
<1>3. \E f : Chain(f, m)
  BY <1>2
<1>. QED
  BY <1>3, Zenon DEF Printed

LEMMA SamePrinted ==
    ASSUME NEW ground, NEW rows, NEW cols, NEW m \in Nat, NEW text, NEW f,
           Printed(f, text, ground, rows, cols, m),
           NEW u \in Nat, m <= u, NEW more, NEW g, Printed(g, more, ground, rows, cols, u),
           \A k \in 1 .. m : more[k] = text[k]
    PROVE  g[m] = f[m]
<1>1. f[0] = Fresh(ground, rows, cols) /\ \A k \in 1 .. m : f[k] = PaperStep(f[k - 1], text[k], cols)
  <2>1. m \in Nat /\ Printed(f, text, ground, rows, cols, m)
    OBVIOUS
  <2>. QED
    BY ONLY <2>1, PrintedIs
<1>2. g[0] = Fresh(ground, rows, cols) /\ \A k \in 1 .. u : g[k] = PaperStep(g[k - 1], more[k], cols)
  <2>1. u \in Nat /\ Printed(g, more, ground, rows, cols, u)
    OBVIOUS
  <2>. QED
    BY ONLY <2>1, PrintedIs
<1>. DEFINE T == {x \in 0 .. m : g[x] # f[x]}
<1>3. SUFFICES ASSUME T # {} PROVE FALSE
  OBVIOUS
<1>4. T \subseteq Nat
  OBVIOUS
<1>5. PICK x \in T : \A y \in T : x <= y
  <2>. HIDE DEF T
  <2>. QED
    BY <1>3, <1>4, Least
<1>6. x \in 0 .. m /\ g[x] # f[x]
  BY <1>5
<1>7. x # 0
  BY <1>1, <1>2, <1>6
<1>8. x - 1 \in 0 .. m /\ ~ (x <= x - 1) /\ x \in 1 .. m /\ x \in 1 .. u
  BY <1>6, <1>7
<1>9. x - 1 \notin T
  <2>. HIDE DEF T
  <2>. QED
    BY <1>5, <1>8
<1>10. g[x - 1] = f[x - 1]
  BY <1>8, <1>9
<1>11. g[x] = PaperStep(g[x - 1], more[x], cols) /\ f[x] = PaperStep(f[x - 1], text[x], cols)
  BY <1>1, <1>2, <1>8, Zenon
<1>12. more[x] = text[x]
  BY <1>8, Zenon
<1>. QED
  BY <1>6, <1>10, <1>11, <1>12, Zenon

LEMMA PaperIs ==
    ASSUME NEW text, NEW ground, NEW rows, NEW cols, Len(text) \in Nat
    PROVE  \E f : /\ Printed(f, text, ground, rows, cols, Len(text))
                  /\ Paper(text, ground, rows, cols) = f[Len(text)]
<1>. DEFINE h == CHOOSE f : Printed(f, text, ground, rows, cols, Len(text))
<1>1. Paper(text, ground, rows, cols) = h[Len(text)]
  BY Zenon DEF Paper, Printed, Fresh
<1>2. Printed(h, text, ground, rows, cols, Len(text))
  BY SomePrinted, Zenon
<1>. HIDE DEF h
<1>. QED
  BY <1>1, <1>2, Zenon

LEMMA PaperBegins ==
    ASSUME NEW ground, NEW rows, NEW cols
    PROVE  Paper(<<>>, ground, rows, cols) = Fresh(ground, rows, cols)
<1>1. Len(<<>>) = 0 /\ 0 \in Nat
  OBVIOUS
<1>2. PICK f : Printed(f, <<>>, ground, rows, cols, 0) /\ Paper(<<>>, ground, rows, cols) = f[0]
  BY <1>1, PaperIs, Zenon
<1>. QED
  BY <1>1, <1>2, PrintedIs

LEMMA PaperGoesOn ==
    ASSUME NEW S, NEW text \in Seq(S), NEW c \in S, NEW ground, NEW rows, NEW cols
    PROVE  Paper(Append(text, c), ground, rows, cols)
             = PaperStep(Paper(text, ground, rows, cols), c, cols)
<1>. DEFINE m == Len(text)
            more == Append(text, c)
<1>1. m \in Nat /\ m + 1 \in Nat /\ Len(more) = m + 1 /\ more[m + 1] = c
      /\ (\A k \in 1 .. m : more[k] = text[k]) /\ m <= m + 1 /\ m + 1 \in 1 .. (m + 1) /\ (m + 1) - 1 = m
  OBVIOUS
<1>2. PICK f : Printed(f, text, ground, rows, cols, m) /\ Paper(text, ground, rows, cols) = f[m]
  BY <1>1, PaperIs, Zenon
<1>. HIDE DEF m, more
<1>3. PICK g : Printed(g, more, ground, rows, cols, m + 1) /\ Paper(more, ground, rows, cols) = g[m + 1]
  BY <1>1, PaperIs, Zenon
<1>4. g[m] = f[m]
  BY ONLY <1>1, <1>2, <1>3, SamePrinted
<1>5. g[m + 1] = PaperStep(g[(m + 1) - 1], more[m + 1], cols)
  BY <1>1, <1>3, PrintedIs
<1>. QED
  BY <1>1, <1>2, <1>3, <1>4, <1>5, Zenon DEF more

----------------------------------------------------------------------------
(* Whole characters fit the screen. *)
Grid == console_cols * FontW <= width /\ console_rows * FontH <= height

(* A place is known from its offset when the pitch covers the line. *)
LEMMA OnePlace ==
    ASSUME NEW d \in Nat, NEW a \in 0 .. (d - 1), NEW b \in 0 .. (d - 1),
           NEW y \in Nat, NEW z \in Nat, y * d + a = z * d + b
    PROVE  y = z /\ a = b
<1>1. ~ (y > z)
  <2>. SUFFICES ASSUME y > z PROVE FALSE
    OBVIOUS
  <2>1. y * d >= (z + 1) * d /\ (z + 1) * d = z * d + d
    OBVIOUS
  <2>2. y * d \in Nat /\ z * d \in Nat
    OBVIOUS
  <2>. QED
    BY <2>1, <2>2
<1>2. ~ (z > y)
  <2>. SUFFICES ASSUME z > y PROVE FALSE
    OBVIOUS
  <2>1. z * d >= (y + 1) * d /\ (y + 1) * d = y * d + d
    OBVIOUS
  <2>2. y * d \in Nat /\ z * d \in Nat
    OBVIOUS
  <2>. QED
    BY <2>1, <2>2
<1>3. y = z
  BY <1>1, <1>2
<1>4. y * d \in Nat
  OBVIOUS
<1>. QED
  BY <1>3, <1>4

LEMMA LineOf ==
    ASSUME NEW d \in Nat, NEW a \in 0 .. (d - 1), NEW y \in Nat
    PROVE  (y * d + a) \div d = y
  OBVIOUS

(* A piece of a length that is not over comes before the end. *)
LEMMA Piece ==
    ASSUME NEW s \in Nat \ {0}, NEW m \in Nat, NEW k \in 0 .. (m - 1), NEW x \in 0 .. (s - 1)
    PROVE  k * s + x \in Nat /\ k * s + x < m * s
<1>1. (k + 1) * s <= m * s /\ (k + 1) * s = k * s + s
  OBVIOUS
<1>2. k * s \in Nat /\ m * s \in Nat
  OBVIOUS
<1>. QED
  BY <1>1, <1>2

Cols == 0 .. (console_cols - 1)
Rows == 0 .. (console_rows - 1)
Xs == 0 .. (FontW - 1)
Ys == 0 .. (FontH - 1)

(* The offset of a character's pixel. *)
At(col, row, x, y) == Offset(col * FontW + x, row * FontH + y)

LEMMA InCell ==
    ASSUME Geometry, Grid, NEW col \in Cols, NEW row \in Rows, NEW x \in Xs, NEW y \in Ys
    PROVE  /\ col * FontW + x \in Nat /\ row * FontH + y \in Nat
           /\ col * FontW + x < width /\ row * FontH + y < height
           /\ At(col, row, x, y) \in DOMAIN fb
<1>1. /\ console_cols \in Nat /\ console_rows \in Nat /\ {width, height, pitch} \subseteq Nat
      /\ pitch >= width /\ FontW \in Nat \ {0} /\ FontH \in Nat \ {0}
  BY FontAssumption DEF Geometry
<1>2. col * FontW + x \in Nat /\ col * FontW + x < console_cols * FontW
  BY <1>1, Piece DEF Cols, Xs
<1>3. row * FontH + y \in Nat /\ row * FontH + y < console_rows * FontH
  BY <1>1, Piece DEF Rows, Ys
<1>4. console_cols * FontW \in Nat /\ console_rows * FontH \in Nat
  BY <1>1
<1>5. col * FontW + x < width /\ row * FontH + y < height
  BY <1>1, <1>2, <1>3, <1>4 DEF Grid
<1>6. At(col, row, x, y) \in 0 .. (height * pitch - 1)
  BY <1>1, <1>2, <1>3, <1>5, PixelInside DEF At, Offset
<1>. QED
  BY <1>2, <1>3, <1>5, <1>6 DEF Geometry

(* No other character's place has the pixel. *)
LEMMA OneCell ==
    ASSUME Geometry, Grid, NEW col \in Cols, NEW row \in Rows, NEW x \in Xs, NEW y \in Ys,
           NEW c \in Cols, NEW r \in Rows
    PROVE  /\ At(col, row, x, y) \in Reached(Area(c, r)) <=> c = col /\ r = row
           /\ \A q \in Area(c, r) :
                 Offset(q[1], q[2]) = At(col, row, x, y)
                   => q[1] - c * FontW = x /\ q[2] - r * FontH = y
<1>1. /\ {width, height, pitch} \subseteq Nat /\ pitch >= width
      /\ FontW \in Nat \ {0} /\ FontH \in Nat \ {0}
      /\ col \in Nat /\ row \in Nat /\ c \in Nat /\ r \in Nat
  BY FontAssumption DEF Geometry, Cols, Rows
<1>. DEFINE px == col * FontW + x
            py == row * FontH + y
<1>2. px \in Nat /\ py \in Nat /\ px < width /\ py < height
  BY InCell
<1>3. At(col, row, x, y) = py * pitch + px
  BY DEF At, Offset
<1>4. ASSUME NEW q \in Area(c, r), Offset(q[1], q[2]) = At(col, row, x, y)
      PROVE  c = col /\ r = row /\ q[1] - c * FontW = x /\ q[2] - r * FontH = y
  <2>1. /\ q[1] \in (c * FontW) .. (c * FontW + FontW - 1)
        /\ q[2] \in (r * FontH) .. (r * FontH + FontH - 1)
        /\ q[1] < width
    BY DEF Area
  <2>2. c * FontW \in Nat /\ r * FontH \in Nat /\ col * FontW \in Nat /\ row * FontH \in Nat
    BY <1>1
  <2>3. q[1] \in Nat /\ q[2] \in Nat
    BY <2>1, <2>2, <1>1
  <2>4. q[2] * pitch + q[1] = py * pitch + px
    BY <1>3, <1>4 DEF Offset
  <2>. HIDE DEF px, py
  <2>5. q[2] = py /\ q[1] = px
    <3>1. q[1] \in 0 .. (pitch - 1) /\ px \in 0 .. (pitch - 1)
      BY <1>1, <1>2, <2>1, <2>3
    <3>2. pitch \in Nat /\ q[2] \in Nat /\ py \in Nat
      BY <1>1, <1>2, <2>3
    <3>. QED
      BY ONLY <2>4, <3>1, <3>2, OnePlace
  <2>. DEFINE i == q[1] - c * FontW
              j == q[2] - r * FontH
  <2>6. /\ i \in Xs /\ j \in Ys
        /\ c * FontW + i = col * FontW + x /\ r * FontH + j = row * FontH + y
    BY <1>1, <2>1, <2>2, <2>5 DEF Xs, Ys, px, py
  <2>. HIDE DEF i, j
  <2>7. c = col /\ i = x
    BY <1>1, <2>6, OnePlace DEF Xs
  <2>8. r = row /\ j = y
    BY <1>1, <2>6, OnePlace DEF Ys
  <2>. QED
    BY <2>7, <2>8 DEF i, j
<1>5. ASSUME c = col, r = row
      PROVE  At(col, row, x, y) \in Reached(Area(c, r))
  <2>1. <<px, py>> \in Area(c, r)
    <3>1. px \in (c * FontW) .. (c * FontW + FontW - 1) /\ py \in (r * FontH) .. (r * FontH + FontH - 1)
      <4>1. c * FontW \in Nat /\ r * FontH \in Nat
        BY <1>1
      <4>. QED
        BY <4>1, <1>1, <1>5 DEF Xs, Ys
    <3>. QED
      BY <3>1, <1>2 DEF Area
  <2>2. Offset(<<px, py>>[1], <<px, py>>[2]) = At(col, row, x, y)
    BY DEF At
  <2>. QED
    BY <2>1, <2>2, Zenon DEF Reached
<1>6. At(col, row, x, y) \in Reached(Area(c, r)) => c = col /\ r = row
  BY <1>4, Zenon DEF Reached
<1>. QED
  BY <1>4, <1>5, <1>6, Zenon

(* What drawing, clearing and scrolling make of a character's pixels. *)
LEMMA DrawnCell ==
    ASSUME Geometry, Grid, NEW col \in Cols, NEW row \in Rows, NEW x \in Xs, NEW y \in Ys,
           NEW f, DOMAIN f = DOMAIN fb, NEW c \in Cols, NEW r \in Rows, NEW v
    PROVE  Drawn(f, v, c, r)[At(col, row, x, y)]
             = IF c = col /\ r = row THEN <<v, x, y>> ELSE f[At(col, row, x, y)]
<1>. DEFINE o == At(col, row, x, y)
            area == Area(c, r)
            p == CHOOSE q \in area : Offset(q[1], q[2]) = o
<1>1. o \in DOMAIN f
  BY InCell
<1>2. Drawn(f, v, c, r)[o] = IF o \in Reached(area)
                             THEN <<v, p[1] - c * FontW, p[2] - r * FontH>> ELSE f[o]
  BY <1>1, Zenon DEF Drawn
<1>3. o \in Reached(area) <=> c = col /\ r = row
  BY OneCell
<1>4. \A q \in area : Offset(q[1], q[2]) = o => q[1] - c * FontW = x /\ q[2] - r * FontH = y
  BY OneCell
<1>5. o \in Reached(area) => p \in area /\ Offset(p[1], p[2]) = o
  BY Zenon DEF Reached
<1>. HIDE DEF o, area, p
<1>6. Drawn(f, v, c, r)[o] = IF c = col /\ r = row THEN <<v, x, y>> ELSE f[o]
  BY <1>2, <1>3, <1>4, <1>5, Zenon
<1>. QED
  BY <1>6 DEF o

LEMMA ClearedCell ==
    ASSUME Geometry, Grid, NEW col \in Cols, NEW row \in Rows, NEW x \in Xs, NEW y \in Ys,
           NEW f, DOMAIN f = DOMAIN fb, NEW c \in Cols, NEW r \in Rows
    PROVE  Cleared(f, c, r)[At(col, row, x, y)]
             = IF c = col /\ r = row THEN Blank ELSE f[At(col, row, x, y)]
<1>1. At(col, row, x, y) \in DOMAIN f
  BY InCell
<1>2. At(col, row, x, y) \in Reached(Area(c, r)) <=> c = col /\ r = row
  BY OneCell
<1>. QED
  BY <1>1, <1>2, Zenon DEF Cleared

LEMMA ScrolledCell ==
    ASSUME Geometry, Grid, NEW col \in Cols, NEW row \in Rows, NEW x \in Xs, NEW y \in Ys,
           NEW f, DOMAIN f = DOMAIN fb
    PROVE  Scrolled(f)[At(col, row, x, y)]
             = IF row = console_rows - 1 THEN Blank ELSE f[At(col, row + 1, x, y)]
<1>. DEFINE o == At(col, row, x, y)
            last == console_rows - 1
            px == col * FontW + x
            py == row * FontH + y
<1>1. /\ {width, height, pitch} \subseteq Nat /\ pitch >= width
      /\ FontW \in Nat \ {0} /\ FontH \in Nat \ {0} /\ console_rows \in Nat \ {0}
      /\ col \in Nat /\ row \in Nat /\ last \in Rows
  BY FontAssumption DEF Geometry, Cols, Rows
<1>2. o \in DOMAIN f /\ px \in Nat /\ py \in Nat /\ px < width /\ py < height
  BY InCell
<1>3. Scrolled(f)[o] = IF o \in RowReached(last) THEN Blank
                       ELSE IF /\ (o \div pitch) + FontH \in MovedLines
                               /\ o + FontH * pitch \in DOMAIN f
                            THEN f[o + FontH * pitch] ELSE f[o]
  BY <1>2, Zenon DEF Scrolled
<1>4. o \in RowReached(last) <=> row = last
  <2>1. o \in RowReached(last) <=> \E c \in Cols : o \in Reached(Area(c, last))
    BY Zenon DEF RowReached, Cols
  <2>2. \A c \in Cols : o \in Reached(Area(c, last)) <=> c = col /\ last = row
    BY <1>1, OneCell
  <2>. HIDE DEF o, last
  <2>. QED
    BY <2>1, <2>2, Zenon
<1>5. ASSUME row # last
      PROVE  /\ (o \div pitch) + FontH \in MovedLines /\ o + FontH * pitch \in DOMAIN f
             /\ o + FontH * pitch = At(col, row + 1, x, y)
  <2>1. px \in 0 .. (pitch - 1) /\ o = py * pitch + px
    BY <1>1, <1>2 DEF At, Offset
  <2>. HIDE DEF o, px
  <2>2. o \div pitch = py
    <3>. HIDE DEF py
    <3>. QED
      BY <1>1, <1>2, <2>1, LineOf
  <2>3. row + 1 \in Rows
    BY <1>1, <1>5 DEF Rows
  <2>4. (row + 1) * FontH + y < height /\ (row + 1) * FontH + y = py + FontH
    <3>1. (row + 1) * FontH + y < height
      BY <2>3, InCell
    <3>2. (row + 1) * FontH = row * FontH + FontH /\ row * FontH \in Nat
      BY <1>1
    <3>. QED
      BY <3>1, <3>2, <1>1 DEF Ys
  <2>5. At(col, row + 1, x, y) = (py + FontH) * pitch + px
    BY <2>4 DEF At, Offset, px
  <2>. HIDE DEF py
  <2>6. (py + FontH) * pitch + px = (py * pitch + px) + FontH * pitch
    <3>1. (py + FontH) * pitch = py * pitch + FontH * pitch
      BY <1>1, <1>2
    <3>2. py * pitch \in Nat /\ FontH * pitch \in Nat
      BY <1>1, <1>2
    <3>. QED
      BY <3>1, <3>2, <2>1
  <2>7. py + FontH \in MovedLines
    BY <1>1, <1>2, <2>4 DEF MovedLines
  <2>8. At(col, row + 1, x, y) \in DOMAIN f
    BY <2>3, InCell
  <2>. QED
    BY <2>1, <2>2, <2>5, <2>6, <2>7, <2>8
<1>. HIDE DEF o, last
<1>6. Scrolled(f)[o] = IF row = last THEN Blank ELSE f[At(col, row + 1, x, y)]
  BY <1>3, <1>4, <1>5, Zenon
<1>. QED
  BY <1>6 DEF o, last


----------------------------------------------------------------------------
(* The paper stands at line l and column k with p written.                 *)
Stand(l, k, p) == [line |-> l, col |-> k, put |-> p]

LEMMA PaperGoes ==
    ASSUME NEW l \in Nat, NEW k, NEW p, NEW put, NEW stop \in Nat, NEW cols \in Nat
    PROVE  /\ Stand(l, k, p).line = l /\ Stand(l, k, p).col = k /\ Stand(l, k, p).put = p
           /\ PaperTo(Stand(l, k, p), put, stop, cols)
                = IF stop >= cols THEN Stand(l + 1, 0, put) ELSE Stand(l, stop, put)
  BY DEF Stand, PaperTo

(* What a character does to the paper. *)
LEMMA PaperArms ==
    ASSUME NEW t, NEW cols
    PROVE  /\ PaperStep(t, "CR", cols) = PaperTo(t, t.put, 0, cols)
           /\ PaperStep(t, "LF", cols) = PaperTo(t, t.put, cols, cols)
           /\ PaperStep(t, "TAB", cols) = PaperTo(t, t.put, TabWidth * (t.col \div TabWidth + 1), cols)
           /\ PaperStep(t, "BS", cols)
                = IF t.col = 0 THEN t
                  ELSE PaperTo(t, [t.put EXCEPT ![<<t.line, t.col - 1>>] = Blank], t.col - 1, cols)
           /\ \A c \in Letters :
                 PaperStep(t, c, cols) = PaperTo(t, [t.put EXCEPT ![<<t.line, t.col>>] = c], t.col + 1, cols)
<1>1. /\ "CR" # "LF" /\ "CR" # "TAB" /\ "CR" # "BS"
      /\ "LF" # "TAB" /\ "LF" # "BS" /\ "TAB" # "BS"
  OBVIOUS
<1>2. PaperStep(t, "CR", cols) = PaperTo(t, t.put, 0, cols)
  BY <1>1, Zenon DEF PaperStep
<1>3. PaperStep(t, "LF", cols) = PaperTo(t, t.put, cols, cols)
  BY <1>1, Zenon DEF PaperStep
<1>4. PaperStep(t, "TAB", cols) = PaperTo(t, t.put, TabWidth * (t.col \div TabWidth + 1), cols)
  BY <1>1, Zenon DEF PaperStep
<1>5. PaperStep(t, "BS", cols)
        = IF t.col = 0 THEN t
          ELSE PaperTo(t, [t.put EXCEPT ![<<t.line, t.col - 1>>] = Blank], t.col - 1, cols)
  BY <1>1, Zenon DEF PaperStep
<1>6. ASSUME NEW c \in Letters
      PROVE  PaperStep(t, c, cols) = PaperTo(t, [t.put EXCEPT ![<<t.line, t.col>>] = c], t.col + 1, cols)
  <2>1. c # "CR" /\ c # "LF" /\ c # "TAB" /\ c # "BS"
    BY LettersAssumption
  <2>. QED
    BY <2>1, Zenon DEF PaperStep
<1>. QED
  BY <1>2, <1>3, <1>4, <1>5, <1>6, Zenon

(* The tab stop of the code is the paper's. *)
LEMMA TabStop ==
    ASSUME NEW x \in Nat
    PROVE  /\ ((x + TabWidth) \div TabWidth) * TabWidth = TabWidth * (x \div TabWidth + 1)
           /\ TabWidth * (x \div TabWidth + 1) \in Nat
<1>1. TabWidth \in Nat /\ TabWidth > 0
  BY FontAssumption
<1>2. x \div TabWidth \in Int /\ x % TabWidth \in 0 .. (TabWidth - 1)
      /\ x = TabWidth * (x \div TabWidth) + (x % TabWidth)
  BY <1>1, SMT
<1>. DEFINE a == x \div TabWidth
            b == x % TabWidth
<1>3. a \in Nat
  <2>1. SUFFICES ASSUME a < 0 PROVE FALSE
    BY <1>2
  <2>. HIDE DEF a
  <2>2. TabWidth * a <= 0 - TabWidth
    BY <1>1, <1>2, <2>1 DEF a
  <2>. QED
    BY <1>1, <1>2, <2>2 DEF a
<1>. HIDE DEF a, b
<1>4. x + TabWidth = (a + 1) * TabWidth + b
  BY <1>1, <1>2, <1>3 DEF a, b
<1>5. (x + TabWidth) \div TabWidth = a + 1
  BY <1>1, <1>2, <1>3, <1>4, LineOf DEF b
<1>6. (a + 1) * TabWidth = TabWidth * (a + 1) /\ TabWidth * (a + 1) \in Nat
  BY <1>1, <1>3
<1>. QED
  BY <1>5, <1>6 DEF a

LEMMA PaperSteps ==
    ASSUME NEW l \in Nat, NEW k \in Nat, NEW p, NEW cols \in Nat \ {0},
           k < cols
    PROVE  /\ PaperStep(Stand(l, k, p), "CR", cols) = Stand(l, 0, p)
           /\ PaperStep(Stand(l, k, p), "LF", cols) = Stand(l + 1, 0, p)
           /\ PaperStep(Stand(l, k, p), "TAB", cols)
                = IF TabWidth * (k \div TabWidth + 1) >= cols THEN Stand(l + 1, 0, p)
                  ELSE Stand(l, TabWidth * (k \div TabWidth + 1), p)
           /\ PaperStep(Stand(l, k, p), "BS", cols)
                = IF k = 0 THEN Stand(l, k, p) ELSE Stand(l, k - 1, [p EXCEPT ![<<l, k - 1>>] = Blank])
<1>. DEFINE t == Stand(l, k, p)
            stop == TabWidth * (k \div TabWidth + 1)
<1>0. stop \in Nat
  BY TabStop
<1>1. t.line = l /\ t.col = k /\ t.put = p
  BY PaperGoes
<1>2. ASSUME NEW put, NEW x \in Nat
      PROVE  PaperTo(t, put, x, cols) = IF x >= cols THEN Stand(l + 1, 0, put) ELSE Stand(l, x, put)
  <2>1. cols \in Nat
    OBVIOUS
  <2>. QED
    BY <2>1, PaperGoes
<1>. HIDE DEF t, stop
<1>3. /\ 0 \in Nat /\ ~ (0 >= cols) /\ cols \in Nat /\ cols >= cols
      /\ k + 1 \in Nat /\ (k # 0 => k - 1 \in Nat /\ ~ (k - 1 >= cols))
  OBVIOUS
<1>4. \A put : PaperTo(t, put, 0, cols) = Stand(l, 0, put)
  BY <1>2, <1>3
<1>5. \A put : PaperTo(t, put, cols, cols) = Stand(l + 1, 0, put)
  BY <1>2, <1>3
<1>6. \A put : PaperTo(t, put, stop, cols) = IF stop >= cols THEN Stand(l + 1, 0, put) ELSE Stand(l, stop, put)
  BY <1>0, <1>2
<1>7. k # 0 => \A put : PaperTo(t, put, k - 1, cols) = Stand(l, k - 1, put)
  BY <1>2, <1>3
<1>9. PaperStep(t, "CR", cols) = Stand(l, 0, p)
  BY <1>1, <1>4, PaperArms
<1>10. PaperStep(t, "LF", cols) = Stand(l + 1, 0, p)
  BY <1>1, <1>5, PaperArms
<1>11. PaperStep(t, "TAB", cols) = IF stop >= cols THEN Stand(l + 1, 0, p) ELSE Stand(l, stop, p)
  BY <1>1, <1>6, PaperArms DEF stop
<1>12. PaperStep(t, "BS", cols)
         = IF k = 0 THEN t ELSE Stand(l, k - 1, [p EXCEPT ![<<l, k - 1>>] = Blank])
  BY <1>1, <1>7, PaperArms
<1>. QED
  BY <1>9, <1>10, <1>11, <1>12 DEF t, stop

LEMMA PaperLetter ==
    ASSUME NEW l \in Nat, NEW k \in Nat, NEW p, NEW cols \in Nat, NEW c \in Letters
    PROVE  PaperStep(Stand(l, k, p), c, cols)
             = IF k + 1 >= cols THEN Stand(l + 1, 0, [p EXCEPT ![<<l, k>>] = c])
               ELSE Stand(l, k + 1, [p EXCEPT ![<<l, k>>] = c])
<1>. DEFINE t == Stand(l, k, p)
<1>1. t.line = l /\ t.col = k /\ t.put = p
  BY PaperGoes
<1>2. ASSUME NEW put, NEW x \in Nat
      PROVE  PaperTo(t, put, x, cols) = IF x >= cols THEN Stand(l + 1, 0, put) ELSE Stand(l, x, put)
  BY PaperGoes
<1>. HIDE DEF t
<1>3. PaperStep(t, c, cols) = PaperTo(t, [t.put EXCEPT ![<<t.line, t.col>>] = c], t.col + 1, cols)
  BY PaperArms
<1>. QED
  BY <1>1, <1>2, <1>3 DEF t

----------------------------------------------------------------------------
(* The first line of the paper on the screen when the paper is at line l.  *)
Top(l) == IF l < console_rows THEN 0 ELSE l - console_rows + 1

Ink(v, x, y) == IF v \in Letters THEN <<v, x, y>> ELSE v

Places == (0 .. (MaxTyped + console_rows)) \X Cols

(* The pixels f are those of the lines of the paper from top on. *)
Shows(f, p, top) ==
    \A row \in Rows, col \in Cols : \A x \in Xs, y \in Ys :
        f[At(col, row, x, y)] = Ink(p[<<top + row, col>>], x, y)

LEMMA NotInk == \A x, y : Ink(Blank, x, y) = Blank /\ Ink(Junk, x, y) = Junk
<1>1. Blank \notin Letters /\ Junk \notin Letters
  BY LettersAssumption, Zenon
<1>. QED
  BY <1>1, Zenon DEF Ink

LEMMA TopIs ==
    ASSUME Geometry, NEW l \in Nat
    PROVE  /\ Top(l) \in Nat /\ l - Top(l) \in Rows
           /\ l + 1 < console_rows => Top(l) = 0 /\ Top(l + 1) = 0
           /\ l + 1 >= console_rows => l - Top(l) = console_rows - 1 /\ Top(l + 1) = Top(l) + 1
  BY DEF Geometry, Top, Rows

(* A line further down, scrolling at the bottom: the screen follows. *)
LEMMA Settled ==
    ASSUME Geometry, Grid, NEW l \in Nat, cursor_y = l - Top(l),
           NEW f, DOMAIN f = DOMAIN fb, NEW p, Shows(f, p, Top(l)),
           l + 1 >= console_rows => \A col \in Cols : p[<<l + 1, col>>] = Blank,
           NEW drawn, Settle(f, drawn, cursor_y + 1)
    PROVE  cursor_y' = (l + 1) - Top(l + 1) /\ Shows(fb', p, Top(l + 1))
<1>1. console_rows \in Nat \ {0} /\ Top(l) \in Nat /\ Top(l + 1) \in Nat
  <2>1. l + 1 \in Nat
    OBVIOUS
  <2>. QED
    BY <2>1, TopIs DEF Geometry
<1>2. CASE l + 1 < console_rows
  <2>1. Top(l) = 0 /\ Top(l + 1) = 0
    BY <1>2, TopIs
  <2>2. ~ (cursor_y + 1 >= console_rows) /\ cursor_y + 1 = l + 1
    BY <1>1, <1>2, <2>1
  <2>3. fb' = f /\ cursor_y' = l + 1
    BY <2>2 DEF Settle
  <2>. QED
    BY <2>1, <2>3
<1>3. CASE l + 1 >= console_rows
  <2>1. l - Top(l) = console_rows - 1 /\ Top(l + 1) = Top(l) + 1
    BY <1>3, TopIs
  <2>2. cursor_y + 1 >= console_rows
    BY <1>1, <2>1
  <2>3. fb' = Scrolled(f) /\ cursor_y' = console_rows - 1
    BY <2>2 DEF Settle
  <2>4. ASSUME NEW row \in Rows, NEW col \in Cols, NEW x \in Xs, NEW y \in Ys
        PROVE  Scrolled(f)[At(col, row, x, y)] = Ink(p[<<Top(l + 1) + row, col>>], x, y)
    <3>1. Scrolled(f)[At(col, row, x, y)]
            = IF row = console_rows - 1 THEN Blank ELSE f[At(col, row + 1, x, y)]
      BY ScrolledCell
    <3>2. CASE row = console_rows - 1
      <4>1. Top(l + 1) + row = l + 1
        BY <1>1, <2>1, <3>2
      <4>2. p[<<Top(l + 1) + row, col>>] = Blank
        BY <1>3, <4>1
      <4>. QED
        BY <3>1, <3>2, <4>2, NotInk
    <3>3. CASE row # console_rows - 1
      <4>1. row + 1 \in Rows /\ Top(l) + (row + 1) = Top(l + 1) + row
        BY <1>1, <2>1, <3>3 DEF Rows
      <4>2. f[At(col, row + 1, x, y)] = Ink(p[<<Top(l) + (row + 1), col>>], x, y)
        BY <4>1 DEF Shows
      <4>. QED
        BY <3>1, <3>3, <4>1, <4>2
    <3>. QED
      BY <3>2, <3>3
  <2>5. Shows(fb', p, Top(l + 1))
    BY <2>3, <2>4, Zenon DEF Shows
  <2>. QED
    BY <1>1, <2>1, <2>3, <2>5
<1>. QED
  BY <1>1, <1>2, <1>3

(* The pixels g are f but for v at one place. *)
InkedAt(g, f, c, r, v) ==
    \A row \in Rows, col \in Cols, x \in Xs, y \in Ys :
        g[At(col, row, x, y)] = IF c = col /\ r = row THEN Ink(v, x, y) ELSE f[At(col, row, x, y)]

(* What is written on the paper where the cursor is, is drawn. *)
LEMMA Inked ==
    ASSUME Geometry, Grid, NEW top \in Nat, NEW p, DOMAIN p = Places, top <= MaxTyped,
           NEW f, Shows(f, p, top), NEW c \in Cols, NEW r \in Rows, NEW v,
           NEW g, InkedAt(g, f, c, r, v)
    PROVE  Shows(g, [p EXCEPT ![<<top + r, c>>] = v], top)
<1>. DEFINE q == [p EXCEPT ![<<top + r, c>>] = v]
<1>1. ASSUME NEW row \in Rows, NEW col \in Cols, NEW x \in Xs, NEW y \in Ys
      PROVE  g[At(col, row, x, y)] = Ink(q[<<top + row, col>>], x, y)
  <2>1. <<top + row, col>> \in DOMAIN p
    BY LettersAssumption DEF Places, Rows, Geometry
  <2>2. q[<<top + row, col>>] = IF r = row /\ c = col THEN v ELSE p[<<top + row, col>>]
    BY <2>1 DEF Rows
  <2>3. f[At(col, row, x, y)] = Ink(p[<<top + row, col>>], x, y)
    BY DEF Shows
  <2>4. g[At(col, row, x, y)] = IF c = col /\ r = row THEN Ink(v, x, y) ELSE f[At(col, row, x, y)]
    BY Zenon DEF InkedAt
  <2>. HIDE DEF q
  <2>. QED
    BY <2>2, <2>3, <2>4, Zenon
<1>. QED
  BY <1>1, Zenon DEF Shows

----------------------------------------------------------------------------
(* The screen and the paper agree, and the paper is blank below its line.  *)
Below(l, p) == \A q \in Places : q[1] > l /\ q[1] >= console_rows => p[q] = Blank

Matches(l, k, p) ==
    /\ l \in 0 .. Len(typed) /\ k \in Cols /\ DOMAIN p = Places /\ Below(l, p)
    /\ cursor_x = k /\ cursor_y = l - Top(l)
    /\ Shows(fb, p, Top(l))

OnPaper ==
    \E l, k, p : /\ Paper(typed, begun, console_rows, console_cols) = Stand(l, k, p)
                 /\ Matches(l, k, p)

Chars == Letters \union {"CR", "LF", "TAB", "BS"}

(* While there is a framebuffer, a call for another or none. *)
TInv ==
    lfb # 0 => /\ Grid
               /\ typed \in Seq(Chars) /\ Len(typed) <= MaxTyped
               /\ (~ pictured => OnPaper)

LEMMA ScreenMatches == Geometry /\ OnPaper => ScreenIsTail
<1>. SUFFICES ASSUME Geometry, OnPaper
              PROVE  LET t == Paper(typed, begun, console_rows, console_cols)
                         top == IF t.line < console_rows THEN 0 ELSE t.line - console_rows + 1
                     IN  /\ cursor_x = t.col /\ cursor_y = t.line - top
                         /\ \A row \in 0 .. (console_rows - 1), col \in 0 .. (console_cols - 1) :
                               CellHolds(col, row, t.put[top + row, col])
  BY DEF ScreenIsTail
<1>. DEFINE t == Paper(typed, begun, console_rows, console_cols)
<1>1. PICK l, k, p : t = Stand(l, k, p) /\ Matches(l, k, p)
  BY Zenon DEF OnPaper
<1>. HIDE DEF t
<1>2. l \in Nat
  BY <1>1 DEF Matches
<1>3. t.line = l /\ t.col = k /\ t.put = p
  BY <1>1 DEF Stand
<1>4. cursor_x = k /\ cursor_y = l - Top(l)
  BY <1>1, Zenon DEF Matches
<1>5. ASSUME NEW row \in 0 .. (console_rows - 1), NEW col \in 0 .. (console_cols - 1)
      PROVE  CellHolds(col, row, p[<<Top(l) + row, col>>])
  <2>1. row \in Rows /\ col \in Cols /\ Shows(fb, p, Top(l))
    BY <1>1, Zenon DEF Rows, Cols, Matches
  <2>2. \A x \in Xs, y \in Ys : fb[At(col, row, x, y)] = Ink(p[<<Top(l) + row, col>>], x, y)
    BY <2>1, Zenon DEF Shows
  <2>. QED
    BY <2>2, Zenon DEF CellHolds, Xs, Ys, At, Ink
<1>. QED
  BY <1>3, <1>4, <1>5, Zenon DEF Top, t

(* A screen begun: nothing printed, the cursor at its first place. *)
Bare ==
    /\ typed = <<>> /\ begun \in {Junk, Blank} /\ cursor_x = 0 /\ cursor_y = 0
    /\ \A o \in DOMAIN fb :
          o \in Reached((0 .. (width - 1)) \X (0 .. (height - 1))) => fb[o] = begun

LEMMA BareMatches == Geometry /\ Grid /\ Bare => OnPaper
<1>. SUFFICES ASSUME Geometry, Grid, Bare PROVE OnPaper
  OBVIOUS
<1>. DEFINE p == Sheet(begun, console_rows, console_cols)
<1>1. console_rows \in Nat \ {0} /\ console_cols \in Nat \ {0} /\ MaxTyped \in Nat
  BY LettersAssumption DEF Geometry
<1>2. Paper(typed, begun, console_rows, console_cols) = Stand(0, 0, p)
  BY PaperBegins, Zenon DEF Bare, Fresh, Stand
<1>3. p = [q \in Places |-> IF q[1] < console_rows THEN begun ELSE Blank]
  BY Zenon DEF Sheet, Places, Cols
<1>. HIDE DEF p
<1>4. DOMAIN p = Places /\ \A q \in Places : p[q] = IF q[1] < console_rows THEN begun ELSE Blank
  BY <1>3
<1>5. Below(0, p)
  <2>1. \A q \in Places : q[1] >= console_rows => ~ (q[1] < console_rows)
    BY <1>1 DEF Places
  <2>. QED
    BY <1>4, <2>1, Zenon DEF Below
<1>6. Top(0) = 0
  BY <1>1 DEF Top
<1>7. ASSUME NEW row \in Rows, NEW col \in Cols, NEW x \in Xs, NEW y \in Ys
      PROVE  fb[At(col, row, x, y)] = Ink(p[<<0 + row, col>>], x, y)
  <2>1. <<0 + row, col>> \in Places /\ <<0 + row, col>>[1] < console_rows
    BY <1>1 DEF Places, Rows
  <2>2. p[<<0 + row, col>>] = begun
    BY <1>4, <2>1, Zenon
  <2>3. Ink(begun, x, y) = begun
    BY NotInk DEF Bare
  <2>. DEFINE px == col * FontW + x
              py == row * FontH + y
  <2>4. /\ px \in Nat /\ py \in Nat /\ px < width /\ py < height
        /\ At(col, row, x, y) \in DOMAIN fb
    BY InCell
  <2>5. width \in Nat /\ height \in Nat
    BY DEF Geometry
  <2>6. At(col, row, x, y) = Offset(px, py)
    BY DEF At
  <2>. HIDE DEF px, py
  <2>7. <<px, py>> \in (0 .. (width - 1)) \X (0 .. (height - 1))
    BY <2>4, <2>5
  <2>8. Offset(<<px, py>>[1], <<px, py>>[2]) = Offset(px, py)
    OBVIOUS
  <2>9. At(col, row, x, y) \in Reached((0 .. (width - 1)) \X (0 .. (height - 1)))
    BY <2>6, <2>7, <2>8, Zenon DEF Reached
  <2>10. fb[At(col, row, x, y)] = begun
    BY <2>4, <2>9, Zenon DEF Bare
  <2>. QED
    BY <2>2, <2>3, <2>10
<1>8. Shows(fb, p, Top(0))
  BY <1>6, <1>7, Zenon DEF Shows
<1>9. 0 \in 0 .. Len(typed) /\ 0 \in Cols /\ 0 - Top(0) = 0
  BY <1>1, <1>6 DEF Bare, Cols
<1>10. cursor_x = 0 /\ cursor_y = 0
  BY DEF Bare
<1>11. Matches(0, 0, p)
  BY <1>4, <1>5, <1>8, <1>9, <1>10, Zenon DEF Matches
<1>. QED
  BY <1>2, <1>11, Zenon DEF OnPaper

----------------------------------------------------------------------------
(* The cursor sent to column x: the screen follows, on the next line when  *)
(* x is past this one.                                                     *)
LEMMA Moved ==
    ASSUME Geometry, Grid, OnScreen, NEW l \in 0 .. (MaxTyped - 1), cursor_y = l - Top(l),
           NEW f, DOMAIN f = DOMAIN fb, NEW p, DOMAIN p = Places, Below(l, p),
           Shows(f, p, Top(l)), NEW x \in Nat,
           NEW drawn, MoveTo(f, drawn, x)
    PROVE  IF x >= console_cols
           THEN cursor_x' = 0 /\ cursor_y' = (l + 1) - Top(l + 1) /\ Shows(fb', p, Top(l + 1))
           ELSE cursor_x' = x /\ cursor_y' = l - Top(l) /\ Shows(fb', p, Top(l))
<1>1. l \in Nat /\ MaxTyped \in Nat /\ console_rows \in Nat \ {0}
  BY LettersAssumption DEF Geometry
<1>2. l + 1 >= console_rows => \A col \in Cols : p[<<l + 1, col>>] = Blank
  <2>1. ASSUME l + 1 >= console_rows, NEW col \in Cols PROVE p[<<l + 1, col>>] = Blank
    <3>1. <<l + 1, col>> \in Places /\ <<l + 1, col>>[1] > l /\ <<l + 1, col>>[1] >= console_rows
      BY <1>1, <2>1 DEF Places
    <3>. QED
      BY <3>1, Zenon DEF Below
  <2>. QED
    BY <2>1
<1>3. CASE x >= console_cols
  <2>1. cursor_x' = 0 /\ Settle(f, drawn, cursor_y + 1)
    BY <1>3 DEF MoveTo
  <2>2. cursor_y' = (l + 1) - Top(l + 1) /\ Shows(fb', p, Top(l + 1))
    BY <1>1, <1>2, <2>1, Settled
  <2>. QED
    BY <1>3, <2>1, <2>2
<1>4. CASE ~ (x >= console_cols)
  <2>1. cursor_x' = x /\ Settle(f, drawn, cursor_y)
    BY <1>4 DEF MoveTo
  <2>2. ~ (cursor_y >= console_rows)
    BY <1>1 DEF OnScreen
  <2>3. fb' = f /\ cursor_y' = cursor_y
    BY <2>1, <2>2 DEF Settle
  <2>. QED
    BY <1>4, <2>1, <2>3
<1>. QED
  BY <1>3, <1>4

(* A character printed, and the paper it gives matching the screen. *)
LEMMA GoesOn ==
    ASSUME TInv, lfb # 0, NEW c \in Chars, Printing(c),
           NEW l, NEW k, NEW p, Paper(typed, begun, console_rows, console_cols) = Stand(l, k, p),
           NEW m \in 0 .. (Len(typed) + 1), NEW j \in Cols, NEW q,
           PaperStep(Stand(l, k, p), c, console_cols) = Stand(m, j, q),
           DOMAIN q = Places, Below(m, q), cursor_x' = j, cursor_y' = m - Top(m),
           Shows(fb', q, Top(m))
    PROVE  OnPaper'
<1>1. typed \in Seq(Chars) /\ typed' = Append(typed, c) /\ begun' = begun
      /\ UNCHANGED <<width, height, pitch, console_rows, console_cols>>
  BY DEF TInv, Printing, geometry
<1>2. Paper(typed', begun', console_rows', console_cols') = Stand(m, j, q)
  <2>1. Paper(Append(typed, c), begun, console_rows, console_cols)
          = PaperStep(Paper(typed, begun, console_rows, console_cols), c, console_cols)
    BY <1>1, PaperGoesOn
  <2>. QED
    BY <1>1, <2>1, Zenon
<1>3. Len(typed') = Len(typed) + 1
  BY <1>1
<1>4. Matches(m, j, q)'
  <2>1. m \in 0 .. Len(typed')
    BY <1>3
  <2>2. Cols' = Cols /\ Rows' = Rows /\ Places' = Places /\ Top(m)' = Top(m)
    BY <1>1 DEF Cols, Rows, Places, Top
  <2>3. Below(m, q)'
    BY <1>1, <2>2, Zenon DEF Below
  <2>4. Shows(fb, q, Top(m))'
    <3>1. ASSUME NEW row \in Rows, NEW col \in Cols, NEW x \in Xs, NEW y \in Ys
          PROVE  At(col, row, x, y)' = At(col, row, x, y)
      BY <1>1 DEF At, Offset
    <3>2. ASSUME NEW row \in Rows, NEW col \in Cols, NEW x \in Xs, NEW y \in Ys
          PROVE  fb'[At(col, row, x, y)'] = Ink(q[<<Top(m)' + row, col>>], x, y)
      <4>1. fb'[At(col, row, x, y)] = Ink(q[<<Top(m) + row, col>>], x, y)
        BY Zenon DEF Shows
      <4>. QED
        BY <2>2, <3>1, <4>1, Zenon
    <3>. QED
      BY <2>2, <3>2, Zenon DEF Shows
  <2>. QED
    BY <2>1, <2>2, <2>3, <2>4, Zenon DEF Matches
<1>. QED
  BY <1>2, <1>4, Zenon DEF OnPaper

LEMMA LetterTail ==
    ASSUME IInv, TInv, lfb # 0, ~ pictured, NEW c \in Letters, Letter(c)
    PROVE  OnPaper'
<1>1. Geometry /\ OnScreen /\ Grid /\ Printing(c) /\ c \in Chars
  BY DEF IInv, TInv, Letter, Chars
<1>2. PICK l, k, p : /\ Paper(typed, begun, console_rows, console_cols) = Stand(l, k, p)
                     /\ Matches(l, k, p)
  BY Zenon DEF TInv, OnPaper
<1>3. /\ l \in 0 .. Len(typed) /\ k \in Cols /\ DOMAIN p = Places /\ Below(l, p)
      /\ cursor_x = k /\ cursor_y = l - Top(l) /\ Shows(fb, p, Top(l))
  BY <1>2, Zenon DEF Matches
<1>4. Len(typed) \in Nat /\ Len(typed) < MaxTyped
  BY <1>1 DEF TInv, Printing
<1>5. /\ l \in Nat /\ k \in Nat /\ l \in 0 .. (MaxTyped - 1) /\ k < console_cols
      /\ console_cols \in Nat \ {0} /\ console_rows \in Nat \ {0} /\ MaxTyped \in Nat
  BY <1>1, <1>3, <1>4, LettersAssumption DEF Cols, Geometry
<1>6. Top(l) \in Nat /\ cursor_y \in Rows /\ Top(l) <= MaxTyped /\ Top(l) + cursor_y = l
  <2>1. Top(l) \in Nat /\ l - Top(l) \in Rows
    BY <1>1, <1>5, TopIs
  <2>2. l - Top(l) \in Nat
    BY <1>5, <2>1 DEF Rows
  <2>. QED
    BY <1>3, <1>5, <2>1, <2>2
<1>. DEFINE f == Drawn(fb, c, k, cursor_y)
            q == [p EXCEPT ![<<l, k>>] = c]
<1>7. DOMAIN f = DOMAIN fb
  BY DEF Drawn
<1>8. Shows(f, q, Top(l))
  <2>1. InkedAt(f, fb, k, cursor_y, c)
    BY <1>1, <1>3, <1>6, DrawnCell DEF Ink, InkedAt
  <2>. HIDE DEF f
  <2>2. Shows(f, [p EXCEPT ![<<Top(l) + cursor_y, k>>] = c], Top(l))
    BY ONLY <1>1, <1>3, <1>6, <1>7, <2>1, Inked
  <2>. QED
    BY <1>6, <2>2
<1>9. DOMAIN q = Places /\ Below(l, q)
  <2>1. DOMAIN q = Places
    BY <1>3
  <2>2. ASSUME NEW place \in Places, place[1] > l, place[1] >= console_rows
        PROVE  q[place] = Blank
    <3>1. place # <<l, k>> /\ q[place] = p[place]
      BY <1>3, <1>5, <2>2 DEF Places
    <3>. QED
      BY <1>3, <2>2, <3>1, Zenon DEF Below
  <2>. HIDE DEF q
  <2>. QED
    BY <2>1, <2>2, Zenon DEF Below
<1>10. MoveTo(f, Reached(Area(k, cursor_y)), k + 1)
  BY <1>3 DEF Letter
<1>11. PaperStep(Stand(l, k, p), c, console_cols)
         = IF k + 1 >= console_cols THEN Stand(l + 1, 0, q) ELSE Stand(l, k + 1, q)
  <2>2. k \in Nat /\ l \in Nat /\ console_cols \in Nat \ {0} /\ k < console_cols /\ c \in Letters
    BY <1>5
  <2>. HIDE DEF q
  <2>3. PaperStep(Stand(l, k, p), c, console_cols)
          = IF k + 1 >= console_cols THEN Stand(l + 1, 0, [p EXCEPT ![<<l, k>>] = c])
            ELSE Stand(l, k + 1, [p EXCEPT ![<<l, k>>] = c])
    BY ONLY <2>2, PaperLetter
  <2>. QED
    BY <2>3 DEF q
<1>. HIDE DEF f, q
<1>12. IF k + 1 >= console_cols
       THEN cursor_x' = 0 /\ cursor_y' = (l + 1) - Top(l + 1) /\ Shows(fb', q, Top(l + 1))
       ELSE cursor_x' = k + 1 /\ cursor_y' = l - Top(l) /\ Shows(fb', q, Top(l))
  <2>1. k + 1 \in Nat
    BY <1>5
  <2>. QED
    BY <1>1, <1>3, <1>5, <1>7, <1>8, <1>9, <1>10, <2>1, Moved
<1>13. Below(l + 1, q)
  BY <1>5, <1>9 DEF Below, Places
<1>14. CASE k + 1 >= console_cols
  <2>1. l + 1 \in 0 .. (Len(typed) + 1) /\ 0 \in Cols
    BY <1>3, <1>4, <1>5 DEF Cols
  <2>. QED
    BY <1>1, <1>2, <1>9, <1>11, <1>12, <1>13, <1>14, <2>1, GoesOn
<1>15. CASE ~ (k + 1 >= console_cols)
  <2>1. l \in 0 .. (Len(typed) + 1) /\ k + 1 \in Cols
    BY <1>3, <1>4, <1>5, <1>15 DEF Cols
  <2>. QED
    BY <1>1, <1>2, <1>9, <1>11, <1>12, <1>15, <2>1, GoesOn
<1>. QED
  BY <1>14, <1>15

(* What the character that moves the cursor leaves the paper and the       *)
(* screen with.                                                            *)
LEMMA KeyTail ==
    ASSUME IInv, TInv, lfb # 0, ~ pictured, Return \/ Newline \/ TabKey \/ Erase
    PROVE  OnPaper'
<1>1. Geometry /\ OnScreen /\ Grid
  BY DEF IInv, TInv
<1>2. PICK l, k, p : /\ Paper(typed, begun, console_rows, console_cols) = Stand(l, k, p)
                     /\ Matches(l, k, p)
  BY Zenon DEF TInv, OnPaper
<1>3. /\ l \in 0 .. Len(typed) /\ k \in Cols /\ DOMAIN p = Places /\ Below(l, p)
      /\ cursor_x = k /\ cursor_y = l - Top(l) /\ Shows(fb, p, Top(l))
  BY <1>2, Zenon DEF Matches
<1>4. Len(typed) \in Nat /\ Len(typed) < MaxTyped
  BY DEF TInv, Return, Newline, TabKey, Erase, Printing
<1>5. /\ l \in Nat /\ k \in Nat /\ l \in 0 .. (MaxTyped - 1) /\ k < console_cols
      /\ console_cols \in Nat \ {0} /\ console_rows \in Nat \ {0} /\ MaxTyped \in Nat
  BY <1>1, <1>3, <1>4, LettersAssumption DEF Cols, Geometry
<1>6. Top(l) \in Nat /\ cursor_y \in Rows /\ Top(l) <= MaxTyped /\ Top(l) + cursor_y = l
  <2>1. Top(l) \in Nat /\ l - Top(l) \in Rows
    BY <1>1, <1>5, TopIs
  <2>2. l - Top(l) \in Nat
    BY <1>5, <2>1 DEF Rows
  <2>. QED
    BY <1>3, <1>5, <2>1, <2>2
<1>7. /\ l \in 0 .. (Len(typed) + 1) /\ l + 1 \in 0 .. (Len(typed) + 1)
      /\ 0 \in Cols /\ (k # 0 => k - 1 \in Cols)
  BY <1>3, <1>4, <1>5 DEF Cols
<1>8. Below(l + 1, p)
  BY <1>3, <1>5 DEF Below, Places
<1>. DEFINE stop == TabWidth * (k \div TabWidth + 1)
<1>9. /\ PaperStep(Stand(l, k, p), "CR", console_cols) = Stand(l, 0, p)
      /\ PaperStep(Stand(l, k, p), "LF", console_cols) = Stand(l + 1, 0, p)
      /\ PaperStep(Stand(l, k, p), "TAB", console_cols)
           = IF stop >= console_cols THEN Stand(l + 1, 0, p) ELSE Stand(l, stop, p)
      /\ PaperStep(Stand(l, k, p), "BS", console_cols)
           = IF k = 0 THEN Stand(l, k, p)
             ELSE Stand(l, k - 1, [p EXCEPT ![<<l, k - 1>>] = Blank])
  BY <1>5, PaperSteps
<1>10. CASE Return
  <2>1. Printing("CR") /\ "CR" \in Chars /\ cursor_x' = 0 /\ cursor_y' = cursor_y /\ fb' = fb
    BY <1>10, Zenon DEF Return, Chars
  <2>2. Shows(fb', p, Top(l)) /\ cursor_y' = l - Top(l)
    BY <1>3, <2>1
  <2>. QED
    BY <1>2, <1>3, <1>7, <1>9, <2>1, <2>2, GoesOn
<1>11. CASE Newline
  <2>1. Printing("LF") /\ "LF" \in Chars /\ cursor_x' = 0 /\ Settle(fb, {}, cursor_y + 1)
    BY <1>11, Zenon DEF Newline, Chars
  <2>2. l + 1 >= console_rows => \A col \in Cols : p[<<l + 1, col>>] = Blank
    <3>1. ASSUME l + 1 >= console_rows, NEW col \in Cols PROVE p[<<l + 1, col>>] = Blank
      <4>1. <<l + 1, col>> \in Places /\ <<l + 1, col>>[1] > l /\ <<l + 1, col>>[1] >= console_rows
        BY <1>5, <3>1 DEF Places
      <4>. QED
        BY <1>3, <4>1, Zenon DEF Below
    <3>. QED
      BY <3>1
  <2>3. cursor_y' = (l + 1) - Top(l + 1) /\ Shows(fb', p, Top(l + 1))
    BY <1>1, <1>3, <1>5, <2>1, <2>2, Settled
  <2>. QED
    BY <1>2, <1>3, <1>7, <1>8, <1>9, <2>1, <2>3, GoesOn
<1>12. CASE TabKey
  <2>1. Printing("TAB") /\ "TAB" \in Chars
    BY <1>12, Zenon DEF TabKey, Chars
  <2>2. stop \in Nat /\ MoveTo(fb, {}, stop)
    BY <1>3, <1>5, <1>12, TabStop DEF TabKey
  <2>. HIDE DEF stop
  <2>3. IF stop >= console_cols
        THEN cursor_x' = 0 /\ cursor_y' = (l + 1) - Top(l + 1) /\ Shows(fb', p, Top(l + 1))
        ELSE cursor_x' = stop /\ cursor_y' = l - Top(l) /\ Shows(fb', p, Top(l))
    BY <1>1, <1>3, <1>5, <2>2, Moved
  <2>4. CASE stop >= console_cols
    BY <1>2, <1>3, <1>7, <1>8, <1>9, <2>1, <2>3, <2>4, GoesOn
  <2>5. CASE ~ (stop >= console_cols)
    <3>1. stop \in Cols
      BY <1>5, <2>2, <2>5 DEF Cols
    <3>. QED
      BY <1>2, <1>3, <1>7, <1>9, <2>1, <2>3, <2>5, <3>1, GoesOn
  <2>. QED
    BY <2>4, <2>5
<1>13. CASE Erase
  <2>1. Printing("BS") /\ "BS" \in Chars /\ cursor_y' = cursor_y
    BY <1>13, Zenon DEF Erase, Chars
  <2>2. CASE k = 0
    <3>1. ~ (cursor_x > 0)
      BY <1>3, <2>2
    <3>2. fb' = fb /\ cursor_x' = cursor_x
      BY <1>13, <3>1 DEF Erase
    <3>3. Shows(fb', p, Top(l)) /\ cursor_y' = l - Top(l) /\ cursor_x' = k
      BY <1>3, <2>1, <3>2
    <3>. QED
      BY <1>2, <1>3, <1>7, <1>9, <2>1, <2>2, <3>3, GoesOn
  <2>3. CASE k # 0
    <3>. DEFINE f == Cleared(fb, k - 1, cursor_y)
                q == [p EXCEPT ![<<l, k - 1>>] = Blank]
    <3>1. cursor_x > 0
      BY <1>3, <1>5, <2>3
    <3>2. fb' = f /\ cursor_x' = k - 1
      BY <1>3, <1>13, <3>1 DEF Erase
    <3>3. InkedAt(f, fb, k - 1, cursor_y, Blank)
      <4>1. \A x, y : Ink(Blank, x, y) = Blank
        BY NotInk
      <4>. QED
        BY <1>1, <1>6, <1>7, <2>3, <4>1, ClearedCell DEF InkedAt
    <3>. HIDE DEF f
    <3>4. Shows(f, [p EXCEPT ![<<Top(l) + cursor_y, k - 1>>] = Blank], Top(l))
      <4>1. k - 1 \in Cols
        BY <1>7, <2>3
      <4>. QED
        BY ONLY <1>1, <1>3, <1>6, <3>3, <4>1, Inked
    <3>5. Shows(fb', q, Top(l))
      BY <1>6, <3>2, <3>4
    <3>6. DOMAIN q = Places
      BY <1>3
    <3>7. Below(l, q)
      <4>1. ASSUME NEW place \in Places, place[1] > l, place[1] >= console_rows
            PROVE  q[place] = Blank
        <5>1. p[place] = Blank
          BY <1>3, <4>1, Zenon DEF Below
        <5>2. q[place] = IF place = <<l, k - 1>> THEN Blank ELSE p[place]
          BY <1>3
        <5>. QED
          BY <5>1, <5>2, Zenon
      <4>. HIDE DEF q
      <4>. QED
        BY <4>1, Zenon DEF Below
    <3>8. PaperStep(Stand(l, k, p), "BS", console_cols) = Stand(l, k - 1, q)
      BY <1>9, <2>3
    <3>9. k - 1 \in Cols /\ cursor_y' = l - Top(l)
      BY <1>3, <1>7, <2>1, <2>3
    <3>. HIDE DEF q
    <3>. QED
      BY <1>2, <1>7, <2>1, <3>2, <3>5, <3>6, <3>7, <3>8, <3>9, GoesOn
  <2>. QED
    BY <2>2, <2>3
<1>. QED
  BY <1>10, <1>11, <1>12, <1>13

----------------------------------------------------------------------------
(* A division rounded down, times the divisor. *)
LEMMA WholeFit ==
    ASSUME NEW a \in Nat, NEW b \in Nat \ {0}
    PROVE  (a \div b) * b <= a
<1>1. a = b * (a \div b) + (a % b) /\ a % b \in 0 .. (b - 1) /\ a \div b \in Int
  BY SMT
<1>. DEFINE d == a \div b
<1>2. b * d = d * b /\ b * d \in Int
  BY <1>1
<1>. HIDE DEF d
<1>. QED
  BY <1>1, <1>2 DEF d

LEMMA StepTail ==
    ASSUME IInv, TInv, [Next]_vars
    PROVE  TInv'
<1>1. IInv'
  BY StepInside
<1>2. CASE LfbInitDone
  <2>1. SUFFICES ASSUME lfb' # 0 PROVE TInv'
    BY DEF TInv
  <2>2. Usable /\ Begin(mbox.mode, mbox.base)
    BY <1>2, <2>1 DEF LfbInitDone, Begin
  <2>3. mbox.mode \in Modes
    BY <2>2 DEF IInv, AnswerSound, Usable
  <2>. DEFINE mode == mbox.mode
  <2>4. mode.width \in Nat /\ mode.height \in Nat /\ FontW \in Nat \ {0} /\ FontH \in Nat \ {0}
    BY <2>3, ModesAssumption, FontAssumption
  <2>. HIDE DEF mode
  <2>5. Grid'
    <3>1. (mode.width \div FontW) * FontW <= mode.width /\ (mode.height \div FontH) * FontH <= mode.height
      BY <2>4, WholeFit
    <3>2. /\ width' = mode.width /\ height' = mode.height
          /\ console_cols' = mode.width \div FontW /\ console_rows' = mode.height \div FontH
      BY <2>2 DEF Begin, mode
    <3>. QED
      BY <3>1, <3>2 DEF Grid
  <2>6. typed' = <<>> /\ begun' = Junk /\ cursor_x' = 0 /\ cursor_y' = 0
        /\ \A o \in DOMAIN fb' : fb'[o] = Junk
    BY <2>2 DEF Begin
  <2>7. Bare'
    BY <2>6, Zenon DEF Bare
  <2>8. Geometry'
    BY <1>1, <2>1 DEF IInv
  <2>9. OnPaper'
    BY <2>5, <2>7, <2>8, BareMatches, PTL
  <2>10. typed' \in Seq(Chars) /\ Len(typed') <= MaxTyped
    BY <2>6, LettersAssumption
  <2>. QED
    BY <2>5, <2>9, <2>10 DEF TInv
<1>3. CASE LfbClear
  <2>1. /\ lfb # 0 /\ typed' = <<>> /\ begun' = Blank /\ cursor_x' = 0 /\ cursor_y' = 0
        /\ UNCHANGED <<lfb, width, height, pitch, console_cols, console_rows>>
    BY <1>3 DEF LfbClear, geometry
  <2>2. Grid'
    BY <2>1 DEF Grid, TInv
  <2>3. Geometry'
    BY <1>1, <2>1 DEF IInv
  <2>4. Bare'
    <3>. DEFINE screen == ClearReached
    <3>1. fb' = [o \in DOMAIN fb |-> IF o \in screen THEN Blank ELSE fb[o]]
      BY <1>3, Zenon DEF LfbClear
    <3>2. ClearReached' = screen
      BY <2>1 DEF ClearReached, Reached, Offset
    <3>. HIDE DEF screen
    <3>3. \A o \in DOMAIN fb' : o \in screen => fb'[o] = Blank
      BY <3>1
    <3>. QED
      BY <2>1, <3>2, <3>3, Zenon DEF Bare, ClearReached
  <2>5. OnPaper'
    BY <2>2, <2>3, <2>4, BareMatches, PTL
  <2>6. typed' \in Seq(Chars) /\ Len(typed') <= MaxTyped
    BY <2>1, LettersAssumption
  <2>. QED
    BY <2>2, <2>5, <2>6 DEF TInv
<1>4. ASSUME NEW c \in Chars, Printing(c), ~ pictured => OnPaper'
      PROVE  TInv'
  <2>1. /\ lfb # 0 /\ Len(typed) < MaxTyped /\ typed' = Append(typed, c) /\ pictured' = pictured
        /\ UNCHANGED <<width, height, console_cols, console_rows>>
    BY <1>4 DEF Printing, geometry
  <2>2. typed \in Seq(Chars) /\ Grid
    BY <2>1 DEF TInv
  <2>3. typed' \in Seq(Chars) /\ Len(typed') <= MaxTyped
    BY <2>1, <2>2, LettersAssumption
  <2>4. Grid'
    BY <2>1, <2>2 DEF Grid
  <2>. QED
    BY <1>4, <2>1, <2>3, <2>4 DEF TInv
<1>5. CASE Putchar
  <2>1. CASE Return \/ Newline \/ TabKey \/ Erase
    <3>1. lfb # 0
      BY <2>1 DEF Return, Newline, TabKey, Erase, Printing
    <3>2. ~ pictured => OnPaper'
      BY <2>1, <3>1, KeyTail
    <3>3. Printing("CR") \/ Printing("LF") \/ Printing("TAB") \/ Printing("BS")
      BY <2>1, Zenon DEF Return, Newline, TabKey, Erase
    <3>4. {"CR", "LF", "TAB", "BS"} \subseteq Chars
      BY Zenon DEF Chars
    <3>. QED
      BY <1>4, <3>2, <3>3, <3>4
  <2>2. ASSUME NEW c \in Letters, Letter(c) PROVE TInv'
    <3>1. lfb # 0 /\ Printing(c) /\ c \in Chars
      BY <2>2 DEF Letter, Printing, Chars
    <3>2. ~ pictured => OnPaper'
      BY <2>2, <3>1, LetterTail
    <3>. QED
      BY <1>4, <3>1, <3>2
  <2>. QED
    BY <1>5, <2>1, <2>2 DEF Putchar
<1>6. ASSUME NEW q \in Pictures, ShowPicture(q) PROVE TInv'
  BY <1>6 DEF ShowPicture, TInv, Grid, geometry
<1>7. CASE LfbInit \/ Gpu \/ MboxWrite \/ MboxDiscard \/ UNCHANGED vars
  <2>1. UNCHANGED <<lfb, width, height, pitch, console_cols, console_rows, cursor_x, cursor_y, fb,
                    typed, begun, pictured>>
    BY <1>7 DEF LfbInit, Gpu, GpuDrain, GpuForeign, GpuAnswer, MboxWrite, MboxDiscard, vars,
                geometry, cursor, history
  <2>2. Grid' = Grid /\ (OnPaper => OnPaper')
    <3>1. Grid' = Grid
      BY <2>1, Zenon DEF Grid
    <3>2. OnPaper => OnPaper'
      <4>1. Rows' = Rows /\ Cols' = Cols /\ Places' = Places
        BY <2>1, Zenon DEF Rows, Cols, Places
      <4>2. ASSUME NEW l PROVE Top(l)' = Top(l)
        BY <2>1, Zenon DEF Top
      <4>3. ASSUME NEW col, NEW row, NEW x, NEW y
            PROVE  At(col, row, x, y)' = At(col, row, x, y)
        BY <2>1, Zenon DEF At, Offset
      <4>4. ASSUME NEW l, NEW p, Shows(fb, p, Top(l)) PROVE Shows(fb, p, Top(l))'
        <5>1. ASSUME NEW row, NEW col, NEW x, NEW y
              PROVE  fb'[At(col, row, x, y)'] = fb[At(col, row, x, y)]
          BY <2>1, <4>3, Zenon
        <5>2. Top(l)' = Top(l)
          BY <4>2
        <5>3. ASSUME NEW row \in Rows, NEW col \in Cols, NEW x \in Xs, NEW y \in Ys
              PROVE  fb'[At(col, row, x, y)'] = Ink(p[<<Top(l)' + row, col>>], x, y)
          <6>1. fb[At(col, row, x, y)] = Ink(p[<<Top(l) + row, col>>], x, y)
            BY <4>4, Zenon DEF Shows
          <6>. QED
            BY <5>1, <5>2, <6>1, Zenon
        <5>. QED
          BY <4>1, <5>3, Zenon DEF Shows
      <4>5. ASSUME NEW l, NEW p, Below(l, p) PROVE Below(l, p)'
        BY <2>1, <4>5, <4>1, Zenon DEF Below
      <4>6. ASSUME NEW l, NEW k, NEW p, Matches(l, k, p) PROVE Matches(l, k, p)'
        BY <2>1, <4>6, <4>1, <4>2, <4>4, <4>5, Zenon DEF Matches
      <4>. QED
        BY <2>1, <4>6, Zenon DEF OnPaper
    <3>. QED
      BY <3>1, <3>2
  <2>. QED
    BY <2>1, <2>2, Zenon DEF TInv
<1>. QED
  BY <1>2, <1>3, <1>5, <1>6, <1>7 DEF Next, Mbox

(* Pixel by pixel, the screen is the end of what was printed on it, with   *)
(* the cursor where the next character goes, for any font, screen and text:*)
(* wrapping, tabs, erasing and scrolling lose, repeat and misplace nothing *)
(* (lfb.c:281-453).                                                        *)
THEOREM ScreenShowsTheTail == Spec => []ScreenIsTail
<1>1. ConsoleInit => TInv
  BY DEF ConsoleInit, TInv
<1>2. IInv /\ TInv /\ [Next]_vars => TInv'
  BY StepTail
<1>3. IInv /\ TInv => ScreenIsTail
  <2>1. IInv /\ TInv /\ lfb # 0 /\ ~ pictured => Geometry /\ OnPaper
    BY DEF IInv, TInv
  <2>. QED
    BY <2>1, ScreenMatches, Zenon DEF ScreenIsTail
<1>. QED
  BY <1>1, <1>2, <1>3, AlwaysInside, PTL DEF Spec
=============================================================================
