---------------------------- MODULE ViewerProofs ----------------------------
(***************************************************************************)
(* Proofs about Viewer, for every keyboard of the keys parseEscape knows,  *)
(* every number of keys pressed, of rows and of lines, both modes and      *)
(* every capacity of the channel.  The first part is about the window, the *)
(* second about the keys.                                                  *)
(***************************************************************************)
EXTENDS Viewer, SequenceTheorems, TLAPS

-----------------------------------------------------------------------------
(* The window.                                                             *)

(* Neither bound of the offset is below 0, and a screen has a row.         *)
LEMMA Bounds ==
    ASSUME height \in Nat, hosts \in Nat
    PROVE  /\ tuiMaxHostRows \in Nat /\ tuiMaxHostRows >= 1
           /\ MaxOff \in Nat /\ MaxOff <= hosts
           /\ hosts > tuiMaxHostRows => MaxOff = hosts - tuiMaxHostRows
           /\ hosts <= tuiMaxHostRows => MaxOff = 0
BY DEF tuiMaxHostRows, MaxOff

(* scroll leaves an offset within the rows, and by how far it goes.        *)
LEMMA ScrolledWhere ==
    ASSUME height \in Nat, hosts \in Nat, scrollOff \in Nat, NEW key \in Scrolling,
           NEW off, off = Scrolled(key)
    PROVE  /\ off \in Nat /\ off <= MaxOff
           /\ key = "up" => off = NotBelow(NotAbove(scrollOff - 1))
           /\ key = "down" => off = NotBelow(NotAbove(scrollOff + 1))
           /\ key = "pageup" => off = NotBelow(NotAbove(scrollOff - tuiMaxHostRows))
           /\ key = "pagedown" => off = NotBelow(NotAbove(scrollOff + tuiMaxHostRows))
           /\ key = "top" => off = 0
           /\ key = "bottom" => off = MaxOff
<1>1. \A x \in Int : NotBelow(NotAbove(x)) \in Nat /\ NotBelow(NotAbove(x)) <= MaxOff
  BY Bounds DEF NotBelow, NotAbove
<1>2. NotBelow(NotAbove(0)) = 0 /\ NotBelow(NotAbove(MaxOff)) = MaxOff
  BY Bounds DEF NotBelow, NotAbove
<1>3. PICK x \in Int :
        /\ off = NotBelow(NotAbove(x))
        /\ x = CASE key = "up"       -> scrollOff - 1
                 [] key = "down"     -> scrollOff + 1
                 [] key = "pageup"   -> scrollOff - tuiMaxHostRows
                 [] key = "pagedown" -> scrollOff + tuiMaxHostRows
                 [] key = "top"      -> 0
                 [] key = "bottom"   -> MaxOff
  BY Bounds DEF Scrolled, Scrolling
<1> QED  BY <1>1, <1>2, <1>3

(* The rows shown are rows there are, whatever the offset.                 *)
LEMMA WindowInRows ==
    height \in Nat /\ hosts \in Nat /\ scrollOff \in Nat =>
        TopRow \in Nat /\ TopRow >= 0 /\ TopRow + Shown <= hosts
BY Bounds DEF TopRow, Shown

(* The nearest number to x between 0 and m.                                *)
Nearest(m, x) == CHOOSE r \in 0..m : \A s \in 0..m : (r - x) * (r - x) <= (s - x) * (s - x)

LEMMA SquaresGrow ==
    ASSUME NEW a \in Nat, NEW b \in Nat, a < b
    PROVE  a * a < b * b
<1>1. a * a <= a * b
  OBVIOUS
<1>2. a * b < b * b
  OBVIOUS
<1> QED  BY <1>1, <1>2

LEMMA NearestIs ==
    ASSUME NEW m \in Nat, NEW x \in Int
    PROVE  /\ x <= 0 => Nearest(m, x) = 0
           /\ x \in 0..m => Nearest(m, x) = x
           /\ x >= m => Nearest(m, x) = m
<1> DEFINE y == IF x <= 0 THEN 0 ELSE IF x >= m THEN m ELSE x
           Dist(r) == IF r >= x THEN r - x ELSE x - r
<1>1. y \in 0..m
  OBVIOUS
<1>2. \A r \in Int : Dist(r) \in Nat /\ (r - x) * (r - x) = Dist(r) * Dist(r)
  OBVIOUS
<1>3. \A s \in 0..m : s # y => Dist(y) < Dist(s)
  OBVIOUS
<1>4. \A s \in 0..m : s # y => (y - x) * (y - x) < (s - x) * (s - x)
  <2> HIDE DEF Dist
  <2> TAKE s \in 0..m
  <2>1. SUFFICES ASSUME s # y PROVE (y - x) * (y - x) < (s - x) * (s - x)
    OBVIOUS
  <2>2. Dist(y) \in Nat /\ Dist(s) \in Nat /\ Dist(y) < Dist(s)
    BY <1>1, <1>2, <1>3, <2>1
  <2>3. Dist(y) * Dist(y) < Dist(s) * Dist(s)
    BY <2>2, SquaresGrow
  <2> QED  BY <1>1, <1>2, <2>3
<1>5. \A s \in 0..m : (y - x) * (y - x) \in Int /\ (s - x) * (s - x) \in Int
  BY <1>1
<1>6. PICK r : r = Nearest(m, x)
  OBVIOUS
<1>7. r \in 0..m /\ \A s \in 0..m : (r - x) * (r - x) <= (s - x) * (s - x)
  <2>1. \A s \in 0..m : (y - x) * (y - x) <= (s - x) * (s - x)
    <3> HIDE DEF y
    <3> QED  BY <1>4, <1>5
  <2> HIDE DEF y
  <2> QED  BY <1>1, <1>6, <2>1 DEF Nearest
<1>8. r = y
  <2> HIDE DEF y
  <2>1. (r - x) * (r - x) <= (y - x) * (y - x)
    BY <1>1, <1>7
  <2>2. r # y => (y - x) * (y - x) < (r - x) * (r - x)
    BY <1>4, <1>7
  <2> QED  BY <1>5, <1>7, <2>1, <2>2
<1> QED  BY <1>6, <1>8

WindowType ==
    /\ settled \in BOOLEAN /\ phase \in {"watch", "scanning"}
    /\ hosts \in 0..MaxHosts /\ height \in Heights /\ scrollOff \in 0..MaxHosts
    /\ TopRow >= 0 /\ TopRow + Shown <= hosts

KeysType ==
    /\ raw \in BOOLEAN /\ eof \in BOOLEAN /\ cancelled \in BOOLEAN
    /\ reader \in ReaderStates
    /\ input \in Seq(Bytes) /\ pressed \in Seq(Keyboard) /\ starts \in Seq(Nat)
    /\ keys \in Seq(Commands) /\ Len(keys) <= KeyQueue /\ handled \in Seq(Commands)
    /\ main \in {"waiting", "exited"}

LEMMA TypeOKParts == TypeOK <=> WindowType /\ KeysType
BY DEF TypeOK, WindowType, KeysType

LEMMA WindowNumbers ==
    WindowType => height \in Nat /\ hosts \in Nat /\ scrollOff \in Nat /\ hosts <= MaxHosts
                  /\ MaxHosts \in Nat
BY ViewerAssumption DEF WindowType

LEMMA HeadIsACommand ==
    ASSUME keys \in Seq(Commands), keys # <<>>
    PROVE  Head(keys) \in Commands /\ Tail(keys) \in Seq(Commands) /\ Len(Tail(keys)) = Len(keys) - 1
OBVIOUS

(* What a step does to the window.                                         *)
LEMMA WindowStep ==
    ASSUME ViewInv, [Next]_vars
    PROVE  WindowType' /\ OffsetInRows'
<1>1. WindowType /\ OffsetInRows /\ KeysType
  BY TypeOKParts DEF ViewInv
<1>2. height \in Nat /\ hosts \in Nat /\ scrollOff \in Nat /\ hosts <= MaxHosts /\ MaxHosts \in Nat
  BY <1>1, WindowNumbers
<1>3. (height \in Nat /\ hosts \in Nat /\ scrollOff \in Nat =>
         TopRow \in Nat /\ TopRow >= 0 /\ TopRow + Shown <= hosts)'
  BY WindowInRows, PTL
<1>4. ASSUME phase' \in {"watch", "scanning"}, hosts' \in 0..MaxHosts, height' \in Heights,
             scrollOff' = scrollOff, settled' \in BOOLEAN,
             settled' => settled /\ hosts' = hosts /\ height' = height
      PROVE  WindowType' /\ OffsetInRows'
  <2>1. height' \in Nat /\ hosts' \in Nat /\ scrollOff' \in Nat
    BY <1>2, <1>4, ViewerAssumption
  <2>2. WindowType'
    BY <1>1, <1>3, <1>4, <2>1 DEF WindowType
  <2>3. OffsetInRows'
    BY <1>1, <1>4 DEF OffsetInRows, MaxOff, tuiMaxHostRows
  <2> QED  BY <2>2, <2>3
<1>5. ASSUME UNCHANGED view
      PROVE  WindowType' /\ OffsetInRows'
  BY <1>1, <1>4, <1>5 DEF view, WindowType
<1>6. CASE Reader \/ Leave \/ Hangup \/ Cancel
  BY <1>5, <1>6 DEF Reader, ReadByte, ReadLine, Send, ReadEOF, Leave, Hangup, Cancel
<1>7. ASSUME NEW k \in Keyboard, Press(k)
      PROVE  WindowType' /\ OffsetInRows'
  BY <1>5, <1>7 DEF Press
<1>8. CASE Resize \/ RowsChange
  BY <1>1, <1>4, <1>8 DEF Resize, RowsChange, WindowType
<1>9. CASE RescanEnds
  BY <1>1, <1>4, <1>9 DEF RescanEnds, WindowType
<1>10. CASE Handle
  <2>1. PICK key \in Commands : key = Head(keys)
    BY <1>1, <1>10, HeadIsACommand DEF Handle, KeysType
  <2>2. hosts' = hosts /\ height' = height /\ phase' \in {"watch", "scanning"}
    BY <1>1, <1>10 DEF Handle, WindowType
  <2>3. CASE key \notin Scrolling
    <3>1. scrollOff' = scrollOff /\ settled' = settled
      BY <1>10, <2>1, <2>3 DEF Handle
    <3> QED  BY <1>1, <1>4, <2>2, <3>1 DEF WindowType
  <2>4. CASE key \in Scrolling
    <3>1. scrollOff' = Scrolled(key) /\ settled' = TRUE
      BY <1>10, <2>1, <2>4 DEF Handle
    <3>2. scrollOff' \in Nat /\ scrollOff' <= MaxOff /\ MaxOff <= hosts /\ MaxOff \in Nat
      BY <1>2, <2>4, <3>1, ScrolledWhere, Bounds
    <3>3. OffsetInRows'
      BY <2>2, <3>2 DEF OffsetInRows, MaxOff, tuiMaxHostRows
    <3>4. TopRow' >= 0 /\ (TopRow + Shown <= hosts)'
      BY <1>2, <1>3, <2>2, <3>2
    <3> QED  BY <1>1, <1>2, <2>2, <3>1, <3>2, <3>3, <3>4 DEF WindowType
  <2> QED  BY <2>3, <2>4
<1>11. CASE UNCHANGED vars
  BY <1>5, <1>11 DEF vars
<1> QED  BY <1>6, <1>7, <1>8, <1>9, <1>10, <1>11 DEF Next, Main

(* Target asks for the nearest row.                                        *)
LEMMA TargetIs ==
    ASSUME NEW key \in Scrolling
    PROVE  /\ key = "up" => Target(key) = Nearest(MaxOff, TopRow - 1)
           /\ key = "down" => Target(key) = Nearest(MaxOff, TopRow + 1)
           /\ key = "pageup" => Target(key) = Nearest(MaxOff, TopRow - tuiMaxHostRows)
           /\ key = "pagedown" => Target(key) = Nearest(MaxOff, TopRow + tuiMaxHostRows)
           /\ key = "top" => Target(key) = 0
           /\ key = "bottom" => Target(key) = MaxOff
BY DEF Target, Nearest, Scrolling

LEMMA ClampIsNearest ==
    ASSUME MaxOff \in Nat, NEW x \in Int
    PROVE  NotBelow(NotAbove(x)) = Nearest(MaxOff, x)
BY NearestIs DEF NotBelow, NotAbove

(* A scroll key moves the window to its target.                            *)
LEMMA WindowMoves ==
    ASSUME ViewInv, Handle, settled, phase = "watch",
           NEW key \in Scrolling, key = Head(keys)
    PROVE  TopRow' = Target(key)
<1>1. height \in Nat /\ hosts \in Nat /\ scrollOff \in Nat /\ OffsetInRows
  BY TypeOKParts, WindowNumbers DEF ViewInv
<1>2. scrollOff' = Scrolled(key) /\ hosts' = hosts /\ height' = height /\ phase' = phase
  BY DEF Handle, Scrolling
<1>3. MaxOff \in Nat /\ tuiMaxHostRows \in Nat
  BY <1>1, Bounds
<1>4. TopRow = scrollOff
  BY <1>1, Bounds DEF TopRow, OffsetInRows
<1>5. scrollOff' \in Nat /\ scrollOff' <= MaxOff
  BY <1>1, <1>2, ScrolledWhere
<1>6. TopRow' = scrollOff'
  <2>1. tuiMaxHostRows' = tuiMaxHostRows /\ MaxOff' = MaxOff
    BY <1>2 DEF tuiMaxHostRows, MaxOff
  <2> QED  BY <1>1, <1>2, <1>5, <2>1, Bounds DEF TopRow
<1>7. scrollOff' = Target(key)
  <2>1. PICK off : off = Scrolled(key)
    OBVIOUS
  <2>2. \A x \in Int : NotBelow(NotAbove(x)) = Nearest(MaxOff, x)
    BY <1>3, ClampIsNearest
  <2>3. /\ key = "up" => off = NotBelow(NotAbove(scrollOff - 1))
        /\ key = "down" => off = NotBelow(NotAbove(scrollOff + 1))
        /\ key = "pageup" => off = NotBelow(NotAbove(scrollOff - tuiMaxHostRows))
        /\ key = "pagedown" => off = NotBelow(NotAbove(scrollOff + tuiMaxHostRows))
        /\ key = "top" => off = 0
        /\ key = "bottom" => off = MaxOff
    BY <1>1, <2>1, ScrolledWhere
  <2> QED  BY <1>1, <1>2, <1>3, <1>4, <2>1, <2>2, <2>3, TargetIs DEF Scrolling
<1> QED  BY <1>6, <1>7

-----------------------------------------------------------------------------
(* The keys.                                                               *)

Cmd(k) == IF raw THEN k.raw ELSE k.line

LEMMA PromisedIs ==
    KeysType => /\ Len(Promised) = Len(pressed) + (IF eof /\ ~raw THEN 1 ELSE 0)
                /\ DOMAIN Promised = 1..Len(Promised) /\ Len(pressed) \in Nat
                /\ \A i \in 1..Len(pressed) : Promised[i] = Cmd(pressed[i])
                /\ eof /\ ~raw => Promised[Len(pressed) + 1] = "none"
<1> SUFFICES ASSUME KeysType
             PROVE  /\ Len(Promised) = Len(pressed) + (IF eof /\ ~raw THEN 1 ELSE 0)
                    /\ DOMAIN Promised = 1..Len(Promised) /\ Len(pressed) \in Nat
                    /\ \A i \in 1..Len(pressed) : Promised[i] = Cmd(pressed[i])
                    /\ eof /\ ~raw => Promised[Len(pressed) + 1] = "none"
  OBVIOUS
<1>1. Len(pressed) \in Nat /\ DOMAIN pressed = 1..Len(pressed) /\ raw \in BOOLEAN /\ eof \in BOOLEAN
  BY DEF KeysType
<1>2. PICK s : s = [i \in DOMAIN pressed |-> IF raw THEN pressed[i].raw ELSE pressed[i].line]
  OBVIOUS
<1>3. \A i \in DOMAIN pressed : pressed[i] \in Keyboard
  BY <1>1 DEF KeysType
<1>4. \A i \in DOMAIN pressed : s[i] \in Commands
  BY <1>2, <1>3, KeyboardAssumption
<1>5. s \in Seq(Commands) /\ Len(s) = Len(pressed)
  BY <1>1, <1>2, <1>4
<1>6. PICK e \in Seq(Commands) :
        /\ Promised = s \o e
        /\ eof /\ ~raw => Len(e) = 1 /\ e[1] = "none"
        /\ ~(eof /\ ~raw) => Len(e) = 0
  <2>1. CASE eof /\ ~raw
    <3>1. <<"none">> \in Seq(Commands) /\ Len(<<"none">>) = 1 /\ <<"none">>[1] = "none"
      BY DEF Commands
    <3>2. Promised = s \o <<"none">>
      BY <1>2, <2>1 DEF Promised
    <3> QED  BY <2>1, <3>1, <3>2
  <2>2. CASE ~(eof /\ ~raw)
    <3>1. <<>> \in Seq(Commands) /\ Len(<<>>) = 0
      OBVIOUS
    <3>2. Promised = s \o <<>>
      BY <1>2, <2>2 DEF Promised
    <3> QED  BY <2>2, <3>1, <3>2
  <2> QED  BY <2>1, <2>2
<1>7. \A i \in 1..Len(pressed) : s[i] = Cmd(pressed[i])
  BY <1>1, <1>2 DEF Cmd
<1>8. PICK p : p = Promised
  OBVIOUS
<1>9. /\ p \in Seq(Commands) /\ Len(p) = Len(s) + Len(e)
      /\ \A i \in 1..(Len(s) + Len(e)) : p[i] = IF i <= Len(s) THEN s[i] ELSE e[i - Len(s)]
  BY <1>5, <1>6, <1>8, ConcatProperties
<1>10. Len(s) \in Nat /\ Len(e) \in Nat
  BY <1>5, <1>6
<1>11. \A i \in 1..Len(s) : p[i] = s[i]
  BY <1>9, <1>10
<1>12. Len(e) = 1 => p[Len(s) + 1] = e[1]
  BY <1>9, <1>10
<1>13. DOMAIN p = 1..Len(p)
  BY <1>9
<1> QED  BY <1>1, <1>5, <1>6, <1>7, <1>8, <1>9, <1>10, <1>11, <1>12, <1>13

LEMMA SentIs ==
    KeysType => /\ Sent \in Seq(Commands) /\ Len(Sent) = Len(handled) + Len(keys)
                /\ Len(Sent) \in Nat /\ DOMAIN Sent = 1..Len(Sent)
BY DEF KeysType, Sent

(* The reader's way through the bytes of a key, to its command.            *)
RunsTo(b, command) ==
    /\ b[1] # "ESC" => Len(b) = 1 /\ readKey(b[1]) = Decoded(command)
    /\ b[1] = "ESC" =>
         /\ Len(b) >= 2 /\ readKey(b[1]) = Await("escape", "")
         /\ b[2] \notin {"[", "O"} => Len(b) = 2 /\ AfterEscape(b[2]) = Decoded(command)
         /\ b[2] \in {"[", "O"} =>
              /\ Len(b) >= 3 /\ AfterEscape(b[2]) = Await("bracket", "")
              /\ b[3] \notin Digits => Len(b) = 3 /\ AfterBracket(b[3]) = Decoded(command)
              /\ b[3] \in Digits =>
                   /\ Len(b) > 3 /\ AfterBracket(b[3]) = Await("digits", b[3])
                   /\ AfterDigit(b[3], b[Len(b)]) = Decoded(command)
                   /\ \A i \in 4..(Len(b) - 1) : AfterDigit(b[3], b[i]) = Await("digits", b[3])

LEMMA KeyRun ==
    ASSUME NEW k \in Keyboard, NEW b, b = k.bytes
    PROVE  /\ b \in Seq(Bytes) /\ Len(b) \in Nat /\ Len(b) >= 1
           /\ \A i \in 1..Len(b) : b[i] # "LF"
           /\ ~IsEsc(k) => RunsTo(b, k.raw)
<1>1. /\ b \in Seq(Bytes) /\ "LF" \notin ToSet(b)
      /\ Character(b, k.raw) \/ Alone(b, k.raw) \/ Prefixed(b, k.raw) \/ Sequence(b, k.raw)
  BY KeyboardAssumption
<1>2. \A i \in 1..Len(b) : b[i] # "LF"
  BY <1>1 DEF ToSet
<1>3. CASE Character(b, k.raw)
  BY <1>1, <1>2, <1>3 DEF Character, readKey, RunsTo
<1>4. CASE Prefixed(b, k.raw)
  BY <1>1, <1>2, <1>4 DEF Prefixed, readKey, AfterEscape, RunsTo
<1>5. CASE Sequence(b, k.raw)
  <2>1. Len(b) \in Nat /\ Len(b) >= 3 /\ b[1] = "ESC" /\ b[2] \in {"[", "O"}
    BY <1>1, <1>5 DEF Sequence
  <2>2. readKey(b[1]) = Await("escape", "") /\ AfterEscape(b[2]) = Await("bracket", "")
    BY <2>1 DEF readKey, AfterEscape
  <2>3. b[3] \notin Digits => Len(b) = 3 /\ AfterBracket(b[3]) = Decoded(k.raw)
    BY <1>5 DEF Sequence, AfterBracket
  <2>4. ASSUME b[3] \in Digits
        PROVE  /\ Len(b) > 3 /\ AfterBracket(b[3]) = Await("digits", b[3])
               /\ AfterDigit(b[3], b[Len(b)]) = Decoded(k.raw)
               /\ \A i \in 4..(Len(b) - 1) : AfterDigit(b[3], b[i]) = Await("digits", b[3])
    <3>1. Len(b) > 3 /\ k.raw = Lookup(Number, b[3])
          /\ \A i \in 4..Len(b) : b[i] \in Terminators <=> i = Len(b)
      BY <1>5, <2>4 DEF Sequence
    <3>2. Len(b) \in 4..Len(b) /\ \A i \in 4..(Len(b) - 1) : i \in 4..Len(b) /\ i # Len(b)
      BY <2>1, <3>1
    <3>3. b[Len(b)] \in Terminators /\ \A i \in 4..(Len(b) - 1) : b[i] \notin Terminators
      BY <3>1, <3>2
    <3>4. AfterBracket(b[3]) = Await("digits", b[3])
      BY <2>4 DEF AfterBracket
    <3>5. AfterDigit(b[3], b[Len(b)]) = Decoded(k.raw)
      BY <3>1, <3>3 DEF AfterDigit
    <3>6. \A i \in 4..(Len(b) - 1) : AfterDigit(b[3], b[i]) = Await("digits", b[3])
      BY <3>3 DEF AfterDigit
    <3> QED  BY <3>1, <3>4, <3>5, <3>6
  <2>5. Len(b) >= 1 /\ Len(b) >= 2
    BY <2>1
  <2> QED  BY <1>1, <1>2, <2>1, <2>2, <2>3, <2>4, <2>5, Zenon DEF RunsTo
<1>6. CASE Alone(b, k.raw)
  <2>1. b = <<"ESC">> /\ IsEsc(k)
    BY <1>6 DEF Alone, IsEsc
  <2>2. Len(b) = 1
    BY <2>1
  <2> QED  BY <1>1, <1>2, <2>1, <2>2
<1> QED  BY <1>1, <1>3, <1>4, <1>5, <1>6

(* What is typed for a key, in both modes.                                 *)
LEMMA TypingIs ==
    ASSUME NEW k \in Keyboard, raw \in BOOLEAN
    PROVE  /\ Typing(k) \in Seq(Bytes) /\ Len(Typing(k)) >= 1
           /\ raw => Typing(k) = k.bytes
           /\ ~raw => /\ Len(Typing(k)) = Len(k.bytes) + 1
                      /\ \A i \in 1..Len(k.bytes) : Typing(k)[i] = k.bytes[i]
                      /\ Typing(k)[Len(k.bytes) + 1] = "LF"
<1>1. k.bytes \in Seq(Bytes) /\ Len(k.bytes) >= 1
  BY KeyRun
<1>2. raw => Typing(k) = k.bytes
  BY DEF Typing
<1>3. ASSUME ~raw
      PROVE  /\ Typing(k) \in Seq(Bytes) /\ Len(Typing(k)) = Len(k.bytes) + 1
             /\ \A i \in 1..Len(k.bytes) : Typing(k)[i] = k.bytes[i]
             /\ Typing(k)[Len(k.bytes) + 1] = "LF"
  <2>1. PICK b \in Seq(Bytes) : b = k.bytes
    BY <1>1
  <2>2. Typing(k) = Append(b, "LF")
    BY <1>3, <2>1 DEF Typing
  <2>3. "LF" \in Bytes
    BY DEF Bytes
  <2> QED  BY <2>1, <2>2, <2>3
<1> QED  BY <1>1, <1>2, <1>3

(* The command of a line.                                                  *)
LEMMA LineIs ==
    ASSUME NEW k \in Keyboard
    PROVE  lineCommand(k.bytes) = k.line
<1>1. k.bytes \in Seq(Bytes) /\ Len(k.bytes) >= 1 /\ k.line = Lookup(Letter, k.bytes[1])
  BY KeyRun, KeyboardAssumption
<1>2. k.bytes # <<>> /\ Head(k.bytes) = k.bytes[1]
  BY <1>1
<1> QED  BY <1>1, <1>2 DEF lineCommand

-----------------------------------------------------------------------------
(* The input.                                                              *)

KeysInv == KeysType /\ InputInStep /\ ReaderInStep /\ SentAsPromised

LEMMA StartsAre ==
    ASSUME KeysType, InputInStep
    PROVE  /\ Len(pressed) \in Nat /\ Len(starts) = Len(pressed) + 1 /\ starts[1] = 0
           /\ \A i \in 1..Len(pressed) : pressed[i] \in Keyboard
           /\ \A i \in 1..(Len(pressed) + 1) : starts[i] \in Nat
           /\ \A i, j \in 1..(Len(pressed) + 1) : i < j => starts[i] < starts[j]
           /\ \A i \in 1..Len(pressed) : starts[i + 1] = starts[i] + Len(Typing(pressed[i]))
           /\ Len(input) \in Nat /\ read = starts[Len(pressed) + 1] - Len(input) /\ read \in Int
<1>1. /\ Len(pressed) \in Nat /\ DOMAIN pressed = 1..Len(pressed)
      /\ Len(starts) = Len(pressed) + 1 /\ DOMAIN starts = 1..Len(starts)
      /\ Len(input) \in Nat
  BY DEF KeysType, InputInStep
<1>2. \A i \in 1..Len(pressed) : pressed[i] \in Keyboard
  BY DEF KeysType
<1>3. \A i \in 1..(Len(pressed) + 1) : starts[i] \in Nat
  BY <1>1 DEF KeysType
<1>4. \A i \in 1..Len(pressed) : starts[i + 1] = starts[i] + Len(Typing(pressed[i]))
  BY <1>1 DEF InputInStep
<1>5. \A i, j \in 1..(Len(pressed) + 1) : i < j => starts[i] < starts[j]
  BY <1>1 DEF InputInStep
<1>6. read = starts[Len(pressed) + 1] - Len(input) /\ read \in Int
  BY <1>1, <1>3 DEF read
<1> QED  BY <1>1, <1>2, <1>3, <1>4, <1>5, <1>6 DEF InputInStep

LEMMA StartIsBelow ==
    ASSUME KeysType, InputInStep, NEW i \in 1..Len(pressed)
    PROVE  starts[i + 1] <= starts[Len(pressed) + 1]
<1>1. Len(pressed) \in Nat /\ starts[Len(pressed) + 1] \in Nat
  BY StartsAre
<1>2. CASE i = Len(pressed)
  BY <1>1, <1>2
<1>3. CASE i # Len(pressed)
  <2>1. i + 1 \in 1..(Len(pressed) + 1) /\ Len(pressed) + 1 \in 1..(Len(pressed) + 1)
        /\ i + 1 < Len(pressed) + 1
    BY <1>1, <1>3
  <2>2. starts[i + 1] < starts[Len(pressed) + 1] /\ starts[i + 1] \in Nat
    BY <2>1, StartsAre
  <2> QED  BY <1>1, <2>2
<1> QED  BY <1>2, <1>3

(* The part of StartsAre about one key, or the end of the last.            *)
LEMMA StartOf ==
    ASSUME KeysType, InputInStep, NEW i \in 1..(Len(pressed) + 1)
    PROVE  starts[i] \in Nat
BY StartsAre

LEMMA CountsAre ==
    ASSUME KeysType, InputInStep
    PROVE  Len(pressed) \in Nat /\ Len(input) \in Nat
BY StartsAre

(* A place y of a key of l bytes, m of them read, whose last byte is among *)
(* the w that are waiting.                                                 *)
LEMMA PlaceWaits ==
    ASSUME NEW s \in Nat, NEW m \in Nat, NEW l \in Nat, NEW w \in Nat, NEW y \in Nat,
           y <= l, s + l - (s + m) <= w
    PROVE  y - m <= w
OBVIOUS

(* Inside a key there is something to read, and it is the rest of the key. *)
LEMMA RestOfKey ==
    ASSUME KeysType, InputInStep, NEW j \in 1..Len(pressed), NEW m \in Nat,
           read = starts[j] + m, NEW t, t = Typing(pressed[j]), m < Len(t)
    PROVE  \A x \in (m + 1)..Len(t) : x - m \in 1..Len(input) /\ input[x - m] = t[x]
<1>1. pressed[j] \in Keyboard /\ starts[j + 1] = starts[j] + Len(t)
  BY StartsAre
<1>2. t \in Seq(Bytes) /\ DOMAIN t = 1..Len(t) /\ Len(t) \in Nat
  <2>1. raw \in BOOLEAN
    BY DEF KeysType
  <2>2. t \in Seq(Bytes)
    BY <1>1, <2>1, TypingIs
  <2> QED  BY <2>2
<1>3. starts[j + 1] <= starts[Len(pressed) + 1]
  BY StartIsBelow
<1>4. starts[j] + Len(t) - read <= Len(input)
  <2>1. starts[j] \in Nat /\ starts[Len(pressed) + 1] \in Nat
    BY StartsAre
  <2>2. read = starts[Len(pressed) + 1] - Len(input) /\ Len(input) \in Nat
    BY StartsAre
  <2>3. PICK s \in Nat, l \in Nat : s = starts[j] /\ l = Len(t)
    BY <1>2, <2>1
  <2>4. PICK top \in Nat, w \in Nat : top = starts[Len(pressed) + 1] /\ w = Len(input)
    BY <2>1, <2>2
  <2>5. read = top - w /\ s + l <= top
    BY <1>1, <1>3, <2>2, <2>3, <2>4
  <2>6. s + l - read <= w
    BY <2>5
  <2> QED  BY <2>3, <2>4, <2>6
<1> TAKE x \in (m + 1)..Len(t)
<1>5. starts[j] \in Nat /\ starts[j] + x > read /\ starts[j] + x - read = x - m
  <2>1. j \in 1..(Len(pressed) + 1)
    BY CountsAre
  <2>2. PICK s \in Nat : s = starts[j]
    BY <2>1, StartOf
  <2>3. x \in Int /\ x > m
    BY <1>2
  <2>4. read = s + m
    BY <2>2
  <2> QED  BY <2>2, <2>3, <2>4
<1>6. input[x - m] = t[x]
  <2>1. x \in DOMAIN Typing(pressed[j]) /\ j \in DOMAIN pressed
    BY <1>2, StartsAre DEF KeysType
  <2>2. input[starts[j] + x - read] = Typing(pressed[j])[x]
    BY <1>5, <2>1 DEF InputInStep
  <2> QED  BY <1>5, <2>2
<1>7. x - m <= Len(input)
  <2>1. PICK w \in Nat, l \in Nat, s \in Nat : w = Len(input) /\ l = Len(t) /\ s = starts[j]
    BY <1>2, <1>5, CountsAre
  <2>2. x <= l /\ s + l - read <= w
    BY <1>4, <2>1
  <2>3. PICK r \in Nat, y \in Nat : r = read /\ r = s + m /\ y = x
    <3>1. s + m \in Nat /\ read = s + m
      BY <2>1
    <3>2. x \in Nat
      BY <1>2
    <3> QED  BY <3>1, <3>2
  <2>4. y <= l /\ s + l - (s + m) <= w
    BY <2>2, <2>3
  <2>5. y - m <= w
    BY <2>4, PlaceWaits
  <2> QED  BY <2>1, <2>3, <2>5
<1>8. Len(input) \in Nat /\ x - m >= 1 /\ x - m \in Int
  BY <1>2, StartsAre
<1> QED  BY <1>6, <1>7, <1>8

(* At the start of a key that has not been pressed the input is empty.     *)
LEMMA NothingLeft ==
    ASSUME KeysType, InputInStep, NEW j \in 1..(Len(pressed) + 1), read = starts[j]
    PROVE  input = <<>> <=> j = Len(pressed) + 1
<1>1. j # Len(pressed) + 1 => starts[j] < starts[Len(pressed) + 1]
  BY StartsAre
<1>2. Len(input) = 0 <=> j = Len(pressed) + 1
  BY <1>1, StartsAre
<1>3. input = <<>> <=> Len(input) = 0
  BY DEF KeysType
<1> QED  BY <1>2, <1>3

(* Reading d bytes.                                                        *)
LEMMA BytesRead ==
    ASSUME KeysType, InputInStep, NEW d \in 0..Len(input), UNCHANGED <<raw, pressed, starts>>,
           input' \in Seq(Bytes), Len(input') = Len(input) - d,
           \A x \in 1..Len(input') : input'[x] = input[x + d]
    PROVE  InputInStep' /\ read' = read + d
<1>1. read' = read + d
  <2>1. starts[Len(starts)] \in Nat /\ Len(input) \in Nat /\ starts' = starts
    BY StartsAre
  <2>2. read = starts[Len(starts)] - Len(input) /\ read' = starts'[Len(starts')] - Len(input')
    BY DEF read
  <2> QED  BY <2>1, <2>2
<1>2. ASSUME NEW i \in 1..Len(pressed), NEW t, t = Typing(pressed[i]), NEW m \in 1..Len(t),
             starts[i] + m > read'
      PROVE  input'[starts[i] + m - read'] = t[m]
  <2>1. pressed[i] \in Keyboard /\ t \in Seq(Bytes) /\ starts[i + 1] = starts[i] + Len(t)
    BY <1>2, StartsAre, TypingIs DEF KeysType
  <2>2. starts[i + 1] <= starts[Len(pressed) + 1]
    BY StartIsBelow
  <2>3. Len(t) \in Nat /\ starts[i] \in Nat /\ Len(input) \in Nat
        /\ starts[Len(pressed) + 1] \in Nat /\ read = starts[Len(pressed) + 1] - Len(input)
    <3>1. Len(pressed) \in Nat /\ i \in 1..(Len(pressed) + 1)
          /\ Len(pressed) + 1 \in 1..(Len(pressed) + 1)
      BY CountsAre
    <3>2. starts[i] \in Nat /\ starts[Len(pressed) + 1] \in Nat
      BY <3>1, StartOf
    <3>3. Len(t) \in Nat
      BY <2>1
    <3> QED  BY <3>2, <3>3, StartsAre
  <2>4. m \in Nat /\ m <= Len(t) /\ d \in Nat /\ d <= Len(input)
    BY <2>3
  <2>5. PICK s \in Nat, r \in Int, l \in Nat : s = starts[i] /\ r = read /\ l = Len(input)
    <3>1. read \in Int
      BY StartsAre
    <3> QED  BY <2>3, <3>1
  <2>6. PICK u \in Int : u = read' /\ u = r + d
    BY <1>1, <2>4, <2>5
  <2>9. s + Len(t) <= r + l
    <3>1. PICK top \in Nat, w \in Nat : top = starts[Len(pressed) + 1] /\ w = Len(t)
      BY <2>3
    <3>2. s + w <= top /\ r = top - l
      BY <2>1, <2>2, <2>3, <2>5, <3>1
    <3>3. s + w <= r + l
      BY <3>2
    <3> QED  BY <3>1, <3>3
  <2>10. s + m > u
    BY <1>2, <2>5, <2>6
  <2>11. PICK n \in Nat : n = Len(input') /\ n = l - d
    <3>1. Len(input') = l - d /\ d <= l
      BY <2>4, <2>5
    <3>2. l - d \in Nat
      BY <2>4, <3>1
    <3> QED  BY <3>1, <3>2
  <2>12. s + m - u \in 1..n
    BY <2>3, <2>4, <2>6, <2>9, <2>10, <2>11
  <2>13. s + m - u + d = s + m - r /\ s + m > r
    BY <2>4, <2>6, <2>10
  <2>14. input'[s + m - u] = input[s + m - r]
    BY <2>11, <2>12, <2>13
  <2>15. DOMAIN t = 1..Len(t) /\ DOMAIN pressed = 1..Len(pressed)
    BY <2>1 DEF KeysType
  <2>7. m \in DOMAIN Typing(pressed[i]) /\ i \in DOMAIN pressed
    BY <1>2, <2>15, Zenon
  <2>8. input[starts[i] + m - read] = t[m]
    BY <1>2, <2>5, <2>7, <2>13 DEF InputInStep
  <2> QED  BY <2>5, <2>6, <2>8, <2>14
<1>3. \A i \in DOMAIN pressed : \A m \in DOMAIN Typing(pressed[i]) :
         starts[i] + m > read' => input'[starts[i] + m - read'] = Typing(pressed[i])[m]
  <2> TAKE i \in DOMAIN pressed
  <2>1. i \in 1..Len(pressed) /\ pressed[i] \in Keyboard
    <3>1. DOMAIN pressed = 1..Len(pressed)
      BY DEF KeysType
    <3>2. i \in 1..Len(pressed)
      BY <3>1
    <3> QED  BY <3>2, StartsAre
  <2>2. DOMAIN Typing(pressed[i]) = 1..Len(Typing(pressed[i]))
    BY <2>1, TypingIs DEF KeysType
  <2> TAKE m \in DOMAIN Typing(pressed[i])
  <2> QED  BY <1>2, <2>1, <2>2
<1>4. \A i \in DOMAIN pressed : Typing(pressed[i])' = Typing(pressed[i])
  BY DEF Typing
<1> QED  BY <1>1, <1>3, <1>4 DEF InputInStep

-----------------------------------------------------------------------------
(* The reader.                                                             *)

(* Byte m of key n + 1 has been read, and it has more.                     *)
Inside(n, m) == /\ n < Len(pressed) /\ raw /\ read = starts[n + 1] + m
                /\ m < Len(pressed[n + 1].bytes)

(* ReaderInStep, with its place and its key named.                         *)
ReaderAt(n, r) ==
    /\ r.pc = "start" => n <= Len(pressed) /\ read = starts[n + 1]
    /\ r.pc = "escape" => Inside(n, 1) /\ pressed[n + 1].bytes[1] = "ESC"
    /\ r.pc = "bracket" => /\ Inside(n, 2) /\ pressed[n + 1].bytes[1] = "ESC"
                           /\ pressed[n + 1].bytes[2] \in {"[", "O"}
    /\ r.pc = "digits" => \E m \in 3..Len(pressed[n + 1].bytes) :
         /\ Inside(n, m) /\ pressed[n + 1].bytes[1] = "ESC"
         /\ pressed[n + 1].bytes[2] \in {"[", "O"}
         /\ pressed[n + 1].bytes[3] = r.lead /\ pressed[n + 1].bytes[3] \in Digits
    /\ r.pc = "sending" => n < Len(pressed) /\ read = starts[n + 2] /\ r.key = Promised[n + 1]
    /\ r.pc = "closed" => eof /\ n = Len(Promised)

LEMMA ReaderIs ==
    ReaderInStep <=> ReaderAt(Len(Sent), reader)
BY DEF ReaderInStep, ReaderAt, Inside

LEMMA PlacesTyped ==
    /\ \A key \in Commands : /\ Decoded(key) \in ReaderStates
                             /\ Decoded(key).pc = "sending" /\ Decoded(key).key = key
    /\ \A pc \in {"start", "escape", "bracket", "digits", "closed"}, lead \in Bytes \cup {""} :
         /\ Await(pc, lead) \in ReaderStates
         /\ Await(pc, lead).pc = pc /\ Await(pc, lead).lead = lead
<1>1. "none" \in Commands
  BY DEF Commands
<1>2. \A key \in Commands : /\ Decoded(key) \in ReaderStates
                            /\ Decoded(key).pc = "sending" /\ Decoded(key).key = key
  BY DEF Decoded, ReaderStates
<1>3. \A pc \in {"start", "escape", "bracket", "digits", "closed"}, lead \in Bytes \cup {""} :
         /\ Await(pc, lead) \in ReaderStates
         /\ Await(pc, lead).pc = pc /\ Await(pc, lead).lead = lead
  BY <1>1 DEF Await, ReaderStates
<1> QED  BY <1>2, <1>3

(* A step that changes only the reader and the input: what was sent, and   *)
(* what was promised, is as it was.                                        *)
LEMMA SameKeys ==
    ASSUME UNCHANGED <<raw, eof, pressed, starts, keys, handled>>
    PROVE  /\ Sent' = Sent /\ Promised' = Promised
           /\ SentAsPromised => SentAsPromised'
           /\ \A k : Typing(k)' = Typing(k)
BY DEF Sent, Promised, SentAsPromised, Typing

(* A byte is read: it is the next of a key, and the reader goes on to its  *)
(* command or to the byte after it.                                        *)
LEMMA ByteOfKey ==
    ASSUME KeysInv, ReadByte
    PROVE  \E k \in Keyboard, m \in Nat :
             /\ Len(Sent) < Len(pressed) /\ k = pressed[Len(Sent) + 1]
             /\ read = starts[Len(Sent) + 1] + m /\ m < Len(k.bytes)
             /\ Head(input) = k.bytes[m + 1]
             /\ reader.pc \in {"start", "escape", "bracket", "digits"}
             /\ reader.pc = "start" => m = 0
             /\ reader.pc = "escape" => m = 1 /\ k.bytes[1] = "ESC"
             /\ reader.pc = "bracket" => m = 2 /\ k.bytes[1] = "ESC" /\ k.bytes[2] \in {"[", "O"}
             /\ reader.pc = "digits" => /\ m >= 3 /\ k.bytes[1] = "ESC" /\ k.bytes[2] \in {"[", "O"}
                                        /\ k.bytes[3] = reader.lead /\ k.bytes[3] \in Digits
<1>1. KeysType /\ InputInStep /\ ReaderAt(Len(Sent), reader)
  BY ReaderIs DEF KeysInv
<1>2. raw /\ input # <<>> /\ reader.pc \notin {"sending", "closed"}
  BY DEF ReadByte
<1>3. reader.pc \in {"start", "escape", "bracket", "digits"}
  BY <1>1, <1>2 DEF KeysType, ReaderStates
<1>4. PICK n \in Nat : n = Len(Sent)
  BY <1>1, SentIs
<1>5. Len(pressed) \in Nat
  BY <1>1, StartsAre
<1>6. n < Len(pressed)
  <2>1. CASE reader.pc = "start"
    <3>1. n <= Len(pressed) /\ read = starts[n + 1]
      BY <1>1, <1>4, <2>1 DEF ReaderAt
    <3>2. n + 1 \in 1..(Len(pressed) + 1) /\ n + 1 # Len(pressed) + 1
      BY <1>1, <1>2, <1>4, <1>5, <3>1, NothingLeft
    <3> QED  BY <1>4, <1>5, <3>1, <3>2
  <2>2. CASE reader.pc # "start"
    BY <1>1, <1>3, <1>4, <2>2 DEF ReaderAt, Inside
  <2> QED  BY <2>1, <2>2
<1>7. PICK k \in Keyboard : k = pressed[n + 1]
  <2>1. n + 1 \in 1..Len(pressed)
    BY <1>4, <1>5, <1>6
  <2> QED  BY <1>1, <2>1, StartsAre
<1>8. Len(k.bytes) \in Nat /\ Len(k.bytes) >= 1 /\ Typing(k) = k.bytes
  BY <1>1, <1>2, KeyRun, TypingIs DEF KeysType
<1>9. PICK m \in Nat :
        /\ read = starts[n + 1] + m /\ m < Len(k.bytes)
        /\ reader.pc = "start" => m = 0
        /\ reader.pc = "escape" => m = 1 /\ k.bytes[1] = "ESC"
        /\ reader.pc = "bracket" => m = 2 /\ k.bytes[1] = "ESC" /\ k.bytes[2] \in {"[", "O"}
        /\ reader.pc = "digits" => /\ m >= 3 /\ k.bytes[1] = "ESC" /\ k.bytes[2] \in {"[", "O"}
                                   /\ k.bytes[3] = reader.lead /\ k.bytes[3] \in Digits
  <2>1. CASE reader.pc = "start"
    <3>1. read = starts[n + 1] /\ starts[n + 1] \in Nat
      <4>1. n + 1 \in 1..(Len(pressed) + 1)
        BY <1>4, <1>5, <1>6
      <4> QED  BY <1>1, <1>4, <2>1, <4>1, StartsAre DEF ReaderAt
    <3> QED  BY <1>8, <2>1, <3>1
  <2>2. CASE reader.pc = "escape"
    BY <1>1, <1>4, <1>7, <2>2 DEF ReaderAt, Inside
  <2>3. CASE reader.pc = "bracket"
    BY <1>1, <1>4, <1>7, <2>3 DEF ReaderAt, Inside
  <2>4. CASE reader.pc = "digits"
    <3>1. PICK m \in 3..Len(pressed[n + 1].bytes) :
            /\ Inside(n, m) /\ pressed[n + 1].bytes[1] = "ESC"
            /\ pressed[n + 1].bytes[2] \in {"[", "O"}
            /\ pressed[n + 1].bytes[3] = reader.lead /\ pressed[n + 1].bytes[3] \in Digits
      BY <1>1, <1>4, <2>4 DEF ReaderAt
    <3>2. m \in Nat /\ m >= 3 /\ read = starts[n + 1] + m /\ m < Len(k.bytes)
      BY <1>7, <1>8, <3>1 DEF Inside
    <3> QED  BY <1>7, <2>4, <3>1, <3>2
  <2> QED  BY <1>3, <2>1, <2>2, <2>3, <2>4
<1>10. Head(input) = k.bytes[m + 1]
  <2>1. n + 1 \in 1..Len(pressed)
    BY <1>4, <1>5, <1>6
  <2>2. m + 1 \in (m + 1)..Len(k.bytes) /\ (m + 1) - m = 1
    BY <1>8, <1>9
  <2>3. \A x \in (m + 1)..Len(k.bytes) : x - m \in 1..Len(input) /\ input[x - m] = k.bytes[x]
    BY <1>1, <1>7, <1>8, <1>9, <2>1, RestOfKey
  <2>4. input[1] = k.bytes[m + 1]
    BY <2>2, <2>3
  <2> QED  BY <1>1, <1>2, <2>4 DEF KeysType
<1> QED  BY <1>3, <1>4, <1>6, <1>7, <1>9, <1>10

LEMMA ReadByteStep ==
    ASSUME KeysInv, ~EscPressed, ReadByte, UNCHANGED cancelled
    PROVE  KeysInv'
<1>1. KeysType /\ InputInStep /\ SentAsPromised
  BY DEF KeysInv
<1>2. PICK n : n = Len(Sent)
  OBVIOUS
<1>3. PICK k \in Keyboard, m \in Nat :
        /\ n < Len(pressed) /\ k = pressed[n + 1]
        /\ read = starts[n + 1] + m /\ m < Len(k.bytes)
        /\ Head(input) = k.bytes[m + 1]
        /\ reader.pc \in {"start", "escape", "bracket", "digits"}
        /\ reader.pc = "start" => m = 0
        /\ reader.pc = "escape" => m = 1 /\ k.bytes[1] = "ESC"
        /\ reader.pc = "bracket" => m = 2 /\ k.bytes[1] = "ESC" /\ k.bytes[2] \in {"[", "O"}
        /\ reader.pc = "digits" => /\ m >= 3 /\ k.bytes[1] = "ESC" /\ k.bytes[2] \in {"[", "O"}
                                   /\ k.bytes[3] = reader.lead /\ k.bytes[3] \in Digits
  BY <1>2, ByteOfKey
<1>4. PICK b \in Seq(Bytes) : b = k.bytes /\ RunsTo(b, k.raw)
  <2>1. n \in Nat /\ Len(pressed) \in Nat /\ raw /\ DOMAIN pressed = 1..Len(pressed)
    BY <1>1, <1>2, SentIs, StartsAre DEF ReadByte, KeysType
  <2>2. n + 1 \in DOMAIN pressed
    BY <1>3, <2>1
  <2>3. ~IsEsc(k)
    BY <1>3, <2>1, <2>2 DEF EscPressed
  <2> QED  BY <2>3, KeyRun
<1>5. m \in Nat /\ Len(b) \in Nat /\ n \in Nat /\ Len(pressed) \in Nat /\ k.raw \in Commands /\ raw
  BY <1>1, <1>2, <1>3, SentIs, StartsAre, KeyboardAssumption DEF ReadByte
<1>6. input # <<>> /\ input' = Tail(input) /\ UNCHANGED <<raw, eof, pressed, starts, keys, handled, main>>
  BY DEF ReadByte
<1>7. InputInStep' /\ read' = read + 1
  <2>1. /\ input' \in Seq(Bytes) /\ Len(input') = Len(input) - 1
        /\ \A x \in 1..Len(input') : input'[x] = input[x + 1]
        /\ 1 \in 0..Len(input)
    BY <1>1, <1>6, HeadTailProperties DEF KeysType
  <2> QED  BY <1>1, <1>6, <2>1, BytesRead
<1>8. Sent' = Sent /\ Promised' = Promised /\ SentAsPromised'
  BY <1>1, <1>6, SameKeys
<1>9. Promised[n + 1] = k.raw
  BY <1>1, <1>3, <1>5, PromisedIs DEF Cmd
<1>10. starts[n + 1] \in Nat /\ starts[n + 2] = starts[n + 1] + Len(b)
  <2>1. n + 1 \in 1..Len(pressed) /\ n + 1 \in 1..(Len(pressed) + 1) /\ (n + 1) + 1 = n + 2
    BY <1>3, <1>5
  <2>2. Typing(k) = b
    BY <1>4, <1>5, TypingIs
  <2>3. starts[(n + 1) + 1] = starts[n + 1] + Len(Typing(pressed[n + 1]))
    BY <1>1, <2>1, StartsAre
  <2>4. starts[n + 1] \in Nat
    BY <1>1, <2>1, StartOf
  <2>5. Typing(pressed[n + 1]) = b
    BY <1>3, <2>2
  <2> QED  BY <2>1, <2>3, <2>4, <2>5
<1>11. read' = starts[n + 1] + (m + 1)
  <2>1. read = starts[n + 1] + m
    BY <1>3
  <2>2. read' = read + 1
    BY <1>7
  <2>3. m \in Nat /\ starts[n + 1] \in Nat
    BY <1>5, <1>10
  <2> QED  BY <2>1, <2>2, <2>3
<1>12. ASSUME reader' = Decoded(k.raw), Len(b) = m + 1
       PROVE  reader' \in ReaderStates /\ ReaderAt(n, reader)'
  <2>1. reader' \in ReaderStates /\ reader'.pc = "sending" /\ reader'.key = Promised'[n + 1]
    BY <1>5, <1>8, <1>9, <1>12, PlacesTyped
  <2>2. read' = starts'[n + 2] /\ n < Len(pressed')
    BY <1>3, <1>6, <1>10, <1>11, <1>12
  <2> QED  BY <2>1, <2>2 DEF ReaderAt
<1>13. ASSUME NEW x, x = m + 1, x < Len(b)
       PROVE  Inside(n, x)' /\ pressed'[n + 1].bytes = b
  BY <1>3, <1>4, <1>5, <1>6, <1>11, <1>13 DEF Inside
<1>14. reader' \in ReaderStates /\ ReaderAt(n, reader)'
  <2>1. \A pc \in {"start", "escape", "bracket", "digits", "closed"}, lead \in Bytes \cup {""} :
          /\ Await(pc, lead) \in ReaderStates
          /\ Await(pc, lead).pc = pc /\ Await(pc, lead).lead = lead
    BY PlacesTyped
  <2>2. CASE reader.pc = "start"
    <3>1. m = 0 /\ reader' = readKey(b[1])
      BY <1>3, <1>4, <2>2 DEF ReadByte
    <3>2. CASE b[1] # "ESC"
      <4>1. reader' = Decoded(k.raw) /\ Len(b) = 1
        BY <1>4, <3>1, <3>2 DEF RunsTo
      <4>2. Len(b) = m + 1
        BY <3>1, <4>1
      <4> QED  BY <1>12, <4>1, <4>2
    <3>3. CASE b[1] = "ESC"
      <4>1. Len(b) >= 2 /\ reader' = Await("escape", "")
        BY <1>4, <3>1, <3>3 DEF RunsTo
      <4>2. reader' \in ReaderStates /\ reader'.pc = "escape"
        BY <2>1, <4>1
      <4>3. Inside(n, 1)' /\ pressed'[n + 1].bytes = b
        <5>1. m + 1 = 1
          BY <3>1
        <5>2. 1 < Len(b)
          <6>1. Len(b) \in Nat /\ Len(b) >= 2
            BY <1>5, <4>1
          <6> QED  BY <6>1
        <5> QED  BY <1>13, <5>1, <5>2
      <4> QED  BY <3>3, <4>2, <4>3 DEF ReaderAt
    <3> QED  BY <3>2, <3>3
  <2>3. CASE reader.pc = "escape"
    <3>1. m = 1 /\ b[1] = "ESC" /\ reader' = AfterEscape(b[2])
      BY <1>3, <1>4, <2>3 DEF ReadByte
    <3>2. CASE b[2] \notin {"[", "O"}
      <4>1. reader' = Decoded(k.raw) /\ Len(b) = 2
        BY <1>4, <3>1, <3>2 DEF RunsTo
      <4>2. Len(b) = m + 1
        BY <3>1, <4>1
      <4> QED  BY <1>12, <4>1, <4>2
    <3>3. CASE b[2] \in {"[", "O"}
      <4>1. Len(b) >= 3 /\ reader' = Await("bracket", "")
        BY <1>4, <3>1, <3>3 DEF RunsTo
      <4>2. reader' \in ReaderStates /\ reader'.pc = "bracket"
        BY <2>1, <4>1
      <4>3. Inside(n, 2)' /\ pressed'[n + 1].bytes = b
        <5>1. m + 1 = 2
          BY <3>1
        <5>2. 2 < Len(b)
          <6>1. Len(b) \in Nat /\ Len(b) >= 3
            BY <1>5, <4>1
          <6> QED  BY <6>1
        <5> QED  BY <1>13, <5>1, <5>2
      <4> QED  BY <3>1, <3>3, <4>2, <4>3 DEF ReaderAt
    <3> QED  BY <3>2, <3>3
  <2>4. CASE reader.pc = "bracket"
    <3>1. m = 2 /\ b[1] = "ESC" /\ b[2] \in {"[", "O"} /\ reader' = AfterBracket(b[3])
      BY <1>3, <1>4, <2>4 DEF ReadByte
    <3>2. CASE b[3] \notin Digits
      <4>1. reader' = Decoded(k.raw) /\ Len(b) = 3
        BY <1>4, <3>1, <3>2 DEF RunsTo
      <4>2. Len(b) = m + 1
        BY <3>1, <4>1
      <4> QED  BY <1>12, <4>1, <4>2
    <3>3. CASE b[3] \in Digits
      <4>1. Len(b) > 3 /\ reader' = Await("digits", b[3]) 
        BY <1>4, <3>1, <3>3 DEF RunsTo
      <4> b[3] \in Bytes
        BY <4>1
      <4>2. reader' \in ReaderStates /\ reader'.pc = "digits" /\ reader'.lead = b[3]
        BY <2>1, <4>1
      <4>3. Inside(n, 3)' /\ pressed'[n + 1].bytes = b /\ 3 \in 3..Len(b)
        <5>1. m + 1 = 3
          BY <3>1
        <5>2. 3 < Len(b)
          BY <1>5, <4>1
        <5> QED  BY <1>13, <5>1, <5>2
      <4> QED  BY <3>1, <3>3, <4>2, <4>3 DEF ReaderAt
    <3> QED  BY <3>2, <3>3
  <2>5. CASE reader.pc = "digits"
    <3>1. m >= 3 /\ b[1] = "ESC" /\ b[2] \in {"[", "O"} /\ b[3] = reader.lead /\ b[3] \in Digits
          /\ m < Len(b) /\ reader' = AfterDigit(b[3], b[m + 1])
      BY <1>3, <1>4, <2>5 DEF ReadByte
    <3>2. CASE m + 1 = Len(b)
      <4>1. reader' = Decoded(k.raw) /\ Len(b) = m + 1
        BY <1>4, <1>5, <3>1, <3>2 DEF RunsTo
      <4> QED  BY <1>12, <4>1
    <3>3. CASE m + 1 # Len(b)
      <4>1. m + 1 < Len(b) /\ m + 1 \in 4..(Len(b) - 1) /\ m + 1 \in 3..Len(b) /\ 3 \in 1..Len(b)
        BY <1>5, <3>1, <3>3
      <4>2. reader' = Await("digits", b[3])
        BY <1>4, <3>1, <4>1 DEF RunsTo
      <4> b[3] \in Bytes
        BY <4>1
      <4>3. reader' \in ReaderStates /\ reader'.pc = "digits" /\ reader'.lead = b[3]
        BY <2>1, <4>2
      <4>4. Inside(n, m + 1)' /\ pressed'[n + 1].bytes = b
        BY <1>13, <4>1
      <4> QED  BY <3>1, <4>1, <4>3, <4>4 DEF ReaderAt
    <3> QED  BY <3>2, <3>3
  <2> QED  BY <1>3, <2>2, <2>3, <2>4, <2>5
<1>15. KeysType'
  <2>1. input' \in Seq(Bytes)
    BY <1>1, <1>6, HeadTailProperties DEF KeysType
  <2> QED  BY <1>1, <1>6, <1>14, <2>1 DEF KeysType
<1>16. ReaderInStep'
  <2>1. (ReaderInStep <=> ReaderAt(Len(Sent), reader))'
    BY ReaderIs, PTL
  <2> QED  BY <1>2, <1>8, <1>14, <2>1
<1> QED  BY <1>7, <1>8, <1>15, <1>16 DEF KeysInv

(* A line is read: it is the next key's, with its Enter.                   *)
LEMMA LineOfKey ==
    ASSUME KeysInv, ReadLine
    PROVE  \E k \in Keyboard, d \in Nat :
             /\ Len(Sent) < Len(pressed) /\ k = pressed[Len(Sent) + 1]
             /\ read = starts[Len(Sent) + 1] /\ d = Len(Typing(k)) /\ d <= Len(input)
             /\ reader' = Decoded(k.line)
             /\ input' = SubSeq(input, d + 1, Len(input))
<1>1. KeysType /\ InputInStep /\ ReaderAt(Len(Sent), reader)
  BY ReaderIs DEF KeysInv
<1>2. ~raw /\ input # <<>> /\ reader.pc = "start"
  BY DEF ReadLine
<1>3. PICK n \in Nat : n = Len(Sent)
  BY <1>1, SentIs
<1>4. Len(pressed) \in Nat /\ Len(input) \in Nat /\ DOMAIN input = 1..Len(input)
  BY <1>1, StartsAre DEF KeysType
<1>5. n < Len(pressed) /\ read = starts[n + 1]
  <2>1. n <= Len(pressed) /\ read = starts[n + 1]
    BY <1>1, <1>2, <1>3 DEF ReaderAt
  <2>2. n + 1 \in 1..(Len(pressed) + 1) /\ n + 1 # Len(pressed) + 1
    BY <1>1, <1>2, <1>3, <1>4, <2>1, NothingLeft
  <2> QED  BY <1>3, <1>4, <2>1, <2>2
<1>6. n + 1 \in 1..Len(pressed) /\ n + 1 \in 1..(Len(pressed) + 1)
  BY <1>3, <1>4, <1>5
<1>7. PICK k \in Keyboard : k = pressed[n + 1]
  BY <1>1, <1>6, StartsAre
<1>8. PICK b \in Seq(Bytes), d \in Nat :
        /\ b = k.bytes /\ d = Len(Typing(k)) /\ d = Len(b) + 1 /\ Len(b) \in Nat
        /\ \A i \in 1..Len(b) : b[i] # "LF" /\ Typing(k)[i] = b[i]
        /\ Typing(k)[d] = "LF"
  <2>1. k.bytes \in Seq(Bytes) /\ Len(k.bytes) \in Nat /\ \A i \in 1..Len(k.bytes) : k.bytes[i] # "LF"
    BY KeyRun
  <2>2. /\ Len(Typing(k)) = Len(k.bytes) + 1
        /\ \A i \in 1..Len(k.bytes) : Typing(k)[i] = k.bytes[i]
        /\ Typing(k)[Len(k.bytes) + 1] = "LF"
    BY <1>1, <1>2, TypingIs DEF KeysType
  <2> QED  BY <2>1, <2>2
<1>9. \A x \in 1..d : x \in 1..Len(input) /\ input[x] = Typing(k)[x]
  <2>1. read = starts[n + 1] + 0 /\ 0 < Len(Typing(k))
    BY <1>1, <1>5, <1>6, <1>8, StartsAre
  <2>2. \A x \in (0 + 1)..Len(Typing(k)) : x - 0 \in 1..Len(input) /\ input[x - 0] = Typing(k)[x]
    BY <1>1, <1>6, <1>7, <2>1, RestOfKey
  <2> QED  BY <1>8, <2>2
<1>10. d \in DOMAIN input /\ d <= Len(input) /\ input[d] = "LF" /\ \A x \in 1..(d - 1) : input[x] = b[x]
  <2>1. d \in 1..d /\ d - 1 = Len(b) /\ \A x \in 1..(d - 1) : x \in 1..d
    BY <1>8
  <2> QED  BY <1>4, <1>8, <1>9, <2>1
<1>11. (CHOOSE e \in DOMAIN input : input[e] = "LF" /\ \A x \in 1..(e - 1) : input[x] # "LF") = d
  <2>1. \A x \in 1..(d - 1) : input[x] # "LF"
    BY <1>8, <1>10
  <2>2. ASSUME NEW e \in DOMAIN input, input[e] = "LF", \A x \in 1..(e - 1) : input[x] # "LF"
        PROVE  e = d
    BY <1>4, <1>8, <1>10, <2>1, <2>2
  <2> QED  BY <1>10, <2>1, <2>2
<1>12. PICK l : l = SubSeq(input, 1, d - 1)
  OBVIOUS
<1>13. l = b
  <2>1. \A i \in 1..(d - 1) : input[i] \in Bytes
    BY <1>1, <1>4, <1>8, <1>9 DEF KeysType
  <2>2. d - 1 = Len(b) /\ d - 1 \in Int /\ 1 \in Int
    BY <1>8
  <2>3. /\ l \in Seq(Bytes) /\ Len(l) = IF 1 <= d - 1 THEN d - 1 - 1 + 1 ELSE 0
        /\ \A i \in 1..(d - 1 - 1 + 1) : l[i] = input[1 + i - 1]
    BY <1>12, <2>1, <2>2, SubSeqProperties
  <2>4. Len(l) = Len(b) /\ \A i \in 1..Len(l) : l[i] = b[i]
    BY <1>8, <1>10, <2>2, <2>3
  <2> QED  BY <2>3, <2>4, SeqEqual
<1>14. reader' = Decoded(lineCommand(l)) /\ input' = SubSeq(input, d + 1, Len(input))
  BY <1>11, <1>12 DEF ReadLine
<1>15. lineCommand(l) = k.line
  BY <1>8, <1>13, LineIs
<1> QED  BY <1>3, <1>5, <1>7, <1>8, <1>10, <1>14, <1>15

LEMMA ReadLineStep ==
    ASSUME KeysInv, ReadLine, UNCHANGED cancelled
    PROVE  KeysInv'
<1>1. KeysType /\ InputInStep /\ SentAsPromised
  BY DEF KeysInv
<1>2. PICK n : n = Len(Sent)
  OBVIOUS
<1>3. PICK k \in Keyboard, d \in Nat :
        /\ n < Len(pressed) /\ k = pressed[n + 1]
        /\ read = starts[n + 1] /\ d = Len(Typing(k)) /\ d <= Len(input)
        /\ reader' = Decoded(k.line)
        /\ input' = SubSeq(input, d + 1, Len(input))
  BY <1>2, LineOfKey
<1>4. n \in Nat /\ Len(pressed) \in Nat /\ Len(input) \in Nat /\ k.line \in Commands /\ ~raw
  BY <1>1, <1>2, SentIs, StartsAre, KeyboardAssumption DEF ReadLine
<1>5. UNCHANGED <<raw, eof, pressed, starts, keys, handled, main>>
  BY DEF ReadLine
<1>6. InputInStep' /\ read' = read + d /\ input' \in Seq(Bytes)
  <2>1. \A i \in (d + 1)..Len(input) : input[i] \in Bytes
    BY <1>1, <1>3, <1>4 DEF KeysType
  <2>2. d + 1 \in Int /\ Len(input) \in Int
    BY <1>4
  <2>3. PICK s : s = SubSeq(input, d + 1, Len(input))
    OBVIOUS
  <2>4. /\ s \in Seq(Bytes)
        /\ Len(s) = IF d + 1 <= Len(input) THEN Len(input) - (d + 1) + 1 ELSE 0
        /\ \A i \in 1..(Len(input) - (d + 1) + 1) : s[i] = input[d + 1 + i - 1]
    BY <2>1, <2>2, <2>3, SubSeqProperties
  <2>5. Len(s) = Len(input) - d /\ Len(s) \in Nat
    <3>1. PICK l \in Nat : l = Len(input) /\ d <= l
      BY <1>3, <1>4
    <3>2. Len(s) = IF d + 1 <= l THEN l - (d + 1) + 1 ELSE 0
      BY <2>4, <3>1
    <3> QED  BY <3>1, <3>2
  <2>6. \A i \in 1..Len(s) : s[i] = input[i + d]
    <3> TAKE i \in 1..Len(s)
    <3>1. i \in 1..(Len(input) - (d + 1) + 1) /\ d + 1 + i - 1 = i + d
      BY <1>4, <2>5
    <3> QED  BY <2>4, <3>1
  <2>7. d \in 0..Len(input) /\ input' = s
    BY <1>3, <1>4, <2>3
  <2> QED  BY <1>1, <1>5, <2>4, <2>5, <2>6, <2>7, BytesRead
<1>7. Sent' = Sent /\ Promised' = Promised /\ SentAsPromised'
  BY <1>1, <1>5, SameKeys
<1>8. Promised[n + 1] = k.line
  <2>1. n + 1 \in 1..Len(pressed)
    BY <1>3, <1>4
  <2>2. Promised[n + 1] = Cmd(k)
    BY <1>1, <1>3, <2>1, PromisedIs
  <2> QED  BY <1>4, <2>2 DEF Cmd
<1>9. starts[n + 2] = starts[n + 1] + d
  <2>1. n + 1 \in 1..Len(pressed) /\ (n + 1) + 1 = n + 2
    BY <1>3, <1>4
  <2> QED  BY <1>1, <1>3, <2>1, StartsAre
<1>10. reader' \in ReaderStates /\ reader'.pc = "sending" /\ reader'.key = Promised'[n + 1]
  BY <1>3, <1>4, <1>7, <1>8, PlacesTyped
<1>11. ReaderAt(n, reader)'
  BY <1>3, <1>5, <1>6, <1>9, <1>10 DEF ReaderAt
<1>12. ReaderInStep'
  <2>1. (ReaderInStep <=> ReaderAt(Len(Sent), reader))'
    BY ReaderIs, PTL
  <2> QED  BY <1>2, <1>7, <1>11, <2>1
<1>13. KeysType'
  BY <1>1, <1>5, <1>6, <1>10 DEF KeysType
<1> QED  BY <1>6, <1>7, <1>12, <1>13 DEF KeysInv

(* A command goes into the channel.                                        *)
LEMMA SentGrows ==
    ASSUME KeysType, NEW key \in Commands, Len(keys) < KeyQueue,
           keys' = Append(keys, key), UNCHANGED handled
    PROVE  /\ keys' \in Seq(Commands) /\ Len(keys') <= KeyQueue
           /\ Len(Sent') = Len(Sent) + 1 /\ DOMAIN Sent' = 1..(Len(Sent) + 1)
           /\ \A i \in 1..Len(Sent) : Sent'[i] = Sent[i]
           /\ Sent'[Len(Sent) + 1] = key
<1>1. handled \in Seq(Commands) /\ keys \in Seq(Commands) /\ Len(keys) <= KeyQueue
      /\ KeyQueue \in Nat
  BY ViewerAssumption DEF KeysType
<1>2. keys' \in Seq(Commands) /\ Len(keys') <= KeyQueue
  BY <1>1
<1>3. PICK s \in Seq(Commands), t \in Seq(Commands) : s = Sent /\ t = Sent'
  <2>1. handled \o keys \in Seq(Commands) /\ handled' \o keys' \in Seq(Commands)
    BY <1>1, <1>2
  <2>2. Sent = handled \o keys /\ Sent' = handled' \o keys'
    BY DEF Sent
  <2> QED  BY <2>1, <2>2, Zenon
<1>4. t = Append(s, key)
  <2>1. handled \o Append(keys, key) = Append(handled \o keys, key)
    BY <1>1
  <2> QED  BY <1>3, <2>1 DEF Sent
<1>5. /\ Len(t) = Len(s) + 1 /\ DOMAIN t = 1..Len(t) /\ \A i \in 1..Len(s) : t[i] = s[i]
      /\ t[Len(s) + 1] = key
  BY <1>3, <1>4, AppendProperties
<1> QED  BY <1>2, <1>3, <1>5

LEMMA SendStep ==
    ASSUME KeysInv, Send
    PROVE  KeysInv'
<1>1. KeysType /\ InputInStep /\ SentAsPromised /\ ReaderAt(Len(Sent), reader)
  BY ReaderIs DEF KeysInv
<1>2. PICK n \in Nat : n = Len(Sent)
  BY <1>1, SentIs
<1>3. Len(pressed) \in Nat /\ reader \in ReaderStates
  BY <1>1, StartsAre DEF KeysType
<1>4. /\ reader.key \in Commands /\ reader.key = Promised[n + 1]
      /\ n < Len(pressed) /\ read = starts[n + 2]
  BY <1>1, <1>2, <1>3 DEF Send, ReaderAt, ReaderStates
<1>5. UNCHANGED <<raw, input, eof, cancelled, pressed, starts, handled, main>>
  BY DEF Send, typed
<1>6. /\ keys' \in Seq(Commands) /\ Len(keys') <= KeyQueue
      /\ Len(Sent') = n + 1 /\ DOMAIN Sent' = 1..(n + 1)
      /\ \A i \in 1..n : Sent'[i] = Sent[i]
      /\ Sent'[n + 1] = Promised[n + 1]
  BY <1>1, <1>2, <1>4, SentGrows DEF Send
<1>7. reader' \in ReaderStates /\ reader'.pc = "start"
  BY PlacesTyped DEF Send
<1>8. Promised' = Promised /\ read' = read /\ InputInStep'
  BY <1>1, <1>5 DEF Promised, read, InputInStep, Typing
<1>9. KeysType'
  BY <1>1, <1>5, <1>6, <1>7 DEF KeysType
<1>10. ReaderInStep'
  <2>1. (ReaderInStep <=> ReaderAt(Len(Sent), reader))'
    BY ReaderIs, PTL
  <2>2. n + 1 <= Len(pressed) /\ (n + 1) + 1 = n + 2
    BY <1>2, <1>3, <1>4
  <2>3. ReaderAt(n + 1, reader)'
    BY <1>4, <1>5, <1>7, <1>8, <2>2 DEF ReaderAt
  <2> QED  BY <1>6, <2>1, <2>3
<1>11. SentAsPromised'
  <2>1. Len(pressed) <= Len(Promised) /\ Len(Promised) \in Nat
    BY <1>1, <1>3, PromisedIs DEF KeysType
  <2>2. \A i \in 1..n : Sent[i] = Promised[i]
    BY <1>1, <1>2, SentIs DEF SentAsPromised
  <2>3. n + 1 <= Len(Promised)
    BY <1>2, <1>3, <1>4, <2>1
  <2>4. \A i \in 1..(n + 1) : Sent'[i] = Promised[i]
    BY <1>2, <1>6, <2>2
  <2> QED  BY <1>6, <1>8, <2>3, <2>4 DEF SentAsPromised
<1> QED  BY <1>8, <1>9, <1>10, <1>11 DEF KeysInv

(* When there is nothing more to read the reader is not inside a key.      *)
LEMMA EndOfInput ==
    ASSUME KeysInv, input = <<>>
    PROVE  /\ reader.pc \in {"start", "sending", "closed"}
           /\ reader.pc = "start" => Len(Sent) = Len(pressed)
<1>1. KeysType /\ InputInStep /\ ReaderAt(Len(Sent), reader)
  BY ReaderIs DEF KeysInv
<1>2. PICK n \in Nat : n = Len(Sent)
  BY <1>1, SentIs
<1>3. Len(pressed) \in Nat /\ Len(input) = 0
  BY <1>1, StartsAre
<1>4. ASSUME NEW m \in Nat, Inside(n, m)
      PROVE  FALSE
  <2>1. n + 1 \in 1..Len(pressed)
    BY <1>2, <1>3, <1>4 DEF Inside
  <2>2. pressed[n + 1] \in Keyboard
    BY <1>1, <2>1, StartsAre
  <2>3. /\ Typing(pressed[n + 1]) = pressed[n + 1].bytes /\ Len(Typing(pressed[n + 1])) \in Nat
        /\ m < Len(Typing(pressed[n + 1])) /\ read = starts[n + 1] + m
    <3>1. raw /\ m < Len(pressed[n + 1].bytes) /\ read = starts[n + 1] + m
      BY <1>4 DEF Inside
    <3>2. Typing(pressed[n + 1]) = pressed[n + 1].bytes /\ Typing(pressed[n + 1]) \in Seq(Bytes)
      BY <1>1, <2>2, <3>1, TypingIs DEF KeysType
    <3>3. Len(Typing(pressed[n + 1])) \in Nat
      BY <3>2, LenProperties
    <3> QED  BY <3>1, <3>2, <3>3
  <2>4. \A x \in (m + 1)..Len(Typing(pressed[n + 1])) : x - m \in 1..Len(input)
    BY <1>1, <2>1, <2>3, RestOfKey
  <2>5. m + 1 \in (m + 1)..Len(Typing(pressed[n + 1])) /\ (m + 1) - m = 1
    BY <2>3
  <2>6. 1 \in 1..Len(input)
    BY <2>4, <2>5
  <2> QED  BY <1>3, <2>6
<1>5. reader.pc \notin {"escape", "bracket", "digits"}
  <2>1. reader.pc # "digits"
    <3> SUFFICES ASSUME reader.pc = "digits" PROVE FALSE
      OBVIOUS
    <3>1. PICK m \in 3..Len(pressed[n + 1].bytes) : Inside(n, m)
      BY <1>1, <1>2 DEF ReaderAt
    <3>2. m \in Nat
      BY <3>1
    <3> QED  BY <1>4, <3>1, <3>2
  <2>2. reader.pc # "escape" /\ reader.pc # "bracket"
    BY <1>1, <1>2, <1>4 DEF ReaderAt
  <2> QED  BY <2>1, <2>2
<1>6. reader.pc = "start" => n = Len(pressed)
  <2> SUFFICES ASSUME reader.pc = "start" PROVE n = Len(pressed)
    OBVIOUS
  <2>1. n <= Len(pressed) /\ read = starts[n + 1]
    BY <1>1, <1>2 DEF ReaderAt
  <2>2. n + 1 \in 1..(Len(pressed) + 1)
    BY <1>2, <1>3, <2>1
  <2>3. n + 1 = Len(pressed) + 1
    BY <1>1, <2>1, <2>2, NothingLeft
  <2> QED  BY <1>2, <1>3, <2>3
<1> QED  BY <1>1, <1>2, <1>5, <1>6 DEF KeysType, ReaderStates

LEMMA ReadEOFStep ==
    ASSUME KeysInv, ReadEOF
    PROVE  KeysInv'
<1>1. KeysType /\ InputInStep /\ SentAsPromised
  BY DEF KeysInv
<1>2. PICK n \in Nat : n = Len(Sent)
  BY <1>1, SentIs
<1>3. /\ eof /\ input = <<>> /\ reader.pc = "start" /\ n = Len(pressed)
      /\ raw \/ Len(keys) < KeyQueue
  BY <1>2, EndOfInput DEF ReadEOF
<1>4. UNCHANGED <<raw, input, eof, cancelled, pressed, starts, handled, main>>
  BY DEF ReadEOF, typed
<1>5. Promised' = Promised /\ read' = read /\ InputInStep'
  <2>1. Promised' = Promised /\ read' = read /\ \A k : Typing(k)' = Typing(k)
    BY <1>4 DEF Promised, read, Typing
  <2> QED  BY <1>1, <1>4, <2>1 DEF InputInStep
<1>6. reader' \in ReaderStates /\ reader'.pc = "closed"
  BY PlacesTyped DEF ReadEOF
<1>7. keys' \in Seq(Commands) /\ Len(keys') <= KeyQueue /\ SentAsPromised' /\ Len(Sent') = Len(Promised)
  <2>1. CASE raw
    <3>1. Sent' = Sent /\ keys' = keys
      BY <1>4, <2>1 DEF ReadEOF, Sent
    <3>2. Len(Promised) = n
      BY <1>1, <1>3, <2>1, PromisedIs
    <3> QED  BY <1>1, <1>2, <1>5, <3>1, <3>2 DEF SentAsPromised, KeysType
  <2>2. CASE ~raw
    <3>1. keys' = Append(keys, "none") /\ "none" \in Commands
      BY <2>2 DEF ReadEOF, lineCommand, Commands
    <3>2. /\ keys' \in Seq(Commands) /\ Len(keys') <= KeyQueue
          /\ Len(Sent') = n + 1 /\ DOMAIN Sent' = 1..(n + 1)
          /\ \A i \in 1..n : Sent'[i] = Sent[i]
          /\ Sent'[n + 1] = "none"
      BY <1>1, <1>2, <1>3, <1>4, <2>2, <3>1, SentGrows
    <3>3. Len(Promised) = n + 1 /\ Promised[n + 1] = "none"
      BY <1>1, <1>3, <2>2, PromisedIs
    <3>4. \A i \in 1..n : Sent[i] = Promised[i]
      BY <1>1, <1>2, SentIs DEF SentAsPromised
    <3>5. \A i \in 1..(n + 1) : Sent'[i] = Promised[i]
      BY <1>2, <3>2, <3>3, <3>4
    <3> QED  BY <1>5, <3>2, <3>3, <3>5 DEF SentAsPromised
  <2> QED  BY <2>1, <2>2
<1>8. KeysType'
  BY <1>1, <1>4, <1>6, <1>7 DEF KeysType
<1>9. ReaderInStep'
  <2>1. (ReaderInStep <=> ReaderAt(Len(Sent), reader))'
    BY ReaderIs, PTL
  <2>2. ReaderAt(Len(Sent), reader)'
    BY <1>3, <1>4, <1>5, <1>6, <1>7 DEF ReaderAt
  <2> QED  BY <2>1, <2>2
<1> QED  BY <1>5, <1>7, <1>8, <1>9 DEF KeysInv

(* What a key press, its bytes t after n keys, adds to the input.          *)
Added(k, t, n) ==
    /\ input' \in Seq(Bytes) /\ pressed' \in Seq(Keyboard) /\ starts' \in Seq(Nat)
    /\ n \in Nat /\ t \in Seq(Bytes) /\ Len(t) \in Nat /\ Len(t) >= 1
    /\ Len(input') = Len(input) + Len(t)
    /\ \A x \in 1..Len(input) : input'[x] = input[x]
    /\ \A x \in 1..Len(t) : input'[Len(input) + x] = t[x]
    /\ Len(pressed') = n + 1 /\ pressed'[n + 1] = k
    /\ \A i \in 1..n : pressed'[i] = pressed[i]
    /\ Len(starts') = n + 2 /\ starts'[n + 2] = starts[n + 1] + Len(t)
    /\ \A i \in 1..(n + 1) : starts'[i] = starts[i]

LEMMA PressAdds ==
    ASSUME KeysType, InputInStep, NEW k \in Keyboard, Press(k),
           NEW t, t = Typing(k), NEW n, n = Len(pressed)
    PROVE  Added(k, t, n)
<1>1. /\ input \in Seq(Bytes) /\ pressed \in Seq(Keyboard) /\ starts \in Seq(Nat)
      /\ n \in Nat /\ Len(starts) = n + 1 /\ starts[n + 1] \in Nat /\ Len(input) \in Nat
  BY StartsAre DEF KeysType
<1>2. t \in Seq(Bytes) /\ Len(t) \in Nat /\ Len(t) >= 1
  BY TypingIs DEF KeysType
<1>3. /\ input' = input \o t /\ pressed' = Append(pressed, k)
      /\ starts' = Append(starts, starts[n + 1] + Len(t))
  BY <1>1 DEF Press
<1>4. /\ input' \in Seq(Bytes) /\ Len(input') = Len(input) + Len(t)
      /\ \A x \in 1..(Len(input) + Len(t)) :
           input'[x] = IF x <= Len(input) THEN input[x] ELSE t[x - Len(input)]
  BY <1>1, <1>2, <1>3, ConcatProperties
<1>5. \A x \in 1..Len(input) : input'[x] = input[x]
  BY <1>1, <1>2, <1>4
<1>6. \A x \in 1..Len(t) : input'[Len(input) + x] = t[x]
  <2> TAKE x \in 1..Len(t)
  <2>1. /\ Len(input) + x \in 1..(Len(input) + Len(t)) /\ ~(Len(input) + x <= Len(input))
        /\ (Len(input) + x) - Len(input) = x
    BY <1>1, <1>2
  <2> QED  BY <1>4, <2>1
<1>7. /\ pressed' \in Seq(Keyboard) /\ Len(pressed') = n + 1 /\ pressed'[n + 1] = k
      /\ \A i \in 1..n : pressed'[i] = pressed[i]
  BY <1>1, <1>3, AppendProperties
<1>8. /\ starts' \in Seq(Nat) /\ Len(starts') = (n + 1) + 1
      /\ starts'[(n + 1) + 1] = starts[n + 1] + Len(t)
      /\ \A i \in 1..(n + 1) : starts'[i] = starts[i]
  <2>1. starts[n + 1] + Len(t) \in Nat
    BY <1>1, <1>2
  <2> QED  BY <1>1, <1>3, <2>1, AppendProperties
<1>9. (n + 1) + 1 = n + 2
  BY <1>1
<1> QED  BY <1>1, <1>2, <1>4, <1>5, <1>6, <1>7, <1>8, <1>9 DEF Added

LEMMA PressInStep ==
    ASSUME KeysType, InputInStep, NEW k \in Keyboard, Press(k)
    PROVE  InputInStep' /\ read' = read
<1>1. PICK t, n : t = Typing(k) /\ n = Len(pressed)
  OBVIOUS
<1>2. /\ input' \in Seq(Bytes) /\ pressed' \in Seq(Keyboard) /\ starts' \in Seq(Nat)
      /\ n \in Nat /\ t \in Seq(Bytes) /\ Len(t) \in Nat /\ Len(t) >= 1
      /\ Len(input') = Len(input) + Len(t)
      /\ \A x \in 1..Len(input) : input'[x] = input[x]
      /\ \A x \in 1..Len(t) : input'[Len(input) + x] = t[x]
      /\ Len(pressed') = n + 1 /\ pressed'[n + 1] = k
      /\ \A i \in 1..n : pressed'[i] = pressed[i]
      /\ Len(starts') = n + 2 /\ starts'[n + 2] = starts[n + 1] + Len(t)
      /\ \A i \in 1..(n + 1) : starts'[i] = starts[i]
  <2>1. Added(k, t, n)
    BY <1>1, PressAdds
  <2> QED  BY <2>1, Zenon DEF Added
<1>3. /\ starts[1] = 0 /\ Len(input) \in Nat /\ read = starts[n + 1] - Len(input)
      /\ \A i \in 1..(n + 1) : starts[i] \in Nat
      /\ \A i, j \in 1..(n + 1) : i < j => starts[i] < starts[j]
      /\ \A i \in 1..n : /\ pressed[i] \in Keyboard
                         /\ starts[i + 1] = starts[i] + Len(Typing(pressed[i]))
  BY <1>1, StartsAre
<1>20. n \in Nat /\ Len(t) \in Nat /\ Len(t) >= 1
  BY <1>2
<1>21. /\ starts'[n + 2] = starts[n + 1] + Len(t)
       /\ \A i \in 1..(n + 1) : starts'[i] = starts[i] /\ starts[i] \in Nat
  BY <1>2, <1>3
<1>22. pressed'[n + 1] = k /\ \A i \in 1..n : pressed'[i] = pressed[i]
  BY <1>2
<1>23. \A i, j \in 1..(n + 1) : i < j => starts[i] < starts[j]
  BY <1>3
<1>4. PICK top \in Nat : top = starts[n + 1]
  <2>1. n + 1 \in 1..(n + 1)
    BY <1>20
  <2> QED  BY <1>21, <2>1
<1>5. read' = read
  <2>1. read' = starts'[n + 2] - Len(input')
    BY <1>2 DEF read
  <2>2. PICK w \in Nat : w = Len(input)
    BY <1>3
  <2>3. PICK l \in Nat : l = Len(t)
    BY <1>2
  <2>4. Len(input') = w + l /\ starts'[n + 2] = top + l
    BY <1>2, <1>4, <2>2, <2>3
  <2>5. read' = (top + l) - (w + l) /\ read = top - w
    BY <1>3, <1>4, <2>1, <2>2, <2>4
  <2> QED  BY <2>5
<1>6. \A j : Typing(j)' = Typing(j)
  BY DEF Press, Typing
<1>7. \A i, j \in 1..(n + 2) : i < j => starts'[i] < starts'[j]
  <2> SUFFICES ASSUME NEW i \in 1..(n + 2), NEW j \in 1..(n + 2), i < j
               PROVE  starts'[i] < starts'[j]
    OBVIOUS
  <2>1. i \in 1..(n + 1) /\ starts'[i] = starts[i] /\ starts[i] \in Nat
    <3>1. i \in 1..(n + 1)
      BY <1>20
    <3> QED  BY <1>21, <3>1
  <2>2. CASE j \in 1..(n + 1)
    <3>1. starts[i] < starts[j]
      BY <1>23, <2>1, <2>2
    <3> QED  BY <1>21, <2>1, <2>2, <3>1
  <2>3. CASE j = n + 2
    <3>3. starts[i] = top \/ starts[i] < top
      <4>1. i = n + 1 \/ (i < n + 1 /\ n + 1 \in 1..(n + 1))
        BY <1>20, <2>1
      <4> QED  BY <1>4, <1>23, <2>1, <4>1
    <3>4. PICK s \in Nat, l \in Nat : s = starts[i] /\ l = Len(t)
      BY <1>20, <2>1
    <3>5. starts'[j] = top + l /\ starts'[i] = s
      BY <1>4, <1>21, <2>1, <2>3, <3>4
    <3>6. s < top + l
      BY <1>20, <3>3, <3>4
    <3> QED  BY <3>5, <3>6
  <2>4. j \in 1..(n + 1) \/ j = n + 2
    BY <1>20
  <2> QED  BY <2>2, <2>3, <2>4
<1>8. ASSUME NEW i \in 1..n, NEW u, u = Typing(pressed[i]), NEW m \in 1..Len(u), starts[i] + m > read
      PROVE  input'[starts[i] + m - read] = u[m]
  <2>1. u \in Seq(Bytes) /\ Len(u) \in Nat /\ starts[i + 1] = starts[i] + Len(u)
    BY <1>3, <1>8, TypingIs DEF KeysType
  <2>2. starts[i + 1] <= top
    BY <1>1, <1>4, StartIsBelow
  <2>3. i \in 1..(n + 1)
    BY <1>2
  <2>4. PICK s \in Nat, l \in Nat : s = starts[i] /\ l = Len(input) /\ read = top - l
    BY <1>3, <1>4, <2>3
  <2>5. m \in Nat /\ m <= Len(u) /\ s + Len(u) <= top /\ s + m > top - l
    BY <1>8, <2>1, <2>2, <2>4
  <2>6. s + m - (top - l) \in 1..l
    <3>1. PICK w \in Nat : w = Len(u)
      BY <2>1
    <3>2. m <= w /\ s + w <= top
      BY <2>5, <3>1
    <3> QED  BY <2>5, <3>1, <3>2
  <2>7. input'[s + m - (top - l)] = input[s + m - (top - l)]
    BY <1>2, <2>4, <2>6
  <2>8. i \in DOMAIN pressed /\ m \in DOMAIN Typing(pressed[i])
    BY <1>1, <1>8, <2>1 DEF KeysType
  <2>9. input[starts[i] + m - read] = u[m]
    BY <1>8, <2>8 DEF InputInStep
  <2> QED  BY <2>4, <2>7, <2>9
<1>9. ASSUME NEW m \in 1..Len(t)
      PROVE  input'[starts[n + 1] + m - read] = t[m]
  <2>1. PICK l \in Nat : l = Len(input) /\ read = top - l
    BY <1>3, <1>4
  <2>2. m \in Nat
    BY <1>2
  <2>3. top + m - (top - l) = l + m
    BY <2>1, <2>2
  <2>4. input'[l + m] = t[m]
    BY <1>2, <2>1
  <2> QED  BY <1>4, <2>1, <2>3, <2>4
<1>10. ASSUME NEW i \in DOMAIN pressed'
       PROVE  /\ starts'[i + 1] = starts'[i] + Len(Typing(pressed'[i]))
              /\ \A m \in DOMAIN Typing(pressed'[i]) :
                   starts'[i] + m > read => input'[starts'[i] + m - read] = Typing(pressed'[i])[m]
  <2>1. i \in 1..(n + 1) /\ (i \in 1..n \/ i = n + 1)
    BY <1>2
  <2>2. CASE i \in 1..n
    <3>1. pressed'[i] = pressed[i] /\ starts'[i] = starts[i] /\ i + 1 \in 1..(n + 1)
          /\ starts'[i + 1] = starts[i + 1]
      <4>1. n \in Nat
        BY <1>2
      <4>2. i \in 1..(n + 1) /\ i + 1 \in 1..(n + 1)
        BY <2>2, <4>1
      <4> QED  BY <1>2, <2>2, <4>2
    <3>2. pressed[i] \in Keyboard /\ starts[i + 1] = starts[i] + Len(Typing(pressed[i]))
      BY <1>3, <2>2
    <3>3. DOMAIN Typing(pressed[i]) = 1..Len(Typing(pressed[i]))
      BY <3>2, TypingIs DEF KeysType
    <3> QED  BY <1>8, <2>2, <3>1, <3>2, <3>3
  <2>3. CASE i = n + 1
    <3>1. pressed'[i] = k /\ starts'[i] = starts[n + 1] /\ i + 1 = n + 2 /\ Typing(pressed'[i]) = t
      <4>1. n + 1 \in 1..(n + 1) /\ i + 1 = n + 2
        BY <1>20, <2>3
      <4> QED  BY <1>1, <1>21, <1>22, <2>3, <4>1
    <3>2. DOMAIN t = 1..Len(t)
      BY <1>2
    <3>3. starts'[i + 1] = starts'[i] + Len(t)
      BY <1>21, <3>1
    <3> QED  BY <1>9, <3>1, <3>2, <3>3
  <2> QED  BY <2>1, <2>2, <2>3
<1>11. /\ Len(starts') = Len(pressed') + 1 /\ starts'[1] = 0 /\ DOMAIN starts' = 1..(n + 2)
  <2>1. 1 \in 1..(n + 1) /\ (n + 1) + 1 = n + 2
    BY <1>20
  <2>2. starts'[1] = 0
    BY <1>3, <1>21, <2>1
  <2>3. Len(starts') = n + 2 /\ DOMAIN starts' = 1..Len(starts') /\ Len(pressed') = n + 1
    BY <1>2
  <2> QED  BY <2>1, <2>2, <2>3
<1>12. \A i \in DOMAIN pressed' :
         /\ starts'[i + 1] = starts'[i] + Len(Typing(pressed'[i]))
         /\ \A m \in DOMAIN Typing(pressed'[i]) :
              starts'[i] + m > read' => input'[starts'[i] + m - read'] = Typing(pressed'[i])[m]
  BY <1>5, <1>10
<1>13. \A i \in DOMAIN pressed' : Typing(pressed[i])' = Typing(pressed'[i])
  BY DEF Typing, Press
<1> QED  BY <1>5, <1>7, <1>11, <1>12, <1>13 DEF InputInStep

(* A key more is pressed: what was promised for the others is the same.   *)
LEMMA PressStep ==
    ASSUME KeysInv, NEW k \in Keyboard, Press(k)
    PROVE  KeysInv'
<1>1. KeysType /\ InputInStep /\ SentAsPromised /\ ReaderAt(Len(Sent), reader)
  BY ReaderIs DEF KeysInv
<1>2. PICK n \in Nat : n = Len(Sent)
  BY <1>1, SentIs
<1>3. PICK p \in Nat : p = Len(pressed)
  BY <1>1, StartsAre
<1>4. UNCHANGED <<raw, eof, cancelled, reader, keys, main, handled>> /\ ~eof
  BY DEF Press
<1>5. /\ input' \in Seq(Bytes) /\ pressed' \in Seq(Keyboard) /\ starts' \in Seq(Nat)
      /\ Len(pressed') = p + 1
      /\ \A i \in 1..p : pressed'[i] = pressed[i]
      /\ \A i \in 1..(p + 1) : starts'[i] = starts[i]
  <2>1. Added(k, Typing(k), p)
    BY <1>1, <1>3, PressAdds
  <2> QED  BY <2>1 DEF Added
<1>6. InputInStep' /\ read' = read
  BY <1>1, PressInStep
<1>7. KeysType'
  BY <1>1, <1>4, <1>5 DEF KeysType
<1>8. /\ Len(Promised) = p /\ Len(Promised') = p + 1
      /\ \A i \in 1..p : Promised'[i] = Promised[i]
  <2>1. (KeysType => /\ Len(Promised) = Len(pressed) + (IF eof /\ ~raw THEN 1 ELSE 0)
                     /\ DOMAIN Promised = 1..Len(Promised) /\ Len(pressed) \in Nat
                     /\ \A i \in 1..Len(pressed) : Promised[i] = Cmd(pressed[i])
                     /\ eof /\ ~raw => Promised[Len(pressed) + 1] = "none")'
    BY PromisedIs, PTL
  <2>2. Len(Promised') = p + 1 /\ \A i \in 1..(p + 1) : Promised'[i] = Cmd(pressed[i])'
    BY <1>4, <1>5, <1>7, <2>1
  <2>3. Len(Promised) = p /\ \A i \in 1..p : Promised[i] = Cmd(pressed[i])
    BY <1>1, <1>3, <1>4, PromisedIs
  <2>4. \A i \in 1..p : Cmd(pressed[i])' = Cmd(pressed[i])
    BY <1>4, <1>5 DEF Cmd
  <2>5. \A i \in 1..p : i \in 1..(p + 1)
    OBVIOUS
  <2> QED  BY <2>2, <2>3, <2>4, <2>5
<1>9. Sent' = Sent
  BY <1>4 DEF Sent
<1>10. SentAsPromised'
  <2>1. n <= p /\ DOMAIN Sent = 1..n /\ \A i \in 1..n : Sent[i] = Promised[i]
    BY <1>1, <1>2, <1>8, SentIs DEF SentAsPromised
  <2>2. \A i \in 1..n : i \in 1..p
    BY <2>1
  <2>3. \A i \in 1..n : Sent[i] = Promised'[i]
    BY <1>8, <2>1, <2>2
  <2>4. n <= p + 1
    BY <2>1
  <2> QED  BY <1>2, <1>8, <1>9, <2>1, <2>3, <2>4 DEF SentAsPromised
<1>11. ASSUME n < p
       PROVE  /\ n < Len(pressed') /\ pressed'[n + 1] = pressed[n + 1]
              /\ starts'[n + 1] = starts[n + 1] /\ starts'[n + 2] = starts[n + 2]
              /\ Promised'[n + 1] = Promised[n + 1]
  <2>1. n + 1 \in 1..p /\ n + 1 \in 1..(p + 1) /\ n + 2 \in 1..(p + 1) /\ n < p + 1
    BY <1>11
  <2> QED  BY <1>5, <1>8, <2>1
<1>12. ASSUME NEW m, Inside(n, m)
       PROVE  Inside(n, m)' /\ pressed'[n + 1] = pressed[n + 1]
  BY <1>3, <1>4, <1>6, <1>11, <1>12 DEF Inside
<1>13. ReaderAt(n, reader)'
  <2>1. ReaderAt(n, reader)
    BY <1>1, <1>2
  <2>2. reader.pc = "start" => n <= Len(pressed') /\ read' = starts'[n + 1]
    <3> SUFFICES ASSUME reader.pc = "start" PROVE n <= Len(pressed') /\ read' = starts'[n + 1]
      OBVIOUS
    <3>1. n <= p /\ read = starts[n + 1]
      BY <1>3, <2>1 DEF ReaderAt
    <3>2. n <= p + 1 /\ n + 1 \in 1..(p + 1)
      BY <3>1
    <3> QED  BY <1>5, <1>6, <3>1, <3>2
  <2>3. reader.pc = "sending" => n < Len(pressed') /\ read' = starts'[n + 2] /\ reader.key = Promised'[n + 1]
    BY <1>3, <1>6, <1>11, <2>1 DEF ReaderAt
  <2>4. reader.pc # "closed"
    BY <1>4, <2>1 DEF ReaderAt
  <2> QED  BY <1>4, <1>12, <2>1, <2>2, <2>3, <2>4 DEF ReaderAt
<1>14. ReaderInStep'
  <2>1. (ReaderInStep <=> ReaderAt(Len(Sent), reader))'
    BY ReaderIs, PTL
  <2> QED  BY <1>2, <1>9, <1>13, <2>1
<1> QED  BY <1>6, <1>7, <1>10, <1>14 DEF KeysInv

(* The end of the input promises an empty line at most.                    *)
LEMMA HangupStep ==
    ASSUME KeysInv, Hangup
    PROVE  KeysInv'
<1>1. KeysType /\ InputInStep /\ SentAsPromised /\ ReaderAt(Len(Sent), reader)
  BY ReaderIs DEF KeysInv
<1>2. PICK n \in Nat, p \in Nat : n = Len(Sent) /\ p = Len(pressed)
  BY <1>1, SentIs, StartsAre
<1>3. UNCHANGED <<raw, input, cancelled, pressed, starts, reader, keys, main, handled>> /\ ~eof /\ eof' = TRUE
  BY DEF Hangup
<1>4. KeysType' /\ InputInStep' /\ read' = read /\ Sent' = Sent
  <2>1. KeysType'
    BY <1>1, <1>3 DEF KeysType
  <2>2. read' = read /\ Sent' = Sent /\ \A k : Typing(k)' = Typing(k)
    BY <1>3 DEF read, Sent, Typing
  <2>3. InputInStep'
    BY <1>1, <1>3, <2>2 DEF InputInStep
  <2> QED  BY <2>1, <2>2, <2>3
<1>5. /\ Len(Promised) = p /\ Len(Promised') \in Nat /\ Len(Promised') >= p
      /\ \A i \in 1..p : Promised'[i] = Promised[i]
  <2>1. (KeysType => /\ Len(Promised) = Len(pressed) + (IF eof /\ ~raw THEN 1 ELSE 0)
                     /\ DOMAIN Promised = 1..Len(Promised) /\ Len(pressed) \in Nat
                     /\ \A i \in 1..Len(pressed) : Promised[i] = Cmd(pressed[i])
                     /\ eof /\ ~raw => Promised[Len(pressed) + 1] = "none")'
    BY PromisedIs, PTL
  <2>2. /\ Len(Promised') = p + (IF eof' /\ ~raw' THEN 1 ELSE 0)
        /\ \A i \in 1..p : Promised'[i] = Cmd(pressed[i])'
    BY <1>2, <1>3, <1>4, <2>1
  <2>3. Len(Promised) = p /\ \A i \in 1..p : Promised[i] = Cmd(pressed[i])
    BY <1>1, <1>2, <1>3, PromisedIs
  <2>4. \A i \in 1..p : Cmd(pressed[i])' = Cmd(pressed[i])
    BY <1>3 DEF Cmd
  <2> QED  BY <2>2, <2>3, <2>4
<1>6. n <= p /\ DOMAIN Sent = 1..n /\ \A i \in 1..n : Sent[i] = Promised[i]
  BY <1>1, <1>2, <1>5, SentIs DEF SentAsPromised
<1>7. SentAsPromised'
  <2>1. \A i \in 1..n : i \in 1..p
    BY <1>6
  <2>2. n <= Len(Promised')
    BY <1>5, <1>6
  <2> QED  BY <1>2, <1>4, <1>5, <1>6, <2>1, <2>2 DEF SentAsPromised
<1>8. ReaderInStep'
  <2>1. (ReaderInStep <=> ReaderAt(Len(Sent), reader))'
    BY ReaderIs, PTL
  <2>2. n < p => Promised'[n + 1] = Promised[n + 1]
    <3>1. n < p => n + 1 \in 1..p
      OBVIOUS
    <3> QED  BY <1>5, <3>1
  <2>3. reader.pc # "closed"
    BY <1>1, <1>3 DEF ReaderAt
  <2>4. \A m : Inside(n, m)' = Inside(n, m)
    BY <1>3, <1>4 DEF Inside
  <2>5. ReaderAt(n, reader)'
    BY <1>1, <1>2, <1>3, <1>4, <2>2, <2>3, <2>4 DEF ReaderAt
  <2> QED  BY <1>2, <1>4, <2>1, <2>5
<1> QED  BY <1>4, <1>7, <1>8 DEF KeysInv

(* A step of the others, Handle too: what was sent is the same.            *)
LEMMA OtherStep ==
    ASSUME KeysInv, UNCHANGED <<raw, input, eof, pressed, starts, reader>>,
           cancelled' \in BOOLEAN, main' \in {"waiting", "exited"}, Sent' = Sent,
           keys' \in Seq(Commands), Len(keys') <= KeyQueue, handled' \in Seq(Commands)
    PROVE  KeysInv'
<1>1. KeysType /\ InputInStep /\ SentAsPromised /\ ReaderAt(Len(Sent), reader)
  BY ReaderIs DEF KeysInv
<1>2. KeysType' /\ InputInStep'
  <2>1. KeysType'
    BY <1>1 DEF KeysType
  <2>2. read' = read /\ \A k : Typing(k)' = Typing(k)
    BY DEF read, Typing
  <2>3. InputInStep'
    BY <1>1, <2>2 DEF InputInStep
  <2> QED  BY <2>1, <2>3
<1>3. Promised' = Promised /\ read' = read
  BY DEF Promised, read
<1>4. SentAsPromised'
  BY <1>1, <1>3 DEF SentAsPromised
<1>5. ReaderInStep'
  <2>1. (ReaderInStep <=> ReaderAt(Len(Sent), reader))'
    BY ReaderIs, PTL
  <2>2. \A m : Inside(Len(Sent), m)' = Inside(Len(Sent), m)
    BY <1>3 DEF Inside
  <2>3. ReaderAt(Len(Sent), reader)'
    BY <1>1, <1>3, <2>2 DEF ReaderAt
  <2> QED  BY <2>1, <2>3
<1> QED  BY <1>2, <1>4, <1>5 DEF KeysInv

LEMMA HandleStep ==
    ASSUME KeysInv, Handle
    PROVE  KeysInv'
<1>1. KeysType
  BY DEF KeysInv
<1>2. PICK key \in Commands : key = Head(keys)
  BY <1>1, HeadIsACommand DEF Handle, KeysType
<1>3. /\ keys # <<>> /\ handled' = Append(handled, key) /\ keys' = Tail(keys)
      /\ UNCHANGED <<raw, input, eof, cancelled, pressed, starts, reader>>
      /\ main' \in {"waiting", "exited"}
  BY <1>1, <1>2 DEF Handle, typed, KeysType
<1>4. handled \in Seq(Commands) /\ keys \in Seq(Commands) /\ Len(keys) <= KeyQueue /\ KeyQueue \in Nat
  BY <1>1, ViewerAssumption DEF KeysType
<1>5. handled' \in Seq(Commands) /\ keys' \in Seq(Commands) /\ Len(keys') <= KeyQueue
  BY <1>3, <1>4, HeadTailProperties
<1>6. Sent' = Sent
  <2>0. <<key>> \in Seq(Commands)
    BY <1>2
  <2>1. PICK one \in Seq(Commands) : one = <<key>>
    BY <2>0
  <2>2. handled' = handled \o one
    BY <1>3, <1>4, <2>1, AppendIsConcat
  <2>3. one \o keys' = keys
    BY <1>2, <1>3, <1>4, <2>1
  <2>4. (handled \o one) \o keys' = handled \o (one \o keys')
    <3>1. PICK f \in Seq(Commands), g \in Seq(Commands) : f = handled /\ g = keys'
      BY <1>4, <1>5
    <3>2. (f \o one) \o g = f \o (one \o g)
      BY ConcatAssociative, SMTT(30)
    <3> QED  BY <3>1, <3>2, Zenon
  <2> QED  BY <2>2, <2>3, <2>4 DEF Sent
<1>7. cancelled' \in BOOLEAN
  BY <1>1, <1>3 DEF KeysType
<1> QED  BY <1>3, <1>5, <1>6, <1>7, OtherStep

-----------------------------------------------------------------------------
(* Once Esc alone has been pressed in raw mode: the reader goes where the  *)
(* bytes lead it, and only its types are kept.                             *)

LEMMA EscStays ==
    ASSUME KeysType, EscPressed, UNCHANGED raw,
           pressed' = pressed \/ \E k \in Keyboard : Press(k)
    PROVE  EscPressed'
<1>1. CASE pressed' = pressed
  BY <1>1 DEF EscPressed
<1>2. ASSUME NEW k \in Keyboard, Press(k)
      PROVE  EscPressed'
  <2>1. PICK i \in DOMAIN pressed : IsEsc(pressed[i])
    BY DEF EscPressed
  <2>2. pressed \in Seq(Keyboard) /\ pressed' = Append(pressed, k)
    BY <1>2 DEF KeysType, Press
  <2>3. i \in DOMAIN pressed' /\ pressed'[i] = pressed[i]
    BY <2>1, <2>2
  <2> QED  BY <2>1, <2>3 DEF EscPressed, IsEsc
<1> QED  BY <1>1, <1>2

(* A byte is read into the place or the command it leads to.               *)
LEMMA ReaderTyped ==
    ASSUME KeysType, ReadByte
    PROVE  reader' \in ReaderStates
<1>1. PICK b \in Bytes : b = Head(input)
  BY DEF ReadByte, KeysType
<1>2. reader.lead \in Bytes \cup {""} /\ reader.pc \in {"start", "escape", "bracket", "digits"}
  BY DEF KeysType, ReaderStates, ReadByte
<1>3. "none" \in Commands
  BY DEF Commands
<1>4. \A x : /\ Lookup(Motion, x) \in Commands /\ Lookup(Final, x) \in Commands
             /\ Lookup(Number, x) \in Commands
             /\ x \in DOMAIN Letter => Letter[x] \in Commands
  <2>1. \A x : Lookup(Motion, x) \in Commands
    BY <1>3 DEF Lookup, Motion, Commands, Scrolling
  <2>2. \A x : Lookup(Final, x) \in Commands
    BY <1>3 DEF Lookup, Final, Commands, Scrolling
  <2>3. \A x : Lookup(Number, x) \in Commands
    BY <1>3 DEF Lookup, Number, Commands, Scrolling
  <2>4. \A x \in DOMAIN Letter : Letter[x] \in Commands
    BY DEF Letter, Commands
  <2> QED  BY <2>1, <2>2, <2>3, <2>4
<1>5. /\ \A key \in Commands : Decoded(key) \in ReaderStates
      /\ \A pc \in {"escape", "bracket", "digits"}, lead \in Bytes \cup {""} :
           Await(pc, lead) \in ReaderStates
  BY PlacesTyped
<1>6. readKey(b) \in ReaderStates /\ AfterEscape(b) \in ReaderStates
  BY <1>3, <1>4, <1>5 DEF readKey, AfterEscape
<1>7. AfterBracket(b) \in ReaderStates /\ AfterDigit(reader.lead, b) \in ReaderStates
  BY <1>2, <1>4, <1>5 DEF AfterBracket, AfterDigit
<1>8. /\ reader.pc = "start" => reader' = readKey(b)
      /\ reader.pc = "escape" => reader' = AfterEscape(b)
      /\ reader.pc = "bracket" => reader' = AfterBracket(b)
      /\ reader.pc = "digits" => reader' = AfterDigit(reader.lead, b)
  BY <1>1 DEF ReadByte
<1> QED  BY <1>2, <1>6, <1>7, <1>8

LEMMA InputStays ==
    ASSUME InputInStep, UNCHANGED <<raw, input, pressed, starts>>
    PROVE  InputInStep'
<1>1. read' = read /\ \A k : Typing(k)' = Typing(k)
  BY DEF read, Typing
<1> QED  BY <1>1 DEF InputInStep

(* What every step keeps then.                                             *)
LEMMA StepAfterEsc ==
    ASSUME KeysType, InputInStep, EscPressed, [Next]_vars
    PROVE  KeysType' /\ InputInStep' /\ EscPressed'
<1>1. raw
  BY DEF EscPressed
<1>2. CASE ReadByte
  <2>1. /\ input' \in Seq(Bytes) /\ Len(input') = Len(input) - 1
        /\ \A x \in 1..Len(input') : input'[x] = input[x + 1]
        /\ 1 \in 0..Len(input)
    BY <1>2, HeadTailProperties DEF ReadByte, KeysType
  <2>2. UNCHANGED <<raw, pressed, starts, eof, cancelled, keys, handled, main>>
    BY <1>2 DEF ReadByte
  <2>3. InputInStep'
    BY <2>1, <2>2, BytesRead
  <2>4. KeysType'
    BY <1>2, <2>1, <2>2, ReaderTyped DEF KeysType
  <2> QED  BY <2>2, <2>3, <2>4, EscStays
<1>3. CASE Send
  <2>1. UNCHANGED <<raw, input, eof, cancelled, pressed, starts, handled, main>>
    BY <1>3 DEF Send, typed
  <2>2. reader.key \in Commands /\ KeyQueue \in Nat
    BY ViewerAssumption DEF KeysType, ReaderStates
  <2>3. keys' \in Seq(Commands) /\ Len(keys') <= KeyQueue
    BY <1>3, <2>1, <2>2, SentGrows DEF Send
  <2>4. reader' \in ReaderStates
    BY <1>3, PlacesTyped DEF Send
  <2>5. KeysType'
    BY <2>1, <2>3, <2>4 DEF KeysType
  <2> QED  BY <2>1, <2>5, InputStays, EscStays
<1>4. CASE ReadEOF
  <2>1. UNCHANGED <<raw, input, eof, cancelled, pressed, starts, keys, handled, main>>
    BY <1>1, <1>4 DEF ReadEOF, typed
  <2>2. reader' \in ReaderStates
    BY <1>4, PlacesTyped DEF ReadEOF
  <2>3. KeysType'
    BY <2>1, <2>2 DEF KeysType
  <2> QED  BY <2>1, <2>3, InputStays, EscStays
<1>5. CASE Handle
  <2>1. PICK key \in Commands : key = Head(keys)
    BY <1>5, HeadIsACommand DEF Handle, KeysType
  <2>2. /\ keys # <<>> /\ handled' = Append(handled, key) /\ keys' = Tail(keys)
        /\ UNCHANGED <<raw, input, eof, cancelled, pressed, starts, reader>>
        /\ main' \in {"waiting", "exited"}
    BY <1>5, <2>1 DEF Handle, typed, KeysType
  <2>3. handled' \in Seq(Commands)
    BY <2>1, <2>2 DEF KeysType
  <2>4. keys' \in Seq(Commands) /\ Len(keys') <= KeyQueue
    <3>1. keys \in Seq(Commands) /\ Len(keys) <= KeyQueue /\ KeyQueue \in Nat
      BY ViewerAssumption DEF KeysType
    <3> QED  BY <2>2, <3>1, HeadIsACommand
  <2>5. KeysType'
    BY <2>2, <2>3, <2>4 DEF KeysType
  <2> QED  BY <2>2, <2>5, InputStays, EscStays
<1>6. ASSUME NEW k \in Keyboard, Press(k)
      PROVE  KeysType' /\ InputInStep' /\ EscPressed'
  <2>1. PICK p : p = Len(pressed)
    OBVIOUS
  <2>2. input' \in Seq(Bytes) /\ pressed' \in Seq(Keyboard) /\ starts' \in Seq(Nat)
    <3>1. Added(k, Typing(k), p)
      BY <1>6, <2>1, PressAdds
    <3> QED  BY <3>1, Zenon DEF Added
  <2>3. UNCHANGED <<raw, eof, cancelled, reader, keys, main, handled>>
    BY <1>6 DEF Press
  <2>4. KeysType'
    BY <2>2, <2>3 DEF KeysType
  <2>5. InputInStep'
    BY <1>6, PressInStep
  <2> QED  BY <1>6, <2>3, <2>4, <2>5, EscStays
<1>7. ASSUME UNCHANGED <<raw, input, pressed, starts, reader, keys, handled>>,
             eof' \in BOOLEAN, cancelled' \in BOOLEAN, main' \in {"waiting", "exited"}
      PROVE  KeysType' /\ InputInStep' /\ EscPressed'
  <2>1. KeysType'
    BY <1>7 DEF KeysType
  <2> QED  BY <1>7, <2>1, InputStays, EscStays
<1>8. CASE Hangup \/ Cancel
  BY <1>7, <1>8 DEF Hangup, Cancel, KeysType
<1>9. CASE Leave
  BY <1>7, <1>9 DEF Leave, typed, KeysType
<1>10. CASE Resize \/ RowsChange \/ RescanEnds
  BY <1>7, <1>10 DEF Resize, RowsChange, RescanEnds, typed, KeysType
<1>11. CASE UNCHANGED vars
  BY <1>7, <1>11 DEF vars, typed, KeysType
<1>12. CASE ReadLine
  BY <1>1, <1>12 DEF ReadLine
<1> QED  BY <1>2, <1>3, <1>4, <1>5, <1>6, <1>8, <1>9, <1>10, <1>11, <1>12
         DEF Next, Reader, Main

-----------------------------------------------------------------------------
(* The theorems.                                                           *)

(* What is kept of the keys, with and without Esc alone.                   *)
KeysKept == KeysType /\ InputInStep /\ (~EscPressed => KeysInv)

LEMMA ViewInvParts ==
    ViewInv <=> WindowType /\ OffsetInRows /\ KeysKept
BY TypeOKParts DEF ViewInv, KeysInv, KeysKept

LEMMA ViewInit ==
    Init => ViewInv
<1> SUFFICES ASSUME Init PROVE ViewInv
  OBVIOUS
<1>10. eof \in BOOLEAN /\ cancelled \in BOOLEAN /\ settled \in BOOLEAN
  BY Zenon DEF Init
<1>0. /\ input = <<>> /\ keys = <<>> /\ pressed = <<>> /\ handled = <<>> /\ starts = <<0>>
      /\ main = "waiting"
  BY Zenon DEF Init
<1>11. /\ raw \in Modes /\ phase = "watch"
       /\ hosts \in 0..MaxHosts /\ height \in Heights /\ scrollOff = 0
  BY Zenon DEF Init
<1>12. reader = Await("start", "")
  BY Zenon DEF Init
<1>1. height \in Nat /\ hosts \in Nat /\ MaxHosts \in Nat /\ KeyQueue \in Nat /\ raw \in BOOLEAN
  BY <1>11, ViewerAssumption
<1>2. WindowType /\ OffsetInRows
  <2>1. TopRow >= 0 /\ TopRow + Shown <= hosts
    <3>1. scrollOff \in Nat
      BY <1>11
    <3> QED  BY <1>1, <3>1, WindowInRows
  <2>2. WindowType
    BY <1>1, <1>10, <1>11, <2>1 DEF WindowType
  <2>3. OffsetInRows
    <3>1. scrollOff = 0 /\ MaxOff \in Nat
      BY <1>1, <1>11, Bounds
    <3> QED  BY <3>1 DEF OffsetInRows
  <2> QED  BY <2>2, <2>3
<1>3. reader \in ReaderStates /\ reader.pc = "start"
  BY <1>12, PlacesTyped
<1>4. KeysType
  <2>1. /\ input \in Seq(Bytes) /\ pressed \in Seq(Keyboard) /\ starts \in Seq(Nat)
        /\ keys \in Seq(Commands) /\ handled \in Seq(Commands) /\ Len(keys) = 0
    BY <1>0
  <2> QED  BY <1>0, <1>1, <1>3, <1>10, <2>1 DEF KeysType
<1>5. InputInStep
  BY <1>0 DEF InputInStep
<1>6. Len(Sent) = 0 /\ DOMAIN Sent = {}
  BY <1>0 DEF Sent
<1>7. SentAsPromised
  <2>1. Len(Promised) \in Nat
    BY <1>4, PromisedIs DEF KeysType
  <2> QED  BY <1>6, <2>1 DEF SentAsPromised
<1>8. ReaderInStep
  <2>1. Len(pressed) = 0 /\ read = starts[1]
    BY <1>0 DEF read
  <2>2. ReaderAt(0, reader)
    BY <1>3, <2>1 DEF ReaderAt
  <2> QED  BY <1>6, <2>2, ReaderIs
<1> QED  BY <1>2, <1>4, <1>5, <1>7, <1>8, ViewInvParts DEF KeysInv, KeysKept

LEMMA ViewStep ==
    ASSUME ViewInv, [Next]_vars
    PROVE  ViewInv'
<1>1. WindowType' /\ OffsetInRows'
  BY WindowStep
<1>2. KeysKept
  BY ViewInvParts
<1>3. KeysType /\ InputInStep
  BY <1>2 DEF KeysKept
<1>4. ASSUME ~EscPressed PROVE KeysInv'
  <2>0. KeysInv
    BY <1>2, <1>4 DEF KeysKept
  <2>1. CASE ReadByte
    BY <1>4, <2>0, <2>1, ReadByteStep DEF ReadByte
  <2>2. CASE ReadLine
    BY <2>0, <2>2, ReadLineStep DEF ReadLine
  <2>3. CASE Send
    BY <2>0, <2>3, SendStep
  <2>4. CASE ReadEOF
    BY <2>0, <2>4, ReadEOFStep
  <2>5. CASE Handle
    BY <2>0, <2>5, HandleStep
  <2>6. CASE Hangup
    BY <2>0, <2>6, HangupStep
  <2>7. ASSUME NEW k \in Keyboard, Press(k) PROVE KeysInv'
    BY <2>0, <2>7, PressStep
  <2>8. ASSUME UNCHANGED <<raw, input, eof, pressed, starts, reader, keys, handled>>,
               cancelled' \in BOOLEAN, main' \in {"waiting", "exited"}
        PROVE  KeysInv'
    <3>1. Sent' = Sent /\ keys' \in Seq(Commands) /\ Len(keys') <= KeyQueue /\ handled' \in Seq(Commands)
      BY <1>3, <2>8 DEF Sent, KeysType
    <3> QED  BY <2>0, <2>8, <3>1, OtherStep
  <2>9. CASE Leave
    BY <1>3, <2>8, <2>9 DEF Leave, typed, KeysType
  <2>10. CASE Cancel
    BY <1>3, <2>8, <2>10 DEF Cancel, KeysType
  <2>11. CASE Resize \/ RowsChange \/ RescanEnds
    BY <1>3, <2>8, <2>11 DEF Resize, RowsChange, RescanEnds, typed, KeysType
  <2>12. CASE UNCHANGED vars
    BY <1>3, <2>8, <2>12 DEF vars, typed, KeysType
  <2> QED  BY <2>1, <2>2, <2>3, <2>4, <2>5, <2>6, <2>7, <2>9, <2>10, <2>11, <2>12
           DEF Next, Reader, Main
<1>5. KeysKept'
  <2>1. CASE EscPressed
    BY <1>3, <2>1, StepAfterEsc DEF KeysKept
  <2>2. CASE ~EscPressed
    <3>1. KeysType' /\ InputInStep'
      BY <1>4, <2>2 DEF KeysInv
    <3> QED  BY <1>4, <2>2, <3>1 DEF KeysKept
  <2> QED  BY <2>1, <2>2
<1>6. (ViewInv <=> WindowType /\ OffsetInRows /\ KeysKept)'
  BY ViewInvParts, PTL
<1> QED  BY <1>1, <1>5, <1>6

(* Types, the channel's capacity, the rows draw slices, and where the      *)
(* reader is in what was typed, in every reachable state.                  *)
THEOREM ViewInvariant ==
    Spec => []ViewInv
<1>1. Init => ViewInv
  BY ViewInit
<1>2. ViewInv /\ [Next]_vars => ViewInv'
  BY ViewStep
<1> QED  BY <1>1, <1>2, PTL DEF Spec

LEMMA PrefixIs ==
    ASSUME NEW S, NEW s \in Seq(S), NEW t, Len(s) <= Len(t), \A i \in 1..Len(s) : s[i] = t[i]
    PROVE  IsPrefix(s, t)
<1>1. SubSeq(s, 1, Len(s)) = s
  BY SubSeqFull
<1>2. PICK u : u = SubSeq(t, 1, Len(s))
  OBVIOUS
<1>3. /\ u \in Seq(S) /\ Len(u) = IF 1 <= Len(s) THEN Len(s) - 1 + 1 ELSE 0
      /\ \A i \in 1..(Len(s) - 1 + 1) : u[i] = t[1 + i - 1]
  <2>1. Len(s) \in Int /\ 1 \in Int /\ \A i \in 1..Len(s) : t[i] \in S
    OBVIOUS
  <2> QED  BY <1>2, <2>1, SubSeqProperties
<1>4. Len(u) = Len(s) /\ \A i \in 1..Len(u) : u[i] = s[i]
  <2>1. PICK n \in Nat : n = Len(s)
    OBVIOUS
  <2>2. Len(u) = n
    BY <1>3, <2>1
  <2>3. \A i \in 1..n : i \in 1..(n - 1 + 1) /\ 1 + i - 1 = i
    BY <2>1
  <2> QED  BY <1>3, <2>1, <2>2, <2>3
<1>5. u = s
  BY <1>3, <1>4, SeqEqual
<1> QED  BY <1>1, <1>2, <1>5 DEF IsPrefix

(* Each key pressed becomes its own command, in order: no byte of one key  *)
(* is taken for another's (readKey, parseEscape, lineCommand and the       *)
(* channel to WaitExit), as long as Esc alone is not pressed in raw mode.  *)
LEMMA CommandPerKey ==
    ASSUME ViewInv
    PROVE  OneCommandPerKey
<1> SUFFICES ASSUME ~EscPressed PROVE OneCommandPerKey
  BY DEF OneCommandPerKey
<1>1. KeysInv /\ KeysType /\ InputInStep /\ SentAsPromised /\ ReaderAt(Len(Sent), reader)
  BY ViewInvParts, ReaderIs DEF KeysInv, KeysKept
<1>2. PICK s \in Seq(Commands), n \in Nat : s = Sent /\ n = Len(s) /\ DOMAIN s = 1..n
  BY <1>1, SentIs
<1>3. n <= Len(Promised) /\ \A i \in 1..n : s[i] = Promised[i]
  BY <1>1, <1>2 DEF SentAsPromised
<1>4. CASE reader.pc = "sending"
  <2>1. reader.key \in Commands
    BY <1>1 DEF KeysType, ReaderStates
  <2>0. <<reader.key>> \in Seq(Commands)
    BY <2>1
  <2>2. PICK one \in Seq(Commands) : one = <<reader.key>>
    BY <2>0
  <2>3. Issued = Append(s, reader.key)
    <3>1. Issued = (handled \o keys) \o one
      <4>1. Issued = handled \o keys \o one
        BY <1>4, <2>2 DEF Issued
      <4> QED  BY <4>1
    <3>2. Append(s, reader.key) = s \o one
      BY <2>1, <2>2, AppendIsConcat
    <3> QED  BY <1>2, <3>1, <3>2 DEF Sent
  <2>4. n < Len(pressed) /\ reader.key = Promised[n + 1]
    BY <1>1, <1>2, <1>4 DEF ReaderAt
  <2>5. n + 1 <= Len(Promised)
    <3>1. Len(pressed) \in Nat /\ Len(Promised) \in Nat /\ Len(pressed) <= Len(Promised)
      BY <1>1, PromisedIs DEF KeysType
    <3> QED  BY <1>2, <2>4, <3>1
  <2>6. PICK t \in Seq(Commands) : t = Issued /\ Len(t) = n + 1
    BY <1>2, <2>1, <2>3, AppendProperties
  <2>7. \A i \in 1..(n + 1) : t[i] = Promised[i]
    <3>1. t[n + 1] = reader.key /\ \A i \in 1..n : t[i] = s[i]
      BY <1>2, <2>1, <2>3, <2>6, AppendProperties
    <3> TAKE i \in 1..(n + 1)
    <3>2. CASE i = n + 1
      BY <2>4, <3>1, <3>2
    <3>3. CASE i # n + 1
      <4>1. i \in 1..n
        BY <3>3
      <4> QED  BY <1>3, <3>1, <4>1
    <3> QED  BY <3>2, <3>3
  <2>8. IsPrefix(t, Promised)
    BY <2>5, <2>6, <2>7, PrefixIs
  <2> QED  BY <1>4, <2>6, <2>8 DEF OneCommandPerKey
<1>5. CASE reader.pc # "sending"
  <2>1. Issued = s
    <3>1. handled \in Seq(Commands) /\ keys \in Seq(Commands)
      BY <1>1 DEF KeysType
    <3>2. Issued = (handled \o keys) \o <<>>
      BY <1>5 DEF Issued
    <3> QED  BY <1>2, <3>1, <3>2, ConcatEmptySeq DEF Sent
  <2>2. IsPrefix(s, Promised)
    BY <1>2, <1>3, PrefixIs
  <2>3. input = <<>> /\ reader.pc = "start" => n = Len(pressed)
    BY <1>1, <1>2, EndOfInput
  <2> QED  BY <1>2, <2>1, <2>2, <2>3 DEF OneCommandPerKey
<1> QED  BY <1>4, <1>5

THEOREM EachKeyItsCommand ==
    Spec => []OneCommandPerKey
<1>1. ViewInv => OneCommandPerKey
  BY CommandPerKey
<1> QED  BY <1>1, ViewInvariant, PTL

(* A scroll key moves what the screen shows by its distance, as far as     *)
(* there are rows (scroll, and the clamp in draw).                         *)
THEOREM KeysMoveTheWindow ==
    Spec => KeyMovesWindow
<1>1. ASSUME ViewInv, [Next]_vars
      PROVE  [ \A key \in Scrolling :
                 handled' = Append(handled, key) /\ settled /\ phase = "watch"
                     => TopRow' = Target(key) ]_vars
  <2> SUFFICES ASSUME NEW key \in Scrolling, handled' = Append(handled, key),
                      settled, phase = "watch"
               PROVE  TopRow' = Target(key)
    OBVIOUS
  <2>1. handled \in Seq(Commands) /\ keys \in Seq(Commands) /\ key \in Commands
    BY <1>1, TypeOKParts DEF ViewInv, KeysType, Commands
  <2>2. handled' # handled
    BY <2>1
  <2>3. Handle
    BY <1>1, <2>2 DEF Next, vars, Reader, Main, ReadByte, ReadLine, Send, ReadEOF, Leave,
                Hangup, Cancel, Resize, RowsChange, RescanEnds, Press
  <2>4. key = Head(keys)
    <3>1. PICK h \in Commands : h = Head(keys)
      BY <2>1, <2>3, HeadIsACommand DEF Handle
    <3>2. Append(handled, h) = Append(handled, key)
      BY <2>3, <3>1 DEF Handle
    <3>3. h = key
      BY <2>1, <3>2, AppendInjective
    <3> QED  BY <3>1, <3>3
  <2> QED  BY <1>1, <2>3, <2>4, WindowMoves
<1> QED  BY <1>1, ViewInvariant, PTL DEF Spec, KeyMovesWindow
=============================================================================
