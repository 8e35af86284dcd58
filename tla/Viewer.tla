------------------------------- MODULE Viewer -------------------------------
(***************************************************************************)
(* The keyboard of the finished TUI (src/tui.go): WaitExit and its reader  *)
(* goroutine, readKey and parseEscape (raw mode, Windows), lineCommand     *)
(* (line mode, unix), the channel between them, scroll, and the part of    *)
(* the table that draw shows while rows come and go, the terminal is       *)
(* resized and rescans run.                                                *)
(*                                                                         *)
(* What is typed is a sequence of bytes: a key that is not a letter sends  *)
(* several, and the reader blocks for each.                                *)
(***************************************************************************)
EXTENDS Integers, Sequences, SequencesExt

CONSTANTS
    Keyboard,            \* keys: their bytes, and the command of each in raw and line mode
    Modes,               \* what enableRawMode may return: TRUE, FALSE or both
    Heights,             \* numbers of lines the terminal may have
    MaxHosts,            \* bound on the number of rows
    MaxKeys,             \* bound on the keys pressed
    KeyQueue             \* capacity of the channel `keys` (8)

Scrolling == {"up", "down", "pageup", "pagedown", "top", "bottom"}
Commands == {"none", "exit", "csv", "json", "txt", "rescan", "mac", "ping", "scan", "arp"} \cup Scrolling

ASSUME ViewerAssumption ==
    /\ Modes \subseteq BOOLEAN
    /\ Heights \subseteq Nat /\ {MaxHosts, MaxKeys} \subseteq Nat
    /\ KeyQueue \in Nat \ {0}

Bytes == {"LF"} \cup UNION {ToSet(k.bytes) : k \in Keyboard}

VARIABLES
    raw,                 \* what enableRawMode returned
    input,               \* bytes typed and not read yet
    eof,                 \* the terminal has been closed
    cancelled,           \* Ctrl-C
    reader,              \* the reader goroutine
    keys,                \* the channel
    main,                \* WaitExit: "waiting" or "exited"
    phase, hosts,        \* t.phase, len(t.hosts)
    height,              \* the terminal's lines
    scrollOff,           \* t.scrollOff
    pressed, handled,    \* history: the keys pressed and the commands carried out
    starts,              \* history: bytes typed before each key, and in all
    settled              \* history: no row or line has come or gone since a scroll key

typed == <<raw, input, eof, cancelled, pressed, starts>>
view  == <<phase, hosts, height, scrollOff, settled>>
vars  == <<typed, reader, keys, main, view, handled>>

-----------------------------------------------------------------------------
(* From bytes to commands.                                                 *)

Digits == {"0", "1", "2", "3", "4", "5", "6", "7", "8", "9"}
Letters == {"A", "B", "C", "D", "E", "F", "G", "H", "I", "J", "K", "L", "M",
            "N", "O", "P", "Q", "R", "S", "T", "U", "V", "W", "X", "Y", "Z"}

Letter == [q |-> "exit", Q |-> "exit", c |-> "csv", C |-> "csv", j |-> "json", J |-> "json",
           t |-> "txt", T |-> "txt", r |-> "rescan", R |-> "rescan", m |-> "mac", M |-> "mac",
           p |-> "ping", P |-> "ping", s |-> "scan", S |-> "scan", a |-> "arp", A |-> "arp"]
Motion == [b \in {"k", "g", "G", " ", "f", "b"} |->
             CASE b = "k" -> "up" [] b = "g" -> "top" [] b = "G" -> "bottom"
               [] b \in {" ", "f"} -> "pagedown" [] b = "b" -> "pageup"]
Final  == [A |-> "up", B |-> "down", H |-> "top", F |-> "bottom"]
Number == [d \in {"1", "4", "5", "6", "7", "8"} |->
             CASE d = "5" -> "pageup" [] d = "6" -> "pagedown"
               [] d \in {"1", "7"} -> "top" [] d \in {"4", "8"} -> "bottom"]

Lookup(table, b) == IF b \in DOMAIN table THEN table[b] ELSE "none"

(* The reader's places: at the start of a key, inside an escape sequence,  *)
(* at the send, and gone (the channel is closed).                          *)
Await(pc, lead) == [pc |-> pc, lead |-> lead, key |-> "none"]
Decoded(key) == [pc |-> "sending", lead |-> "", key |-> key]
ReaderStates == [pc : {"start", "escape", "bracket", "digits", "sending", "closed"},
                 lead : Bytes \cup {""}, key : Commands]

readKey(b) == IF b = "ESC" THEN Await("escape", "")
              ELSE Decoded(IF b \in DOMAIN Letter THEN Letter[b] ELSE Lookup(Motion, b))

AfterEscape(b) == IF b \in {"[", "O"} THEN Await("bracket", "") ELSE Decoded("none")

(* Seeded fault: every unknown sequence is read to its terminator.         *)
FaultyAfterBracket(b) == IF b \in DOMAIN Final THEN Decoded(Final[b]) ELSE Await("digits", b)

AfterBracket(b) == IF b \in Digits THEN Await("digits", b) ELSE Decoded(Lookup(Final, b))

(* Seeded fault: the byte after the digit is taken for the terminator.     *)
FaultyAfterDigit(d, b) == Decoded(Lookup(Number, d))

Terminators == Letters \cup {"~"}
AfterDigit(d, b) == IF b \in Terminators THEN Decoded(Lookup(Number, d)) ELSE Await("digits", d)

lineCommand(line) == IF line = <<>> THEN "none" ELSE Lookup(Letter, Head(line))

(* The keys of a keyboard: a character; Esc alone; or an escape sequence   *)
(* of two or three bytes, or with a number, parameters and a terminator.   *)
Character(b, command) ==
    /\ Len(b) = 1 /\ b[1] # "ESC"
    /\ command = IF b[1] \in DOMAIN Letter THEN Letter[b[1]] ELSE Lookup(Motion, b[1])
Alone(b, command) == b = <<"ESC">> /\ command = "none"
Prefixed(b, command) ==
    Len(b) = 2 /\ b[1] = "ESC" /\ b[2] \notin {"[", "O"} /\ command = "none"
Sequence(b, command) ==
    /\ Len(b) >= 3 /\ b[1] = "ESC" /\ b[2] \in {"[", "O"}
    /\ \/ Len(b) = 3 /\ b[3] \notin Digits /\ command = Lookup(Final, b[3])
       \/ /\ Len(b) > 3 /\ b[3] \in Digits /\ command = Lookup(Number, b[3])
          /\ \A i \in 4..Len(b) : b[i] \in Terminators <=> i = Len(b)

ASSUME KeyboardAssumption ==
    \A k \in Keyboard :
       /\ k.bytes \in Seq(Bytes) /\ "LF" \notin ToSet(k.bytes)
       /\ k.raw \in Commands /\ k.line \in Commands
       /\ \/ Character(k.bytes, k.raw) \/ Alone(k.bytes, k.raw)
          \/ Prefixed(k.bytes, k.raw) \/ Sequence(k.bytes, k.raw)
       /\ k.line = Lookup(Letter, k.bytes[1])

-----------------------------------------------------------------------------
(* The window.                                                             *)

tuiMaxHostRows == IF height - 7 > 1 THEN height - 7 ELSE 1
MaxOff == IF hosts > tuiMaxHostRows THEN hosts - tuiMaxHostRows ELSE 0

(* Seeded faults: a bound of the offset is forgotten.                      *)
FaultyNotBelow(off) == off
FaultyNotAbove(off) == off

NotBelow(off) == IF off < 0 THEN 0 ELSE off
NotAbove(off) == IF off > MaxOff THEN MaxOff ELSE off

(* scroll.                                                                 *)
Scrolled(key) ==
    NotBelow(NotAbove(
        CASE key = "up"       -> scrollOff - 1
          [] key = "down"     -> scrollOff + 1
          [] key = "pageup"   -> scrollOff - tuiMaxHostRows
          [] key = "pagedown" -> scrollOff + tuiMaxHostRows
          [] key = "top"      -> 0
          [] key = "bottom"   -> MaxOff))

(* The row at the top of the screen, and how many are shown: draw clamps   *)
(* the offset it finds to the rows and lines it finds, and shows the first *)
(* rows while a scan runs.                                                 *)
TopRow == IF phase = "watch" /\ hosts > tuiMaxHostRows
          THEN LET off == IF scrollOff > MaxOff THEN MaxOff ELSE scrollOff
               IN  IF off < 0 THEN 0 ELSE off
          ELSE 0
Shown == IF hosts > tuiMaxHostRows THEN tuiMaxHostRows ELSE hosts

Init ==
    /\ raw \in Modes
    /\ input = <<>> /\ eof = FALSE /\ cancelled = FALSE
    /\ reader = Await("start", "") /\ keys = <<>>
    /\ main = "waiting"
    /\ phase = "watch" /\ hosts \in 0..MaxHosts /\ height \in Heights
    /\ scrollOff = 0
    /\ pressed = <<>> /\ handled = <<>> /\ starts = <<0>> /\ settled = TRUE

-----------------------------------------------------------------------------
(* The user and the terminal.                                              *)

(* In line mode the terminal hands over whole lines: a key, then Enter.    *)
Typing(k) == IF raw THEN k.bytes ELSE Append(k.bytes, "LF")

Press(k) ==
    /\ ~eof /\ Len(pressed) < MaxKeys
    /\ input' = input \o Typing(k)
    /\ pressed' = Append(pressed, k)
    /\ starts' = Append(starts, starts[Len(starts)] + Len(Typing(k)))
    /\ UNCHANGED <<raw, eof, cancelled, reader, keys, main, view, handled>>

Hangup ==
    /\ ~eof
    /\ eof' = TRUE
    /\ UNCHANGED <<raw, input, cancelled, pressed, starts, reader, keys, main, view, handled>>

Cancel ==
    /\ ~cancelled
    /\ cancelled' = TRUE
    /\ UNCHANGED <<raw, input, eof, pressed, starts, reader, keys, main, view, handled>>

Resize ==
    /\ height' \in Heights \ {height}
    /\ settled' = FALSE
    /\ UNCHANGED <<typed, reader, keys, main, phase, hosts, scrollOff, handled>>

-----------------------------------------------------------------------------
(* The reader goroutine.                                                   *)

ReadByte ==
    /\ raw /\ input # <<>>
    /\ LET b == Head(input)
       IN reader' = CASE reader.pc = "start"   -> readKey(b)
                      [] reader.pc = "escape"  -> AfterEscape(b)
                      [] reader.pc = "bracket" -> AfterBracket(b)
                      [] reader.pc = "digits"  -> AfterDigit(reader.lead, b)
                      [] OTHER -> reader
    /\ reader.pc \notin {"sending", "closed"}
    /\ input' = Tail(input)
    /\ UNCHANGED <<raw, eof, cancelled, pressed, starts, keys, main, view, handled>>

ReadLine ==
    /\ ~raw /\ reader.pc = "start" /\ input # <<>>
    /\ LET end == CHOOSE n \in DOMAIN input : /\ input[n] = "LF"
                                              /\ \A m \in 1..(n - 1) : input[m] # "LF"
       IN  /\ reader' = Decoded(lineCommand(SubSeq(input, 1, end - 1)))
           /\ input' = SubSeq(input, end + 1, Len(input))
    /\ UNCHANGED <<raw, eof, cancelled, pressed, starts, keys, main, view, handled>>

Send ==
    /\ reader.pc = "sending" /\ Len(keys) < KeyQueue
    /\ keys' = Append(keys, reader.key)
    /\ reader' = Await("start", "")
    /\ UNCHANGED <<typed, main, view, handled>>

(* The end of the input: readKey fails wherever it is; ReadString hands    *)
(* over the empty line first, and sends before it returns.                 *)
ReadEOF ==
    /\ eof /\ input = <<>>
    /\ reader.pc \notin {"sending", "closed"}
    /\ raw \/ Len(keys) < KeyQueue
    /\ keys' = IF raw THEN keys ELSE Append(keys, lineCommand(<<>>))
    /\ reader' = Await("closed", "")
    /\ UNCHANGED <<typed, main, view, handled>>

-----------------------------------------------------------------------------
(* WaitExit's loop.                                                        *)

Handle ==
    /\ main = "waiting" /\ keys # <<>>
    /\ LET key == Head(keys)
       IN  /\ handled' = Append(handled, key)
           /\ main' = IF key = "exit" THEN "exited" ELSE main
           /\ phase' = IF key = "rescan" THEN "scanning" ELSE phase
           /\ IF key \in Scrolling
              THEN scrollOff' = Scrolled(key) /\ settled' = TRUE
              ELSE UNCHANGED <<scrollOff, settled>>
    /\ keys' = Tail(keys)
    /\ UNCHANGED <<typed, reader, hosts, height>>

(* ctx.Done(), or the channel is closed and drained.                       *)
Leave ==
    /\ main = "waiting"
    /\ cancelled \/ (reader.pc = "closed" /\ keys = <<>>)
    /\ main' = "exited"
    /\ UNCHANGED <<typed, reader, keys, view, handled>>

-----------------------------------------------------------------------------
(* The other goroutines: sweeps and discovery add and remove rows, a scan  *)
(* adds them; applyRescanResults replaces them all.                        *)
RowsChange ==
    /\ hosts' \in (0..MaxHosts) \ {hosts}
    /\ settled' = FALSE
    /\ UNCHANGED <<typed, reader, keys, main, phase, height, scrollOff, handled>>

RescanEnds ==
    /\ phase = "scanning"
    /\ phase' = "watch"
    /\ hosts' \in 0..MaxHosts
    /\ settled' = (settled /\ hosts' = hosts)
    /\ UNCHANGED <<typed, reader, keys, main, height, scrollOff, handled>>

Reader == ReadByte \/ ReadLine \/ Send \/ ReadEOF
Main == Handle \/ Leave

(* When WaitExit returns the program ends.                                 *)
Next ==
    \/ /\ main = "waiting"
       /\ \/ Reader \/ Main \/ Hangup \/ Cancel \/ Resize \/ RowsChange \/ RescanEnds
          \/ \E k \in Keyboard : Press(k)
    \/ main = "exited" /\ UNCHANGED vars

Spec == Init /\ [][Next]_vars

(* The two goroutines run; nothing is assumed of the user.                 *)
FairSpec == Spec /\ WF_vars(Reader /\ main = "waiting") /\ WF_vars(Main)

-----------------------------------------------------------------------------
(* Properties.                                                             *)

(* Types; the channel's capacity; and what draw slices out of the rows,    *)
(* hosts[TopRow : TopRow + Shown], lies within them whatever has come or   *)
(* gone since the offset was set.                                          *)
TypeOK ==
    /\ {raw, eof, cancelled, settled} \subseteq BOOLEAN
    /\ reader \in ReaderStates
    /\ input \in Seq(Bytes) /\ pressed \in Seq(Keyboard) /\ starts \in Seq(Nat)
    /\ keys \in Seq(Commands) /\ Len(keys) <= KeyQueue /\ handled \in Seq(Commands)
    /\ main \in {"waiting", "exited"} /\ phase \in {"watch", "scanning"}
    /\ hosts \in 0..MaxHosts /\ height \in Heights
    /\ scrollOff \in 0..MaxHosts
    /\ TopRow >= 0 /\ TopRow + Shown <= hosts

(* What has become of the keys: carried out, in the channel, at the send.  *)
Issued == handled \o keys \o (IF reader.pc = "sending" THEN <<reader.key>> ELSE <<>>)

(* What they should become; the end of the input in line mode counts as an *)
(* empty line.                                                             *)
Promised == [i \in DOMAIN pressed |-> IF raw THEN pressed[i].raw ELSE pressed[i].line]
            \o (IF eof /\ ~raw THEN <<"none">> ELSE <<>>)

(* parseEscape waits for a second byte, so in raw mode Esc alone takes its *)
(* next byte for the rest of a sequence.                                   *)
IsEsc(k) == k.bytes = <<"ESC">>
EscPressed == raw /\ \E i \in DOMAIN pressed : IsEsc(pressed[i])

(* Each key pressed becomes exactly one command, its own, in the order the *)
(* keys were pressed: no byte of a sequence leaks into the next key, none  *)
(* of the next key is swallowed, until Esc alone is pressed in raw mode.   *)
OneCommandPerKey ==
    ~EscPressed =>
        /\ IsPrefix(Issued, Promised)
        /\ input = <<>> /\ reader.pc = "start" => Len(Issued) = Len(pressed)

(* What makes these inductive.  After a scroll key, and until rows or      *)
(* lines change, the offset lies within the rows.                          *)
OffsetInRows == settled => scrollOff <= MaxOff

(* The bytes in the input are those of the keys that the reader has not    *)
(* read, and of the key it is at, from its place on.                       *)
read == starts[Len(starts)] - Len(input)

InputInStep ==
    /\ Len(starts) = Len(pressed) + 1 /\ starts[1] = 0
    /\ \A i, j \in DOMAIN starts : i < j => starts[i] < starts[j]
    /\ \A i \in DOMAIN pressed :
         /\ starts[i + 1] = starts[i] + Len(Typing(pressed[i]))
         /\ \A m \in DOMAIN Typing(pressed[i]) :
              starts[i] + m > read => input[starts[i] + m - read] = Typing(pressed[i])[m]

Sent == handled \o keys

(* The reader is at the start of a key whose predecessors have all been    *)
(* sent, inside a key at the byte its state stands for, or has its command.*)
ReaderInStep ==
    LET n == Len(Sent)
        At(m) == n < Len(pressed) /\ raw /\ read = starts[n + 1] + m /\ m < Len(pressed[n + 1].bytes)
        b == pressed[n + 1].bytes
    IN /\ reader.pc = "start" => n <= Len(pressed) /\ read = starts[n + 1]
       /\ reader.pc = "escape" => At(1) /\ b[1] = "ESC"
       /\ reader.pc = "bracket" => At(2) /\ b[1] = "ESC" /\ b[2] \in {"[", "O"}
       /\ reader.pc = "digits" => \E m \in 3..Len(b) :
            At(m) /\ b[1] = "ESC" /\ b[2] \in {"[", "O"} /\ b[3] = reader.lead /\ b[3] \in Digits
       /\ reader.pc = "sending" =>
            n < Len(pressed) /\ read = starts[n + 2] /\ reader.key = Promised[n + 1]
       /\ reader.pc = "closed" => eof /\ n = Len(Promised)

SentAsPromised ==
    Len(Sent) <= Len(Promised) /\ \A i \in DOMAIN Sent : Sent[i] = Promised[i]

(* The inductive invariant of the proofs.                                  *)
ViewInv ==
    /\ TypeOK
    /\ OffsetInRows
    /\ InputInStep
    /\ ~EscPressed => ReaderInStep /\ SentAsPromised

(* A quit key has been pressed that the reader is bound to see: in raw     *)
(* mode, after each Esc alone there was another key before it.  That key's *)
(* first byte is the one Esc takes; were it [ or O, or did another Esc     *)
(* follow inside that key, more might be taken.                            *)
QuitPressed ==
    \E i \in DOMAIN pressed :
       /\ Promised[i] = "exit"
       /\ raw => \A j \in 1..(i - 1) : IsEsc(pressed[j]) =>
                   LET taken == pressed[j + 1].bytes
                   IN  j + 1 < i /\ Head(taken) \notin {"[", "O"} /\ "ESC" \notin ToSet(Tail(taken))

(* A closed terminal and Ctrl-C each end WaitExit, and so does a quit key  *)
(* whatever was typed before it, but for Esc alone as the last of that:    *)
(* Esc takes one byte of what follows, and the reader is in step with the  *)
(* keys again by the time of the quit key.                                 *)
QuitAnswered == (QuitPressed \/ eof \/ cancelled) ~> main = "exited"

(* Where a key should move the top row of the window.                      *)
Target(key) ==
    LET to(row) == CHOOSE r \in 0..MaxOff :      \* the nearest one there is
                      \A s \in 0..MaxOff : (r - row) * (r - row) <= (s - row) * (s - row)
    IN CASE key = "up" -> to(TopRow - 1)                  [] key = "down" -> to(TopRow + 1)
         [] key = "pageup" -> to(TopRow - tuiMaxHostRows) [] key = "pagedown" -> to(TopRow + tuiMaxHostRows)
         [] key = "top" -> 0                              [] key = "bottom" -> MaxOff

(* A scroll key moves what is on the screen by exactly its distance, as    *)
(* far as there are rows: keys pressed at an end of the list leave nothing *)
(* to be undone.  Excepted are the first key after rows or lines have      *)
(* changed, which starts from the old offset, and scans, which show the    *)
(* first rows.                                                             *)
KeyMovesWindow ==
    [][ \A key \in Scrolling :
          handled' = Append(handled, key) /\ settled /\ phase = "watch"
              => TopRow' = Target(key) ]_vars
=============================================================================
