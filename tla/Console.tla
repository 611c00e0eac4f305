------------------------------- MODULE Console -------------------------------
(***************************************************************************)
(* The console: keyboard.c, the keyboard half of irqHandle.c (BUF,         *)
(* wait_for_keyboard, keyboardHandle, read and write of the standard       *)
(* files), screen.c, printQ of kernel/lib.c, and programs that use them    *)
(* through the scan and print functions of lib/syscall.c.                  *)
(*                                                                         *)
(* Interrupts come in only while a program runs in user mode or in the     *)
(* hlt of wait_for_keyboard; everything else a system call does is one     *)
(* step.  Scheduling is reduced to what it means for readers: in user mode *)
(* the timer may pass the CPU on, unless intr_nesting is set.  Colours and *)
(* the cursor the hardware shows are left out.                             *)
(***************************************************************************)
EXTENDS Stdio

CONSTANTS
  MaxBuf,      \* the size of BUF, max_size
  Rows, Cols,  \* of the screen: 25 and 80
  TabLen,      \* 8
  Controls,    \* the characters below ' ' as a signed char: the control
               \* characters and the bytes from 0x80 on
  ScanCodes,   \* the scan codes the keyboard sends
  Programs     \* for each process, the sequence of its library calls

ASSUME ConsoleAssumption ==
  /\ MaxBuf \in Nat /\ {Rows, Cols, TabLen} \subseteq Nat \ {0}
  /\ Cols % TabLen = 0

Readers == DOMAIN Programs

VARIABLES
  BUF, buf_in, buf_out,
  intr_nesting,
  kernel,     \* "user"; in read of stdin "test", the loop's condition, or "halt"
  current,
  want,       \* the len of the current read
  todo,       \* what each process still has to do
  scan,       \* the local state of each process's scan function
  results,    \* what its steps have returned, <<>> for those that print
  screen,     \* video memory and cursor
  wild,       \* a character has been stored behind BUF
  taken,      \* history: the characters each process has read
  shown       \* history: the characters put on the screen

vars == <<BUF, buf_in, buf_out, intr_nesting, kernel, current, want, todo, scan,
          results, screen, wild, taken, shown>>

-----------------------------------------------------------------------------
(* screen.c and printQ. *)

Cells == 0 .. Rows * Cols - 1
Cleared == [cells |-> [c \in Cells |-> Space], x |-> 0, y |-> 0]

\* A cell behind the last row is not video memory that is shown.
Stored(s, ch) ==
  [s EXCEPT !.x = @ + 1,
            !.cells = [c \in Cells |-> IF c = s.y * Cols + s.x THEN ch ELSE @[c]]]

MovedPrintsAll(s, ch) ==
  CASE ch = "BS" -> [s EXCEPT !.x = IF @ > 0 THEN @ - 1 ELSE @]
    [] ch = "\t" -> [s EXCEPT !.x = ((@ + TabLen) \div TabLen) * TabLen]
    [] ch = "\r" -> [s EXCEPT !.x = 0]
    [] ch = "\n" -> [s EXCEPT !.x = 0, !.y = @ + 1]
    [] OTHER -> Stored(s, ch)
Moved(s, ch) ==
  CASE ch = "BS" -> [s EXCEPT !.x = IF @ > 0 THEN @ - 1 ELSE @]
    [] ch = "\t" -> [s EXCEPT !.x = ((@ + TabLen) \div TabLen) * TabLen]
    [] ch = "\r" -> [s EXCEPT !.x = 0]
    [] ch = "\n" -> [s EXCEPT !.x = 0, !.y = @ + 1]
    [] ch \notin Controls -> Stored(s, ch)
    [] OTHER -> s
screen_putLate(s, ch) ==
  LET moved == Moved(s, ch)
  IN  IF moved.x > Cols THEN [moved EXCEPT !.x = 0, !.y = @ + 1] ELSE moved
screen_put(s, ch) ==
  LET moved == Moved(s, ch)
  IN  IF moved.x >= Cols THEN [moved EXCEPT !.x = 0, !.y = @ + 1] ELSE moved

Written(s, text) ==
  LET on[n \in 0 .. Len(text)] ==
        IF n = 0 THEN s ELSE screen_put(on[n - 1], text[n])
  IN  on[Len(text)]

Show(text) ==
  /\ screen' = Written(screen, text)
  /\ shown' = shown \o text

printQ(format, args) == Printed(format, args)
ls_aux(names) ==
  FlattenSeq([i \in 1 .. Len(names) |-> printQ(<<"%", "s", "\t">>, <<names[i]>>)])
    \o printQ(<<"\n">>, <<>>)
cat_aux(data) ==
  FlattenSeq([i \in 1 .. Len(data) |-> printQ(<<"%", "c">>, <<data[i]>>)])
    \o printQ(<<"\n">>, <<>>)

-----------------------------------------------------------------------------
(* The library calls of a program, as steps. *)

\* The loop of scanf: conversions scan, other characters are printed.
ScanSteps(format) ==
  LET step(item) ==
        IF ~item.conv
        THEN <<[fn |-> "printf", format |-> <<"%", "c">>, args |-> <<[value |-> item.ch]>>]>>
        ELSE IF item.ch \in {"c", "d", "x", "s"} THEN <<[fn |-> "scan", kind |-> item.ch]>>
        ELSE <<>>
  IN  FlattenSeq([i \in 1 .. Len(Items(format)) |-> step(Items(format)[i])])

Steps(calls) ==
  FlattenSeq([i \in 1 .. Len(calls) |->
    IF calls[i].fn = "scanf" THEN ScanSteps(calls[i].format)
    ELSE IF calls[i].fn \in {"gets", "getchar"} THEN <<[fn |-> "scan", kind |-> calls[i].fn]>>
    ELSE <<calls[i]>>])

Code == [p \in Readers |-> Steps(Programs[p])]
AllSteps == UNION {{Code[p][i] : i \in DOMAIN Code[p]} : p \in Readers}

\* A rule of programs among them: no read of stdin has a negative len, which
\* read_aux would add to buf_out all the same.
ASSUME ProgramsAssumption ==
  /\ \A p \in Readers : Code[p] \in Seq(AllSteps)
  /\ \A step \in AllSteps :
       /\ step.fn \in {"scan", "read", "printf", "ls", "cat"}
       /\ step.fn = "scan" => step.kind \in {"c", "d", "x", "s", "gets", "getchar"}
       /\ step.fn = "read" => step.len \in Nat
       /\ step.fn = "printf" => step.format \in Seq(Characters)
       /\ step.fn = "ls" => step.args \in Seq(Seq(Characters))
       /\ step.fn = "cat" => step.args \in Seq(Characters)

(***************************************************************************)
(* What the compiler does not check: a conversion of printf gets what it   *)
(* asks for, a value or something a step before has read.                  *)
(***************************************************************************)
TypeOfResult(step) ==
  IF step.fn = "read" THEN "text"
  ELSE IF step.fn # "scan" THEN "none"
  ELSE IF step.kind \in {"d", "x"} THEN "number"
  ELSE IF step.kind \in {"s", "gets"} THEN "text"
  ELSE "character"
Values(type) ==
  IF type = "number" THEN 0 .. Modulus - 1
  ELSE IF type = "character" THEN Characters ELSE Seq(Characters)
Asked(ch) ==
  IF ch = "c" THEN "character" ELSE IF ch = "s" THEN "text" ELSE "number"

ASSUME ArgumentsAssumption ==
  \A p \in Readers : LET steps == Code[p] IN
    \A i \in DOMAIN steps : steps[i].fn = "printf" =>
      \A n \in DOMAIN Items(steps[i].format) :
        LET item == Items(steps[i].format)[n]
            arg == steps[i].args[item.arg]
        IN  item.conv /\ Takes(item.ch) =>
              /\ item.arg \in 1 .. Len(steps[i].args)
              /\ IF "result" \in DOMAIN arg
                 THEN /\ arg.result \in 1 .. i - 1
                      /\ TypeOfResult(steps[arg.result]) = Asked(item.ch)
                 ELSE arg.value \in Values(Asked(item.ch))

Init ==
  /\ BUF = [i \in 0 .. MaxBuf - 1 |-> "NUL"] /\ buf_in = 0 /\ buf_out = 0
  /\ intr_nesting = FALSE /\ kernel = "user" /\ current \in Readers /\ want = 0
  /\ todo = Code
  /\ scan = [p \in Readers |-> Start]
  /\ results = [p \in Readers |-> <<>>]
  /\ screen = Cleared
  /\ wild = FALSE
  /\ taken = [p \in Readers |-> <<>>] /\ shown = <<>>

-----------------------------------------------------------------------------
InUser == ~wild /\ kernel = "user"
Busy == todo[current] # <<>>
Step == Head(todo[current])

\* An argument is a value, or what the n-th step of the process has returned.
Value(arg) == IF "result" \in DOMAIN arg THEN results[current][arg.result] ELSE arg.value

\* printf: the whole text goes to the screen with one write_aux to stdout.
\* ls_aux and cat_aux print in the kernel.
PutText ==
  /\ InUser /\ Busy /\ Step.fn \in {"printf", "ls", "cat"}
  /\ Show(CASE Step.fn = "printf" ->
                 Printed(Step.format, [i \in 1 .. Len(Step.args) |-> Value(Step.args[i])])
            [] Step.fn = "ls" -> ls_aux(Step.args)
            [] Step.fn = "cat" -> cat_aux(Step.args))
  /\ todo' = [todo EXCEPT ![current] = Tail(@)]
  /\ results' = [results EXCEPT ![current] = Append(@, <<>>)]
  /\ UNCHANGED <<BUF, buf_in, buf_out, intr_nesting, kernel, current, want, scan,
                 wild, taken>>

\* read of stdin: a scan function asks for one character, read for `len'.
Read ==
  /\ InUser /\ Busy /\ Step.fn \in {"scan", "read"}
  /\ want' = IF Step.fn = "scan" THEN 1 ELSE Step.len
  /\ kernel' = "test"
  /\ UNCHANGED <<BUF, buf_in, buf_out, intr_nesting, current, todo, scan, results,
                 screen, wild, taken, shown>>

\* The condition of wait_for_keyboard(len - 1), and its sti and hlt, which are
\* inline and follow each other: no interrupt comes in between the two.
mustWaitForLess(len) == buf_out + (len - 1) > buf_in
mustWaitForMore(len) == buf_out + len >= buf_in
mustWait(len) == buf_out + (len - 1) >= buf_in

Wait ==
  /\ ~wild /\ kernel = "test" /\ mustWait(want)
  /\ intr_nesting' = TRUE /\ kernel' = "halt"
  /\ UNCHANGED <<BUF, buf_in, buf_out, current, want, todo, scan, results, screen,
                 wild, taken, shown>>

\* What the process makes of the text its read has returned.
Receive(text) ==
  LET fed == Feed(Step.kind, scan[current], Last(text))
      ended == Step.fn = "read" \/ fed.phase = "done"
      result == IF Step.fn = "read" THEN text ELSE Result(Step.kind, fed.text)
  IN  /\ scan' = [scan EXCEPT ![current] = IF ended THEN Start ELSE fed]
      /\ todo' = [todo EXCEPT ![current] = IF ended THEN Tail(@) ELSE @]
      /\ results' = [results EXCEPT ![current] = IF ended THEN Append(@, result) ELSE @]

\* The end of the wait, the copy from BUF and the return to the program.
Deliver ==
  LET text == [i \in 1 .. want |-> BUF[buf_out + i - 1]]
  IN  /\ ~wild /\ kernel = "test" /\ ~mustWait(want)
      /\ intr_nesting' = FALSE /\ kernel' = "user"
      /\ buf_out' = buf_out + want
      /\ taken' = [taken EXCEPT ![current] = @ \o text]
      /\ Receive(text)
      /\ UNCHANGED <<BUF, buf_in, current, want, screen, wild, shown>>

-----------------------------------------------------------------------------
(* Interrupts. *)

letter_code == <<30, 48, 46, 32, 18, 33, 34, 35, 23, 36, 37, 38, 50, 49, 24, 25, 16,
                 19, 31, 20, 22, 47, 17, 45, 21, 44>>
letters == <<"a", "b", "c", "d", "e", "f", "g", "h", "i", "j", "k", "l", "m", "n", "o",
             "p", "q", "r", "s", "t", "u", "v", "w", "x", "y", "z">>
num_code == <<11, 2, 3, 4, 5, 6, 7, 8, 9, 10>>

press_key(scan_code) ==
  CASE Contains(letter_code, scan_code) -> letters[SelectInSeq(letter_code, LAMBDA c : c = scan_code)]
    [] Contains(num_code, scan_code) -> Digits[SelectInSeq(num_code, LAMBDA c : c = scan_code)]
    [] scan_code = 28 -> "\n"
    [] scan_code = 57 -> Space
    [] OTHER -> "NUL"

ASSUME KeysAssumption == \A code \in ScanCodes : press_key(code) \in Characters
ASSUME ControlsAssumption ==
  /\ {"BS", "\t", "\r", "\n", "NUL"} \subseteq Controls
  /\ Controls \cap ({Space, "-", "%"} \cup ToSet(letters) \cup ToSet(Digits)) = {}

Interruptible == ~wild /\ kernel \in {"user", "halt"}
Woken == IF kernel = "halt" THEN "test" ELSE kernel

\* keyboardHandle: the echo, and the character's place in BUF.
Keyboard(scan_code) ==
  LET ch == press_key(scan_code)
  IN  /\ Interruptible
      /\ kernel' = Woken
      /\ IF ch = "NUL" THEN UNCHANGED <<BUF, buf_in, screen, shown, wild>>
         ELSE /\ Show(<<ch>>)
              /\ IF buf_in < MaxBuf
                 THEN BUF' = [BUF EXCEPT ![buf_in] = ch] /\ UNCHANGED wild
                 ELSE wild' = TRUE /\ UNCHANGED BUF
              /\ buf_in' = buf_in + 1
      /\ UNCHANGED <<buf_out, intr_nesting, current, want, todo, scan, results, taken>>

\* timerHandle.
Timer ==
  /\ Interruptible
  /\ kernel' = Woken
  /\ IF intr_nesting THEN UNCHANGED current ELSE current' \in Readers
  /\ UNCHANGED <<BUF, buf_in, buf_out, intr_nesting, want, todo, scan, results, screen,
                 wild, taken, shown>>

WaitLoop == Wait \/ Deliver

Next ==
  \/ PutText \/ Read \/ WaitLoop
  \/ Timer \/ \E code \in ScanCodes : Keyboard(code)

(***************************************************************************)
(* The kernel's own code goes on while interrupts are off, and the clock   *)
(* ticks.  Nobody has to type.                                             *)
(***************************************************************************)
Spec == Init /\ [][Next]_vars /\ WF_vars(WaitLoop) /\ WF_vars(Timer)

-----------------------------------------------------------------------------
(* Properties. *)

\* Type correctness: the cursor never leaves its line, the indices into BUF
\* never cross, and intr_nesting, which stops the clock for everybody, is never
\* set while a program runs.
TypeOK ==
  /\ 0 <= buf_out /\ buf_out <= buf_in /\ buf_in <= MaxBuf + 1
  /\ wild = (buf_in > MaxBuf)
  /\ kernel \in {"user", "test", "halt"} /\ current \in Readers
  /\ kernel = "user" => ~intr_nesting
  /\ kernel = "halt" => intr_nesting
  /\ screen.x \in 0 .. Cols - 1 /\ screen.y \in Nat
  /\ \A p \in Readers : scan[p].phase \in {"skip", "body"}

Queue == INSTANCE InputQueue WITH
  Chars <- {press_key(code) : code \in ScanCodes}, Capacity <- MaxBuf,
  queue <- [i \in 1 .. (IF wild THEN MaxBuf ELSE buf_in) - buf_out |-> BUF[buf_out + i - 1]],
  total <- IF wild THEN MaxBuf ELSE buf_in, broken <- wild

\* Nothing typed is lost, doubled or reordered between the keyboard interrupt
\* and the reads of all processes (keyboardHandle, wait_for_keyboard, read_aux),
\* for the first MaxBuf characters since the start, however many of them have
\* been read; the next one is stored behind BUF.
ReadsInOrder == Queue!Spec

\* The n-th of a set of numbers.
Nth(S, n) == CHOOSE i \in S : Cardinality({j \in S : j <= i}) = n

\* The runs of other characters that a blank ends, in order.
Ends(text, i) == {j \in i .. Len(text) : Blank(text[j])}
Starts(text) ==
  {i \in 1 .. Len(text) : /\ ~Blank(text[i]) /\ (i = 1 \/ Blank(text[i - 1]))
                         /\ Ends(text, i) # {}}
Tokens(text) ==
  [n \in 1 .. Cardinality(Starts(text)) |->
     LET i == Nth(Starts(text), n) IN SubSeq(text, i, Min(Ends(text, i)) - 1)]

\* The number a numeral denotes.
Denoted(kind, numeral) ==
  LET value[n \in 0 .. Len(numeral)] ==
        IF n = 0 THEN 0 ELSE value[n - 1] * Base(kind) + DigitValue(numeral[n])
  IN  value[Len(numeral)]

\* The steps of a process that read.
Reads == [p \in Readers |-> {i \in 1 .. Len(Code[p]) : Code[p][i].fn \in {"scan", "read"}}]

\* Where a process asks for words and numbers and gets words and numerals, what
\* it reads n-th is the n-th token of its characters, however they came in and
\* whoever ran between them (scan_string, scan_dec, scan_hex).
WordsAreTokens ==
  \A p \in Readers :
    LET tokens == Tokens(taken[p])
        read(n) == Nth(Reads[p], n)
        kind(n) == IF Code[p][read(n)].fn = "scan" THEN Code[p][read(n)].kind ELSE "read"
    IN  \A n \in 1 .. Len(tokens) :
          /\ n <= Cardinality(Reads[p])
          /\ \A j \in 1 .. n : /\ kind(j) \in {"s", "d", "x"}
                               /\ \A c \in 1 .. Len(tokens[j]) : InBody(kind(j), tokens[j][c])
          => /\ Len(results[p]) >= read(n)
             /\ results[p][read(n)] = IF kind(n) = "s" THEN tokens[n]
                                     ELSE Denoted(kind(n), tokens[n]) % Modulus

ScanText(kind, text) ==
  LET next(state, ch) == IF state.phase = "done" THEN state ELSE Feed(kind, state, ch)
      scanned[n \in 0 .. Len(text)] ==
        IF n = 0 THEN Start ELSE next(scanned[n - 1], text[n])
  IN  Result(kind, scanned[Len(text)].text)

\* What printf writes for a number some process has read, scanf reads back: %x
\* for all, %d for those that are not negative as an int; of a negative one %d
\* prints `-' and the absolute value, and scanf takes the `-' for the number 0
\* (print_dec, print_hex, scan_dec, scan_hex).
NumbersRoundTrip ==
  \A p \in Readers : \A n \in 1 .. Len(results[p]) :
    TypeOfResult(Code[p][n]) = "number" =>
      LET v == results[p][n]
          dec == Append(print_dec(v), Space)
      IN  /\ ScanText("x", Append(print_hex(v), Space)) = v
          /\ ScanText("d", dec) = IF Signed(v) >= 0 THEN v ELSE 0
          /\ Signed(v) < 0 => dec[1] = "-" /\ ScanText("d", Tail(dec)) = -Signed(v)

(***************************************************************************)
(* A text as the rows of its finished lines, each filled up with blanks,   *)
(* and its last line, with blanks for the tabs.                            *)
(***************************************************************************)
Blanks(n) == [i \in 1 .. n |-> Space]
Filled(line) == line \o Blanks(Cols - (Len(line) % Cols))
Laid(page, ch) ==
  IF ch = "\n" THEN [rows |-> page.rows \o Filled(page.line), line |-> <<>>]
  ELSE IF ch = "\t"
  THEN [page EXCEPT !.line = @ \o Blanks(TabLen - (Len(@) % TabLen))]
  ELSE IF ch \in Controls THEN page
  ELSE [page EXCEPT !.line = Append(@, ch)]
Plain(text) == \A n \in 1 .. Len(text) : text[n] \notin {"BS", "\r"}
Layout(text) ==
  LET page[n \in 0 .. Len(text)] ==
        IF n = 0 THEN [rows |-> <<>>, line |-> <<>>] ELSE Laid(page[n - 1], text[n])
  IN  page[Len(text)]

\* The screen shows the first Rows rows of everything that echoes and prints
\* have put on it, in that order, each line broken at the last column; what
\* follows is lost: nothing scrolls.  Other control characters and the bytes
\* from 0x80 on, which a file may hold, take no cell; of texts with a backspace
\* or a carriage return, which overwrite, nothing is said (screen_put,
\* write_aux, cat_aux, printQ).
TextOnScreen ==
  LET page == Layout(shown)
      layout == page.rows \o page.line
  IN  Plain(shown) =>
        \A c \in Cells : screen.cells[c] = IF c < Len(layout) THEN layout[c + 1] ELSE Space

\* A reader for whom enough has been typed gets it, unless BUF overflows first:
\* the wake-up is lost neither before the hlt nor to another interrupt
\* (wait_for_keyboard).
ReaderServed ==
  (kernel # "user" /\ buf_out + want <= buf_in) ~> (kernel = "user" \/ wild)
=============================================================================
