-------------------------------- MODULE Stdio --------------------------------
(***************************************************************************)
(* The conversions of the user library, lib/syscall.c, which kernel/lib.c  *)
(* repeats for printk and printQ: what a format and its arguments print,   *)
(* and what the scan functions make of the characters they are fed.        *)
(*                                                                         *)
(* A character is a string of length 1, "BS" the backspace.  A text is a   *)
(* sequence of characters.  A format does not end within a conversion: the *)
(* code would go on behind the format's end.                               *)
(***************************************************************************)
EXTENDS Integers, SequencesExt

CONSTANTS
  Width,      \* the bits of an int
  Characters

ASSUME WidthAssumption == Width \in Nat \ {0}

\* 2 ^ Width, without the operator the provers know nothing of.
Modulus ==
  LET power[n \in 0 .. Width] == IF n = 0 THEN 1 ELSE 2 * power[n - 1]
  IN  power[Width]
Signed(n) == IF n < Modulus \div 2 THEN n ELSE n - Modulus

Space == " "
Digits == <<"0", "1", "2", "3", "4", "5", "6", "7", "8", "9", "a", "b", "c", "d", "e", "f">>

ASSUME CharactersAssumption ==
  {Space, "\n", "\t", "-", "%", "s"} \cup ToSet(Digits) \subseteq Characters

IsDigit(ch, base) == \E n \in 1 .. base : Digits[n] = ch
DigitValue(ch) == (CHOOSE n \in 1 .. 16 : Digits[n] = ch) - 1

-----------------------------------------------------------------------------
(* Printing. *)

Numeral(integer, base) ==
  LET f[n \in 0 .. integer] ==
        (IF n \div base > 0 THEN f[n \div base] ELSE <<>>) \o <<Digits[(n % base) + 1]>>
  IN  f[integer]

\* The smallest int, which has no negative, is a string of its own.
print_decUnsigned(arg) == Numeral(arg, 10)
print_dec(arg) ==
  IF Signed(arg) = -(Modulus \div 2) THEN <<"-">> \o Numeral(Modulus \div 2, 10)
  ELSE IF Signed(arg) < 0 THEN <<"-">> \o Numeral(-Signed(arg), 10)
  ELSE Numeral(arg, 10)
print_hex(arg) == Numeral(arg, 16)

(***************************************************************************)
(* A format as its literals and conversions, each with the place of the    *)
(* argument it would take; blanks behind a `%' are skipped.                *)
(***************************************************************************)
Takes(ch) == ch \in {"c", "d", "x", "X", "s"}

Parse(state, ch) ==
  LET item(conv) == [conv |-> conv, ch |-> ch, arg |-> state.used + 1]
  IN  IF state.percent
      THEN IF ch = Space THEN state
           ELSE [items |-> Append(state.items, item(TRUE)), percent |-> FALSE,
                 used |-> IF Takes(ch) THEN state.used + 1 ELSE state.used]
      ELSE IF ch = "%" THEN [state EXCEPT !.percent = TRUE]
      ELSE [state EXCEPT !.items = Append(@, item(FALSE))]

Items(format) ==
  LET state[n \in 0 .. Len(format)] ==
        IF n = 0 THEN [items |-> <<>>, percent |-> FALSE, used |-> 0]
        ELSE Parse(state[n - 1], format[n])
  IN  state[Len(format)].items

Out(item, args) ==
  IF ~item.conv THEN <<item.ch>>
  ELSE IF item.ch = "c" THEN <<args[item.arg]>>
  ELSE IF item.ch = "d" THEN print_dec(args[item.arg])
  ELSE IF item.ch \in {"x", "X"} THEN print_hex(args[item.arg])
  ELSE IF item.ch = "s" THEN args[item.arg]
  ELSE IF item.ch = "%" THEN <<"%">> ELSE <<>>

\* The loop of printf, printk and printQ: `args' is stack_point.
Printed(format, args) ==
  FlattenSeq([i \in 1 .. Len(Items(format)) |-> Out(Items(format)[i], args)])

-----------------------------------------------------------------------------
(***************************************************************************)
(* Scanning.  Every scan function reads one character at a time; between   *)
(* two of them its state is the characters of the body it has so far.      *)
(***************************************************************************)
Blank(ch) == ch \in {"\n", Space}
Skips(kind) == kind \notin {"gets", "getchar"}
InBody(kind, ch) ==
  CASE kind = "s" -> ~Blank(ch)
    [] kind = "d" -> IsDigit(ch, 10)
    [] kind = "x" -> IsDigit(ch, 16)
    [] kind = "gets" -> ch # "\n"

Start == [phase |-> "skip", text |-> <<>>]

\* One character for scan_ch, scan_string, scan_dec, scan_hex, gets or getchar.
\* The character that ends a body is consumed, whatever it is.
FeedKeepsBlanks(kind, scan, ch) ==
  IF kind \in {"c", "getchar"} THEN [phase |-> "done", text |-> <<ch>>]
  ELSE IF InBody(kind, ch) THEN [phase |-> "body", text |-> Append(scan.text, ch)]
  ELSE [scan EXCEPT !.phase = "done"]
Feed(kind, scan, ch) ==
  IF scan.phase = "skip" /\ Skips(kind) /\ Blank(ch) THEN scan
  ELSE IF kind \in {"c", "getchar"} THEN [phase |-> "done", text |-> <<ch>>]
  ELSE IF InBody(kind, ch) THEN [phase |-> "body", text |-> Append(scan.text, ch)]
  ELSE [scan EXCEPT !.phase = "done"]

\* num = num*base + digit, as a uint32_t; a text is stored as it is.
Base(kind) == IF kind = "d" THEN 10 ELSE 16
Number(base, text) ==
  LET num[n \in 0 .. Len(text)] ==
        IF n = 0 THEN 0 ELSE (num[n - 1] * base + DigitValue(text[n])) % Modulus
  IN  num[Len(text)]
Result(kind, text) ==
  IF kind \in {"d", "x"} THEN Number(Base(kind), text)
  ELSE IF kind \in {"c", "getchar"} THEN Head(text) ELSE text
=============================================================================
