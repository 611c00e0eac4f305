--------------------------- MODULE ConsoleProofs ---------------------------
(***************************************************************************)
(* Proofs about Console.tla: BUF with its two indices implements the queue *)
(* of InputQueue.tla, for every size of BUF, every set of scan codes and   *)
(* all programs.                                                           *)
(***************************************************************************)
EXTENDS Console, KernelListsProofs

Chars == {press_key(code) : code \in ScanCodes}

\* The indices never cross, only characters behind BUF make it wild, and what
\* is before buf_in has been typed.
BufferInv ==
  /\ BUF \in [0 .. MaxBuf - 1 -> Chars \cup {"NUL"}]
  /\ \A i \in 0 .. MaxBuf - 1 : i < buf_in => BUF[i] \in Chars
  /\ buf_in \in Nat /\ buf_out \in Nat
  /\ buf_out <= buf_in /\ buf_in <= MaxBuf + 1
  /\ wild \in BOOLEAN /\ (wild <=> buf_in > MaxBuf)

\* A read belongs to a process that has a step to do, which nobody else's
\* step can take from it while it waits.
ReadInv ==
  /\ current \in Readers
  /\ todo \in [Readers -> Seq(AllSteps)]
  /\ want \in Nat
  /\ kernel \in {"user", "test", "halt"}
  /\ kernel = "halt" => intr_nesting
  /\ kernel # "user" => todo[current] # <<>>

CInv == BufferInv /\ ReadInv

\* What the queue of InputQueue.tla is made of.
queueVars == <<BUF, buf_in, buf_out, wild, taken>>

\* The value of the queue variable of the abstract specification.
Unread == [i \in 1 .. (IF wild THEN MaxBuf ELSE buf_in) - buf_out |-> BUF[buf_out + i - 1]]

-----------------------------------------------------------------------------
\* Initially BUF is empty and no read is going on (initScreen).
LEMMA InitHolds == Init => CInv
<1> SUFFICES ASSUME Init PROVE CInv
  OBVIOUS
<1>1. MaxBuf \in Nat
  BY ConsoleAssumption
<1>2. BufferInv
  <2>1. BUF = [i \in 0 .. MaxBuf - 1 |-> "NUL"] /\ buf_in = 0 /\ buf_out = 0 /\ wild = FALSE
    BY DEF Init
  <2>2. BUF \in [0 .. MaxBuf - 1 -> Chars \cup {"NUL"}]
    BY <2>1
  <2>3. ~(buf_in > MaxBuf)
    BY <2>1, <1>1
  <2>4. wild \in BOOLEAN /\ (wild <=> buf_in > MaxBuf)
    BY <2>1, <2>3, Zenon
  <2> QED
    BY <2>1, <2>2, <2>4, <1>1 DEF BufferInv
<1>3. todo \in [Readers -> Seq(AllSteps)]
  BY ProgramsAssumption DEF Init, Code
<1>4. ReadInv
  BY <1>3 DEF Init, ReadInv
<1> QED
  BY <1>2, <1>4 DEF CInv

\* A program that prints changes nothing of the input (write_aux to stdout).
LEMMA PutTextKeeps == CInv /\ PutText => CInv' /\ UNCHANGED queueVars
<1> SUFFICES ASSUME CInv, PutText PROVE CInv' /\ UNCHANGED queueVars
  OBVIOUS
<1> USE DEF CInv, BufferInv, ReadInv
<1>1. UNCHANGED <<BUF, buf_in, buf_out, intr_nesting, kernel, current, want, wild, taken>>
  BY DEF PutText
<1>2. kernel = "user" /\ todo[current] # <<>> /\ todo' = [todo EXCEPT ![current] = Tail(@)]
  BY DEF PutText, InUser, Busy
<1>3. todo' \in [Readers -> Seq(AllSteps)]
  BY <1>2
<1> QED
  BY <1>1, <1>2, <1>3 DEF queueVars

\* A read begins: it wants one character for a scan function, or len.
LEMMA ReadKeeps == CInv /\ Read => CInv' /\ UNCHANGED queueVars
<1> SUFFICES ASSUME CInv, Read PROVE CInv' /\ UNCHANGED queueVars
  OBVIOUS
<1> USE DEF CInv, BufferInv, ReadInv
<1>1. todo[current] # <<>> /\ todo[current] \in Seq(AllSteps)
  BY DEF Read, Busy
<1>2. Step \in AllSteps
  BY <1>1 DEF Step
<1>3. want' \in Nat
  BY <1>2, ProgramsAssumption DEF Read
<1> QED
  BY <1>1, <1>3 DEF Read, queueVars

\* wait_for_keyboard goes to sleep.
LEMMA WaitKeeps == CInv /\ Wait => CInv' /\ UNCHANGED queueVars
  BY DEF CInv, BufferInv, ReadInv, Wait, queueVars

\* A clock tick changes nothing but, in user mode, the current process.
LEMMA TimerKeeps == CInv /\ Timer => CInv' /\ UNCHANGED queueVars
  BY DEF CInv, BufferInv, ReadInv, Timer, Interruptible, Woken, queueVars

\* A read ends: what it takes from BUF is the front of the queue.
LEMMA DeliverTakes ==
  CInv /\ Deliver => CInv' /\ \E n \in 0 .. MaxBuf : Queue!Take(current, n)
<1> SUFFICES ASSUME CInv, Deliver
             PROVE  CInv' /\ \E n \in 0 .. MaxBuf : Queue!Take(current, n)
  OBVIOUS
<1> USE DEF CInv, BufferInv, ReadInv
<1> DEFINE text == [i \in 1 .. want |-> BUF[buf_out + i - 1]]
<1>1. /\ ~wild /\ kernel = "test" /\ ~(buf_out + (want - 1) >= buf_in)
      /\ intr_nesting' = FALSE /\ kernel' = "user"
      /\ buf_out' = buf_out + want
      /\ taken' = [taken EXCEPT ![current] = @ \o text]
      /\ UNCHANGED <<BUF, buf_in, current, want, wild>>
  BY DEF Deliver, mustWait
<1>2. buf_out + want <= buf_in /\ buf_in <= MaxBuf /\ want \in 0 .. MaxBuf
  <2>1. MaxBuf \in Nat
    BY ConsoleAssumption
  <2>2. buf_in <= MaxBuf
    BY <2>1, <1>1
  <2> QED
    BY <2>1, <2>2, <1>1
<1>3. todo' \in [Readers -> Seq(AllSteps)]
  <2>1. todo' = [todo EXCEPT ![current] = Tail(@)] \/ todo' = todo
    BY DEF Deliver, Receive
  <2>2. Tail(todo[current]) \in Seq(AllSteps)
    BY <1>1
  <2> QED
    BY <2>1, <2>2
<1>4. CInv'
  BY <1>1, <1>2, <1>3
<1>5. Unread = [i \in 1 .. buf_in - buf_out |-> BUF[buf_out + i - 1]]
  BY <1>1 DEF Unread
<1>6. Len(Unread) = buf_in - buf_out
  <2>1. buf_in - buf_out \in Nat
    OBVIOUS
  <2> QED
    BY <2>1, <1>5
<1>7. SubSeq(Unread, 1, want) = text
  BY <1>2, <1>5
<1>8. SubSeq(Unread, want + 1, Len(Unread)) = Unread'
  BY <1>1, <1>2, <1>5, <1>6 DEF Unread
<1>9. Queue!Take(current, want)
  <2>1. ~wild /\ want <= Len(Unread)
    BY <1>1, <1>2, <1>6
  <2>2. taken' = [taken EXCEPT ![current] = @ \o SubSeq(Unread, 1, want)]
    BY <1>1, <1>7
  <2>3. UNCHANGED <<IF wild THEN MaxBuf ELSE buf_in, wild>>
    BY <1>1
  <2> QED
    BY <2>1, <2>2, <2>3, <1>8 DEF Queue!Take, Unread
<1>10. \E n \in 0 .. MaxBuf : Queue!Take(current, n)
  <2>1. want \in 0 .. MaxBuf
    BY <1>2
  <2> QED
    BY <1>9, <2>1 DEF Queue!Take
<1> QED
  BY <1>4, <1>10

\* A key appends its character, or is the one that does not fit.
LEMMA KeyboardTypes ==
  ASSUME NEW code \in ScanCodes, CInv, Keyboard(code)
  PROVE  /\ CInv'
         /\ UNCHANGED queueVars \/ Queue!Overrun \/ \E ch \in Chars : Queue!Type(ch)
<1> USE DEF CInv, BufferInv, ReadInv
<1> DEFINE ch == press_key(code)
<1>1. /\ ~wild /\ kernel \in {"user", "halt"}
      /\ kernel' = Woken
      /\ UNCHANGED <<buf_out, intr_nesting, current, want, todo, taken>>
  BY DEF Keyboard, Interruptible
<1>2. ReadInv'
  BY <1>1 DEF Woken
<1>3. CASE ch = "NUL"
  <2>1. UNCHANGED queueVars
    BY <1>3, <1>1 DEF Keyboard, queueVars
  <2> QED
    BY <2>1, <1>2 DEF queueVars
<1>4. CASE ch # "NUL" /\ buf_in < MaxBuf
  <2>1. /\ BUF' = [BUF EXCEPT ![buf_in] = ch]
        /\ buf_in' = buf_in + 1 /\ wild' = wild
    BY <1>4 DEF Keyboard
  <2>2. BufferInv'
    <3>1. ch \in Chars
      BY DEF Chars
    <3> HIDE DEF ch
    <3>2. BUF' \in [0 .. MaxBuf - 1 -> Chars \cup {"NUL"}]
      BY <2>1, <3>1
    <3>3. ASSUME NEW i \in 0 .. MaxBuf - 1, i < buf_in'
          PROVE  BUF'[i] \in Chars
      <4>1. CASE i = buf_in
        BY <2>1, <3>1, <4>1
      <4>2. CASE i # buf_in
        <5>1. i < buf_in
          BY <2>1, <3>3, <4>2
        <5> QED
          BY <2>1, <4>2, <5>1
      <4> QED
        BY <4>1, <4>2
    <3>4. /\ buf_in' \in Nat /\ buf_out' \in Nat
          /\ buf_out' =< buf_in' /\ buf_in' =< MaxBuf + 1 /\ ~(buf_in' > MaxBuf)
      BY <2>1, <1>1, <1>4, ConsoleAssumption
    <3>5. wild' = FALSE
      BY <2>1, <1>1
    <3> QED
      BY <3>2, <3>3, <3>4, <3>5
  <2>3. /\ Unread = [i \in 1 .. buf_in - buf_out |-> BUF[buf_out + i - 1]]
        /\ Unread' = [i \in 1 .. buf_in + 1 - buf_out |-> BUF'[buf_out + i - 1]]
    BY <2>1, <1>1 DEF Unread
  <2>4. Unread' = Append(Unread, ch)
    <3>1. buf_in - buf_out \in Nat
      OBVIOUS
    <3>2. \A i \in 1 .. buf_in - buf_out : BUF[buf_out + i - 1] \in Chars \cup {"NUL"}
      BY <1>4, ConsoleAssumption
    <3>3. Unread \in Seq(Chars \cup {"NUL"}) /\ Len(Unread) = buf_in - buf_out
      BY <3>1, <3>2, <2>3
    <3>4. ASSUME NEW i \in 1 .. buf_in + 1 - buf_out
          PROVE  BUF'[buf_out + i - 1] =
                   IF i = buf_in + 1 - buf_out THEN ch ELSE BUF[buf_out + i - 1]
      BY <2>1, <1>4, ConsoleAssumption
    <3> DEFINE last == ch
    <3>5. Append(Unread, last) =
            [i \in 1 .. Len(Unread) + 1 |-> IF i = Len(Unread) + 1 THEN last ELSE Unread[i]]
      <4>1. Unread \in Seq(Chars \cup {"NUL"}) /\ last \in Chars \cup {"NUL"}
        BY <3>3 DEF Chars
      <4> HIDE DEF last, BufferInv, ReadInv, CInv
      <4> DEFINE q == Append(Unread, last)
      <4>2. /\ q \in Seq(Chars \cup {"NUL"}) /\ Len(q) = Len(Unread) + 1
            /\ \A i \in 1 .. Len(q) : q[i] = IF i = Len(Unread) + 1 THEN last ELSE Unread[i]
        <5>1. \A i \in 1 .. Len(Unread) : Append(Unread, last)[i] = Unread[i]
          BY <4>1, AppendProperties
        <5>2. Append(Unread, last)[Len(Unread) + 1] = last /\ Len(q) = Len(Unread) + 1
          BY <4>1, AppendProperties
        <5>3. Len(Unread) \in Nat
          BY <4>1
        <5>4. \A i \in 1 .. Len(q) : i # Len(Unread) + 1 => i \in 1 .. Len(Unread)
          BY <5>2, <5>3
        <5> QED
          BY <4>1, <5>1, <5>2, <5>4, AppendProperties
      <4> HIDE DEF q
      <4>3. q = [i \in 1 .. Len(q) |-> q[i]]
        BY <4>2
      <4> QED
        BY <4>2, <4>3 DEF q
    <3>6. Len(Unread) + 1 = buf_in + 1 - buf_out
      BY <3>3
    <3> HIDE DEF last
    <3>7. \A i \in 1 .. buf_in + 1 - buf_out :
            i # buf_in + 1 - buf_out => Unread[i] = BUF[buf_out + i - 1]
      BY <3>1, <2>3
    <3> HIDE DEF BufferInv, ReadInv, CInv
    <3> QED
      BY <2>3, <3>4, <3>5, <3>6, <3>7, ZenonT(60) DEF last
  <2>5. Queue!Type(ch)
    BY <2>1, <2>4, <1>1, <1>4 DEF Queue!Type, Unread
  <2> QED
    BY <2>2, <2>5, <1>2 DEF Chars
<1>5. CASE ch # "NUL" /\ ~(buf_in < MaxBuf)
  <2>1. wild' = TRUE /\ BUF' = BUF /\ buf_in' = buf_in + 1 /\ buf_in = MaxBuf
    BY <1>1, <1>5, ConsoleAssumption DEF Keyboard
  <2>2. BufferInv'
    BY <2>1, <1>1
  <2>3. Unread' = Unread
    BY <2>1, <1>1 DEF Unread
  <2>4. Queue!Overrun
    BY <2>1, <2>3, <1>1 DEF Queue!Overrun, Unread
  <2> QED
    BY <2>2, <2>4, <1>2
<1> QED
  BY <1>3, <1>4, <1>5

-----------------------------------------------------------------------------
\* Each step of the console is one of the queue, or leaves it alone.
LEMMA StepsAreTheQueues == CInv /\ [Next]_vars => CInv' /\ [Queue!Next]_(Queue!vars)
<1> SUFFICES ASSUME CInv, [Next]_vars PROVE CInv' /\ [Queue!Next]_(Queue!vars)
  OBVIOUS
<1>1. UNCHANGED queueVars => UNCHANGED Queue!vars
  BY DEF queueVars, Queue!vars
<1>2. CASE PutText \/ Read \/ Wait \/ Timer
  BY <1>1, <1>2, PutTextKeeps, ReadKeeps, WaitKeeps, TimerKeeps
<1>3. CASE Deliver
  <2>1. current \in Readers
    BY DEF CInv, ReadInv
  <2> QED
    BY <1>3, <2>1, DeliverTakes DEF Queue!Next
<1>4. ASSUME NEW code \in ScanCodes, Keyboard(code)
      PROVE  CInv' /\ [Queue!Next]_(Queue!vars)
  BY <1>1, <1>4, KeyboardTypes DEF Queue!Next, Chars
<1>5. CASE UNCHANGED vars
  BY <1>1, <1>5 DEF vars, queueVars, CInv, BufferInv, ReadInv
<1> QED
  BY <1>2, <1>3, <1>4, <1>5 DEF Next, WaitLoop

\* The queue is empty at the start.
LEMMA StartsEmpty == Init => Queue!Init
  BY ConsoleAssumption DEF Init, Queue!Init

\* The indices of BUF never cross, at most one character goes behind it, and a
\* waiting read has its process (wait_for_keyboard, keyboardHandle, read_aux).
THEOREM IndicesNeverCross == Spec => []CInv
<1>1. CInv /\ [Next]_vars => CInv'
  BY StepsAreTheQueues
<1> QED
  BY InitHolds, <1>1, PTL DEF Spec

\* Nothing typed is lost, doubled or reordered between the keyboard interrupt
\* and the reads of all processes, whatever the size of BUF, up to its end
\* (keyboardHandle, wait_for_keyboard, read_aux).
THEOREM TypedIsRead == Spec => ReadsInOrder
<1>1. CInv /\ [Next]_vars => CInv'
  BY StepsAreTheQueues
<1>2. CInv /\ [Next]_vars => [Queue!Next]_(Queue!vars)
  BY StepsAreTheQueues
<1>3. Spec => []CInv
  BY IndicesNeverCross
<1> QED
  BY InitHolds, StartsEmpty, <1>2, <1>3, PTL DEF Spec, ReadsInOrder, Queue!Spec

-----------------------------------------------------------------------------
(***************************************************************************)
(* Recursion over the characters of a text: the functions the model is     *)
(* built of exist, and what every step preserves holds at the end.         *)
(***************************************************************************)

\* Induction up to a bound, for a set.
LEMMA UpTo ==
  ASSUME NEW N \in Nat, NEW P, 0 \in P, \A n \in 1 .. N : n - 1 \in P => n \in P
  PROVE  \A n \in 0 .. N : n \in P
<1> DEFINE M == {n \in 0 .. N : n \notin P}
<1> SUFFICES ASSUME M # {} PROVE FALSE
  OBVIOUS
<1>1. PICK m \in M : \A j \in M : m <= j
  <2>1. M \in SUBSET Nat
    OBVIOUS
  <2> HIDE DEF M
  <2> QED
    BY <2>1, LeastNat
<1>2. m # 0 /\ m \in 1 .. N
  BY <1>1
<1>3. m - 1 \notin M /\ m - 1 \in 0 .. N
  BY <1>1, <1>2
<1> QED
  BY <1>1, <1>2, <1>3

\* A step that is defined on a set can be repeated any number of times.
Iteration(f, S, a, N, g) ==
  /\ f \in [0 .. N -> S] /\ f[0] = a
  /\ \A n \in 1 .. N : f[n] = g[<<n, f[n - 1]>>]

LEMMA Iterates ==
  ASSUME NEW S, NEW a \in S, NEW N \in Nat, NEW g \in [(1 .. N) \X S -> S]
  PROVE  \E f : Iteration(f, S, a, N, g)
<1> DEFINE Good(k, f) == f[0] = a /\ \A n \in 1 .. k : f[n] = g[<<n, f[n - 1]>>]
           P == {k \in 0 .. N : \E f \in [0 .. k -> S] : Good(k, f)}
<1>1. 0 \in P
  <2> DEFINE f == [n \in 0 .. 0 |-> a]
  <2>1. f \in [0 .. 0 -> S]
    OBVIOUS
  <2>2. Good(0, f)
    OBVIOUS
  <2> HIDE DEF f, Good
  <2> QED
    BY <2>1, <2>2
<1>2. ASSUME NEW k \in 1 .. N, k - 1 \in P PROVE k \in P
  <2>1. PICK f \in [0 .. k - 1 -> S] : Good(k - 1, f)
    BY <1>2
  <2> DEFINE h == [n \in 0 .. k |-> IF n = k THEN g[<<k, f[k - 1]>>] ELSE f[n]]
  <2>2. g[<<k, f[k - 1]>>] \in S
    BY <2>1
  <2>3. h \in [0 .. k -> S]
    BY <2>1, <2>2
  <2>4. Good(k, h)
    <3>1. h[0] = a
      BY <2>1
    <3>2. ASSUME NEW n \in 1 .. k PROVE h[n] = g[<<n, h[n - 1]>>]
      <4>1. CASE n = k
        <5>1. k \in 0 .. k /\ k - 1 \in 0 .. k /\ k - 1 # k
          OBVIOUS
        <5>2. h[k] = g[<<k, f[k - 1]>>] /\ h[k - 1] = f[k - 1]
          BY <5>1
        <5> HIDE DEF h
        <5> QED
          BY <4>1, <5>2
      <4>2. CASE n # k
        <5>1. n \in 1 .. k - 1 /\ n - 1 # k /\ n - 1 \in 0 .. k /\ n \in 0 .. k
          BY <4>2
        <5>2. h[n] = f[n] /\ h[n - 1] = f[n - 1]
          BY <5>1, <4>2
        <5> HIDE DEF h
        <5> QED
          BY <5>1, <5>2, <2>1
      <4> QED
        BY <4>1, <4>2
    <3> QED
      BY <3>1, <3>2
  <2> HIDE DEF h, Good
  <2> QED
    BY <2>3, <2>4
<1> HIDE DEF P
<1>3. N \in P
  BY <1>1, <1>2, UpTo
<1> QED
  BY <1>3 DEF P, Iteration

-----------------------------------------------------------------------------
(* The screen. *)

Screens == [cells : [Cells -> Characters], x : 0 .. Cols - 1, y : Nat]

\* What a character does to the screen before the end of the row.
LEMMA MovedCases ==
  ASSUME NEW s \in Screens, NEW ch \in Characters
  PROVE  /\ ch = "BS" => Moved(s, ch) = [s EXCEPT !.x = IF @ > 0 THEN @ - 1 ELSE @]
         /\ ch = "\t" => Moved(s, ch) = [s EXCEPT !.x = ((@ + TabLen) \div TabLen) * TabLen]
         /\ ch = "\r" => Moved(s, ch) = [s EXCEPT !.x = 0]
         /\ ch = "\n" => Moved(s, ch) = [s EXCEPT !.x = 0, !.y = @ + 1]
         /\ ch \notin Controls =>
              Moved(s, ch) =
                [s EXCEPT !.x = @ + 1,
                          !.cells = [c \in Cells |-> IF c = s.y * Cols + s.x
                                                     THEN ch ELSE @[c]]]
         /\ ch \in Controls \ {"BS", "\t", "\r", "\n"} => Moved(s, ch) = s
<1>1. "BS" # "\t" /\ "BS" # "\r" /\ "BS" # "\n" /\ "\t" # "\r" /\ "\t" # "\n" /\ "\r" # "\n"
  OBVIOUS
<1>2. ch \notin Controls => ch # "BS" /\ ch # "\t" /\ ch # "\r" /\ ch # "\n"
  BY ControlsAssumption
<1>3. ch \notin Controls => Moved(s, ch) = Stored(s, ch)
  BY <1>2, Zenon DEF Moved
<1>4. ch \in Controls \ {"BS", "\t", "\r", "\n"} => Moved(s, ch) = s
  BY Zenon DEF Moved
<1>5. ch \notin Controls =>
        Moved(s, ch) =
          [s EXCEPT !.x = @ + 1,
                    !.cells = [c \in Cells |-> IF c = s.y * Cols + s.x THEN ch ELSE @[c]]]
  BY <1>3, Zenon DEF Stored
<1>6. /\ ch = "BS" => Moved(s, ch) = [s EXCEPT !.x = IF @ > 0 THEN @ - 1 ELSE @]
      /\ ch = "\t" => Moved(s, ch) = [s EXCEPT !.x = ((@ + TabLen) \div TabLen) * TabLen]
      /\ ch = "\r" => Moved(s, ch) = [s EXCEPT !.x = 0]
      /\ ch = "\n" => Moved(s, ch) = [s EXCEPT !.x = 0, !.y = @ + 1]
  BY <1>1, <1>2, Zenon DEF Moved
<1> QED
  BY <1>4, <1>5, <1>6, Zenon

\* A tab stop is never behind the end of the row.
LEMMA TabStop ==
  ASSUME NEW x \in 0 .. Cols - 1
  PROVE  /\ ((x + TabLen) \div TabLen) * TabLen = x + (TabLen - (x % TabLen))
         /\ x + (TabLen - (x % TabLen)) \in (x + 1) .. Cols
         /\ x % TabLen \in 0 .. TabLen - 1
<1>1. TabLen \in Nat \ {0} /\ Cols \in Nat \ {0} /\ Cols % TabLen = 0
  BY ConsoleAssumption
<1> DEFINE q == x \div TabLen
           r == x % TabLen
           m == Cols \div TabLen
<1>2. q \in Nat /\ r \in 0 .. TabLen - 1 /\ x = q * TabLen + r /\ x \in Nat
  BY <1>1
<1>3. m \in Nat /\ Cols = m * TabLen
  BY <1>1
<1>4. (x + TabLen) \div TabLen = q + 1
  BY <1>1
<1> HIDE DEF q, m
<1>5. (q + 1) * TabLen = q * TabLen + TabLen /\ q * TabLen \in Int
  BY <1>1, <1>2
<1>6. q < m
  <2>1. q * TabLen < m * TabLen
    BY <1>1, <1>2, <1>3
  <2> QED
    BY <2>1, <1>1, <1>2, <1>3
<1>7. (q + 1) * TabLen <= m * TabLen
  BY <1>1, <1>2, <1>3, <1>6
<1> QED
  <2>1. r \in Int /\ x % TabLen = r
    BY <1>2
  <2>2. (q + 1) * TabLen = x + (TabLen - r)
    BY <1>1, <1>2, <1>5, <2>1
  <2> HIDE DEF r
  <2> QED
    BY <1>1, <1>2, <1>3, <1>4, <1>5, <1>7, <2>1, <2>2

\* A character changes one cell at most, and never leaves the row.
LEMMA PutStays ==
  ASSUME NEW s \in Screens, NEW ch \in Characters
  PROVE  screen_put(s, ch) \in Screens
<1> DEFINE moved == Moved(s, ch)
           next == [moved EXCEPT !.x = 0, !.y = @ + 1]
<1>1. Cols \in Nat \ {0}
  BY ConsoleAssumption
<1>2. /\ s.x \in 0 .. Cols - 1 /\ s.y \in Nat /\ s.cells \in [Cells -> Characters]
      /\ s = [cells |-> s.cells, x |-> s.x, y |-> s.y]
  BY DEF Screens
<1>3. moved \in [cells : [Cells -> Characters], x : 0 .. Cols, y : Nat]
  <2>1. CASE ch = "BS"
    <3>1. moved = [s EXCEPT !.x = IF @ > 0 THEN @ - 1 ELSE @]
      BY <2>1, MovedCases
    <3> QED
      BY <3>1, <1>1, <1>2, SMTT(60)
  <2>2. CASE ch = "\t"
    <3>1. moved = [s EXCEPT !.x = ((@ + TabLen) \div TabLen) * TabLen]
      BY <2>2, MovedCases
    <3>2. ((s.x + TabLen) \div TabLen) * TabLen \in 0 .. Cols
      <4>1. s.x % TabLen \in Int /\ TabLen \in Int
        BY <1>2, TabStop, ConsoleAssumption
      <4> HIDE DEF moved
      <4> QED
        BY <1>1, <1>2, <4>1, TabStop
    <3> QED
      BY <3>1, <3>2, <1>1, <1>2, SMTT(60)
  <2>3. CASE ch = "\r"
    <3>1. moved = [s EXCEPT !.x = 0]
      BY <2>3, MovedCases
    <3> QED
      BY <3>1, <1>1, <1>2, SMTT(60)
  <2>4. CASE ch = "\n"
    <3>1. moved = [s EXCEPT !.x = 0, !.y = @ + 1]
      BY <2>4, MovedCases
    <3>2. moved = [cells |-> s.cells, x |-> 0, y |-> s.y + 1]
      BY <3>1, <1>2
    <3> HIDE DEF moved
    <3> QED
      BY <3>2, <1>1, <1>2, SMTT(60)
  <2>5. CASE ch \notin Controls
    <3>1. moved = [s EXCEPT !.x = @ + 1,
                            !.cells = [c \in Cells |-> IF c = s.y * Cols + s.x
                                                       THEN ch ELSE @[c]]]
      BY <2>5, MovedCases
    <3> DEFINE cells == [c \in Cells |-> IF c = s.y * Cols + s.x THEN ch ELSE s.cells[c]]
    <3>2. cells \in [Cells -> Characters]
      BY <1>2
    <3>3. moved = [cells |-> cells, x |-> s.x + 1, y |-> s.y]
      BY <3>1, <1>2
    <3> HIDE DEF moved, cells
    <3> QED
      BY <3>2, <3>3, <1>1, <1>2
  <2>6. CASE ch \in Controls \ {"BS", "\t", "\r", "\n"}
    <3>1. moved = s
      BY <2>6, MovedCases
    <3> HIDE DEF moved
    <3> QED
      BY <3>1, <1>1, <1>2, SMTT(60)
  <2> QED
    BY <2>1, <2>2, <2>3, <2>4, <2>5, <2>6
<1>4. screen_put(s, ch) = IF moved.x >= Cols THEN next ELSE moved
  BY DEF screen_put
<1> HIDE DEF moved
<1>5. next = [cells |-> moved.cells, x |-> 0, y |-> moved.y + 1]
  <2> DEFINE m == [moved EXCEPT !.x = 0]
  <2>1. m = [cells |-> moved.cells, x |-> 0, y |-> moved.y]
    BY <1>3
  <2>2. next = [m EXCEPT !.y = moved.y + 1]
    OBVIOUS
  <2> HIDE DEF m, next
  <2> QED
    BY <2>1, <2>2
<1> HIDE DEF next
<1>6. next \in Screens
  BY <1>1, <1>3, <1>5 DEF Screens
<1>7. moved.x < Cols => moved \in Screens
  BY <1>1, <1>3 DEF Screens
<1>8. moved.x \in Int
  BY <1>1, <1>3
<1> QED
  BY <1>1, <1>4, <1>6, <1>7, <1>8

\* A text is put on the screen character by character.
LEMMA WrittenSteps ==
  ASSUME NEW s \in Screens, NEW text \in Seq(Characters)
  PROVE  \E on \in [0 .. Len(text) -> Screens] :
           /\ on[0] = s /\ Written(s, text) = on[Len(text)]
           /\ \A n \in 1 .. Len(text) : on[n] = screen_put(on[n - 1], text[n])
<1> DEFINE N == Len(text)
           Eqn(on) == on = [n \in 0 .. N |-> IF n = 0 THEN s
                                             ELSE screen_put(on[n - 1], text[n])]
           g == [nx \in (1 .. N) \X Screens |-> screen_put(nx[2], text[nx[1]])]
<1>1. N \in Nat /\ \A n \in 1 .. N : text[n] \in Characters
  OBVIOUS
<1>2. g \in [(1 .. N) \X Screens -> Screens]
  <2>1. ASSUME NEW nx \in (1 .. N) \X Screens
        PROVE  screen_put(nx[2], text[nx[1]]) \in Screens
    BY <1>1, PutStays
  <2> QED
    BY <2>1
<1>3. \A n \in 1 .. N, x \in Screens : g[<<n, x>>] = screen_put(x, text[n])
  OBVIOUS
<1> HIDE DEF g, N
<1>4. PICK f : Iteration(f, Screens, s, N, g)
  <2>1. N \in Nat /\ s \in Screens
    BY <1>1
  <2> HIDE DEF Eqn
  <2> QED
    BY <1>2, <2>1, Iterates
<1>5. Eqn(f)
  <2> USE <1>4 DEF Iteration
  <2>1. ASSUME NEW n \in 1 .. N PROVE f[n] = screen_put(f[n - 1], text[n])
    <3>1. n - 1 \in 0 .. N
      BY <1>1
    <3> QED
      BY <1>3, <1>4, <3>1
  <2> QED
    BY <1>1, <1>4, <2>1
<1> DEFINE on == CHOOSE w : Eqn(w)
<1>6. Eqn(on)
  BY <1>5, Zenon
<1>7. Written(s, text) = on[N]
  BY Zenon DEF Written, N
<1> HIDE DEF on
<1>8. /\ on[0] = s
      /\ \A n \in 1 .. N : on[n] = screen_put(on[n - 1], text[n])
      /\ on = [n \in 0 .. N |-> on[n]]
  <2>1. \A n \in 0 .. N : on[n] = IF n = 0 THEN s ELSE screen_put(on[n - 1], text[n])
    BY <1>6
  <2>2. on = [n \in 0 .. N |-> on[n]]
    BY <1>6
  <2> HIDE DEF Eqn
  <2>3. 0 \in 0 .. N /\ \A n \in 1 .. N : n \in 0 .. N /\ n # 0
    BY <1>1
  <2> QED
    BY <2>1, <2>2, <2>3, Zenon
<1>9. \A n \in 0 .. N : on[n] \in Screens
  <2> DEFINE P == {n \in 0 .. N : on[n] \in Screens}
  <2>1. 0 \in P
    BY <1>1, <1>8
  <2>2. ASSUME NEW n \in 1 .. N, n - 1 \in P PROVE n \in P
    <3>1. on[n - 1] \in Screens /\ text[n] \in Characters /\ n \in 0 .. N
      BY <1>1, <2>2
    <3>2. screen_put(on[n - 1], text[n]) \in Screens
      BY <3>1, PutStays
    <3> QED
      BY <1>8, <3>1, <3>2
  <2> HIDE DEF P
  <2>3. \A n \in 0 .. N : n \in P
    BY <1>1, <2>1, <2>2, UpTo
  <2> QED
    BY <2>3 DEF P
<1> QED
  BY <1>7, <1>8, <1>9 DEF N

-----------------------------------------------------------------------------
(* What the screen shows, as the page a text fills. *)

Pages == [rows : Seq(Characters), line : Seq(Characters)]

\* Blanks are characters, and fill the line up.
LEMMA BlanksAre ==
  ASSUME NEW n \in Nat
  PROVE  Blanks(n) \in Seq(Characters) /\ Len(Blanks(n)) = n /\ \A i \in 1 .. n : Blanks(n)[i] = Space
<1>1. Blanks(n) = [i \in 1 .. n |-> Space]
  BY DEF Blanks
<1>2. \A T, t : t \in T => [i \in 1 .. n |-> t] \in Seq(T) /\ Len([i \in 1 .. n |-> t]) = n
  OBVIOUS
<1>3. Space \in Characters
  BY CharactersAssumption
<1> QED
  BY <1>1, <1>2, <1>3

\* What is added to the page behind what it has.
Addition(page, ch) ==
  IF ch = "\n" THEN Blanks(Cols - (Len(page.line) % Cols))
  ELSE IF ch = "\t" THEN Blanks(TabLen - (Len(page.line) % TabLen))
  ELSE IF ch \in Controls THEN <<>>
  ELSE <<ch>>

\* A character adds to the page and changes nothing of what is on it.
LEMMA PageGrows ==
  ASSUME NEW p \in Pages, NEW ch \in Characters
  PROVE  /\ Laid(p, ch) \in Pages
         /\ Addition(p, ch) \in Seq(Characters)
         /\ Len(Laid(p, ch).line) = IF ch = "\n" THEN 0 ELSE Len(p.line) + Len(Addition(p, ch))
         /\ Laid(p, ch).rows \o Laid(p, ch).line = (p.rows \o p.line) \o Addition(p, ch)
<1>1. /\ Cols \in Nat \ {0} /\ TabLen \in Nat \ {0}
      /\ p.rows \in Seq(Characters) /\ p.line \in Seq(Characters) /\ Len(p.line) \in Nat
      /\ p = [rows |-> p.rows, line |-> p.line]
  BY ConsoleAssumption DEF Pages
<1>2. Cols - (Len(p.line) % Cols) \in Nat /\ TabLen - (Len(p.line) % TabLen) \in Nat
  BY <1>1, SMTT(60)
<1>3. Addition(p, ch) \in Seq(Characters)
  <2>1. ch \in Characters /\ <<ch>> \in Seq(Characters) /\ <<>> \in Seq(Characters)
    OBVIOUS
  <2>2. /\ Blanks(Cols - (Len(p.line) % Cols)) \in Seq(Characters)
        /\ Blanks(TabLen - (Len(p.line) % TabLen)) \in Seq(Characters)
    BY <1>2, BlanksAre
  <2> QED
    BY <2>1, <2>2 DEF Addition
<1> DEFINE add == Addition(p, ch)
<1>4. \A a, b, c \in Seq(Characters) : (a \o b) \o c = a \o (b \o c) /\ (a \o b) \o <<>> = a \o b
  OBVIOUS
<1>5. CASE ch = "\n"
  <2>1. Laid(p, ch) = [rows |-> p.rows \o (p.line \o add), line |-> <<>>]
    BY <1>5 DEF Laid, Filled, Addition
  <2> HIDE DEF add
  <2>2. p.line \o add \in Seq(Characters) /\ <<>> \in Seq(Characters)
    BY <1>1, <1>3 DEF add
  <2>3. Laid(p, ch).rows \o Laid(p, ch).line = p.rows \o (p.line \o add)
    <3>1. p.rows \o (p.line \o add) \in Seq(Characters)
      BY <1>1, <2>2
    <3>2. \A t \in Seq(Characters) : t \o <<>> = t
      OBVIOUS
    <3>3. Laid(p, ch).rows = p.rows \o (p.line \o add) /\ Laid(p, ch).line = <<>>
      <4> DEFINE rows == p.rows \o (p.line \o add)
      <4>1. Laid(p, ch) = [rows |-> rows, line |-> <<>>]
        BY <2>1
      <4> HIDE DEF rows
      <4>2. Laid(p, ch).rows = rows /\ Laid(p, ch).line = <<>>
        BY <4>1
      <4> QED
        BY <4>2 DEF rows
    <3> QED
      BY <3>1, <3>2, <3>3
  <2>4. Laid(p, ch) \in Pages
    <3>1. p.rows \o (p.line \o add) \in Seq(Characters)
      BY <1>1, <2>2
    <3> QED
      BY <2>1, <2>2, <3>1 DEF Pages
  <2>5. Len(Laid(p, ch).line) = 0
    BY <2>1
  <2>6. (p.rows \o p.line) \o add = p.rows \o (p.line \o add)
    BY <1>1, <1>3, <1>4, ZenonT(60) DEF add
  <2> QED
    BY <1>3, <1>5, <2>3, <2>4, <2>5, <2>6 DEF add
<1>6. CASE ch # "\n"
  <2>1. Laid(p, ch) = [rows |-> p.rows, line |-> p.line \o add]
    <3>1. CASE ch = "\t"
      BY <1>1, <1>6, <3>1 DEF Laid, Addition
    <3>2. CASE ch \notin Controls
      <4>1. Append(p.line, ch) = p.line \o <<ch>> /\ ch # "\t"
        BY <1>1, <3>2, ControlsAssumption
      <4> QED
        BY <1>1, <1>6, <3>2, <4>1 DEF Laid, Addition
    <3>3. CASE ch \in Controls \ {"\t"}
      <4>1. p.line \o <<>> = p.line /\ p = [rows |-> p.rows, line |-> p.line]
        BY <1>1
      <4>2. Laid(p, ch) = p /\ add = <<>>
        BY <1>6, <3>3, Zenon DEF Laid, Addition
      <4> HIDE DEF add
      <4> QED
        BY <4>1, <4>2
    <3> QED
      BY <3>1, <3>2, <3>3
  <2> HIDE DEF add
  <2>2. p.line \o add \in Seq(Characters) /\ Len(p.line \o add) = Len(p.line) + Len(add)
    BY <1>1, <1>3 DEF add
  <2>3. Laid(p, ch).rows = p.rows /\ Laid(p, ch).line = p.line \o add
    BY <2>1
  <2>4. Laid(p, ch) \in Pages
    BY <1>1, <2>1, <2>2 DEF Pages
  <2>5. (p.rows \o p.line) \o add = p.rows \o (p.line \o add)
    BY <1>1, <1>3, <1>4, ZenonT(60) DEF add
  <2> QED
    BY <1>3, <1>6, <2>2, <2>3, <2>4, <2>5 DEF add
<1> QED
  BY <1>5, <1>6

\* The cursor of a text that grows by k characters of its line.
LEMMA CursorMoves ==
  ASSUME NEW n \in Nat, NEW k \in 1 .. (Cols - (n % Cols))
  PROVE  (n + k) % Cols = IF (n % Cols) + k = Cols THEN 0 ELSE (n % Cols) + k
<1> DEFINE x == n % Cols
           a == n \div Cols
<1>1. Cols \in Nat \ {0}
  BY ConsoleAssumption
<1>2. n = Cols * a + x /\ x \in 0 .. Cols - 1 /\ a \in Nat
  BY <1>1
<1> HIDE DEF x, a
<1>3. k \in Nat /\ x + k <= Cols
  BY <1>1, <1>2 DEF x
<1>4. CASE x + k = Cols
  <2>1. n + k = Cols * (a + 1) + 0
    BY <1>1, <1>2, <1>3, <1>4
  <2>2. \A m \in Nat : (Cols * m + 0) % Cols = 0
    BY <1>1
  <2> QED
    BY <1>2, <1>4, <2>1, <2>2 DEF x
<1>5. CASE x + k # Cols
  <2>1. n + k = Cols * a + (x + k) /\ x + k \in 0 .. Cols - 1
    BY <1>1, <1>2, <1>3, <1>5
  <2>2. \A m \in Nat, r \in 0 .. Cols - 1 : (Cols * m + r) % Cols = r
    BY <1>1
  <2> QED
    BY <1>2, <1>5, <2>1, <2>2 DEF x
<1> QED
  BY <1>4, <1>5

\* Tab stops of a line are those of the row it ends in.
LEMMA TabsOfRows ==
  ASSUME NEW n \in Nat
  PROVE  (n % Cols) % TabLen = n % TabLen
<1> DEFINE x == n % Cols
           a == n \div Cols
           m == Cols \div TabLen
<1>1. Cols \in Nat \ {0} /\ TabLen \in Nat \ {0} /\ Cols % TabLen = 0
  BY ConsoleAssumption
<1>2. n = Cols * a + x /\ x \in Nat /\ a \in Nat
  BY <1>1
<1>3. Cols = TabLen * m /\ m \in Nat
  BY <1>1
<1> HIDE DEF x, a, m
<1>4. n = TabLen * (m * a) + x /\ m * a \in Nat
  BY <1>1, <1>2, <1>3
<1>5. ASSUME NEW k \in Nat, NEW y \in Nat
      PROVE  (TabLen * k + y) % TabLen = y % TabLen
  <2> DEFINE q == y \div TabLen
             r == y % TabLen
  <2>1. y = TabLen * q + r /\ r \in 0 .. TabLen - 1 /\ q \in Nat
    BY <1>1
  <2> HIDE DEF q, r
  <2>2. TabLen * k + y = TabLen * (k + q) + r /\ k + q \in Nat
    BY <1>1, <2>1
  <2>3. \A m1 \in Nat : (TabLen * m1 + r) % TabLen = r
    BY <1>1, <2>1
  <2> QED
    BY <2>2, <2>3 DEF r
<1>6. n % TabLen = x % TabLen
  BY <1>2, <1>4, <1>5
<1> QED
  BY <1>6 DEF x

-----------------------------------------------------------------------------
\* The cells show a text and are blank behind it.
Shows(cells, layout) ==
  \A c \in Cells : cells[c] = IF c < Len(layout) THEN layout[c + 1] ELSE Space

\* The cursor is behind the text, and the cells before it show the text.
Matches(s, p) ==
  LET layout == p.rows \o p.line
  IN  /\ s.y * Cols + s.x = Len(layout)
      /\ s.x = Len(p.line) % Cols
      /\ Shows(s.cells, layout)

\* Cells are numbers.
LEMMA CellsAre == Cells \subseteq Nat
<1>1. Rows \in Nat /\ Cols \in Nat
  BY ConsoleAssumption
<1>2. Rows * Cols \in Int
  BY <1>1
<1> DEFINE n == Rows * Cols
<1> HIDE DEF n
<1>3. 0 .. n - 1 \subseteq Nat
  BY <1>2 DEF n
<1> QED
  BY <1>3 DEF Cells, n

\* Blanks behind the text change nothing that is shown.
LEMMA BlanksMatch ==
  ASSUME NEW layout \in Seq(Characters), NEW n \in Nat, NEW cells, Shows(cells, layout)
  PROVE  /\ Len(layout \o Blanks(n)) = Len(layout) + n
         /\ Shows(cells, layout \o Blanks(n))
<1> DEFINE blanks == Blanks(n)
<1>1. blanks \in Seq(Characters) /\ Len(blanks) = n /\ \A i \in 1 .. n : blanks[i] = Space
  BY BlanksAre
<1>2. Cells \subseteq Nat
  BY CellsAre
<1> HIDE DEF blanks
<1>3. /\ Len(layout \o blanks) = Len(layout) + n /\ Len(layout) \in Nat
      /\ \A i \in 1 .. Len(layout) : (layout \o blanks)[i] = layout[i]
      /\ \A i \in (Len(layout) + 1) .. (Len(layout) + n) :
           (layout \o blanks)[i] = blanks[i - Len(layout)]
  <2>1. Len(layout) \in Nat
    OBVIOUS
  <2>2. /\ Len(layout \o blanks) = Len(layout) + n
        /\ \A i \in 1 .. Len(layout) + n :
             (layout \o blanks)[i] = IF i <= Len(layout) THEN layout[i] ELSE blanks[i - Len(layout)]
    BY <1>1, ConcatProperties
  <2> QED
    BY <2>1, <2>2
<1>4. ASSUME NEW c \in Cells
      PROVE  cells[c] = IF c < Len(layout) + n THEN (layout \o blanks)[c + 1] ELSE Space
  <2> USE DEF Shows
  <2>1. CASE c < Len(layout)
    BY <1>2, <1>3, <2>1
  <2>2. CASE c >= Len(layout) /\ c < Len(layout) + n
    <3>1. (layout \o blanks)[c + 1] = blanks[(c + 1) - Len(layout)]
      BY <1>2, <1>3, <2>2
    <3>2. (c + 1) - Len(layout) \in 1 .. n
      BY <1>2, <1>3, <2>2
    <3> QED
      BY <1>1, <1>2, <1>3, <2>2, <3>1, <3>2
  <2>3. CASE c >= Len(layout) + n
    BY <1>2, <1>3, <2>3
  <2> QED
    BY <1>2, <1>3, <2>1, <2>2, <2>3
<1> QED
  BY <1>3, <1>4 DEF blanks, Shows

\* A character on the screen is one on the page.
LEMMA PutMatches ==
  ASSUME NEW s \in Screens, NEW p \in Pages, Matches(s, p),
         NEW ch \in Characters \ {"BS", "\r"}
  PROVE  Matches(screen_put(s, ch), Laid(p, ch))
<1> DEFINE layout == p.rows \o p.line
           add == Addition(p, ch)
           moved == Moved(s, ch)
           x == s.x
           n == Len(p.line)
<1>1. /\ Cols \in Nat \ {0} /\ TabLen \in Nat \ {0}
      /\ s.x \in 0 .. Cols - 1 /\ s.y \in Nat /\ s.cells \in [Cells -> Characters]
      /\ s = [cells |-> s.cells, x |-> s.x, y |-> s.y]
      /\ n \in Nat /\ layout \in Seq(Characters) /\ Len(layout) \in Nat
  BY ConsoleAssumption DEF Screens, Pages
<1>2. /\ s.y * Cols + x = Len(layout) /\ x = n % Cols
      /\ Shows(s.cells, layout)
  BY DEF Matches
<1>3. /\ Laid(p, ch) \in Pages /\ add \in Seq(Characters)
      /\ Len(Laid(p, ch).line) = IF ch = "\n" THEN 0 ELSE n + Len(add)
      /\ Laid(p, ch).rows \o Laid(p, ch).line = layout \o add
  BY PageGrows
<1> DEFINE put == screen_put(s, ch)
<1>4. put = IF moved.x >= Cols THEN [moved EXCEPT !.x = 0, !.y = @ + 1] ELSE moved
  BY DEF screen_put
<1>5. SUFFICES /\ put.y * Cols + put.x = Len(layout \o add)
               /\ put.x = Len(Laid(p, ch).line) % Cols
               /\ Shows(put.cells, layout \o add)
  BY <1>3, Zenon DEF Matches
<1>6. CASE ch = "\n"
  <2>1. moved = [s EXCEPT !.x = 0, !.y = @ + 1]
    BY <1>6, MovedCases
  <2>2. moved = [cells |-> s.cells, x |-> 0, y |-> s.y + 1]
    BY <2>1, <1>1
  <2>3. put = [cells |-> s.cells, x |-> 0, y |-> s.y + 1]
    <3> HIDE DEF moved, put
    <3>1. moved.x = 0 /\ ~(0 >= Cols)
      BY <2>2, <1>1
    <3> QED
      BY <1>4, <2>2, <3>1
  <2>4. add = Blanks(Cols - x) /\ Cols - x \in Nat
    BY <1>1, <1>2, <1>6 DEF Addition
  <2> HIDE DEF put, add, layout, n
  <2>5. /\ Len(layout \o add) = Len(layout) + (Cols - x)
        /\ Shows(s.cells, layout \o add)
    BY <1>1, <1>2, <2>4, BlanksMatch
  <2>6. (s.y + 1) * Cols + 0 = Len(layout) + (Cols - x)
    BY <1>1, <1>2
  <2>7. 0 = Len(Laid(p, ch).line) % Cols
    BY <1>1, <1>3, <1>6
  <2>8. put.cells = s.cells /\ put.x = 0 /\ put.y = s.y + 1
    BY <2>3
  <2> QED
    BY <2>5, <2>6, <2>7, <2>8
\* The other characters move the cursor on by k, over the end of the row or not.
<1>7. ASSUME NEW k \in 1 .. Cols - x, moved.x = x + k, moved.y = s.y,
             moved = [cells |-> moved.cells, x |-> moved.x, y |-> moved.y],
             Len(add) = k, ch # "\n"
      PROVE  /\ put.y * Cols + put.x = Len(layout \o add)
             /\ put.x = Len(Laid(p, ch).line) % Cols
             /\ put.cells = moved.cells
  <2> HIDE DEF moved, put, add, layout, n
  <2>1. Len(layout \o add) = Len(layout) + k /\ k \in Nat /\ x + k <= Cols
    BY <1>1, <1>3, <1>7, SMTT(60)
  <2>2. (n + k) % Cols = IF x + k = Cols THEN 0 ELSE x + k
    BY <1>1, <1>2, CursorMoves, SMTT(60)
  <2>3. Len(Laid(p, ch).line) = n + k
    BY <1>3, <1>7
  <2>4. CASE x + k = Cols
    <3>1. put = [cells |-> moved.cells, x |-> 0, y |-> s.y + 1]
      <4> DEFINE m == [moved EXCEPT !.x = 0]
      <4>1. m = [cells |-> moved.cells, x |-> 0, y |-> moved.y]
        BY <1>7
      <4>2. put = [m EXCEPT !.y = moved.y + 1]
        BY <1>1, <1>4, <1>7, <2>4
      <4> HIDE DEF m
      <4> QED
        BY <1>7, <4>1, <4>2
    <3>2. (s.y + 1) * Cols + 0 = Len(layout) + k
      BY <1>1, <1>2, <2>1, <2>4, SMTT(60)
    <3>3. put.cells = moved.cells /\ put.x = 0 /\ put.y = s.y + 1
      BY <3>1
    <3> QED
      BY <2>1, <2>2, <2>3, <2>4, <3>2, <3>3
  <2>5. CASE x + k # Cols
    <3>1. put = moved
      BY <1>1, <1>4, <1>7, <2>1, <2>5, SMTT(60)
    <3>2. s.y * Cols + (x + k) = Len(layout) + k
      BY <1>1, <1>2, <2>1, SMTT(60)
    <3> QED
      BY <1>7, <2>1, <2>2, <2>3, <2>5, <3>1, <3>2
  <2> QED
    BY <2>4, <2>5
<1>8. CASE ch = "\t"
  <2> DEFINE k == TabLen - (x % TabLen)
  <2>1. moved = [s EXCEPT !.x = ((@ + TabLen) \div TabLen) * TabLen]
    BY <1>8, MovedCases
  <2>2. moved = [cells |-> s.cells, x |-> ((s.x + TabLen) \div TabLen) * TabLen, y |-> s.y]
    BY <2>1, <1>1
  <2>3. /\ ((x + TabLen) \div TabLen) * TabLen = x + k
        /\ x + k \in (x + 1) .. Cols /\ x % TabLen \in 0 .. TabLen - 1
    BY <1>1, TabStop
  <2>4. k \in 1 .. Cols - x /\ k \in Nat
    <3>1. k \in Int
      BY <2>3, ConsoleAssumption
    <3>2. x \in Nat /\ Cols \in Nat
      BY <1>1
    <3> HIDE DEF k
    <3>3. x + k >= x + 1 /\ x + k =< Cols
      BY <2>3
    <3> QED
      BY <3>1, <3>2, <3>3
  <2>5. add = Blanks(k)
    <3>1. n % TabLen = x % TabLen
      BY <1>1, <1>2, TabsOfRows
    <3>2. add = Blanks(TabLen - (n % TabLen))
      BY <1>8 DEF Addition
    <3> QED
      BY <3>1, <3>2
  <2>6. Len(add) = k
    BY <2>4, <2>5, BlanksAre
  <2>7. moved.x = x + k /\ moved.y = s.y /\ moved.cells = s.cells
    BY <2>2, <2>3
  <2> HIDE DEF k, add, layout, moved, put
  <2>8. moved = [cells |-> moved.cells, x |-> moved.x, y |-> moved.y]
    BY <2>2
  <2>9. Shows(s.cells, layout \o add)
    BY <1>1, <1>2, <2>4, <2>5, BlanksMatch, SMTT(60)
  <2> QED
    BY <1>7, <1>8, <2>4, <2>6, <2>7, <2>8, <2>9
<1>9. CASE ch \notin Controls
  <2>0. ch # "\n" /\ ch # "\t"
    BY <1>9, ControlsAssumption
  <2> DEFINE cells == [c \in Cells |-> IF c = s.y * Cols + s.x THEN ch ELSE s.cells[c]]
  <2>1. moved = [s EXCEPT !.x = @ + 1,
                          !.cells = [c \in Cells |-> IF c = s.y * Cols + s.x
                                                     THEN ch ELSE @[c]]]
    BY <1>9, MovedCases
  <2>2. moved = [cells |-> cells, x |-> s.x + 1, y |-> s.y]
    BY <2>1, <1>1
  <2> HIDE DEF moved
  <2>3. moved.cells = cells /\ moved.x = x + 1 /\ moved.y = s.y
    BY <2>2
  <2>4. add = <<ch>> /\ Len(add) = 1
    BY <1>9, <2>0 DEF Addition
  <2>5. moved = [cells |-> moved.cells, x |-> moved.x, y |-> moved.y] /\ 1 \in 1 .. Cols - x
    BY <1>1, <2>2, <2>3
  <2>6. ASSUME NEW c \in Cells
        PROVE  cells[c] = IF c < Len(layout \o add) THEN (layout \o add)[c + 1] ELSE Space
    <3> HIDE DEF add, layout
    <3>1. /\ Len(layout \o add) = Len(layout) + 1
          /\ \A i \in 1 .. Len(layout) : (layout \o add)[i] = layout[i]
          /\ (layout \o add)[Len(layout) + 1] = ch
      BY <1>1, <1>3, <2>4
    <3>2. cells[c] = IF c = Len(layout) THEN ch ELSE s.cells[c]
      BY <1>2
    <3>3. s.cells[c] = IF c < Len(layout) THEN layout[c + 1] ELSE Space
      BY <1>2 DEF Shows
    <3>4. c \in Nat
      BY CellsAre
    <3> HIDE DEF cells
    <3> QED
      BY <1>1, <3>1, <3>2, <3>3, <3>4, SMTT(60)
  <2> HIDE DEF cells, add, layout, put
  <2>7. Shows(cells, layout \o add)
    BY <2>6 DEF Shows
  <2> QED
    BY <1>7, <2>0, <2>3, <2>4, <2>5, <2>7
\* The other control characters are ignored, and so they are on the page.
<1>10. CASE ch \in Controls \ {"\n", "\t"}
  <2>1. moved = s
    BY <1>10, MovedCases
  <2>2. add = <<>>
    BY <1>10, Zenon DEF Addition
  <2> HIDE DEF moved, add
  <2>3. put = s
    <3>1. ~(s.x >= Cols)
      BY <1>1
    <3> QED
      BY <1>4, <2>1, <3>1
  <2> HIDE DEF put, layout, n
  <2>4. layout \o add = layout /\ Len(layout \o add) = Len(layout)
    BY <1>1, <2>2
  <2>5. Len(Laid(p, ch).line) = n
    <3>1. Len(add) = 0
      BY <2>2
    <3> QED
      BY <1>1, <1>3, <1>10, <3>1
  <2> QED
    BY <1>2, <2>3, <2>4, <2>5
<1> QED
  BY <1>6, <1>8, <1>9, <1>10

EmptyPage == [rows |-> <<>>, line |-> <<>>]

\* A page is filled character by character.
LEMMA LayoutSteps ==
  ASSUME NEW text \in Seq(Characters)
  PROVE  \E page \in [0 .. Len(text) -> Pages] :
           /\ page[0] = EmptyPage /\ Layout(text) = page[Len(text)]
           /\ \A n \in 1 .. Len(text) : page[n] = Laid(page[n - 1], text[n])
<1> DEFINE N == Len(text)
           Eqn(page) == page = [n \in 0 .. N |-> IF n = 0 THEN EmptyPage
                                                 ELSE Laid(page[n - 1], text[n])]
           g == [nx \in (1 .. N) \X Pages |-> Laid(nx[2], text[nx[1]])]
<1>1. N \in Nat /\ \A n \in 1 .. N : text[n] \in Characters
  OBVIOUS
<1>2. g \in [(1 .. N) \X Pages -> Pages]
  <2>1. ASSUME NEW nx \in (1 .. N) \X Pages
        PROVE  Laid(nx[2], text[nx[1]]) \in Pages
    BY <1>1, PageGrows
  <2> QED
    BY <2>1
<1>3. \A n \in 1 .. N, x \in Pages : g[<<n, x>>] = Laid(x, text[n])
  OBVIOUS
<1>4. EmptyPage \in Pages
  BY DEF EmptyPage, Pages
<1> HIDE DEF g, N
<1>5. PICK f : Iteration(f, Pages, EmptyPage, N, g)
  <2> HIDE DEF Eqn
  <2> QED
    BY <1>1, <1>2, <1>4, Iterates
<1>6. Eqn(f)
  <2> USE <1>5 DEF Iteration
  <2>1. ASSUME NEW n \in 1 .. N PROVE f[n] = Laid(f[n - 1], text[n])
    <3>1. n - 1 \in 0 .. N
      BY <1>1
    <3> QED
      BY <1>3, <3>1
  <2> QED
    BY <1>1, <2>1
<1> DEFINE page == CHOOSE w : Eqn(w)
<1>7. Eqn(page)
  BY <1>6, Zenon
<1>8. Layout(text) = page[N]
  BY Zenon DEF Layout, N, EmptyPage
<1> HIDE DEF page
<1>9. /\ page[0] = EmptyPage
      /\ \A n \in 1 .. N : page[n] = Laid(page[n - 1], text[n])
      /\ page = [n \in 0 .. N |-> page[n]]
  <2>1. \A n \in 0 .. N : page[n] = IF n = 0 THEN EmptyPage ELSE Laid(page[n - 1], text[n])
    BY <1>7
  <2>2. page = [n \in 0 .. N |-> page[n]]
    BY <1>7
  <2> HIDE DEF Eqn
  <2>3. 0 \in 0 .. N /\ \A n \in 1 .. N : n \in 0 .. N /\ n # 0
    BY <1>1
  <2> QED
    BY <2>1, <2>2, <2>3, Zenon
<1>10. \A n \in 0 .. N : page[n] \in Pages
  <2> DEFINE P == {n \in 0 .. N : page[n] \in Pages}
  <2>1. 0 \in P
    BY <1>1, <1>4, <1>9
  <2>2. ASSUME NEW n \in 1 .. N, n - 1 \in P PROVE n \in P
    <3>1. page[n - 1] \in Pages /\ text[n] \in Characters /\ n \in 0 .. N
      BY <1>1, <2>2
    <3>2. Laid(page[n - 1], text[n]) \in Pages
      BY <3>1, PageGrows
    <3> QED
      BY <1>9, <3>1, <3>2
  <2> HIDE DEF P
  <2>3. \A n \in 0 .. N : n \in P
    BY <1>1, <2>1, <2>2, UpTo
  <2> QED
    BY <2>3 DEF P
<1> QED
  BY <1>8, <1>9, <1>10 DEF N

\* A screen that shows a text shows, with another one put on it, both.
LEMMA WrittenMatches ==
  ASSUME NEW s \in Screens, NEW a \in Seq(Characters), NEW b \in Seq(Characters),
         Matches(s, Layout(a)), Plain(b)
  PROVE  Matches(Written(s, b), Layout(a \o b))
<1> DEFINE N == Len(a)
           M == Len(b)
           c == a \o b
<1>1. /\ N \in Nat /\ M \in Nat /\ c \in Seq(Characters) /\ Len(c) = N + M
      /\ \A n \in 1 .. N : c[n] = a[n]
      /\ \A n \in 1 .. M : c[N + n] = b[n]
  <2>1. N \in Nat /\ M \in Nat
    OBVIOUS
  <2>2. /\ c \in Seq(Characters) /\ Len(c) = N + M
        /\ \A i \in 1 .. N + M : c[i] = IF i <= N THEN a[i] ELSE b[i - N]
    BY ConcatProperties
  <2> HIDE DEF c, N, M
  <2>3. \A n \in 1 .. M : N + n \in 1 .. N + M /\ ~(N + n <= N) /\ (N + n) - N = n
    BY <2>1
  <2>4. \A n \in 1 .. N : n \in 1 .. N + M /\ n <= N
    BY <2>1
  <2> QED
    BY <2>1, <2>2, <2>3, <2>4
<1>2. PICK on \in [0 .. M -> Screens] :
        /\ on[0] = s /\ Written(s, b) = on[M]
        /\ \A n \in 1 .. M : on[n] = screen_put(on[n - 1], b[n])
  BY WrittenSteps
<1>3. PICK pa \in [0 .. N -> Pages] :
        /\ pa[0] = EmptyPage /\ Layout(a) = pa[N]
        /\ \A n \in 1 .. N : pa[n] = Laid(pa[n - 1], a[n])
  BY LayoutSteps
<1> HIDE DEF c
<1>4. PICK pc \in [0 .. N + M -> Pages] :
        /\ pc[0] = EmptyPage /\ Layout(c) = pc[N + M]
        /\ \A n \in 1 .. N + M : pc[n] = Laid(pc[n - 1], c[n])
  <2>1. c \in Seq(Characters)
    BY <1>1
  <2>2. \E page \in [0 .. Len(c) -> Pages] :
          /\ page[0] = EmptyPage /\ Layout(c) = page[Len(c)]
          /\ \A n \in 1 .. Len(c) : page[n] = Laid(page[n - 1], c[n])
    BY <2>1, LayoutSteps
  <2>3. Len(c) = N + M
    BY <1>1
  <2> QED
    BY <2>2, <2>3
<1>5. \A n \in 1 .. M : b[n] \in Characters \ {"BS", "\r"}
  BY DEF Plain
<1> HIDE DEF N, M
<1>6. \A n \in 0 .. N : pc[n] = pa[n]
  <2> DEFINE P == {n \in 0 .. N : pc[n] = pa[n]}
  <2>1. 0 \in P
    BY <1>1, <1>3, <1>4
  <2>2. ASSUME NEW n \in 1 .. N, n - 1 \in P PROVE n \in P
    <3>1. n \in 1 .. N + M /\ n \in 0 .. N /\ pc[n - 1] = pa[n - 1]
      BY <1>1, <2>2
    <3> QED
      BY <1>1, <1>3, <1>4, <3>1
  <2> HIDE DEF P
  <2>3. \A n \in 0 .. N : n \in P
    BY <1>1, <2>1, <2>2, UpTo
  <2> QED
    BY <2>3 DEF P
<1>7. \A n \in 0 .. M : Matches(on[n], pc[N + n])
  <2> DEFINE P == {n \in 0 .. M : Matches(on[n], pc[N + n])}
  <2>1. 0 \in P
    <3>1. N \in 0 .. N /\ N + 0 = N /\ 0 \in 0 .. M
      BY <1>1
    <3> QED
      BY <1>2, <1>3, <1>6, <3>1
  <2>2. ASSUME NEW n \in 1 .. M, n - 1 \in P PROVE n \in P
    <3>1. /\ n \in 0 .. M /\ n - 1 \in 0 .. M /\ N + n \in 1 .. N + M
          /\ (N + n) - 1 = N + (n - 1) /\ (N + n) - 1 \in 0 .. N + M
      BY <1>1
    <3>2. Matches(on[n - 1], pc[N + (n - 1)])
      BY <2>2
    <3>3. /\ on[n] = screen_put(on[n - 1], b[n])
          /\ pc[N + n] = Laid(pc[N + (n - 1)], b[n])
      BY <1>1, <1>2, <1>4, <3>1
    <3>4. on[n - 1] \in Screens /\ pc[N + (n - 1)] \in Pages
      BY <3>1
    <3>5. Matches(screen_put(on[n - 1], b[n]), Laid(pc[N + (n - 1)], b[n]))
      BY <1>5, <3>2, <3>4, PutMatches
    <3> QED
      BY <3>1, <3>3, <3>5
  <2> HIDE DEF P
  <2>3. \A n \in 0 .. M : n \in P
    BY <1>1, <2>1, <2>2, UpTo
  <2> QED
    BY <2>3 DEF P
<1> QED
  <2>1. M \in 0 .. M
    BY <1>1
  <2> QED
    BY <1>2, <1>4, <1>7, <2>1 DEF c

-----------------------------------------------------------------------------
(* What is printed is text. *)

\* An int has an even number of values.
LEMMA ModulusIs ==
  /\ Modulus \in Nat \ {0} /\ Modulus \div 2 \in Nat \ {0}
  /\ Modulus = 2 * (Modulus \div 2)
<1> DEFINE Eqn(power) == power = [n \in 0 .. Width |-> IF n = 0 THEN 1 ELSE 2 * power[n - 1]]
           g == [nx \in (1 .. Width) \X (Nat \ {0}) |-> 2 * nx[2]]
<1>1. Width \in Nat \ {0}
  BY WidthAssumption
<1>2. g \in [(1 .. Width) \X (Nat \ {0}) -> Nat \ {0}]
  OBVIOUS
<1>3. \A n \in 1 .. Width, x \in Nat \ {0} : g[<<n, x>>] = 2 * x
  OBVIOUS
<1> HIDE DEF g
<1>4. PICK f : Iteration(f, Nat \ {0}, 1, Width, g)
  <2> HIDE DEF Eqn
  <2>1. 1 \in Nat \ {0} /\ Width \in Nat
    BY <1>1
  <2> QED
    BY <1>2, <2>1, Iterates
<1>5. Eqn(f)
  <2> USE <1>4 DEF Iteration
  <2>1. ASSUME NEW n \in 1 .. Width PROVE f[n] = 2 * f[n - 1]
    <3>1. n - 1 \in 0 .. Width
      BY <1>1
    <3> QED
      BY <1>3, <3>1
  <2> QED
    BY <1>1, <2>1
<1> DEFINE power == CHOOSE w : Eqn(w)
<1>6. Eqn(power)
  BY <1>5, Zenon
<1>7. Modulus = power[Width]
  BY Zenon DEF Modulus
<1> HIDE DEF power
<1>8. power[0] = 1 /\ \A n \in 1 .. Width : power[n] = 2 * power[n - 1]
  <2>1. \A n \in 0 .. Width : power[n] = IF n = 0 THEN 1 ELSE 2 * power[n - 1]
    BY <1>6
  <2> HIDE DEF Eqn
  <2>3. 0 \in 0 .. Width /\ \A n \in 1 .. Width : n \in 0 .. Width /\ n # 0
    BY <1>1
  <2> QED
    BY <2>1, <2>3, Zenon
<1>9. \A n \in 0 .. Width : power[n] \in Nat \ {0}
  <2> DEFINE P == {n \in 0 .. Width : power[n] \in Nat \ {0}}
  <2>1. 0 \in P
    BY <1>1, <1>8
  <2>2. ASSUME NEW n \in 1 .. Width, n - 1 \in P PROVE n \in P
    BY <1>1, <1>8, <2>2
  <2> HIDE DEF P
  <2>3. \A n \in 0 .. Width : n \in P
    BY <1>1, <2>1, <2>2, UpTo
  <2> QED
    BY <2>3 DEF P
<1> DEFINE half == power[Width - 1]
<1>10. half \in Nat \ {0} /\ Modulus = 2 * half
  <2>1. Width \in 1 .. Width /\ Width - 1 \in 0 .. Width
    BY <1>1
  <2> QED
    BY <1>7, <1>8, <1>9, <2>1
<1> HIDE DEF half
<1>11. (2 * half) \div 2 = half
  BY <1>10
<1> QED
  BY <1>10, <1>11

\* Texts one behind the other are a text.
LEMMA FlattenIs ==
  ASSUME NEW S, NEW seqs \in Seq(Seq(S))
  PROVE  FlattenSeq(seqs) \in Seq(S)
<1> DEFINE N == Len(seqs)
           Eqn(flatten) == flatten = [i \in 1 .. N |-> IF i = 1 THEN seqs[i]
                                                      ELSE flatten[i - 1] \o seqs[i]]
           g == [nx \in (1 .. N) \X Seq(S) |->
                   IF nx[1] = 1 THEN seqs[nx[1]] ELSE nx[2] \o seqs[nx[1]]]
<1>1. N \in Nat /\ \A n \in 1 .. N : seqs[n] \in Seq(S)
  OBVIOUS
<1>2. CASE N = 0
  <2>1. seqs = <<>>
    BY <1>2
  <2> QED
    BY <1>2, <2>1 DEF FlattenSeq
<1>3. CASE N # 0
  <2>1. g \in [(1 .. N) \X Seq(S) -> Seq(S)]
    <3>1. ASSUME NEW nx \in (1 .. N) \X Seq(S)
          PROVE  (IF nx[1] = 1 THEN seqs[nx[1]] ELSE nx[2] \o seqs[nx[1]]) \in Seq(S)
      BY <1>1
    <3> QED
      BY <3>1
  <2>2. \A n \in 1 .. N, x \in Seq(S) :
          g[<<n, x>>] = IF n = 1 THEN seqs[n] ELSE x \o seqs[n]
    OBVIOUS
  <2> HIDE DEF g
  <2>3. FlattenSeq(seqs) = (CHOOSE w : Eqn(w))[N]
    BY <1>3, Zenon DEF FlattenSeq
  <2> HIDE DEF N
  <2>4. PICK f : Iteration(f, Seq(S), <<>>, N, g)
    <3> HIDE DEF Eqn
    <3>1. <<>> \in Seq(S)
      OBVIOUS
    <3> QED
      BY <1>1, <2>1, <3>1, Iterates
  <2> DEFINE h == [i \in 1 .. N |-> f[i]]
  <2>5. Eqn(h)
    <3>1. ASSUME NEW n \in 1 .. N
          PROVE  h[n] = IF n = 1 THEN seqs[n] ELSE h[n - 1] \o seqs[n]
      <4>1. n - 1 \in 0 .. N /\ f[n - 1] \in Seq(S) /\ f[n] = g[<<n, f[n - 1]>>]
        BY <1>1, <2>4 DEF Iteration
      <4>2. n # 1 => n - 1 \in 1 .. N
        BY <1>1
      <4> QED
        BY <2>2, <4>1, <4>2
    <3> QED
      BY <3>1
  <2> DEFINE flatten == CHOOSE w : Eqn(w)
  <2>6. Eqn(flatten)
    BY <2>5, Zenon
  <2> HIDE DEF flatten
  <2>7. \A i \in 1 .. N : flatten[i] = IF i = 1 THEN seqs[i] ELSE flatten[i - 1] \o seqs[i]
    BY <2>6
  <2> DEFINE P == {n \in 0 .. N : n = 0 \/ flatten[n] \in Seq(S)}
  <2> HIDE DEF Eqn
  <2>8. 0 \in P
    BY <1>1
  <2>9. ASSUME NEW n \in 1 .. N, n - 1 \in P PROVE n \in P
    <3>1. n \in 0 .. N /\ (n = 1 \/ flatten[n - 1] \in Seq(S))
      BY <1>1, <2>9
    <3>2. flatten[n] \in Seq(S)
      <4>1. CASE n = 1
        BY <1>1, <2>7, <4>1
      <4>2. CASE n # 1
        <5>1. flatten[n] = flatten[n - 1] \o seqs[n]
          BY <2>7, <4>2
        <5>2. flatten[n - 1] \in Seq(S) /\ seqs[n] \in Seq(S)
          BY <1>1, <3>1, <4>2
        <5> QED
          BY <5>1, <5>2
      <4> QED
        BY <4>1, <4>2
    <3> QED
      BY <3>1, <3>2
  <2> HIDE DEF P
  <2>10. N \in P
    <3>1. \A n \in 0 .. N : n \in P
      BY <1>1, <2>8, <2>9, UpTo
    <3> QED
      BY <1>1, <3>1
  <2> QED
    BY <1>3, <2>3, <2>10 DEF P, flatten
<1> QED
  BY <1>2, <1>3

\* The digits of a number: those of its quotient by the base, and one more.
LEMMA NumeralSteps ==
  ASSUME NEW v \in Nat, NEW base \in 2 .. 16
  PROVE  \E f \in [0 .. v -> Seq(Characters)] :
           /\ Numeral(v, base) = f[v]
           /\ \A n \in 0 .. v :
                /\ n \div base \in 0 .. n /\ n % base \in 0 .. base - 1
                /\ Digits[(n % base) + 1] \in Characters
                /\ n >= base => n \div base \in 1 .. n - 1
                /\ f[n] = IF n < base THEN <<Digits[n + 1]>>
                          ELSE f[n \div base] \o <<Digits[(n % base) + 1]>>
<1> DEFINE q(n) == n \div base
           d(n) == Digits[(n % base) + 1]
           Eqn(f) == f = [n \in 0 .. v |-> (IF n \div base > 0 THEN f[n \div base] ELSE <<>>)
                                             \o <<Digits[(n % base) + 1]>>]
           Good(k, f) == \A n \in 0 .. k : f[n] = (IF q(n) > 0 THEN f[q(n)] ELSE <<>>) \o <<d(n)>>
           P == {k \in 0 .. v : \E f \in [0 .. k -> Seq(Characters)] : Good(k, f)}
<1>1. ASSUME NEW n \in Nat
      PROVE  /\ q(n) \in 0 .. n /\ n % base \in 0 .. base - 1
             /\ q(n) > 0 => q(n) \in 1 .. n - 1
             /\ q(n) > 0 <=> n >= base
             /\ n < base => n % base = n
  OBVIOUS
<1>2. ASSUME NEW n \in Nat PROVE d(n) \in Characters
  <2>1. \A i \in 1 .. 16 : Digits[i] \in Characters
    BY CharactersAssumption DEF Digits, ToSet
  <2>2. (n % base) + 1 \in 1 .. 16
    BY <1>1
  <2> QED
    BY <2>1, <2>2
<1> HIDE DEF q, d
<1>3. 0 \in P
  <2> DEFINE f == [n \in 0 .. 0 |-> <<d(0)>>]
  <2>1. <<d(0)>> \in Seq(Characters) /\ q(0) = 0
    BY <1>1, <1>2
  <2>2. f \in [0 .. 0 -> Seq(Characters)]
    BY <2>1
  <2>3. <<>> \o <<d(0)>> = <<d(0)>>
    BY <2>1
  <2>4. Good(0, f)
    BY <2>1, <2>3
  <2> HIDE DEF f, Good
  <2> QED
    BY <2>2, <2>4
<1>4. ASSUME NEW k \in 1 .. v, k - 1 \in P PROVE k \in P
  <2>1. PICK f \in [0 .. k - 1 -> Seq(Characters)] : Good(k - 1, f)
    BY <1>4
  <2> DEFINE t == (IF q(k) > 0 THEN f[q(k)] ELSE <<>>) \o <<d(k)>>
             h == [n \in 0 .. k |-> IF n = k THEN t ELSE f[n]]
  <2>2. t \in Seq(Characters)
    <3>1. k \in Nat /\ d(k) \in Characters
      BY <1>2
    <3>2. q(k) > 0 => f[q(k)] \in Seq(Characters)
      BY <1>1, <2>1, <3>1
    <3> QED
      BY <3>1, <3>2
  <2> HIDE DEF t
  <2>3. h \in [0 .. k -> Seq(Characters)]
    BY <2>1, <2>2
  <2>4. Good(k, h)
    <3>1. ASSUME NEW n \in 0 .. k
          PROVE  h[n] = (IF q(n) > 0 THEN h[q(n)] ELSE <<>>) \o <<d(n)>>
      <4>1. n \in Nat /\ (q(n) > 0 => q(n) \in 1 .. n - 1)
        BY <1>1
      <4>2. q(n) > 0 => q(n) \in 0 .. k - 1 /\ q(n) # k /\ q(n) \in 0 .. k
        BY <4>1
      <4>3. q(n) > 0 => h[q(n)] = f[q(n)]
        BY <4>2
      <4>4. CASE n = k
        <5>1. h[n] = t
          BY <4>4
        <5> HIDE DEF h
        <5> QED
          BY <4>3, <4>4, <5>1 DEF t
      <4>5. CASE n # k
        <5>1. h[n] = f[n] /\ n \in 0 .. k - 1
          BY <4>5
        <5> HIDE DEF h
        <5> QED
          BY <2>1, <4>3, <5>1
      <4> QED
        BY <4>4, <4>5
    <3> HIDE DEF h
    <3> QED
      BY <3>1
  <2> HIDE DEF h, Good
  <2> QED
    BY <2>3, <2>4
<1> HIDE DEF P
<1>5. v \in P
  BY <1>3, <1>4, UpTo
<1>6. PICK f0 \in [0 .. v -> Seq(Characters)] : Good(v, f0)
  BY <1>5 DEF P
<1>7. Eqn(f0)
  BY <1>6 DEF q, d
<1> DEFINE f == CHOOSE w : Eqn(w)
<1>8. Eqn(f)
  BY <1>7, Zenon
<1>9. Numeral(v, base) = f[v]
  BY Zenon DEF Numeral
<1> HIDE DEF f
<1>10. f = [n \in 0 .. v |-> f[n]] /\ Good(v, f)
  BY <1>8 DEF q, d
<1> HIDE DEF Eqn
<1>11. \A n \in 0 .. v : f[n] \in Seq(Characters)
  <2> DEFINE M == {n \in 0 .. v : f[n] \notin Seq(Characters)}
  <2> SUFFICES ASSUME M # {} PROVE FALSE
    OBVIOUS
  <2>1. PICK m \in M : \A j \in M : m <= j
    <3>1. M \in SUBSET Nat
      OBVIOUS
    <3> HIDE DEF M
    <3> QED
      BY <3>1, LeastNat
  <2>2. m \in 0 .. v /\ m \in Nat
    BY <2>1
  <2>3. q(m) > 0 => q(m) \in 1 .. m - 1
    BY <1>1, <2>2
  <2>4. q(m) > 0 => f[q(m)] \in Seq(Characters)
    <3>1. q(m) > 0 => q(m) \in 0 .. v /\ ~(m <= q(m))
      BY <2>2, <2>3
    <3> QED
      BY <2>1, <3>1
  <2>5. f[m] = (IF q(m) > 0 THEN f[q(m)] ELSE <<>>) \o <<d(m)>>
    BY <1>10, <2>2
  <2>6. f[m] \in Seq(Characters)
    BY <1>2, <2>2, <2>4, <2>5
  <2> QED
    BY <2>1, <2>6
<1>12. ASSUME NEW n \in 0 .. v
       PROVE  f[n] = IF n < base THEN <<Digits[n + 1]>> ELSE f[q(n)] \o <<d(n)>>
  <2>1. n \in Nat /\ d(n) \in Characters
    BY <1>2
  <2>2. f[n] = (IF q(n) > 0 THEN f[q(n)] ELSE <<>>) \o <<d(n)>>
    BY <1>10
  <2>3. <<>> \o <<d(n)>> = <<d(n)>>
    BY <2>1
  <2>4. (q(n) > 0 <=> n >= base) /\ (n < base => n % base = n)
    BY <1>1, <2>1
  <2>5. n < base => d(n) = Digits[n + 1]
    BY <2>4 DEF d
  <2>6. CASE n < base
    <3>1. ~(q(n) > 0)
      BY <2>1, <2>4, <2>6
    <3>2. f[n] = <<>> \o <<d(n)>>
      BY <2>2, <3>1, Zenon
    <3> QED
      BY <2>3, <2>5, <2>6, <3>2
  <2>7. CASE n >= base
    <3>1. f[n] = f[q(n)] \o <<d(n)>>
      BY <2>2, <2>4, <2>7
    <3>2. ~(n < base)
      BY <2>1, <2>7
    <3> QED
      BY <3>1, <3>2
  <2> QED
    BY <2>1, <2>6, <2>7
<1>13. f \in [0 .. v -> Seq(Characters)]
  BY <1>10, <1>11
<1>14. ASSUME NEW n \in 0 .. v
       PROVE  /\ n \div base \in 0 .. n /\ n % base \in 0 .. base - 1
              /\ Digits[(n % base) + 1] \in Characters
              /\ n >= base => n \div base \in 1 .. n - 1
  <2>1. n \in Nat
    OBVIOUS
  <2> QED
    BY <1>1, <1>2, <2>1 DEF q, d
<1> HIDE DEF Good
<1> QED
  BY <1>9, <1>12, <1>13, <1>14 DEF q, d

\* A number is written in characters.
LEMMA NumeralIs ==
  ASSUME NEW v \in Nat, NEW base \in 2 .. 16
  PROVE  Numeral(v, base) \in Seq(Characters)
<1>1. PICK f \in [0 .. v -> Seq(Characters)] : Numeral(v, base) = f[v]
  BY NumeralSteps
<1>2. v \in 0 .. v
  OBVIOUS
<1> QED
  BY <1>1, <1>2

\* What is written for the numbers a program has.
LEMMA NumbersPrint ==
  ASSUME NEW v \in 0 .. Modulus - 1
  PROVE  /\ Signed(v) < 0 => -Signed(v) \in 1 .. (Modulus \div 2)
         /\ Signed(v) >= 0 => Signed(v) = v
         /\ Signed(v) \in Int
         /\ print_dec(v) = IF Signed(v) < 0 THEN <<"-">> \o Numeral(-Signed(v), 10)
                           ELSE Numeral(v, 10)
         /\ print_dec(v) \in Seq(Characters) /\ print_hex(v) \in Seq(Characters)
<1> DEFINE half == Modulus \div 2
<1>1. half \in Nat \ {0} /\ Modulus = 2 * half /\ Modulus \in Nat
  BY ModulusIs
<1>2. Signed(v) = IF v < half THEN v ELSE v - Modulus
  BY DEF Signed
<1>3. print_dec(v) =
        IF Signed(v) = -half THEN <<"-">> \o Numeral(half, 10)
        ELSE IF Signed(v) < 0 THEN <<"-">> \o Numeral(-Signed(v), 10)
        ELSE Numeral(v, 10)
  BY DEF print_dec
<1> HIDE DEF half
<1>4. /\ Signed(v) \in Int /\ v \in Nat
      /\ Signed(v) < 0 => -Signed(v) \in 1 .. half
      /\ Signed(v) >= 0 => Signed(v) = v
  BY <1>1, <1>2
<1>5. print_dec(v) = IF Signed(v) < 0 THEN <<"-">> \o Numeral(-Signed(v), 10)
                     ELSE Numeral(v, 10)
  <2>1. CASE Signed(v) = -half
    <3>1. -Signed(v) = half /\ Signed(v) < 0
      BY <1>1, <2>1
    <3>2. print_dec(v) = <<"-">> \o Numeral(half, 10)
      BY <1>3, <2>1, Zenon
    <3> QED
      BY <3>1, <3>2
  <2>2. CASE Signed(v) # -half
    BY <1>3, <2>2, Zenon
  <2> QED
    BY <2>1, <2>2
<1>6. "-" \in Characters /\ 10 \in 2 .. 16 /\ 16 \in 2 .. 16
  BY CharactersAssumption
<1>7. print_dec(v) \in Seq(Characters)
  <2>1. CASE Signed(v) < 0
    <3>1. -Signed(v) \in Nat
      BY <1>1, <1>4, <2>1
    <3>2. Numeral(-Signed(v), 10) \in Seq(Characters)
      BY <1>6, <3>1, NumeralIs
    <3>3. print_dec(v) = <<"-">> \o Numeral(-Signed(v), 10)
      BY <1>5, <2>1, Zenon
    <3> QED
      BY <1>6, <3>2, <3>3
  <2>2. CASE ~(Signed(v) < 0)
    <3>1. Numeral(v, 10) \in Seq(Characters)
      BY <1>4, <1>6, NumeralIs
    <3>2. print_dec(v) = Numeral(v, 10)
      BY <1>5, <2>2, Zenon
    <3> QED
      BY <3>1, <3>2
  <2> QED
    BY <2>1, <2>2
<1>8. print_hex(v) \in Seq(Characters)
  BY <1>4, <1>6, NumeralIs DEF print_hex
<1> QED
  BY <1>4, <1>5, <1>7, <1>8 DEF half

ItemSet == [conv : BOOLEAN, ch : Characters, arg : Nat]
ParseStates == [items : Seq(ItemSet), percent : BOOLEAN, used : Nat]
ParseStart == [items |-> <<>>, percent |-> FALSE, used |-> 0]

\* A character of a format adds an item at most.
LEMMA ParseIs ==
  ASSUME NEW st \in ParseStates, NEW ch \in Characters
  PROVE  /\ Parse(st, ch) \in ParseStates
         /\ st.percent /\ ch # Space =>
              Parse(st, ch) =
                [items |-> Append(st.items, [conv |-> TRUE, ch |-> ch, arg |-> st.used + 1]),
                 percent |-> FALSE,
                 used |-> IF Takes(ch) THEN st.used + 1 ELSE st.used]
         /\ ~st.percent /\ ch = "%" =>
              Parse(st, ch) = [items |-> st.items, percent |-> TRUE, used |-> st.used]
         /\ ~st.percent /\ ch # "%" =>
              Parse(st, ch) =
                [items |-> Append(st.items, [conv |-> FALSE, ch |-> ch, arg |-> st.used + 1]),
                 percent |-> FALSE, used |-> st.used]
<1>1. /\ st.items \in Seq(ItemSet) /\ st.percent \in BOOLEAN /\ st.used \in Nat
      /\ st = [items |-> st.items, percent |-> st.percent, used |-> st.used]
  BY DEF ParseStates
<1> DEFINE item(conv) == [conv |-> conv, ch |-> ch, arg |-> st.used + 1]
<1>2. \A conv \in BOOLEAN : item(conv) \in ItemSet
  BY <1>1 DEF ItemSet
<1>3. \A conv \in BOOLEAN : Append(st.items, item(conv)) \in Seq(ItemSet)
  BY <1>1, <1>2
<1>4. Parse(st, ch) =
        IF st.percent
        THEN IF ch = Space THEN st
             ELSE [items |-> Append(st.items, item(TRUE)), percent |-> FALSE,
                   used |-> IF Takes(ch) THEN st.used + 1 ELSE st.used]
        ELSE IF ch = "%" THEN [st EXCEPT !.percent = TRUE]
        ELSE [st EXCEPT !.items = Append(@, item(FALSE))]
  BY Zenon DEF Parse
<1> HIDE DEF item
<1>5. CASE st.percent /\ ch = Space
  BY <1>4, <1>5
<1>6. CASE st.percent /\ ch # Space
  <2> DEFINE used == IF Takes(ch) THEN st.used + 1 ELSE st.used
             items == Append(st.items, item(TRUE))
  <2>1. used \in Nat /\ items \in Seq(ItemSet)
    <3>1. st.used \in Nat /\ st.used + 1 \in Nat
      BY <1>1
    <3>2. used = st.used \/ used = st.used + 1
      BY Zenon
    <3>3. TRUE \in BOOLEAN
      OBVIOUS
    <3> QED
      BY <1>3, <3>1, <3>2, <3>3, Zenon
  <2>2. Parse(st, ch) = [items |-> items, percent |-> FALSE, used |-> used]
    BY <1>4, <1>6
  <2>3. [items |-> items, percent |-> FALSE, used |-> used] \in ParseStates
    <3> HIDE DEF items, used
    <3> QED
      BY <2>1 DEF ParseStates
  <2> QED
    BY <1>6, <2>2, <2>3 DEF item
<1>7. CASE ~st.percent /\ ch = "%"
  <2>1. Parse(st, ch) = [st EXCEPT !.percent = TRUE]
    BY <1>4, <1>7
  <2>2. Parse(st, ch) = [items |-> st.items, percent |-> TRUE, used |-> st.used]
    BY <1>1, <2>1
  <2>3. Parse(st, ch) \in ParseStates
    BY <1>1, <2>2 DEF ParseStates
  <2> QED
    BY <1>7, <2>2, <2>3
<1>8. CASE ~st.percent /\ ch # "%"
  <2> DEFINE items == Append(st.items, item(FALSE))
  <2>1. Parse(st, ch) = [st EXCEPT !.items = items]
    BY <1>4, <1>8
  <2>2. Parse(st, ch) = [items |-> items, percent |-> FALSE, used |-> st.used]
    <3> HIDE DEF items
    <3> QED
      BY <1>1, <1>8, <2>1
  <2>3. items \in Seq(ItemSet)
    BY <1>3
  <2>4. Parse(st, ch) \in ParseStates
    <3> HIDE DEF items
    <3> QED
      BY <1>1, <2>2, <2>3 DEF ParseStates
  <2> QED
    BY <1>8, <2>2, <2>4 DEF item
<1> QED
  BY <1>5, <1>6, <1>7, <1>8

\* A format is parsed character by character.
LEMMA ItemsSteps ==
  ASSUME NEW format \in Seq(Characters)
  PROVE  \E state \in [0 .. Len(format) -> ParseStates] :
           /\ state[0] = ParseStart /\ Items(format) = state[Len(format)].items
           /\ \A n \in 1 .. Len(format) : state[n] = Parse(state[n - 1], format[n])
<1> DEFINE N == Len(format)
           Eqn(state) == state = [n \in 0 .. N |-> IF n = 0 THEN ParseStart
                                                   ELSE Parse(state[n - 1], format[n])]
           g == [nx \in (1 .. N) \X ParseStates |-> Parse(nx[2], format[nx[1]])]
<1>1. N \in Nat /\ \A n \in 1 .. N : format[n] \in Characters
  OBVIOUS
<1>2. g \in [(1 .. N) \X ParseStates -> ParseStates]
  <2>1. ASSUME NEW nx \in (1 .. N) \X ParseStates
        PROVE  Parse(nx[2], format[nx[1]]) \in ParseStates
    BY <1>1, ParseIs
  <2> QED
    BY <2>1
<1>3. \A n \in 1 .. N, x \in ParseStates : g[<<n, x>>] = Parse(x, format[n])
  OBVIOUS
<1>4. ParseStart \in ParseStates
  BY DEF ParseStart, ParseStates
<1> HIDE DEF g, N
<1>5. PICK f : Iteration(f, ParseStates, ParseStart, N, g)
  <2> HIDE DEF Eqn
  <2> QED
    BY <1>1, <1>2, <1>4, Iterates
<1>6. Eqn(f)
  <2> USE <1>5 DEF Iteration
  <2>1. ASSUME NEW n \in 1 .. N PROVE f[n] = Parse(f[n - 1], format[n])
    <3>1. n - 1 \in 0 .. N
      BY <1>1
    <3> QED
      BY <1>3, <3>1
  <2> QED
    BY <1>1, <2>1
<1> DEFINE state == CHOOSE w : Eqn(w)
<1>7. Eqn(state)
  BY <1>6, Zenon
<1>8. Items(format) = state[N].items
  BY Zenon DEF Items, N, ParseStart
<1> HIDE DEF state
<1>9. /\ state[0] = ParseStart
      /\ \A n \in 1 .. N : state[n] = Parse(state[n - 1], format[n])
      /\ state = [n \in 0 .. N |-> state[n]]
  <2>1. \A n \in 0 .. N : state[n] = IF n = 0 THEN ParseStart ELSE Parse(state[n - 1], format[n])
    BY <1>7
  <2>2. state = [n \in 0 .. N |-> state[n]]
    BY <1>7
  <2> HIDE DEF Eqn
  <2>3. 0 \in 0 .. N /\ \A n \in 1 .. N : n \in 0 .. N /\ n # 0
    BY <1>1
  <2> QED
    BY <2>1, <2>2, <2>3, Zenon
<1>10. \A n \in 0 .. N : state[n] \in ParseStates
  <2> DEFINE P == {n \in 0 .. N : state[n] \in ParseStates}
  <2>1. 0 \in P
    BY <1>1, <1>4, <1>9
  <2>2. ASSUME NEW n \in 1 .. N, n - 1 \in P PROVE n \in P
    <3>1. state[n - 1] \in ParseStates /\ format[n] \in Characters /\ n \in 0 .. N
      BY <1>1, <2>2
    <3>2. Parse(state[n - 1], format[n]) \in ParseStates
      BY <3>1, ParseIs
    <3> QED
      BY <1>9, <3>1, <3>2
  <2> HIDE DEF P
  <2>3. \A n \in 0 .. N : n \in P
    BY <1>1, <2>1, <2>2, UpTo
  <2> QED
    BY <2>3 DEF P
<1> QED
  BY <1>8, <1>9, <1>10 DEF N

\* So its items are items.
LEMMA ItemsAre ==
  ASSUME NEW format \in Seq(Characters)
  PROVE  Items(format) \in Seq(ItemSet)
<1>1. Len(format) \in 0 .. Len(format)
  OBVIOUS
<1>2. \A st \in ParseStates : st.items \in Seq(ItemSet)
  BY DEF ParseStates
<1> QED
  BY <1>1, <1>2, ItemsSteps

\* The conversions of a format get what they ask for.
Fits(format, args) ==
  \A n \in 1 .. Len(Items(format)) :
    LET item == Items(format)[n]
    IN  item.conv /\ Takes(item.ch) => args[item.arg] \in Values(Asked(item.ch))

\* What one item prints.
LEMMA OutIs ==
  ASSUME NEW item \in ItemSet, NEW args,
         item.conv /\ Takes(item.ch) => args[item.arg] \in Values(Asked(item.ch))
  PROVE  Out(item, args) \in Seq(Characters)
<1> DEFINE ch == item.ch
           arg == args[item.arg]
<1>1. item.conv \in BOOLEAN /\ ch \in Characters
  BY DEF ItemSet
<1>2. \A c \in Characters : <<c>> \in Seq(Characters)
  OBVIOUS
<1>3. Out(item, args) =
        IF ~item.conv THEN <<ch>>
        ELSE IF ch = "c" THEN <<arg>>
        ELSE IF ch = "d" THEN print_dec(arg)
        ELSE IF ch \in {"x", "X"} THEN print_hex(arg)
        ELSE IF ch = "s" THEN arg
        ELSE IF ch = "%" THEN <<"%">> ELSE <<>>
  BY Zenon DEF Out
<1>4. item.conv /\ ch \in {"c", "d", "x", "X", "s"} => arg \in Values(Asked(ch))
  BY DEF Takes
<1> HIDE DEF ch, arg
<1>5. CASE ~item.conv
  BY <1>1, <1>2, <1>3, <1>5
<1>6. CASE item.conv /\ ch = "c"
  <2>1. arg \in Characters
    BY <1>4, <1>6 DEF Values, Asked
  <2> QED
    BY <1>2, <1>3, <1>6, <2>1
<1>7. CASE item.conv /\ ch \in {"d", "x", "X"}
  <2>1. arg \in 0 .. Modulus - 1
    BY <1>4, <1>7 DEF Values, Asked
  <2>2. print_dec(arg) \in Seq(Characters) /\ print_hex(arg) \in Seq(Characters)
    BY <2>1, NumbersPrint
  <2> QED
    BY <1>3, <1>7, <2>2
<1>8. CASE item.conv /\ ch = "s"
  <2>1. arg \in Seq(Characters)
    BY <1>4, <1>8 DEF Values, Asked
  <2> QED
    BY <1>3, <1>8, <2>1
<1>9. CASE item.conv /\ ch \notin {"c", "d", "x", "X", "s"}
  <2>1. <<"%">> \in Seq(Characters) /\ <<>> \in Seq(Characters)
    BY CharactersAssumption
  <2> QED
    BY <1>3, <1>9, <2>1
<1> QED
  BY <1>1, <1>5, <1>6, <1>7, <1>8, <1>9

\* Sequences that are written as functions.
LEMMA SequenceOf ==
  ASSUME NEW T, NEW n \in Nat, NEW f \in [1 .. n -> T]
  PROVE  f \in Seq(T)
  OBVIOUS

\* printf, printk and printQ print a text.
LEMMA PrintedIs ==
  ASSUME NEW format \in Seq(Characters), NEW args, Fits(format, args)
  PROVE  Printed(format, args) \in Seq(Characters)
<1> DEFINE items == Items(format)
           outs == [i \in 1 .. Len(items) |-> Out(items[i], args)]
<1>1. items \in Seq(ItemSet) /\ Len(items) \in Nat
  BY ItemsAre
<1>2. ASSUME NEW i \in 1 .. Len(items) PROVE Out(items[i], args) \in Seq(Characters)
  <2>1. items[i] \in ItemSet
    BY <1>1
  <2>2. items[i].conv /\ Takes(items[i].ch) => args[items[i].arg] \in Values(Asked(items[i].ch))
    BY DEF Fits
  <2> HIDE DEF items
  <2> QED
    BY <2>1, <2>2, OutIs
<1>3. outs \in [1 .. Len(items) -> Seq(Characters)]
  BY <1>2
<1>4. Printed(format, args) = FlattenSeq(outs)
  BY DEF Printed
<1> HIDE DEF items, outs
<1>5. outs \in Seq(Seq(Characters))
  BY <1>1, <1>3, SequenceOf
<1> QED
  BY <1>4, <1>5, FlattenIs

\* The formats of ls_aux and cat_aux have one conversion at most.
LEMMA KernelFormats ==
  ASSUME NEW c \in {"s", "c"}, NEW format \in {<<"%", c, "\t">>, <<"%", c>>, <<"\n">>}
  PROVE  /\ format \in Seq(Characters)
         /\ \A n \in 1 .. Len(Items(format)) :
              Items(format)[n].conv => Items(format)[n].ch = c /\ Items(format)[n].arg = 1
<1> DEFINE i1(ch) == [conv |-> FALSE, ch |-> ch, arg |-> 1]
           i2 == [conv |-> TRUE, ch |-> c, arg |-> 1]
<1>1. /\ {"%", "\t", "\n", c} \subseteq Characters
      /\ c # Space
  <2>1. "c" = Digits[13] /\ 13 \in DOMAIN Digits
    BY DEF Digits
  <2>2. "c" \in ToSet(Digits)
    BY <2>1 DEF ToSet
  <2>3. "c" # Space /\ "s" # Space
    BY DEF Space
  <2> QED
    BY <2>2, <2>3, CharactersAssumption
<1>2. format \in Seq(Characters)
  <2>1. \A S, x, y, z : {x, y, z} \subseteq S =>
          <<x>> \in Seq(S) /\ <<x, y>> \in Seq(S) /\ <<x, y, z>> \in Seq(S)
    OBVIOUS
  <2>2. /\ {"\n", "\n", "\n"} \subseteq Characters
        /\ {"%", c, "\t"} \subseteq Characters
    BY <1>1
  <2>3. <<"\n">> \in Seq(Characters)
    <3>1. \A S, x : x \in S => <<x>> \in Seq(S)
      OBVIOUS
    <3>2. "\n" \in Characters
      BY <2>2
    <3> QED
      BY <3>1, <3>2, Zenon
  <2>4. <<"%", c>> \in Seq(Characters) /\ <<"%", c, "\t">> \in Seq(Characters)
    BY <2>1, <2>2, ZenonT(60)
  <2> QED
    BY <2>3, <2>4
<1> HIDE DEF i1, i2
<1>3. PICK state \in [0 .. Len(format) -> ParseStates] :
        /\ state[0] = ParseStart /\ Items(format) = state[Len(format)].items
        /\ \A n \in 1 .. Len(format) : state[n] = Parse(state[n - 1], format[n])
  BY <1>2, ItemsSteps
<1>4. /\ ParseStart \in ParseStates
      /\ ParseStart.items = <<>> /\ ParseStart.percent = FALSE /\ ParseStart.used = 0
  BY DEF ParseStart, ParseStates
<1>5. CASE format = <<"\n">>
  <2>1. Len(format) = 1 /\ format[1] = "\n"
    BY <1>5
  <2>2. Items(format) = Parse(ParseStart, "\n").items
    BY <1>3, <2>1
  <2>3. "\n" # "%" /\ "\n" \in Characters
    BY <1>1
  <2>4. Parse(ParseStart, "\n") =
          [items |-> Append(<<>>, i1("\n")), percent |-> FALSE, used |-> 0]
    <3>1. Parse(ParseStart, "\n") =
            [items |-> Append(ParseStart.items,
                              [conv |-> FALSE, ch |-> "\n", arg |-> ParseStart.used + 1]),
             percent |-> FALSE, used |-> ParseStart.used]
      BY <1>4, <2>3, ParseIs
    <3>2. ParseStart.used + 1 = 1
      BY <1>4
    <3> QED
      BY <1>4, <3>1, <3>2, Zenon DEF i1
  <2>5. Items(format) = Append(<<>>, i1("\n"))
    BY <2>2, <2>4
  <2>6. Len(Items(format)) = 1 /\ Items(format)[1] = i1("\n")
    BY <2>5
  <2>7. ~i1("\n").conv
    BY DEF i1
  <2> QED
    BY <1>2, <2>6, <2>7
<1>6. CASE format # <<"\n">>
  <2>1. /\ Len(format) \in {2, 3} /\ format[1] = "%" /\ format[2] = c
        /\ Len(format) = 3 => format[3] = "\t"
    BY <1>6
  <2>2. state[1] = [items |-> <<>>, percent |-> TRUE, used |-> 0]
    <3>1. state[1] = Parse(ParseStart, "%")
      BY <1>3, <2>1
    <3>2. "%" \in Characters
      BY <1>1
    <3>3. state[1] = [items |-> ParseStart.items, percent |-> TRUE, used |-> ParseStart.used]
      BY <1>4, <3>1, <3>2, ParseIs
    <3> QED
      BY <1>4, <3>3, Zenon
  <2>3. state[2] = [items |-> <<i2>>, percent |-> FALSE, used |-> 1]
    <3>1. state[2] = Parse(state[1], c) /\ state[1] \in ParseStates
      BY <1>3, <2>1
    <3>2. c \in Characters /\ c # Space
      BY <1>1
    <3>3. state[1].percent = TRUE /\ state[1].items = <<>> /\ state[1].used = 0
      BY <2>2
    <3>4. Parse(state[1], c) =
            [items |-> Append(state[1].items, [conv |-> TRUE, ch |-> c, arg |-> state[1].used + 1]),
             percent |-> FALSE,
             used |-> IF Takes(c) THEN state[1].used + 1 ELSE state[1].used]
      BY <3>1, <3>2, <3>3, ParseIs
    <3>5. Takes(c)
      BY DEF Takes
    <3>6. 0 + 1 = 1 /\ Append(<<>>, i2) = <<i2>>
      OBVIOUS
    <3> QED
      BY <3>1, <3>3, <3>4, <3>5, <3>6, Zenon DEF i2
  <2>10. state[2].percent = FALSE /\ state[2].items = <<i2>> /\ state[2].used = 1
    <3> DEFINE one == <<i2>>
    <3>1. state[2] = [items |-> one, percent |-> FALSE, used |-> 1]
      BY <2>3
    <3> HIDE DEF one
    <3>2. state[2].percent = FALSE /\ state[2].items = one /\ state[2].used = 1
      BY <3>1
    <3> QED
      BY <3>2 DEF one
  <2>4. CASE Len(format) = 2
    <3>1. Items(format) = <<i2>>
      BY <1>3, <2>4, <2>10
    <3>2. Len(Items(format)) = 1 /\ Items(format)[1] = i2
      BY <3>1
    <3>3. i2.ch = c /\ i2.arg = 1
      BY DEF i2
    <3> QED
      BY <1>2, <3>2, <3>3
  <2>5. CASE Len(format) = 3
    <3>1. state[3] = Parse(state[2], "\t") /\ state[2] \in ParseStates
      BY <1>3, <2>1, <2>5
    <3>2. "\t" # "%" /\ "\t" \in Characters
      BY <1>1
    <3>3. state[2].percent = FALSE /\ state[2].items = <<i2>> /\ state[2].used = 1
      BY <2>10
    <3>4. Parse(state[2], "\t") =
            [items |-> Append(state[2].items,
                              [conv |-> FALSE, ch |-> "\t", arg |-> state[2].used + 1]),
             percent |-> FALSE, used |-> state[2].used]
      BY <3>1, <3>2, <3>3, ParseIs
    <3> DEFINE i3 == [conv |-> FALSE, ch |-> "\t", arg |-> state[2].used + 1]
    <3>5. Items(format) = Append(<<i2>>, i3)
      <4> HIDE DEF i3
      <4>1. state[3] = [items |-> Append(state[2].items, i3), percent |-> FALSE,
                        used |-> state[2].used]
        BY <3>1, <3>4 DEF i3
      <4> DEFINE both == Append(state[2].items, i3)
      <4>2. state[3].items = both
        <5> HIDE DEF both
        <5> QED
          BY <4>1 DEF both
      <4> QED
        BY <1>3, <2>5, <3>3, <4>2
    <3>6. ~i3.conv /\ i2.ch = c /\ i2.arg = 1
      BY DEF i2
    <3> HIDE DEF i3
    <3>7. Len(Items(format)) = 2 /\ Items(format)[1] = i2 /\ Items(format)[2] = i3
      BY <3>5
    <3> QED
      BY <1>2, <3>6, <3>7
  <2> QED
    BY <2>1, <2>4, <2>5
<1> QED
  BY <1>5, <1>6

\* ls and cat print texts.
LEMMA KernelPrints ==
  /\ \A names \in Seq(Seq(Characters)) : ls_aux(names) \in Seq(Characters)
  /\ \A data \in Seq(Characters) : cat_aux(data) \in Seq(Characters)
<1>1. \A name \in Seq(Characters) : printQ(<<"%", "s", "\t">>, <<name>>) \in Seq(Characters)
  <2> TAKE name \in Seq(Characters)
  <2>1. /\ <<"%", "s", "\t">> \in Seq(Characters)
        /\ \A n \in 1 .. Len(Items(<<"%", "s", "\t">>)) :
             Items(<<"%", "s", "\t">>)[n].conv =>
               Items(<<"%", "s", "\t">>)[n].ch = "s" /\ Items(<<"%", "s", "\t">>)[n].arg = 1
    BY KernelFormats
  <2>2. <<name>>[1] \in Values(Asked("s"))
    BY DEF Values, Asked
  <2>3. Fits(<<"%", "s", "\t">>, <<name>>)
    BY <2>1, <2>2, Zenon DEF Fits
  <2> QED
    BY <2>1, <2>3, PrintedIs DEF printQ
<1>2. \A ch \in Characters : printQ(<<"%", "c">>, <<ch>>) \in Seq(Characters)
  <2> TAKE ch \in Characters
  <2>1. /\ <<"%", "c">> \in Seq(Characters)
        /\ \A n \in 1 .. Len(Items(<<"%", "c">>)) :
             Items(<<"%", "c">>)[n].conv =>
               Items(<<"%", "c">>)[n].ch = "c" /\ Items(<<"%", "c">>)[n].arg = 1
    BY KernelFormats
  <2>2. <<ch>>[1] \in Values(Asked("c"))
    BY DEF Values, Asked
  <2>3. Fits(<<"%", "c">>, <<ch>>)
    BY <2>1, <2>2, Zenon DEF Fits
  <2> QED
    BY <2>1, <2>3, PrintedIs DEF printQ
<1>3. printQ(<<"\n">>, <<>>) \in Seq(Characters)
  <2>1. /\ <<"\n">> \in Seq(Characters)
        /\ \A n \in 1 .. Len(Items(<<"\n">>)) :
             Items(<<"\n">>)[n].conv =>
               Items(<<"\n">>)[n].ch = "c" /\ Items(<<"\n">>)[n].arg = 1
    BY KernelFormats
  <2>2. \A n \in 1 .. Len(Items(<<"\n">>)) :
             Items(<<"\n">>)[n].conv =>
               Items(<<"\n">>)[n].ch = "s" /\ Items(<<"\n">>)[n].arg = 1
    BY KernelFormats
  <2>3. Fits(<<"\n">>, <<>>)
    <3>1. "s" # "c"
      OBVIOUS
    <3> QED
      BY <2>1, <2>2, <3>1, Zenon DEF Fits
  <2> QED
    BY <2>1, <2>3, PrintedIs DEF printQ
<1>4. \A a, b \in Seq(Characters) : a \o b \in Seq(Characters)
  OBVIOUS
<1>5. ASSUME NEW names \in Seq(Seq(Characters)) PROVE ls_aux(names) \in Seq(Characters)
  <2> DEFINE outs == [i \in 1 .. Len(names) |-> printQ(<<"%", "s", "\t">>, <<names[i]>>)]
  <2>1. Len(names) \in Nat /\ \A i \in 1 .. Len(names) : names[i] \in Seq(Characters)
    OBVIOUS
  <2>2. outs \in [1 .. Len(names) -> Seq(Characters)]
    BY <1>1, <2>1
  <2>3. ls_aux(names) = FlattenSeq(outs) \o printQ(<<"\n">>, <<>>)
    BY DEF ls_aux
  <2> HIDE DEF outs
  <2>4. outs \in Seq(Seq(Characters))
    BY <2>1, <2>2, SequenceOf
  <2>5. FlattenSeq(outs) \in Seq(Characters)
    BY <2>4, FlattenIs
  <2> QED
    BY <1>3, <1>4, <2>3, <2>5
<1>6. ASSUME NEW data \in Seq(Characters) PROVE cat_aux(data) \in Seq(Characters)
  <2> DEFINE outs == [i \in 1 .. Len(data) |-> printQ(<<"%", "c">>, <<data[i]>>)]
  <2>1. Len(data) \in Nat /\ \A i \in 1 .. Len(data) : data[i] \in Characters
    OBVIOUS
  <2>2. outs \in [1 .. Len(data) -> Seq(Characters)]
    BY <1>2, <2>1
  <2>3. cat_aux(data) = FlattenSeq(outs) \o printQ(<<"\n">>, <<>>)
    BY DEF cat_aux
  <2> HIDE DEF outs
  <2>4. outs \in Seq(Seq(Characters))
    BY <2>1, <2>2, SequenceOf
  <2>5. FlattenSeq(outs) \in Seq(Characters)
    BY <2>4, FlattenIs
  <2> QED
    BY <1>3, <1>4, <2>3, <2>5
<1> QED
  BY <1>5, <1>6

-----------------------------------------------------------------------------
(* What is scanned. *)

\* The digits are all different.
LEMMA DigitIs ==
  /\ \A n \in 1 .. 16 : DigitValue(Digits[n]) = n - 1
  /\ \A base \in 1 .. 16 : \A ch : IsDigit(ch, base) =>
       DigitValue(ch) \in 0 .. base - 1 /\ Digits[DigitValue(ch) + 1] = ch
<1>1. \A n, m \in 1 .. 16 : Digits[n] = Digits[m] => n = m
  BY DEF Digits
<1>2. ASSUME NEW ch, NEW n \in 1 .. 16, Digits[n] = ch
      PROVE  DigitValue(ch) = n - 1
  <2> DEFINE m == CHOOSE k \in 1 .. 16 : Digits[k] = ch
  <2>1. m \in 1 .. 16 /\ Digits[m] = ch
    BY <1>2
  <2>2. m = n
    BY <1>1, <1>2, <2>1
  <2> QED
    BY <2>2 DEF DigitValue
<1>3. ASSUME NEW base \in 1 .. 16, NEW ch, IsDigit(ch, base)
      PROVE  DigitValue(ch) \in 0 .. base - 1 /\ Digits[DigitValue(ch) + 1] = ch
  <2>1. PICK n \in 1 .. base : Digits[n] = ch
    BY <1>3 DEF IsDigit
  <2>2. n \in 1 .. 16
    OBVIOUS
  <2>3. DigitValue(ch) = n - 1
    BY <1>2, <2>1, <2>2
  <2>4. (n - 1) + 1 = n /\ n - 1 \in 0 .. base - 1
    OBVIOUS
  <2> QED
    BY <2>1, <2>3, <2>4
<1> QED
  BY <1>2, <1>3

\* A text of digits.
Numerals(base) == {t \in Seq(Characters) : \A i \in 1 .. Len(t) : IsDigit(t[i], base)}

\* A number is scanned digit by digit.
LEMMA NumberSteps ==
  ASSUME NEW base \in 2 .. 16, NEW text \in Numerals(base)
  PROVE  \E num \in [0 .. Len(text) -> 0 .. Modulus - 1] :
           /\ num[0] = 0 /\ Number(base, text) = num[Len(text)]
           /\ \A n \in 1 .. Len(text) :
                num[n] = (num[n - 1] * base + DigitValue(text[n])) % Modulus
<1> DEFINE N == Len(text)
           V == 0 .. Modulus - 1
           next(x, n) == (x * base + DigitValue(text[n])) % Modulus
           Eqn(num) == num = [n \in 0 .. N |-> IF n = 0 THEN 0 ELSE next(num[n - 1], n)]
           g == [nx \in (1 .. N) \X V |-> next(nx[2], nx[1])]
<1>1. N \in Nat /\ \A n \in 1 .. N : DigitValue(text[n]) \in Nat
  <2>1. text \in Seq(Characters) /\ \A n \in 1 .. N : IsDigit(text[n], base)
    BY DEF Numerals
  <2>2. base \in 1 .. 16
    OBVIOUS
  <2>3. \A n \in 1 .. N : DigitValue(text[n]) \in 0 .. base - 1
    BY <2>1, <2>2, DigitIs
  <2> QED
    BY <2>1, <2>3
<1>2. ASSUME NEW x \in V, NEW n \in 1 .. N PROVE next(x, n) \in V
  <2>1. Modulus \in Nat \ {0}
    BY ModulusIs
  <2> DEFINE y == x * base + DigitValue(text[n])
  <2>2. y \in Nat
    <3>1. x * base \in Nat /\ DigitValue(text[n]) \in Nat
      BY <1>1, <2>1
    <3> QED
      BY <3>1
  <2> HIDE DEF y
  <2>3. y % Modulus \in 0 .. Modulus - 1
    BY <2>1, <2>2
  <2> QED
    BY <2>3 DEF y
<1> HIDE DEF next, V
<1>3. g \in [(1 .. N) \X V -> V]
  <2>1. ASSUME NEW nx \in (1 .. N) \X V PROVE next(nx[2], nx[1]) \in V
    BY <1>2
  <2> QED
    BY <2>1
<1>4. \A n \in 1 .. N, x \in V : g[<<n, x>>] = next(x, n)
  OBVIOUS
<1>5. 0 \in V
  BY ModulusIs DEF V
<1> HIDE DEF g, N
<1>6. PICK f : Iteration(f, V, 0, N, g)
  <2> HIDE DEF Eqn
  <2> QED
    BY <1>1, <1>3, <1>5, Iterates
<1>7. Eqn(f)
  <2> USE <1>6 DEF Iteration
  <2>1. ASSUME NEW n \in 1 .. N PROVE f[n] = next(f[n - 1], n)
    <3>1. n - 1 \in 0 .. N
      BY <1>1
    <3> QED
      BY <1>4, <3>1
  <2> QED
    BY <1>1, <2>1
<1> DEFINE num == CHOOSE w : Eqn(w)
<1>8. Eqn(num)
  BY <1>7, Zenon
<1>9. Number(base, text) = num[N]
  BY Zenon DEF Number, N, next
<1> HIDE DEF num
<1>10. /\ num[0] = 0
       /\ \A n \in 1 .. N : num[n] = next(num[n - 1], n)
       /\ num = [n \in 0 .. N |-> num[n]]
  <2>1. \A n \in 0 .. N : num[n] = IF n = 0 THEN 0 ELSE next(num[n - 1], n)
    BY <1>8
  <2>2. num = [n \in 0 .. N |-> num[n]]
    BY <1>8
  <2> HIDE DEF Eqn
  <2>3. 0 \in 0 .. N /\ \A n \in 1 .. N : n \in 0 .. N /\ n # 0
    BY <1>1
  <2> QED
    BY <2>1, <2>2, <2>3, Zenon
<1>11. \A n \in 0 .. N : num[n] \in V
  <2> DEFINE P == {n \in 0 .. N : num[n] \in V}
  <2>1. 0 \in P
    BY <1>1, <1>5, <1>10
  <2>2. ASSUME NEW n \in 1 .. N, n - 1 \in P PROVE n \in P
    <3>1. num[n - 1] \in V /\ n \in 0 .. N
      BY <1>1, <2>2
    <3>2. next(num[n - 1], n) \in V
      BY <1>2, <3>1 DEF N
    <3> QED
      BY <1>10, <3>1, <3>2
  <2> HIDE DEF P
  <2>3. \A n \in 0 .. N : n \in P
    BY <1>1, <2>1, <2>2, UpTo
  <2> QED
    BY <2>3 DEF P
<1> QED
  BY <1>9, <1>10, <1>11, Zenon DEF N, next, V

\* The value is an int.
LEMMA NumberIs ==
  ASSUME NEW base \in 2 .. 16, NEW text \in Numerals(base)
  PROVE  Number(base, text) \in 0 .. Modulus - 1
<1>1. PICK num \in [0 .. Len(text) -> 0 .. Modulus - 1] : Number(base, text) = num[Len(text)]
  BY NumberSteps
<1>2. Len(text) \in 0 .. Len(text)
  BY DEF Numerals
<1> QED
  BY <1>1, <1>2

Kinds == {"c", "d", "x", "s", "gets", "getchar"}
Texts(kind) == IF kind \in {"d", "x"} THEN Numerals(Base(kind)) ELSE Seq(Characters)
Scans(kind) == [phase : {"skip", "body", "done"}, text : Texts(kind)]

\* The cases of a scan function.
LEMMA InBodyCases ==
  ASSUME NEW ch
  PROVE  /\ InBody("s", ch) <=> ~Blank(ch)
         /\ InBody("d", ch) <=> IsDigit(ch, 10)
         /\ InBody("x", ch) <=> IsDigit(ch, 16)
         /\ InBody("gets", ch) <=> ch # "\n"
<1>1. "s" # "d" /\ "s" # "x" /\ "s" # "gets" /\ "d" # "x" /\ "d" # "gets" /\ "x" # "gets"
  OBVIOUS
<1> QED
  BY <1>1, Zenon DEF InBody

\* Texts are characters, and the empty one is of every kind.
LEMMA TextsAre ==
  ASSUME NEW kind \in Kinds
  PROVE  Texts(kind) \subseteq Seq(Characters) /\ <<>> \in Texts(kind)
  BY DEF Texts, Numerals

\* A body takes only characters of its kind.
LEMMA FeedIs ==
  ASSUME NEW kind \in Kinds, NEW s \in Scans(kind), NEW ch \in Characters
  PROVE  /\ Feed(kind, s, ch) \in Scans(kind)
         /\ kind \in {"c", "getchar"} /\ Feed(kind, s, ch).phase = "done" =>
              s.phase = "done" \/ Feed(kind, s, ch).text = <<ch>>
<1>1. /\ s.phase \in {"skip", "body", "done"} /\ s.text \in Texts(kind)
      /\ s = [phase |-> s.phase, text |-> s.text]
  BY DEF Scans
<1>2. CASE s.phase = "skip" /\ Skips(kind) /\ Blank(ch)
  <2>1. Feed(kind, s, ch) = s
    BY <1>2 DEF Feed
  <2> QED
    BY <1>2, <2>1
<1>3. CASE ~(s.phase = "skip" /\ Skips(kind) /\ Blank(ch)) /\ kind \in {"c", "getchar"}
  <2>1. Feed(kind, s, ch) = [phase |-> "done", text |-> <<ch>>]
    BY <1>3 DEF Feed
  <2>2. <<ch>> \in Texts(kind)
    <3>1. <<ch>> \in Seq(Characters) /\ kind \notin {"d", "x"}
      BY <1>3
    <3> QED
      BY <3>1 DEF Texts
  <2> DEFINE t == <<ch>>
  <2>3. Feed(kind, s, ch) = [phase |-> "done", text |-> t] /\ t \in Texts(kind)
    BY <2>1, <2>2
  <2> HIDE DEF t
  <2>4. Feed(kind, s, ch) \in Scans(kind) /\ Feed(kind, s, ch).text = t
    BY <2>3 DEF Scans
  <2> QED
    BY <2>4 DEF t
<1>4. CASE ~(s.phase = "skip" /\ Skips(kind) /\ Blank(ch)) /\ kind \notin {"c", "getchar"}
           /\ InBody(kind, ch)
  <2> DEFINE t == Append(s.text, ch)
  <2>1. Feed(kind, s, ch) = [phase |-> "body", text |-> t]
    BY <1>4 DEF Feed
  <2>2. t \in Texts(kind)
    <3>1. s.text \in Seq(Characters)
      BY <1>1, TextsAre
    <3>2. CASE kind \in {"d", "x"}
      <4>1. IsDigit(ch, Base(kind))
        BY <1>4, <3>2, InBodyCases DEF Base
      <4>2. \A i \in 1 .. Len(s.text) : IsDigit(s.text[i], Base(kind))
        BY <1>1, <3>2 DEF Texts, Numerals
      <4>3. t \in Seq(Characters) /\ Len(t) = Len(s.text) + 1 /\ t[Len(s.text) + 1] = ch
            /\ \A i \in 1 .. Len(s.text) : t[i] = s.text[i]
        BY <3>1
      <4> HIDE DEF t
      <4>4. \A i \in 1 .. Len(t) : IsDigit(t[i], Base(kind))
        <5>1. Len(s.text) \in Nat
          BY <3>1
        <5>2. \A i \in 1 .. Len(t) : i \in 1 .. Len(s.text) \/ i = Len(s.text) + 1
          BY <4>3, <5>1
        <5> QED
          BY <4>1, <4>2, <4>3, <5>2
      <4> QED
        BY <3>2, <4>3, <4>4 DEF Texts, Numerals
    <3>3. CASE kind \notin {"d", "x"}
      BY <3>1, <3>3 DEF Texts
    <3> QED
      BY <3>2, <3>3
  <2> HIDE DEF t
  <2> QED
    BY <1>4, <2>1, <2>2 DEF Scans
<1>5. CASE ~(s.phase = "skip" /\ Skips(kind) /\ Blank(ch)) /\ kind \notin {"c", "getchar"}
           /\ ~InBody(kind, ch)
  <2>1. Feed(kind, s, ch) = [s EXCEPT !.phase = "done"]
    BY <1>5 DEF Feed
  <2>2. Feed(kind, s, ch) = [phase |-> "done", text |-> s.text]
    BY <1>1, <2>1
  <2> QED
    BY <1>1, <1>5, <2>2 DEF Scans
<1> QED
  BY <1>2, <1>3, <1>4, <1>5

\* What a scan function returns.
LEMMA ResultIs ==
  ASSUME NEW kind \in Kinds, NEW text \in Texts(kind),
         kind \in {"c", "getchar"} => \E ch \in Characters : text = <<ch>>,
         NEW step, step.fn = "scan", step.kind = kind
  PROVE  Result(kind, text) \in Values(TypeOfResult(step))
<1>1. CASE kind \in {"d", "x"}
  <2>1. Base(kind) \in 2 .. 16 /\ text \in Numerals(Base(kind))
    BY <1>1 DEF Base, Texts
  <2>2. Number(Base(kind), text) \in 0 .. Modulus - 1
    BY <2>1, NumberIs
  <2>3. Result(kind, text) = Number(Base(kind), text)
    BY <1>1 DEF Result
  <2>4. Values(TypeOfResult(step)) = 0 .. Modulus - 1
    BY <1>1 DEF Values, TypeOfResult
  <2> QED
    BY <2>2, <2>3, <2>4
<1>2. CASE kind \in {"c", "getchar"}
  <2>1. PICK ch \in Characters : text = <<ch>>
    BY <1>2
  <2>2. Result(kind, text) = ch
    BY <1>2, <2>1 DEF Result
  <2>3. Values(TypeOfResult(step)) = Characters
    BY <1>2 DEF Values, TypeOfResult
  <2> QED
    BY <2>2, <2>3
<1>3. CASE kind \in {"s", "gets"}
  <2>1. Result(kind, text) = text /\ text \in Seq(Characters)
    BY <1>3, TextsAre DEF Result
  <2>2. Values(TypeOfResult(step)) = Seq(Characters)
    BY <1>3 DEF Values, TypeOfResult
  <2> QED
    BY <2>1, <2>2
<1> QED
  BY <1>1, <1>2, <1>3 DEF Kinds

-----------------------------------------------------------------------------
(***************************************************************************)
(* The programs: what they have read and still have to do, the state of    *)
(* their scan functions, and the screen.                                   *)
(***************************************************************************)
Returned == UNION {Values("number"), Values("character"), Values("text")}

\* The results and what is left to do make up the program, and what a step has
\* returned is of its type.
StepsInv ==
  /\ results \in [Readers -> Seq(Returned)]
  /\ \A p \in Readers :
       /\ Len(results[p]) + Len(todo[p]) = Len(Code[p])
       /\ \A i \in 1 .. Len(todo[p]) : todo[p][i] = Code[p][Len(results[p]) + i]
       /\ \A j \in 1 .. Len(results[p]) : results[p][j] \in Values(TypeOfResult(Code[p][j]))

Scanning(p) == todo[p] # <<>> /\ Head(todo[p]).fn = "scan"

\* Only a process within a scan function has characters of a word, and they are
\* characters of its kind; the clock is stopped only while a read waits.
ScanInv ==
  /\ scan \in [Readers -> [phase : {"skip", "body"}, text : Seq(Characters)]]
  /\ \A p \in Readers :
       IF Scanning(p) THEN scan[p].text \in Texts(Head(todo[p]).kind) ELSE scan[p] = Start
  /\ kernel = "user" => ~intr_nesting
  /\ kernel # "user" => Step.fn \in {"scan", "read"} /\ (Step.fn = "scan" => want = 1)

\* The screen shows what has been put on it.
ScreenInv ==
  /\ screen \in Screens /\ shown \in Seq(Characters)
  /\ Plain(shown) => Matches(screen, Layout(shown))

ProgramsInv == CInv /\ StepsInv /\ ScanInv /\ ScreenInv

\* What the screen is made of, and what the programs are.
programVars == <<todo, scan, results>>
screenVars == <<screen, shown>>

\* All values are of one of the three types.
LEMMA ReturnedIs ==
  \A type \in {"number", "text", "character", "none"} : Values(type) \subseteq Returned
<1>1. Values("none") = Values("text")
  BY DEF Values
<1> HIDE DEF Values
<1> QED
  BY <1>1 DEF Returned

\* The type of a result is one of four.
LEMMA TypesAre ==
  ASSUME NEW step
  PROVE  /\ TypeOfResult(step) \in {"number", "text", "character", "none"}
         /\ step.fn \notin {"scan", "read"} => TypeOfResult(step) = "none"
         /\ step.fn = "read" => TypeOfResult(step) = "text"
  BY DEF TypeOfResult

\* A step the program begins or ends: it is the one behind the last result.
LEMMA StepIs ==
  ASSUME ProgramsInv, todo[current] # <<>>
  PROVE  /\ current \in Readers /\ Step \in AllSteps
         /\ Step = Code[current][Len(results[current]) + 1]
         /\ Len(results[current]) + 1 \in DOMAIN Code[current]
         /\ Len(results[current]) \in Nat
<1> USE DEF ProgramsInv, CInv, ReadInv, StepsInv
<1> DEFINE p == current
<1>1. /\ p \in Readers /\ todo[p] \in Seq(AllSteps) /\ Len(todo[p]) \in Nat \ {0}
      /\ results[p] \in Seq(Returned) /\ Len(results[p]) \in Nat
      /\ Code[p] \in Seq(AllSteps)
  BY ProgramsAssumption, EmptySeq
<1>2. Step = todo[p][1] /\ Step \in AllSteps /\ 1 \in 1 .. Len(todo[p])
  BY <1>1 DEF Step
<1>3. Step = Code[p][Len(results[p]) + 1]
  BY <1>1, <1>2
<1>4. Len(results[p]) + 1 \in 1 .. Len(Code[p]) /\ DOMAIN Code[p] = 1 .. Len(Code[p])
  <2>1. Len(results[p]) + Len(todo[p]) = Len(Code[p])
    BY <1>1
  <2> QED
    BY <1>1, <2>1
<1> QED
  BY <1>1, <1>2, <1>3, <1>4

\* A step ends with a result of its type.
LEMMA StepEnds ==
  ASSUME ProgramsInv, todo[current] # <<>>,
         NEW result, result \in Values(TypeOfResult(Step)),
         results' = [results EXCEPT ![current] = Append(@, result)],
         todo' = [todo EXCEPT ![current] = Tail(@)]
  PROVE  StepsInv'
<1> DEFINE p == current
           n == Len(results[p])
<1>1. /\ p \in Readers /\ Step = Code[p][n + 1] /\ n \in Nat
  BY StepIs
<1>2. /\ todo \in [Readers -> Seq(AllSteps)] /\ results \in [Readers -> Seq(Returned)]
      /\ todo[p] \in Seq(AllSteps) /\ results[p] \in Seq(Returned)
      /\ n + Len(todo[p]) = Len(Code[p])
      /\ \A i \in 1 .. Len(todo[p]) : todo[p][i] = Code[p][n + i]
      /\ \A j \in 1 .. n : results[p][j] \in Values(TypeOfResult(Code[p][j]))
  BY <1>1 DEF ProgramsInv, CInv, ReadInv, StepsInv
<1>3. result \in Returned
  BY ReturnedIs, TypesAre
<1> DEFINE r == Append(results[p], result)
           t == Tail(todo[p])
<1>4. /\ r \in Seq(Returned) /\ Len(r) = n + 1 /\ r[n + 1] = result
      /\ \A j \in 1 .. n : r[j] = results[p][j]
  BY <1>2, <1>3
<1>5. /\ t \in Seq(AllSteps) /\ Len(todo[p]) \in Nat /\ Len(t) = Len(todo[p]) - 1
      /\ \A i \in 1 .. Len(t) : t[i] = todo[p][i + 1]
  BY <1>2
<1>6. /\ results' = [results EXCEPT ![p] = r] /\ todo' = [todo EXCEPT ![p] = t]
  OBVIOUS
<1> HIDE DEF r, t
<1>7. results' \in [Readers -> Seq(Returned)]
  BY <1>2, <1>4, <1>6
<1>8. results'[p] = r /\ todo'[p] = t
  BY <1>1, <1>2, <1>6
<1>9. ASSUME NEW q \in Readers
      PROVE  /\ Len(results'[q]) + Len(todo'[q]) = Len(Code[q])
             /\ \A i \in 1 .. Len(todo'[q]) : todo'[q][i] = Code[q][Len(results'[q]) + i]
             /\ \A j \in 1 .. Len(results'[q]) :
                  results'[q][j] \in Values(TypeOfResult(Code[q][j]))
  <2>1. CASE q = p
    <3>1. Len(r) + Len(t) = Len(Code[p])
      <4>1. /\ Len(r) = n + 1 /\ Len(t) = Len(todo[p]) - 1 /\ Len(todo[p]) \in Nat /\ n \in Nat
            /\ n + Len(todo[p]) = Len(Code[p])
        BY <1>1, <1>2, <1>4, <1>5
      <4>2. \A a, b, c, d \in Int : a = n + 1 /\ b = c - 1 /\ n + c = d => a + b = d
        BY <1>1
      <4>3. Len(r) \in Int /\ Len(t) \in Int /\ Len(todo[p]) \in Int /\ Len(Code[p]) \in Int
        <5>1. Code[p] \in Seq(AllSteps)
          BY <1>1, ProgramsAssumption
        <5> QED
          BY <1>4, <1>5, <5>1
      <4> HIDE DEF r, t, n
      <4> QED
        BY <4>1, <4>2, <4>3, ZenonT(60)
    <3>2. ASSUME NEW i \in 1 .. Len(t) PROVE t[i] = Code[p][Len(r) + i]
      <4>1. i + 1 \in 1 .. Len(todo[p]) /\ n + (i + 1) = (n + 1) + i
        BY <1>1, <1>5, SMTT(60)
      <4> QED
        BY <1>2, <1>4, <1>5, <4>1
    <3>3. ASSUME NEW j \in 1 .. Len(r) PROVE r[j] \in Values(TypeOfResult(Code[p][j]))
      <4>1. j \in 1 .. n \/ j = n + 1
        BY <1>1, <1>4
      <4> QED
        BY <1>1, <1>2, <1>4, <4>1
    <3> QED
      BY <1>8, <2>1, <3>1, <3>2, <3>3
  <2>2. CASE q # p
    <3>1. results'[q] = results[q] /\ todo'[q] = todo[q]
      BY <1>2, <1>6, <2>2
    <3> QED
      BY <3>1 DEF ProgramsInv, StepsInv
  <2> QED
    BY <2>1, <2>2
<1> QED
  BY <1>7, <1>9 DEF StepsInv

\* The screen of a text that is put on it.
LEMMA ShowKeeps ==
  ASSUME ScreenInv, NEW text \in Seq(Characters), Show(text)
  PROVE  ScreenInv'
<1>1. /\ screen \in Screens /\ shown \in Seq(Characters)
      /\ Plain(shown) => Matches(screen, Layout(shown))
  BY DEF ScreenInv
<1>2. screen' = Written(screen, text) /\ shown' = shown \o text
  BY DEF Show
<1>3. screen' \in Screens
  <2>1. PICK on \in [0 .. Len(text) -> Screens] : Written(screen, text) = on[Len(text)]
    BY <1>1, WrittenSteps
  <2>2. Len(text) \in 0 .. Len(text)
    OBVIOUS
  <2> QED
    BY <1>2, <2>1, <2>2
<1>4. shown' \in Seq(Characters)
  BY <1>1, <1>2
<1>5. ASSUME Plain(shown') PROVE Matches(screen', Layout(shown'))
  <2>1. /\ Len(shown') = Len(shown) + Len(text) /\ Len(shown) \in Nat /\ Len(text) \in Nat
        /\ \A i \in 1 .. Len(shown) + Len(text) :
             shown'[i] = IF i <= Len(shown) THEN shown[i] ELSE text[i - Len(shown)]
    BY <1>1, <1>2, ConcatProperties
  <2>2. ASSUME NEW i \in 1 .. Len(shown) PROVE shown[i] \notin {"BS", "\r"}
    <3>1. i \in 1 .. Len(shown') /\ shown'[i] = shown[i]
      BY <2>1
    <3> QED
      BY <1>5, <3>1 DEF Plain
  <2>3. ASSUME NEW i \in 1 .. Len(text) PROVE text[i] \notin {"BS", "\r"}
    <3>1. /\ Len(shown) + i \in 1 .. Len(shown') /\ ~(Len(shown) + i <= Len(shown))
          /\ (Len(shown) + i) - Len(shown) = i
      BY <2>1
    <3>2. shown'[Len(shown) + i] = text[i]
      BY <2>1, <3>1
    <3> QED
      BY <1>5, <3>1, <3>2 DEF Plain
  <2>4. Plain(shown) /\ Plain(text)
    BY <2>2, <2>3 DEF Plain
  <2> QED
    BY <1>1, <1>2, <2>4, WrittenMatches
<1> QED
  BY <1>3, <1>4, <1>5 DEF ScreenInv

-----------------------------------------------------------------------------
\* Initially nothing is read, and the screen is cleared (initScreen).
LEMMA ProgramsStart == Init => ProgramsInv
<1> SUFFICES ASSUME Init PROVE ProgramsInv
  OBVIOUS
<1>1. /\ todo = Code /\ kernel = "user" /\ ~intr_nesting
      /\ scan = [p \in Readers |-> Start] /\ results = [p \in Readers |-> <<>>]
      /\ screen = Cleared /\ shown = <<>>
  BY DEF Init
<1>2. StepsInv
  <2>1. \A p \in Readers : results[p] = <<>> /\ Len(results[p]) = 0 /\ results[p] \in Seq(Returned)
    BY <1>1
  <2>2. results \in [Readers -> Seq(Returned)]
    BY <1>1, <2>1
  <2>3. ASSUME NEW p \in Readers
        PROVE  /\ 0 + Len(todo[p]) = Len(Code[p])
               /\ \A i \in 1 .. Len(todo[p]) : todo[p][i] = Code[p][0 + i]
    <3>1. Code[p] \in Seq(AllSteps) /\ Len(Code[p]) \in Nat
      BY ProgramsAssumption
    <3> QED
      BY <1>1, <3>1
  <2> QED
    BY <2>1, <2>2, <2>3 DEF StepsInv
<1>3. ScanInv
  <2>1. Start \in [phase : {"skip", "body"}, text : Seq(Characters)]
    BY DEF Start
  <2>2. ASSUME NEW p \in Readers, Scanning(p)
        PROVE  scan[p].text \in Texts(Head(todo[p]).kind)
    <3>1. Code[p] \in Seq(AllSteps) /\ todo[p] = Code[p]
      BY <1>1, ProgramsAssumption
    <3>2. Head(todo[p]) \in AllSteps /\ Head(todo[p]).fn = "scan"
      BY <2>2, <3>1 DEF Scanning
    <3>3. Head(todo[p]).kind \in Kinds
      BY <3>2, ProgramsAssumption DEF Kinds
    <3>4. scan[p].text = <<>>
      BY <1>1 DEF Start
    <3> QED
      BY <3>3, <3>4, TextsAre
  <2> QED
    BY <1>1, <2>1, <2>2 DEF ScanInv
<1>4. ScreenInv
  <2>1. Rows \in Nat \ {0} /\ Cols \in Nat \ {0} /\ Space \in Characters
    BY ConsoleAssumption, CharactersAssumption
  <2>2. Cleared \in Screens
    <3> DEFINE cells == [c \in Cells |-> Space]
    <3>1. cells \in [Cells -> Characters]
      BY <2>1
    <3>2. Cleared = [cells |-> cells, x |-> 0, y |-> 0]
      BY DEF Cleared
    <3> HIDE DEF cells
    <3> QED
      BY <2>1, <3>1, <3>2 DEF Screens
  <2>3. Matches(Cleared, Layout(<<>>))
    <3>1. PICK page \in [0 .. Len(<<>>) -> Pages] :
            page[0] = EmptyPage /\ Layout(<<>>) = page[Len(<<>>)]
      <4>1. <<>> \in Seq(Characters)
        OBVIOUS
      <4> QED
        BY <4>1, LayoutSteps
    <3>2. Layout(<<>>) = EmptyPage
      BY <3>1
    <3>3. EmptyPage.rows \o EmptyPage.line = <<>> /\ Len(EmptyPage.line) = 0
      BY DEF EmptyPage
    <3>4. Cleared.x = 0 /\ Cleared.y = 0 /\ \A c \in Cells : Cleared.cells[c] = Space
      BY DEF Cleared
    <3>5. 0 * Cols + 0 = 0 /\ 0 % Cols = 0
      BY <2>1
    <3>6. Shows(Cleared.cells, <<>>)
      <4>1. \A c \in Cells : ~(c < 0)
        BY CellsAre
      <4>2. Len(<<>>) = 0
        OBVIOUS
      <4> QED
        BY <3>4, <4>1, <4>2 DEF Shows
    <3> QED
      BY <3>2, <3>3, <3>4, <3>5, <3>6 DEF Matches
  <2> QED
    BY <1>1, <2>2, <2>3 DEF ScreenInv
<1> QED
  BY <1>2, <1>3, <1>4, InitHolds DEF ProgramsInv

\* The scan function of the next step begins with nothing.
LEMMA ScanEnds ==
  ASSUME ProgramsInv, scan' = [scan EXCEPT ![current] = Start],
         todo' = [todo EXCEPT ![current] = Tail(@)],
         todo[current] # <<>>, kernel' = "user", ~intr_nesting'
  PROVE  ScanInv'
<1>1. /\ current \in Readers /\ todo \in [Readers -> Seq(AllSteps)]
      /\ scan \in [Readers -> [phase : {"skip", "body"}, text : Seq(Characters)]]
      /\ \A p \in Readers :
           IF Scanning(p) THEN scan[p].text \in Texts(Head(todo[p]).kind) ELSE scan[p] = Start
  BY DEF ProgramsInv, CInv, ReadInv, ScanInv
<1>2. ASSUME NEW p \in Readers
      PROVE  IF Scanning(p)' THEN scan'[p].text \in Texts(Head(todo'[p]).kind)
             ELSE scan'[p] = Start
  <2>1. CASE p = current
    <3>1. scan'[p] = Start
      BY <1>1, <2>1
    <3>2. ASSUME Scanning(p)' PROVE scan'[p].text \in Texts(Head(todo'[p]).kind)
      <4>1. todo'[p] = Tail(todo[p]) /\ todo[p] # <<>> /\ todo[p] \in Seq(AllSteps)
        BY <1>1, <2>1
      <4>2. todo'[p] \in Seq(AllSteps)
        BY <4>1
      <4>3. Head(todo'[p]) \in AllSteps /\ Head(todo'[p]).fn = "scan"
        BY <3>2, <4>2 DEF Scanning
      <4>4. Head(todo'[p]).kind \in Kinds
        BY <4>3, ProgramsAssumption DEF Kinds
      <4>5. scan'[p].text = <<>>
        BY <3>1 DEF Start
      <4> QED
        BY <4>4, <4>5, TextsAre
    <3> QED
      BY <3>1, <3>2
  <2>2. CASE p # current
    <3>1. todo'[p] = todo[p] /\ scan'[p] = scan[p]
      BY <1>1, <2>2
    <3> QED
      BY <1>1, <3>1 DEF Scanning
  <2> QED
    BY <2>1, <2>2
<1>3. scan' \in [Readers -> [phase : {"skip", "body"}, text : Seq(Characters)]]
  <2>1. Start \in [phase : {"skip", "body"}, text : Seq(Characters)]
    BY DEF Start
  <2> QED
    BY <1>1, <2>1
<1> QED
  BY <1>2, <1>3 DEF ScanInv

\* A step that returns nothing keeps the scan functions as they are.
LEMMA PrintEnds ==
  ASSUME ProgramsInv, kernel = "user", todo[current] # <<>>, Step.fn \notin {"scan", "read"},
         results' = [results EXCEPT ![current] = Append(@, <<>>)],
         todo' = [todo EXCEPT ![current] = Tail(@)],
         UNCHANGED <<kernel, intr_nesting, scan>>
  PROVE  StepsInv' /\ ScanInv'
<1>1. StepsInv'
  <2>1. <<>> \in Values(TypeOfResult(Step))
    <3>1. TypeOfResult(Step) = "none"
      BY TypesAre
    <3> QED
      BY <3>1 DEF Values
  <2> DEFINE result == <<>>
  <2>2. results' = [results EXCEPT ![current] = Append(@, result)] /\ result \in Values(TypeOfResult(Step))
    BY <2>1
  <2> HIDE DEF result
  <2> QED
    BY <2>2, StepEnds
<1>2. ~intr_nesting' /\ scan[current] = Start
  BY DEF ProgramsInv, CInv, ReadInv, ScanInv, Scanning, Step
<1>3. scan' = [scan EXCEPT ![current] = Start]
  BY <1>2 DEF ProgramsInv, ScanInv
<1>4. ScanInv'
  BY <1>2, <1>3, ScanEnds
<1> QED
  BY <1>1, <1>4

\* What a program prints is a text (printf, ls, cat).
LEMMA TextsPrinted ==
  ASSUME ProgramsInv, PutText
  PROVE  \E text \in Seq(Characters) : Show(text)
<1>1. todo[current] # <<>> /\ Step.fn \in {"printf", "ls", "cat"}
  BY DEF PutText, Busy
<1>2. /\ current \in Readers /\ Step \in AllSteps
      /\ Step = Code[current][Len(results[current]) + 1]
      /\ Len(results[current]) + 1 \in DOMAIN Code[current]
      /\ Len(results[current]) \in Nat
  BY <1>1, StepIs
<1> DEFINE text == CASE Step.fn = "printf" ->
                          Printed(Step.format, [i \in 1 .. Len(Step.args) |-> Value(Step.args[i])])
                     [] Step.fn = "ls" -> ls_aux(Step.args)
                     [] Step.fn = "cat" -> cat_aux(Step.args)
<1>3. Show(text)
  BY DEF PutText
<1>4. CASE Step.fn = "printf"
  <2> DEFINE values == [i \in 1 .. Len(Step.args) |-> Value(Step.args[i])]
             n == Len(results[current]) + 1
  <2>1. text = Printed(Step.format, values)
    <3>1. "printf" # "ls" /\ "printf" # "cat"
      OBVIOUS
    <3> HIDE DEF values
    <3> QED
      BY <1>4, <3>1, Zenon DEF values
  <2>2. Step.format \in Seq(Characters)
    BY <1>2, <1>4, ProgramsAssumption
  <2>3. ASSUME NEW k \in 1 .. Len(Items(Step.format)),
               Items(Step.format)[k].conv, Takes(Items(Step.format)[k].ch)
        PROVE  values[Items(Step.format)[k].arg] \in Values(Asked(Items(Step.format)[k].ch))
    <3> DEFINE item == Items(Step.format)[k]
               arg == Step.args[item.arg]
    <3>1. DOMAIN Items(Step.format) = 1 .. Len(Items(Step.format))
      BY <2>2, ItemsAre
    <3>2. /\ item.arg \in 1 .. Len(Step.args)
          /\ IF "result" \in DOMAIN arg
             THEN /\ arg.result \in 1 .. n - 1
                  /\ TypeOfResult(Code[current][arg.result]) = Asked(item.ch)
             ELSE arg.value \in Values(Asked(item.ch))
      BY <1>2, <1>4, <2>3, <3>1, ArgumentsAssumption
    <3> HIDE DEF item, arg
    <3>3. Value(arg) \in Values(Asked(item.ch))
      <4>1. CASE "result" \in DOMAIN arg
        <5>1. Value(arg) = results[current][arg.result]
          BY <4>1 DEF Value
        <5>2. arg.result \in 1 .. Len(results[current])
          BY <1>2, <3>2, <4>1
        <5>3. results[current][arg.result] \in Values(TypeOfResult(Code[current][arg.result]))
          BY <1>2, <5>2 DEF ProgramsInv, StepsInv
        <5> QED
          BY <3>2, <4>1, <5>1, <5>3
      <4>2. CASE "result" \notin DOMAIN arg
        <5>1. Value(arg) = arg.value
          BY <4>2 DEF Value
        <5> QED
          BY <3>2, <4>2, <5>1
      <4> QED
        BY <4>1, <4>2
    <3>4. values[item.arg] = Value(arg)
      BY <3>2 DEF arg
    <3> QED
      BY <3>3, <3>4 DEF item
  <2>4. Fits(Step.format, values)
    <3> HIDE DEF values
    <3> QED
      BY <2>3 DEF Fits
  <2> HIDE DEF values, text
  <2>5. text \in Seq(Characters)
    BY <2>1, <2>2, <2>4, PrintedIs
  <2> QED
    BY <1>3, <2>5
<1>5. CASE Step.fn = "ls"
  <2>1. "ls" # "printf" /\ "ls" # "cat"
    OBVIOUS
  <2>2. text = ls_aux(Step.args)
    BY <1>5, <2>1, Zenon
  <2>3. Step.args \in Seq(Seq(Characters))
    BY <1>2, <1>5, ProgramsAssumption
  <2> HIDE DEF text
  <2>4. text \in Seq(Characters)
    BY <2>2, <2>3, KernelPrints
  <2> QED
    BY <1>3, <2>4
<1>6. CASE Step.fn = "cat"
  <2>1. "cat" # "printf" /\ "ls" # "cat"
    OBVIOUS
  <2>2. text = cat_aux(Step.args)
    BY <1>6, <2>1, Zenon
  <2>3. Step.args \in Seq(Characters)
    BY <1>2, <1>6, ProgramsAssumption
  <2> HIDE DEF text
  <2>4. text \in Seq(Characters)
    BY <2>2, <2>3, KernelPrints
  <2> QED
    BY <1>3, <2>4
<1> QED
  BY <1>1, <1>4, <1>5, <1>6

\* A program that prints.
LEMMA PutTextKeepsPrograms == ProgramsInv /\ PutText => ProgramsInv'
<1> SUFFICES ASSUME ProgramsInv, PutText PROVE ProgramsInv'
  OBVIOUS
<1>1. CInv'
  BY PutTextKeeps DEF ProgramsInv
<1>2. /\ kernel = "user" /\ todo[current] # <<>> /\ Step.fn \notin {"scan", "read"}
      /\ results' = [results EXCEPT ![current] = Append(@, <<>>)]
      /\ todo' = [todo EXCEPT ![current] = Tail(@)]
      /\ UNCHANGED <<kernel, intr_nesting, scan>>
  BY DEF PutText, InUser, Busy
<1>3. StepsInv' /\ ScanInv'
  BY <1>2, PrintEnds
<1>4. PICK text \in Seq(Characters) : Show(text)
  BY TextsPrinted
<1>5. ScreenInv'
  BY <1>4, ShowKeeps DEF ProgramsInv
<1> QED
  BY <1>1, <1>3, <1>5 DEF ProgramsInv

\* A read begins or goes to sleep, the clock ticks: nothing is returned.
LEMMA OthersKeepPrograms == ProgramsInv /\ (Read \/ Wait \/ Timer) => ProgramsInv'
<1> SUFFICES ASSUME ProgramsInv, Read \/ Wait \/ Timer PROVE ProgramsInv'
  OBVIOUS
<1>1. CInv'
  BY ReadKeeps, WaitKeeps, TimerKeeps DEF ProgramsInv
<1>2. UNCHANGED <<programVars, screenVars>>
  BY DEF Read, Wait, Timer, programVars, screenVars
<1>3. StepsInv' /\ ScreenInv'
  BY <1>2 DEF ProgramsInv, StepsInv, ScreenInv, programVars, screenVars
<1>4. ScanInv'
  <2>1. /\ scan' \in [Readers -> [phase : {"skip", "body"}, text : Seq(Characters)]]
        /\ \A p \in Readers :
             (IF Scanning(p) THEN scan[p].text \in Texts(Head(todo[p]).kind) ELSE scan[p] = Start)'
    BY <1>2 DEF ProgramsInv, ScanInv, Scanning, programVars
  <2>2. kernel' = "user" => ~intr_nesting'
    BY DEF ProgramsInv, CInv, ReadInv, ScanInv, Read, Wait, Timer, Interruptible, Woken
  <2>3. kernel' # "user" => Step'.fn \in {"scan", "read"} /\ (Step'.fn = "scan" => want' = 1)
    <3>1. CASE Read
      BY <3>1 DEF Read, Step
    <3>2. CASE Wait
      BY <3>2 DEF Wait, Step, ProgramsInv, ScanInv
    <3>3. CASE Timer
      <4>1. kernel # "user" => intr_nesting
        BY <3>3 DEF Timer, Interruptible, ProgramsInv, CInv, ReadInv
      <4>2. kernel' # "user" => kernel # "user" /\ current' = current
        BY <3>3, <4>1 DEF Timer, Woken
      <4> QED
        BY <3>3, <4>2 DEF Timer, Step, ProgramsInv, ScanInv
    <3> QED
      BY <3>1, <3>2, <3>3
  <2> QED
    BY <2>1, <2>2, <2>3 DEF ScanInv
<1> QED
  BY <1>1, <1>3, <1>4 DEF ProgramsInv

\* A key is echoed.
LEMMA KeyboardKeepsPrograms ==
  ASSUME ProgramsInv, NEW code \in ScanCodes, Keyboard(code)
  PROVE  ProgramsInv'
<1>1. CInv'
  BY KeyboardTypes DEF ProgramsInv
<1>2. UNCHANGED <<programVars, intr_nesting, current, want>> /\ kernel' = Woken
  BY DEF Keyboard, programVars
<1>3. StepsInv'
  BY <1>2 DEF ProgramsInv, StepsInv, programVars
<1>4. ScanInv'
  <2>1. kernel' = "user" => kernel = "user"
    BY <1>2 DEF Woken
  <2>2. kernel' # "user" => kernel # "user"
    BY <1>2 DEF Woken
  <2> QED
    BY <1>2, <2>1, <2>2 DEF ProgramsInv, ScanInv, Scanning, Step, programVars
<1>5. ScreenInv'
  <2>1. CASE press_key(code) = "NUL"
    <3>1. UNCHANGED screenVars
      BY <2>1 DEF Keyboard, screenVars
    <3> QED
      BY <3>1 DEF ProgramsInv, ScreenInv, screenVars
  <2>2. CASE press_key(code) # "NUL"
    <3> DEFINE ch == press_key(code)
    <3>1. Show(<<ch>>)
      BY <2>2 DEF Keyboard
    <3>2. ch \in Characters
      BY KeysAssumption
    <3> HIDE DEF ch
    <3>3. <<ch>> \in Seq(Characters)
      BY <3>2
    <3> QED
      BY <3>1, <3>3, ShowKeeps DEF ProgramsInv
  <2> QED
    BY <2>1, <2>2
<1> QED
  BY <1>1, <1>3, <1>4, <1>5 DEF ProgramsInv

\* What a read that ends brings its process.
LEMMA DeliverIs ==
  ASSUME ProgramsInv, Deliver, NEW p, p = current
  PROVE  /\ p \in Readers /\ todo[p] # <<>> /\ Step.fn \in {"scan", "read"}
         /\ \E text \in Seq(Characters) :
              /\ taken' = [taken EXCEPT ![p] = @ \o text]
              /\ Receive(text)
              /\ Step.fn = "scan" => Len(text) = 1
<1> DEFINE text == [i \in 1 .. want |-> BUF[buf_out + i - 1]]
<1>1. /\ kernel = "test" /\ ~(buf_out + (want - 1) >= buf_in)
      /\ Receive(text) /\ ~wild /\ taken' = [taken EXCEPT ![p] = @ \o text]
  BY DEF Deliver, mustWait
<1>2. /\ todo[p] # <<>> /\ p \in Readers
      /\ Step.fn \in {"scan", "read"} /\ (Step.fn = "scan" => want = 1) /\ want \in Nat
  BY <1>1 DEF ProgramsInv, CInv, ReadInv, ScanInv, Step
<1>3. text \in Seq(Characters) /\ Len(text) = want
  <2>1. \A i \in 1 .. want : buf_out + i - 1 \in 0 .. MaxBuf - 1 /\ buf_out + i - 1 < buf_in
    BY <1>1, <1>2, ConsoleAssumption DEF ProgramsInv, CInv, BufferInv
  <2>2. Chars \subseteq Characters
    BY KeysAssumption DEF Chars
  <2>3. \A i \in 1 .. want : BUF[buf_out + i - 1] \in Characters
    BY <2>1, <2>2 DEF ProgramsInv, CInv, BufferInv
  <2> QED
    BY <1>2, <2>3
<1> HIDE DEF text
<1> QED
  BY <1>1, <1>2, <1>3

\* The characters a read takes have been typed; one that belongs to a scan
\* function goes through it, and ends its step or not.
LEMMA DeliverKeepsPrograms == ProgramsInv /\ Deliver => ProgramsInv'
<1> SUFFICES ASSUME ProgramsInv, Deliver PROVE ProgramsInv'
  OBVIOUS
<1> DEFINE p == current
<1>1. CInv'
  BY DeliverTakes DEF ProgramsInv
<1>2. /\ ~intr_nesting' /\ kernel' = "user" /\ UNCHANGED <<current, screen, shown>>
  BY DEF Deliver
<1>3. ScreenInv'
  BY <1>2 DEF ProgramsInv, ScreenInv
<1>4. /\ todo[p] # <<>> /\ p \in Readers /\ todo \in [Readers -> Seq(AllSteps)]
      /\ scan \in [Readers -> [phase : {"skip", "body"}, text : Seq(Characters)]]
      /\ Step.fn \in {"scan", "read"} /\ Step = Head(todo[p])
  BY DeliverIs DEF ProgramsInv, CInv, ReadInv, ScanInv, Step
<1>5. PICK text \in Seq(Characters) : Receive(text) /\ (Step.fn = "scan" => Len(text) = 1)
  BY DeliverIs
<1> DEFINE fed == Feed(Step.kind, scan[p], Last(text))
           ended == Step.fn = "read" \/ fed.phase = "done"
           result == IF Step.fn = "read" THEN text ELSE Result(Step.kind, fed.text)
<1>6. /\ scan' = [scan EXCEPT ![p] = IF ended THEN Start ELSE fed]
      /\ todo' = [todo EXCEPT ![p] = IF ended THEN Tail(@) ELSE @]
      /\ results' = [results EXCEPT ![p] = IF ended THEN Append(@, result) ELSE @]
  BY <1>5 DEF Receive
<1> HIDE DEF fed, p
<1>7. ASSUME Step.fn = "scan"
      PROVE  /\ Step.kind \in Kinds /\ scan[p].text \in Texts(Step.kind)
             /\ fed \in Scans(Step.kind)
             /\ Step.kind \in {"c", "getchar"} /\ fed.phase = "done" =>
                  \E ch \in Characters : fed.text = <<ch>>
  <2>1. Step \in AllSteps /\ Step.kind \in Kinds
    <3>1. Step \in AllSteps
      BY <1>4, StepIs DEF p
    <3> QED
      BY <1>7, <3>1, ProgramsAssumption DEF Kinds
  <2>2. Scanning(p) /\ scan[p].text \in Texts(Step.kind)
    BY <1>4, <1>7 DEF ProgramsInv, ScanInv, Scanning
  <2>3. scan[p] \in Scans(Step.kind) /\ scan[p].phase # "done"
    <3>1. scan[p] \in [phase : {"skip", "body"}, text : Seq(Characters)]
      BY <1>4
    <3> QED
      BY <2>2, <3>1 DEF Scans
  <2>4. Last(text) \in Characters
    <3>1. Len(text) = 1 /\ text[1] \in Characters
      BY <1>4, <1>5, <1>7
    <3> QED
      BY <3>1 DEF Last
  <2> QED
    BY <2>1, <2>2, <2>3, <2>4, FeedIs DEF fed
<1>8. CASE ended
  <2>1. /\ scan' = [scan EXCEPT ![p] = Start] /\ todo' = [todo EXCEPT ![p] = Tail(@)]
        /\ results' = [results EXCEPT ![p] = Append(@, result)]
    BY <1>6, <1>8
  <2>2. result \in Values(TypeOfResult(Step))
    <3>1. CASE Step.fn = "read"
      BY <1>5, <3>1 DEF TypeOfResult, Values
    <3>2. CASE Step.fn = "scan"
      <4>1. fed.phase = "done" /\ result = Result(Step.kind, fed.text)
        BY <1>8, <3>2
      <4>2. fed.text \in Texts(Step.kind)
        BY <1>7, <3>2 DEF Scans
      <4> QED
        BY <1>7, <3>2, <4>1, <4>2, ResultIs
    <3> QED
      BY <1>4, <3>1, <3>2
  <2> HIDE DEF result, ended
  <2>3. StepsInv'
    BY <1>4, <2>1, <2>2, StepEnds DEF p
  <2>4. ScanInv'
    BY <1>2, <1>4, <2>1, ScanEnds DEF p
  <2> QED
    BY <1>1, <1>3, <2>3, <2>4 DEF ProgramsInv
<1>9. CASE ~ended
  <2>1. scan' = [scan EXCEPT ![p] = fed]
    BY <1>6, <1>9
  <2>2. todo' = todo
    BY <1>4, <1>6, <1>9
  <2>3. results' = results
    <3>1. results \in [Readers -> Seq(Returned)]
      BY DEF ProgramsInv, StepsInv
    <3> QED
      BY <1>4, <1>6, <1>9, <3>1
  <2>4. StepsInv'
    BY <2>2, <2>3 DEF ProgramsInv, StepsInv
  <2>5. Step.fn = "scan" /\ fed.phase # "done"
    BY <1>4, <1>9
  <2>6. /\ fed \in [phase : {"skip", "body"}, text : Seq(Characters)]
        /\ fed.text \in Texts(Step.kind)
    <3>1. fed \in Scans(Step.kind) /\ Texts(Step.kind) \subseteq Seq(Characters)
      BY <1>7, <2>5, TextsAre
    <3> QED
      BY <2>5, <3>1 DEF Scans
  <2>7. ScanInv'
    <3>1. ASSUME NEW q \in Readers
          PROVE  IF Scanning(q)' THEN scan'[q].text \in Texts(Head(todo'[q]).kind)
                 ELSE scan'[q] = Start
      <4>1. Scanning(q)' <=> Scanning(q)
        BY <2>2 DEF Scanning
      <4>2. CASE q = p
        <5>1. Scanning(p)
          BY <1>4, <2>5 DEF Scanning
        <5>2. scan'[p] = fed
          BY <1>4, <2>1
        <5> QED
          BY <1>4, <2>2, <2>6, <4>1, <4>2, <5>1, <5>2
      <4>3. CASE q # p
        <5>1. scan'[q] = scan[q]
          BY <1>4, <2>1, <4>3
        <5> QED
          BY <2>2, <4>1, <5>1 DEF ProgramsInv, ScanInv
      <4> QED
        BY <4>2, <4>3
    <3>2. scan' \in [Readers -> [phase : {"skip", "body"}, text : Seq(Characters)]]
      BY <1>4, <2>1, <2>6
    <3> QED
      BY <1>2, <3>1, <3>2 DEF ScanInv
  <2> QED
    BY <1>1, <1>3, <2>4, <2>7 DEF ProgramsInv
<1> QED
  BY <1>8, <1>9

\* Every step keeps it.
LEMMA StepsKeepPrograms == ProgramsInv /\ [Next]_vars => ProgramsInv'
<1> SUFFICES ASSUME ProgramsInv, [Next]_vars PROVE ProgramsInv'
  OBVIOUS
<1>1. CASE UNCHANGED vars
  <2>1. CInv'
    BY <1>1, StepsAreTheQueues DEF ProgramsInv
  <2>2. UNCHANGED <<programVars, screenVars, kernel, intr_nesting, current, want>>
    BY <1>1 DEF vars, programVars, screenVars
  <2>3. StepsInv' /\ ScreenInv'
    BY <2>2 DEF ProgramsInv, StepsInv, ScreenInv, programVars, screenVars
  <2>4. ScanInv'
    BY <2>2 DEF ProgramsInv, ScanInv, Scanning, Step, programVars
  <2> QED
    BY <2>1, <2>3, <2>4 DEF ProgramsInv
<1>2. ASSUME NEW code \in ScanCodes, Keyboard(code) PROVE ProgramsInv'
  BY <1>2, KeyboardKeepsPrograms
<1> QED
  BY <1>1, <1>2, PutTextKeepsPrograms, OthersKeepPrograms, DeliverKeepsPrograms
  DEF Next, WaitLoop

\* What a process has read and still has to do make up its program, results are
\* of the type their step returns, a scan function holds characters of its kind
\* only while it runs, and the screen agrees with the layout of the characters
\* put on it (read_aux, scanf, printf, screen_put).
THEOREM InductivePrograms == Spec => []ProgramsInv
<1> QED
  BY ProgramsStart, StepsKeepPrograms, PTL DEF Spec

\* The indices into BUF and the cursor stay where they may be, and intr_nesting
\* is never set in user mode (wait_for_keyboard, screen_put).
THEOREM TypeCorrect == Spec => []TypeOK
<1>1. ProgramsInv => TypeOK
  <2> SUFFICES ASSUME ProgramsInv PROVE TypeOK
    OBVIOUS
  <2>1. /\ 0 <= buf_out /\ buf_out <= buf_in /\ buf_in <= MaxBuf + 1
        /\ kernel \in {"user", "test", "halt"} /\ current \in Readers
        /\ kernel = "halt" => intr_nesting
    BY DEF ProgramsInv, CInv, BufferInv, ReadInv
  <2>2. wild = (buf_in > MaxBuf)
    <3>1. wild \in BOOLEAN /\ (wild <=> buf_in > MaxBuf)
      BY DEF ProgramsInv, CInv, BufferInv
    <3> DEFINE over == buf_in > MaxBuf
    <3>2. over \in BOOLEAN
      OBVIOUS
    <3>3. wild <=> over
      BY <3>1
    <3> HIDE DEF over
    <3>4. wild = over
      BY <3>1, <3>2, <3>3
    <3> QED
      BY <3>4 DEF over
  <2>3. kernel = "user" => ~intr_nesting
    BY DEF ProgramsInv, ScanInv
  <2>4. screen.x \in 0 .. Cols - 1 /\ screen.y \in Nat
    BY DEF ProgramsInv, ScreenInv, Screens
  <2>5. \A p \in Readers : scan[p].phase \in {"skip", "body"}
    BY DEF ProgramsInv, ScanInv
  <2> QED
    BY <2>1, <2>2, <2>3, <2>4, <2>5 DEF TypeOK
<1> QED
  BY <1>1, InductivePrograms, PTL

\* What echoes and prints have put on the screen is on it, row by row, as long
\* as neither a backspace nor a carriage return, which overwrite, is among it;
\* the other control characters and the bytes from 0x80 on leave no trace
\* (screen_put, write_aux, printQ).
THEOREM ScreenShowsText == Spec => []TextOnScreen
<1>1. ProgramsInv => TextOnScreen
  <2> SUFFICES ASSUME ProgramsInv, Plain(shown) PROVE TextOnScreen
    BY DEF TextOnScreen
  <2>1. Matches(screen, Layout(shown))
    BY DEF ProgramsInv, ScreenInv
  <2> DEFINE layout == Layout(shown).rows \o Layout(shown).line
  <2>2. Shows(screen.cells, layout)
    BY <2>1 DEF Matches
  <2> QED
    BY <2>2, Zenon DEF TextOnScreen, Shows
<1> QED
  BY <1>1, InductivePrograms, PTL

-----------------------------------------------------------------------------
(* What is printed can be scanned. *)

\* One more digit.
LEMMA NumberGrows ==
  ASSUME NEW base \in 2 .. 16, NEW t \in Numerals(base), NEW ch \in Characters,
         IsDigit(ch, base)
  PROVE  /\ Append(t, ch) \in Numerals(base)
         /\ Number(base, Append(t, ch)) = (Number(base, t) * base + DigitValue(ch)) % Modulus
<1> DEFINE u == Append(t, ch)
           N == Len(t)
<1>1. t \in Seq(Characters) /\ N \in Nat /\ \A i \in 1 .. N : IsDigit(t[i], base)
  BY DEF Numerals
<1>2. /\ u \in Seq(Characters) /\ Len(u) = N + 1 /\ u[N + 1] = ch
      /\ \A i \in 1 .. N : u[i] = t[i]
  BY <1>1, AppendProperties
<1> HIDE DEF u, N
<1>3. \A i \in 1 .. N + 1 : i \in 1 .. N \/ i = N + 1
  BY <1>1
<1>4. u \in Numerals(base)
  BY <1>1, <1>2, <1>3 DEF Numerals
<1>5. PICK a \in [0 .. N -> 0 .. Modulus - 1] :
        /\ a[0] = 0 /\ Number(base, t) = a[N]
        /\ \A n \in 1 .. N : a[n] = (a[n - 1] * base + DigitValue(t[n])) % Modulus
  BY NumberSteps DEF N
<1>6. PICK b \in [0 .. N + 1 -> 0 .. Modulus - 1] :
        /\ b[0] = 0 /\ Number(base, u) = b[N + 1]
        /\ \A n \in 1 .. N + 1 : b[n] = (b[n - 1] * base + DigitValue(u[n])) % Modulus
  <2> DEFINE K == Len(u)
  <2>1. \E b \in [0 .. K -> 0 .. Modulus - 1] :
          /\ b[0] = 0 /\ Number(base, u) = b[K]
          /\ \A n \in 1 .. K : b[n] = (b[n - 1] * base + DigitValue(u[n])) % Modulus
    BY <1>4, NumberSteps
  <2>2. K = N + 1
    BY <1>2
  <2> HIDE DEF K
  <2> QED
    BY <2>1, <2>2, Zenon
<1>7. a[N] = b[N]
  <2> DEFINE P == {n \in 0 .. N : a[n] = b[n]}
  <2>1. 0 \in P
    BY <1>1, <1>5, <1>6
  <2>2. ASSUME NEW n \in 1 .. N, n - 1 \in P PROVE n \in P
    <3>1. n \in 1 .. N + 1 /\ n \in 0 .. N /\ a[n - 1] = b[n - 1] /\ u[n] = t[n]
      BY <1>1, <1>2, <2>2, SMTT(60)
    <3>2. a[n] = (a[n - 1] * base + DigitValue(t[n])) % Modulus
      BY <1>5
    <3>3. b[n] = (b[n - 1] * base + DigitValue(u[n])) % Modulus
      BY <1>6, <3>1
    <3>4. a[n] = b[n]
      BY <3>1, <3>2, <3>3, Zenon
    <3> QED
      BY <3>1, <3>4
  <2> HIDE DEF P
  <2>3. \A n \in 0 .. N : n \in P
    BY <1>1, <2>1, <2>2, UpTo
  <2>4. N \in 0 .. N
    BY <1>1
  <2> QED
    BY <2>3, <2>4 DEF P
<1>8. b[N + 1] = (b[N] * base + DigitValue(ch)) % Modulus
  <2>1. N + 1 \in 1 .. N + 1 /\ (N + 1) - 1 = N
    BY <1>1
  <2> QED
    BY <1>2, <1>6, <2>1
<1>9. Number(base, u) = (Number(base, t) * base + DigitValue(ch)) % Modulus
  BY <1>5, <1>6, <1>7, <1>8, Zenon
<1> QED
  BY <1>4, <1>9 DEF u

\* No digits are the number 0.
LEMMA NumberOfNothing ==
  ASSUME NEW base \in 2 .. 16
  PROVE  <<>> \in Numerals(base) /\ Number(base, <<>>) = 0
<1>1. <<>> \in Numerals(base) /\ Len(<<>>) = 0
  BY DEF Numerals
<1>2. PICK num \in [0 .. Len(<<>>) -> 0 .. Modulus - 1] :
        num[0] = 0 /\ Number(base, <<>>) = num[Len(<<>>)]
  BY <1>1, NumberSteps, ZenonT(60)
<1> QED
  BY <1>1, <1>2

\* A number below the base is its own last digit.
LEMMA SmallRemainder ==
  ASSUME NEW n \in Nat, NEW base \in 2 .. 16, n < base
  PROVE  n % base = n
  OBVIOUS

\* A number below the modulus is its own remainder.
LEMMA NoRemainder ==
  ASSUME NEW M \in Nat \ {0}, NEW n \in 0 .. M - 1
  PROVE  n % M = n
  OBVIOUS

\* What is not greater than a number below M is below M.
LEMMA InReach ==
  ASSUME NEW M \in Nat \ {0}, NEW v \in 0 .. M - 1, NEW n \in 0 .. v
  PROVE  n \in 0 .. M - 1
  OBVIOUS

\* The numeral of a number that fits an int is the number.
LEMMA NumeralsReadBack ==
  ASSUME NEW base \in 2 .. 16, NEW v \in 0 .. Modulus - 1
  PROVE  Numeral(v, base) \in Numerals(base) /\ Number(base, Numeral(v, base)) = v
<1>1. Modulus \in Nat \ {0} /\ v \in Nat
  BY ModulusIs
<1>2. PICK f \in [0 .. v -> Seq(Characters)] :
        /\ Numeral(v, base) = f[v]
        /\ \A n \in 0 .. v :
             /\ n \div base \in 0 .. n /\ n % base \in 0 .. base - 1
             /\ Digits[(n % base) + 1] \in Characters
             /\ n >= base => n \div base \in 1 .. n - 1
             /\ f[n] = IF n < base THEN <<Digits[n + 1]>>
                       ELSE f[n \div base] \o <<Digits[(n % base) + 1]>>
  BY <1>1, NumeralSteps
<1> DEFINE Good(n) == f[n] \in Numerals(base) /\ Number(base, f[n]) = n
           M == {n \in 0 .. v : ~Good(n)}
<1>3. ASSUME NEW n \in 0 .. v, NEW t \in Numerals(base), NEW q \in Nat,
             Number(base, t) = q, NEW d \in 0 .. base - 1, n = q * base + d,
             Digits[d + 1] \in Characters, f[n] = Append(t, Digits[d + 1])
      PROVE  Good(n)
  <2> DEFINE ch == Digits[d + 1]
  <2>1. d + 1 \in 1 .. base /\ d + 1 \in 1 .. 16 /\ (d + 1) - 1 = d
    OBVIOUS
  <2>2. IsDigit(ch, base) /\ DigitValue(ch) = d
    BY <2>1, DigitIs DEF IsDigit
  <2>3. f[n] \in Numerals(base) /\ Number(base, f[n]) = (q * base + d) % Modulus
    <3> HIDE DEF ch
    <3>1. ch \in Characters /\ f[n] = Append(t, ch)
      BY <1>3 DEF ch
    <3> QED
      BY <1>3, <2>2, <3>1, NumberGrows, ZenonT(60)
  <2>4. n % Modulus = n
    <3>1. n \in 0 .. Modulus - 1
      BY <1>1, InReach
    <3> QED
      BY <1>1, <3>1, NoRemainder
  <2> QED
    BY <1>3, <2>3, <2>4
<1> HIDE DEF Good
<1>4. ASSUME NEW n \in 0 .. v, \A j \in 0 .. v : j < n => Good(j)
      PROVE  Good(n)
  <2> DEFINE q == n \div base
             d == n % base
  <2>1. n \in Nat /\ n = q * base + d
    BY <1>1
  <2>2. /\ q \in 0 .. n /\ d \in 0 .. base - 1 /\ Digits[d + 1] \in Characters
        /\ n >= base => q \in 1 .. n - 1
        /\ f[n] = IF n < base THEN <<Digits[n + 1]>> ELSE f[q] \o <<Digits[d + 1]>>
    BY <1>2, Zenon
  <2>3. n < base => n = d
    BY <2>1, SmallRemainder
  <2> HIDE DEF q, d
  <2>4. CASE n < base
    <3>1. n \in 0 .. base - 1 /\ n = d
      BY <2>1, <2>3, <2>4
    <3>2. f[n] = <<Digits[n + 1]>>
      BY <2>2, <2>4, Zenon
    <3>3. f[n] = Append(<<>>, Digits[n + 1])
      BY <3>2
    <3>4. n = 0 * base + n
      BY <2>1
    <3>5. <<>> \in Numerals(base) /\ Number(base, <<>>) = 0
      BY NumberOfNothing
    <3> DEFINE t == <<>>
    <3>6. /\ t \in Numerals(base) /\ Number(base, t) = 0 /\ 0 \in Nat
          /\ f[n] = Append(t, Digits[d + 1])
      BY <3>1, <3>3, <3>5
    <3> HIDE DEF t, Good
    <3>7. n = 0 * base + d /\ d \in 0 .. base - 1 /\ Digits[d + 1] \in Characters
      BY <2>2, <3>1, <3>4
    <3> QED
      BY <1>3, <3>6, <3>7
  <2>5. CASE ~(n < base)
    <3>1. q \in 1 .. n - 1 /\ f[n] = f[q] \o <<Digits[d + 1]>>
      <4>1. n >= base
        BY <2>1, <2>5
      <4> QED
        BY <2>2, <2>5, <4>1, Zenon
    <3>2. q \in 0 .. v /\ q \in Nat /\ q < n
      BY <2>1, <3>1
    <3>3. f[q] \in Numerals(base) /\ Number(base, f[q]) = q
      BY <1>4, <3>2 DEF Good
    <3>4. f[n] = Append(f[q], Digits[d + 1])
      <4>1. f[q] \in Seq(Characters)
        BY <1>2, <3>2
      <4> DEFINE ch == Digits[d + 1]
      <4>2. ch \in Characters /\ f[n] = f[q] \o <<ch>>
        BY <2>2, <3>1
      <4> HIDE DEF ch
      <4>3. f[n] = Append(f[q], ch)
        BY <4>1, <4>2, AppendIsConcat
      <4> QED
        BY <4>3 DEF ch
    <3> DEFINE t == f[q]
    <3>5. t \in Numerals(base) /\ Number(base, t) = q /\ f[n] = Append(t, Digits[d + 1])
      BY <3>3, <3>4
    <3> HIDE DEF t, Good
    <3>6. q \in Nat /\ n = q * base + d /\ d \in 0 .. base - 1 /\ Digits[d + 1] \in Characters
      BY <2>1, <2>2, <3>2
    <3> QED
      BY <1>3, <3>5, <3>6
  <2> QED
    BY <2>4, <2>5
<1>5. M = {}
  <2> SUFFICES ASSUME M # {} PROVE FALSE
    OBVIOUS
  <2>1. M \in SUBSET Nat
    BY <1>1
  <2> HIDE DEF M
  <2>2. PICK n \in M : \A j \in M : n <= j
    BY <2>1, LeastNat
  <2>3. n \in 0 .. v /\ ~Good(n)
    BY DEF M
  <2>4. \A j \in 0 .. v : j < n => Good(j)
    <3>1. ASSUME NEW j \in 0 .. v, j < n, ~Good(j) PROVE FALSE
      <4>1. j \in M
        BY <3>1 DEF M
      <4> QED
        BY <2>2, <2>3, <3>1, <4>1
    <3> QED
      BY <3>1
  <2> QED
    BY <1>4, <2>3, <2>4
<1>6. v \in 0 .. v
  BY <1>1
<1>7. Good(v)
  BY <1>5, <1>6
<1> QED
  BY <1>2, <1>7 DEF Good

\* A text is scanned character by character, up to the end of the body.
LEMMA TextScanned ==
  ASSUME NEW kind \in Kinds, NEW text \in Seq(Characters)
  PROVE  \E s \in [0 .. Len(text) -> Scans(kind)] :
           /\ s[0] = Start /\ ScanText(kind, text) = Result(kind, s[Len(text)].text)
           /\ \A n \in 1 .. Len(text) :
                s[n] = IF s[n - 1].phase = "done" THEN s[n - 1]
                       ELSE Feed(kind, s[n - 1], text[n])
<1> DEFINE N == Len(text)
           V == Scans(kind)
           next(x, ch) == IF x.phase = "done" THEN x ELSE Feed(kind, x, ch)
           Eqn(s) == s = [n \in 0 .. N |-> IF n = 0 THEN Start ELSE next(s[n - 1], text[n])]
           g == [nx \in (1 .. N) \X V |-> next(nx[2], text[nx[1]])]
<1>1. N \in Nat /\ \A n \in 1 .. N : text[n] \in Characters
  OBVIOUS
<1>2. ASSUME NEW x \in V, NEW ch \in Characters PROVE next(x, ch) \in V
  BY FeedIs
<1>3. Start \in V
  <2>1. <<>> \in Texts(kind)
    BY TextsAre
  <2> QED
    BY <2>1 DEF Start, Scans
<1> HIDE DEF next, V
<1>4. g \in [(1 .. N) \X V -> V]
  <2>1. ASSUME NEW nx \in (1 .. N) \X V PROVE next(nx[2], text[nx[1]]) \in V
    BY <1>1, <1>2
  <2> QED
    BY <2>1
<1>5. \A n \in 1 .. N, x \in V : g[<<n, x>>] = next(x, text[n])
  OBVIOUS
<1> HIDE DEF g, N
<1>6. PICK f : Iteration(f, V, Start, N, g)
  <2> HIDE DEF Eqn
  <2> QED
    BY <1>1, <1>3, <1>4, Iterates
<1>7. Eqn(f)
  <2> USE <1>6 DEF Iteration
  <2>1. ASSUME NEW n \in 1 .. N PROVE f[n] = next(f[n - 1], text[n])
    <3>1. n - 1 \in 0 .. N
      BY <1>1
    <3> QED
      BY <1>5, <3>1
  <2> QED
    BY <1>1, <2>1
<1> DEFINE s == CHOOSE w : Eqn(w)
<1>8. Eqn(s)
  BY <1>7, Zenon
<1>9. ScanText(kind, text) = Result(kind, s[N].text)
  BY Zenon DEF ScanText, N, next
<1> HIDE DEF s
<1>10. /\ s[0] = Start
       /\ \A n \in 1 .. N : s[n] = next(s[n - 1], text[n])
       /\ s = [n \in 0 .. N |-> s[n]]
  <2>1. \A n \in 0 .. N : s[n] = IF n = 0 THEN Start ELSE next(s[n - 1], text[n])
    BY <1>8
  <2>2. s = [n \in 0 .. N |-> s[n]]
    BY <1>8
  <2> HIDE DEF Eqn
  <2>3. 0 \in 0 .. N /\ \A n \in 1 .. N : n \in 0 .. N /\ n # 0
    BY <1>1
  <2> QED
    BY <2>1, <2>2, <2>3, Zenon
<1>11. \A n \in 0 .. N : s[n] \in V
  <2> DEFINE P == {n \in 0 .. N : s[n] \in V}
  <2>1. 0 \in P
    BY <1>1, <1>3, <1>10
  <2>2. ASSUME NEW n \in 1 .. N, n - 1 \in P PROVE n \in P
    <3>1. s[n - 1] \in V /\ n \in 0 .. N
      BY <1>1, <2>2
    <3>2. next(s[n - 1], text[n]) \in V
      BY <1>1, <1>2, <3>1
    <3> QED
      BY <1>10, <3>1, <3>2
  <2> HIDE DEF P
  <2>3. \A n \in 0 .. N : n \in P
    BY <1>1, <2>1, <2>2, UpTo
  <2> QED
    BY <2>3 DEF P
<1> QED
  BY <1>9, <1>10, <1>11, Zenon DEF N, next, V

\* A digit is no blank, and neither a blank nor a minus is a digit.
LEMMA DigitsApart ==
  ASSUME NEW base \in 1 .. 16
  PROVE  /\ ~IsDigit(Space, base) /\ ~IsDigit("-", base)
         /\ \A ch : IsDigit(ch, base) => ~Blank(ch)
         /\ Blank(Space) /\ ~Blank("-")
<1>1. ASSUME NEW ch, IsDigit(ch, base)
      PROVE  ch \in {"0", "1", "2", "3", "4", "5", "6", "7", "8", "9", "a", "b", "c", "d", "e", "f"}
  <2>1. PICK n \in 1 .. base : Digits[n] = ch
    BY <1>1 DEF IsDigit
  <2>2. n \in 1 .. 16
    OBVIOUS
  <2> QED
    BY <2>1, <2>2 DEF Digits
<1>2. Space \notin {"0", "1", "2", "3", "4", "5", "6", "7", "8", "9", "a", "b", "c", "d", "e", "f"}
  BY Zenon DEF Space
<1>3. "-" # Space
  BY Zenon DEF Space
<1> QED
  BY <1>1, <1>2, <1>3 DEF Blank

\* The state of scan_dec or scan_hex within a body.
LEMMA FeedCases ==
  ASSUME NEW kind \in {"d", "x"}, NEW ch, NEW s \in Scans(kind)
  PROVE  /\ IsDigit(ch, Base(kind)) =>
              Feed(kind, s, ch).phase = "body" /\ Feed(kind, s, ch).text = Append(s.text, ch)
         /\ ~IsDigit(ch, Base(kind)) => Feed(kind, s, ch).text = s.text
         /\ ~IsDigit(ch, Base(kind)) /\ ~Blank(ch) => Feed(kind, s, ch).phase = "done"
<1> DEFINE fed == Feed(kind, s, ch)
           longer == Append(s.text, ch)
<1>1. Base(kind) \in 1 .. 16 /\ kind \notin {"c", "getchar"}
  BY DEF Base
<1>2. InBody(kind, ch) <=> IsDigit(ch, Base(kind))
  BY InBodyCases DEF Base
<1>3. IsDigit(ch, Base(kind)) => ~Blank(ch)
  BY <1>1, DigitsApart
<1>4. fed = IF s.phase = "skip" /\ Skips(kind) /\ Blank(ch) THEN s
            ELSE IF InBody(kind, ch) THEN [phase |-> "body", text |-> longer]
            ELSE [s EXCEPT !.phase = "done"]
  BY <1>1, Zenon DEF Feed
<1>5. s = [phase |-> s.phase, text |-> s.text]
  BY DEF Scans
<1> HIDE DEF fed, longer
<1>6. CASE IsDigit(ch, Base(kind))
  <2>1. fed = [phase |-> "body", text |-> longer]
    BY <1>2, <1>3, <1>4, <1>6
  <2> QED
    BY <1>6, <2>1 DEF fed, longer
<1>7. CASE ~IsDigit(ch, Base(kind))
  <2>1. (fed = s /\ Blank(ch)) \/ fed = [s EXCEPT !.phase = "done"]
    BY <1>2, <1>4, <1>7
  <2>2. [s EXCEPT !.phase = "done"] = [phase |-> "done", text |-> s.text]
    BY <1>5
  <2>3. fed.text = s.text /\ (~Blank(ch) => fed.phase = "done")
    BY <2>1, <2>2
  <2> QED
    BY <1>7, <2>3 DEF fed
<1> QED
  BY <1>6, <1>7

\* A numeral with a blank behind it is scanned as its number.
LEMMA NumeralScanned ==
  ASSUME NEW kind \in {"d", "x"}, NEW t \in Numerals(Base(kind))
  PROVE  ScanText(kind, Append(t, Space)) = Number(Base(kind), t)
<1> DEFINE u == Append(t, Space)
           N == Len(t)
<1>1. /\ kind \in Kinds /\ Base(kind) \in 1 .. 16 /\ t \in Seq(Characters) /\ N \in Nat
      /\ \A i \in 1 .. N : IsDigit(t[i], Base(kind))
  BY DEF Kinds, Base, Numerals
<1>2. /\ u \in Seq(Characters) /\ Len(u) = N + 1 /\ u[N + 1] = Space
      /\ \A i \in 1 .. N : u[i] = t[i]
  BY <1>1, AppendProperties, CharactersAssumption
<1> HIDE DEF u, N
<1>3. PICK s \in [0 .. N + 1 -> Scans(kind)] :
        /\ s[0] = Start /\ ScanText(kind, u) = Result(kind, s[N + 1].text)
        /\ \A n \in 1 .. N + 1 :
             s[n] = IF s[n - 1].phase = "done" THEN s[n - 1] ELSE Feed(kind, s[n - 1], u[n])
  <2> DEFINE K == Len(u)
  <2>1. \E s \in [0 .. K -> Scans(kind)] :
          /\ s[0] = Start /\ ScanText(kind, u) = Result(kind, s[K].text)
          /\ \A n \in 1 .. K :
               s[n] = IF s[n - 1].phase = "done" THEN s[n - 1] ELSE Feed(kind, s[n - 1], u[n])
    BY <1>1, <1>2, TextScanned
  <2>2. K = N + 1
    BY <1>2
  <2> HIDE DEF K
  <2> QED
    BY <2>1, <2>2, Zenon
<1> DEFINE Good(n) == /\ s[n].phase # "done" /\ Len(s[n].text) = n
                      /\ \A i \in 1 .. n : s[n].text[i] = t[i]
<1>4. \A n \in 0 .. N + 1 : s[n].text \in Seq(Characters)
  <2>1. \A n \in 0 .. N + 1 : s[n] \in Scans(kind)
    BY <1>3
  <2> QED
    BY <1>1, <2>1, TextsAre DEF Scans
<1>5. \A n \in 0 .. N : Good(n)
  <2> DEFINE P == {n \in 0 .. N : Good(n)}
  <2>1. Good(0)
    BY <1>3 DEF Start
  <2>2. ASSUME NEW n \in 1 .. N, Good(n - 1) PROVE Good(n)
    <3>1. n \in 1 .. N + 1 /\ n - 1 \in 0 .. N + 1 /\ n \in Nat
      BY <1>1
    <3>2. s[n] = Feed(kind, s[n - 1], t[n]) /\ IsDigit(t[n], Base(kind))
      BY <1>1, <1>2, <1>3, <2>2, <3>1
    <3>3. s[n - 1] \in Scans(kind)
      BY <1>3, <3>1
    <3> DEFINE a == s[n - 1].text
               b == Append(a, t[n])
    <3>4. s[n].phase = "body" /\ s[n].text = b
      BY <3>2, <3>3, FeedCases, SMTT(60)
    <3>5. a \in Seq(Characters) /\ Len(a) = n - 1 /\ t[n] \in Characters
      BY <1>1, <1>4, <2>2, <3>1 DEF N
    <3>6. Len(b) = n /\ b[n] = t[n] /\ \A i \in 1 .. n - 1 : b[i] = a[i]
      <4> HIDE DEF a
      <4>1. Len(b) = Len(a) + 1 /\ b[Len(a) + 1] = t[n] /\ \A i \in 1 .. Len(a) : b[i] = a[i]
        BY <3>5, AppendProperties
      <4>2. Len(a) + 1 = n
        BY <3>1, <3>5
      <4> HIDE DEF b
      <4> QED
        BY <3>5, <4>1, <4>2
    <3>7. \A i \in 1 .. n : i = n \/ i \in 1 .. n - 1
      BY <3>1
    <3> HIDE DEF b
    <3> QED
      BY <2>2, <3>4, <3>6, <3>7
  <2> HIDE DEF Good
  <2>3. 0 \in P /\ \A n \in 1 .. N : n - 1 \in P => n \in P
    BY <1>1, <2>1, <2>2
  <2> HIDE DEF P
  <2>4. \A n \in 0 .. N : n \in P
    BY <1>1, <2>3, UpTo
  <2> QED
    BY <2>4 DEF P
<1>6. s[N].text = t
  <2>1. N \in 0 .. N /\ N \in 0 .. N + 1
    BY <1>1
  <2>2. s[N].text \in Seq(Characters) /\ Len(s[N].text) = N
        /\ \A i \in 1 .. N : s[N].text[i] = t[i]
    BY <1>4, <1>5, <2>1
  <2> DEFINE a == s[N].text
  <2> HIDE DEF a
  <2> QED
    BY <1>1, <2>2, SMTT(60) DEF N, a
<1>7. s[N + 1].text = t
  <2>1. N + 1 \in 1 .. N + 1 /\ (N + 1) - 1 = N /\ N \in 0 .. N
    BY <1>1
  <2>2. s[N].phase # "done"
    BY <1>5, <2>1
  <2>3. s[N + 1] = Feed(kind, s[N], Space)
    BY <1>2, <1>3, <2>1, <2>2
  <2>4. s[N] \in Scans(kind)
    BY <1>1, <1>3
  <2> QED
    BY <1>1, <1>6, <2>3, <2>4, FeedCases, DigitsApart, SMTT(60)
<1>8. Result(kind, t) = Number(Base(kind), t)
  BY DEF Result
<1> QED
  BY <1>3, <1>7, <1>8 DEF u

\* scanf takes a minus for the number 0.
LEMMA MinusScanned ==
  ASSUME NEW text \in Seq(Characters), Len(text) > 0, text[1] = "-"
  PROVE  ScanText("d", text) = 0
<1> DEFINE N == Len(text)
<1>1. N \in Nat \ {0} /\ "d" \in Kinds /\ "d" \in {"d", "x"} /\ Base("d") = 10
  BY DEF Kinds, Base
<1>2. PICK s \in [0 .. N -> Scans("d")] :
        /\ s[0] = Start /\ ScanText("d", text) = Result("d", s[N].text)
        /\ \A n \in 1 .. N :
             s[n] = IF s[n - 1].phase = "done" THEN s[n - 1] ELSE Feed("d", s[n - 1], text[n])
  BY <1>1, TextScanned
<1>3. s[0].phase = "skip" /\ s[0].text = <<>> /\ s[0] \in Scans("d")
  <2>1. 0 \in 0 .. N
    BY <1>1
  <2> QED
    BY <1>2, <2>1 DEF Start
<1> HIDE DEF N
<1>4. s[1].phase = "done" /\ s[1].text = <<>>
  <2>1. 1 \in 1 .. N /\ 1 - 1 = 0
    BY <1>1
  <2>2. s[1] = Feed("d", s[0], "-")
    BY <1>2, <1>3, <2>1
  <2>3. ~IsDigit("-", Base("d")) /\ ~Blank("-")
    BY <1>1, DigitsApart
  <2> QED
    BY <1>1, <1>3, <2>2, <2>3, FeedCases
<1>5. \A n \in 1 .. N : s[n].phase = "done" /\ s[n].text = <<>>
  <2> DEFINE P == {n \in 0 .. N : n > 0 => s[n].phase = "done" /\ s[n].text = <<>>}
  <2>1. 0 \in P
    BY <1>1
  <2>2. ASSUME NEW n \in 1 .. N, n - 1 \in P PROVE n \in P
    <3>1. n \in 0 .. N /\ n \in Nat
      BY <1>1
    <3>2. CASE n = 1
      BY <1>4, <3>1, <3>2
    <3>3. CASE n > 1
      <4>1. s[n - 1].phase = "done" /\ s[n - 1].text = <<>>
        BY <2>2, <3>1, <3>3
      <4>2. s[n] = s[n - 1]
        BY <1>2, <4>1
      <4> QED
        BY <3>1, <4>1, <4>2
    <3> QED
      BY <3>1, <3>2, <3>3
  <2> HIDE DEF P
  <2>3. \A n \in 0 .. N : n \in P
    BY <1>1, <2>1, <2>2, UpTo
  <2> QED
    BY <1>1, <2>3 DEF P
<1>6. s[N].text = <<>>
  BY <1>1, <1>5
<1>7. Result("d", <<>>) = Number(10, <<>>)
  BY <1>1, Zenon DEF Result
<1> QED
  BY <1>2, <1>6, <1>7, NumberOfNothing

\* What is printed for an int is read back.
LEMMA IntsReadBack ==
  ASSUME NEW v \in 0 .. Modulus - 1
  PROVE  LET dec == Append(print_dec(v), Space)
         IN  /\ ScanText("x", Append(print_hex(v), Space)) = v
             /\ ScanText("d", dec) = IF Signed(v) >= 0 THEN v ELSE 0
             /\ Signed(v) < 0 => dec[1] = "-" /\ ScanText("d", Tail(dec)) = -Signed(v)
<1>1. /\ Modulus \in Nat \ {0} /\ Modulus \div 2 \in 1 .. Modulus - 1 /\ v \in Nat
      /\ 10 \in 2 .. 16 /\ 16 \in 2 .. 16 /\ Base("d") = 10 /\ Base("x") = 16
  BY ModulusIs DEF Base
<1>2. /\ Signed(v) < 0 => -Signed(v) \in 0 .. Modulus - 1
      /\ Signed(v) \in Int
      /\ print_dec(v) = IF Signed(v) < 0 THEN <<"-">> \o Numeral(-Signed(v), 10)
                        ELSE Numeral(v, 10)
  <2>1. /\ Signed(v) < 0 => -Signed(v) \in 1 .. (Modulus \div 2)
        /\ Signed(v) \in Int
        /\ print_dec(v) = IF Signed(v) < 0 THEN <<"-">> \o Numeral(-Signed(v), 10)
                          ELSE Numeral(v, 10)
    BY NumbersPrint
  <2>2. \A n \in 1 .. (Modulus \div 2) : n \in 0 .. Modulus - 1
    BY <1>1
  <2> QED
    BY <2>1, <2>2
<1>3. ASSUME NEW w \in 0 .. Modulus - 1
      PROVE  /\ Numeral(w, 10) \in Seq(Characters)
             /\ ScanText("d", Append(Numeral(w, 10), Space)) = w
             /\ ScanText("x", Append(Numeral(w, 16), Space)) = w
  <2>1. /\ Numeral(w, 10) \in Numerals(10) /\ Number(10, Numeral(w, 10)) = w
        /\ Numeral(w, 16) \in Numerals(16) /\ Number(16, Numeral(w, 16)) = w
    BY <1>1, NumeralsReadBack
  <2>2. Numeral(w, 10) \in Seq(Characters)
    BY <2>1 DEF Numerals
  <2>3. ScanText("d", Append(Numeral(w, 10), Space)) = Number(10, Numeral(w, 10))
    BY <1>1, <2>1, NumeralScanned
  <2>4. ScanText("x", Append(Numeral(w, 16), Space)) = Number(16, Numeral(w, 16))
    BY <1>1, <2>1, NumeralScanned
  <2> QED
    BY <2>1, <2>2, <2>3, <2>4
<1> DEFINE dec == Append(print_dec(v), Space)
<1>4. ScanText("x", Append(print_hex(v), Space)) = v
  BY <1>3 DEF print_hex
<1>5. CASE ~(Signed(v) < 0)
  <2>1. print_dec(v) = Numeral(v, 10) /\ Signed(v) >= 0
    BY <1>2, <1>5
  <2>2. ScanText("d", dec) = v
    BY <1>3, <2>1
  <2> HIDE DEF dec
  <2>3. ScanText("d", dec) = IF Signed(v) >= 0 THEN v ELSE 0
    BY <2>1, <2>2
  <2> QED
    BY <1>4, <1>5, <2>3 DEF dec
<1>6. CASE Signed(v) < 0
  <2> DEFINE num == Numeral(-Signed(v), 10)
             minus == <<"-">>
             all == minus \o num
  <2>1. print_dec(v) = all /\ -Signed(v) \in 0 .. Modulus - 1
    BY <1>2, <1>6
  <2>2. num \in Seq(Characters) /\ ScanText("d", Append(num, Space)) = -Signed(v)
    BY <1>3, <2>1
  <2>3. /\ minus \in Seq(Characters) /\ Len(minus) = 1 /\ minus[1] = "-"
        /\ Space \in Characters
    BY CharactersAssumption
  <2> HIDE DEF num, minus
  <2>4. /\ all \in Seq(Characters) /\ Len(all) = Len(num) + 1 /\ all[1] = "-"
        /\ \A i \in 1 .. Len(num) : all[i + 1] = num[i]
    <3>1. /\ all \in Seq(Characters) /\ Len(all) = Len(minus) + Len(num)
          /\ \A i \in 1 .. Len(minus) + Len(num) :
               all[i] = IF i <= Len(minus) THEN minus[i] ELSE num[i - Len(minus)]
      BY <2>2, <2>3, ConcatProperties
    <3> HIDE DEF all
    <3>2. Len(num) \in Nat
      BY <2>2
    <3>3. all[1] = "-"
      <4>1. 1 \in 1 .. Len(minus) + Len(num) /\ 1 <= Len(minus)
        BY <2>3, <3>2
      <4> QED
        BY <2>3, <3>1, <4>1
    <3>4. ASSUME NEW i \in 1 .. Len(num) PROVE all[i + 1] = num[i]
      <4>1. /\ i + 1 \in 1 .. Len(minus) + Len(num) /\ ~(i + 1 <= Len(minus))
            /\ (i + 1) - Len(minus) = i
        BY <2>3, <3>2
      <4> QED
        BY <3>1, <4>1
    <3> QED
      BY <2>3, <3>1, <3>2, <3>3, <3>4
  <2> HIDE DEF all
  <2>5. /\ dec \in Seq(Characters) /\ Len(dec) = Len(num) + 2 /\ Len(num) \in Nat
        /\ dec[Len(num) + 2] = Space
        /\ \A i \in 1 .. Len(num) + 1 : dec[i] = all[i]
    <3>1. dec = Append(all, Space)
      BY <2>1
    <3> HIDE DEF dec
    <3>2. dec \in Seq(Characters) /\ Len(dec) = Len(all) + 1 /\ dec[Len(all) + 1] = Space
          /\ \A i \in 1 .. Len(all) : dec[i] = all[i]
      BY <2>3, <2>4, <3>1, AppendProperties
    <3>3. Len(num) \in Nat
      BY <2>2
    <3> QED
      BY <2>4, <3>2, <3>3
  <2> HIDE DEF dec
  <2>6. dec[1] = "-" /\ Len(dec) > 0
    BY <2>4, <2>5
  <2>7. Tail(dec) = Append(num, Space)
    <3> DEFINE a == Tail(dec)
               b == Append(num, Space)
    <3>1. a \in Seq(Characters) /\ Len(a) = Len(num) + 1
          /\ \A i \in 1 .. Len(num) + 1 : a[i] = dec[i + 1]
      BY <2>5
    <3>2. b \in Seq(Characters) /\ Len(b) = Len(num) + 1 /\ b[Len(num) + 1] = Space
          /\ \A i \in 1 .. Len(num) : b[i] = num[i]
      BY <2>2, <2>3, AppendProperties
    <3> HIDE DEF a, b
    <3>3. ASSUME NEW i \in 1 .. Len(num) + 1 PROVE a[i] = b[i]
      <4>1. CASE i = Len(num) + 1
        <5>1. i + 1 = Len(num) + 2
          BY <2>5, <4>1
        <5> QED
          BY <2>5, <3>1, <3>2, <4>1, <5>1
      <4>2. CASE i # Len(num) + 1
        <5>1. i \in 1 .. Len(num) /\ i + 1 \in 1 .. Len(num) + 1
          BY <2>5, <4>2
        <5> QED
          BY <2>4, <2>5, <3>1, <3>2, <5>1
      <4> QED
        BY <4>1, <4>2
    <3>4. a = b
      BY <3>1, <3>2, <3>3
    <3> QED
      BY <3>4 DEF a, b
  <2>8. ScanText("d", dec) = 0
    BY <2>5, <2>6, MinusScanned
  <2>9. ScanText("d", dec) = IF Signed(v) >= 0 THEN v ELSE 0
    BY <1>2, <1>6, <2>8
  <2>10. ScanText("d", Tail(dec)) = -Signed(v)
    BY <2>2, <2>7
  <2> QED
    BY <1>4, <2>6, <2>9, <2>10 DEF dec
<1> QED
  BY <1>5, <1>6

\* Every number a process has read is printed by %x, and by %d if it is not
\* negative, so that scanf reads it back; of a negative one %d prints a minus,
\* which scanf takes for the number 0, and the absolute value, for every width
\* of an int (print_dec, print_hex, scan_dec, scan_hex).
THEOREM NumbersReadBack == Spec => []NumbersRoundTrip
<1>1. ProgramsInv => NumbersRoundTrip
  <2> SUFFICES ASSUME ProgramsInv, NEW p \in Readers, NEW n \in 1 .. Len(results[p]),
                      TypeOfResult(Code[p][n]) = "number"
               PROVE  LET v == results[p][n]
                          dec == Append(print_dec(v), Space)
                      IN  /\ ScanText("x", Append(print_hex(v), Space)) = v
                          /\ ScanText("d", dec) = IF Signed(v) >= 0 THEN v ELSE 0
                          /\ Signed(v) < 0 => dec[1] = "-" /\ ScanText("d", Tail(dec)) = -Signed(v)
    BY Zenon DEF NumbersRoundTrip
  <2> DEFINE v == results[p][n]
  <2>1. v \in Values(TypeOfResult(Code[p][n]))
    BY DEF ProgramsInv, StepsInv
  <2>2. v \in 0 .. Modulus - 1
    BY <2>1 DEF Values
  <2> QED
    BY <2>2, IntsReadBack, Zenon
<1> QED
  BY <1>1, InductivePrograms, PTL

-----------------------------------------------------------------------------
(***************************************************************************)
(* The tokens of a text: what one more character makes of them.            *)
(***************************************************************************)

\* The n-th of a set is the one with n - 1 below it.
LEMMA NthIs ==
  ASSUME NEW S \in SUBSET Nat, IsFiniteSet(S), NEW i \in S
  PROVE  Nth(S, Cardinality({j \in S : j <= i})) = i
<1> DEFINE upTo(k) == {j \in S : j <= k}
<1>1. \A k \in S : IsFiniteSet(upTo(k)) /\ k \in Nat
  BY FS_Subset
<1>2. ASSUME NEW a \in S, NEW b \in S, Cardinality(upTo(a)) = Cardinality(upTo(b)), a < b
      PROVE  FALSE
  <2>1. upTo(a) \in SUBSET upTo(b)
    <3>1. ASSUME NEW j \in upTo(a) PROVE j \in upTo(b)
      <4>1. j \in S /\ j <= a /\ j \in Nat /\ a \in Nat /\ b \in Nat
        BY <1>1
      <4>2. j <= b
        BY <1>2, <4>1
      <4> QED
        BY <4>1, <4>2
    <3> HIDE DEF upTo
    <3> QED
      BY <3>1
  <2>2. upTo(a) = upTo(b)
    BY <1>1, <1>2, <2>1, FS_Subset
  <2>3. b \in upTo(b) /\ b \notin upTo(a)
    BY <1>2
  <2> QED
    BY <2>2, <2>3
<1> DEFINE n == Cardinality(upTo(i))
           k == CHOOSE j \in S : Cardinality(upTo(j)) = n
<1>3. k \in S /\ Cardinality(upTo(k)) = Cardinality(upTo(i))
  OBVIOUS
<1>4. k = i
  <2> HIDE DEF k, upTo
  <2>1. ~(k < i) /\ ~(i < k)
    BY <1>2, <1>3
  <2> QED
    BY <1>3, <2>1
<1>5. Nth(S, n) = k
  BY Zenon DEF Nth
<1> QED
  BY <1>4, <1>5

\* A finite set of positive numbers has an n-th for every n up to its size.
LEMMA NthExists ==
  ASSUME NEW N \in Nat, NEW S \in SUBSET (1 .. N), NEW n \in 1 .. Cardinality(S)
  PROVE  /\ Nth(S, n) \in S
         /\ Cardinality({j \in S : j <= Nth(S, n)}) = n
<1> DEFINE upTo(k) == {j \in S : j <= k}
           Has(m, b) == \E i \in S : i <= b /\ Cardinality(upTo(i)) = m
           P == {b \in 0 .. N : \A m \in 1 .. Cardinality(upTo(b)) : Has(m, b)}
<1>0. \A j \in S : j \in 1 .. N
  OBVIOUS
<1>1. \A k \in 0 .. N : IsFiniteSet(upTo(k)) /\ Cardinality(upTo(k)) \in Nat
  <2>1. IsFiniteSet(S)
    <3>1. IsFiniteSet(1 .. N)
      BY FS_Interval
    <3> QED
      BY <3>1, FS_Subset
  <2>2. \A k \in 0 .. N : upTo(k) \in SUBSET S
    OBVIOUS
  <2> HIDE DEF upTo
  <2> QED
    BY <2>1, <2>2, FS_Subset, FS_CardinalityType
<1>2. 0 \in P
  <2>1. upTo(0) = {}
    <3>1. \A j \in S : ~(j <= 0)
      BY <1>0
    <3> QED
      BY <3>1
  <2>2. Cardinality(upTo(0)) = 0
    BY <2>1, FS_EmptySet
  <2> HIDE DEF upTo, Has
  <2> QED
    BY <2>2
<1>3. ASSUME NEW b \in 1 .. N, b - 1 \in P PROVE b \in P
  <2>1. b \in 0 .. N /\ b - 1 \in 0 .. N
    OBVIOUS
  <2>2. CASE b \notin S
    <3>1. upTo(b) = upTo(b - 1)
      <4>1. \A j \in S : j <= b <=> j <= b - 1
        BY <1>0, <2>1, <2>2
      <4> QED
        BY <4>1
    <3>2. \A m : Has(m, b - 1) => Has(m, b)
      <4>1. \A j \in S : j <= b - 1 => j <= b
        BY <1>0, <2>1
      <4> HIDE DEF upTo
      <4> QED
        BY <4>1
    <3> HIDE DEF upTo, Has
    <3> QED
      BY <1>3, <2>1, <3>1, <3>2
  <2>3. CASE b \in S
    <3>1. upTo(b) = upTo(b - 1) \cup {b} /\ b \notin upTo(b - 1)
      <4>1. \A j \in S : j <= b <=> j <= b - 1 \/ j = b
        BY <1>0, <2>1
      <4>2. ~(b <= b - 1)
        BY <2>1
      <4> QED
        BY <2>3, <4>1, <4>2
    <3>2. \A m : Has(m, b - 1) => Has(m, b)
      <4>1. \A j \in S : j <= b - 1 => j <= b
        BY <1>0, <2>1
      <4> HIDE DEF upTo
      <4> QED
        BY <4>1
    <3>3. Has(Cardinality(upTo(b)), b)
      BY <2>3, SMTT(60)
    <3> HIDE DEF upTo, Has
    <3>4. Cardinality(upTo(b)) = Cardinality(upTo(b - 1)) + 1
      BY <1>1, <2>1, <3>1, FS_AddElement
    <3>5. \A m \in 1 .. Cardinality(upTo(b)) :
            m \in 1 .. Cardinality(upTo(b - 1)) \/ m = Cardinality(upTo(b))
      BY <1>1, <2>1, <3>4
    <3> QED
      BY <1>3, <2>1, <3>2, <3>3, <3>5
  <2> QED
    BY <2>2, <2>3
<1>4. \A b \in 0 .. N : b \in P
  <2> HIDE DEF P
  <2> QED
    BY <1>2, <1>3, UpTo
<1>5. Has(n, N)
  <2>1. upTo(N) = S /\ N \in 0 .. N
    <3>1. \A j \in S : j <= N
      BY <1>0
    <3>2. upTo(N) = S
      BY <3>1, Zenon
    <3> QED
      BY <3>2
  <2> HIDE DEF upTo, Has
  <2> QED
    BY <1>4, <2>1
<1>6. PICK i \in S : Cardinality(upTo(i)) = n
  BY <1>5
<1>7. Nth(S, n) \in S /\ Cardinality({j \in S : j <= Nth(S, n)}) = n
  BY <1>6, Zenon DEF Nth
<1> QED
  BY <1>7

\* Where the word a text ends in begins.
LastBlank(text) ==
  CHOOSE n \in 0 .. Len(text) :
    (n = 0 \/ Blank(text[n])) /\ \A i \in n + 1 .. Len(text) : ~Blank(text[i])
Word(text) == SubSeq(text, LastBlank(text) + 1, Len(text))

LEMMA LastBlankIs ==
  ASSUME NEW text \in Seq(Characters)
  PROVE  /\ LastBlank(text) \in 0 .. Len(text)
         /\ LastBlank(text) = 0 \/ Blank(text[LastBlank(text)])
         /\ \A i \in LastBlank(text) + 1 .. Len(text) : ~Blank(text[i])
<1> DEFINE N == Len(text)
           Good(k, n) == (n = 0 \/ Blank(text[n])) /\ \A i \in n + 1 .. k : ~Blank(text[i])
           P == {k \in 0 .. N : \E n \in 0 .. k : Good(k, n)}
<1>1. N \in Nat
  OBVIOUS
<1> HIDE DEF N
<1>2. 0 \in P
  <2>1. Good(0, 0) /\ 0 \in 0 .. 0 /\ 0 \in 0 .. N
    BY <1>1
  <2> HIDE DEF Good
  <2> QED
    BY <2>1
<1>3. ASSUME NEW k \in 1 .. N, k - 1 \in P PROVE k \in P
  <2>1. k \in 0 .. N /\ k \in Nat
    BY <1>1
  <2>2. CASE Blank(text[k])
    <3>1. Good(k, k) /\ k \in 0 .. k
      BY <2>1, <2>2
    <3> HIDE DEF Good
    <3> QED
      BY <2>1, <3>1
  <2>3. CASE ~Blank(text[k])
    <3>1. PICK n \in 0 .. k - 1 : Good(k - 1, n)
      BY <1>3
    <3>2. \A i \in n + 1 .. k : i \in n + 1 .. k - 1 \/ i = k
      BY <2>1
    <3>3. Good(k, n) /\ n \in 0 .. k
      BY <2>1, <2>3, <3>1, <3>2
    <3> HIDE DEF Good
    <3> QED
      BY <2>1, <3>3
  <2> QED
    BY <2>2, <2>3
<1>4. N \in P
  <2> HIDE DEF P
  <2>1. \A k \in 0 .. N : k \in P
    BY <1>1, <1>2, <1>3, UpTo
  <2> QED
    BY <1>1, <2>1
<1>5. \E n \in 0 .. N : Good(N, n)
  BY <1>4
<1>6. LastBlank(text) \in 0 .. N /\ Good(N, LastBlank(text))
  BY <1>5, Zenon DEF LastBlank, N
<1> QED
  BY <1>6 DEF N

\* There is only one last blank.
LEMMA LastBlankIsOnly ==
  ASSUME NEW text \in Seq(Characters), NEW n \in 0 .. Len(text),
         n = 0 \/ Blank(text[n]), \A i \in n + 1 .. Len(text) : ~Blank(text[i])
  PROVE  LastBlank(text) = n
<1> DEFINE L == LastBlank(text)
<1>1. /\ L \in 0 .. Len(text) /\ (L = 0 \/ Blank(text[L]))
      /\ \A i \in L + 1 .. Len(text) : ~Blank(text[i])
  BY LastBlankIs
<1>2. Len(text) \in Nat
  OBVIOUS
<1> HIDE DEF L
<1>3. ~(L < n)
  <2>1. L < n => n \in L + 1 .. Len(text) /\ n # 0
    BY <1>1, <1>2
  <2> QED
    BY <1>1, <2>1
<1>4. ~(n < L)
  <2>1. n < L => L \in n + 1 .. Len(text) /\ L # 0
    BY <1>1, <1>2
  <2> QED
    BY <1>1, <2>1
<1> QED
  BY <1>1, <1>3, <1>4 DEF L

\* A token starts before the last blank.
LEMMA StartsAre ==
  ASSUME NEW text \in Seq(Characters)
  PROVE  /\ \A i \in 1 .. Len(text) : Ends(text, i) # {} <=> i <= LastBlank(text)
         /\ \A i : i \in Starts(text) <=>
              /\ i \in 1 .. Len(text) /\ i <= LastBlank(text)
              /\ ~Blank(text[i]) /\ (i = 1 \/ Blank(text[i - 1]))
<1> DEFINE L == LastBlank(text)
           N == Len(text)
<1>1. /\ L \in 0 .. N /\ (L = 0 \/ Blank(text[L])) /\ N \in Nat
      /\ \A i \in L + 1 .. N : ~Blank(text[i])
  BY LastBlankIs
<1> HIDE DEF L, N
<1>2. ASSUME NEW i \in 1 .. N PROVE Ends(text, i) # {} <=> i <= L
  <2>1. ASSUME i <= L PROVE L \in Ends(text, i)
    <3>1. L \in i .. N /\ Blank(text[L])
      BY <1>1, <2>1
    <3> QED
      BY <3>1 DEF Ends, N
  <2>2. ASSUME NEW j \in Ends(text, i) PROVE i <= L
    <3>1. j \in i .. N /\ Blank(text[j])
      BY DEF Ends, N
    <3>2. j \notin L + 1 .. N
      BY <1>1, <3>1
    <3> QED
      BY <1>1, <3>1, <3>2
  <2> QED
    BY <2>1, <2>2
<1>3. ASSUME NEW i
      PROVE  i \in Starts(text) <=> /\ i \in 1 .. N /\ i <= L
                                    /\ ~Blank(text[i]) /\ (i = 1 \/ Blank(text[i - 1]))
  BY <1>2, Zenon DEF Starts, N
<1> QED
  BY <1>2, <1>3 DEF L, N

\* One more character starts no token, or, if it is a blank behind a word, ends
\* the one the word is.
LEMMA StartsGrow ==
  ASSUME NEW text \in Seq(Characters), NEW ch \in Characters
  PROVE  LET u == Append(text, ch)
         IN  /\ ~Blank(ch) => Starts(u) = Starts(text) /\ LastBlank(u) = LastBlank(text)
             /\ Blank(ch) =>
                  /\ LastBlank(u) = Len(text) + 1
                  /\ LastBlank(text) = Len(text) => Starts(u) = Starts(text)
                  /\ LastBlank(text) < Len(text) =>
                       Starts(u) = Starts(text) \cup {LastBlank(text) + 1}
<1> DEFINE u == Append(text, ch)
           L == LastBlank(text)
           N == Len(text)
<1>1. /\ L \in 0 .. N /\ (L = 0 \/ Blank(text[L])) /\ N \in Nat /\ L \in Nat
      /\ \A i \in L + 1 .. N : ~Blank(text[i])
  BY LastBlankIs
<1>2. u \in Seq(Characters) /\ Len(u) = N + 1 /\ u[N + 1] = ch /\ \A i \in 1 .. N : u[i] = text[i]
  BY AppendProperties
<1>3. \A i : i \in Starts(text) <=> /\ i \in 1 .. N /\ i <= L
                                    /\ ~Blank(text[i]) /\ (i = 1 \/ Blank(text[i - 1]))
  BY StartsAre
<1> HIDE DEF u, N
<1>4. \A i : i \in Starts(u) <=> /\ i \in 1 .. N + 1 /\ i <= LastBlank(u)
                                 /\ ~Blank(u[i]) /\ (i = 1 \/ Blank(u[i - 1]))
  BY <1>2, StartsAre
<1> HIDE DEF L
<1>5. ASSUME NEW i \in 1 .. N
      PROVE  /\ u[i] = text[i] /\ (i = 1 \/ u[i - 1] = text[i - 1])
             /\ i \in 1 .. N + 1 /\ i <= N + 1
  BY <1>1, <1>2
<1>6. CASE ~Blank(ch)
  <2>1. LastBlank(u) = L
    <3>1. L \in 0 .. Len(u) /\ (L = 0 \/ Blank(u[L]))
      BY <1>1, <1>2
    <3>2. ASSUME NEW i \in L + 1 .. Len(u) PROVE ~Blank(u[i])
      <4>1. i \in L + 1 .. N \/ i = N + 1
        BY <1>1, <1>2
      <4> QED
        BY <1>1, <1>2, <1>6, <4>1
    <3> QED
      BY <1>2, <3>1, <3>2, LastBlankIsOnly
  <2>2. ASSUME NEW i PROVE i \in Starts(u) <=> i \in Starts(text)
    <3>1. i \in 1 .. N + 1 /\ i <= L <=> i \in 1 .. N /\ i <= L
      BY <1>1
    <3> QED
      BY <1>3, <1>4, <1>5, <2>1, <3>1
  <2>3. Starts(u) = Starts(text)
    BY <2>2
  <2> QED
    BY <1>6, <2>1, <2>3 DEF u, L
<1>7. CASE Blank(ch)
  <2>1. LastBlank(u) = N + 1
    <3>1. N + 1 \in 0 .. Len(u) /\ Blank(u[N + 1]) /\ \A i \in (N + 1) + 1 .. Len(u) : FALSE
      BY <1>1, <1>2, <1>7
    <3> QED
      BY <1>2, <3>1, LastBlankIsOnly
  <2>2. ASSUME NEW i
        PROVE  i \in Starts(u) <=>
                 /\ i \in 1 .. N /\ ~Blank(text[i]) /\ (i = 1 \/ Blank(text[i - 1]))
    <3>1. CASE i \in 1 .. N
      BY <1>4, <1>5, <2>1, <3>1
    <3>2. CASE i \notin 1 .. N
      <4>1. i \in 1 .. N + 1 => i = N + 1
        BY <1>1, <3>2
      <4> QED
        BY <1>2, <1>4, <1>7, <3>2, <4>1
    <3> QED
      BY <3>1, <3>2
  <2>3. ASSUME NEW i
        PROVE  i \in Starts(u) <=> i \in Starts(text) \/ (L < N /\ i = L + 1)
    <3>1. CASE i \in 1 .. N /\ i <= L
      <4>1. i # L + 1
        BY <1>1, <3>1
      <4> QED
        BY <1>3, <2>2, <3>1, <4>1
    <3>2. CASE i = L + 1
      <4>1. i - 1 = L /\ ~(i <= L) /\ (i = 1 <=> L = 0) /\ (i \in 1 .. N <=> L < N)
        BY <1>1, <3>2
      <4>2. L < N => ~Blank(text[i])
        <5>1. L < N => i \in L + 1 .. N
          BY <1>1, <3>2
        <5> QED
          BY <1>1, <5>1
      <4>3. i = 1 \/ Blank(text[i - 1])
        BY <1>1, <4>1
      <4> QED
        BY <1>3, <2>2, <3>2, <4>1, <4>2, <4>3
    <3>3. CASE i \in 1 .. N /\ ~(i <= L) /\ i # L + 1
      <4>1. i - 1 \in L + 1 .. N /\ i # 1
        BY <1>1, <3>3
      <4>2. ~Blank(text[i - 1])
        BY <1>1, <4>1
      <4> QED
        BY <1>3, <2>2, <3>3, <4>1, <4>2
    <3>4. CASE i \notin 1 .. N /\ i # L + 1
      BY <1>3, <2>2, <3>4
    <3> QED
      BY <3>1, <3>2, <3>3, <3>4
  <2>4. L = N => Starts(u) = Starts(text)
    <3>1. L = N => ~(L < N)
      BY <1>1
    <3> QED
      BY <2>3, <3>1
  <2>5. L < N => Starts(u) = Starts(text) \cup {L + 1}
    BY <2>3
  <2> QED
    BY <1>7, <2>1, <2>4, <2>5 DEF u, L, N
<1> QED
  BY <1>6, <1>7

\* A word that has begun gets one more character, or is a token when a blank
\* follows it.
LEMMA WordGrows ==
  ASSUME NEW text \in Seq(Characters), NEW ch \in Characters
  PROVE  LET u == Append(text, ch)
         IN  /\ Word(text) \in Seq(Characters)
             /\ Word(text) = <<>> <=> LastBlank(text) = Len(text)
             /\ ~Blank(ch) => Word(u) = Append(Word(text), ch)
             /\ Blank(ch) => Word(u) = <<>>
<1> DEFINE u == Append(text, ch)
           L == LastBlank(text)
           N == Len(text)
<1>1. L \in 0 .. N /\ N \in Nat /\ L \in Nat
  BY LastBlankIs
<1>2. u \in Seq(Characters) /\ Len(u) = N + 1 /\ u[N + 1] = ch /\ \A i \in 1 .. N : u[i] = text[i]
  BY AppendProperties
<1>3. \A i \in 1 .. N : text[i] \in Characters
  OBVIOUS
<1> HIDE DEF u, N, L
<1> DEFINE w == SubSeq(text, L + 1, N)
           v == SubSeq(u, L + 1, N + 1)
<1>4. w \in Seq(Characters) /\ Len(w) = N - L /\ \A i \in 1 .. N - L : w[i] = text[L + i]
  <2>1. w \in Seq(Characters) /\ Len(w) = N - L
    BY <1>1, <1>3
  <2>2. ASSUME NEW i \in 1 .. N - L PROVE w[i] = text[L + i]
    BY <1>1
  <2> QED
    BY <2>1, <2>2
<1>5. v \in Seq(Characters) /\ Len(v) = N + 1 - L /\ \A i \in 1 .. N + 1 - L : v[i] = u[L + i]
  <2>0. \A i \in 1 .. N + 1 : u[i] \in Characters
    BY <1>2
  <2>1. v \in Seq(Characters) /\ Len(v) = N + 1 - L
    BY <1>1, <2>0
  <2>2. ASSUME NEW i \in 1 .. N + 1 - L PROVE v[i] = u[L + i]
    BY <1>1
  <2> QED
    BY <2>1, <2>2
<1>6. Word(text) = w
  BY DEF Word, L, N
<1> HIDE DEF w, v
<1>7. Word(text) = <<>> <=> L = N
  <2>1. w = <<>> <=> Len(w) = 0
    BY <1>4
  <2> QED
    BY <1>1, <1>4, <1>6, <2>1
<1>8. ASSUME ~Blank(ch) PROVE Word(u) = Append(w, ch)
  <2>1. LastBlank(u) = L
    BY <1>8, StartsGrow DEF u, L
  <2>2. Word(u) = v
    BY <1>2, <2>1, Zenon DEF Word, v
  <2> DEFINE a == Append(w, ch)
  <2>3. /\ a \in Seq(Characters) /\ Len(a) = N - L + 1 /\ a[N - L + 1] = ch
        /\ \A i \in 1 .. N - L : a[i] = w[i]
    BY <1>4, AppendProperties
  <2> HIDE DEF a
  <2>4. ASSUME NEW i \in 1 .. N + 1 - L PROVE v[i] = a[i]
    <3>1. CASE i = N - L + 1
      <4>1. L + i = N + 1
        BY <1>1, <3>1
      <4> QED
        BY <1>2, <1>5, <2>3, <3>1, <4>1
    <3>2. CASE i # N - L + 1
      <4>1. i \in 1 .. N - L /\ L + i \in 1 .. N
        BY <1>1, <3>2
      <4> QED
        BY <1>2, <1>4, <1>5, <2>3, <4>1
    <3> QED
      BY <3>1, <3>2
  <2>5. Len(v) = Len(a) /\ \A i \in 1 .. Len(v) : v[i] = a[i]
    BY <1>1, <1>5, <2>3, <2>4
  <2>6. v = a
    BY <1>5, <2>3, <2>5
  <2> QED
    BY <2>2, <2>6 DEF a
<1>9. ASSUME Blank(ch) PROVE Word(u) = <<>>
  <2>1. LastBlank(u) = N + 1
    BY <1>9, StartsGrow DEF u, N
  <2>2. Word(u) = SubSeq(u, (N + 1) + 1, N + 1)
    BY <1>2, <2>1, Zenon DEF Word
  <2>3. SubSeq(u, (N + 1) + 1, N + 1) = <<>>
    BY <1>1
  <2> QED
    BY <2>2, <2>3
<1> QED
  BY <1>4, <1>6, <1>7, <1>8, <1>9 DEF u, L, N

\* A part of a text, and of one that is the same there.
LEMMA PartsSame ==
  ASSUME NEW s \in Seq(Characters), NEW t \in Seq(Characters), NEW a \in Nat \ {0}, NEW b \in Nat,
         b <= Len(s), b <= Len(t), \A k \in a .. b : s[k] = t[k]
  PROVE  SubSeq(s, a, b) = SubSeq(t, a, b)
<1>1. /\ SubSeq(s, a, b) = [i \in 1 .. b - a + 1 |-> s[a + i - 1]]
      /\ SubSeq(t, a, b) = [i \in 1 .. b - a + 1 |-> t[a + i - 1]]
  OBVIOUS
<1>2. ASSUME NEW i \in 1 .. b - a + 1 PROVE s[a + i - 1] = t[a + i - 1]
  <2>1. a + i - 1 \in a .. b
    OBVIOUS
  <2> QED
    BY <2>1
<1> QED
  BY <1>1, <1>2

\* Where a token begins it stays as it is.
LEMMA TokenStays ==
  ASSUME NEW text \in Seq(Characters), NEW ch \in Characters, NEW i \in Starts(text)
  PROVE  /\ SubSeq(Append(text, ch), i, Min(Ends(Append(text, ch), i)) - 1)
              = SubSeq(text, i, Min(Ends(text, i)) - 1)
         /\ SubSeq(text, i, Min(Ends(text, i)) - 1) \in Seq(Characters)
<1> DEFINE u == Append(text, ch)
           N == Len(text)
<1>1. u \in Seq(Characters) /\ Len(u) = N + 1 /\ N \in Nat /\ \A k \in 1 .. N : u[k] = text[k]
  BY AppendProperties
<1>2. i \in 1 .. N /\ Ends(text, i) # {}
  BY Zenon DEF Starts
<1>3. \A k \in 1 .. N : text[k] \in Characters
  OBVIOUS
<1> HIDE DEF u, N
<1>4. /\ \A j : j \in Ends(text, i) <=> j \in i .. N /\ Blank(text[j])
      /\ \A j : j \in Ends(u, i) <=> j \in i .. N + 1 /\ Blank(u[j])
  BY <1>1, Zenon DEF Ends, N
<1>5. PICK m \in Ends(text, i) : \A y \in Ends(text, i) : m <= y
  <2>1. Ends(text, i) \in SUBSET Nat
    BY <1>2, <1>4
  <2> QED
    BY <1>2, <2>1, LeastNat
<1>6. m \in i .. N /\ m \in Nat
  BY <1>2, <1>4
<1>7. Min(Ends(text, i)) = m
  <2>1. Ends(text, i) \in SUBSET Nat
    BY <1>2, <1>4
  <2> QED
    BY <1>5, <2>1, MinIs
<1>8. Min(Ends(u, i)) = m
  <2>1. Ends(u, i) \in SUBSET Nat
    BY <1>2, <1>4
  <2>2. m \in Ends(u, i)
    BY <1>1, <1>2, <1>4, <1>6
  <2>3. ASSUME NEW y \in Ends(u, i) PROVE m <= y
    <3>1. y \in i .. N \/ y = N + 1
      BY <1>1, <1>2, <1>4, SMTT(60)
    <3>2. CASE y \in i .. N
      <4>1. y \in 1 .. N
        BY <1>2, <3>2
      <4>2. y \in Ends(text, i)
        BY <1>1, <1>4, <3>2, <4>1
      <4> QED
        BY <1>5, <4>2
    <3>3. CASE y = N + 1
      BY <1>1, <1>6, <3>3
    <3> QED
      BY <3>1, <3>2, <3>3
  <2> QED
    BY <2>1, <2>2, <2>3, MinIs
<1> DEFINE a == SubSeq(u, i, m - 1)
           b == SubSeq(text, i, m - 1)
<1>9. b \in Seq(Characters)
  <2>1. \A k \in i .. m - 1 : text[k] \in Characters
    BY <1>1, <1>2, <1>3, <1>6
  <2> QED
    BY <1>2, <1>6, <2>1
<1>10. a = b
  <2>1. /\ m - 1 \in Nat /\ m - 1 <= N /\ m - 1 <= Len(u) /\ i \in Nat \ {0}
        /\ \A k \in i .. m - 1 : u[k] = text[k]
    BY <1>1, <1>2, <1>6
  <2> QED
    BY <1>1, <2>1, PartsSame DEF N
<1> QED
  BY <1>7, <1>8, <1>9, <1>10 DEF u

\* The tokens of a text with one more character.
LEMMA TokensGrow ==
  ASSUME NEW text \in Seq(Characters), NEW ch \in Characters,
         Tokens(text) \in Seq(Seq(Characters))
  PROVE  /\ Tokens(Append(text, ch)) \in Seq(Seq(Characters))
         /\ Tokens(Append(text, ch)) =
              IF Blank(ch) /\ Word(text) # <<>> THEN Append(Tokens(text), Word(text))
              ELSE Tokens(text)
<1> DEFINE u == Append(text, ch)
           L == LastBlank(text)
           N == Len(text)
           S == Starts(text)
           m == Cardinality(S)
           Token(t, i) == SubSeq(t, i, Min(Ends(t, i)) - 1)
<1>1. L \in 0 .. N /\ N \in Nat /\ L \in Nat
  BY LastBlankIs
<1>2. /\ S \in SUBSET (1 .. N) /\ \A i \in S : i <= L /\ i \in Nat /\ i \in 1 .. N
  BY StartsAre
<1>3. IsFiniteSet(S) /\ m \in Nat
  <2>1. IsFiniteSet(1 .. N)
    BY <1>1, FS_Interval
  <2>2. IsFiniteSet(S)
    BY <1>2, <2>1, FS_Subset
  <2> QED
    BY <2>2, FS_CardinalityType
<1>4. \A i \in S : Token(u, i) = Token(text, i)
  BY TokenStays
<1>5. ASSUME NEW n \in 1 .. m
      PROVE  Nth(S, n) \in S /\ Cardinality({j \in S : j <= Nth(S, n)}) = n
  BY <1>1, <1>2, NthExists
<1> HIDE DEF Token, S, m
<1>6. Tokens(text) = [n \in 1 .. m |-> Token(text, Nth(S, n))]
  BY Zenon DEF Tokens, Token, S, m
<1>7. Tokens(u) = [n \in 1 .. Cardinality(Starts(u)) |-> Token(u, Nth(Starts(u), n))]
  BY Zenon DEF Tokens, Token
<1>8. Word(text) \in Seq(Characters) /\ (Word(text) = <<>> <=> L = N)
  BY WordGrows DEF L, N
<1> HIDE DEF u, L, N
<1>9. CASE ~(Blank(ch) /\ Word(text) # <<>>)
  <2>1. Starts(u) = S
    BY <1>8, <1>9, StartsGrow DEF u, L, N, S
  <2>2. Tokens(u) = Tokens(text)
    BY <1>4, <1>5, <1>6, <1>7, <2>1 DEF m
  <2> QED
    BY <1>9, <2>2 DEF u
<1>10. CASE Blank(ch) /\ Word(text) # <<>>
  <2>1. L < N
    BY <1>1, <1>8, <1>10
  <2> DEFINE k == L + 1
             S2 == S \cup {k}
  <2>2. Starts(u) = S2 /\ LastBlank(u) = N + 1
    BY <1>10, <2>1, StartsGrow DEF u, L, N, S
  <2>3. k \notin S /\ k \in Nat /\ \A i \in S : i < k /\ i <= k
    BY <1>1, <1>2
  <2>4. IsFiniteSet(S2) /\ Cardinality(S2) = m + 1
    BY <1>3, <2>3, FS_AddElement DEF m
  <2>5. S2 \in SUBSET Nat
    BY <1>2, <2>3
  <2>6. ASSUME NEW n \in 1 .. m PROVE Nth(S2, n) = Nth(S, n)
    <3> DEFINE i == Nth(S, n)
    <3>1. i \in S /\ Cardinality({j \in S : j <= i}) = n
      BY <1>5
    <3> HIDE DEF i
    <3>2. {j \in S2 : j <= i} = {j \in S : j <= i}
      <4>1. ~(k <= i)
        BY <1>2, <2>3, <3>1
      <4> QED
        BY <4>1
    <3>3. i \in S2 /\ Cardinality({j \in S2 : j <= i}) = n
      BY <3>1, <3>2
    <3> HIDE DEF S2
    <3>4. Nth(S2, n) = i
      BY <2>4, <2>5, <3>3, NthIs
    <3> QED
      BY <3>4 DEF i
  <2>7. Nth(S2, m + 1) = k
    <3>1. {j \in S2 : j <= k} = S2
      BY <2>3
    <3>2. k \in S2
      OBVIOUS
    <3> HIDE DEF S2
    <3> QED
      BY <2>4, <2>5, <3>1, <3>2, NthIs
  <2>8. Token(u, k) = Word(text)
    <3>1. /\ u \in Seq(Characters) /\ Len(u) = N + 1 /\ u[N + 1] = ch
          /\ \A j \in 1 .. N : u[j] = text[j]
      BY AppendProperties DEF u, N
    <3>2. \A j \in L + 1 .. N : ~Blank(text[j])
      BY LastBlankIs DEF L, N
    <3>3. ASSUME NEW j PROVE j \in Ends(u, k) <=> j = N + 1
      <4>1. j \in Ends(u, k) <=> j \in k .. N + 1 /\ Blank(u[j])
        BY <3>1, Zenon DEF Ends
      <4>2. CASE j \in L + 1 .. N
        <5>1. j \in 1 .. N /\ j # N + 1
          BY <1>1, <4>2
        <5> QED
          BY <3>1, <3>2, <4>1, <4>2, <5>1
      <4>3. CASE j \notin L + 1 .. N
        <5>1. j \in k .. N + 1 <=> j = N + 1
          BY <1>1, <4>3, SMTT(60)
        <5> QED
          BY <1>10, <3>1, <4>1, <5>1
      <4> QED
        BY <4>2, <4>3
    <3>4. Min(Ends(u, k)) = N + 1
      <4>1. Ends(u, k) = {N + 1}
        BY <3>3
      <4>2. {N + 1} \in SUBSET Nat /\ N + 1 \in {N + 1} /\ \A y \in {N + 1} : N + 1 <= y
        BY <1>1
      <4> QED
        BY <4>1, <4>2, MinIs
    <3>5. Token(u, k) = SubSeq(u, L + 1, (N + 1) - 1)
      BY <3>4 DEF Token
    <3>6. (N + 1) - 1 = N
      BY <1>1
    <3>7. SubSeq(u, L + 1, N) = SubSeq(text, L + 1, N)
      <4>1. /\ L + 1 \in Nat \ {0} /\ N <= Len(u) /\ \A j \in L + 1 .. N : u[j] = text[j]
        BY <1>1, <3>1
      <4> QED
        BY <1>1, <3>1, <4>1, PartsSame DEF N
    <3>8. Word(text) = SubSeq(text, L + 1, N)
      BY DEF Word, L, N
    <3> QED
      BY <3>5, <3>6, <3>7, <3>8
  <2> HIDE DEF S2, k
  <2> DEFINE W == Word(text)
             T == Tokens(text)
             A == Append(T, W)
  <2>9. /\ A \in Seq(Seq(Characters)) /\ Len(A) = m + 1 /\ A[m + 1] = W
        /\ \A n \in 1 .. m : A[n] = T[n]
    <3> HIDE DEF W, T
    <3>1. T \in Seq(Seq(Characters)) /\ Len(T) = m /\ W \in Seq(Characters)
      BY <1>3, <1>6, <1>8 DEF W, T
    <3> QED
      BY <3>1, AppendProperties
  <2> HIDE DEF A, W
  <2>10. Tokens(u) = [n \in 1 .. m + 1 |-> Token(u, Nth(S2, n))]
    BY <1>7, <2>2, <2>4
  <2>11. ASSUME NEW n \in 1 .. m + 1 PROVE Token(u, Nth(S2, n)) = A[n]
    <3>1. CASE n = m + 1
      BY <2>7, <2>8, <2>9, <3>1 DEF W
    <3>2. CASE n # m + 1
      <4>1. n \in 1 .. m
        BY <1>3, <3>2
      <4>2. Token(u, Nth(S2, n)) = Token(text, Nth(S, n))
        BY <1>4, <1>5, <2>6, <4>1
      <4>3. T[n] = Token(text, Nth(S, n))
        BY <1>6, <4>1
      <4> QED
        BY <2>9, <4>1, <4>2, <4>3
    <3> QED
      BY <3>1, <3>2
  <2>12. Tokens(u) = A
    <3>1. A = [n \in 1 .. m + 1 |-> A[n]]
      BY <2>9
    <3> QED
      BY <2>10, <2>11, <3>1
  <2> QED
    BY <1>10, <2>9, <2>12 DEF u, A, W
<1> QED
  BY <1>9, <1>10

\* A text is put behind another one character by character.
LEMMA PrefixesGrow ==
  ASSUME NEW text \in Seq(Characters), NEW s \in Seq(Characters)
  PROVE  /\ text \o SubSeq(s, 1, 0) = text /\ text \o SubSeq(s, 1, Len(s)) = text \o s
         /\ \A k \in 0 .. Len(s) : text \o SubSeq(s, 1, k) \in Seq(Characters)
         /\ \A k \in 1 .. Len(s) :
              /\ s[k] \in Characters
              /\ text \o SubSeq(s, 1, k) = Append(text \o SubSeq(s, 1, k - 1), s[k])
<1> DEFINE N == Len(s)
<1>1. N \in Nat /\ \A k \in 1 .. N : s[k] \in Characters
  OBVIOUS
<1>2. ASSUME NEW k \in 0 .. N
      PROVE  /\ SubSeq(s, 1, k) \in Seq(Characters) /\ Len(SubSeq(s, 1, k)) = k
             /\ \A i \in 1 .. k : SubSeq(s, 1, k)[i] = s[i]
  OBVIOUS
<1>3. SubSeq(s, 1, 0) = <<>> /\ text \o <<>> = text
  OBVIOUS
<1>4. SubSeq(s, 1, N) = s
  OBVIOUS
<1>5. ASSUME NEW k \in 1 .. N
      PROVE  text \o SubSeq(s, 1, k) = Append(text \o SubSeq(s, 1, k - 1), s[k])
  <2> DEFINE a == SubSeq(s, 1, k - 1)
             b == SubSeq(s, 1, k)
             ch == s[k]
             c == text \o b
             d == text \o a
             e == Append(d, ch)
             T == Len(text)
  <2>1. /\ a \in Seq(Characters) /\ Len(a) = k - 1 /\ \A i \in 1 .. k - 1 : a[i] = s[i]
        /\ b \in Seq(Characters) /\ Len(b) = k /\ \A i \in 1 .. k : b[i] = s[i]
        /\ ch \in Characters /\ T \in Nat /\ k \in Nat
    <3>1. k - 1 \in 0 .. N /\ k \in 0 .. N
      BY <1>1
    <3> QED
      BY <1>1, <1>2, <3>1
  <2> HIDE DEF a, b, ch, T
  <2>2. /\ c \in Seq(Characters) /\ Len(c) = T + k
        /\ \A i \in 1 .. T + k : c[i] = IF i <= T THEN text[i] ELSE b[i - T]
    BY <2>1, ConcatProperties DEF T
  <2> DEFINE j == k - 1
  <2>3. /\ d \in Seq(Characters) /\ Len(d) = T + j
        /\ \A i \in 1 .. T + j : d[i] = IF i <= T THEN text[i] ELSE a[i - T]
    <3>1. a \in Seq(Characters) /\ Len(a) = j
      BY <2>1
    <3> HIDE DEF j
    <3> QED
      BY <3>1, ConcatProperties DEF T
  <2> HIDE DEF c, d
  <2>4. /\ e \in Seq(Characters) /\ Len(e) = T + k /\ e[T + k] = ch
        /\ \A i \in 1 .. T + (k - 1) : e[i] = d[i]
    <3>1. /\ e \in Seq(Characters) /\ Len(e) = Len(d) + 1 /\ e[Len(d) + 1] = ch
          /\ \A i \in 1 .. Len(d) : e[i] = d[i]
      BY <2>1, <2>3, AppendProperties
    <3>2. Len(d) + 1 = T + k
      BY <2>1, <2>3
    <3> HIDE DEF e
    <3> QED
      BY <2>3, <3>1, <3>2
  <2> HIDE DEF e
  <2>5. ASSUME NEW i \in 1 .. T + k PROVE c[i] = e[i]
    <3>1. CASE i = T + k
      <4>1. ~(i <= T) /\ i - T = k /\ k \in 1 .. k
        BY <2>1, <3>1
      <4> QED
        BY <2>1, <2>2, <2>4, <3>1, <4>1 DEF ch
    <3>2. CASE i <= T
      <4>1. i \in 1 .. T + (k - 1)
        BY <2>1, <3>2
      <4> QED
        BY <2>2, <2>3, <2>4, <3>2, <4>1
    <3>3. CASE ~(i <= T) /\ i # T + k
      <4>1. i \in 1 .. T + (k - 1) /\ i - T \in 1 .. k - 1 /\ i - T \in 1 .. k
        BY <2>1, <3>3
      <4> QED
        BY <2>1, <2>2, <2>3, <2>4, <3>3, <4>1, ZenonT(60)
    <3> QED
      BY <3>1, <3>2, <3>3
  <2>6. c = e
    BY <2>2, <2>4, <2>5
  <2> QED
    BY <2>6 DEF c, e, d, b, a, ch
<1>6. \A k \in 0 .. N : text \o SubSeq(s, 1, k) \in Seq(Characters)
  BY <1>2
<1> QED
  BY <1>1, <1>3, <1>4, <1>5, <1>6

\* Tokens are texts; there are none at first.
LEMMA TokensAre ==
  /\ Tokens(<<>>) = <<>> /\ Word(<<>>) = <<>>
  /\ \A text \in Seq(Characters) : Tokens(text) \in Seq(Seq(Characters))
<1>1. Tokens(<<>>) = <<>>
  <2>1. Starts(<<>>) = {}
    BY DEF Starts
  <2>2. Cardinality({}) = 0
    BY FS_EmptySet
  <2> DEFINE Token(n) == LET i == Nth(Starts(<<>>), n)
                         IN  SubSeq(<<>>, i, Min(Ends(<<>>, i)) - 1)
  <2>3. Tokens(<<>>) = [n \in 1 .. Cardinality(Starts(<<>>)) |-> Token(n)]
    BY Zenon DEF Tokens
  <2> HIDE DEF Token
  <2>4. Tokens(<<>>) = [n \in 1 .. 0 |-> Token(n)]
    BY <2>1, <2>2, <2>3
  <2> QED
    BY <2>4
<1>2. Word(<<>>) = <<>>
  <2> DEFINE t == <<>>
  <2>1. t \in Seq(Characters) /\ Len(t) = 0 /\ 0 \in 0 .. Len(t)
    OBVIOUS
  <2> HIDE DEF t
  <2>2. LastBlank(t) \in 0 .. Len(t)
    BY <2>1, LastBlankIs
  <2>3. LastBlank(t) = Len(t) /\ Space \in Characters
    BY <2>1, <2>2, CharactersAssumption
  <2>4. Word(t) = <<>>
    BY <2>1, <2>3, WordGrows
  <2> QED
    BY <2>4 DEF t
<1>3. ASSUME NEW text \in Seq(Characters) PROVE Tokens(text) \in Seq(Seq(Characters))
  <2> DEFINE N == Len(text)
             prefix(k) == <<>> \o SubSeq(text, 1, k)
             P == {k \in 0 .. N : Tokens(prefix(k)) \in Seq(Seq(Characters))}
  <2>1. /\ prefix(0) = <<>> /\ prefix(N) = text /\ N \in Nat
        /\ \A k \in 0 .. N : prefix(k) \in Seq(Characters)
        /\ \A k \in 1 .. N : text[k] \in Characters /\ prefix(k) = Append(prefix(k - 1), text[k])
    <3>1. <<>> \in Seq(Characters) /\ <<>> \o text = text
      OBVIOUS
    <3> QED
      BY <3>1, PrefixesGrow
  <2> HIDE DEF prefix, N
  <2>2. 0 \in P
    BY <1>1, <2>1
  <2>3. ASSUME NEW k \in 1 .. N, k - 1 \in P PROVE k \in P
    <3>1. k \in 0 .. N /\ k - 1 \in 0 .. N
      BY <2>1
    <3>2. Tokens(Append(prefix(k - 1), text[k])) \in Seq(Seq(Characters))
      BY <2>1, <2>3, <3>1, TokensGrow
    <3> QED
      BY <2>1, <3>1, <3>2
  <2> HIDE DEF P
  <2>4. \A k \in 0 .. N : k \in P
    BY <2>1, <2>2, <2>3, UpTo
  <2> QED
    BY <2>1, <2>4 DEF P
<1> QED
  BY <1>1, <1>2, <1>3

-----------------------------------------------------------------------------
(***************************************************************************)
(* Reads and tokens.  The n-th read of a process gets the n-th piece of    *)
(* its characters: a token, or the word they end in, as far as its kind    *)
(* and those before it take the pieces they get.                           *)
(***************************************************************************)
Piece(text, n) ==
  IF n <= Len(Tokens(text)) THEN Tokens(text)[n]
  ELSE IF n = Len(Tokens(text)) + 1 THEN Word(text) ELSE <<>>
Kind(p, n) ==
  LET step == Code[p][Nth(Reads[p], n)] IN IF step.fn = "scan" THEN step.kind ELSE "read"
OfKind(kind, t) == kind \in {"s", "d", "x"} /\ \A c \in 1 .. Len(t) : InBody(kind, t[c])
Fit(p, text, n) == \A j \in 1 .. n : OfKind(Kind(p, j), Piece(text, j))

\* The read that has the turn, or the last one.
Turn(p, text) ==
  IF Len(Tokens(text)) < Cardinality(Reads[p]) THEN Len(Tokens(text)) + 1
  ELSE Cardinality(Reads[p])

\* A piece stays, or gets longer.
LEMMA PieceGrows ==
  ASSUME NEW text \in Seq(Characters), NEW ch \in Characters, NEW n \in Nat \ {0}
  PROVE  LET u == Append(text, ch)
         IN  /\ Piece(text, n) \in Seq(Characters)
             /\ Len(Piece(text, n)) <= Len(Piece(u, n))
             /\ \A c \in 1 .. Len(Piece(text, n)) : Piece(u, n)[c] = Piece(text, n)[c]
             /\ Len(Tokens(text)) <= Len(Tokens(u))
             /\ n <= Len(Tokens(text)) => Tokens(u)[n] = Tokens(text)[n]
<1> DEFINE u == Append(text, ch)
           T == Tokens(text)
           U == Tokens(u)
           V == Word(text)
           W == Word(u)
           m == Len(T)
<1>1. u \in Seq(Characters)
  BY AppendProperties
<1>2. /\ T \in Seq(Seq(Characters)) /\ m \in Nat /\ V \in Seq(Characters)
      /\ U \in Seq(Seq(Characters)) /\ W \in Seq(Characters)
  <2>1. \A t \in Seq(Characters) : Tokens(t) \in Seq(Seq(Characters)) /\ Word(t) \in Seq(Characters)
    BY TokensAre, WordGrows
  <2> HIDE DEF u
  <2>2. T \in Seq(Seq(Characters)) => m \in Nat
    OBVIOUS
  <2> QED
    BY <1>1, <2>1, <2>2
<1>3. /\ ~Blank(ch) => U = T /\ W = Append(V, ch)
      /\ Blank(ch) /\ V = <<>> => U = T /\ W = <<>>
      /\ Blank(ch) /\ V # <<>> => U = Append(T, V) /\ W = <<>>
  <2>1. U = IF Blank(ch) /\ V # <<>> THEN Append(T, V) ELSE T
    BY <1>2, TokensGrow
  <2>2. (~Blank(ch) => W = Append(V, ch)) /\ (Blank(ch) => W = <<>>)
    BY WordGrows
  <2> HIDE DEF u, T, U, V, W
  <2> QED
    BY <2>1, <2>2
<1>4. /\ Piece(text, n) = IF n <= m THEN T[n] ELSE IF n = m + 1 THEN V ELSE <<>>
      /\ Piece(u, n) = IF n <= Len(U) THEN U[n] ELSE IF n = Len(U) + 1 THEN W ELSE <<>>
  BY DEF Piece
<1> HIDE DEF u, T, U, V, W
<1>5. Piece(text, n) \in Seq(Characters)
  <2>1. n <= m => T[n] \in Seq(Characters)
    BY <1>2
  <2>2. <<>> \in Seq(Characters)
    OBVIOUS
  <2> QED
    BY <1>2, <1>4, <2>1, <2>2
<1>6. CASE Blank(ch) /\ V = <<>>
  <2>1. Piece(u, n) = Piece(text, n)
    BY <1>3, <1>4, <1>6
  <2> QED
    BY <1>2, <1>3, <1>5, <1>6, <2>1 DEF u, T, U
<1>7. CASE ~Blank(ch)
  <2>1. CASE n = m + 1
    <3> DEFINE A == Append(V, ch)
    <3>1. Len(V) <= Len(A) /\ \A c \in 1 .. Len(V) : A[c] = V[c]
      BY <1>2, AppendProperties
    <3>2. Piece(text, n) = V /\ Piece(u, n) = A
      <4>1. ~(n <= m)
        BY <1>2, <2>1
      <4> HIDE DEF A
      <4> QED
        BY <1>3, <1>4, <1>7, <2>1, <4>1 DEF A
    <3> HIDE DEF A
    <3> QED
      BY <1>2, <1>3, <1>5, <1>7, <3>1, <3>2 DEF u, T, U
  <2>2. CASE n # m + 1
    <3>1. Piece(u, n) = Piece(text, n)
      BY <1>3, <1>4, <1>7, <2>2
    <3> QED
      BY <1>2, <1>3, <1>5, <1>7, <3>1 DEF u, T, U
  <2> QED
    BY <2>1, <2>2
<1>8. CASE Blank(ch) /\ V # <<>>
  <2> DEFINE A == Append(T, V)
  <2>1. U = A /\ W = <<>> /\ Len(A) = m + 1 /\ A[m + 1] = V /\ \A i \in 1 .. m : A[i] = T[i]
    BY <1>2, <1>3, <1>8, AppendProperties
  <2> HIDE DEF A
  <2>2. Piece(u, n) = Piece(text, n)
    <3>1. CASE n <= m
      <4>1. n <= m + 1 /\ n \in 1 .. m
        BY <1>2, <3>1
      <4> QED
        BY <1>4, <2>1, <3>1, <4>1
    <3>2. CASE n = m + 1
      <4>1. ~(n <= m) /\ n <= Len(U)
        BY <1>2, <2>1, <3>2
      <4> QED
        BY <1>4, <2>1, <3>2, <4>1
    <3>3. CASE ~(n <= m) /\ n # m + 1
      <4>1. n \in Int /\ m \in Int
        BY <1>2
      <4> HIDE DEF m
      <4>2. ~(n <= m + 1)
        BY <3>3, <4>1
      <4> QED
        BY <1>4, <2>1, <3>3, <4>2
    <3> QED
      BY <3>1, <3>2, <3>3
  <2>3. m <= Len(U) /\ (n <= m => U[n] = T[n])
    BY <1>2, <2>1, SMTT(60)
  <2> QED
    BY <1>2, <1>5, <2>2, <2>3 DEF u, T, U
<1> QED
  BY <1>6, <1>7, <1>8

\* A kind that takes a piece takes what the piece was before.
LEMMA FitShrinks ==
  ASSUME NEW p, NEW text \in Seq(Characters), NEW ch \in Characters, NEW n \in Nat,
         Fit(p, Append(text, ch), n)
  PROVE  Fit(p, text, n)
<1> DEFINE u == Append(text, ch)
<1>1. ASSUME NEW j \in 1 .. n PROVE OfKind(Kind(p, j), Piece(text, j))
  <2> DEFINE a == Piece(text, j)
             b == Piece(u, j)
  <2>1. a \in Seq(Characters) /\ Len(a) <= Len(b) /\ \A c \in 1 .. Len(a) : b[c] = a[c]
    <3>1. j \in Nat \ {0}
      OBVIOUS
    <3> HIDE DEF a, b
    <3> QED
      BY <3>1, PieceGrows DEF a, b
  <2>2. OfKind(Kind(p, j), b)
    BY DEF Fit
  <2>3. Len(b) \in Nat
    <3>1. u \in Seq(Characters)
      BY AppendProperties
    <3> HIDE DEF u
    <3>2. j \in Nat \ {0}
      OBVIOUS
    <3>3. b \in Seq(Characters)
      BY <3>1, <3>2, PieceGrows
    <3> QED
      BY <3>3
  <2> HIDE DEF a, b
  <2>4. Len(a) \in Nat /\ \A c \in 1 .. Len(a) : c \in 1 .. Len(b)
    BY <2>1, <2>3
  <2>5. \A c \in 1 .. Len(a) : InBody(Kind(p, j), a[c])
    BY <2>1, <2>2, <2>4, Zenon DEF OfKind
  <2> QED
    BY <2>2, <2>5, Zenon DEF OfKind, a
<1> QED
  BY <1>1 DEF Fit

\* The tokens of a text are the first of a longer one.
LEMMA TokensOfPrefix ==
  ASSUME NEW text \in Seq(Characters), NEW s \in Seq(Characters)
  PROVE  /\ Len(Tokens(text)) \in Nat /\ Len(Tokens(text \o s)) \in Nat
         /\ Len(Tokens(text)) <= Len(Tokens(text \o s))
         /\ \A n \in 1 .. Len(Tokens(text)) : Tokens(text \o s)[n] = Tokens(text)[n]
         /\ \A p : \A n \in Nat : Fit(p, text \o s, n) => Fit(p, text, n)
<1> DEFINE N == Len(s)
           prefix(k) == text \o SubSeq(s, 1, k)
           Good(k) == /\ Len(Tokens(text)) <= Len(Tokens(prefix(k)))
                      /\ \A n \in 1 .. Len(Tokens(text)) :
                           Tokens(prefix(k))[n] = Tokens(text)[n]
                      /\ \A p : \A n \in Nat : Fit(p, prefix(k), n) => Fit(p, text, n)
           P == {k \in 0 .. N : Good(k)}
<1>1. /\ prefix(0) = text /\ prefix(N) = text \o s /\ N \in Nat
      /\ \A k \in 0 .. N : prefix(k) \in Seq(Characters)
      /\ \A k \in 1 .. N : s[k] \in Characters /\ prefix(k) = Append(prefix(k - 1), s[k])
  <2>1. N \in Nat
    OBVIOUS
  <2> QED
    BY <2>1, PrefixesGrow, Zenon
<1> HIDE DEF prefix, N
<1>2. \A t \in Seq(Characters) : Len(Tokens(t)) \in Nat
  BY TokensAre
<1>3. Good(0)
  BY <1>1, <1>2
<1>4. ASSUME NEW k \in 1 .. N, Good(k - 1) PROVE Good(k)
  <2> DEFINE t == prefix(k - 1)
             ch == s[k]
             u == Append(t, ch)
  <2>1. t \in Seq(Characters) /\ ch \in Characters /\ prefix(k) = u
    <3>1. k - 1 \in 0 .. N
      BY <1>1
    <3> QED
      BY <1>1, <3>1
  <2> HIDE DEF t, ch
  <2>2. u \in Seq(Characters)
    BY <2>1, AppendProperties
  <2>3. /\ \A n \in Nat \ {0} : n <= Len(Tokens(t)) => Tokens(u)[n] = Tokens(t)[n]
        /\ Len(Tokens(t)) <= Len(Tokens(u))
    <3>1. 1 \in Nat \ {0}
      OBVIOUS
    <3> HIDE DEF u
    <3> QED
      BY <2>1, <3>1, PieceGrows, ZenonT(60) DEF u
  <2>4. \A p : \A n \in Nat : Fit(p, u, n) => Fit(p, t, n)
    BY <2>1, FitShrinks
  <2>5. Len(Tokens(text)) \in Nat /\ Len(Tokens(t)) \in Nat /\ Len(Tokens(u)) \in Nat
    BY <1>2, <2>1, <2>2
  <2>6. /\ Len(Tokens(text)) <= Len(Tokens(t))
        /\ \A n \in 1 .. Len(Tokens(text)) : Tokens(t)[n] = Tokens(text)[n]
        /\ \A p : \A n \in Nat : Fit(p, t, n) => Fit(p, text, n)
    BY <1>4 DEF t
  <2> HIDE DEF u
  <2>7. Len(Tokens(text)) <= Len(Tokens(u))
    BY <2>3, <2>5, <2>6
  <2>8. ASSUME NEW n \in 1 .. Len(Tokens(text)) PROVE Tokens(u)[n] = Tokens(text)[n]
    <3>1. n \in Nat \ {0} /\ n <= Len(Tokens(t))
      BY <2>5, <2>6
    <3> QED
      BY <2>3, <2>6, <3>1
  <2> QED
    BY <2>1, <2>4, <2>6, <2>7, <2>8
<1> HIDE DEF Good
<1>5. 0 \in P /\ \A k \in 1 .. N : k - 1 \in P => k \in P
  BY <1>1, <1>3, <1>4
<1> HIDE DEF P
<1>6. \A k \in 0 .. N : k \in P
  BY <1>1, <1>5, UpTo
<1>7. Good(N)
  BY <1>1, <1>6 DEF P
<1>8. text \o s \in Seq(Characters)
  OBVIOUS
<1> QED
  BY <1>1, <1>2, <1>7, <1>8 DEF Good

\* The read whose turn it is moves on with the tokens.
LEMMA TurnIs ==
  ASSUME NEW p \in Readers, NEW text \in Seq(Characters), NEW s \in Seq(Characters)
  PROVE  /\ IsFiniteSet(Reads[p]) /\ Cardinality(Reads[p]) \in Nat
         /\ Reads[p] \in SUBSET (1 .. Len(Code[p])) /\ Len(Code[p]) \in Nat
         /\ Turn(p, text) \in Nat /\ Turn(p, text \o s) \in Nat
         /\ Fit(p, text \o s, Turn(p, text \o s)) => Fit(p, text, Turn(p, text))
<1>1. /\ Len(Tokens(text)) \in Nat /\ Len(Tokens(text \o s)) \in Nat
      /\ Len(Tokens(text)) <= Len(Tokens(text \o s))
      /\ \A n \in Nat : Fit(p, text \o s, n) => Fit(p, text, n)
  BY TokensOfPrefix
<1>2. Len(Code[p]) \in Nat
  <2>1. Code[p] \in Seq(AllSteps)
    BY ProgramsAssumption
  <2> QED
    BY <2>1
<1>3. Reads[p] \in SUBSET (1 .. Len(Code[p]))
  BY DEF Reads
<1>4. IsFiniteSet(Reads[p]) /\ Cardinality(Reads[p]) \in Nat
  <2>1. IsFiniteSet(1 .. Len(Code[p]))
    BY <1>2, FS_Interval
  <2>2. IsFiniteSet(Reads[p])
    BY <1>3, <2>1, FS_Subset
  <2> QED
    BY <2>2, FS_CardinalityType
<1>5. /\ Turn(p, text) \in Nat /\ Turn(p, text \o s) \in Nat
      /\ Turn(p, text) <= Turn(p, text \o s)
  BY <1>1, <1>4 DEF Turn
<1>6. ASSUME Fit(p, text \o s, Turn(p, text \o s)) PROVE Fit(p, text, Turn(p, text))
  <2>1. Fit(p, text, Turn(p, text \o s))
    BY <1>1, <1>5, <1>6
  <2>2. \A j \in 1 .. Turn(p, text) : j \in 1 .. Turn(p, text \o s)
    BY <1>5
  <2> QED
    BY <2>1, <2>2 DEF Fit
<1> QED
  BY <1>2, <1>3, <1>4, <1>5, <1>6

\* A remainder may be taken at every step.
LEMMA RemainderKeeps ==
  ASSUME NEW x \in Nat, NEW b \in Nat, NEW d \in Nat, NEW M \in Nat \ {0}
  PROVE  ((x % M) * b + d) % M = (x * b + d) % M
<1> DEFINE q == x \div M
           r == x % M
<1>1. x = M * q + r /\ q \in Nat /\ r \in Nat
  OBVIOUS
<1> HIDE DEF q, r
<1> DEFINE y == r * b + d
<1>2. y \in Nat
  <2>1. r * b \in Nat
    BY <1>1
  <2> QED
    BY <2>1
<1>3. x * b + d = M * (q * b) + y
  BY <1>1
<1> DEFINE a == y \div M
           z == y % M
<1> HIDE DEF y
<1>4. y = M * a + z /\ a \in Nat /\ z \in 0 .. M - 1
  BY <1>2
<1> HIDE DEF a
<1>5. x * b + d = M * (q * b + a) + z
  <2>1. q * b \in Nat
    BY <1>1
  <2>2. \A u \in Nat : M * u + (M * a + z) = M * (u + a) + z
    <3> HIDE DEF z
    <3> QED
      BY <1>4
  <2> QED
    BY <1>3, <1>4, <2>1, <2>2
<1>6. \A u \in Nat, v \in 0 .. M - 1 : (M * u + v) % M = v
  OBVIOUS
<1>7. q * b + a \in Nat
  <2>1. q * b \in Nat
    BY <1>1
  <2> QED
    BY <1>4, <2>1
<1>8. (x * b + d) % M = z
  BY <1>4, <1>5, <1>6, <1>7
<1> QED
  BY <1>8 DEF z, y, r

\* A number is what its numeral denotes, as far as an int holds it.
LEMMA NumberDenoted ==
  ASSUME NEW kind \in {"d", "x"}, NEW t \in Numerals(Base(kind))
  PROVE  Number(Base(kind), t) = Denoted(kind, t) % Modulus
<1> DEFINE N == Len(t)
           base == Base(kind)
           next(x, n) == x * base + DigitValue(t[n])
           Eqn(w) == w = [n \in 0 .. N |-> IF n = 0 THEN 0 ELSE next(w[n - 1], n)]
           g == [nx \in (1 .. N) \X Nat |-> next(nx[2], nx[1])]
<1>1. /\ N \in Nat /\ base \in 2 .. 16 /\ base \in Nat /\ t \in Numerals(base)
      /\ \A n \in 1 .. N : DigitValue(t[n]) \in Nat
  <2>1. base \in 2 .. 16 /\ base \in 1 .. 16
    BY DEF Base
  <2> HIDE DEF base
  <2>2. t \in Seq(Characters) /\ \A n \in 1 .. N : IsDigit(t[n], base)
    BY DEF Numerals, base
  <2>3. \A n \in 1 .. N : DigitValue(t[n]) \in 0 .. base - 1
    BY <2>1, <2>2, DigitIs
  <2> QED
    BY <2>1, <2>2, <2>3, SMTT(60) DEF base
<1> HIDE DEF base, N
<1>2. ASSUME NEW x \in Nat, NEW n \in 1 .. N PROVE next(x, n) \in Nat
  <2>1. x * base \in Nat /\ DigitValue(t[n]) \in Nat
    BY <1>1
  <2> QED
    BY <2>1
<1> HIDE DEF next
<1>3. g \in [(1 .. N) \X Nat -> Nat]
  <2>1. ASSUME NEW nx \in (1 .. N) \X Nat PROVE next(nx[2], nx[1]) \in Nat
    BY <1>2
  <2> QED
    BY <2>1
<1>4. \A n \in 1 .. N, x \in Nat : g[<<n, x>>] = next(x, n)
  OBVIOUS
<1> HIDE DEF g
<1>5. PICK f : Iteration(f, Nat, 0, N, g)
  <2> HIDE DEF Eqn
  <2>1. 0 \in Nat
    OBVIOUS
  <2> QED
    BY <1>1, <1>3, <2>1, Iterates
<1>6. Eqn(f)
  <2> USE <1>5 DEF Iteration
  <2>1. ASSUME NEW n \in 1 .. N PROVE f[n] = next(f[n - 1], n)
    <3>1. n - 1 \in 0 .. N
      BY <1>1
    <3> QED
      BY <1>4, <3>1
  <2> QED
    BY <1>1, <2>1
<1> DEFINE value == CHOOSE w : Eqn(w)
<1>7. Eqn(value)
  BY <1>6, Zenon
<1>8. Denoted(kind, t) = value[N]
  BY Zenon DEF Denoted, N, next, base
<1> HIDE DEF value
<1>9. value[0] = 0 /\ \A n \in 1 .. N : value[n] = next(value[n - 1], n)
  <2>1. \A n \in 0 .. N : value[n] = IF n = 0 THEN 0 ELSE next(value[n - 1], n)
    BY <1>7
  <2> HIDE DEF Eqn
  <2>2. 0 \in 0 .. N /\ \A n \in 1 .. N : n \in 0 .. N /\ n # 0
    BY <1>1
  <2> QED
    BY <2>1, <2>2, Zenon
<1>10. PICK num \in [0 .. N -> 0 .. Modulus - 1] :
         /\ num[0] = 0 /\ Number(base, t) = num[N]
         /\ \A n \in 1 .. N : num[n] = (num[n - 1] * base + DigitValue(t[n])) % Modulus
  BY <1>1, NumberSteps DEF N
<1>11. Modulus \in Nat \ {0}
  BY ModulusIs
<1> DEFINE P == {n \in 0 .. N : value[n] \in Nat /\ num[n] = value[n] % Modulus}
<1>12. 0 \in P
  <2>1. 0 % Modulus = 0
    BY <1>11
  <2> QED
    BY <1>1, <1>9, <1>10, <2>1
<1>13. ASSUME NEW n \in 1 .. N, n - 1 \in P PROVE n \in P
  <2> DEFINE x == value[n - 1]
             d == DigitValue(t[n])
  <2>1. n \in 0 .. N /\ x \in Nat /\ num[n - 1] = x % Modulus /\ d \in Nat
    BY <1>1, <1>13
  <2>2. value[n] = x * base + d
    BY <1>9 DEF next
  <2>3. num[n] = ((x % Modulus) * base + d) % Modulus
    BY <1>10, <2>1
  <2> HIDE DEF x, d
  <2>4. num[n] = (x * base + d) % Modulus
    <3> DEFINE M == Modulus
    <3>1. M \in Nat \ {0} /\ x \in Nat /\ base \in Nat /\ d \in Nat
      BY <1>1, <1>11, <2>1
    <3>2. num[n] = ((x % M) * base + d) % M
      BY <2>3
    <3> HIDE DEF M
    <3>3. ((x % M) * base + d) % M = (x * base + d) % M
      BY <3>1, RemainderKeeps, ZenonT(60)
    <3>4. num[n] = (x * base + d) % M
      BY <3>2, <3>3, Zenon
    <3> QED
      BY <3>4 DEF M
  <2>5. value[n] \in Nat
    <3>1. x * base \in Nat
      BY <1>1, <2>1
    <3> QED
      BY <2>1, <2>2, <3>1
  <2> QED
    BY <2>1, <2>2, <2>4, <2>5
<1> HIDE DEF P
<1>14. \A n \in 0 .. N : n \in P
  BY <1>1, <1>12, <1>13, UpTo
<1>15. num[N] = value[N] % Modulus
  BY <1>1, <1>14 DEF P
<1> QED
  BY <1>8, <1>10, <1>15 DEF base

\* What the n-th read returns, and that it has.
Expected(p, text, n) ==
  IF Kind(p, n) = "s" THEN Tokens(text)[n]
  ELSE Denoted(Kind(p, n), Tokens(text)[n]) % Modulus
Returns(p, text, n, res) ==
  Len(res) >= Nth(Reads[p], n) /\ res[Nth(Reads[p], n)] = Expected(p, text, n)

\* As many reads have returned as there are tokens, and the scan function has
\* the word that is not yet ended.
InTurn(p) ==
  /\ Cardinality({i \in Reads[p] : i <= Len(results[p])}) = Len(Tokens(taken[p]))
  /\ IF Word(taken[p]) = <<>> THEN scan[p] = Start
     ELSE Scanning(p) /\ scan[p] = [phase |-> "body", text |-> Word(taken[p])]

WordsHold(p) ==
  /\ Fit(p, taken[p], Turn(p, taken[p])) => InTurn(p)
  /\ \A n \in 1 .. Len(Tokens(taken[p])) :
       n <= Cardinality(Reads[p]) /\ Fit(p, taken[p], n) => Returns(p, taken[p], n, results[p])

\* As long as the pieces fit, reads and tokens keep in step; a read that has
\* returned has returned its token, whatever comes later.
WordsInv ==
  /\ taken \in [Readers -> Seq(Characters)]
  /\ \A p \in Readers : WordsHold(p)

\* Initially nothing is read.
LEMMA WordsStart == Init => WordsInv
<1> SUFFICES ASSUME Init PROVE WordsInv
  OBVIOUS
<1>1. /\ taken = [p \in Readers |-> <<>>] /\ results = [p \in Readers |-> <<>>]
      /\ scan = [p \in Readers |-> Start]
  BY DEF Init
<1>2. taken \in [Readers -> Seq(Characters)]
  BY <1>1
<1>3. Tokens(<<>>) = <<>> /\ Word(<<>>) = <<>> /\ Len(<<>>) = 0
  BY TokensAre
<1>4. ASSUME NEW p \in Readers PROVE WordsHold(p)
  <2>1. taken[p] = <<>> /\ results[p] = <<>> /\ scan[p] = Start
    BY <1>1
  <2>2. {i \in Reads[p] : i <= 0} = {}
    <3>1. \A i \in Reads[p] : ~(i <= 0)
      BY DEF Reads
    <3> QED
      BY <3>1
  <2>3. InTurn(p)
    <3>1. Cardinality({i \in Reads[p] : i <= Len(results[p])}) = 0
      BY <1>3, <2>1, <2>2, FS_EmptySet
    <3>2. Len(Tokens(taken[p])) = 0 /\ Word(taken[p]) = <<>>
      BY <1>3, <2>1
    <3> QED
      BY <2>1, <3>1, <3>2 DEF InTurn
  <2>4. 1 .. Len(Tokens(taken[p])) = {}
    BY <1>3, <2>1
  <2> QED
    BY <2>3, <2>4, SMTT(60) DEF WordsHold
<1> QED
  BY <1>2, <1>4 DEF WordsInv

\* A process of which nothing changes.
LEMMA OthersKeepWords ==
  ASSUME NEW p, WordsHold(p), taken'[p] = taken[p], results'[p] = results[p], scan'[p] = scan[p],
         todo'[p] = todo[p]
  PROVE  WordsHold(p)'
  BY DEF WordsHold, InTurn, Scanning

\* The place of a read among the reads of its process.
LEMMA ReadsAre ==
  ASSUME NEW p \in Readers, NEW n \in 1 .. Cardinality(Reads[p])
  PROVE  Nth(Reads[p], n) \in Reads[p] /\ Nth(Reads[p], n) \in Nat \ {0}
<1>1. Reads[p] \in SUBSET (1 .. Len(Code[p])) /\ Len(Code[p]) \in Nat
  <2>1. <<>> \in Seq(Characters)
    OBVIOUS
  <2> QED
    BY <2>1, TurnIs
<1>2. Nth(Reads[p], n) \in Reads[p]
  BY <1>1, NthExists
<1> QED
  BY <1>1, <1>2

\* What has been returned stays, whatever is read and returned later.
LEMMA ReturnsStay ==
  ASSUME NEW p \in Readers, NEW text \in Seq(Characters), NEW s,
         NEW n \in 1 .. Len(Tokens(text)), Tokens(s)[n] = Tokens(text)[n],
         n <= Cardinality(Reads[p]),
         NEW res, NEW r, Len(res) \in Nat, Len(r) \in Nat,
         Len(res) <= Len(r), \A i \in 1 .. Len(res) : r[i] = res[i],
         Returns(p, text, n, res)
  PROVE  Returns(p, s, n, r)
<1> DEFINE i == Nth(Reads[p], n)
<1>1. Cardinality(Reads[p]) \in Nat
  <2>1. <<>> \in Seq(Characters)
    OBVIOUS
  <2> QED
    BY <2>1, TurnIs
<1>2. i \in Nat \ {0}
  <2>1. n \in 1 .. Cardinality(Reads[p])
    BY <1>1
  <2> QED
    BY <2>1, ReadsAre
<1>3. Len(res) >= i /\ res[i] = Expected(p, text, n)
  BY DEF Returns
<1>4. Expected(p, s, n) = Expected(p, text, n)
  BY Zenon DEF Expected
<1> HIDE DEF i
<1>5. i \in 1 .. Len(res) /\ Len(r) >= i
  BY <1>2, <1>3
<1> QED
  BY <1>3, <1>4, <1>5 DEF Returns, i

\* A step that prints is no read.
LEMMA PrintKeepsWords ==
  ASSUME ProgramsInv, WordsInv, PutText
  PROVE  WordsInv'
<1> PICK p : p = current
  OBVIOUS
<1>0. PICK k : k = Len(results[p])
  OBVIOUS
<1>1. /\ todo[p] # <<>> /\ Step.fn \notin {"scan", "read"}
      /\ results' = [results EXCEPT ![p] = Append(@, <<>>)]
      /\ todo' = [todo EXCEPT ![p] = Tail(@)]
      /\ UNCHANGED <<taken, scan>>
  BY DEF PutText, Busy
<1>2. p \in Readers /\ Step = Code[p][k + 1] /\ k + 1 \in DOMAIN Code[p] /\ k \in Nat
  BY <1>0, <1>1, StepIs
<1>3. results \in [Readers -> Seq(Returned)] /\ todo \in [Readers -> Seq(AllSteps)]
  BY DEF ProgramsInv, CInv, ReadInv, StepsInv
<1>4. k + 1 \notin Reads[p]
  BY <1>1, <1>2 DEF Reads
<1>5. WordsHold(p)'
  <2> DEFINE r == Append(results[p], <<>>)
  <2>1. results'[p] = r /\ Len(r) = k + 1 /\ \A i \in 1 .. k : r[i] = results[p][i]
    <3>1. results'[p] = r /\ results[p] \in Seq(Returned)
      BY <1>1, <1>2, <1>3
    <3> DEFINE e == <<>>
    <3>2. e \in Returned
      <4>1. e \in Values("text")
        BY DEF Values
      <4> QED
        BY <4>1 DEF Returned
    <3>3. r = Append(results[p], e)
      OBVIOUS
    <3> HIDE DEF e, r
    <3> QED
      BY <1>0, <3>1, <3>2, <3>3, AppendProperties
  <2> HIDE DEF r
  <2>2. taken'[p] = taken[p] /\ scan'[p] = scan[p]
    BY <1>1
  <2>3. {i \in Reads[p] : i <= k + 1} = {i \in Reads[p] : i <= k}
    <3>1. \A i \in Reads[p] : i \in Nat /\ i # k + 1
      BY <1>2, <1>4 DEF Reads
    <3>2. \A i \in Reads[p] : i <= k + 1 <=> i <= k
      BY <1>2, <3>1
    <3> QED
      BY <3>2
  <2>4. WordsHold(p)
    BY <1>2 DEF WordsInv
  <2>5. InTurn(p) => InTurn(p)'
    <3>1. ~Scanning(p)
      BY <1>1 DEF Scanning, Step
    <3> SUFFICES ASSUME InTurn(p) PROVE InTurn(p)'
      OBVIOUS
    <3>2. Word(taken[p]) = <<>> /\ scan[p] = Start
      BY <3>1 DEF InTurn
    <3> QED
      BY <1>0, <2>1, <2>2, <2>3, <3>2 DEF InTurn
  <2>6. ASSUME NEW n \in 1 .. Len(Tokens(taken[p])), n <= Cardinality(Reads[p]),
               Returns(p, taken[p], n, results[p])
        PROVE  Returns(p, taken[p], n, results'[p])
    <3>1. taken[p] \in Seq(Characters)
      BY <1>2 DEF WordsInv
    <3> QED
      BY <1>0, <1>2, <2>1, <2>6, <3>1, ReturnsStay, SMTT(60)
  <2>7. Fit(p, taken[p], Turn(p, taken[p]))' => InTurn(p)'
    BY <2>2, <2>4, <2>5 DEF WordsHold
  <2> QED
    BY <2>2, <2>4, <2>6, <2>7 DEF WordsHold
<1>6. ASSUME NEW q \in Readers, q # p PROVE WordsHold(q)'
  <2>1. /\ taken'[q] = taken[q] /\ results'[q] = results[q] /\ scan'[q] = scan[q]
        /\ todo'[q] = todo[q] /\ WordsHold(q)
    BY <1>1, <1>2, <1>3, <1>6 DEF WordsInv
  <2> QED
    BY <2>1, OthersKeepWords
<1> QED
  BY <1>1, <1>5, <1>6 DEF WordsInv

\* What the read does whose turn it is, as long as the pieces fit.
LEMMA TurnScans ==
  ASSUME ProgramsInv, WordsInv, NEW p, p = current, todo[p] # <<>>,
         Step.fn \in {"scan", "read"}, Fit(p, taken[p], Turn(p, taken[p]))
  PROVE  LET m == Len(Tokens(taken[p]))
             k == Len(results[p])
         IN  /\ m \in Nat /\ k \in Nat /\ m + 1 <= Cardinality(Reads[p])
             /\ Nth(Reads[p], m + 1) = k + 1
             /\ Cardinality({i \in Reads[p] : i <= k + 1}) = m + 1
             /\ Step.fn = "scan" /\ Step.kind = Kind(p, m + 1)
             /\ OfKind(Step.kind, Word(taken[p]))
<1> PICK m, k : m = Len(Tokens(taken[p])) /\ k = Len(results[p])
  OBVIOUS
<1> DEFINE R == Reads[p]
           S == {i \in R : i <= k}
           T == {i \in R : i <= k + 1}
<1>1. p \in Readers /\ Step = Code[p][k + 1] /\ k + 1 \in DOMAIN Code[p] /\ k \in Nat
  BY StepIs
<1>2. taken[p] \in Seq(Characters) /\ InTurn(p) /\ m \in Nat
  <2>1. taken[p] \in Seq(Characters) /\ InTurn(p)
    BY <1>1 DEF WordsInv, WordsHold
  <2> QED
    BY <2>1, TokensAre
<1>3. /\ IsFiniteSet(R) /\ Cardinality(R) \in Nat /\ R \in SUBSET Nat
      /\ Len(Code[p]) \in Nat
  <2>1. <<>> \in Seq(Characters)
    OBVIOUS
  <2> HIDE DEF R
  <2>2. /\ IsFiniteSet(R) /\ Cardinality(R) \in Nat /\ R \in SUBSET (1 .. Len(Code[p]))
        /\ Len(Code[p]) \in Nat
    BY <1>1, <1>2, <2>1, TurnIs DEF R
  <2> QED
    BY <2>2
<1>4. Cardinality(S) = m
  BY <1>2 DEF InTurn
<1>5. k + 1 \in R
  <2>1. Code[p] \in Seq(AllSteps)
    BY <1>1, ProgramsAssumption
  <2>2. k + 1 \in 1 .. Len(Code[p])
    BY <1>1, <2>1
  <2> QED
    BY <1>1, <2>2 DEF Reads
<1> HIDE DEF R
<1>6. T = S \cup {k + 1} /\ k + 1 \notin S /\ IsFiniteSet(S) /\ T \in SUBSET R
  <2>1. \A i \in R : i \in Nat /\ (i <= k + 1 <=> i <= k \/ i = k + 1)
    BY <1>1, <1>3
  <2>2. IsFiniteSet(S)
    <3>1. S \in SUBSET R
      OBVIOUS
    <3> HIDE DEF S
    <3> QED
      BY <1>3, <3>1, FS_Subset
  <2>3. ~(k + 1 <= k)
    BY <1>1
  <2> QED
    BY <1>5, <2>1, <2>2, <2>3
<1> HIDE DEF S
<1>7. Cardinality(T) = m + 1 /\ Cardinality(T) <= Cardinality(R)
  <2> HIDE DEF T
  <2>1. Cardinality(T) = m + 1
    BY <1>4, <1>6, FS_AddElement
  <2> QED
    BY <1>3, <1>6, <2>1, FS_Subset
<1>8. Nth(R, m + 1) = k + 1
  BY <1>3, <1>5, <1>7, NthIs
<1>9. Kind(p, m + 1) = IF Step.fn = "scan" THEN Step.kind ELSE "read"
  BY <1>1, <1>8 DEF Kind, R
<1>10. OfKind(Kind(p, m + 1), Word(taken[p]))
  <2>1. Turn(p, taken[p]) = m + 1
    BY <1>2, <1>3, <1>7 DEF Turn, R
  <2>2. OfKind(Kind(p, m + 1), Piece(taken[p], m + 1))
    BY <1>2, <2>1 DEF Fit
  <2>3. Piece(taken[p], m + 1) = Word(taken[p])
    BY <1>2 DEF Piece
  <2> QED
    BY <2>2, <2>3
<1>11. Step.fn = "scan"
  BY <1>9, <1>10 DEF OfKind
<1> QED
  BY <1>1, <1>2, <1>3, <1>7, <1>8, <1>9, <1>10, <1>11 DEF R, T

\* The states of a scan function within a word and behind it.
Within(text) == [phase |-> "body", text |-> text]
Behind(text) == [phase |-> "done", text |-> text]

\* A character behind a word that fits.
LEMMA WordFed ==
  ASSUME NEW kind \in {"s", "d", "x"}, NEW W \in Seq(Characters), NEW ch \in Characters, NEW s,
         W = <<>> => s = Start, W # <<>> => s = Within(W),
         NEW fed, fed = Feed(kind, s, ch)
  PROVE  /\ ~Blank(ch) /\ InBody(kind, ch) => fed = Within(Append(W, ch))
         /\ Blank(ch) /\ W = <<>> => fed = Start
         /\ Blank(ch) /\ W # <<>> => fed = Behind(W)
<1> DEFINE longer == Append(W, ch)
<1>1. kind \notin {"c", "getchar"} /\ Skips(kind)
  BY DEF Skips
<1>2. Blank(ch) => ~InBody(kind, ch)
  <2>1. \A c : IsDigit(c, 10) => ~Blank(c)
    BY DigitsApart
  <2>2. \A c : IsDigit(c, 16) => ~Blank(c)
    BY DigitsApart
  <2> QED
    BY <2>1, <2>2, InBodyCases
<1>3. s.text = W /\ (W = <<>> => s.phase = "skip") /\ (W # <<>> => s.phase = "body")
  BY DEF Start, Within
<1>4. fed = IF s.phase = "skip" /\ Skips(kind) /\ Blank(ch) THEN s
            ELSE IF InBody(kind, ch) THEN [phase |-> "body", text |-> Append(s.text, ch)]
            ELSE [s EXCEPT !.phase = "done"]
  BY <1>1, Zenon DEF Feed
<1>5. longer = Append(s.text, ch)
  BY <1>3, Zenon
<1> HIDE DEF longer
<1>6. ~Blank(ch) /\ InBody(kind, ch) => fed = [phase |-> "body", text |-> longer]
  BY <1>4, <1>5, Zenon
<1>7. Blank(ch) /\ W = <<>> => fed = Start
  BY <1>1, <1>3, <1>4, Zenon
<1>8. ASSUME Blank(ch), W # <<>> PROVE fed = [phase |-> "done", text |-> W]
  <2>1. fed = [s EXCEPT !.phase = "done"] /\ s = [phase |-> "body", text |-> W]
    BY <1>2, <1>3, <1>4, <1>8 DEF Within
  <2> QED
    BY <2>1
<1> QED
  BY <1>6, <1>7, <1>8 DEF longer, Within, Behind

\* A character for a process whose pieces fit.
LEMMA TurnKeepsWords ==
  ASSUME ProgramsInv, WordsInv, Deliver, NEW p, p = current,
         Fit(p, taken[p], Turn(p, taken[p]))
  PROVE  WordsHold(p)'
<1>1. /\ p \in Readers /\ todo[p] # <<>> /\ Step.fn \in {"scan", "read"}
      /\ \E text \in Seq(Characters) :
           /\ taken' = [taken EXCEPT ![p] = @ \o text]
           /\ Receive(text)
           /\ Step.fn = "scan" => Len(text) = 1
  BY DeliverIs
<1>2. PICK T, W, m, k : T = taken[p] /\ W = Word(T) /\ m = Len(Tokens(T)) /\ k = Len(results[p])
  OBVIOUS
<1>3. /\ m \in Nat /\ k \in Nat /\ m + 1 <= Cardinality(Reads[p])
      /\ Nth(Reads[p], m + 1) = k + 1
      /\ Cardinality({i \in Reads[p] : i <= k + 1}) = m + 1
      /\ Step.fn = "scan" /\ Step.kind = Kind(p, m + 1)
      /\ OfKind(Step.kind, W)
  <2>1. m = Len(Tokens(taken[p])) /\ k = Len(results[p]) /\ W = Word(taken[p])
    BY <1>2
  <2> QED
    BY <1>1, <2>1, TurnScans, ZenonT(60)
<1>4. T \in Seq(Characters) /\ Tokens(T) \in Seq(Seq(Characters)) /\ W \in Seq(Characters)
  <2>1. T \in Seq(Characters)
    BY <1>1, <1>2 DEF WordsInv
  <2>2. Space \in Characters
    BY CharactersAssumption
  <2> QED
    BY <1>2, <2>1, <2>2, TokensAre, WordGrows
<1>5. PICK ch \in Characters :
        /\ taken' = [taken EXCEPT ![p] = Append(@, ch)]
        /\ LET fed == Feed(Step.kind, scan[p], ch)
               ended == fed.phase = "done"
           IN  /\ scan' = [scan EXCEPT ![p] = IF ended THEN Start ELSE fed]
               /\ todo' = [todo EXCEPT ![p] = IF ended THEN Tail(@) ELSE @]
               /\ results' = [results EXCEPT ![p] =
                                IF ended THEN Append(@, Result(Step.kind, fed.text)) ELSE @]
  <2>1. PICK text \in Seq(Characters) :
          taken' = [taken EXCEPT ![p] = @ \o text] /\ Receive(text) /\ Len(text) = 1
    BY <1>1, <1>3
  <2>2. Last(text) = text[1] /\ text[1] \in Characters /\ text = <<text[1]>>
    BY <2>1 DEF Last
  <2>3. taken[p] \o text = Append(taken[p], text[1])
    <3> PICK c : c = text[1]
      OBVIOUS
    <3>1. T \o <<c>> = Append(T, c)
      BY <1>4, <2>2
    <3> QED
      BY <1>2, <2>2, <3>1
  <2>4. taken' = [taken EXCEPT ![p] = Append(@, text[1])]
    BY <2>1, <2>3
  <2>5. Step.fn # "read"
    BY <1>3
  <2> QED
    BY <2>1, <2>2, <2>4, <2>5 DEF Receive
<1>6. PICK U, fed : U = Append(T, ch) /\ fed = Feed(Step.kind, scan[p], ch)
  OBVIOUS
<1>7. /\ scan \in [Readers -> [phase : {"skip", "body"}, text : Seq(Characters)]]
      /\ todo \in [Readers -> Seq(AllSteps)] /\ results \in [Readers -> Seq(Returned)]
      /\ taken \in [Readers -> Seq(Characters)]
  BY DEF ProgramsInv, CInv, ReadInv, StepsInv, ScanInv, WordsInv
<1>8. /\ taken'[p] = U
      /\ scan'[p] = IF fed.phase = "done" THEN Start ELSE fed
      /\ fed.phase # "done" => todo'[p] = todo[p] /\ results'[p] = results[p]
      /\ fed.phase = "done" => results'[p] = Append(results[p], Result(Step.kind, fed.text))
  BY <1>1, <1>2, <1>5, <1>6, <1>7
<1>9. /\ Tokens(U) = IF Blank(ch) /\ W # <<>> THEN Append(Tokens(T), W) ELSE Tokens(T)
      /\ ~Blank(ch) => Word(U) = Append(W, ch)
      /\ Blank(ch) => Word(U) = <<>>
  BY <1>2, <1>4, <1>6, TokensGrow, WordGrows
<1>10. /\ ~Blank(ch) /\ InBody(Step.kind, ch) => fed = Within(Append(W, ch))
       /\ Blank(ch) /\ W = <<>> => fed = Start
       /\ Blank(ch) /\ W # <<>> => fed = Behind(W)
  <2>1. InTurn(p)
    BY <1>1 DEF WordsInv, WordsHold
  <2>2. (W = <<>> => scan[p] = Start) /\ (W # <<>> => scan[p] = Within(W))
    BY <1>2, <2>1 DEF InTurn, Within
  <2>3. Step.kind \in {"s", "d", "x"}
    BY <1>3 DEF OfKind
  <2> QED
    BY <1>4, <1>6, <2>2, <2>3, WordFed
<1>11. PICK r : r = results'[p]
  OBVIOUS
<1>12. /\ Len(r) \in Nat /\ k <= Len(r) /\ \A i \in 1 .. k : r[i] = results[p][i]
       /\ fed.phase = "done" => Len(r) = k + 1 /\ r[k + 1] = Result(Step.kind, fed.text)
  <2>1. CASE fed.phase # "done"
    BY <1>2, <1>3, <1>8, <1>11, <2>1
  <2>2. CASE fed.phase = "done"
    <3> DEFINE e == Result(Step.kind, fed.text)
               V == Returned \cup {e}
    <3>1. results[p] \in Seq(V) /\ e \in V
      <4>1. results[p] \in Seq(Returned)
        BY <1>1, <1>7
      <4> HIDE DEF e
      <4> QED
        BY <4>1
    <3>2. r = Append(results[p], e)
      BY <1>8, <1>11, <2>2
    <3> HIDE DEF e, V
    <3>3. Len(r) = k + 1 /\ r[k + 1] = e /\ \A i \in 1 .. k : r[i] = results[p][i]
      BY <1>2, <3>1, <3>2, AppendProperties
    <3> QED
      BY <1>3, <3>3 DEF e
  <2> QED
    BY <2>1, <2>2
<1>13. ASSUME NEW n \in 1 .. m PROVE Returns(p, U, n, r)
  <2>1. n <= Cardinality(Reads[p]) /\ n \in 1 .. Len(Tokens(T))
    <3>1. Cardinality(Reads[p]) \in Nat
      BY <1>1, <1>4, TurnIs
    <3> QED
      BY <1>2, <1>3, <3>1
  <2>2. Fit(p, T, n)
    <3>1. Cardinality(Reads[p]) \in Nat
      BY <1>1, <1>4, TurnIs
    <3>2. Turn(p, T) = m + 1
      BY <1>2, <1>3, <3>1 DEF Turn
    <3>3. \A j \in 1 .. n : j \in 1 .. m + 1
      BY <1>3
    <3> QED
      BY <1>2, <3>2, <3>3 DEF Fit
  <2>3. Returns(p, T, n, results[p])
    BY <1>1, <1>2, <2>1, <2>2 DEF WordsInv, WordsHold
  <2>4. Tokens(U)[n] = Tokens(T)[n]
    <3>1. Append(Tokens(T), W)[n] = Tokens(T)[n]
      BY <1>4, <2>1, AppendProperties
    <3> QED
      BY <1>9, <3>1
  <2> QED
    BY <1>1, <1>2, <1>3, <1>4, <1>12, <2>1, <2>3, <2>4, ReturnsStay
<1>14. CASE ~Blank(ch) /\ InBody(Step.kind, ch)
  <2> DEFINE longer == Append(W, ch)
  <2>1. fed = [phase |-> "body", text |-> longer] /\ Tokens(U) = Tokens(T) /\ Word(U) = longer
    BY <1>9, <1>10, <1>14 DEF Within
  <2>2. longer # <<>>
    BY <1>4, SMTT(60)
  <2> HIDE DEF longer
  <2>3. fed.phase = "body"
    BY <2>1
  <2>4. todo'[p] = todo[p] /\ r = results[p] /\ scan'[p] = fed
    BY <1>8, <1>11, <2>3
  <2>5. Scanning(p)'
    BY <1>1, <1>2, <1>3, <2>4 DEF Scanning, Step
  <2>6. InTurn(p)'
    <3>1. Cardinality({i \in Reads[p] : i <= Len(results[p])}) = m
      BY <1>1, <1>2 DEF WordsInv, WordsHold, InTurn
    <3> QED
      BY <1>2, <1>8, <1>11, <2>1, <2>2, <2>4, <2>5, <3>1 DEF InTurn
  <2> QED
    BY <1>2, <1>8, <1>11, <1>13, <2>1, <2>6 DEF WordsHold
<1>15. CASE ~Blank(ch) /\ ~InBody(Step.kind, ch)
  <2>1. Tokens(U) = Tokens(T) /\ Word(U) = Append(W, ch)
    BY <1>9, <1>15
  <2>2. ~Fit(p, U, Turn(p, U))
    <3>1. Cardinality(Reads[p]) \in Nat
      BY <1>1, <1>4, TurnIs
    <3>2. Turn(p, U) = m + 1 /\ Piece(U, m + 1) = Append(W, ch)
      BY <1>2, <1>3, <2>1, <3>1 DEF Turn, Piece
    <3>3. Len(Append(W, ch)) \in Nat \ {0} /\ Append(W, ch)[Len(Append(W, ch))] = ch
      BY <1>4
    <3>4. ~OfKind(Step.kind, Append(W, ch))
      BY <1>15, <3>3 DEF OfKind
    <3>5. m + 1 \in 1 .. m + 1
      BY <1>3
    <3>6. ~OfKind(Kind(p, m + 1), Piece(U, m + 1))
      BY <1>3, <3>2, <3>4
    <3> QED
      BY <3>2, <3>5, <3>6 DEF Fit
  <2> QED
    BY <1>2, <1>8, <1>11, <1>13, <2>1, <2>2 DEF WordsHold
<1>16. CASE Blank(ch) /\ W = <<>>
  <2>1. fed = Start /\ Tokens(U) = Tokens(T) /\ Word(U) = <<>>
    BY <1>9, <1>10, <1>16
  <2>2. r = results[p] /\ scan'[p] = Start
    BY <1>8, <1>11, <2>1 DEF Start
  <2>3. InTurn(p)'
    <3>1. Cardinality({i \in Reads[p] : i <= Len(results[p])}) = m
      BY <1>1, <1>2 DEF WordsInv, WordsHold, InTurn
    <3> QED
      BY <1>2, <1>8, <1>11, <2>1, <2>2, <3>1 DEF InTurn
  <2> QED
    BY <1>2, <1>8, <1>11, <1>13, <2>1, <2>3 DEF WordsHold
<1>17. CASE Blank(ch) /\ W # <<>>
  <2>1. Tokens(U) = Append(Tokens(T), W) /\ Word(U) = <<>>
    BY <1>9, <1>17
  <2>2. fed.phase = "done" /\ fed.text = W
    BY <1>10, <1>17 DEF Behind
  <2>3. scan'[p] = Start /\ Len(r) = k + 1 /\ r[k + 1] = Result(Step.kind, W)
    BY <1>8, <1>12, <2>2
  <2>4. Len(Tokens(U)) = m + 1 /\ Tokens(U)[m + 1] = W
    BY <1>2, <1>4, <2>1, AppendProperties
  <2>5. InTurn(p)'
    BY <1>3, <1>8, <1>11, <2>1, <2>3, <2>4 DEF InTurn
  <2>6. Returns(p, U, m + 1, r)
    <3>1. CASE Step.kind = "s"
      <4>1. Result(Step.kind, W) = W
        BY <3>1 DEF Result
      <4>2. Expected(p, U, m + 1) = W
        BY <1>3, <2>4, <3>1 DEF Expected
      <4> QED
        BY <1>3, <2>3, <4>1, <4>2 DEF Returns
    <3>2. CASE Step.kind \in {"d", "x"}
      <4>1. W \in Numerals(Base(Step.kind))
        <5>1. \A c \in 1 .. Len(W) : IsDigit(W[c], Base(Step.kind))
          BY <1>3, <3>2, InBodyCases DEF OfKind, Base
        <5> QED
          BY <1>4, <5>1 DEF Numerals
      <4>2. Result(Step.kind, W) = Denoted(Step.kind, W) % Modulus
        BY <3>2, <4>1, NumberDenoted DEF Result
      <4>3. Expected(p, U, m + 1) = Denoted(Step.kind, W) % Modulus
        <5>1. Step.kind # "s"
          BY <3>2
        <5> QED
          BY <1>3, <2>4, <5>1 DEF Expected
      <4> QED
        BY <1>3, <2>3, <4>2, <4>3 DEF Returns
    <3> QED
      BY <1>3, <3>1, <3>2 DEF OfKind
  <2>7. \A n \in 1 .. m + 1 : n \in 1 .. m \/ n = m + 1
    BY <1>3
  <2> QED
    BY <1>8, <1>11, <1>13, <2>4, <2>5, <2>6, <2>7 DEF WordsHold
<1> QED
  BY <1>14, <1>15, <1>16, <1>17

\* Text for a process whose pieces have ceased to fit.
LEMMA LateKeepsWords ==
  ASSUME ProgramsInv, WordsInv, Deliver, NEW p, p = current,
         ~Fit(p, taken[p], Turn(p, taken[p]))
  PROVE  WordsHold(p)'
<1>1. p \in Readers
  BY DeliverIs
<1>2. PICK text \in Seq(Characters) :
        taken' = [taken EXCEPT ![p] = @ \o text] /\ Receive(text)
  BY DeliverIs
<1>3. PICK T, U, r, m, k : /\ T = taken[p] /\ U = T \o text /\ r = results'[p]
                           /\ m = Len(Tokens(T)) /\ k = Len(results[p])
  OBVIOUS
<1>4. T \in Seq(Characters) /\ taken'[p] = U /\ U \in Seq(Characters)
  BY <1>1, <1>2, <1>3 DEF WordsInv
<1>5. /\ m \in Nat /\ Len(Tokens(U)) \in Nat
      /\ \A n \in 1 .. m : Tokens(U)[n] = Tokens(T)[n]
      /\ \A n \in Nat : Fit(p, U, n) => Fit(p, T, n)
  BY <1>3, <1>4, TokensOfPrefix
<1>6. Cardinality(Reads[p]) \in Nat /\ ~Fit(p, U, Turn(p, U))
  BY <1>1, <1>2, <1>3, <1>4, TurnIs
<1>7. k \in Nat /\ Len(r) \in Nat /\ k <= Len(r) /\ \A i \in 1 .. k : r[i] = results[p][i]
  <2>1. results \in [Readers -> Seq(Returned)]
    BY DEF ProgramsInv, StepsInv
  <2>2. \E e : r = Append(results[p], e) \/ r = results[p]
    BY <1>1, <1>2, <1>3, <2>1 DEF Receive
  <2>3. PICK e : r = Append(results[p], e) \/ r = results[p]
    BY <2>2
  <2> DEFINE V == Returned \cup {e}
  <2>4. results[p] \in Seq(V) /\ e \in V
    BY <1>1, <2>1
  <2> HIDE DEF V
  <2>5. CASE r = Append(results[p], e)
    BY <1>3, <2>4, <2>5, AppendProperties
  <2>6. CASE r = results[p]
    BY <1>3, <2>4, <2>6
  <2> QED
    BY <2>3, <2>5, <2>6
<1>8. ASSUME NEW n \in 1 .. Len(Tokens(U)), n <= Cardinality(Reads[p]), Fit(p, U, n)
      PROVE  Returns(p, U, n, r)
  <2>1. n \in 1 .. m
    <3>1. Fit(p, T, n) /\ n \in Nat
      BY <1>5, <1>8
    <3>2. SUFFICES ASSUME n > m PROVE FALSE
      BY <1>5
    <3>3. Turn(p, T) <= n /\ Turn(p, T) \in Nat
      BY <1>3, <1>5, <1>6, <1>8, <3>1, <3>2 DEF Turn
    <3>4. Fit(p, T, Turn(p, T))
      <4>1. \A j \in 1 .. Turn(p, T) : j \in 1 .. n
        BY <3>1, <3>3
      <4> QED
        BY <3>1, <4>1 DEF Fit
    <3> QED
      BY <1>3, <3>4
  <2>2. Returns(p, T, n, results[p])
    BY <1>1, <1>3, <1>5, <1>8, <2>1, SMTT(60) DEF WordsInv, WordsHold
  <2>3. n \in 1 .. Len(Tokens(T)) /\ Tokens(U)[n] = Tokens(T)[n]
    BY <1>3, <1>5, <2>1
  <2> QED
    BY <1>1, <1>3, <1>4, <1>7, <1>8, <2>2, <2>3, ReturnsStay, ZenonT(60)
<1> QED
  BY <1>3, <1>4, <1>6, <1>8 DEF WordsHold

\* A read that ends.
LEMMA DeliverKeepsWords == ProgramsInv /\ WordsInv /\ Deliver => WordsInv'
<1> SUFFICES ASSUME ProgramsInv, WordsInv, Deliver PROVE WordsInv'
  OBVIOUS
<1> PICK p : p = current
  OBVIOUS
<1>1. p \in Readers
  BY DeliverIs
<1>2. PICK text \in Seq(Characters) :
        taken' = [taken EXCEPT ![p] = @ \o text] /\ Receive(text)
  BY DeliverIs
<1>3. /\ scan \in [Readers -> [phase : {"skip", "body"}, text : Seq(Characters)]]
      /\ todo \in [Readers -> Seq(AllSteps)] /\ results \in [Readers -> Seq(Returned)]
      /\ taken \in [Readers -> Seq(Characters)]
  BY DEF ProgramsInv, CInv, ReadInv, StepsInv, ScanInv, WordsInv
<1>4. taken' \in [Readers -> Seq(Characters)]
  <2>1. taken[p] \o text \in Seq(Characters)
    BY <1>1, <1>3
  <2> QED
    BY <1>2, <1>3, <2>1
<1>5. WordsHold(p)'
  BY TurnKeepsWords, LateKeepsWords
<1>6. ASSUME NEW q \in Readers, q # p PROVE WordsHold(q)'
  <2>1. /\ taken'[q] = taken[q] /\ results'[q] = results[q] /\ scan'[q] = scan[q]
        /\ todo'[q] = todo[q] /\ WordsHold(q)
    BY <1>2, <1>3, <1>6 DEF WordsInv, Receive
  <2> QED
    BY <2>1, OthersKeepWords
<1> QED
  BY <1>4, <1>5, <1>6 DEF WordsInv

\* Every step.
LEMMA StepsKeepWords == ProgramsInv /\ WordsInv /\ [Next]_vars => WordsInv'
<1> SUFFICES ASSUME ProgramsInv, WordsInv, [Next]_vars PROVE WordsInv'
  OBVIOUS
<1>1. ASSUME UNCHANGED <<taken, results, scan, todo>> PROVE WordsInv'
  <2>1. ASSUME NEW p \in Readers PROVE WordsHold(p)'
    <3>1. /\ taken'[p] = taken[p] /\ results'[p] = results[p] /\ scan'[p] = scan[p]
          /\ todo'[p] = todo[p] /\ WordsHold(p)
      BY <1>1 DEF WordsInv
    <3> QED
      BY <3>1, OthersKeepWords
  <2> QED
    BY <1>1, <2>1 DEF WordsInv
<1>2. CASE UNCHANGED vars \/ Read \/ Wait \/ Timer
  BY <1>1, <1>2 DEF vars, Read, Wait, Timer
<1>3. ASSUME NEW code \in ScanCodes, Keyboard(code) PROVE WordsInv'
  BY <1>1, <1>3 DEF Keyboard
<1> QED
  BY <1>2, <1>3, PrintKeepsWords, DeliverKeepsWords DEF Next, WaitLoop

\* Reads and tokens keep in step as long as what is typed fits what is asked
\* for, across all interrupts and changes of the process (read_aux, scan_string,
\* scan_dec, scan_hex).
THEOREM InductiveWords == Spec => [](ProgramsInv /\ WordsInv)
<1> QED
  BY ProgramsStart, WordsStart, StepsKeepPrograms, StepsKeepWords, PTL DEF Spec

\* The n-th word or number a process asks for is the n-th of its characters
\* (scan_string, scan_dec, scan_hex).
THEOREM ReadsGetTokens == Spec => []WordsAreTokens
<1>1. WordsInv => WordsAreTokens
  <2> SUFFICES ASSUME WordsInv, NEW p \in Readers, NEW n \in 1 .. Len(Tokens(taken[p])),
                      n <= Cardinality(Reads[p]),
                      \A j \in 1 .. n : OfKind(Kind(p, j), Tokens(taken[p])[j])
               PROVE  Returns(p, taken[p], n, results[p])
    BY DEF WordsAreTokens, Returns, Expected, Kind, OfKind
  <2>1. Len(Tokens(taken[p])) \in Nat
    <3>1. taken[p] \in Seq(Characters)
      BY DEF WordsInv
    <3> QED
      BY <3>1, TokensAre
  <2>2. \A j \in 1 .. n : Piece(taken[p], j) = Tokens(taken[p])[j]
    BY <2>1 DEF Piece
  <2>3. Fit(p, taken[p], n)
    BY <2>2 DEF Fit
  <2> QED
    BY <2>3 DEF WordsInv, WordsHold
<1> QED
  BY <1>1, InductiveWords, PTL

=============================================================================
