----------------------------- MODULE MCConsole -----------------------------
(* A small instance of Console.tla: one process reads two numbers, prints     *)
(* them, lists a directory and reads a line; the other reads a word, prints a *)
(* file that holds a zero byte and reads two characters at once and one.      *)
EXTENDS Console

MCCharacters ==
  {Space, "\n", "\t", "-", "%", "=", "NUL"} \cup ToSet(letters) \cup ToSet(Digits)

MCControls == {"NUL", "BS", "\t", "\r", "\n"}

MCPrograms ==
  <<<<[fn |-> "scanf", format |-> <<"%", Space, "d", "=", "%", "x">>],
      [fn |-> "printf", format |-> <<"%", "d", "\t", "%", "x", "%", "%", "\n">>,
       args |-> <<[result |-> 1], [result |-> 3]>>],
      [fn |-> "ls", args |-> <<<<"t", "o">>>>],
      [fn |-> "gets"]>>,
    <<[fn |-> "scanf", format |-> <<"%", "s">>],
      [fn |-> "cat", args |-> <<"q", "NUL", "t">>],
      [fn |-> "read", len |-> 2],
      [fn |-> "getchar"]>>>>
=============================================================================
