------------------------------- MODULE MCReader -------------------------------
(***************************************************************************)
(* Reader for TLC: every text over alphabets that belong together.         *)
(***************************************************************************)
EXTENDS Grammar

Texts(chars, length) ==
    [streams |-> {"file"}, strings |-> {}, chars |-> chars, length |-> length, breaks |-> FALSE]

MCInputs ==
    { Texts({"1", "0", "-", "+", ".", "e", " "}, 5),        \* numbers
      Texts({"(", ")", "\\", "n", "x", "LF"}, 4),           \* strings
      Texts({"/", "*", "%", "a", "LF", "CR"}, 4),           \* literals and comments
      Texts({"{", "}", "[", "1", "LF", ")"}, 4),            \* procedures
      Texts({"{", "}", "a"}, 7),                            \* deep ones
      [streams |-> {"file", "cin"}, strings |-> {}, chars |-> {"a", "LF"}, length |-> 3, breaks |-> TRUE],
      [streams |-> {"file", "cin"}, strings |-> {}, chars |-> {"a", "{", "}"}, length |-> 2, breaks |-> FALSE],
      [streams |-> {"string"}, strings |-> {"string"}, chars |-> {"a", "{", "}"}, length |-> 4, breaks |-> FALSE],
      [streams |-> {"file", "string"}, strings |-> {"string"}, chars |-> {"a", "LF"}, length |-> 2,
       breaks |-> FALSE] }
===============================================================================
