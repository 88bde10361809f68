---------------------------- MODULE EdifyReadme ----------------------------
(***************************************************************************)
(* What an expression means, as edify/README describes the language: its     *)
(* value, NULL if it is aborted, and what it prints; and that the evaluator   *)
(* gives it this meaning.                                                    *)
(***************************************************************************)
EXTENDS Updater

RECURSIVE Meaning(_)

\* The second meaning after the first, unless the first is aborted.
Then(m, n) == IF m.val = NULL THEN m ELSE [val |-> n.val, out |-> m.out \o n.out]
Is_true(m) == m.val # NULL /\ m.val.data # <<>>
Word(s) == [val |-> StringValue(s), out |-> <<>>]
Aborted == [val |-> NULL, out |-> <<>>]

\* A strict function of two strings.
Of2(a, b, Op(_, _)) ==
    Then(a, Then(b, Word(IF a.val = NULL \/ b.val = NULL THEN <<>> ELSE Op(a.val.data, b.val.data))))

Meaning(e) ==
    LET arg(i) == Meaning(e.args[i])
        n == Len(e.args)
        rest == Meaning([e EXCEPT !.args = Tail(@)])
        word(b) == IF b THEN <<"t">> ELSE <<>>
        number(x) == Len(x) = 1 /\ x[1] \in DOMAIN IntOf
        less(x, y) == word(number(x) /\ number(y) /\ IntOf[x[1]] < IntOf[y[1]])
    IN CASE e.fn = "Literal" -> Word(e.name)
         [] e.fn = "abort" -> IF n = 0 THEN Aborted ELSE [Aborted EXCEPT !.out = arg(1).out]
         [] e.fn = "ifelse" ->
                IF n \notin 2..3 THEN Aborted
                ELSE Then(arg(1), IF Is_true(arg(1)) THEN arg(2) ELSE IF n = 3 THEN arg(3) ELSE Word(<<>>))
         [] e.fn = "&&" -> IF Is_true(arg(1)) THEN Then(arg(1), arg(2)) ELSE arg(1)
         [] e.fn = "||" -> IF Is_true(arg(1)) THEN arg(1) ELSE Then(arg(1), arg(2))
         [] e.fn = ";" -> Then(arg(1), arg(2))
         [] e.fn = "assert" ->
                IF n = 0 THEN Word(<<>>)
                ELSE Then(Meaning(Fn("ifelse", <<e.args[1], Lit(<<>>), Fn("abort", <<>>)>>)), rest)
         [] e.fn = "concat" -> IF n = 0 THEN Word(<<>>) ELSE Of2(arg(1), rest, \o)
         [] e.fn = "stdout" ->
                IF n = 0 THEN Word(<<>>)
                ELSE Then(Then(arg(1), [val |-> arg(1).val, out |-> arg(1).val.data]), rest)
         [] e.fn = "!" -> Then(arg(1), Word(word(~Is_true(arg(1)))))
         [] e.fn = "sleep" -> arg(1)
         [] e.fn = "==" -> Of2(arg(1), arg(2), LAMBDA x, y : word(x = y))
         [] e.fn = "!=" -> Of2(arg(1), arg(2), LAMBDA x, y : word(x # y))
         [] e.fn = "is_substring" ->
                Of2(arg(1), arg(2), LAMBDA x, y : word(\E p \in 1..(Len(y) + 1), q \in 0..Len(y) : SubSeq(y, p, q) = x))
         [] e.fn = "less_than_int" -> IF n # 2 THEN Aborted ELSE Of2(arg(1), arg(2), less)
         [] e.fn = "greater_than_int" -> IF n # 2 THEN Aborted ELSE Of2(arg(2), arg(1), less)

\* Evaluate(): the value and the output of a script are what the README of edify says, and
\* the value is what the tests of edify expect.
Documented ==
    program = "edify" /\ result # Nothing =>
        /\ result = Meaning(Scripts[script]).val /\ printed = Meaning(Scripts[script]).out
        /\ script \in DOMAIN Expected => result = Expected[script]
=============================================================================
