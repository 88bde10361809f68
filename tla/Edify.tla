------------------------------- MODULE Edify -------------------------------
(***************************************************************************)
(* The evaluator of edify, the language of update scripts.  An expression   *)
(* is a tree of calls; Evaluate() recurses over it, so the state of the     *)
(* evaluator is the path from the root to the call being evaluated and, for  *)
(* every call on it, the values of the arguments evaluated so far.           *)
(*                                                                           *)
(* A string is a sequence of symbols: a word of the script, a number, a      *)
(* component of a path.  "" is <<>>, + is concatenation.                     *)
(***************************************************************************)
EXTENDS Integers, Sequences, SequencesExt

CONSTANTS
    Scripts,      \* The parsed scripts, by name.
    IntOf         \* The number that strtol() reads from a symbol, where it reads one.

VARIABLES
    script,       \* The script that is evaluated.
    at,           \* The argument positions from the root to the current call.
    vals,         \* For the root and every call on the path: its argument values so far.
    unwinding,    \* The current call has returned NULL.
    errmsg,       \* state->errmsg, by its cause.
    result,       \* What Evaluate() of the root returned.
    printed       \* What was written to stdout.

evalVars == <<script, at, vals, unwinding, errmsg, result, printed>>

Fn(f, args) == [fn |-> f, name |-> <<>>, args |-> args]
Lit(s) == [fn |-> "Literal", name |-> s, args |-> <<>>]

NULL == [type |-> "NULL", data |-> <<>>]
StringValue(s) == [type |-> "string", data |-> s]
Blob(d) == [type |-> "blob", data |-> d]
Nothing == [type |-> "none", data |-> <<>>]

BooleanString(v) == v.data # <<>>
Truth(b) == StringValue(IF b THEN <<"t">> ELSE <<>>)
IsInt(v) == Len(v.data) = 1 /\ v.data[1] \in DOMAIN IntOf
Number(v) == IntOf[v.data[1]]

\* What a function does next: evaluate an argument, return, or fail with a message.
Eval(i) == [do |-> "eval", arg |-> i, val |-> NULL, msg |-> "-"]
Ret(v) == [do |-> "return", arg |-> 0, val |-> v, msg |-> "-"]
Err(m) == [do |-> "return", arg |-> 0, val |-> NULL, msg |-> m]

\* ReadArgs(), ReadVarArgs(): n arguments from left to right, then r.
ReadArgs(n, v, r) == IF Len(v) < n THEN Eval(Len(v) + 1) ELSE r

-----------------------------------------------------------------------------
(* The builtin functions, for argc arguments of which v are evaluated. *)

IfElseFn(argc, v) ==
    IF argc \notin {2, 3} THEN Err("args")
    ELSE IF v = <<>> THEN Eval(1)
    ELSE IF Len(v) = 2 THEN Ret(v[2])
    ELSE IF BooleanString(v[1]) THEN Eval(2)
    ELSE IF argc = 3 THEN Eval(3)
    ELSE Ret(v[1])

AbortFn(argc, v) ==
    IF argc > 0 /\ v = <<>> THEN Eval(1)
    ELSE Err(IF v = <<>> THEN "called abort()" ELSE "message")

AssertFn(argc, v) ==
    IF v # <<>> /\ ~BooleanString(Last(v)) THEN Err("assert failed")
    ELSE ReadArgs(argc, v, Ret(StringValue(<<>>)))

ConcatFn(argc, v) ==
    ReadArgs(argc, v,
        Ret(StringValue(FoldLeft(LAMBDA s, x : s \o x.data, <<>>, v))))

SubstringFn(v) ==
    ReadArgs(2, v,
        LET n == v[1].data  h == v[2].data
        IN Ret(Truth(\E i \in 0..(Len(h) - Len(n)) : SubSeq(h, i + 1, i + Len(n)) = n)))

StdoutFn(argc, v) == ReadArgs(argc, v, Ret(StringValue(<<>>)))

SleepFn(v) == ReadArgs(1, v, Ret(v[1]))

LessThanIntFn(argc, v) ==
    IF argc # 2 THEN Err("args")
    ELSE ReadArgs(2, v,
             Ret(Truth(IsInt(v[1]) /\ IsInt(v[2]) /\ Number(v[1]) < Number(v[2]))))

\* LessThanIntFn() with the arguments exchanged: the second is evaluated first.
GreaterThanIntFn(argc, v) ==
    IF argc # 2 THEN Err("args")
    ELSE IF Len(v) < 2 THEN Eval(2 - Len(v))
    ELSE LessThanIntFn(2, v)

LogicalAndFn(v) ==
    IF v = <<>> THEN Eval(1)
    ELSE IF Len(v) = 2 THEN Ret(v[2])
    ELSE IF BooleanString(v[1]) THEN Eval(2) ELSE Ret(v[1])

LogicalOrFn_eager(v) ==
    IF Len(v) < 2 THEN Eval(Len(v) + 1)
    ELSE Ret(IF BooleanString(v[1]) THEN v[1] ELSE v[2])

LogicalOrFn(v) ==
    IF v = <<>> THEN Eval(1)
    ELSE IF Len(v) = 2 THEN Ret(v[2])
    ELSE IF BooleanString(v[1]) THEN Ret(v[1]) ELSE Eval(2)

LogicalNotFn(v) == ReadArgs(1, v, Ret(Truth(~BooleanString(v[1]))))

EqualityFn(v) == ReadArgs(2, v, Ret(Truth(v[1] = v[2])))

InequalityFn(v) == ReadArgs(2, v, Ret(Truth(v[1] # v[2])))

SequenceFn(v) == ReadArgs(2, v, Ret(v[2]))

\* RegisterBuiltins(), and the operators that the parser builds.
Builtins ==
    {"Literal", "ifelse", "abort", "assert", "concat", "is_substring", "stdout", "sleep",
     "less_than_int", "greater_than_int", "&&", "||", "!", "==", "!=", ";"}

CallBuiltin(e, v) ==
    LET argc == Len(e.args) IN
    CASE e.fn = "Literal" -> Ret(StringValue(e.name))
      [] e.fn = "ifelse" -> IfElseFn(argc, v)
      [] e.fn = "abort" -> AbortFn(argc, v)
      [] e.fn = "assert" -> AssertFn(argc, v)
      [] e.fn = "concat" -> ConcatFn(argc, v)
      [] e.fn = "is_substring" -> SubstringFn(v)
      [] e.fn = "stdout" -> StdoutFn(argc, v)
      [] e.fn = "sleep" -> SleepFn(v)
      [] e.fn = "less_than_int" -> LessThanIntFn(argc, v)
      [] e.fn = "greater_than_int" -> GreaterThanIntFn(argc, v)
      [] e.fn = "&&" -> LogicalAndFn(v)
      [] e.fn = "||" -> LogicalOrFn(v)
      [] e.fn = "!" -> LogicalNotFn(v)
      [] e.fn = "==" -> EqualityFn(v)
      [] e.fn = "!=" -> InequalityFn(v)
      [] e.fn = ";" -> SequenceFn(v)

-----------------------------------------------------------------------------
(* The recursion of Evaluate() and EvaluateValue(). *)

Node(path) == FoldLeft(LAMBDA e, i : e.args[i], Scripts[script], path)
Here == Node(at)
Given == Last(vals)          \* The argument values of the current call.
Parent == Node(Front(at))

\* Whether argument i of f may be any value (EvaluateValue()) or has to be a string.
TakesValue(f, i) ==
    \/ f \in {";", "sha1_check"}
    \/ f \in {"ifelse", "&&", "||"} /\ i > 1
    \/ f = "apply_patch" /\ i > 4

Evaluating == result = Nothing /\ ~unwinding

\* stdout() prints an argument when it has its value.
Prints(f, v) == printed' = IF f = "stdout" THEN printed \o v.data ELSE printed

\* expr->fn evaluates its argument i: Literal() returns at once.
Descend(i) ==
    /\ IF Here.args[i].fn = "Literal"
       THEN LET v == StringValue(Here.args[i].name) IN
            /\ vals' = [vals EXCEPT ![Len(vals)] = Append(@, v)]
            /\ Prints(Here.fn, v) /\ UNCHANGED at
       ELSE at' = Append(at, i) /\ vals' = Append(vals, <<>>) /\ UNCHANGED printed
    /\ UNCHANGED <<script, unwinding, errmsg, result>>

\* The current call returns NULL, with or without ErrorAbort().
Fails(m) ==
    /\ unwinding' = TRUE
    /\ errmsg' = IF m = "-" THEN errmsg ELSE m
    /\ UNCHANGED <<script, at, vals, result, printed>>

\* The current call returns v: to main(), or to the call above, which has one more value
\* and prints it if it is stdout().
Returns(v) ==
    IF v.type # "string" /\ (at = <<>> \/ ~TakesValue(Parent.fn, Last(at))) THEN Fails("type")
    ELSE IF at = <<>> THEN
        /\ result' = v
        /\ UNCHANGED <<script, at, vals, unwinding, errmsg, printed>>
    ELSE
        /\ at' = Front(at)
        /\ vals' = [Front(vals) EXCEPT ![Len(at)] = Append(@, v)]
        /\ Prints(Parent.fn, v)
        /\ UNCHANGED <<script, unwinding, errmsg, result>>

CallsBuiltin ==
    /\ Evaluating /\ Here.fn \in Builtins
    /\ LET s == CallBuiltin(Here, Given) IN
       IF s.do = "eval" THEN Descend(s.arg)
       ELSE IF s.val = NULL THEN Fails(s.msg)
       ELSE Returns(s.val)

\* A NULL argument makes the function return NULL; abort() has a message of its own then.
Unwind ==
    /\ unwinding
    /\ IF at = <<>> THEN
           result' = NULL /\ unwinding' = FALSE /\ UNCHANGED <<at, vals, errmsg>>
       ELSE
           /\ at' = Front(at) /\ vals' = Front(vals)
           /\ errmsg' = IF Parent.fn = "abort" THEN "called abort()" ELSE errmsg
           /\ UNCHANGED <<unwinding, result>>
    /\ UNCHANGED <<script, printed>>

\* yyparse() succeeded and main() calls Evaluate() with a fresh State.
StartsEvaluating ==
    /\ at' = <<>> /\ vals' = <<<<>>>> /\ unwinding' = FALSE /\ errmsg' = "NULL"
    /\ result' = Nothing /\ printed' = <<>> /\ UNCHANGED script

EvalInit ==
    /\ script \in DOMAIN Scripts
    /\ at = <<>> /\ vals = <<<<>>>> /\ unwinding = FALSE /\ errmsg = "NULL"
    /\ result = Nothing /\ printed = <<>>

EvalTypeOK ==
    /\ script \in DOMAIN Scripts
    /\ at \in Seq(Nat)
    /\ unwinding \in BOOLEAN
    /\ errmsg \in {"NULL", "args", "called abort()", "message", "assert failed", "type", "call"}
    /\ result.type \in {"none", "NULL", "string"}

=============================================================================
