------------------------------- MODULE Edify -------------------------------
(***************************************************************************)
(* The edify interpreter (edify/expr.c, parser.y) and the functions the    *)
(* updater gives it (updater/install.c, updater.c).  A script is one       *)
(* expression.  A function gets its arguments unevaluated, evaluates those *)
(* it wants and returns a value, or NULL to abort the whole script.        *)
(*                                                                         *)
(* A string is "empty" (false) or "text" (true).  The other values are     *)
(* "blob", "no blob" (a blob without contents), "no data" (a string        *)
(* without contents), NULL, and "crash": the updater is killed by a signal *)
(* or reads what it never wrote.  What a function does to the device is an *)
(* entry of the log; which of its outcomes the device gives is part of the *)
(* expression, as `outcome'.                                               *)
(***************************************************************************)
EXTENDS Integers, Sequences, SequencesExt

CONSTANTS MaxArgs,     \* bound: arguments of one call
          MaxReduces   \* bound: calls nested in a script

ASSUME EdifyAssumption == MaxArgs \in Nat /\ MaxArgs >= 4 /\ MaxReduces \in Nat

VARIABLES exprs,     \* the expressions built so far; the last one is the root
          reduces
edifyVars == <<exprs, reduces>>

NULL == "null"
Aborted == {NULL, "crash"}

----------------------------------------------------------------------------
(* The functions, by how they check their arguments and what they return.  *)
(*   argc      the argument counts accepted; another gives `miscounted'    *)
(*   reads     arguments beyond these are never evaluated                  *)
(*   swaps     the two arguments are evaluated from right to left          *)
(*   split     the arguments up to here are read and checked, then others  *)
(*   first, later   what a NULL argument up to `split', or after it, gives *)
(*   values    arguments that are not read as strings; of these `strings'  *)
(*             must be strings and `blobs' must be blobs                   *)
(*   nonempty  arguments that may not be the empty string                  *)
(*   outcomes  what it may return then; "arg" is its argument number `arg' *)
(*             and "refused" the end of a call after the first arguments   *)
Fn == [argc |-> 0..MaxArgs, miscounted |-> NULL, reads |-> MaxArgs, swaps |-> FALSE,
       split |-> MaxArgs, first |-> NULL, later |-> NULL, values |-> {}, strings |-> {},
       blobs |-> {}, nonempty |-> {}, arg |-> 1, outcomes |-> {"text", "empty"}]

MountFn == [Fn EXCEPT !.argc = {4}, !.nonempty = 1..4, !.arg = 4,
                      !.outcomes = {"arg", "empty"}]
IsMountedFn == [Fn EXCEPT !.argc = {1}, !.nonempty = {1}, !.outcomes = {"arg", "empty"}]
UnmountFn == [Fn EXCEPT !.argc = {1}, !.nonempty = {1}, !.outcomes = {"arg", "empty"}]
\* mount_point is used and never read from the arguments.
FormatFn == [Fn EXCEPT !.argc = {4}, !.nonempty = 1..3, !.arg = 3,
                       !.outcomes = {"arg", "empty", NULL, "crash"}]
\* The clean-up loop of line 227 frees one string for ever.
DeleteFn == [Fn EXCEPT !.split = 1, !.later = "crash", !.outcomes = {"text"}]
ShowProgressFn == [Fn EXCEPT !.argc = {2}, !.outcomes = {"arg"}]
SetProgressFn == [Fn EXCEPT !.argc = {1}, !.outcomes = {"arg"}]
PackageExtractDirFn == [Fn EXCEPT !.argc = {2}]
\* With a destination, and without one.
PackageExtractFileFn == [Fn EXCEPT !.argc = {2}]
PackageContentsFn == [Fn EXCEPT !.argc = {1}, !.outcomes = {"blob", "no blob"}]
\* A library that cannot be retouched leaves an error message and a string without data.
RetouchFn == [Fn EXCEPT !.first = "text", !.later = "text", !.outcomes = {"text", "no data"}]
SymlinkFn == [Fn EXCEPT !.argc = 1..MaxArgs, !.outcomes = {"empty"}]
SetPermFn == [Fn EXCEPT !.argc = 4..MaxArgs, !.outcomes = {"empty", NULL}]
SetPermRecursiveFn == [SetPermFn EXCEPT !.argc = 5..MaxArgs]
GetPropFn == [Fn EXCEPT !.argc = {1}]
\* A file without a line makes it read through the NULL of strtok().
FileGetPropFn == [Fn EXCEPT !.argc = 2..MaxArgs, !.miscounted = "crash", !.reads = 2,
                            !.outcomes = {"text", "empty", NULL, "crash"}]
ApplyPatchSpaceFn == [Fn EXCEPT !.argc = 1..MaxArgs, !.miscounted = "crash", !.reads = 1,
                                !.outcomes = {"text", "empty", NULL}]
\* A size that is no number is refused before the patches are read; these are used without
\* a look at whether they could be read.
ApplyPatchFn == [Fn EXCEPT !.argc = {n \in 6..MaxArgs : n % 2 = 0}, !.nonempty = {4},
                           !.split = 4, !.later = "crash", !.values = 5..MaxArgs,
                           !.strings = {n \in 5..MaxArgs : n % 2 = 1},
                           !.blobs = {n \in 6..MaxArgs : n % 2 = 0},
                           !.outcomes = {"text", "empty", "refused"}]
ApplyPatchCheckFn == [Fn EXCEPT !.argc = 1..MaxArgs, !.split = 1, !.later = "crash"]
UIPrintFn == Fn
WipeCacheFn == [Fn EXCEPT !.argc = {0}, !.outcomes = {"text"}]
\* Mutant: the arguments are used without a look at whether they could be read.
RunProgramFn_Mutant == [Fn EXCEPT !.argc = 1..MaxArgs, !.first = "crash", !.outcomes = {"text"}]

\* Whatever becomes of the program, its status is some text.
RunProgramFn == [Fn EXCEPT !.argc = 1..MaxArgs, !.outcomes = {"text"}]
Sha1CheckFn == [Fn EXCEPT !.argc = 1..MaxArgs, !.values = 1..MaxArgs]
ReadFileFn == [Fn EXCEPT !.argc = {1}, !.outcomes = {"blob", NULL}]
SleepFn == [Fn EXCEPT !.argc = 1..MaxArgs, !.miscounted = "crash", !.reads = 1,
                      !.outcomes = {"arg"}]
StdoutFn == [Fn EXCEPT !.outcomes = {"empty"}]
SubstringFn == [Fn EXCEPT !.argc = 2..MaxArgs, !.miscounted = "crash", !.reads = 2]
LessThanIntFn == [Fn EXCEPT !.argc = {2}]
GreaterThanIntFn == [LessThanIntFn EXCEPT !.swaps = TRUE]

\* RegisterFunction() for each of them, and FindFunction().
FunctionTable ==
  [mount |-> MountFn, is_mounted |-> IsMountedFn, unmount |-> UnmountFn,
   format |-> FormatFn, delete |-> DeleteFn, show_progress |-> ShowProgressFn,
   set_progress |-> SetProgressFn, package_extract_dir |-> PackageExtractDirFn,
   package_extract_file |-> PackageExtractFileFn,
   package_contents |-> PackageContentsFn, retouch_binaries |-> RetouchFn,
   symlink |-> SymlinkFn, set_perm |-> SetPermFn,
   set_perm_recursive |-> SetPermRecursiveFn, getprop |-> GetPropFn,
   file_getprop |-> FileGetPropFn, apply_patch_space |-> ApplyPatchSpaceFn,
   apply_patch |-> ApplyPatchFn, apply_patch_check |-> ApplyPatchCheckFn,
   ui_print |-> UIPrintFn, wipe_cache |-> WipeCacheFn, run_program |-> RunProgramFn,
   sha1_check |-> Sha1CheckFn, read_file |-> ReadFileFn, sleep |-> SleepFn,
   stdout |-> StdoutFn, is_substring |-> SubstringFn, less_than_int |-> LessThanIntFn,
   greater_than_int |-> GreaterThanIntFn]

Registered == DOMAIN FunctionTable

----------------------------------------------------------------------------
(* Evaluation.  A result is the value and the log of what was done.        *)
Result(value, log) == [value |-> value, log |-> log]

\* A function that gives up of its own accord leaves a mark in the log.
Ends(value, log) ==
  Result(value, IF value \in Aborted \cup {"no data"} THEN Append(log, "abort") ELSE log)

\* Evaluate() is EvaluateValue() for those who need a string: what it makes of a result r.
Evaluate(r) ==
  IF r.value \in {"blob", "no blob"} THEN Ends(NULL, r.log)
  ELSE IF r.value = "no data" THEN Result(NULL, r.log)
  ELSE r

\* The functions below take the results rs their arguments give when they are evaluated; an
\* argument that is not evaluated adds nothing to the log.

\* ReadArgs(), ReadVarArgs(), ReadValueArgs() and ReadValueVarArgs(): from left to right,
\* up to the first that gives NULL; `failed' is its number, or 0.
ReadArgs(rs, values) ==
  LET read == [i \in DOMAIN rs |-> IF i \in values THEN rs[i] ELSE Evaluate(rs[i])]
      bad == {i \in DOMAIN rs : read[i].value \in Aborted}
      failed == IF bad = {} THEN 0 ELSE CHOOSE i \in bad : \A j \in bad : i <= j
      last == IF failed = 0 THEN Len(rs) ELSE failed
  IN [failed |-> failed,
      vals |-> [i \in 1..last |-> read[i].value],
      log |-> FlattenSeq([i \in 1..last |-> read[i].log])]

\* The first n of them, if there are so many.
UpTo(rs, n) == SubSeq(rs, 1, IF n < Len(rs) THEN n ELSE Len(rs))

\* What a call gives whose argument number a.failed is NULL, or killed the updater.
Failed(a, value) == Result(IF a.vals[a.failed] = "crash" THEN "crash" ELSE value, a.log)

Call(e, rs) ==
  LET f == FunctionTable[e.fn]
      args == IF f.swaps THEN Reverse(rs) ELSE UpTo(rs, f.reads)
      h == ReadArgs(UpTo(args, f.split), f.values)
      a == ReadArgs(args, f.values)
  IN IF Len(rs) \notin f.argc THEN Ends(f.miscounted, <<>>)
     ELSE IF h.failed > 0 THEN Failed(h, f.first)
     ELSE IF \/ e.outcome = "refused"
             \/ \E i \in DOMAIN h.vals \cap f.nonempty : h.vals[i] = "empty"
          THEN Ends(NULL, h.log)
     ELSE IF a.failed > 0 THEN Failed(a, f.later)
     ELSE IF \/ \E i \in DOMAIN a.vals \cap f.strings : a.vals[i] \in {"blob", "no blob"}
             \/ \E i \in DOMAIN a.vals \cap f.blobs : a.vals[i] \notin {"blob", "no blob"}
          THEN Ends(NULL, a.log)
     ELSE Ends(IF e.outcome = "arg" THEN a.vals[f.arg] ELSE e.outcome, Append(a.log, e.fn))

\* The right operand after the left one.
Then(left, right) == Result(right.value, left.log \o right.log)

SequenceFn_Mutant(rs) == Then(rs[1], rs[2])

SequenceFn(rs) == IF rs[1].value \in Aborted THEN rs[1] ELSE Then(rs[1], rs[2])

LogicalAndFn(rs) ==
  LET left == Evaluate(rs[1]) IN
  IF left.value = "text" THEN Then(left, rs[2]) ELSE left

LogicalOrFn(rs) ==
  LET left == Evaluate(rs[1]) IN
  IF left.value = "empty" THEN Then(left, rs[2]) ELSE left

IfElseFn(rs) ==
  LET cond == Evaluate(rs[1]) IN
  IF Len(rs) \notin {2, 3} THEN Ends(NULL, <<>>)
  ELSE IF cond.value = "text" THEN Then(cond, rs[2])
  ELSE IF cond.value = "empty" /\ Len(rs) = 3 THEN Then(cond, rs[3])
  ELSE cond

\* The message is evaluated first, and a message that aborts does not change the outcome.
AbortFn(rs) ==
  LET msg == ReadArgs(UpTo(rs, 1), {}) IN
  IF msg.failed > 0 /\ msg.vals[msg.failed] = "crash" THEN Result("crash", msg.log)
  ELSE Ends(NULL, msg.log)

\* One operand after the other, as long as they are true.
AssertFn(rs) ==
  LET read == [i \in DOMAIN rs |-> Evaluate(rs[i])]
      bad == {i \in DOMAIN rs : read[i].value # "text"}
      first == CHOOSE i \in bad : \A j \in bad : i <= j
      log(n) == FlattenSeq([i \in 1..n |-> read[i].log])
  IN IF bad = {} THEN Result("empty", log(Len(rs)))
     ELSE IF read[first].value = "empty" THEN Ends(NULL, log(first))
     ELSE Result(read[first].value, log(first))

\* ConcatFn, EqualityFn, InequalityFn and LogicalNotFn read all their operands; of two
\* texts the expression says whether they are the same.
Equal(vals, outcome) == vals[1] = vals[2] /\ (vals[1] = "empty" \/ outcome = "text")
Truth(b) == IF b THEN "text" ELSE "empty"

StrictFn(e, rs) ==
  LET a == ReadArgs(rs, {}) IN
  IF a.failed > 0 THEN Result(a.vals[a.failed], a.log)
  ELSE Result(Truth(CASE e.fn = "+"  -> \E i \in DOMAIN a.vals : a.vals[i] = "text"
                      [] e.fn = "==" -> Equal(a.vals, e.outcome)
                      [] e.fn = "!=" -> ~Equal(a.vals, e.outcome)
                      [] e.fn = "!"  -> a.vals[1] = "empty"), a.log)

\* expr->fn(expr->name, state, expr->argc, expr->argv).
Apply(e, rs) ==
  CASE e.fn = "literal" -> Result(e.outcome, <<>>)
    [] e.fn = ";" -> SequenceFn(rs)
    [] e.fn = "&&" -> LogicalAndFn(rs)
    [] e.fn = "||" -> LogicalOrFn(rs)
    [] e.fn = "ifelse" -> IfElseFn(rs)
    [] e.fn = "abort" -> AbortFn(rs)
    [] e.fn = "assert" -> AssertFn(rs)
    [] e.fn \in {"+", "==", "!=", "!"} -> StrictFn(e, rs)
    [] e.fn \in Registered -> Call(e, rs)

\* The result of each of the expressions es.  Build() makes an expression of others that are
\* there already, so argv points to earlier ones.
EvaluateValue(es) ==
  LET value[i \in DOMAIN es] ==
        Apply(es[i], [k \in DOMAIN es[i].argv |-> value[es[i].argv[k]]])
  IN value

\* main() of the updater: status 7 for a script that aborts; -1 is death by a signal.
Status(value) == CASE value = "crash" -> -1 [] value = NULL -> 7 [] OTHER -> 0

----------------------------------------------------------------------------
(* The parser builds a call around what it has read so far; its other       *)
(* operands are calls whose execution shows in the log.                    *)
Expr(fn, argv, outcome) == [fn |-> fn, argv |-> argv, outcome |-> outcome]

\* The other operands: wipe_cache(), and a blob where one is due.
Operands == <<Expr("literal", <<>>, "text"), Expr("read_file", <<1>>, "blob"),
              Expr("wipe_cache", <<>>, "text")>>
Operand(blob) == IF blob THEN 2 ELSE 3

EdifyInit ==
  /\ reduces = 0
  /\ \E text \in {"text", "empty"} : exprs = Append(Operands, Expr("literal", <<>>, text))

Around(fn, argc, at, blobs, outcome) ==
  /\ reduces < MaxReduces /\ reduces' = reduces + 1
  /\ exprs' = Append(exprs, Expr(fn,
       [i \in 1..argc |-> IF i = at THEN Len(exprs) ELSE Operand(i \in blobs)], outcome))

Build ==
  \/ \E fn \in {";", "&&", "||", "+"}, at \in 1..2 : Around(fn, 2, at, {}, "text")
  \/ \E fn \in {"==", "!="}, at \in 1..2, o \in {"text", "empty"} : Around(fn, 2, at, {}, o)
  \/ Around("!", 1, 1, {}, "text")
  \/ \E argc \in 2..3 : \E at \in 1..argc : Around("ifelse", argc, at, {}, "text")

BuildCall ==
  \/ \E argc \in 0..3 : \E fn \in {"abort", "assert", "ifelse"}, at \in {1, argc} :
       Around(fn, argc, at, {}, "text")
  \/ \E argc \in 0..MaxArgs, fn \in Registered :
       LET f == FunctionTable[fn] IN
       /\ argc = 0 \/ argc \in f.argc \ {3, 5}
       /\ \E at \in 0..argc \cap {1, argc, f.split, f.split + 1}, o \in f.outcomes :
            Around(fn, argc, at, f.blobs, o)

EdifyNext == Build \/ BuildCall
EdifySpec == EdifyInit /\ [][EdifyNext]_edifyVars

----------------------------------------------------------------------------
Uses(fn) == \E i \in DOMAIN exprs : exprs[i].fn = fn

\* expr.c 26-29 and 267-272: the first function that aborts is the last thing the script
\* does to the device, and the updater then reports a failure; without one it reports
\* success.  Of the functions only retouch_binaries and undo_retouch_binaries differ: they
\* return a value after ErrorAbort() and "t" when an argument aborts.
AbortStops ==
  ~Uses("retouch_binaries") =>
    LET r == Evaluate(EvaluateValue(exprs)[Len(exprs)]) IN
    /\ \A i \in 1..Len(r.log) - 1 : r.log[i] = "abort" => r.log[i + 1] = "abort"
    /\ Status(r.value) = 0 <=> \A i \in DOMAIN r.log : r.log[i] # "abort"

\* Functions that go on after an argument beyond the first ones could not be read.
Unchecked == {"delete", "apply_patch", "apply_patch_check"}

\* expr.c 29, "if Evaluate() on any argument returns NULL, return NULL": whatever else its
\* arguments are and in whichever order they are read, a call with enough of them whose
\* evaluation gives NULL for one returns NULL, and does not kill the updater.  The exceptions
\* are the two retouch functions, and the later arguments of delete(), apply_patch() and
\* apply_patch_check() (install.c 227, 782 and 838).
NullReturned ==
  \A i \in DOMAIN exprs :
    LET e == exprs[i]
        f == FunctionTable[e.fn]
        given(k) == EvaluateValue(exprs)[e.argv[k]].value
    IN /\ e.fn \in Registered \ {"retouch_binaries"} /\ Len(e.argv) \in f.argc
       /\ \E k \in DOMAIN e.argv :
            given(k) = NULL /\ k <= IF e.fn \in Unchecked THEN f.split ELSE f.reads
       /\ \A k \in DOMAIN e.argv : given(k) # "crash"
       => EvaluateValue(exprs)[i].value = NULL
=============================================================================
