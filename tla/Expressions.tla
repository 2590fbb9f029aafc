---------------------------- MODULE Expressions ----------------------------
(***************************************************************************)
(* expressions/kubemod_jsonpath.go: the functions and operators KubeMod    *)
(* adds to the expression language of match and select expressions, as     *)
(* operators on values.                                                    *)
(*                                                                         *)
(* A value is a record whose one field tells its Go type: nil, undefined,  *)
(* a bool, a number, a string, []interface{} or map[string]interface{}.    *)
(* Error is an expression whose evaluation returned an error.              *)
(***************************************************************************)
EXTENDS Integers, Sequences, FiniteSets

Null       == [null |-> TRUE]
Undef      == [undefined |-> TRUE]      \* jsonpath.Undefined
Error      == [error |-> TRUE]
Bool(b)    == [bool |-> b]
Num(n)     == [num |-> n]
Str(s)     == [str |-> s]
Arr(elems) == [arr |-> elems]           \* a sequence of values
Obj(f)     == [obj |-> f]               \* a function from keys to values

IsA(v, type) == type \in DOMAIN v

\* strconv.Itoa: the decimals of the indices of the arrays considered here, which
\* name the elements of an array as the keys of an object name its members.
Itoa(i) == <<"0", "1", "2", "3", "4">>[i + 1]

\* selectValue, for a key that has been evaluated.  (The library also reads
\* numbers from strings; the keys of arrays considered here are numbers.)
selectValue(key, v) ==
    CASE key = Error -> Error
      [] v \in {Null, Undef} /\ key # Error -> Undef
      [] IsA(v, "arr") /\ key # Error ->
            IF IsA(key, "num") /\ key.num \in 0 .. Len(v.arr) - 1
            THEN v.arr[key.num + 1] ELSE Error
      [] IsA(v, "obj") /\ key # Error ->
            IF IsA(key, "str") /\ key.str \in DOMAIN v.obj THEN v.obj[key.str] ELSE Undef
      [] OTHER -> Error

----------------------------------------------------------------------------
(* Functions of one argument.  An argument that fails is not passed on.    *)

\* valLength, as a number or Error.
valLength(v) ==
    CASE v \in {Null, Undef} -> Num(0)
      [] IsA(v, "arr") -> Num(Len(v.arr))
      [] IsA(v, "str") -> Num(Len(v.str))
      [] IsA(v, "obj") -> Num(Cardinality(DOMAIN v.obj))
      [] OTHER -> Error

isDefined(v) == IF v = Error THEN Error ELSE Bool(v # Undef)
isUndefined(v) == IF v = Error THEN Error ELSE Bool(v = Undef)
isEmpty(v) == IF valLength(v) = Error THEN Error ELSE Bool(valLength(v) = Num(0))
isNotEmpty(v) == IF valLength(v) = Error THEN Error ELSE Bool(valLength(v) # Num(0))

Call(function, v) ==
    CASE function = "length"      -> valLength(v)
      [] function = "isDefined"   -> isDefined(v)
      [] function = "isUndefined" -> isUndefined(v)
      [] function = "isEmpty"     -> isEmpty(v)
      [] function = "isNotEmpty"  -> isNotEmpty(v)

----------------------------------------------------------------------------
(* kubeModPropositionalLogic.  The right operand is evaluated only where   *)
(* the left one does not decide.                                           *)

Not(v) == IF IsA(v, "bool") THEN Bool(~v.bool) ELSE Error

\* infixBoolOperator: both operands have to be booleans.
infixBoolOperator(a, b, result) ==
    IF IsA(a, "bool") /\ IsA(b, "bool") THEN Bool(result) ELSE Error

\* Variant: operands are converted to booleans, so that anything but false and
\* nil counts as true, as in the language KubeMod started from.
AndOfTruthy(a, b) ==
    LET Truth(v) == v \notin {Bool(FALSE), Null, Error}
    IN  IF a = Bool(FALSE) THEN Bool(FALSE)
        ELSE IF Error \in {a, b} THEN Error ELSE Bool(Truth(a) /\ Truth(b))

And(a, b) ==
    IF a = Bool(FALSE) THEN Bool(FALSE)
    ELSE infixBoolOperator(a, b, a = Bool(TRUE) /\ b = Bool(TRUE))

Or(a, b) ==
    IF a = Bool(TRUE) THEN Bool(TRUE)
    ELSE infixBoolOperator(a, b, a = Bool(TRUE) \/ b = Bool(TRUE))

----------------------------------------------------------------------------
(* The operators and the conversions of the expression library.            *)
(* gval.Base() comes after KubeMod's own "==" and "!=" in the language,    *)
(* and an operator of a later language replaces one of an earlier language *)
(* for the same types.                                                     *)

\* The number a value is converted to: undefined, whose Go type is a float, is the
\* NaN it is made from.  Error, if there is none.
convertToFloat(v) ==
    CASE IsA(v, "num") \/ v = Undef -> v
      [] IsA(v, "bool") -> Num(IF v.bool THEN 1 ELSE 0)
      [] IsA(v, "str") /\ (\E n \in 0 .. 4 : Itoa(n) = v.str) ->
            Num(CHOOSE n \in 0 .. 4 : Itoa(n) = v.str)
      [] OTHER -> Error

\* What a condition's value counts for where a filter asks for a boolean: a number
\* counts as true unless it is 0, and so does a NaN; what is no boolean, number or
\* text of one is an error, and the member is not selected.
EvalBool(v) ==
    v \in {Str("true"), Str("TRUE")} \/ convertToFloat(v) \notin {Error, Num(0)}

\* "==": two strings are compared as strings, two values that convert to numbers
\* as numbers, where a NaN equals nothing; every other pair gets to
\* reflect.DeepEqual of gval.Base(), not to KubeMod's operator on booleans.
Equal(a, b) ==
    CASE Error \in {a, b} -> Error
      [] Error \notin {a, b} /\ Undef \in {a, b} -> Bool(FALSE)
      [] Error \notin {a, b} /\ Undef \notin {a, b} ->
            IF Error \in {convertToFloat(a), convertToFloat(b)} \/ (IsA(a, "str") /\ IsA(b, "str"))
            THEN Bool(a = b) ELSE Bool(convertToFloat(a) = convertToFloat(b))

\* "!=" is the negation, so everything is unequal to undefined.
NotEqual(a, b) == Not(Equal(a, b))

\* ">" of two values that convert to numbers; a NaN is greater than nothing.  (The
\* library compares all other pairs as text, which is out of scope here.)
Greater(a, b) ==
    LET x == convertToFloat(a)
        y == convertToFloat(b)
    IN  CASE Error \in {a, b} -> Error
          [] Error \notin {a, b, x, y} -> Bool(Undef \notin {x, y} /\ x.num > y.num)

----------------------------------------------------------------------------
\* "??" and "? :" take false and nil for absent, and nothing else.
Falsy(v) == v \in {Bool(FALSE), Null}

Coalesce(a, b) == IF a = Error THEN Error ELSE IF Falsy(a) THEN b ELSE a

IfThenElse(x, a, b) == IF x = Error THEN Error ELSE IF Falsy(x) THEN b ELSE a

\* The operator "in".  reflect.DeepEqual finds a NaN equal to nothing.
inArray(a, b) ==
    IF a = Error \/ ~IsA(b, "arr") THEN Error
    ELSE Bool(a # Undef /\ \E i \in DOMAIN b.arr : b.arr[i] = a)

Infix(operator, a, b) ==
    CASE operator = "&&" -> And(a, b)
      [] operator = "||" -> Or(a, b)
      [] operator = "==" -> Equal(a, b)
      [] operator = "!=" -> NotEqual(a, b)
      [] operator = ">"  -> Greater(a, b)
      [] operator = "??" -> Coalesce(a, b)
      [] operator = "in" -> inArray(a, b)

============================================================================
