---------------------------- MODULE Query_proofs ----------------------------
(***************************************************************************)
(* The two decisions a query leads to, for every value: whether a match    *)
(* item is positive (isMatch), and whether a filter condition is true (the *)
(* operators KubeMod gives the expression language).                       *)
(***************************************************************************)
EXTENDS MatchReadme, Expressions, Ranges, TLAPS

-----------------------------------------------------------------------------
(* isMatch                                                                 *)

\* What an item needs to be for the proofs: a record of these fields.
LEMMA Negated ==
  ASSUME NEW i \in MatchItems
  PROVE  LET n == [i EXCEPT !.negate = ~@]
         IN  /\ n.negate = ~i.negate /\ i.negate \in BOOLEAN
             /\ n.matchFor = i.matchFor /\ n.matchValue = i.matchValue
             /\ n.matchValues = i.matchValues /\ n.matchRegex = i.matchRegex
BY DEF MatchItems

LEMMA ResultKinds ==
  ASSUME NEW r \in Results
  PROVE  r.kind \in {"error", "nil", "undefined", "bool", "array", "value"}
BY DEF Results

\* The criterion that is looked at does not depend on negate.
LEMMA NegatedStringMatch ==
  ASSUME NEW i \in MatchItems, NEW v
  PROVE  isStringMatch([i EXCEPT !.negate = ~@], v) = isStringMatch(i, v)
BY Negated DEF isStringMatch

\* Both loops invert with negate.
LEMMA NegatedLoop ==
  ASSUME NEW i \in MatchItems, NEW values
  PROVE  MatchValuesLoop([i EXCEPT !.negate = ~@], values) = ~MatchValuesLoop(i, values)
<1> DEFINE n == [i EXCEPT !.negate = ~@]
<1>1. /\ n.negate = ~i.negate /\ i.negate \in BOOLEAN /\ n.matchFor = i.matchFor
      /\ \A v : isStringMatch(n, v) = isStringMatch(i, v)
  BY Negated, NegatedStringMatch
<1> HIDE DEF n
<1>2. MatchValuesLoop(n, values) = ~MatchValuesLoop(i, values)
  BY <1>1 DEF MatchValuesLoop
<1> QED
  BY <1>2 DEF n

\* So does every return of isMatch.
LEMMA NegatedMatch ==
  ASSUME NEW i \in MatchItems, NEW r \in Results
  PROVE  isMatch([i EXCEPT !.negate = ~@], r) = ~isMatch(i, r)
<1> DEFINE n == [i EXCEPT !.negate = ~@]
<1>1. /\ n.negate = ~i.negate /\ i.negate \in BOOLEAN /\ n.matchFor = i.matchFor
      /\ \A values : MatchValuesLoop(n, values) = ~MatchValuesLoop(i, values)
  BY Negated, NegatedLoop
<1>2. r.kind \in {"error", "nil", "undefined", "bool", "array", "value"}
  BY ResultKinds
<1> HIDE DEF n
<1>3. isMatch(n, r) = ~isMatch(i, r)
  BY <1>1, <1>2 DEF isMatch
<1> QED
  BY <1>3 DEF n

\* With one criterion, the order in which isStringMatch asks for them is of no
\* account.
LEMMA OneCriterion ==
  ASSUME NEW i \in MatchItems, \A c, d \in Criteria(i) : c = d, NEW v
  PROVE  isStringMatch(i, v) = (Criteria(i) = {} \/ \E c \in Criteria(i) : Satisfies(i, c, v))
<1>1. CASE i.matchValue # Nil
  <2>1. Criteria(i) = {"matchValue"}
    BY <1>1 DEF Criteria
  <2> QED
    BY <1>1, <2>1 DEF isStringMatch, Satisfies
<1>2. CASE i.matchValue = Nil /\ i.matchValues # {}
  <2>1. Criteria(i) = {"matchValues"}
    BY <1>2 DEF Criteria
  <2>2. isStringMatch(i, v) = (v \in i.matchValues)
    BY <1>2 DEF isStringMatch
  <2>3. Satisfies(i, "matchValues", v) <=> v \in i.matchValues
    <3>1. "matchValues" # "matchValue" /\ "matchValues" # "matchRegex"
      OBVIOUS
    <3> QED
      BY <3>1, Zenon DEF Satisfies
  <2>4. (\E c \in Criteria(i) : Satisfies(i, c, v)) <=> Satisfies(i, "matchValues", v)
    BY <2>1
  <2> QED
    BY <2>1, <2>2, <2>3, <2>4
<1>3. CASE i.matchValue = Nil /\ i.matchValues = {} /\ i.matchRegex # Nil
  <2>1. Criteria(i) = {"matchRegex"}
    BY <1>3 DEF Criteria
  <2> QED
    BY <1>3, <2>1 DEF isStringMatch, Satisfies
<1>4. CASE i.matchValue = Nil /\ i.matchValues = {} /\ i.matchRegex = Nil
  <2>1. Criteria(i) = {}
    BY <1>4 DEF Criteria
  <2> QED
    BY <1>4, <2>1 DEF isStringMatch
<1> QED
  BY <1>1, <1>2, <1>3, <1>4

\* The values an item's select yielded, undefined ones apart.
LEMMA OneCriterionMatch ==
  ASSUME NEW i \in MatchItems, \A c, d \in Criteria(i) : c = d, NEW r \in Results
  PROVE  isMatch(i, r) = ReadmeMatch(i, r)
<1> DEFINE all    == {r.values[k] : k \in DOMAIN r.values}
           values == all \ {Undefined}
           Hit(v) == Criteria(i) = {} \/ \E c \in Criteria(i) : Satisfies(i, c, v)
<1>1. i.negate \in BOOLEAN /\ i.matchFor \in {"Any", "All", ""}
  BY DEF MatchItems
<1>2. \A v : isStringMatch(i, v) = Hit(v)
  BY OneCriterion
<1>3. CASE r.kind \in {"error", "nil", "undefined"}
  BY <1>1, <1>3 DEF isMatch, ReadmeMatch, ReadmePositive
<1>4. CASE r.kind = "bool"
  BY <1>1, <1>4 DEF isMatch, ReadmeMatch, ReadmePositive
<1>5. CASE r.kind \in {"array", "value"} /\ values = {}
  BY <1>1, <1>5 DEF isMatch, ReadmeMatch, ReadmePositive
<1>6. CASE r.kind \in {"array", "value"} /\ values # {} /\ i.matchFor = "All" /\ values # all
  <2>1. Undefined \in all
    BY <1>6
  <2> QED
    BY <1>1, <1>6, <2>1 DEF isMatch, ReadmeMatch, ReadmePositive
<1>7. CASE r.kind \in {"array", "value"} /\ values # {} /\ i.matchFor = "All" /\ values = all
  <2>1. isMatch(i, r) = IF \E v \in all : ~Hit(v) THEN i.negate ELSE ~i.negate
    BY <1>2, <1>7 DEF isMatch, MatchValuesLoop
  <2>2. ReadmePositive(i, r) = (Criteria(i) = {} \/ \E c \in Criteria(i) : \A v \in all : Satisfies(i, c, v))
    BY <1>7 DEF ReadmePositive
  <2>3. (\A v \in all : Hit(v))
          <=> (Criteria(i) = {} \/ \E c \in Criteria(i) : \A v \in all : Satisfies(i, c, v))
    BY <1>7
  <2> QED
    BY <1>1, <2>1, <2>2, <2>3 DEF ReadmeMatch
<1>8. CASE r.kind \in {"array", "value"} /\ values # {} /\ i.matchFor # "All"
  <2>1. isMatch(i, r) = IF \E v \in values : Hit(v) THEN ~i.negate ELSE i.negate
    BY <1>1, <1>2, <1>8 DEF isMatch, MatchValuesLoop
  <2>2. ReadmePositive(i, r) = (Criteria(i) = {} \/ \E c \in Criteria(i) : \E v \in values : Satisfies(i, c, v))
    BY <1>8 DEF ReadmePositive
  <2>3. (\E v \in values : Hit(v))
          <=> (Criteria(i) = {} \/ \E c \in Criteria(i) : \E v \in values : Satisfies(i, c, v))
    BY <1>8
  <2> QED
    BY <1>1, <2>1, <2>2, <2>3 DEF ReadmeMatch
<1> QED
  BY <1>3, <1>4, <1>5, <1>6, <1>7, <1>8, ResultKinds

MatchInv == item \in MatchItems /\ result \in Results

LEMMA MatchInvariance == MatchSpec => []MatchInv
<1>1. MatchInit => MatchInv
  BY DEF MatchInit, MatchInv
<1>2. MatchInv /\ [FALSE]_<<item, result>> => MatchInv'
  BY DEF MatchInv
<1> QED
  BY <1>1, <1>2, PTL DEF MatchSpec

\* isMatch agrees with the README for every set of strings, every length of an
\* array and every item with at most one criterion.
THEOREM MatchAsDocumented == MatchSpec => []OneCriterionAsDocumented
<1>1. MatchInv => OneCriterionAsDocumented
  BY OneCriterionMatch DEF MatchInv, OneCriterionAsDocumented
<1> QED
  BY <1>1, MatchInvariance, PTL

\* Setting negate inverts what isMatch returns, on every way through it.
THEOREM NegateAlwaysInverts == MatchSpec => []NegateInverts
<1>1. MatchInv => NegateInverts
  BY NegatedMatch DEF MatchInv, NegateInverts
<1> QED
  BY <1>1, MatchInvariance, PTL

-----------------------------------------------------------------------------
(* Filter conditions                                                       *)

\* The values that matter here are told apart by their domains.
LEMMA ValuesDiffer ==
  /\ Error # Undef /\ ~IsA(Error, "num") /\ ~IsA(Error, "bool") /\ ~IsA(Error, "str")
  /\ ~IsA(Undef, "bool") /\ ~IsA(Undef, "num") /\ ~IsA(Undef, "str")
  /\ \A n : Num(n) # Undef /\ Num(n) # Error
  /\ \A x : Bool(x) # Undef /\ Bool(x) # Error
  /\ \A x : \A y : Bool(x) # Str(y)
  /\ \A y : Str(y) # Error
<1>1. /\ DOMAIN Error = {"error"} /\ DOMAIN Undef = {"undefined"}
      /\ \A x : DOMAIN Bool(x) = {"bool"}
      /\ \A x : DOMAIN Num(x) = {"num"}
      /\ \A x : DOMAIN Str(x) = {"str"}
  BY DEF Error, Undef, Bool, Num, Str
<1>2. /\ "error" # "undefined" /\ "error" # "num" /\ "error" # "bool" /\ "error" # "str"
      /\ "undefined" # "num" /\ "undefined" # "bool" /\ "undefined" # "str" /\ "bool" # "str"
  OBVIOUS
<1> QED
  BY <1>1, <1>2 DEF IsA

LEMMA BoolField ==
  ASSUME NEW x
  PROVE  IsA(Bool(x), "bool") /\ Bool(x).bool = x /\ ~IsA(Bool(x), "num") /\ ~IsA(Bool(x), "str")
<1>1. DOMAIN Bool(x) = {"bool"} /\ Bool(x).bool = x
  BY DEF Bool
<1>2. "bool" # "num" /\ "bool" # "str"
  OBVIOUS
<1> QED
  BY <1>1, <1>2 DEF IsA

LEMMA FloatOf == convertToFloat(Error) = Error /\ convertToFloat(Undef) = Undef
<1>1. convertToFloat(Error) = Error
  BY ValuesDiffer DEF convertToFloat
<1>2. convertToFloat(Undef) = Undef
  BY ValuesDiffer DEF convertToFloat
<1> QED
  BY <1>1, <1>2

\* What the conversion to a boolean makes of the results of the operators.
LEMMA Counts ==
  ~EvalBool(Error) /\ ~EvalBool(Bool(FALSE)) /\ EvalBool(Bool(TRUE)) /\ EvalBool(Undef)
<1>1. \A x \in BOOLEAN : convertToFloat(Bool(x)) = Num(IF x THEN 1 ELSE 0)
  <2> TAKE x \in BOOLEAN
  <2>1. Bool(x) # Undef /\ IsA(Bool(x), "bool") /\ Bool(x).bool = x
        /\ ~IsA(Bool(x), "num") /\ ~IsA(Bool(x), "str")
    BY ValuesDiffer, BoolField
  <2> QED
    BY <2>1 DEF convertToFloat
<1>2. Num(1) # Num(0)
  BY DEF Num
<1>3. convertToFloat(Bool(FALSE)) = Num(0) /\ convertToFloat(Bool(TRUE)) = Num(1)
  BY <1>1
<1> QED
  BY <1>2, <1>3, FloatOf, ValuesDiffer DEF EvalBool

\* Nothing is equal to undefined, so that everything is unequal to it.
LEMMA EqualUndef ==
  ASSUME NEW a, NEW b, Error \notin {a, b}, Undef \in {a, b}
  PROVE  Infix("==", a, b) = Bool(FALSE) /\ Infix("!=", a, b) = Bool(TRUE)
<1>1. Equal(a, b) = Bool(FALSE)
  BY DEF Equal
<1>2. Not(Bool(FALSE)) = Bool(TRUE)
  BY BoolField DEF Not
<1>3. NotEqual(a, b) = Bool(TRUE)
  BY <1>1, <1>2 DEF NotEqual
<1> QED
  BY <1>1, <1>3 DEF Infix

LEMMA GreaterUndef ==
  ASSUME NEW v, convertToFloat(v) # Error
  PROVE  Infix(">", Undef, v) = Bool(FALSE) /\ Infix(">", v, Undef) = Bool(FALSE)
<1>1. v # Error /\ Undef # Error /\ convertToFloat(Undef) = Undef
  BY FloatOf, ValuesDiffer
<1>2. Greater(Undef, v) = Bool(FALSE)
  BY <1>1 DEF Greater
<1>3. Greater(v, Undef) = Bool(FALSE)
  BY <1>1 DEF Greater
<1> QED
  BY <1>2, <1>3 DEF Infix

\* The boolean operators fail on undefined, unless the left operand decides.
LEMMA LogicUndef ==
  ASSUME NEW v
  PROVE  /\ Infix("&&", Undef, v) = Error /\ Infix("||", Undef, v) = Error
         /\ Infix("&&", v, Undef) \in {Error, Bool(FALSE)}
         /\ v # Bool(TRUE) => Infix("||", v, Undef) = Error
<1>1. \A x, r : infixBoolOperator(Undef, x, r) = Error /\ infixBoolOperator(x, Undef, r) = Error
  BY ValuesDiffer DEF infixBoolOperator
<1>2. Undef # Bool(TRUE) /\ Undef # Bool(FALSE)
  BY ValuesDiffer
<1>3. And(Undef, v) = Error /\ And(v, Undef) \in {Error, Bool(FALSE)}
  BY <1>1, <1>2 DEF And
<1>4. Or(Undef, v) = Error /\ (v # Bool(TRUE) => Or(v, Undef) = Error)
  BY <1>1, <1>2 DEF Or
<1> QED
  BY <1>3, <1>4 DEF Infix

LEMMA InUndef ==
  ASSUME NEW v
  PROVE  Infix("in", Undef, v) \in {Error, Bool(FALSE)}
<1>1. inArray(Undef, v) \in {Error, Bool(FALSE)}
  BY ValuesDiffer DEF inArray
<1> QED
  BY <1>1 DEF Infix

\* What a filter makes of a condition with an operand the member lacks, whatever
\* value v the other operand has.  "==", ">", "&&" and "in" never select the
\* member, and "||" only by the operand before it, as the README has it.  But
\* "!=" always selects it, contrary to the README (`$.a.b.c != 12` "will yield
\* false"), and so does the path alone: that KubeMod's logic does not treat
\* undefined as true holds of its operators, not of the filter around them.
THEOREM FilterOnUndefined ==
  ASSUME NEW v, v # Error
  PROVE  /\ \A operator \in {"==", "&&"} : /\ ~EvalBool(Infix(operator, Undef, v))
                                          /\ ~EvalBool(Infix(operator, v, Undef))
         /\ convertToFloat(v) # Error => /\ ~EvalBool(Infix(">", Undef, v))
                                         /\ ~EvalBool(Infix(">", v, Undef))
         /\ ~EvalBool(Infix("in", Undef, v)) /\ ~EvalBool(Infix("||", Undef, v))
         /\ v # Bool(TRUE) => ~EvalBool(Infix("||", v, Undef))
         /\ EvalBool(Infix("!=", Undef, v)) /\ EvalBool(Infix("!=", v, Undef))
         /\ EvalBool(Undef)
<1>1. /\ Infix("==", Undef, v) = Bool(FALSE) /\ Infix("==", v, Undef) = Bool(FALSE)
      /\ Infix("!=", Undef, v) = Bool(TRUE) /\ Infix("!=", v, Undef) = Bool(TRUE)
  BY EqualUndef, ValuesDiffer
<1>2. convertToFloat(v) # Error => Infix(">", Undef, v) = Bool(FALSE) /\ Infix(">", v, Undef) = Bool(FALSE)
  BY GreaterUndef
<1>3. \A x : x \in {Error, Bool(FALSE)} => ~EvalBool(x)
  BY Counts
<1>4. ~EvalBool(Infix("&&", Undef, v)) /\ ~EvalBool(Infix("&&", v, Undef))
  BY <1>3, LogicUndef
<1>5. /\ ~EvalBool(Infix("in", Undef, v)) /\ ~EvalBool(Infix("||", Undef, v))
      /\ v # Bool(TRUE) => ~EvalBool(Infix("||", v, Undef))
  BY <1>3, LogicUndef, InUndef
<1> QED
  BY <1>1, <1>2, <1>4, <1>5, Counts

-----------------------------------------------------------------------------
(* Ranges                                                                  *)

\* The bounds of the loops lie in the array.
LEMMA NegmaxWithin ==
  ASSUME NEW b \in Int, NEW n \in Nat
  PROVE  negmax(b, n) \in 0 .. n
BY DEF negmax

\* A loop of steps of width w over d indices: its k-th step is within them if and
\* only if it is counted.
LEMMA StepsCounted ==
  ASSUME NEW d \in Int, NEW w \in Nat \ {0}, NEW k \in Nat
  PROVE  k < (d + w - 1) \div w <=> k * w < d
<1> DEFINE q == (d + w - 1) \div w
<1>1. q \in Int /\ q * w <= d + w - 1 /\ d + w - 1 < q * w + w
  BY Z3
<1> HIDE DEF q
<1>2. ASSUME k < q PROVE k * w < d
  <2>1. (k + 1) * w <= q * w
    BY <1>1, <1>2, Z3
  <2> QED
    BY <1>1, <2>1, Z3
<1>3. ASSUME q <= k PROVE d <= k * w
  <2>1. q * w <= k * w
    BY <1>1, <1>3, Z3
  <2> QED
    BY <1>1, <2>1, Z3
<1>4. k < q <=> k * w < d
  BY <1>1, <1>2, <1>3, Z3
<1> QED
  BY <1>4 DEF q

\* Both loops visit the indices that are whole steps away from where they start,
\* each once.
LEMMA LoopVisits ==
  ASSUME NEW lo \in Int, NEW hi \in Int, NEW step \in Int \ {0}
  PROVE  LET seq == Indices(lo, hi, step)
             w   == IF step > 0 THEN step ELSE -step
             At(k) == IF step > 0 THEN lo + k * w ELSE hi - 1 - k * w
         IN  /\ \A i : (\E j \in DOMAIN seq : seq[j] = i)
                         <=> \E k \in Nat : k * w < hi - lo /\ i = At(k)
             /\ \A j, m \in DOMAIN seq : seq[j] = seq[m] => j = m
<1> DEFINE w     == IF step > 0 THEN step ELSE -step
           At(k) == IF step > 0 THEN lo + k * w ELSE hi - 1 - k * w
           count == (hi - lo + w - 1) \div w
           seq   == Indices(lo, hi, step)
<1>1. w \in Nat \ {0} /\ hi - lo \in Int /\ count \in Int
  BY Z3
<1>2. DOMAIN seq = 1 .. count /\ \A j \in 1 .. count : seq[j] = At(j - 1)
  BY DEF Indices
<1>3. \A k \in Nat : k < count <=> k * w < hi - lo
  BY <1>1, StepsCounted
<1> HIDE DEF w, count, seq
<1>4. \A i : (\E j \in DOMAIN seq : seq[j] = i) <=> \E k \in Nat : k * w < hi - lo /\ i = At(k)
  <2>1. ASSUME NEW j \in DOMAIN seq
        PROVE  \E k \in Nat : k * w < hi - lo /\ seq[j] = At(k)
    <3>1. j \in Int /\ 1 <= j /\ j <= count
      BY <1>1, <1>2
    <3>2. j - 1 \in Nat /\ j - 1 < count
      BY <1>1, <3>1
    <3> QED
      BY <1>2, <1>3, <3>2
  <2>2. ASSUME NEW k \in Nat, k * w < hi - lo
        PROVE  \E j \in DOMAIN seq : seq[j] = At(k)
    <3>1. k < count
      BY <1>3, <2>2
    <3>2. k + 1 \in 1 .. count /\ (k + 1) - 1 = k
      BY <1>1, <3>1
    <3> HIDE DEF At
    <3>3. seq[k + 1] = At(k)
      BY <1>2, <3>2
    <3> QED
      BY <1>2, <3>2, <3>3
  <2> QED
    BY <2>1, <2>2
<1>5. \A j, m \in DOMAIN seq : seq[j] = seq[m] => j = m
  <2> SUFFICES ASSUME NEW j \in 1 .. count, NEW m \in 1 .. count, At(j - 1) = At(m - 1)
               PROVE  j = m
    BY <1>2
  <2>1. j \in Int /\ m \in Int /\ (j - 1) * w \in Int /\ (m - 1) * w \in Int
    BY <1>1
  <2>2. (j - 1) * w = (m - 1) * w
    BY <1>1, <2>1
  <2> QED
    BY <1>1, <2>1, <2>2, Z3
<1> QED
  BY <1>4, <1>5 DEF w, seq

\* A range visits exactly the indices it means, each once, and none outside the
\* array, where cs[i] would panic: for arrays of any length and any three
\* numbers, negative, falling, beyond the end, and a step of zero included.
THEOREM RangeExact ==
  ASSUME NEW min \in Int, NEW max \in Int, NEW step \in Int, NEW n \in Nat
  PROVE  LET seq == RangeIndices(min, max, step, n)
         IN  /\ \A i \in Int : (\E j \in DOMAIN seq : seq[j] = i) <=> InRange(i, min, max, step, n)
             /\ \A j \in DOMAIN seq : seq[j] \in 0 .. n - 1
             /\ \A j, m \in DOMAIN seq : seq[j] = seq[m] => j = m
<1> DEFINE seq == RangeIndices(min, max, step, n)
           lo  == negmax(min, n)
           hi  == negmax(max, n)
           st  == IF step = 0 THEN 1 ELSE step
           w   == IF st > 0 THEN st ELSE -st
           At(k) == IF st > 0 THEN lo + k * w ELSE hi - 1 - k * w
<1>0. lo \in 0 .. n /\ hi \in 0 .. n /\ st \in Int \ {0} /\ w \in Nat \ {0}
  BY NegmaxWithin
<1>1. CASE min > max
  <2>1. seq = << >> /\ DOMAIN seq = {}
    BY <1>1 DEF RangeIndices
  <2>2. \A i : ~InRange(i, min, max, step, n)
    BY <1>1 DEF InRange
  <2> QED
    BY <2>1, <2>2
<1>2. CASE min <= max
  <2>1. seq = Indices(lo, hi, st)
    BY <1>0, <1>2 DEF RangeIndices
  <2>2. /\ \A i : (\E j \in DOMAIN seq : seq[j] = i)
                    <=> \E k \in Nat : k * w < hi - lo /\ i = At(k)
        /\ \A j, m \in DOMAIN seq : seq[j] = seq[m] => j = m
    <3>1. lo \in Int /\ hi \in Int
      BY <1>0
    <3> HIDE DEF lo, hi, st, seq
    <3>2. /\ \A i : (\E j \in DOMAIN Indices(lo, hi, st) : Indices(lo, hi, st)[j] = i)
                      <=> \E k \in Nat : k * w < hi - lo /\ i = At(k)
          /\ \A j, m \in DOMAIN Indices(lo, hi, st) :
                Indices(lo, hi, st)[j] = Indices(lo, hi, st)[m] => j = m
      BY <1>0, <3>1, LoopVisits
    <3> QED
      BY <2>1, <3>2
  <2>3. ASSUME NEW k \in Nat, k * w < hi - lo
        PROVE  At(k) \in lo .. hi - 1 /\ k \in 0 .. n
    <3> HIDE DEF lo, hi, w, st
    <3>1. k * w \in Nat /\ k <= k * w
      BY <1>0, Z3
    <3> QED
      BY <1>0, <2>3, <3>1
  <2>4. \A j \in DOMAIN seq : seq[j] \in 0 .. n - 1
    <3> SUFFICES ASSUME NEW j \in DOMAIN seq
                 PROVE  seq[j] \in 0 .. n - 1
      OBVIOUS
    <3>1. PICK k \in Nat : k * w < hi - lo /\ seq[j] = At(k)
      BY <2>2
    <3>2. At(k) \in lo .. hi - 1
      BY <2>3, <3>1
    <3> HIDE DEF lo, hi, At, seq
    <3> QED
      BY <1>0, <3>1, <3>2
  <2>5. ASSUME NEW i \in Int
        PROVE  (\E k \in Nat : k * w < hi - lo /\ i = At(k)) <=> InRange(i, min, max, step, n)
    <3> DEFINE Counted(b) == IF b < 0 THEN b + n ELSE b
               rlo == IF Counted(min) < 0 THEN 0 ELSE Counted(min)
               rhi == IF Counted(max) > n THEN n ELSE Counted(max)
               Ref(k) == CASE step = 0 -> rlo + k
                           [] step > 0 -> rlo + k * step
                           [] step < 0 -> rhi - 1 + k * step
    <3>1. InRange(i, min, max, step, n)
            <=> rlo <= i /\ i < rhi /\ \E k \in 0 .. n : i = Ref(k)
      BY <1>2 DEF InRange
    <3>2. rlo \in Nat /\ rhi \in Int /\ rhi <= n
      OBVIOUS
    <3>3. rlo < rhi => lo = rlo /\ hi = rhi
      BY DEF negmax
    <3>4. lo < hi => lo = rlo /\ hi = rhi
      BY DEF negmax
    <3>5. ASSUME lo = rlo, hi = rhi, NEW k \in Nat
          PROVE  At(k) = Ref(k)
      BY <1>0, <3>2, <3>5, Z3
    <3>6. ASSUME NEW k \in Nat, k * w < hi - lo, i = At(k)
          PROVE  InRange(i, min, max, step, n)
      <4>1. At(k) \in lo .. hi - 1 /\ k \in 0 .. n
        BY <2>3, <3>6
      <4> HIDE DEF lo, hi, At, Ref, w, rlo, rhi
      <4>2. lo < hi
        BY <1>0, <4>1
      <4> QED
        BY <1>0, <3>1, <3>2, <3>4, <3>5, <3>6, <4>1, <4>2
    <3>7. ASSUME InRange(i, min, max, step, n)
          PROVE  \E k \in Nat : k * w < hi - lo /\ i = At(k)
      <4>1. PICK k \in 0 .. n : i = Ref(k) /\ rlo <= i /\ i < rhi
        BY <3>1, <3>7
      <4>2. k \in Nat
        BY <4>1
      <4>3. lo = rlo /\ hi = rhi
        BY <3>2, <3>3, <4>1
      <4>4. i = At(k)
        BY <3>5, <4>1, <4>2, <4>3
      <4>5. k * w < hi - lo
        <5>1. k * w \in Int /\ lo <= i /\ i < hi
          BY <1>0, <4>1, <4>2, <4>3
        <5> QED
          BY <1>0, <4>4, <5>1
      <4> QED
        BY <4>2, <4>4, <4>5
    <3> QED
      BY <3>6, <3>7
  <2> QED
    BY <2>2, <2>4, <2>5
<1> QED
  BY <1>1, <1>2

============================================================================
