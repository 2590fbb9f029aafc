------------------------- MODULE PatchItems_proofs -------------------------
(***************************************************************************)
(* The calculation of a JSON patch and what applying it does, for any      *)
(* engine that runs the selects, any rules and any manifests: the patch    *)
(* has one operation for every item of every operation of the rule, in the *)
(* rule's order, and a rule that sets or removes values in place, at       *)
(* locations apart from each other, has exactly that effect.               *)
(*                                                                         *)
(* First come the library's operations: an edit at the end of a path of    *)
(* any length, and a patch of any number of operations, by induction on    *)
(* the length; then the items and their paths; then the calculation, with  *)
(* its inductive invariant CalcInv.                                        *)
(***************************************************************************)
EXTENDS PatchItems, FiniteSetTheorems, WellFoundedInduction, TLAPS

\* A set of natural numbers with 0 and with the successor of each of its
\* members has them all: induction without an operator as a parameter.
LEMMA NatSetInduction ==
  ASSUME NEW S, 0 \in S, \A n \in Nat : n \in S => n + 1 \in S
  PROVE  Nat \subseteq S
<1> DEFINE R == OpToRel(<, Nat)
<1> DEFINE T == {n \in Nat : n \notin S}
<1> SUFFICES ASSUME T # {} PROVE FALSE
  OBVIOUS
<1>1. IsWellFoundedOn(R, Nat)
  BY NatLessThanWellFounded
<1>2. T \subseteq Nat
  OBVIOUS
<1>3. \E x \in T : \A y \in T : ~(<<y, x>> \in R)
  <2> HIDE DEF R, T
  <2> QED
    BY <1>1, <1>2, WFMin
<1>4. PICK x \in T : \A y \in T : ~(<<y, x>> \in R)
  BY <1>3
<1>5. x \in Nat \ {0}
  OBVIOUS
<1>6. x - 1 \in Nat /\ x - 1 < x /\ (x - 1) + 1 = x
  BY <1>5
<1>7. x - 1 \in T
  BY <1>5, <1>6
<1>8. <<x - 1, x>> \in R
  BY <1>5, <1>6 DEF OpToRel
<1> QED
  BY <1>4, <1>7, <1>8

-----------------------------------------------------------------------------
(* Recursive functions of the model: each exists, so that it can be        *)
(* unfolded.                                                               *)

\* f holds the values on the first n steps to a location.
Walks(f, n, v, l) == f = [i \in 0 .. n |-> IF i = 0 THEN v ELSE Child(f[i - 1], l[i])]

LEMMA WalksExist ==
  ASSUME NEW v, NEW l
  PROVE  \A n \in Nat : \E f : Walks(f, n, v, l)
<1> DEFINE S == {n \in Nat : \E f : Walks(f, n, v, l)}
<1>1. 0 \in S
  <2> DEFINE f == [i \in 0 .. 0 |-> v]
  <2>1. Walks(f, 0, v, l)
    BY DEF Walks
  <2> QED
    BY <2>1
<1>2. ASSUME NEW n \in Nat, n \in S PROVE n + 1 \in S
  <2>1. PICK g : Walks(g, n, v, l)
    BY <1>2
  <2> DEFINE f == [i \in 0 .. n + 1 |-> IF i = n + 1 THEN Child(g[n], l[n + 1]) ELSE g[i]]
  <2>2. ASSUME NEW i \in 0 .. n + 1
        PROVE  f[i] = IF i = 0 THEN v ELSE Child(f[i - 1], l[i])
    <3>1. CASE i = n + 1
      BY <3>1
    <3>2. CASE i \in 0 .. n
      BY <2>1, <3>2 DEF Walks
    <3> QED
      BY <3>1, <3>2
  <2>3. Walks(f, n + 1, v, l)
    BY <2>2 DEF Walks
  <2> QED
    BY <2>3
<1> HIDE DEF S
<1>3. Nat \subseteq S
  BY <1>1, <1>2, NatSetInduction
<1> QED
  BY <1>3 DEF S

\* A location is reached step by step.
LEMMA WalkUnfolds ==
  ASSUME NEW v, NEW l, Len(l) \in Nat
  PROVE  /\ Walk(v, l)[0] = v
         /\ \A i \in 1 .. Len(l) : Walk(v, l)[i] = Child(Walk(v, l)[i - 1], l[i])
<1> DEFINE f == CHOOSE f : Walks(f, Len(l), v, l)
<1>1. Walks(f, Len(l), v, l)
  BY WalksExist
<1>2. Walk(v, l) = f
  BY DEF Walk, Walks
<1> HIDE DEF f
<1> QED
  BY <1>1, <1>2 DEF Walks

\* g holds the containers on the first n steps of a path.
Enters(f, n, v, op, l) == f = [i \in 0 .. n |-> IF i = 0 THEN v ELSE Enter(f[i - 1], op, l[i])]

LEMMA EntersExist ==
  ASSUME NEW v, NEW op, NEW l
  PROVE  \A n \in Nat : \E f : Enters(f, n, v, op, l)
<1> DEFINE S == {n \in Nat : \E f : Enters(f, n, v, op, l)}
<1>1. 0 \in S
  <2> DEFINE f == [i \in 0 .. 0 |-> v]
  <2>1. Enters(f, 0, v, op, l)
    BY DEF Enters
  <2> QED
    BY <2>1
<1>2. ASSUME NEW n \in Nat, n \in S PROVE n + 1 \in S
  <2>1. PICK g : Enters(g, n, v, op, l)
    BY <1>2
  <2> DEFINE f == [i \in 0 .. n + 1 |-> IF i = n + 1 THEN Enter(g[n], op, l[n + 1]) ELSE g[i]]
  <2>2. ASSUME NEW i \in 0 .. n + 1
        PROVE  f[i] = IF i = 0 THEN v ELSE Enter(f[i - 1], op, l[i])
    <3>1. CASE i = n + 1
      BY <3>1
    <3>2. CASE i \in 0 .. n
      BY <2>1, <3>2 DEF Enters
    <3> QED
      BY <3>1, <3>2
  <2>3. Enters(f, n + 1, v, op, l)
    BY <2>2 DEF Enters
  <2> QED
    BY <2>3
<1> HIDE DEF S
<1>3. Nat \subseteq S
  BY <1>1, <1>2, NatSetInduction
<1> QED
  BY <1>3 DEF S

LEMMA ContainersUnfold ==
  ASSUME NEW v, NEW op, NEW l, Len(l) \in Nat \ {0}
  PROVE  /\ Containers(v, op, l)[0] = v
         /\ \A i \in 1 .. Len(l) - 1 :
              Containers(v, op, l)[i] = Enter(Containers(v, op, l)[i - 1], op, l[i])
<1> DEFINE f == CHOOSE f : Enters(f, Len(l) - 1, v, op, l)
<1>1. Enters(f, Len(l) - 1, v, op, l)
  <2>1. Len(l) - 1 \in Nat
    OBVIOUS
  <2> QED
    BY <2>1, EntersExist
<1>2. Containers(v, op, l) = f
  BY DEF Containers, Enters
<1> HIDE DEF f
<1> QED
  BY <1>1, <1>2 DEF Enters

\* up holds the edited containers, from the last one upwards.
Rebuilds(up, n, c, l, last) ==
    up = [i \in 0 .. n |-> IF i = 0 THEN last
                           ELSE Put(c[Len(l) - 1 - i], l[Len(l) - i], up[i - 1])]

LEMMA RebuildsExist ==
  ASSUME NEW c, NEW l, NEW last
  PROVE  \A n \in Nat : \E up : Rebuilds(up, n, c, l, last)
<1> DEFINE S == {n \in Nat : \E up : Rebuilds(up, n, c, l, last)}
<1>1. 0 \in S
  <2> DEFINE up == [i \in 0 .. 0 |-> last]
  <2>1. Rebuilds(up, 0, c, l, last)
    BY DEF Rebuilds
  <2> QED
    BY <2>1
<1>2. ASSUME NEW n \in Nat, n \in S PROVE n + 1 \in S
  <2>1. PICK g : Rebuilds(g, n, c, l, last)
    BY <1>2
  <2> DEFINE At(i, below) == Put(c[Len(l) - 1 - i], l[Len(l) - i], below)
             up == [i \in 0 .. n + 1 |-> IF i = n + 1 THEN At(n + 1, g[n]) ELSE g[i]]
  <2>2. \A i \in 0 .. n : g[i] = IF i = 0 THEN last ELSE At(i, g[i - 1])
    BY <2>1 DEF Rebuilds
  <2> HIDE DEF At
  <2>3. ASSUME NEW i \in 0 .. n + 1
        PROVE  up[i] = IF i = 0 THEN last ELSE At(i, up[i - 1])
    <3>1. CASE i = n + 1
      BY <3>1
    <3>2. CASE i \in 0 .. n
      BY <2>2, <3>2
    <3> QED
      BY <3>1, <3>2
  <2>4. up = [i \in 0 .. n + 1 |-> IF i = 0 THEN last ELSE At(i, up[i - 1])]
    BY <2>3
  <2>5. Rebuilds(up, n + 1, c, l, last)
    BY <2>4 DEF Rebuilds, At
  <2> QED
    BY <2>5
<1> HIDE DEF S
<1>3. Nat \subseteq S
  BY <1>1, <1>2, NatSetInduction
<1> QED
  BY <1>3 DEF S

\* The edited value is built from the last container upwards.
LEMMA RebuiltUnfolds ==
  ASSUME NEW c, NEW l, NEW last, Len(l) \in Nat \ {0}
  PROVE  \E up : /\ up[0] = last /\ Rebuilt(c, l, last) = up[Len(l) - 1]
                 /\ \A i \in 1 .. Len(l) - 1 :
                      up[i] = Put(c[Len(l) - 1 - i], l[Len(l) - i], up[i - 1])
<1> DEFINE up == CHOOSE up : Rebuilds(up, Len(l) - 1, c, l, last)
<1>1. Rebuilds(up, Len(l) - 1, c, l, last)
  <2>1. Len(l) - 1 \in Nat
    OBVIOUS
  <2> QED
    BY <2>1, RebuildsExist
<1>2. Rebuilt(c, l, last) = up[Len(l) - 1]
  BY DEF Rebuilt, Rebuilds
<1> HIDE DEF up
<1>3. /\ up[0] = last
      /\ \A i \in 1 .. Len(l) - 1 : up[i] = Put(c[Len(l) - 1 - i], l[Len(l) - i], up[i - 1])
  BY <1>1 DEF Rebuilds
<1> QED
  BY <1>2, <1>3

\* f holds the value after each operation of a patch.
Applies(f, n, ps, v) ==
    f = [i \in 0 .. n |-> IF i = 0 THEN v
                          ELSE IF f[i - 1] = Error THEN Error
                          ELSE Edit(f[i - 1], ps[i].op, ps[i].path, ps[i].value)]

LEMMA AppliesExist ==
  ASSUME NEW ps, NEW v
  PROVE  \A n \in Nat : \E f : Applies(f, n, ps, v)
<1> DEFINE S == {n \in Nat : \E f : Applies(f, n, ps, v)}
<1>1. 0 \in S
  <2> DEFINE f == [i \in 0 .. 0 |-> v]
  <2>1. Applies(f, 0, ps, v)
    BY DEF Applies
  <2> QED
    BY <2>1
<1>2. ASSUME NEW n \in Nat, n \in S PROVE n + 1 \in S
  <2>1. PICK g : Applies(g, n, ps, v)
    BY <1>2
  <2> DEFINE At(i, before) == IF before = Error THEN Error
                              ELSE Edit(before, ps[i].op, ps[i].path, ps[i].value)
             f == [i \in 0 .. n + 1 |-> IF i = n + 1 THEN At(n + 1, g[n]) ELSE g[i]]
  <2>2. \A i \in 0 .. n : g[i] = IF i = 0 THEN v ELSE At(i, g[i - 1])
    BY <2>1 DEF Applies
  <2> HIDE DEF At
  <2>3. ASSUME NEW i \in 0 .. n + 1
        PROVE  f[i] = IF i = 0 THEN v ELSE At(i, f[i - 1])
    <3>1. CASE i = n + 1
      BY <3>1
    <3>2. CASE i \in 0 .. n
      BY <2>2, <3>2
    <3> QED
      BY <3>1, <3>2
  <2>4. f = [i \in 0 .. n + 1 |-> IF i = 0 THEN v ELSE At(i, f[i - 1])]
    BY <2>3
  <2>5. Applies(f, n + 1, ps, v)
    BY <2>4 DEF Applies, At
  <2> QED
    BY <2>5
<1> HIDE DEF S
<1>3. Nat \subseteq S
  BY <1>1, <1>2, NatSetInduction
<1> QED
  BY <1>3 DEF S

\* The operations of a patch are applied in turn.
LEMMA ApplyAllUnfolds ==
  ASSUME NEW ps, NEW v, Len(ps) \in Nat
  PROVE  \E f : /\ f[0] = v /\ ApplyAll(ps, v) = f[Len(ps)]
                /\ \A i \in 1 .. Len(ps) :
                     f[i - 1] # Error =>
                       f[i] = Edit(f[i - 1], ps[i].op, ps[i].path, ps[i].value)
<1> DEFINE f == CHOOSE f : Applies(f, Len(ps), ps, v)
<1>1. Applies(f, Len(ps), ps, v)
  BY AppliesExist
<1>2. ApplyAll(ps, v) = f[Len(ps)]
  BY DEF ApplyAll, Applies
<1> HIDE DEF f
<1>3. /\ f[0] = v
      /\ \A i \in 1 .. Len(ps) :
           f[i - 1] # Error => f[i] = Edit(f[i - 1], ps[i].op, ps[i].path, ps[i].value)
  BY <1>1 DEF Applies
<1> QED
  BY <1>2, <1>3

-----------------------------------------------------------------------------
(* What one operation in place does to a value                             *)

LEMMA Built ==
  /\ ~IsA(Error, "obj") /\ ~IsA(Error, "arr")
  /\ \A f : IsA(Obj(f), "obj") /\ Obj(f).obj = f /\ Obj(f) # Error
  /\ \A f : IsA(Arr(f), "arr") /\ ~IsA(Arr(f), "obj") /\ Arr(f).arr = f /\ Arr(f) # Error
<1>1. /\ DOMAIN Error = {"error"}
      /\ \A f : DOMAIN Obj(f) = {"obj"} /\ Obj(f).obj = f
      /\ \A f : DOMAIN Arr(f) = {"arr"} /\ Arr(f).arr = f
  BY DEF Error, Obj, Arr
<1>2. "obj" # "error" /\ "arr" # "error" /\ "obj" # "arr"
  OBVIOUS
<1> QED
  BY <1>1, <1>2 DEF IsA

\* Nothing is below an error.
LEMMA NoMembers ==
  ASSUME NEW k
  PROVE  ~HasMember(Error, k) /\ Child(Error, k) = Error
BY Built DEF HasMember, Child

\* Container p is v with x as its member k, or without one if x is Error: every
\* other member is as it was, and it is still an object or an array.
Changed(v, k, x, p) ==
    /\ p # Error /\ Child(p, k) = x
    /\ IsA(p, "obj") <=> IsA(v, "obj")
    /\ \A j : j # k => /\ HasMember(p, j) <=> HasMember(v, j)
                       /\ Child(p, j) = Child(v, j)

LEMMA PutSetsOne ==
  ASSUME NEW v, NEW k, NEW x, HasMember(v, k) \/ IsA(v, "obj")
  PROVE  Changed(v, k, x, Put(v, k, x)) /\ HasMember(Put(v, k, x), k)
<1> DEFINE p == Put(v, k, x)
<1>1. CASE IsA(v, "obj")
  <2> DEFINE f == [j \in DOMAIN v.obj \cup {k} |-> IF j = k THEN x ELSE v.obj[j]]
  <2>1. p = Obj(f)
    BY <1>1 DEF Put
  <2>2. DOMAIN f = DOMAIN v.obj \cup {k} /\ f[k] = x /\ \A j \in DOMAIN v.obj : j # k => f[j] = v.obj[j]
    OBVIOUS
  <2> HIDE DEF f
  <2>3. IsA(p, "obj") /\ p.obj = f /\ p # Error
    BY <2>1, Built
  <2> HIDE DEF p
  <2> QED
    BY <1>1, <2>2, <2>3 DEF HasMember, Child, p, Changed
<1>2. CASE ~IsA(v, "obj")
  <2> DEFINE q == Position(v, k)
             f == [v.arr EXCEPT ![q] = x]
  <2>1. p = Arr(f)
    BY <1>2 DEF Put
  <2>2. IsA(v, "arr") /\ \E i \in DOMAIN v.arr : Itoa(i - 1) = k
    BY <1>2 DEF HasMember
  <2>3. q \in DOMAIN v.arr /\ Itoa(q - 1) = k
    BY <2>2 DEF Position
  <2> HIDE DEF q
  <2>4. DOMAIN f = DOMAIN v.arr /\ f[q] = x /\ \A i \in DOMAIN v.arr : i # q => f[i] = v.arr[i]
    BY <2>3
  <2> HIDE DEF f
  <2>5. IsA(p, "arr") /\ ~IsA(p, "obj") /\ p.arr = f /\ p # Error
    BY <2>1, Built
  <2>6. \A j : Position(p, j) = Position(v, j)
    BY <2>4, <2>5 DEF Position
  <2>7. \A j : HasMember(p, j) <=> HasMember(v, j)
    BY <1>2, <2>2, <2>4, <2>5 DEF HasMember
  <2>8. Child(p, k) = x /\ HasMember(p, k)
    BY <1>2, <2>2, <2>4, <2>5, <2>6, <2>7 DEF Child, q, HasMember
  <2>9. ASSUME NEW j, j # k PROVE Child(p, j) = Child(v, j)
    <3>1. CASE HasMember(v, j)
      <4>1. \E i \in DOMAIN v.arr : Itoa(i - 1) = j
        BY <1>2, <3>1 DEF HasMember
      <4>2. Position(v, j) \in DOMAIN v.arr /\ Itoa(Position(v, j) - 1) = j
        BY <4>1 DEF Position
      <4>3. Position(v, j) # q
        BY <2>3, <2>9, <4>2
      <4>4. Child(p, j) = f[Position(v, j)] /\ Child(v, j) = v.arr[Position(v, j)]
        BY <1>2, <2>5, <2>6, <2>7, <3>1 DEF Child
      <4> QED
        BY <2>4, <4>2, <4>3, <4>4
    <3>2. CASE ~HasMember(v, j)
      BY <2>7, <3>2 DEF Child
    <3> QED
      BY <3>1, <3>2
  <2> HIDE DEF p
  <2> QED
    BY <1>2, <2>5, <2>7, <2>8, <2>9 DEF p, Changed
<1> QED
  BY <1>1, <1>2

LEMMA RemoveTakesOne ==
  ASSUME NEW v, NEW k, NEW x, IsA(v, "obj")
  PROVE  Changed(v, k, Error, EditMember(v, "remove", k, x))
<1> DEFINE p == EditMember(v, "remove", k, x)
           f == [j \in DOMAIN v.obj \ {k} |-> v.obj[j]]
<1>1. CASE ~HasMember(v, k)
  <2>1. p = v
    BY <1>1 DEF EditMember
  <2>2. v # Error /\ Child(v, k) = Error
    BY <1>1, Built DEF Child
  <2> QED
    BY <2>1, <2>2 DEF Changed
<1>2. CASE HasMember(v, k)
  <2>1. p = Obj(f)
    BY <1>2 DEF EditMember
  <2>2. DOMAIN f = DOMAIN v.obj \ {k} /\ \A j \in DOMAIN v.obj : j # k => f[j] = v.obj[j]
    OBVIOUS
  <2> HIDE DEF f
  <2>3. IsA(p, "obj") /\ p.obj = f /\ p # Error
    BY <2>1, Built
  <2> HIDE DEF p
  <2> QED
    BY <2>2, <2>3 DEF HasMember, Child, p, Changed
<1> QED
  BY <1>1, <1>2

\* A step on the way to a value has a value.
LEMMA WayIsThere ==
  ASSUME NEW v, NEW l, Len(l) \in Nat, NEW j \in 0 .. Len(l), Walk(v, l)[j] # Error
  PROVE  \A i \in 0 .. j : Walk(v, l)[i] # Error
<1> DEFINE w == Walk(v, l)
           S == {h \in Nat : h <= Len(l) /\ w[h] # Error => \A i \in 0 .. h : w[i] # Error}
<1>1. \A i \in 1 .. Len(l) : w[i] = Child(w[i - 1], l[i])
  BY WalkUnfolds
<1> HIDE DEF w
<1>2. 0 \in S
  OBVIOUS
<1>3. ASSUME NEW h \in Nat, h \in S PROVE h + 1 \in S
  <2> SUFFICES ASSUME h + 1 <= Len(l), w[h + 1] # Error
               PROVE  \A i \in 0 .. h + 1 : w[i] # Error
    OBVIOUS
  <2>1. w[h + 1] = Child(w[h], l[h + 1])
    BY <1>1
  <2>2. w[h] # Error
    BY <2>1, NoMembers
  <2> QED
    BY <1>3, <2>2
<1>4. Nat \subseteq S
  <2> HIDE DEF S
  <2> QED
    BY <1>2, <1>3, NatSetInduction
<1> QED
  BY <1>4 DEF w

\* A JSON pointer, as the operations of a patch have it.
Pointer(l) == Len(l) \in Nat /\ DOMAIN l = 1 .. Len(l)

\* An operation in place meets the containers that are there, and changes a member
\* of the last one.
LEMMA InPlaceContainers ==
  ASSUME NEW v, NEW o, Pointer(o.path), InPlace(v, o)
  PROVE  LET n == Len(o.path)
             c == Containers(v, o.op, o.path)
         IN  /\ n \in Nat \ {0}
             /\ \A i \in 0 .. n - 1 : c[i] = Walk(v, o.path)[i] /\ c[i] # Error
             /\ \A i \in 0 .. n - 1 : HasMember(c[i], o.path[i + 1]) \/ IsA(c[i], "obj")
             /\ LET last == EditMember(c[n - 1], o.op, o.path[n], o.value)
                IN  /\ Changed(c[n - 1], o.path[n], Becomes(o), last)
                    /\ o.op # "remove" => HasMember(last, o.path[n])
<1> DEFINE l == o.path
           n == Len(l)
           c == Containers(v, o.op, l)
           w == Walk(v, l)
<1>0. n \in Nat \ {0}
  <2>1. l # << >> /\ n \in Nat /\ DOMAIN l = 1 .. n
    BY DEF Pointer, InPlace
  <2> QED
    BY <2>1
<1>1. /\ w[0] = v /\ \A i \in 1 .. n : w[i] = Child(w[i - 1], l[i])
      /\ c[0] = v /\ \A i \in 1 .. n - 1 : c[i] = Enter(c[i - 1], o.op, l[i])
  BY <1>0, WalkUnfolds, ContainersUnfold
<1>2. \/ o.op = "replace" /\ HasMember(w[n - 1], l[n])
      \/ o.op \in {"add", "remove"} /\ IsA(w[n - 1], "obj")
  BY DEF InPlace, HolderOf
<1>3. w[n - 1] # Error
  BY <1>2, NoMembers, Built
<1>4. \A i \in 0 .. n - 1 : w[i] # Error
  <2>1. n - 1 \in 0 .. Len(l) /\ Len(l) \in Nat
    BY <1>0
  <2> QED
    BY <1>3, <2>1, WayIsThere
<1> HIDE DEF c, w
<1>5. \A i \in 1 .. n - 1 : HasMember(w[i - 1], l[i])
  <2> SUFFICES ASSUME NEW i \in 1 .. n - 1 PROVE HasMember(w[i - 1], l[i])
    OBVIOUS
  <2>1. i \in 1 .. n /\ i \in 0 .. n - 1
    BY <1>0
  <2>2. w[i] # Error
    BY <1>4, <2>1
  <2>3. w[i] = Child(w[i - 1], l[i])
    BY <1>1, <2>1
  <2> QED
    BY <2>2, <2>3 DEF Child
<1> DEFINE S == {i \in Nat : i <= n - 1 => c[i] = w[i]}
<1>6. 0 \in S
  BY <1>1
<1>7. ASSUME NEW i \in Nat, i \in S PROVE i + 1 \in S
  <2> SUFFICES ASSUME i + 1 <= n - 1 PROVE c[i + 1] = w[i + 1]
    OBVIOUS
  <2>1. i + 1 \in 1 .. n - 1 /\ c[i] = w[i]
    BY <1>0, <1>7
  <2>2. HasMember(w[i], l[i + 1])
    BY <1>5, <2>1
  <2>3. c[i + 1] = Enter(w[i], o.op, l[i + 1]) /\ w[i + 1] = Child(w[i], l[i + 1])
    BY <1>0, <1>1, <2>1
  <2> QED
    BY <2>2, <2>3 DEF Enter
<1>8. Nat \subseteq S
  <2> HIDE DEF S
  <2> QED
    BY <1>6, <1>7, NatSetInduction
<1>9. \A i \in 0 .. n - 1 : c[i] = w[i]
  BY <1>0, <1>8
<1>10. LET last == EditMember(c[n - 1], o.op, l[n], o.value)
       IN  Changed(c[n - 1], l[n], Becomes(o), last) /\ (o.op # "remove" => HasMember(last, l[n]))
  <2>1. c[n - 1] = w[n - 1]
    BY <1>0, <1>9
  <2> HIDE DEF n, l
  <2>2. CASE o.op = "remove"
    <3>1. IsA(c[n - 1], "obj") /\ Becomes(o) = Error
      BY <1>2, <2>1, <2>2 DEF Becomes
    <3> QED
      BY <2>2, <3>1, RemoveTakesOne
  <2>3. CASE o.op # "remove"
    <3>1. HasMember(c[n - 1], l[n]) \/ IsA(c[n - 1], "obj")
      BY <1>2, <2>1
    <3>2. EditMember(c[n - 1], o.op, l[n], o.value) = Put(c[n - 1], l[n], o.value)
      BY <1>2, <2>1, <2>3 DEF EditMember
    <3>3. Becomes(o) = o.value
      BY <2>3 DEF Becomes
    <3> QED
      BY <3>1, <3>2, <3>3, PutSetsOne
  <2> QED
    BY <2>2, <2>3
<1>11. ASSUME NEW i \in 0 .. n - 1
       PROVE  HasMember(c[i], l[i + 1]) \/ IsA(c[i], "obj")
  <2>1. c[i] = w[i]
    BY <1>9
  <2>2. CASE i = n - 1
    BY <1>0, <1>2, <2>1, <2>2
  <2>3. CASE i # n - 1
    <3>1. i + 1 \in 1 .. n - 1 /\ (i + 1) - 1 = i
      BY <1>0, <2>3
    <3> QED
      BY <1>5, <2>1, <3>1
  <2> QED
    BY <2>2, <2>3
<1> HIDE DEF n, l
<1> QED
  BY <1>0, <1>4, <1>9, <1>10, <1>11 DEF n, l, c, w

\* The edited value, container by container: up[n - 1 - i] is the one after i
\* keys, and is the container that was there with one member changed.
LEMMA EditedContainers ==
  ASSUME NEW v, NEW o, Pointer(o.path), InPlace(v, o)
  PROVE  LET n == Len(o.path)
             w == Walk(v, o.path)
         IN  \E after : /\ Edit(v, o.op, o.path, o.value) = after[0] /\ after[n] = Becomes(o)
                        /\ o.op # "remove" => HasMember(after[n - 1], o.path[n])
                        /\ \A i \in 0 .. n - 1 :
                             Changed(w[i], o.path[i + 1], after[i + 1], after[i])
<1> DEFINE l == o.path
           n == Len(l)
           c == Containers(v, o.op, l)
           w == Walk(v, l)
           last == EditMember(c[n - 1], o.op, l[n], o.value)
<1>1. /\ n \in Nat \ {0}
      /\ \A i \in 0 .. n - 1 : c[i] = w[i] /\ c[i] # Error
      /\ \A i \in 0 .. n - 1 : HasMember(c[i], l[i + 1]) \/ IsA(c[i], "obj")
      /\ Changed(c[n - 1], l[n], Becomes(o), last)
      /\ o.op # "remove" => HasMember(last, l[n])
  BY InPlaceContainers
<1>2. PICK up : /\ up[0] = last /\ Rebuilt(c, l, last) = up[n - 1]
                /\ \A i \in 1 .. n - 1 : up[i] = Put(c[n - 1 - i], l[n - i], up[i - 1])
  BY <1>1, RebuiltUnfolds
<1>3. Edit(v, o.op, l, o.value) = IF c[n - 1] = Error THEN IF o.op = "remove" THEN v ELSE Error
                                  ELSE IF last = Error THEN Error ELSE Rebuilt(c, l, last)
  BY DEF Edit
<1>4. last # Error
  <2> HIDE DEF n, l, c, last
  <2> QED
    BY <1>1 DEF Changed
<1> HIDE DEF c, w, last, l, n
<1> DEFINE after == [i \in 0 .. n |-> IF i = n THEN Becomes(o) ELSE up[n - 1 - i]]
<1>5. after[0] = up[n - 1] /\ after[n] = Becomes(o) /\ after[n - 1] = up[0]
  BY <1>1
<1>6. Edit(v, o.op, l, o.value) = after[0]
  <2>1. c[n - 1] # Error
    BY <1>1
  <2> QED
    BY <1>2, <1>3, <1>4, <1>5, <2>1
<1>7. ASSUME NEW i \in 0 .. n - 1
      PROVE  Changed(w[i], l[i + 1], after[i + 1], after[i])
  <2>1. after[i] = up[n - 1 - i] /\ c[i] = w[i]
    BY <1>1
  <2>2. CASE i = n - 1
    <3>1. after[i] = last /\ after[i + 1] = Becomes(o) /\ i + 1 = n
      BY <1>1, <1>2, <2>1, <2>2
    <3> QED
      BY <1>1, <2>1, <2>2, <3>1
  <2>3. CASE i # n - 1
    <3>1. n - 1 - i \in 1 .. n - 1 /\ n - 1 - (n - 1 - i) = i /\ n - (n - 1 - i) = i + 1
      BY <1>1, <2>3
    <3>2. up[n - 1 - i] = Put(c[i], l[i + 1], up[n - 1 - i - 1])
      <4>1. up[n - 1 - i] = Put(c[n - 1 - (n - 1 - i)], l[n - (n - 1 - i)], up[n - 1 - i - 1])
        BY <1>2, <3>1
      <4> QED
        BY <3>1, <4>1
    <3>3. after[i + 1] = up[n - 1 - i - 1]
      BY <1>1, <2>3
    <3>4. HasMember(w[i], l[i + 1]) \/ IsA(w[i], "obj")
      BY <1>1, <2>1
    <3>5. after[i] = Put(w[i], l[i + 1], after[i + 1])
      BY <2>1, <3>2, <3>3
    <3> HIDE DEF after
    <3> QED
      BY <3>5, <3>4, PutSetsOne
  <2> QED
    BY <2>2, <2>3
<1>8. o.op # "remove" => HasMember(after[n - 1], l[n])
  BY <1>1, <1>2, <1>5
<1> HIDE DEF after
<1> QED
  BY <1>5, <1>6, <1>7, <1>8 DEF l, n, w

\* after holds the edited containers on the way to l: each is the one that was
\* there, with one member changed.
EditedAs(v, l, after) ==
    \A i \in 0 .. Len(l) - 1 : Changed(Walk(v, l)[i], l[i + 1], after[i + 1], after[i])

\* The way to m in the edited value: the edited containers as long as the keys
\* are those of l, and what was there from the first key that differs.
WayTo(v, l, m, after) ==
    \A i \in 0 .. Len(m) :
        /\ (i <= Len(l) /\ \A h \in 1 .. i : m[h] = l[h])
             => Walk(after[0], m)[i] = after[i] /\ Walk(v, m)[i] = Walk(v, l)[i]
        /\ (\E h \in 1 .. i : h <= Len(l) /\ m[h] # l[h])
             => Walk(after[0], m)[i] = Walk(v, m)[i]

LEMMA EditedWay ==
  ASSUME NEW v, NEW l, NEW m, NEW after, Pointer(l), Pointer(m), EditedAs(v, l, after)
  PROVE  WayTo(v, l, m, after)
<1> DEFINE w == Walk(v, l)
           x == Walk(v, m)
           y == Walk(after[0], m)
           Same(i) == i <= Len(l) /\ \A h \in 1 .. i : m[h] = l[h]
           Differs(i) == \E h \in 1 .. i : h <= Len(l) /\ m[h] # l[h]
           S == {i \in Nat : i <= Len(m) =>
                   /\ Same(i) => y[i] = after[i] /\ x[i] = w[i]
                   /\ Differs(i) => y[i] = x[i]}
<1>0. Len(l) \in Nat /\ Len(m) \in Nat
  BY DEF Pointer
<1>1. /\ w[0] = v /\ \A i \in 1 .. Len(l) : w[i] = Child(w[i - 1], l[i])
      /\ x[0] = v /\ \A i \in 1 .. Len(m) : x[i] = Child(x[i - 1], m[i])
      /\ y[0] = after[0] /\ \A i \in 1 .. Len(m) : y[i] = Child(y[i - 1], m[i])
  BY <1>0, WalkUnfolds
<1>2. \A i \in 0 .. Len(l) - 1 : Changed(w[i], l[i + 1], after[i + 1], after[i])
  BY DEF EditedAs
<1> HIDE DEF w, x, y
<1>3. 0 \in S
  BY <1>1
<1>4. ASSUME NEW i \in Nat, i \in S PROVE i + 1 \in S
  <2> SUFFICES ASSUME i + 1 <= Len(m)
               PROVE  /\ Same(i + 1) => y[i + 1] = after[i + 1] /\ x[i + 1] = w[i + 1]
                      /\ Differs(i + 1) => y[i + 1] = x[i + 1]
    OBVIOUS
  <2>1. i + 1 \in 1 .. Len(m) /\ (i + 1) - 1 = i /\ i <= Len(m)
    BY <1>0
  <2>2. x[i + 1] = Child(x[i], m[i + 1]) /\ y[i + 1] = Child(y[i], m[i + 1])
    BY <1>1, <2>1
  <2>3. (Same(i) => y[i] = after[i] /\ x[i] = w[i]) /\ (Differs(i) => y[i] = x[i])
    BY <1>4, <2>1
  <2>4. ASSUME Same(i + 1)
        PROVE  y[i + 1] = after[i + 1] /\ x[i + 1] = w[i + 1]
    <3>1. Same(i) /\ m[i + 1] = l[i + 1] /\ i \in 0 .. Len(l) - 1 /\ i + 1 \in 1 .. Len(l)
      BY <1>0, <2>4
    <3>2. y[i] = after[i] /\ x[i] = w[i]
      BY <2>3, <3>1
    <3>3. w[i + 1] = Child(w[i], l[i + 1])
      BY <1>1, <2>1, <3>1
    <3>4. Child(after[i], l[i + 1]) = after[i + 1]
      BY <1>2, <3>1 DEF Changed
    <3> QED
      BY <2>2, <3>1, <3>2, <3>3, <3>4
  <2>5. ASSUME Differs(i + 1)
        PROVE  y[i + 1] = x[i + 1]
    <3>1. CASE Differs(i)
      BY <2>2, <2>3, <3>1
    <3>2. CASE ~Differs(i)
      <4>1. i + 1 <= Len(l) /\ m[i + 1] # l[i + 1]
        BY <2>5, <3>2
      <4>2. Same(i) /\ i \in 0 .. Len(l) - 1
        BY <1>0, <3>2, <4>1
      <4>3. y[i] = after[i] /\ x[i] = w[i]
        BY <2>3, <4>2
      <4>4. Child(after[i], m[i + 1]) = Child(w[i], m[i + 1])
        BY <1>2, <4>1, <4>2 DEF Changed
      <4> QED
        BY <2>2, <4>3, <4>4
    <3> QED
      BY <3>1, <3>2
  <2> QED
    BY <2>4, <2>5
<1>5. Nat \subseteq S
  <2> HIDE DEF S
  <2> QED
    BY <1>3, <1>4, NatSetInduction
<1>6. \A i \in 0 .. Len(m) : /\ Same(i) => y[i] = after[i] /\ x[i] = w[i]
                             /\ Differs(i) => y[i] = x[i]
  BY <1>0, <1>5
<1> QED
  BY <1>6 DEF w, x, y, WayTo

\* An operation in place sets or removes the value at its path, changes no
\* location apart from it, and leaves itself and every operation apart from it in place.
LEMMA EditInPlace ==
  ASSUME NEW v, NEW o, Pointer(o.path), InPlace(v, o)
  PROVE  LET e == Edit(v, o.op, o.path, o.value)
         IN  /\ e # Error
             /\ ValueAt(e, o.path) = Becomes(o) /\ InPlace(e, o)
             /\ \A m : Pointer(m) /\ Apart(m, o.path) => ValueAt(e, m) = ValueAt(v, m)
             /\ \A p : Pointer(p.path) /\ Apart(p.path, o.path) /\ InPlace(v, p) => InPlace(e, p)
<1> DEFINE l == o.path
           n == Len(l)
           w == Walk(v, l)
           e == Edit(v, o.op, l, o.value)
<1>0. n \in Nat \ {0} /\ DOMAIN l = 1 .. n
  BY InPlaceContainers DEF Pointer
<1>1. PICK after : /\ e = after[0] /\ after[n] = Becomes(o)
                   /\ o.op # "remove" => HasMember(after[n - 1], l[n])
                   /\ \A i \in 0 .. n - 1 : Changed(w[i], l[i + 1], after[i + 1], after[i])
  BY EditedContainers
<1>2. ASSUME NEW m, Pointer(m)
      PROVE  \A i \in 0 .. Len(m) :
               /\ (i <= n /\ \A h \in 1 .. i : m[h] = l[h])
                    => Walk(e, m)[i] = after[i] /\ Walk(v, m)[i] = w[i]
               /\ (\E h \in 1 .. i : h <= n /\ m[h] # l[h]) => Walk(e, m)[i] = Walk(v, m)[i]
  <2>1. Pointer(l) /\ EditedAs(v, l, after)
    BY <1>1 DEF EditedAs
  <2>2. e = after[0]
    BY <1>1
  <2> HIDE DEF e, l
  <2>3. WayTo(v, l, m, after)
    BY <1>2, <2>1, EditedWay
  <2> QED
    BY <2>2, <2>3 DEF WayTo
<1> HIDE DEF e, w, n, l
<1>3. e # Error
  <2>1. 0 \in 0 .. n - 1 /\ 0 + 1 = 1
    BY <1>0
  <2> QED
    BY <1>1, <2>1 DEF Changed
<1>4. ValueAt(e, l) = Becomes(o)
  <2>1. n \in 0 .. Len(l) /\ n <= n
    BY <1>0 DEF n
  <2>2. Walk(e, l)[n] = after[n]
    BY <1>2, <2>1 DEF l
  <2> QED
    BY <1>1, <2>2 DEF ValueAt, n
<1>5. ASSUME NEW m, Pointer(m), Apart(m, l)
      PROVE  ValueAt(e, m) = ValueAt(v, m)
  <2>1. PICK h \in DOMAIN m \cap DOMAIN l : m[h] # l[h]
    BY <1>5 DEF Apart
  <2>2. Len(m) \in Nat /\ h \in 1 .. Len(m) /\ h <= n
    BY <1>0, <1>5 DEF Pointer
  <2>3. Len(m) \in 0 .. Len(m)
    BY <2>2
  <2>4. Walk(e, m)[Len(m)] = Walk(v, m)[Len(m)]
    BY <1>2, <1>5, <2>1, <2>2, <2>3
  <2> QED
    BY <2>4 DEF ValueAt
<1>6. ASSUME NEW p, Pointer(p.path), Apart(p.path, l), InPlace(v, p)
      PROVE  InPlace(e, p)
  <2> DEFINE m == p.path
             k == Len(m) - 1
  <2>1. PICK h \in DOMAIN m \cap DOMAIN l : m[h] # l[h]
    BY <1>6 DEF Apart
  <2>2. Len(m) \in Nat /\ h \in 1 .. Len(m) /\ h <= n /\ k \in 0 .. Len(m)
    BY <1>0, <1>6 DEF Pointer
  <2>3. /\ (k <= n /\ \A j \in 1 .. k : m[j] = l[j]) => Walk(e, m)[k] = after[k] /\ Walk(v, m)[k] = w[k]
        /\ (\E j \in 1 .. k : j <= n /\ m[j] # l[j]) => Walk(e, m)[k] = Walk(v, m)[k]
    BY <1>2, <1>6, <2>2
  <2>4. CASE \E j \in 1 .. k : j <= n /\ m[j] # l[j]
    <3>1. HolderOf(e, m) = HolderOf(v, m)
      BY <2>3, <2>4 DEF HolderOf
    <3> QED
      BY <1>6, <3>1 DEF InPlace
  <2>5. CASE ~\E j \in 1 .. k : j <= n /\ m[j] # l[j]
    <3>1. h = Len(m) /\ k <= n /\ k \in 0 .. n - 1 /\ k + 1 = Len(m)
      BY <1>0, <2>1, <2>2, <2>5
    <3>2. \A j \in 1 .. k : m[j] = l[j]
      BY <1>0, <2>5, <3>1
    <3>3. Walk(e, m)[k] = after[k] /\ Walk(v, m)[k] = w[k]
      BY <2>3, <3>1, <3>2
    <3>4. m[Len(m)] # l[k + 1]
      BY <2>1, <3>1
    <3>5. Changed(w[k], l[k + 1], after[k + 1], after[k])
      BY <1>1, <3>1
    <3>6. /\ IsA(after[k], "obj") <=> IsA(w[k], "obj")
          /\ HasMember(after[k], m[Len(m)]) <=> HasMember(w[k], m[Len(m)])
      BY <3>4, <3>5 DEF Changed
    <3>7. /\ IsA(HolderOf(e, m), "obj") <=> IsA(HolderOf(v, m), "obj")
          /\ HasMember(HolderOf(e, m), m[Len(m)]) <=> HasMember(HolderOf(v, m), m[Len(m)])
      BY <3>3, <3>6 DEF HolderOf
    <3> QED
      BY <1>6, <3>7 DEF InPlace
  <2> QED
    BY <2>4, <2>5
<1>7. InPlace(e, o)
  <2>1. n - 1 \in 0 .. Len(l) /\ n - 1 \in 0 .. n - 1 /\ (n - 1) + 1 = n /\ n - 1 <= n
    BY <1>0 DEF n
  <2>2. Walk(e, l)[n - 1] = after[n - 1]
    BY <1>2, <2>1 DEF l
  <2>3. Changed(w[n - 1], l[n], after[n], after[n - 1])
    BY <1>1, <2>1
  <2>4. /\ o.op # "remove" => HasMember(after[n - 1], l[n])
        /\ IsA(after[n - 1], "obj") <=> IsA(w[n - 1], "obj")
    BY <1>1, <2>3 DEF Changed
  <2>5. /\ o.op # "remove" => HasMember(HolderOf(e, l), l[Len(l)])
        /\ IsA(HolderOf(e, l), "obj") <=> IsA(HolderOf(v, l), "obj")
    BY <2>2, <2>4 DEF HolderOf, n, w
  <2> QED
    BY <2>5 DEF InPlace, l
<1> QED
  BY <1>3, <1>4, <1>5, <1>6, <1>7 DEF e, l

\* A patch whose operations are in place and apart from each other succeeds,
\* sets or removes every value and changes no location apart from all of them.
LEMMA PatchInPlace ==
  ASSUME NEW ps, Len(ps) \in Nat, NEW v, v # Error,
         \A i \in 1 .. Len(ps) : Pointer(ps[i].path) /\ InPlace(v, ps[i]),
         \A i, j \in 1 .. Len(ps) : ps[i] = ps[j] \/ Apart(ps[i].path, ps[j].path)
  PROVE  LET new == ApplyAll(ps, v)
         IN  /\ new # Error
             /\ \A i \in 1 .. Len(ps) : ValueAt(new, ps[i].path) = Becomes(ps[i])
             /\ \A m : Pointer(m) /\ (\A i \in 1 .. Len(ps) : Apart(m, ps[i].path))
                        => ValueAt(new, m) = ValueAt(v, m)
<1> DEFINE n == Len(ps)
           Clear(m) == Pointer(m) /\ \A j \in 1 .. n : Apart(m, ps[j].path)
<1>1. PICK f : /\ f[0] = v /\ ApplyAll(ps, v) = f[n]
               /\ \A i \in 1 .. n : f[i - 1] # Error =>
                    f[i] = Edit(f[i - 1], ps[i].op, ps[i].path, ps[i].value)
  BY ApplyAllUnfolds
<1> DEFINE Good(i) == /\ f[i] # Error
                      /\ \A j \in 1 .. n : InPlace(f[i], ps[j])
                      /\ \A j \in 1 .. n : j <= i => ValueAt(f[i], ps[j].path) = Becomes(ps[j])
                      /\ \A m : Clear(m) => ValueAt(f[i], m) = ValueAt(v, m)
           S == {i \in Nat : i <= n => Good(i)}
<1>2. 0 \in S
  <2>1. f[0] # Error /\ \A j \in 1 .. n : InPlace(f[0], ps[j])
    BY <1>1
  <2>2. \A j \in 1 .. n : ~(j <= 0)
    OBVIOUS
  <2>3. \A m : ValueAt(f[0], m) = ValueAt(v, m)
    BY <1>1
  <2> QED
    BY <2>1, <2>2, <2>3
<1>3. ASSUME NEW i \in Nat, i \in S PROVE i + 1 \in S
  <2> SUFFICES ASSUME i + 1 <= n PROVE Good(i + 1)
    OBVIOUS
  <2> DEFINE o == ps[i + 1]
             e == Edit(f[i], o.op, o.path, o.value)
  <2>1. i + 1 \in 1 .. n /\ (i + 1) - 1 = i /\ i <= n
    OBVIOUS
  <2>2. Good(i)
    BY <1>3, <2>1
  <2>3. f[i + 1] = e
    BY <1>1, <2>1, <2>2
  <2>4. Pointer(o.path) /\ InPlace(f[i], o)
    BY <2>1, <2>2
  <2>5. /\ e # Error
        /\ ValueAt(e, o.path) = Becomes(o) /\ InPlace(e, o)
        /\ \A m : Pointer(m) /\ Apart(m, o.path) => ValueAt(e, m) = ValueAt(f[i], m)
        /\ \A p : Pointer(p.path) /\ Apart(p.path, o.path) /\ InPlace(f[i], p) => InPlace(e, p)
    <3> HIDE DEF o
    <3> QED
      BY <2>4, EditInPlace
  <2>6. \A j \in 1 .. n : ps[j] = o \/ Apart(ps[j].path, o.path)
    BY <2>1
  <2> HIDE DEF e, o
  <2>7. \A j \in 1 .. n : InPlace(e, ps[j])
    BY <2>2, <2>5, <2>6
  <2>8. ASSUME NEW j \in 1 .. n, j <= i + 1
        PROVE  ValueAt(e, ps[j].path) = Becomes(ps[j])
    <3>1. CASE ps[j] = o
      BY <2>5, <3>1
    <3>2. CASE ps[j] # o
      <4>1. Apart(ps[j].path, o.path) /\ j <= i
        BY <2>6, <2>8, <3>2 DEF o
      <4>2. ValueAt(f[i], ps[j].path) = Becomes(ps[j])
        BY <2>2, <4>1
      <4> QED
        BY <2>5, <4>1, <4>2
    <3> QED
      BY <3>1, <3>2
  <2>9. ASSUME NEW m, Clear(m) PROVE ValueAt(e, m) = ValueAt(v, m)
    <3>1. Apart(m, o.path) /\ Pointer(m)
      BY <2>1, <2>9 DEF o
    <3>2. ValueAt(f[i], m) = ValueAt(v, m)
      BY <2>2, <2>9
    <3> QED
      BY <2>5, <3>1, <3>2
  <2> QED
    BY <2>3, <2>5, <2>7, <2>8, <2>9
<1>4. Nat \subseteq S
  <2> HIDE DEF S
  <2> QED
    BY <1>2, <1>3, NatSetInduction
<1>5. Good(n)
  BY <1>4
<1> QED
  BY <1>1, <1>5

-----------------------------------------------------------------------------
(* Paths and items                                                         *)

\* f holds the readable ones of the first n keys.
ReadOn(before, key) == IF key \in Unreadable THEN before ELSE Append(before, Printed(key))

Reads(f, n, keys) == f = [i \in 0 .. n |-> IF i = 0 THEN << >> ELSE ReadOn(f[i - 1], keys[i])]

LEMMA ReadsExist ==
  ASSUME NEW keys
  PROVE  \A n \in Nat : \E f : Reads(f, n, keys)
<1> DEFINE S == {n \in Nat : \E f : Reads(f, n, keys)}
<1>1. 0 \in S
  <2> DEFINE f == [i \in 0 .. 0 |-> << >>]
  <2>1. Reads(f, 0, keys)
    BY DEF Reads
  <2> QED
    BY <2>1
<1>2. ASSUME NEW n \in Nat, n \in S PROVE n + 1 \in S
  <2>1. PICK g : Reads(g, n, keys)
    BY <1>2
  <2> DEFINE f == [i \in 0 .. n + 1 |-> IF i = n + 1 THEN ReadOn(g[n], keys[n + 1]) ELSE g[i]]
  <2>3. ASSUME NEW i \in 0 .. n + 1
        PROVE  f[i] = IF i = 0 THEN << >> ELSE ReadOn(f[i - 1], keys[i])
    <3>1. CASE i = n + 1
      BY <3>1
    <3>2. CASE i \in 0 .. n
      BY <2>1, <3>2 DEF Reads
    <3> QED
      BY <3>1, <3>2
  <2>4. Reads(f, n + 1, keys)
    BY <2>3 DEF Reads
  <2> QED
    BY <2>4
<1> HIDE DEF S
<1>3. Nat \subseteq S
  BY <1>1, <1>2, NatSetInduction
<1> QED
  BY <1>3 DEF S

LEMMA KeyPartsTyped ==
  ASSUME NEW keys \in Seq(Keys)
  PROVE  keyPartsFromSelectKey(keys) \in Seq(Keys)
<1> DEFINE f == CHOOSE f : Reads(f, Len(keys), keys)
           S == {i \in Nat : i <= Len(keys) => f[i] \in Seq(Keys)}
<1>1. Reads(f, Len(keys), keys)
  BY ReadsExist
<1>2. keyPartsFromSelectKey(keys) = f[Len(keys)]
  BY DEF keyPartsFromSelectKey, Reads, ReadOn
<1> HIDE DEF f
<1>3. 0 \in S
  <2>1. f[0] = << >>
    BY <1>1 DEF Reads
  <2>2. f[0] \in Seq(Keys)
    BY <2>1
  <2> QED
    BY <2>2
<1>4. ASSUME NEW i \in Nat, i \in S PROVE i + 1 \in S
  <2> SUFFICES ASSUME i + 1 <= Len(keys) PROVE f[i + 1] \in Seq(Keys)
    OBVIOUS
  <2>1. keys[i + 1] \in Keys /\ f[i] \in Seq(Keys)
    BY <1>4
  <2>2. Printed(keys[i + 1]) \in Keys
    BY <2>1, KeysAssumption DEF Printed
  <2>3. f[i + 1] = ReadOn(f[i], keys[i + 1])
    BY <1>1 DEF Reads
  <2>4. \A before \in Seq(Keys) : ReadOn(before, keys[i + 1]) \in Seq(Keys)
    BY <2>2 DEF ReadOn
  <2> QED
    BY <2>1, <2>3, <2>4
<1>5. Nat \subseteq S
  <2> HIDE DEF S
  <2> QED
    BY <1>3, <1>4, NatSetInduction
<1> QED
  BY <1>2, <1>5

\* f holds the paths that the first n elements of a template stand for.
FillOn(before, parts, element, first) == before \o Filled(parts, element, first)

Fills(f, n, parts, template, first) ==
    f = [i \in 0 .. n |-> IF i = 0 THEN << >> ELSE FillOn(f[i - 1], parts, template[i], first)]

LEMMA FillsExist ==
  ASSUME NEW parts, NEW template, NEW first
  PROVE  \A n \in Nat : \E f : Fills(f, n, parts, template, first)
<1> DEFINE S == {n \in Nat : \E f : Fills(f, n, parts, template, first)}
<1>1. 0 \in S
  <2> DEFINE f == [i \in 0 .. 0 |-> << >>]
  <2>1. Fills(f, 0, parts, template, first)
    BY DEF Fills
  <2> QED
    BY <2>1
<1>2. ASSUME NEW n \in Nat, n \in S PROVE n + 1 \in S
  <2>1. PICK g : Fills(g, n, parts, template, first)
    BY <1>2
  <2> DEFINE f == [i \in 0 .. n + 1 |-> IF i = n + 1 THEN FillOn(g[n], parts, template[n + 1], first) ELSE g[i]]
  <2>3. ASSUME NEW i \in 0 .. n + 1
        PROVE  f[i] = IF i = 0 THEN << >> ELSE FillOn(f[i - 1], parts, template[i], first)
    <3>1. CASE i = n + 1
      BY <3>1
    <3>2. CASE i \in 0 .. n
      BY <2>1, <3>2 DEF Fills
    <3> QED
      BY <3>1, <3>2
  <2>4. Fills(f, n + 1, parts, template, first)
    BY <2>3 DEF Fills
  <2> QED
    BY <2>4
<1> HIDE DEF S
<1>3. Nat \subseteq S
  BY <1>1, <1>2, NatSetInduction
<1> QED
  BY <1>3 DEF S

\* The path of an operation is a list of keys.
LEMMA PathTyped ==
  ASSUME NEW parts \in Seq(Keys), NEW template \in Seq(PathParts)
  PROVE  pathFromKeyParts(parts, template) \in Seq(Keys)
<1> DEFINE n == Len(template)
           f == CHOOSE f : Fills(f, n, parts, template, 1)
           S == {i \in Nat : i <= n => f[i] \in Seq(Keys)}
<1>0. n \in Nat
  OBVIOUS
<1>1. Fills(f, n, parts, template, 1)
  BY <1>0, FillsExist
<1>2. pathFromKeyParts(parts, template) = f[n]
  BY DEF pathFromKeyParts, FilledPath, Fills, FillOn
<1> HIDE DEF f
<1>3. 0 \in S
  <2>1. f[0] = << >>
    BY <1>1 DEF Fills
  <2>2. f[0] \in Seq(Keys)
    BY <2>1
  <2> QED
    BY <2>2
<1>4. ASSUME NEW i \in Nat, i \in S PROVE i + 1 \in S
  <2> SUFFICES ASSUME i + 1 <= n PROVE f[i + 1] \in Seq(Keys)
    OBVIOUS
  <2> DEFINE e == template[i + 1]
  <2>1. e \in PathParts /\ f[i] \in Seq(Keys)
    BY <1>4
  <2>2. Filled(parts, e, 1) \in Seq(Keys)
    <3>1. CASE "hole" \notin DOMAIN e
      <4>1. e.key \in Keys
        BY <2>1, <3>1 DEF PathParts
      <4> QED
        BY <3>1, <4>1 DEF Filled
    <3>2. CASE "hole" \in DOMAIN e
      <4>1. \A k \in Keys : Split(k) \in Seq(Keys)
        BY KeysAssumption DEF Split
      <4>2. BadIndex \in Keys
        BY KeysAssumption
      <4>3. \A i_1 \in DOMAIN parts : parts[i_1] \in Keys
        OBVIOUS
      <4> HIDE DEF e
      <4> QED
        BY <3>2, <4>1, <4>2, <4>3 DEF Filled
    <3> QED
      BY <3>1, <3>2
  <2>3. f[i + 1] = FillOn(f[i], parts, e, 1)
    BY <1>1 DEF Fills
  <2> HIDE DEF e
  <2>4. \A before \in Seq(Keys) : FillOn(before, parts, e, 1) \in Seq(Keys)
    BY <2>2 DEF FillOn
  <2> QED
    BY <2>1, <2>3, <2>4
<1>5. Nat \subseteq S
  <2> HIDE DEF S
  <2> QED
    BY <1>3, <1>4, NatSetInduction
<1> QED
  BY <1>2, <1>5

\* The rule was compiled: all of its selects are parsed.
Compiled(p) == \A i \in DOMAIN p : ~(HasSelect(p[i]) /\ Refused(p[i].select))

\* An operation has finitely many items, with keys that are strings.
LEMMA ItemsTyped ==
  ASSUME NEW p \in Patches, NEW d \in Manifests, Compiled(p), NEW i \in DOMAIN p
  PROVE  /\ IsFiniteSet(Items(p[i], d))
         /\ \A m \in Items(p[i], d) : m.keys \in Seq(Keys)
<1>1. CASE HasSelect(p[i])
  <2> DEFINE found == Found(p[i].select, d)
             D == DOMAIN found
             Of(t) == [text |-> t, keys |-> keyPartsFromSelectKey(t), item |-> found[t]]
             T == {Of(t) : t \in D}
             f == [t \in D |-> Of(t)]
  <2>1. Items(p[i], d) = T
    BY <1>1 DEF Items, ItemsOf
  <2>2. IsFiniteSet(D) /\ \A t \in D : t \in Seq(Keys)
    BY <1>1, FoundAssumption DEF Compiled
  <2> HIDE DEF D
  <2>3. f \in Surjection(D, T)
    <3>1. f \in [D -> T]
      OBVIOUS
    <3>2. \A y \in T : \E t \in D : f[t] = y
      OBVIOUS
    <3> QED
      BY <3>1, <3>2 DEF Surjection
  <2>4. IsFiniteSet(T)
    <3> HIDE DEF T, f
    <3> QED
      BY <2>2, <2>3, FS_Surjection
  <2>5. \A m \in T : m.keys \in Seq(Keys)
    BY <2>2, KeyPartsTyped
  <2> QED
    BY <2>1, <2>4, <2>5
<1>2. CASE ~HasSelect(p[i])
  <2>1. Items(p[i], d) = {[text |-> << >>, keys |-> << >>, item |-> Null]}
    BY <1>2 DEF Items
  <2>2. IsFiniteSet({[text |-> << >>, keys |-> << >>, item |-> Null]})
    BY FS_Singleton
  <2> QED
    BY <2>1, <2>2
<1> QED
  BY <1>1, <1>2

\* The paths of a rule's operations are JSON pointers.
LEMMA OperationsTyped ==
  ASSUME NEW p \in Patches, NEW d \in Manifests, Compiled(p), NEW o \in AllOperations(p, d)
  PROVE  Pointer(o.path)
<1>0. PICK i \in DOMAIN p : \E m \in Items(p[i], d) : o = OperationFor(p[i], m)
  BY DEF AllOperations, OperationsFor
<1>1. PICK m \in Items(p[i], d) : o = OperationFor(p[i], m)
  BY <1>0
<1>2. m.keys \in Seq(Keys) /\ p[i].path \in Seq(PathParts)
  <2>1. p[i].path \in Seq(IF HasSelect(p[i]) THEN PathParts ELSE [key : Keys])
    BY PatchesAssumption
  <2>2. [key : Keys] \subseteq PathParts
    BY DEF PathParts
  <2>3. p[i].path \in Seq(PathParts)
    <3> DEFINE Plain == [key : Keys]
    <3>0. Plain \subseteq PathParts
      BY <2>2
    <3>1. CASE HasSelect(p[i])
      BY <2>1, <3>1
    <3>2. CASE ~HasSelect(p[i])
      <4>1. p[i].path \in Seq(Plain)
        BY <2>1, <3>2
      <4> HIDE DEF Plain
      <4> QED
        BY <3>0, <4>1
    <3> QED
      BY <3>1, <3>2
  <2> QED
    BY <2>3, ItemsTyped
<1>3. o.path = pathFromKeyParts(m.keys, p[i].path)
  BY <1>1 DEF OperationFor
<1>4. o.path \in Seq(Keys)
  BY <1>2, <1>3, PathTyped
<1> QED
  BY <1>4 DEF Pointer

\* f holds how many items the first operations of a rule have.
Counts(f, n, p, d) ==
    f = [i \in 0 .. n |-> IF i = 0 THEN 0 ELSE f[i - 1] + Cardinality(Items(p[i], d))]

LEMMA CountsExist ==
  ASSUME NEW p, NEW d
  PROVE  \A n \in Nat : \E f : Counts(f, n, p, d)
<1> DEFINE S == {n \in Nat : \E f : Counts(f, n, p, d)}
<1>1. 0 \in S
  <2> DEFINE f == [i \in 0 .. 0 |-> 0]
  <2>1. Counts(f, 0, p, d)
    BY DEF Counts
  <2> QED
    BY <2>1
<1>2. ASSUME NEW n \in Nat, n \in S PROVE n + 1 \in S
  <2>1. PICK g : Counts(g, n, p, d)
    BY <1>2
  <2> DEFINE f == [i \in 0 .. n + 1 |->
                     IF i = n + 1 THEN g[n] + Cardinality(Items(p[n + 1], d)) ELSE g[i]]
  <2>2. ASSUME NEW i \in 0 .. n + 1
        PROVE  f[i] = IF i = 0 THEN 0 ELSE f[i - 1] + Cardinality(Items(p[i], d))
    <3>1. CASE i = n + 1
      BY <3>1
    <3>2. CASE i \in 0 .. n
      BY <2>1, <3>2 DEF Counts
    <3> QED
      BY <3>1, <3>2
  <2>3. Counts(f, n + 1, p, d)
    BY <2>2 DEF Counts
  <2> QED
    BY <2>3
<1> HIDE DEF S
<1>3. Nat \subseteq S
  BY <1>1, <1>2, NatSetInduction
<1> QED
  BY <1>3 DEF S

\* A rule is a sequence of operations.
LEMMA RuleTyped ==
  ASSUME NEW p \in Patches
  PROVE  Len(p) \in Nat /\ DOMAIN p = 1 .. Len(p)
BY PatchesAssumption

LEMMA UptoUnfolds ==
  ASSUME NEW p \in Patches, NEW d \in Manifests, Compiled(p)
  PROVE  LET upto == Upto(p, d)
         IN  /\ upto[0] = 0
             /\ \A i \in 0 .. Len(p) : upto[i] \in Nat
             /\ \A i \in 1 .. Len(p) : /\ Cardinality(Items(p[i], d)) \in Nat
                                       /\ upto[i] = upto[i - 1] + Cardinality(Items(p[i], d))
<1> DEFINE n == Len(p)
           f == CHOOSE f : Counts(f, n, p, d)
           S == {i \in Nat : i <= n => f[i] \in Nat}
<1>0. n \in Nat /\ DOMAIN p = 1 .. n
  BY RuleTyped
<1>1. Counts(f, n, p, d)
  BY <1>0, CountsExist
<1>2. Upto(p, d) = f
  BY DEF Upto, Counts
<1> HIDE DEF f
<1>3. \A i \in 1 .. n : Cardinality(Items(p[i], d)) \in Nat
  BY <1>0, ItemsTyped, FS_CardinalityType
<1>4. /\ f[0] = 0
      /\ \A i \in 1 .. n : f[i] = f[i - 1] + Cardinality(Items(p[i], d))
  BY <1>0, <1>1 DEF Counts
<1>5. 0 \in S
  BY <1>4
<1>6. ASSUME NEW i \in Nat, i \in S PROVE i + 1 \in S
  <2> SUFFICES ASSUME i + 1 <= n PROVE f[i + 1] \in Nat
    OBVIOUS
  <2>1. f[i] \in Nat /\ i + 1 \in 1 .. n /\ (i + 1) - 1 = i
    BY <1>0, <1>6
  <2> HIDE DEF n
  <2> QED
    BY <1>3, <1>4, <2>1
<1>7. Nat \subseteq S
  <2> HIDE DEF S
  <2> QED
    BY <1>5, <1>6, NatSetInduction
<1>8. \A i \in 0 .. n : f[i] \in Nat
  BY <1>0, <1>7
<1> QED
  BY <1>2, <1>3, <1>4, <1>8

-----------------------------------------------------------------------------
(* The calculation                                                         *)

\* The JSON patch so far: the operations before the current one are done; of the
\* current one, the items that are not waiting any more.
Blocks ==
    LET upto == Upto(patch, doc)
    IN  /\ \A i \in 1 .. at - 1 :
             /\ upto[i] <= Len(ops)
             /\ {ops[j] : j \in upto[i - 1] + 1 .. upto[i]} = OperationsFor(patch[i], doc)
        /\ status = "emit" =>
             /\ pathItems \subseteq Items(patch[at], doc)
             /\ Len(ops) + Cardinality(pathItems) = upto[at]
             /\ upto[at - 1] <= Len(ops)
             /\ {ops[j] : j \in upto[at - 1] + 1 .. Len(ops)}
                  = {OperationFor(patch[at], m) : m \in Items(patch[at], doc) \ pathItems}
        /\ status \in {"select", "applied", "unapplied"} => Len(ops) = upto[at - 1]

\* An operation that calculatePatch fails on.
Fails(o) == BadPath(o.path) \/ o.value = Error

CalcTypeOK ==
    /\ status \in {"new", "refused", "select", "emit", "failed", "applied", "unapplied"}
    /\ doc \in Manifests /\ patch \in Patches
    /\ at \in 1 .. Len(patch) + 1 /\ (status = "emit" => at <= Len(patch))
    /\ IF status \in {"new", "refused"} THEN at = 1 /\ ops = << >>
       ELSE ops \in Seq(AllOperations(patch, doc))

\* The inductive invariant.
CalcInv ==
    /\ CalcTypeOK
    /\ status \notin {"new", "refused"} => Compiled(patch)
    /\ status \notin {"new", "refused", "failed"} => Blocks
    /\ status = "failed" => \E o \in AllOperations(patch, doc) : Fails(o)
    /\ status \in {"applied", "unapplied"} =>
          /\ at = Len(patch) + 1 /\ modified = ApplyAll(ops, doc)
          /\ status = "applied" <=> modified # Error

LEMMA CalcInit == SelectInit => CalcInv
<1> SUFFICES ASSUME SelectInit PROVE CalcInv
  OBVIOUS
<1>1. Len(patch) \in Nat
  BY RuleTyped DEF SelectInit
<1>2. CalcTypeOK
  BY <1>1 DEF SelectInit, CalcTypeOK
<1> QED
  BY <1>2 DEF SelectInit, CalcInv

LEMMA CalcCompile == CalcInv /\ Compile => CalcInv'
<1> SUFFICES ASSUME CalcInv, Compile PROVE CalcInv'
  OBVIOUS
<1>1. /\ doc \in Manifests /\ patch \in Patches /\ at = 1 /\ ops = << >>
      /\ doc' = doc /\ patch' = patch /\ at' = at /\ ops' = ops
  BY DEF CalcInv, CalcTypeOK, Compile
<1>2. Len(patch) \in Nat
  BY <1>1, RuleTyped
<1>3. CASE \E i \in DOMAIN patch : HasSelect(patch[i]) /\ Refused(patch[i].select)
  <2>1. status' = "refused"
    BY <1>3 DEF Compile
  <2> QED
    BY <1>1, <1>2, <2>1 DEF CalcInv, CalcTypeOK
<1>4. CASE ~\E i \in DOMAIN patch : HasSelect(patch[i]) /\ Refused(patch[i].select)
  <2>1. status' = "select" /\ Compiled(patch)
    BY <1>4 DEF Compile, Compiled
  <2>2. << >> \in Seq(AllOperations(patch, doc))
    OBVIOUS
  <2>3. CalcTypeOK'
    BY <1>1, <1>2, <2>1, <2>2 DEF CalcTypeOK
  <2>4. Upto(patch, doc)[0] = 0
    BY <1>1, <2>1, UptoUnfolds
  <2>5. Blocks'
    BY <1>1, <2>1, <2>4 DEF Blocks
  <2> QED
    BY <1>1, <2>1, <2>3, <2>5 DEF CalcInv
<1> QED
  BY <1>3, <1>4

\* An item of an operation stands for one of the rule's operations.
LEMMA OfTheRule ==
  ASSUME NEW p, NEW d, NEW i \in DOMAIN p, NEW m \in Items(p[i], d)
  PROVE  OperationFor(p[i], m) \in AllOperations(p, d)
BY DEF AllOperations, OperationsFor

LEMMA CalcSelect == CalcInv /\ Select => CalcInv'
<1> SUFFICES ASSUME CalcInv, Select PROVE CalcInv'
  OBVIOUS
<1> DEFINE upto == Upto(patch, doc)
           items == Items(patch[at], doc)
<1>1. /\ status = "select" /\ at <= Len(patch) /\ at \in 1 .. Len(patch) + 1
      /\ doc \in Manifests /\ patch \in Patches /\ Compiled(patch)
      /\ ops \in Seq(AllOperations(patch, doc)) /\ Blocks
      /\ doc' = doc /\ patch' = patch /\ at' = at /\ ops' = ops
  BY DEF CalcInv, CalcTypeOK, Select
<1>2. Len(patch) \in Nat /\ DOMAIN patch = 1 .. Len(patch) /\ at \in 1 .. Len(patch)
      /\ at \in DOMAIN patch
  BY <1>1, RuleTyped
<1>3. CASE \E m \in items : Misfits(patch[at], m)
  <2>1. PICK m \in items : Misfits(patch[at], m)
    BY <1>3
  <2>2. status' = "failed"
    BY <1>3 DEF Select
  <2>3. OperationFor(patch[at], m) \in AllOperations(patch, doc)
    BY <1>2, OfTheRule
  <2>4. Fails(OperationFor(patch[at], m))
    BY <2>1 DEF Misfits, Fails, OperationFor
  <2>5. CalcTypeOK'
    BY <1>1, <2>2 DEF CalcTypeOK
  <2> QED
    BY <1>1, <2>2, <2>3, <2>4, <2>5 DEF CalcInv
<1>4. CASE ~\E m \in items : Misfits(patch[at], m)
  <2>1. status' = "emit" /\ pathItems' = items
    BY <1>4 DEF Select
  <2>2. /\ \A i \in 0 .. Len(patch) : upto[i] \in Nat
        /\ \A i \in 1 .. Len(patch) : upto[i] = upto[i - 1] + Cardinality(Items(patch[i], doc))
    BY <1>1, UptoUnfolds
  <2>3. /\ Len(ops) = upto[at - 1]
        /\ \A i \in 1 .. at - 1 :
             /\ upto[i] <= Len(ops)
             /\ {ops[j] : j \in upto[i - 1] + 1 .. upto[i]} = OperationsFor(patch[i], doc)
    BY <1>1 DEF Blocks
  <2> HIDE DEF upto
  <2>4. upto[at - 1] \in Nat /\ upto[at] = upto[at - 1] + Cardinality(items)
    BY <1>2, <2>2
  <2> HIDE DEF items
  <2>6. {ops[j] : j \in upto[at - 1] + 1 .. Len(ops)}
          = {OperationFor(patch'[at'], m) : m \in items \ pathItems'}
    <3>1. \A j : j \notin upto[at - 1] + 1 .. Len(ops)
      BY <2>3, <2>4
    <3>2. \A m : m \notin items \ pathItems'
      BY <2>1
    <3> QED
      BY <3>1, <3>2
  <2>7. /\ pathItems' \subseteq items
        /\ Len(ops) + Cardinality(pathItems') = upto[at]
        /\ upto[at - 1] <= Len(ops)
    BY <2>1, <2>3, <2>4
  <2>8. Blocks'
    <3>1. Upto(patch, doc)' = upto /\ Items(patch[at], doc)' = items
      BY <1>1 DEF upto, items
    <3>2. status' = "emit" /\ ~(status' \in {"select", "applied", "unapplied"})
      BY <2>1
    <3>3. \A i \in 1 .. at' - 1 :
            /\ upto[i] <= Len(ops')
            /\ {ops'[j] : j \in upto[i - 1] + 1 .. upto[i]} = OperationsFor(patch'[i], doc')
      BY <1>1, <2>3
    <3>4. /\ pathItems' \subseteq items
          /\ Len(ops') + Cardinality(pathItems') = upto[at']
          /\ upto[at' - 1] <= Len(ops')
      BY <1>1, <2>7
    <3>5. {ops'[j] : j \in upto[at' - 1] + 1 .. Len(ops')}
            = {OperationFor(patch'[at'], m) : m \in items \ pathItems'}
      BY <1>1, <2>6
    <3> QED
      BY <3>1, <3>2, <3>3, <3>4, <3>5 DEF Blocks
  <2>5. CalcTypeOK'
    BY <1>1, <2>1 DEF CalcTypeOK
  <2> QED
    BY <1>1, <2>1, <2>5, <2>8 DEF CalcInv
<1> QED
  BY <1>3, <1>4

\* The elements of an appended sequence: those of a part that it had, and the new
\* one with those of a part up to the end.
AppendedTo(s, o, t, a, b) ==
    /\ Len(t) = Len(s) + 1
    /\ b <= Len(s) => {t[j] : j \in a + 1 .. b} = {s[j] : j \in a + 1 .. b}
    /\ a <= Len(s) => {t[j] : j \in a + 1 .. Len(t)} = {s[j] : j \in a + 1 .. Len(s)} \cup {o}

LEMMA AppendedBlocks ==
  ASSUME NEW T, NEW s \in Seq(T), NEW o \in T, NEW a \in Nat, NEW b \in Nat
  PROVE  Append(s, o) \in Seq(T) /\ AppendedTo(s, o, Append(s, o), a, b)
<1> DEFINE t == Append(s, o)
<1>1. /\ t \in Seq(T) /\ Len(t) = Len(s) + 1 /\ Len(s) \in Nat
      /\ \A j \in 1 .. Len(s) : t[j] = s[j]
      /\ t[Len(s) + 1] = o
  OBVIOUS
<1> HIDE DEF t
<1>2. b <= Len(s) => {t[j] : j \in a + 1 .. b} = {s[j] : j \in a + 1 .. b}
  <2> SUFFICES ASSUME b <= Len(s) PROVE {t[j] : j \in a + 1 .. b} = {s[j] : j \in a + 1 .. b}
    OBVIOUS
  <2>1. \A j \in a + 1 .. b : j \in 1 .. Len(s) /\ t[j] = s[j]
    BY <1>1
  <2> QED
    BY <2>1
<1>3. ASSUME a <= Len(s)
      PROVE  {t[j] : j \in a + 1 .. Len(t)} = {s[j] : j \in a + 1 .. Len(s)} \cup {o}
  <2>1. \A j : j \in a + 1 .. Len(t) <=> j \in a + 1 .. Len(s) \/ j = Len(s) + 1
    BY <1>1, <1>3
  <2>2. \A j \in a + 1 .. Len(s) : t[j] = s[j]
    BY <1>1
  <2> QED
    BY <1>1, <2>1, <2>2
<1>4. AppendedTo(s, o, t, a, b)
  BY <1>1, <1>2, <1>3 DEF AppendedTo
<1> QED
  BY <1>1, <1>4 DEF t

LEMMA CalcEmit == CalcInv /\ Emit => CalcInv'
<1> SUFFICES ASSUME CalcInv, Emit PROVE CalcInv'
  OBVIOUS
<1> DEFINE upto == Upto(patch, doc)
           items == Items(patch[at], doc)
           T == AllOperations(patch, doc)
<1>1. /\ status = "emit" /\ at <= Len(patch) /\ at \in 1 .. Len(patch) + 1
      /\ doc \in Manifests /\ patch \in Patches /\ Compiled(patch)
      /\ ops \in Seq(T) /\ Blocks
      /\ doc' = doc /\ patch' = patch /\ at' = at
  BY DEF CalcInv, CalcTypeOK, Emit
<1>2. Len(patch) \in Nat /\ DOMAIN patch = 1 .. Len(patch) /\ at \in 1 .. Len(patch)
      /\ at \in DOMAIN patch
  BY <1>1, RuleTyped
<1>3. PICK m \in pathItems :
        LET o == OperationFor(patch[at], m)
        IN  \/ o.value = Error /\ status' = "failed" /\ ops' = ops
            \/ /\ o.value # Error /\ status' = "emit"
               /\ pathItems' = pathItems \ {m} /\ ops' = Append(ops, o)
  BY <1>1 DEF Emit
<1> DEFINE o == OperationFor(patch[at], m)
<1>4. /\ pathItems \subseteq items
      /\ Len(ops) + Cardinality(pathItems) = upto[at]
      /\ upto[at - 1] <= Len(ops)
      /\ {ops[j] : j \in upto[at - 1] + 1 .. Len(ops)}
           = {OperationFor(patch[at], k) : k \in items \ pathItems}
      /\ \A i \in 1 .. at - 1 :
            /\ upto[i] <= Len(ops)
            /\ {ops[j] : j \in upto[i - 1] + 1 .. upto[i]} = OperationsFor(patch[i], doc)
  BY <1>1 DEF Blocks
<1>5. o \in T
  BY <1>2, <1>4, OfTheRule
<1>6. CASE o.value = Error /\ status' = "failed" /\ ops' = ops
  <2>1. Fails(o)
    BY <1>6 DEF Fails
  <2>2. CalcTypeOK'
    BY <1>1, <1>6 DEF CalcTypeOK
  <2> HIDE DEF o
  <2> QED
    BY <1>1, <1>5, <1>6, <2>1, <2>2 DEF CalcInv
<1>7. CASE o.value # Error /\ status' = "emit" /\ pathItems' = pathItems \ {m} /\ ops' = Append(ops, o)
  <2>1. IsFiniteSet(items)
    BY <1>1, <1>2, ItemsTyped
  <2>2. IsFiniteSet(pathItems)
    <3> HIDE DEF items
    <3> QED
      BY <1>4, <2>1, FS_Subset
  <2>3. /\ Cardinality(pathItems) \in Nat
        /\ Cardinality(pathItems \ {m}) = Cardinality(pathItems) - 1
    BY <2>2, FS_CardinalityType, FS_RemoveElement
  <2>4. \A i \in 0 .. Len(patch) : upto[i] \in Nat
    BY <1>1, UptoUnfolds
  <2> HIDE DEF o, T, upto, items
  <2>5. /\ ops' \in Seq(T) /\ Len(ops') = Len(ops) + 1 /\ Len(ops) \in Nat
        /\ \A a, b \in Nat : b <= Len(ops) =>
              {ops'[j] : j \in a + 1 .. b} = {ops[j] : j \in a + 1 .. b}
        /\ \A a \in Nat : a <= Len(ops) =>
              {ops'[j] : j \in a + 1 .. Len(ops')} = {ops[j] : j \in a + 1 .. Len(ops)} \cup {o}
    <3>1. ASSUME NEW a \in Nat, NEW b \in Nat
          PROVE  ops' \in Seq(T) /\ AppendedTo(ops, o, ops', a, b)
      <4>1. ops \in Seq(T) /\ o \in T
        BY <1>1, <1>5 DEF T
      <4>2. Append(ops, o) \in Seq(T) /\ AppendedTo(ops, o, Append(ops, o), a, b)
        BY <4>1, AppendedBlocks
      <4> QED
        BY <1>7, <4>2
    <3>2. Len(ops) \in Nat /\ 0 \in Nat
      BY <1>1
    <3>3. ops' \in Seq(T) /\ Len(ops') = Len(ops) + 1
      BY <3>1, <3>2 DEF AppendedTo
    <3>4. \A a, b \in Nat : b <= Len(ops) =>
            {ops'[j] : j \in a + 1 .. b} = {ops[j] : j \in a + 1 .. b}
      BY <3>1 DEF AppendedTo
    <3>5. \A a \in Nat : a <= Len(ops) =>
            {ops'[j] : j \in a + 1 .. Len(ops')} = {ops[j] : j \in a + 1 .. Len(ops)} \cup {o}
      BY <3>1, <3>2 DEF AppendedTo
    <3> QED
      BY <3>2, <3>3, <3>4, <3>5
  <2>6. ASSUME NEW i \in 1 .. at - 1
        PROVE  /\ upto[i] <= Len(ops')
               /\ {ops'[j] : j \in upto[i - 1] + 1 .. upto[i]} = OperationsFor(patch[i], doc)
    <3>1. upto[i] \in Nat /\ upto[i - 1] \in Nat
      BY <1>2, <2>4
    <3>2. /\ upto[i] <= Len(ops)
          /\ {ops[j] : j \in upto[i - 1] + 1 .. upto[i]} = OperationsFor(patch[i], doc)
      BY <1>4
    <3>3. {ops'[j] : j \in upto[i - 1] + 1 .. upto[i]} = {ops[j] : j \in upto[i - 1] + 1 .. upto[i]}
      BY <2>5, <3>1, <3>2
    <3>4. upto[i] <= Len(ops')
      BY <2>5, <3>1, <3>2
    <3> QED
      BY <3>2, <3>3, <3>4
  <2>7. upto[at - 1] \in Nat /\ upto[at] \in Nat
    BY <1>2, <2>4
  <2>8. {ops'[j] : j \in upto[at - 1] + 1 .. Len(ops')}
          = {OperationFor(patch[at], k) : k \in items \ (pathItems \ {m})}
    <3>1. {ops'[j] : j \in upto[at - 1] + 1 .. Len(ops')}
            = {OperationFor(patch[at], k) : k \in items \ pathItems} \cup {o}
      BY <1>4, <2>5, <2>7
    <3>2. \A k : k \in items \ (pathItems \ {m}) <=> k \in items \ pathItems \/ k = m
      BY <1>4
    <3>3. {OperationFor(patch[at], k) : k \in items \ (pathItems \ {m})}
            = {OperationFor(patch[at], k) : k \in items \ pathItems} \cup {OperationFor(patch[at], m)}
      BY <3>2
    <3> QED
      BY <3>1, <3>3 DEF o
  <2>9. /\ pathItems' \subseteq items
        /\ Len(ops') + Cardinality(pathItems') = upto[at]
        /\ upto[at - 1] <= Len(ops')
    <3>1. pathItems' \subseteq items
      BY <1>4, <1>7
    <3>2. Cardinality(pathItems') = Cardinality(pathItems) - 1
      BY <1>7, <2>3
    <3> QED
      BY <1>4, <2>3, <2>5, <2>7, <3>1, <3>2
  <2>10. Blocks'
    <3>1. Upto(patch, doc)' = upto /\ Items(patch[at], doc)' = items
      BY <1>1 DEF upto, items
    <3>2. {OperationFor(patch[at], k) : k \in items \ (pathItems \ {m})}
            = {OperationFor(patch'[at'], k) : k \in items \ pathItems'}
      BY <1>1, <1>7
    <3>3. status' = "emit" /\ ~(status' \in {"select", "applied", "unapplied"})
      BY <1>7
    <3> QED
      BY <1>1, <2>6, <2>8, <2>9, <3>1, <3>2, <3>3 DEF Blocks
  <2>11. CalcTypeOK'
    BY <1>1, <1>7, <2>5 DEF CalcTypeOK, T
  <2> QED
    BY <1>1, <1>7, <2>10, <2>11 DEF CalcInv
<1> QED
  BY <1>3, <1>6, <1>7

LEMMA CalcNextOperation == CalcInv /\ NextOperation => CalcInv'
<1> SUFFICES ASSUME CalcInv, NextOperation PROVE CalcInv'
  OBVIOUS
<1> DEFINE upto == Upto(patch, doc)
<1>1. /\ status = "emit" /\ pathItems = {} /\ at <= Len(patch) /\ at \in 1 .. Len(patch) + 1
      /\ doc \in Manifests /\ patch \in Patches /\ Compiled(patch)
      /\ ops \in Seq(AllOperations(patch, doc)) /\ Blocks
      /\ doc' = doc /\ patch' = patch /\ at' = at + 1 /\ ops' = ops /\ status' = "select"
  BY DEF CalcInv, CalcTypeOK, NextOperation
<1>2. Len(patch) \in Nat /\ at \in 1 .. Len(patch) /\ at' \in 1 .. Len(patch) + 1 /\ at' - 1 = at
  BY <1>1, RuleTyped
<1>3. /\ Len(ops) + Cardinality(pathItems) = upto[at]
      /\ upto[at - 1] <= Len(ops)
      /\ {ops[j] : j \in upto[at - 1] + 1 .. Len(ops)}
           = {OperationFor(patch[at], m) : m \in Items(patch[at], doc) \ pathItems}
      /\ \A i \in 1 .. at - 1 :
           /\ upto[i] <= Len(ops)
           /\ {ops[j] : j \in upto[i - 1] + 1 .. upto[i]} = OperationsFor(patch[i], doc)
  BY <1>1 DEF Blocks
<1>4. Upto(patch, doc)' = upto
  BY <1>1
<1>5. \A i \in 0 .. Len(patch) : upto[i] \in Nat
  BY <1>1, UptoUnfolds
<1> HIDE DEF upto
<1>6. Len(ops) = upto[at] /\ Len(ops) \in Nat
  <2>1. Cardinality(pathItems) = 0
    BY <1>1, FS_EmptySet
  <2>2. Len(ops) \in Nat
    BY <1>1
  <2> QED
    BY <1>3, <2>1, <2>2
<1>7. {ops[j] : j \in upto[at - 1] + 1 .. upto[at]} = OperationsFor(patch[at], doc)
  <2>1. Items(patch[at], doc) \ pathItems = Items(patch[at], doc)
    BY <1>1
  <2> QED
    BY <1>3, <1>6, <2>1 DEF OperationsFor
<1>8. \A i \in 1 .. at :
        /\ upto[i] <= Len(ops)
        /\ {ops[j] : j \in upto[i - 1] + 1 .. upto[i]} = OperationsFor(patch[i], doc)
  <2> SUFFICES ASSUME NEW i \in 1 .. at
               PROVE  /\ upto[i] <= Len(ops)
                      /\ {ops[j] : j \in upto[i - 1] + 1 .. upto[i]} = OperationsFor(patch[i], doc)
    OBVIOUS
  <2>1. CASE i = at
    BY <1>6, <1>7, <2>1
  <2>2. CASE i # at
    <3>1. i \in 1 .. at - 1
      BY <1>2, <2>2
    <3> QED
      BY <1>3, <3>1
  <2> QED
    BY <2>1, <2>2
<1>9. Blocks'
  <2>1. status' = "select" /\ status' # "emit"
    BY <1>1
  <2>2. \A i \in 1 .. at' - 1 :
          /\ upto[i] <= Len(ops')
          /\ {ops'[j] : j \in upto[i - 1] + 1 .. upto[i]} = OperationsFor(patch'[i], doc')
    BY <1>1, <1>2, <1>8
  <2>3. Len(ops') = upto[at' - 1]
    BY <1>1, <1>2, <1>6
  <2> QED
    BY <1>4, <2>1, <2>2, <2>3 DEF Blocks
<1>10. CalcTypeOK'
  BY <1>1, <1>2 DEF CalcTypeOK
<1> QED
  BY <1>1, <1>9, <1>10 DEF CalcInv

LEMMA CalcApply == CalcInv /\ Apply => CalcInv'
<1> SUFFICES ASSUME CalcInv, Apply PROVE CalcInv'
  OBVIOUS
<1>1. /\ status = "select" /\ at > Len(patch) /\ at \in 1 .. Len(patch) + 1
      /\ doc \in Manifests /\ patch \in Patches /\ Compiled(patch)
      /\ ops \in Seq(AllOperations(patch, doc)) /\ Blocks
      /\ doc' = doc /\ patch' = patch /\ at' = at /\ ops' = ops
      /\ modified' = ApplyAll(ops, doc)
      /\ status' = IF modified' = Error THEN "unapplied" ELSE "applied"
  BY DEF CalcInv, CalcTypeOK, Apply
<1>2. at = Len(patch) + 1
  BY <1>1, RuleTyped
<1>3. status' \in {"applied", "unapplied"} /\ (status' = "applied" <=> modified' # Error)
  BY <1>1
<1>4. Blocks'
  BY <1>1, <1>3 DEF Blocks
<1>5. CalcTypeOK'
  BY <1>1, <1>3 DEF CalcTypeOK
<1>6. modified' = ApplyAll(ops', doc') /\ at' = Len(patch') + 1
  BY <1>1, <1>2
<1>7. status' \notin {"new", "refused", "failed"}
  BY <1>3
<1> QED
  BY <1>1, <1>3, <1>4, <1>5, <1>6, <1>7 DEF CalcInv

\* The inductive invariant of the calculation of a patch.
THEOREM CalcInvariance == SelectSpec => []CalcInv
<1>1. CalcInv /\ UNCHANGED selectVars => CalcInv'
  <2> SUFFICES ASSUME CalcInv, UNCHANGED selectVars PROVE CalcInv'
    OBVIOUS
  <2>1. /\ status' = status /\ doc' = doc /\ patch' = patch /\ at' = at
        /\ pathItems' = pathItems /\ ops' = ops /\ modified' = modified
    BY DEF selectVars
  <2>2. CalcTypeOK'
    BY <2>1 DEF CalcInv, CalcTypeOK
  <2>3. ASSUME Blocks PROVE Blocks'
    <3> DEFINE upto == Upto(patch, doc)
               items == Items(patch[at], doc)
    <3>1. upto' = upto /\ items' = items
      BY <2>1
    <3>2. /\ \A i \in 1 .. at - 1 :
               /\ upto[i] <= Len(ops)
               /\ {ops[j] : j \in upto[i - 1] + 1 .. upto[i]} = OperationsFor(patch[i], doc)
          /\ status = "emit" =>
               /\ pathItems \subseteq items
               /\ Len(ops) + Cardinality(pathItems) = upto[at]
               /\ upto[at - 1] <= Len(ops)
          /\ status = "emit" =>
               {ops[j] : j \in upto[at - 1] + 1 .. Len(ops)}
                 = {OperationFor(patch[at], m) : m \in items \ pathItems}
          /\ status \in {"select", "applied", "unapplied"} => Len(ops) = upto[at - 1]
      BY <2>3 DEF Blocks
    <3> HIDE DEF upto, items
    <3>3. \A i \in 1 .. at' - 1 :
            /\ upto[i] <= Len(ops')
            /\ {ops'[j] : j \in upto[i - 1] + 1 .. upto[i]} = OperationsFor(patch'[i], doc')
      BY <2>1, <3>2
    <3>4. status' = "emit" =>
            /\ pathItems' \subseteq items
            /\ Len(ops') + Cardinality(pathItems') = upto[at']
            /\ upto[at' - 1] <= Len(ops')
      BY <2>1, <3>2
    <3>5. status' = "emit" =>
            {ops'[j] : j \in upto[at' - 1] + 1 .. Len(ops')}
              = {OperationFor(patch'[at'], m) : m \in items \ pathItems'}
      BY <2>1, <3>2
    <3>6. status' \in {"select", "applied", "unapplied"} => Len(ops') = upto[at' - 1]
      BY <2>1, <3>2
    <3>7. Upto(patch, doc)' = upto /\ Items(patch[at], doc)' = items
      BY <3>1 DEF upto, items
    <3> QED
      BY <3>3, <3>4, <3>5, <3>6, <3>7 DEF Blocks
  <2> QED
    BY <2>1, <2>2, <2>3 DEF CalcInv
<1>2. CalcInv /\ [SelectNext]_selectVars => CalcInv'
  BY <1>1, CalcCompile, CalcSelect, CalcEmit, CalcNextOperation, CalcApply DEF SelectNext
<1> QED
  BY <1>2, CalcInit, PTL DEF SelectSpec

\* For any engine, any rules and any manifests, the JSON patch has the rule's
\* operations in their order, each with one operation for every item.
THEOREM EveryItemInTurn == SelectSpec => []EmittedInTurn
<1>1. CalcInv => EmittedInTurn
  BY DEF CalcInv, Blocks, EmittedInTurn
<1> QED
  BY <1>1, CalcInvariance, PTL

\* Once all operations have had their turn, the JSON patch consists of the rule's
\* operations.
LEMMA PatchComplete ==
  ASSUME CalcInv, status \in {"applied", "unapplied"}
  PROVE  /\ Len(ops) \in Nat
         /\ \A j \in 1 .. Len(ops) : ops[j] \in AllOperations(patch, doc)
         /\ \A o \in AllOperations(patch, doc) : \E j \in 1 .. Len(ops) : ops[j] = o
<1> DEFINE upto == Upto(patch, doc)
<1>1. /\ doc \in Manifests /\ patch \in Patches /\ Compiled(patch) /\ at = Len(patch) + 1
      /\ ops \in Seq(AllOperations(patch, doc)) /\ Blocks
  BY DEF CalcInv, CalcTypeOK
<1>2. Len(patch) \in Nat /\ DOMAIN patch = 1 .. Len(patch)
  BY <1>1, RuleTyped
<1>3. Len(ops) \in Nat /\ \A j \in 1 .. Len(ops) : ops[j] \in AllOperations(patch, doc)
  BY <1>1
<1>4. \A i \in 0 .. Len(patch) : upto[i] \in Nat
  BY <1>1, UptoUnfolds
<1>5. \A i \in 1 .. Len(patch) :
        /\ upto[i] <= Len(ops)
        /\ {ops[j] : j \in upto[i - 1] + 1 .. upto[i]} = OperationsFor(patch[i], doc)
  BY <1>1, <1>2 DEF Blocks
<1> HIDE DEF upto
<1>6. ASSUME NEW o \in AllOperations(patch, doc)
      PROVE  \E j \in 1 .. Len(ops) : ops[j] = o
  <2>1. PICK i \in 1 .. Len(patch) : o \in OperationsFor(patch[i], doc)
    BY <1>2 DEF AllOperations
  <2>2. PICK j \in upto[i - 1] + 1 .. upto[i] : ops[j] = o
    BY <1>5, <2>1
  <2>3. upto[i - 1] \in Nat /\ upto[i] \in Nat /\ upto[i] <= Len(ops)
    BY <1>2, <1>4, <1>5
  <2>4. j \in 1 .. Len(ops)
    BY <1>3, <2>3
  <2> QED
    BY <2>2, <2>4
<1> QED
  BY <1>3, <1>6

\* For any engine, any rules and any manifests, a rule whose operations are in
\* place and apart from each other is applied, sets each value it has from the
\* manifest as it was, removes what it removes, and changes no other location: no order in which Go
\* iterates over the items, and no operation before another one, can spoil it.
THEOREM SetsExactly == SelectSpec => []SetExactly
<1>1. CalcInv => SetExactly
  <2> SUFFICES ASSUME CalcInv, status \in {"failed", "applied", "unapplied"}, InPlaceAndApart
               PROVE  /\ status = "applied"
                      /\ \A o \in AllOperations(patch, doc) : ValueAt(modified, o.path) = Becomes(o)
                      /\ \A l \in Places : (\A o \in AllOperations(patch, doc) : Apart(l, o.path))
                                              => ValueAt(modified, l) = ValueAt(doc, l)
    BY DEF SetExactly
  <2>1. /\ \A o \in AllOperations(patch, doc) : ~Fails(o) /\ InPlace(doc, o)
        /\ \A o, p \in AllOperations(patch, doc) : o = p \/ Apart(o.path, p.path)
    BY DEF InPlaceAndApart, Fails
  <2>2. status \in {"applied", "unapplied"}
    BY <2>1 DEF CalcInv
  <2>3. /\ doc \in Manifests /\ patch \in Patches /\ Compiled(patch)
        /\ modified = ApplyAll(ops, doc)
        /\ status = "applied" <=> modified # Error
    BY <2>2 DEF CalcInv, CalcTypeOK
  <2>4. /\ Len(ops) \in Nat
        /\ \A j \in 1 .. Len(ops) : ops[j] \in AllOperations(patch, doc)
        /\ \A o \in AllOperations(patch, doc) : \E j \in 1 .. Len(ops) : ops[j] = o
    BY <2>2, PatchComplete
  <2>5. doc # Error
    BY <2>3, ManifestsAssumption
  <2>6. \A i \in 1 .. Len(ops) : Pointer(ops[i].path) /\ InPlace(doc, ops[i])
    BY <2>1, <2>3, <2>4, OperationsTyped
  <2>7. \A i, j \in 1 .. Len(ops) : ops[i] = ops[j] \/ Apart(ops[i].path, ops[j].path)
    BY <2>1, <2>4
  <2>8. /\ ApplyAll(ops, doc) # Error
        /\ \A i \in 1 .. Len(ops) : ValueAt(ApplyAll(ops, doc), ops[i].path) = Becomes(ops[i])
        /\ \A m : Pointer(m) /\ (\A i \in 1 .. Len(ops) : Apart(m, ops[i].path))
                    => ValueAt(ApplyAll(ops, doc), m) = ValueAt(doc, m)
    BY <2>4, <2>5, <2>6, <2>7, PatchInPlace
  <2>9. \A o \in AllOperations(patch, doc) : ValueAt(modified, o.path) = Becomes(o)
    <3> SUFFICES ASSUME NEW o \in AllOperations(patch, doc)
                 PROVE  ValueAt(modified, o.path) = Becomes(o)
      OBVIOUS
    <3>1. PICK j \in 1 .. Len(ops) : ops[j] = o
      BY <2>4
    <3> QED
      BY <2>3, <2>8, <3>1
  <2>10. ASSUME NEW l \in Places, \A o \in AllOperations(patch, doc) : Apart(l, o.path)
         PROVE  ValueAt(modified, l) = ValueAt(doc, l)
    <3>1. Pointer(l)
      BY PlacesAssumption DEF Pointer
    <3>2. \A i \in 1 .. Len(ops) : Apart(l, ops[i].path)
      BY <2>4, <2>10
    <3> QED
      BY <2>3, <2>8, <3>1, <3>2
  <2> QED
    BY <2>3, <2>8, <2>9, <2>10
<1> QED
  BY <1>1, CalcInvariance, PTL

=============================================================================
