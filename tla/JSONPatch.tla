----------------------------- MODULE JSONPatch -----------------------------
(***************************************************************************)
(* The JSON Patch library, with jsonPatchApplyOptions: external, modelled  *)
(* from how core/modrulestore.go configures and uses it.  An operation     *)
(* finds the container its path leads to and edits one member of it.       *)
(*                                                                         *)
(* Paths are followed by recursive functions of the number of keys, so     *)
(* that what an edit does can be proved for values of any depth.           *)
(***************************************************************************)
EXTENDS Expressions, SequencesExt

----------------------------------------------------------------------------
(* Members of an object or an array, and the values at locations.  A       *)
(* location is the list of keys from the root to a value.                  *)

HasMember(v, k) ==
    IF IsA(v, "obj") THEN k \in DOMAIN v.obj
    ELSE IsA(v, "arr") /\ \E i \in DOMAIN v.arr : Itoa(i - 1) = k

Position(v, k) == CHOOSE i \in DOMAIN v.arr : Itoa(i - 1) = k

Child(v, k) ==
    IF ~HasMember(v, k) THEN Error
    ELSE IF IsA(v, "obj") THEN v.obj[k] ELSE v.arr[Position(v, k)]

\* The values on the way to a location, Error from where there is none.
Walk(v, location) ==
    LET after[i \in 0 .. Len(location)] ==
          IF i = 0 THEN v ELSE Child(after[i - 1], location[i])
    IN  after

ValueAt(v, location) == Walk(v, location)[Len(location)]

\* The object or array that has what is at a location as a member.
HolderOf(v, location) == Walk(v, location)[Len(location) - 1]

\* Neither of two locations lies within the other.
Apart(l, m) == \E i \in DOMAIN l \cap DOMAIN m : l[i] # m[i]

----------------------------------------------------------------------------
(* Operations                                                              *)

\* v with x as its member k, which is there or is a new one of an object.
Put(v, k, x) ==
    IF IsA(v, "obj")
    THEN Obj([j \in DOMAIN v.obj \cup {k} |-> IF j = k THEN x ELSE v.obj[j]])
    ELSE Arr([v.arr EXCEPT ![Position(v, k)] = x])

\* An operation at member k of v.  An add inserts into an array; a remove of
\* what is not there is ignored; a replace of what is not there fails.
EditMember(v, op, k, value) ==
    CASE op = "replace" -> IF HasMember(v, k) THEN Put(v, k, value) ELSE Error
      [] op = "remove"  -> IF ~HasMember(v, k) THEN v
                           ELSE IF IsA(v, "obj")
                                THEN Obj([j \in DOMAIN v.obj \ {k} |-> v.obj[j]])
                                ELSE Arr(RemoveAt(v.arr, Position(v, k)))
      [] op = "add"     -> IF IsA(v, "obj") THEN Put(v, k, value)
                           ELSE IF IsA(v, "arr") /\ \E i \in 0 .. Len(v.arr) : Itoa(i) = k
                                THEN Arr(InsertAt(v.arr, 1 + CHOOSE i \in 0 .. Len(v.arr) : Itoa(i) = k,
                                                  value))
                                ELSE Error

\* What an operation goes on with below key k of v: an add creates the parents
\* that are missing.
Enter(v, op, k) ==
    IF op = "add" /\ IsA(v, "obj") /\ ~HasMember(v, k) THEN Obj([x \in {} |-> Null])
    ELSE Child(v, k)

\* The containers on the way to the last key of a path, and the same from the
\* last one up once it has been edited.
Containers(v, op, path) ==
    LET after[i \in 0 .. Len(path) - 1] ==
          IF i = 0 THEN v ELSE Enter(after[i - 1], op, path[i])
    IN  after

Rebuilt(containers, path, last) ==
    LET up[i \in 0 .. Len(path) - 1] ==
          IF i = 0 THEN last
          ELSE Put(containers[Len(path) - 1 - i], path[Len(path) - i], up[i - 1])
    IN  up[Len(path) - 1]

\* Operation op with value at path in v: the edited value, or Error.
Edit(v, op, path, value) ==
    LET containers == Containers(v, op, path)
        holder == containers[Len(path) - 1]
        last == EditMember(holder, op, path[Len(path)], value)
    IN  IF holder = Error THEN IF op = "remove" THEN v ELSE Error
        ELSE IF last = Error THEN Error ELSE Rebuilt(containers, path, last)

\* Patch.ApplyWithOptions: Error as soon as one operation fails.
ApplyAll(ops, v) ==
    LET after[i \in 0 .. Len(ops)] ==
          IF i = 0 THEN v
          ELSE IF after[i - 1] = Error THEN Error
          ELSE Edit(after[i - 1], ops[i].op, ops[i].path, ops[i].value)
    IN  after[Len(ops)]

\* An operation that changes a value where it is, and moves no other: it replaces
\* what is there, or adds to or removes from an object that is there.
InPlace(v, o) ==
    /\ o.path # << >>
    /\ LET holder == HolderOf(v, o.path)
       IN  \/ o.op = "replace" /\ HasMember(holder, o.path[Len(o.path)])
           \/ o.op \in {"add", "remove"} /\ IsA(holder, "obj")

\* What is at the path of such an operation afterwards.
Becomes(o) == IF o.op = "remove" THEN Error ELSE o.value

============================================================================
