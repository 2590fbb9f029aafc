----------------------------- MODULE MCSelect -----------------------------
(***************************************************************************)
(* Two questions about the queries of a rule.  One initial state for every *)
(* match item and every result of its select over two values: isMatch      *)
(* against the README.  One behaviour for every manifest and every patch   *)
(* with a select: the engine and the patch it leads to, with the items in  *)
(* every order.                                                            *)
(***************************************************************************)
EXTENDS MatchReadme, PatchSelect

MCNamespaces == {"ns"}
MCClusterNamespace == "ns"
MCMinInt16 == -2
MCMaxInt16 == 1
MCModRules == {}
MCTexts == {"x", "y"}
MCMaxValues == 3

----------------------------------------------------------------------------
(* Manifests: an array of up to three members, a field beside it whose     *)
(* keys are harder to write, and a nest of objects for "..".               *)

Members == { Obj([n |-> Str("x"), p |-> Num(1)]), Obj([n |-> Str("y")]), Obj([p |-> Num(2)]),
             Obj([n |-> Str("x"), s |-> Obj([r |-> Bool(TRUE)])]) }

Lists(max) == UNION {[1 .. n -> Members] : n \in 0 .. max}

MCManifests ==
    {Obj([c |-> Arr(l)]) : l \in Lists(3)}
    \cup {Obj([c |-> Null]), Obj([c |-> Str("1")]),
          Obj([c |-> Obj([x |-> Obj([n |-> Str("1")]), y |-> Obj([n |-> Str("y")])])]),
          Obj([c |-> Obj([k \in {"a/b", "01", "a[b"} |-> Obj([n |-> Str("x")])])]),
          Obj([c |-> Obj([n |-> Obj([x |-> Obj([s |-> Num(1)])]),
                          x |-> Obj([n |-> Obj([s |-> Num(2)])])])])}

----------------------------------------------------------------------------
(* Queries                                                                 *)

At(key) == Current(<<direct(Lit(Str(key)))>>)
AtAt(key, sub) == Current(<<direct(Lit(Str(key))), direct(Lit(Str(sub)))>>)
S(s) == Lit(Str(s))
N(n) == Lit(Num(n))
Filter(e) == Bracket("?", <<e>>)
C == Ident("c")
IsX == Op(At("n"), "==", S("x"))

\* Filters of the members of c.
Filters ==
    { IsX, Op(At("n"), "!=", S("x")), Op(At("p"), ">", N(1)),
      Op(AtAt("s", "r"), "&&", IsX), Op(AtAt("s", "r"), "||", IsX),
      Op(At("p"), "&&", IsX), Op(At("n"), "==", At("p")),
      Negation(IsX), Fn("isUndefined", AtAt("s", "r")), Fn("isNotEmpty", At("n")),
      Op(Fn("length", At("n")), ">", N(0)), Op(Fn("isEmpty", At("n")), "&&", Fn("isDefined", At("p"))),
      Op(S("y"), "in", Root(<<direct(S("c")), star, direct(S("n"))>>)),
      Op(AtAt("s", "r"), "??", Lit(Bool(FALSE))), At("n"),
      Conditional(Fn("isDefined", At("p")), IsX, Lit(Bool(TRUE))) }

Ranges == { <<N(1)>>, <<Omitted, N(2)>>, <<N(-2), N(0)>>, <<N(-5), N(-1)>>, <<N(0), N(-1)>>,
            <<Omitted, Omitted, N(2)>>, <<N(0), N(9), N(-2)>>, <<N(1), N(9), N(0)>>, <<S("x")>>,
            <<N(0), N(1), N(1), N(1)>> }

\* Selects of members of c: one wildcard, at c's key.
MemberSelects ==
    {<<C, Filter(e)>> : e \in Filters} \cup {<<C, Bracket(":", r)>> : r \in Ranges}
    \cup { <<C, Star>>, <<C, Bracket(",", << >>)>>, <<C, Bracket(",", <<N(0), N(2)>>)>>,
           <<C, Bracket("?", <<IsX, IsX>>)>> }

\* Selects with other wildcards, or with none.
OtherSelects ==
    { << >>, <<C>>, <<C, Bracket(",", <<N(1)>>), Ident("n")>>, <<C, Ident("n"), Ident("x")>>,
      <<Star, Star, Ident("n")>>, <<Dots, Ident("n")>>, <<Dots, Bracket(",", <<N(1)>>)>>,
      <<Dots, Star>>, <<Dots, Filter(IsX), Ident("s"), Star>>, <<Dots, Ident("n"), Dots, Ident("s")>>,
      <<Dots, Bracket(",", <<S("n"), S("p")>>)>>, <<C, Script(Current(<<direct(N(0))>>))>>,
      <<Dots, Bracket(":", <<N(1)>>)>>, <<Dots, Dots>>, <<Dots>> }

Operation(op, select, path, value) ==
    [op |-> op, select |-> select, path |-> path, value |-> value]

MCPatches ==
    {<<Operation(op, q, <<Key("c"), Hole(0)>>, Literal(Str("z")))>> :
        op \in {"replace", "remove"}, q \in MemberSelects}
    \cup {<<Operation("replace", q, <<Key("c"), Hole(0), Key("n")>>, Literal(Num(3)))>> :
        q \in {<<C, Star, Ident("n")>>, <<C, Filter(IsX)>>}}
    \cup {<<Operation("replace", q, <<Key("c")>>, Literal(Num(3)))>> : q \in OtherSelects}
    \cup { <<Operation("replace", <<C, Star>>, <<Key("c"), Hole(0), Key("n")>>, ItemField("s", "r"))>>,
           <<Operation("replace", <<Star, Star, Ident("n")>>, <<Hole(0), Hole(1)>>, Item)>>,
           <<Operation("replace", <<Dots, Ident("n")>>, <<Hole(0), Hole(1)>>, Item)>>,
           <<Operation("replace", <<C, Filter(IsX)>>, <<Key("c"), Hole(0), Key("n")>>, Literal(Num(3))),
             Operation("add", <<C, Star>>, <<Key("c"), Hole(0), Key("q")>>, Item)>>,
           <<Operation("remove", <<C, Filter(IsX)>>, <<Key("c"), Hole(0), Key("s")>>, Literal(Null)),
             Operation("replace", <<C, Star, Ident("n")>>, <<Key("c"), Hole(0), Key("n")>>, Item)>>,
           <<Operation("add", <<C, Star>>, <<Key("c"), Hole(0), Key("s"), Key("t")>>, Literal(Num(3))),
             [op |-> "add", path |-> <<Key("c"), Key("0")>>, value |-> Literal(Str("z"))]>> }

MCKeys == STRING

\* Every location of the manifests.
MCPlaces == UNION {Locations(d) : d \in MCManifests}

----------------------------------------------------------------------------
Idle ==
    /\ status = "idle" /\ doc = Null /\ patch = << >>
    /\ at = 1 /\ pathItems = {} /\ ops = << >> /\ modified = Null

\* The item and the result of the behaviours that are about a select.
AnItem == CHOOSE i \in MatchItems : i.negate
AResult == [kind |-> "nil", values |-> << >>]

Init == \/ MatchInit /\ Idle
        \/ item = AnItem /\ result = AResult /\ SelectInit
Next == \/ Compile /\ UNCHANGED <<item, result>>
        \/ Select /\ UNCHANGED <<item, result>>
        \/ Emit /\ UNCHANGED <<item, result>>
        \/ NextOperation /\ UNCHANGED <<item, result>>
        \/ Apply /\ UNCHANGED <<item, result>>
Spec == Init /\ [][Next]_<<selectVars, item, result>>

============================================================================
