---------------------------- MODULE MCToolCalls ----------------------------
(* Tools, calls and fallback chains for the model checker.                    *)
EXTENDS Integers

Value(type, strings, n) == [type |-> type, strings |-> strings, n |-> n]
Text(s) == Value("string", {s}, 0)
Typed(types, listed, enum) == [types |-> types, listed |-> listed, enum |-> enum]
Schema(properties, required, closed) ==
  [properties |-> properties, required |-> required, closed |-> closed]

MCInventory ==
  [search |-> Schema([query |-> Typed({"string"}, FALSE, {}),
                      limit |-> Typed({"number"}, FALSE, {})], {"query"}, TRUE),
   pay    |-> Schema([kind |-> Typed({"string"}, FALSE, {Text("good")})], {"kind"}, FALSE),
   shell  |-> Schema([q \in {} |-> 0], {}, FALSE)]
MCPatterns == {{"bad"}}
MCLimits == [limit |-> [min |-> 0, max |-> 2]]

Call(tool, args) == [tool |-> tool, args |-> args]
Arg(name, v) == [n \in {name} |-> v]
MCCalls ==
  {Call("search", [query |-> Text("good"), limit |-> Value("integer", {}, n)]) : n \in {2, 3}}
  \cup {Call("search", Arg("query", v)) : v \in {Text("good"), Value("array", {"good", "bad"}, 0),
                                                Value("null", {}, 0)}}
  \cup {Call("search", Arg("limit", Value("integer", {}, 1))),
        Call("search", [query |-> Text("good"), other |-> Text("good")]),
        Call("pay", Arg("kind", Text("good"))), Call("pay", Arg("kind", Text("bad"))),
        Call("shell", Arg("any", Text("good"))), Call("serch", Arg("query", Text("good")))}

MCChains == {<<>>, <<FALSE>>, <<FALSE, TRUE>>}
=============================================================================
