---------------------------- MODULE Guardrails ----------------------------
(* The guardrails of a tool call: its arguments against the schema of the     *)
(* tool, against the denied patterns and against the numeric limits.  A value *)
(* is its JSON type, the strings found anywhere in it and, of a number, its   *)
(* size; a pattern is the set of the strings it matches.                      *)
EXTENDS Integers

CONSTANTS Inventory,  \* the registered tools, with their schemas
          Patterns,   \* denied_patterns
          Limits      \* numeric_limits: the bounds of some parameter names

(* The type of a value is compared with one expected type, or with a list of  *)
(* them; only the single type "number" takes an integer as well.  A null has  *)
(* no type here and passes.                                                   *)
fits(value, property) ==
  \/ value.type = "null"
  \/ property.types = {}
  \/ value.type \in property.types
  \/ ~property.listed /\ property.types = {"number"} /\ value.type = "integer"

schema_violations(schema, args) ==
  LET declared == DOMAIN schema.properties
      missing == {p \in schema.required : p \notin DOMAIN args}
      unknown == IF declared = {} THEN {} ELSE DOMAIN args \ declared
      wrong == {p \in DOMAIN args \cap declared : ~fits(args[p], schema.properties[p])}
      unlisted == {p \in DOMAIN args \cap declared :
                     /\ schema.properties[p].enum # {}
                     /\ args[p] \notin schema.properties[p].enum}
  IN missing \cup wrong \cup unlisted \cup (IF schema.closed THEN unknown ELSE {})

(* Names of parameters are not searched, names inside of a value are.         *)
pattern_violations(args) ==
  {pattern \in Patterns : \E p \in DOMAIN args : args[p].strings \cap pattern # {}}

range_violations(args) ==
  {p \in DOMAIN args \cap DOMAIN Limits :
     /\ args[p].type \in {"integer", "number"}
     /\ args[p].n < Limits[p].min \/ args[p].n > Limits[p].max}

violates(call) ==
  \/ schema_violations(Inventory[call.tool], call.args) # {}
  \/ pattern_violations(call.args) # {}
  \/ range_violations(call.args) # {}

(* A call is answered with a rejection, or handed to its tool.                *)
rejected(mode, call) ==
  /\ mode # "off"
  /\ call.tool \notin DOMAIN Inventory \/ (mode = "fail" /\ violates(call))

(* What a tool may rely on, said of the arguments alone: all it requires, of  *)
(* a type it takes, nothing a pattern denies and no number beyond a limit.    *)
reliable(call) ==
  /\ call.tool \in DOMAIN Inventory
  /\ LET schema == Inventory[call.tool] IN
     /\ \A p \in schema.required : p \in DOMAIN call.args
     /\ \A p \in DOMAIN call.args :
          LET v == call.args[p] IN
          /\ \A pattern \in Patterns : v.strings \cap pattern = {}
          /\ v.type \in {"integer", "number"} /\ p \in DOMAIN Limits
               => Limits[p].min <= v.n /\ v.n <= Limits[p].max
          /\ p \in DOMAIN schema.properties /\ schema.properties[p].types # {}
               => \/ v.type \in schema.properties[p].types \cup {"null"}
                  \/ v.type = "integer" /\ "number" \in schema.properties[p].types
=============================================================================
