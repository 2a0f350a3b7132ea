----------------------------- MODULE ToolSchema -----------------------------
(***************************************************************************)
(* The structural gate between the arguments a model writes and the tool   *)
(* that gets them. Values and schemas are JSON as far as the gate looks:   *)
(* a string is its length, a number or a boolean only its type.            *)
(***************************************************************************)
EXTENDS Naturals, Sequences

CONSTANTS
  Values,           \* the values a model may write, and their parts
  Schemas,          \* the schemas in use, and theirs
  Inherited,        \* the names every object has from its prototype
  Depth(_),         \* how many schemas a schema has below it
  MaxDepth

Str(n) == [is |-> "string", len |-> n]
Num == [is |-> "number"]
Null == [is |-> "null"]
List(items) == [is |-> "array", items |-> items]
Object(props) == [is |-> "object", props |-> props]

(* An absent schema, one that is not an object, and one without a type.     *)
NoSchema == [type |-> "none"]
StrSchema(min, max) == [type |-> "string", min |-> min, max |-> max]
NumSchema == [type |-> "number"]
ListSchema(items) == [type |-> "array", items |-> items]
ObjectSchema(props, required, closed) ==
  [type |-> "object", props |-> props, required |-> required, closed |-> closed]

(* properties[key] finds what a schema declares, and what every object       *)
(* inherits: a function, or a prototype without a type. No gate, both.      *)
Named(schema) == DOMAIN schema.props \cup Inherited
PropSchema(schema, k) == IF k \in DOMAIN schema.props THEN schema.props[k] ELSE NoSchema

(* Each part of a value the gate looks at, with the schema it finds for it. *)
Parts(value, schema) ==
  CASE schema.type = "array" /\ value.is = "array" -> {<<value.items[i], schema.items>> : i \in DOMAIN value.items}
    [] schema.type = "object" /\ value.is = "object" ->
         {<<value.props[k], PropSchema(schema, k)>> : k \in DOMAIN value.props \cap Named(schema)}
    [] OTHER -> {}

(* JSON is finite, so a schema's parts have fewer levels than it.           *)
ASSUME SchemaAssumption ==
  /\ \A v \in Values : v.is = "string" => v.len \in Nat /\ v = Str(v.len)
  /\ \A s \in Schemas : s.type = "string" => s.min \in Nat /\ s.max \in Nat
  /\ MaxDepth \in Nat /\ \A s \in Schemas : Depth(s) \in 0 .. MaxDepth
  /\ \A v \in Values, s \in Schemas : \A part \in Parts(v, s) :
       part \in Values \X Schemas /\ Depth(part[2]) < Depth(s)

FaultyValidateProps(props, schema, valid) ==     \* undeclared properties let through
  /\ schema.required \subseteq DOMAIN props \cup Inherited
  /\ \A k \in DOMAIN props \cap Named(schema) : valid[<<props[k], PropSchema(schema, k)>>]

(* The test for a required name sees inherited ones as well.                *)
ValidateProps(props, schema, valid) ==
  /\ schema.required \subseteq DOMAIN props \cup Inherited
  /\ \A k \in DOMAIN props :
       IF k \in Named(schema) THEN valid[<<props[k], PropSchema(schema, k)>>] ELSE ~ schema.closed

(* One call, given what the calls on the parts return.                      *)
ValidateNode(value, schema, valid) ==
  CASE schema.type = "none" -> value.is = "object"
    [] schema.type = "object" -> value.is = "object" /\ ValidateProps(value.props, schema, valid)
    [] schema.type = "array" ->
         value.is = "array" /\ \A i \in DOMAIN value.items : valid[<<value.items[i], schema.items>>]
    [] schema.type = "string" ->
         value.is = "string" /\ schema.min <= value.len /\ value.len <= schema.max
    [] schema.type \in {"number", "boolean"} -> value.is = schema.type
    [] OTHER -> FALSE                     \* a type the gate does not know

Valid[p \in Values \X Schemas] == ValidateNode(p[1], p[2], Valid)

Validate(value, schema) == Valid[<<value, schema>>]

-----------------------------------------------------------------------------
(* Reference: a value is as declared when every part of it is, at any depth. *)
(* A closed schema declares inherited names too, for objects of any kind.   *)
Reached[p \in Values \X Schemas] == {p} \cup UNION {Reached[part] : part \in Parts(p[1], p[2])}

Conforms(value, schema) ==
  CASE schema.type = "object" ->
         /\ value.is = "object" /\ schema.required \subseteq DOMAIN value.props \cup Inherited
         /\ schema.closed => DOMAIN value.props \subseteq Named(schema)
    [] schema.type = "string" -> value \in {Str(n) : n \in schema.min .. schema.max}
    [] schema.type = "none" -> value.is = "object"
    [] OTHER -> schema.type \in {"array", "number", "boolean"} /\ value.is = schema.type

AsDeclared(value, schema) == \A part \in Reached[<<value, schema>>] : Conforms(part[1], part[2])
=============================================================================
