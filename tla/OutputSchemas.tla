---------------------------- MODULE OutputSchemas ----------------------------
(***************************************************************************)
(* The JSON Schema subsets of crates/armillae-llm-rig/src/request.rs: what  *)
(* is sent as a native strict schema, and what anthropic takes.  A schema   *)
(* is the set of its subschemas.  A subschema is known by the keywords on   *)
(* the path to it; the two checks descend through different keywords.       *)
(***************************************************************************)
EXTENDS Naturals, Sequences, FiniteSets, Functions

PropertyNames == {"p", "q"}

\* One subschema: types holds its type, or its types if union; closed stands
\* for additionalProperties = false, local for a $ref to the same document.
Subschema ==
  [path : Seq({"properties", "$defs", "items", "anyOf", "allOf", "not"}),
   object : BOOLEAN,                \* or else true, false or no schema at all
   keywords : SUBSET STRING,
   types : SUBSET {"object", "array", "string", "number", "integer", "null"},
   union : BOOLEAN,
   properties : SUBSET PropertyNames,
   required : Seq(PropertyNames),
   closed : BOOLEAN, local : BOOLEAN]

\* A document: one root, and every subschema under keywords that are there.
Document(schema) ==
  /\ schema \subseteq Subschema
  /\ \E root \in schema : root.path = <<>>
  /\ \A node \in schema : \A k \in DOMAIN node.path : \E above \in schema :
       above.path = SubSeq(node.path, 1, k - 1) /\ node.path[k] \in above.keywords

Under(schema, keywords) == {node \in schema : Range(node.path) \subseteq keywords}
Root(schema) == CHOOSE node \in schema : node.path = <<>>

RequiresEveryProperty(node) ==
  /\ {"properties", "required"} \subseteq node.keywords
  /\ Len(node.required) = Cardinality(node.properties)
  /\ node.properties \subseteq Range(node.required)

-----------------------------------------------------------------------------
\* validate_native_structured_schema.
NativeApplicators == {"properties", "$defs", "items", "anyOf"}
NativeKeywords ==
  NativeApplicators \cup
  {"type", "enum", "required", "title", "description", "$schema",
   "additionalProperties", "$ref"}

NativeNode(node) ==
  /\ node.object
  /\ node.keywords \subseteq NativeKeywords
  /\ "additionalProperties" \in node.keywords => node.closed
  /\ "$ref" \in node.keywords => node.local
  /\ "properties" \in node.keywords => "object" \in node.types
  /\ "object" \in node.types =>
       "additionalProperties" \in node.keywords /\ RequiresEveryProperty(node)
  /\ "array" \in node.types => "items" \in node.keywords
  /\ node.keywords \cap {"type", "$ref", "anyOf"} # {}

SingleType(node, types) == ~node.union /\ node.types \cap types # {}

\* Defect: only the top of the schema is looked at.
NativeTop(schema) ==
  SingleType(Root(schema), {"object"}) /\ NativeNode(Root(schema))

Native(schema) ==
  /\ SingleType(Root(schema), {"object"})
  /\ \A node \in Under(schema, NativeApplicators) : NativeNode(node)

\* validate_anthropic_schema.
NumericConstraints ==
  {"minimum", "maximum", "exclusiveMinimum", "exclusiveMaximum", "multipleOf"}

AnthropicNode(node) ==
  /\ node.object
  /\ SingleType(node, {"object"}) \/ "properties" \in node.keywords =>
       /\ "additionalProperties" \in node.keywords /\ node.closed
       /\ "properties" \in node.keywords =>
            /\ "required" \in node.keywords
            /\ Range(node.required) = node.properties
  /\ ~(SingleType(node, {"integer", "number"})
         /\ node.keywords \cap NumericConstraints # {})
  /\ "oneOf" \notin node.keywords

Anthropic(schema) ==
  \A node \in Under(schema, {"$defs", "properties", "items", "anyOf", "allOf"}) :
    AnthropicNode(node)
=============================================================================
