-------------------------------- MODULE Json --------------------------------
(***************************************************************************)
(* XML nodes and JSON values (external: pugixml and jsoncpp).               *)
(*                                                                          *)
(* An XML node is a record of its name, its attributes (a function), its    *)
(* value and its children.  It is an element, which has no value, or a text *)
(* among the children of one, whose name is "": the parser, as it is called *)
(* here, keeps no other nodes.  A JSON value is a record with one field     *)
(* that tells its type.                                                     *)
(***************************************************************************)
EXTENDS Naturals, Sequences

NoAttrs == [a \in {} |-> ""]
Node(name, attrs, children) ==
    [name |-> name, attrs |-> attrs, value |-> "", children |-> children]
Text(value) == [name |-> "", attrs |-> NoAttrs, value |-> value, children |-> <<>>]

\* node.text().as_string(): the first text among the children, whatever follows.
FirstText(node) ==
    LET texts == {i \in DOMAIN node.children : node.children[i].name = ""}
    IN  IF texts = {} THEN ""
        ELSE node.children[CHOOSE i \in texts : \A j \in texts : i <= j].value

Str(s) == [str |-> s]
Num(n) == [num |-> n]
Arr(seq) == [arr |-> seq]
Obj(members) == [obj |-> members]
IsArray(json) == DOMAIN json = {"arr"}
IsMember(json, key) == key \in DOMAIN json.obj

\* json[key] = value.
Set(members, key, value) ==
    [k \in DOMAIN members \cup {key} |-> IF k = key THEN value ELSE members[k]]
=============================================================================
