------------------------------ MODULE XmlJson ------------------------------
(***************************************************************************)
(* json::xml_to_json (util/json.cpp) for whole documents.                   *)
(***************************************************************************)
EXTENDS XmlLevel

RECURSIVE XmlToJson(_)
XmlToJson(node) ==
    Obj(Members(node, [i \in DOMAIN node.children |-> XmlToJson(node.children[i])]))
=============================================================================
