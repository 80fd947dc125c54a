------------------------------ MODULE XmlLevel ------------------------------
(***************************************************************************)
(* One call of json::xml_to_json (util/json.cpp), for a node whose children *)
(* are converted to given values.                                           *)
(***************************************************************************)
EXTENDS Naturals, FiniteSets, Sequences, Json

\* The members before the first child: attributes and the first text, unless
\* empty.  Further texts are in no member.
Own(node) ==
    LET attrib == IF node.attrs = NoAttrs THEN {} ELSE {"attrib"}
        text   == IF FirstText(node) = "" THEN {} ELSE {"text"}
    IN  [key \in attrib \cup text |->
            IF key = "attrib" THEN Obj([a \in DOMAIN node.attrs |-> Str(node.attrs[a])])
            ELSE Str(FirstText(node))]

\* The values of a member, of which there is one unless it is an array.
Elements(json) == IF IsArray(json) THEN json.arr ELSE <<json>>

\* Mutant: a loop that does not look whether the member is an array already.
AddChildWraps(data, name, value) ==
    IF name = "" THEN data
    ELSE IF name \in DOMAIN data THEN Set(data, name, Arr(<<data[name], value>>))
    ELSE Set(data, name, value)

\* One pass of the loop: the second child of a name makes the member an array.
AddChild(data, name, value) ==
    IF name = "" THEN data
    ELSE IF name \in DOMAIN data
    THEN Set(data, name, Arr(Append(Elements(data[name]), value)))
    ELSE Set(data, name, value)

\* The members after each pass.
Loop(node, values) ==
    LET data[i \in 0 .. Len(node.children)] ==
            IF i = 0 THEN Own(node)
            ELSE AddChild(data[i - 1], node.children[i].name, values[i])
    IN  data

Members(node, values) == Loop(node, values)[Len(node.children)]
----------------------------------------------------------------------------
(***************************************************************************)
(* The reference: where the value of a child is found.                      *)
(***************************************************************************)
\* The number of values that the node and its first i children have for a key.
Count(node, key, i) ==
    (IF key \in DOMAIN Own(node) THEN 1 ELSE 0)
    + Cardinality({j \in 1 .. i : node.children[j].name = key})

\* The members are those of the node and its first n children, texts excepted: a
\* key with one value has the value, a key with several an array of all of them,
\* that of the node itself first, then the children's in their order.
IsGrouped(node, values, members, n) ==
    /\ DOMAIN members =
          DOMAIN Own(node) \cup ({node.children[i].name : i \in 1 .. n} \ {""})
    /\ \A key \in DOMAIN members :
          /\ IsArray(members[key]) <=> Count(node, key, n) > 1
          /\ DOMAIN Elements(members[key]) = 1 .. Count(node, key, n)
          /\ key \in DOMAIN Own(node) => Elements(members[key])[1] = Own(node)[key]
          /\ \A i \in 1 .. n : node.children[i].name = key =>
                Elements(members[key])[Count(node, key, i)] = values[i]

\* A node and the JSON that is to show it.  The k-th child, if it is an element,
\* is shown by one of the values of its name; else there is no way on.
Descend(place, k) ==
    IF k \in DOMAIN place.node.children /\ place.node.children[k].name # ""
    THEN LET child == place.node.children[k]
         IN  [node |-> child,
              json |-> Elements(place.json.obj[child.name])[Count(place.node, child.name, k)]]
    ELSE place

\* The places on a path of children from a root.
Walk(root, json, path) ==
    LET at[i \in 0 .. Len(path)] ==
            IF i = 0 THEN [node |-> root, json |-> json] ELSE Descend(at[i - 1], path[i])
    IN  at

\* The JSON of a node has its attributes and its first text, and for each name as
\* many values as the node has elements of the name and values of its own.
ShowsNode(node, json) ==
    LET members == json.obj
    IN  /\ DOMAIN members =
              DOMAIN Own(node)
              \cup ({node.children[i].name : i \in 1 .. Len(node.children)} \ {""})
        /\ \A key \in DOMAIN members :
              DOMAIN Elements(members[key]) = 1 .. Count(node, key, Len(node.children))
        /\ node.attrs # NoAttrs =>
              \A a \in DOMAIN node.attrs :
                  Elements(members["attrib"])[1].obj[a].str = node.attrs[a]
        /\ FirstText(node) # "" => Elements(members["text"])[1].str = FirstText(node)
=============================================================================
