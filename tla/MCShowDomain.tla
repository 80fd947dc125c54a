---------------------------- MODULE MCShowDomain ----------------------------
(***************************************************************************)
(* ShowDomain for TLC.  Metadata without elements, with one name several    *)
(* times, with the names of the members for attributes and text, and with   *)
(* texts between elements; two disks that share a dev, and a cdrom.         *)
(***************************************************************************)
EXTENDS ShowDomain, XmlJson

MCDisks == {[dev |-> "vda", device |-> "disk", size |-> 2000],
            [dev |-> "vda", device |-> "disk", size |-> 5000],
            [dev |-> "sda", device |-> "cdrom", size |-> 3000]}

Attrib == Node("attrib", NoAttrs, <<>>)
TextElement == Node("text", NoAttrs, <<Text("x"), Node("text", [id |-> "2"], <<Text("y")>>)>>)

Roots == {Node("metadata", NoAttrs, <<>>),
          Node("metadata", NoAttrs, <<TextElement, TextElement, Attrib, TextElement>>),
          Node("metadata", [id |-> "1"], <<Attrib, Text("t"), TextElement, Text("u"), Attrib>>)}

MCNodes == Roots \cup {Attrib, TextElement, TextElement.children[2]}
                 \cup {Text(value) : value \in {"t", "u", "x", "y"}}
MCPaths == UNION {[1 .. n -> 1 .. 5] : n \in 0 .. 2}
=============================================================================
