----------------------------- MODULE ShowDomain -----------------------------
(***************************************************************************)
(* GET /domains/<name>/: domains::show and data::domain (views/domains.cpp, *)
(* data/domain.cpp) put one JSON document together from several calls of    *)
(* libvirt, between which other requests and libvirt's other clients change *)
(* texts and disks of the domain.                                           *)
(***************************************************************************)
EXTENDS Naturals, Sequences, XmlLevel

CONSTANTS
    Texts,       \* titles and descriptions, "" among them
    Disks,       \* disks that the domain may have, see Disk
    MaxDisks,    \* bound: disks of the domain at a time
    Nodes,       \* XML nodes that the user may have put into its <metadata>
    Paths,       \* ways to these nodes, see Walk
    Convert(_),  \* json::xml_to_json, which XmlJson defines
    Retries,     \* retry::retries_, which the router sets to 5
    MaxChanges,  \* bound: changes of the domain
    MaxFaults    \* bound: calls that fail or lose the link

\* A disk: the name of its target, disk or cdrom, and its size in bytes.
Disk == [dev : STRING, device : {"disk", "cdrom"}, size : Nat]

ASSUME ShowAssumption ==
    /\ "" \in Texts
    /\ Disks \subseteq Disk
    /\ \A node \in Nodes : node.children \in Seq(Nodes)
    /\ Paths \subseteq Seq(Nat)
    /\ MaxDisks \in Nat /\ Retries \in Nat /\ MaxChanges \in Nat /\ MaxFaults \in Nat

VARIABLES
    dom,      \* external: the domain's title, description and sequence of disks
    pc,       \* the libvirt call that comes next, or idle
    output,   \* the members of the JSON output of data::domain
    next,     \* the disk that the loop over the disks looks at
    status,   \* how the request was answered, 0 before
    retry_,   \* retry::retry_ of the request
    changes,  \* number of changes of the domain
    faults,   \* number of calls that failed or lost the link
    xml,      \* history: the domain and its metadata when its XML was read
    held,     \* history: pairs of title and description since the request came
    removed,  \* history: since then a text has become empty or could not be read
    sizes     \* history: per dev, sizes since the XML was read, 0 for a failure

requestVars == <<pc, output, next, status, retry_>>
historyVars == <<xml, held, removed, sizes>>
vars == <<dom, requestVars, changes, faults, historyVars>>

Devs == {disk.dev : disk \in Disks}
SizesOf(disks, dev) ==
    {disks[i].size : i \in {j \in DOMAIN disks : disks[j].dev = dev}}

\* The size that virDomainGetBlockInfo (external) finds for a dev: without such a
\* disk it fails, and leaves the block_info at zero.
SizesNow(disks) ==
    [dev \in Devs |-> IF SizesOf(disks, dev) = {} THEN {0} ELSE SizesOf(disks, dev)]

DistinctDevs(disks) == \A i, j \in DOMAIN disks : disks[i].dev = disks[j].dev => i = j
DiskLists == {s \in UNION {[1 .. n -> Disks] : n \in 0 .. MaxDisks} : DistinctDevs(s)}

Domain == [title : Texts, description : Texts, disks : DiskLists]

Init ==
    /\ dom \in Domain
    /\ pc = "idle"
    /\ output = Obj(NoAttrs)
    /\ next = 1
    /\ status = 0
    /\ retry_ = 0
    /\ changes = 0
    /\ faults = 0
    /\ xml = [disks |-> <<>>, metadata |-> Node("metadata", NoAttrs, <<>>)]
    /\ held = {}
    /\ removed = FALSE
    /\ sizes = [dev \in Devs |-> {}]
----------------------------------------------------------------------------
(***************************************************************************)
(* The XML of a domain (external), as far as data::domain looks at it.      *)
(***************************************************************************)
TextNode(name, text) == Node(name, NoAttrs, <<Text(text)>>)
IfText(name, text) == IF text = "" THEN <<>> ELSE <<TextNode(name, text)>>

Target(disk) == Node("target", [dev |-> disk.dev], <<>>)
DiskNode(disk) == Node("disk", [device |-> disk.device], <<Target(disk)>>)

Emulator == TextNode("emulator", "path")
Graphics == Node("graphics", NoAttrs, <<>>)
DevicesNode(disks) ==
    Node("devices", NoAttrs,
         <<Emulator>> \o [i \in DOMAIN disks |-> DiskNode(disks[i])] \o <<Graphics>>)

DomainNode(d, metadata) ==
    Node("domain", NoAttrs,
         IfText("title", d.title) \o IfText("description", d.description)
         \o <<metadata, DevicesNode(d.disks)>>)

\* The nodes of that document but those of its metadata, as far as they matter.
Metadata == {node \in Nodes : node.name = "metadata"}
NodesOf(d, metadata) ==
    {DomainNode(d, metadata), DevicesNode(d.disks), Emulator, Text("path"), Graphics}
    \cup {TextNode(field, d[field]) : field \in {"title", "description"}}
    \cup {Text(d[field]) : field \in {"title", "description"}}
    \cup {DiskNode(d.disks[i]) : i \in DOMAIN d.disks}
    \cup {Target(d.disks[i]) : i \in DOMAIN d.disks}

\* Of the conversion nothing is assumed but what one call of it does.
ChildValues(node) == [i \in DOMAIN node.children |-> Convert(node.children[i])]
ASSUME ConvertAssumption ==
    \A node \in Nodes \cup UNION {NodesOf(d, metadata) : d \in Domain, metadata \in Metadata} :
        Convert(node) = Obj(Members(node, ChildValues(node)))

TextJson(text) == Obj([text |-> Str(text)])
----------------------------------------------------------------------------
(***************************************************************************)
(* Changes of the domain by others.                                         *)
(***************************************************************************)
Changed(new) ==
    /\ changes < MaxChanges
    /\ changes' = changes + 1
    /\ dom' = new
    /\ IF pc = "idle"
       THEN UNCHANGED historyVars
       ELSE /\ held' = held \cup {<<new.title, new.description>>}
            /\ removed' = (removed \/ \E field \in {"title", "description"} :
                                        dom[field] # "" /\ new[field] = "")
            /\ sizes' = [dev \in Devs |-> sizes[dev] \cup SizesNow(new.disks)[dev]]
            /\ UNCHANGED xml
    /\ UNCHANGED <<requestVars, faults>>

ChangeText ==
    \E text \in Texts, field \in {"title", "description"} :
        text # dom[field] /\ Changed([dom EXCEPT ![field] = text])

ChangeDisks ==
    \E disks \in DiskLists :
        disks # dom.disks /\ Changed([dom EXCEPT !.disks = disks])
----------------------------------------------------------------------------
(***************************************************************************)
(* The request.                                                             *)
(***************************************************************************)
\* with_libvirt_domain has found the domain and calls domains::show.
Arrive ==
    /\ pc = "idle"
    /\ status = 0
    /\ pc' = "title"
    /\ held' = {<<dom.title, dom.description>>}
    /\ removed' = FALSE
    /\ UNCHANGED <<dom, output, next, status, retry_, changes, faults, xml, sizes>>

Answer(code) == pc' = "idle" /\ status' = code

Fault == faults < MaxFaults /\ faults' = faults + 1

\* The link is lost during a call: the router runs the route again, or gives up.
LinkLost ==
    /\ pc # "idle"
    /\ Fault
    /\ retry_' = retry_ + 1
    /\ IF retry_ < Retries THEN pc' = "title" /\ UNCHANGED status ELSE Answer(500)
    /\ output' = Obj(NoAttrs)
    /\ next' = 1
    /\ UNCHANGED <<dom, changes, historyVars>>

\* simple_domain: title and description, each with a call of its own.  An error
\* reads like an empty text.
ReadText ==
    /\ pc \in {"title", "description"}
    /\ \/ /\ output' = Obj(Set(output.obj, pc, TextJson(dom[pc])))
          /\ UNCHANGED <<faults, removed>>
       \/ /\ Fault
          /\ output' = Obj(Set(output.obj, pc, TextJson("")))
          /\ removed' = TRUE
    /\ pc' = IF pc = "title" THEN "description" ELSE "state"
    /\ UNCHANGED <<dom, next, status, retry_, changes, xml, held, sizes>>

\* The state, from which state_string may throw std::out_of_range, and autostart.
ReadState ==
    /\ pc = "state"
    /\ \/ pc' = "xml" /\ UNCHANGED <<status, faults>>
       \/ Fault /\ Answer(500)
       \/ Fault /\ pc' = "xml" /\ UNCHANGED status
    /\ UNCHANGED <<dom, output, next, retry_, changes, historyVars>>

\* Mutant: a merge that keeps what simple_domain has read.
MergeKeeps(members, document) ==
    [key \in DOMAIN members \cup DOMAIN document |->
        IF key \in DOMAIN members THEN members[key] ELSE document[key]]

\* The members of the XML document replace those of simple_domain.
Merge(members, document) ==
    [key \in DOMAIN members \cup DOMAIN document |->
        IF key \in DOMAIN document THEN document[key] ELSE members[key]]

\* Mutant: one kind of device is forgotten.
ArrayKeysShort == {"disk", "controller", "interface"}

ArrayKeys == {"disk", "controller", "interface", "serial", "console", "channel", "input",
              "graphics", "sound", "audio", "video", "redirdev", "memballoon", "rng"}

\* A device that the XML has once becomes an array, too.
Arrays(devices) ==
    [key \in DOMAIN devices |->
        IF key \in ArrayKeys /\ ~IsArray(devices[key]) THEN Arr(<<devices[key]>>)
        ELSE devices[key]]

ReadXml(metadata) ==
    /\ pc = "xml"
    /\ \E merged \in {Merge(output.obj, Convert(DomainNode(dom, metadata)).obj)} :
          output' = Obj(Set(merged, "devices", Obj(Arrays(merged["devices"].obj))))
    /\ next' = 1
    /\ pc' = "disks"
    /\ xml' = [disks |-> dom.disks, metadata |-> metadata]
    /\ sizes' = SizesNow(dom.disks)
    /\ UNCHANGED <<dom, status, retry_, changes, faults, held, removed>>

\* Without an XML description there is no string to read: std::logic_error.
ReadXmlFails ==
    /\ pc = "xml"
    /\ Fault
    /\ Answer(500)
    /\ UNCHANGED <<dom, output, next, retry_, changes, historyVars>>

Devices == output.obj["devices"].obj
ShownDisks == IF "disk" \in DOMAIN Devices THEN Devices["disk"].arr ELSE <<>>

\* Mutant: the loop takes the dev of the first disk for all.
DevOfFirst(i) == ShownDisks[1].obj["target"].obj["attrib"].obj["dev"].str

DevOf(i) == ShownDisks[i].obj["target"].obj["attrib"].obj["dev"].str
Storage(i) == ShownDisks[i].obj["attrib"].obj["device"].str = "disk"

\* block_info of the disk: bytes are shown in thousands.
WithBlockInfo(i, size) ==
    LET block_info == Obj([capacity |-> Num(size \div 1000)])
        disk == Obj(Set(ShownDisks[i].obj, "block_info", block_info))
        disks == Arr([ShownDisks EXCEPT ![i] = disk])
    IN  Obj(Set(output.obj, "devices", Obj(Set(Devices, "disk", disks))))

\* The loop over the disks asks for the size of one that is storage.
BlockInfo ==
    /\ pc = "disks"
    /\ next \in DOMAIN ShownDisks
    /\ Storage(next)
    /\ \/ /\ \E size \in SizesNow(dom.disks)[DevOf(next)] :
                output' = WithBlockInfo(next, size)
          /\ UNCHANGED <<faults, sizes>>
       \/ /\ Fault
          /\ output' = WithBlockInfo(next, 0)
          /\ sizes' = [sizes EXCEPT ![DevOf(next)] = @ \cup {0}]
    /\ next' = next + 1
    /\ UNCHANGED <<dom, pc, status, retry_, changes, xml, held, removed>>

\* It passes over the others ...
SkipDisk ==
    /\ pc = "disks"
    /\ next \in DOMAIN ShownDisks
    /\ ~Storage(next)
    /\ next' = next + 1
    /\ UNCHANGED <<dom, pc, output, status, retry_, changes, faults, historyVars>>

\* ... and after the last one the output is the answer.
Show ==
    /\ pc = "disks"
    /\ next \notin DOMAIN ShownDisks
    /\ Answer(200)
    /\ UNCHANGED <<dom, output, next, retry_, changes, faults, historyVars>>
----------------------------------------------------------------------------
Request ==
    \/ LinkLost \/ ReadText \/ ReadState \/ (\E metadata \in Metadata : ReadXml(metadata))
    \/ ReadXmlFails \/ BlockInfo \/ SkipDisk \/ Show

Next == Arrive \/ Request \/ ChangeText \/ ChangeDisks

Spec == Init /\ [][Next]_vars
----------------------------------------------------------------------------
(***************************************************************************)
(* Properties.                                                              *)
(***************************************************************************)
Shown == status = 200

\* Title and description of an answer are ones that the domain had together at
\* some time during the request, although they are read by three calls; unless
\* one was removed meanwhile (then XML without the text leaves the one that
\* simple_domain has read) or could not be read.
OneSnapshot ==
    Shown /\ ~removed =>
        <<output.obj["title"].obj["text"].str, output.obj["description"].obj["text"].str>>
            \in held

\* Every kind of device in ARRAY_KEYS is shown as an array, also with a single
\* element, and the disks are those of the XML in their order; none is no member.
DevicesListed ==
    Shown =>
        /\ IsArray(Devices["graphics"]) /\ ~IsArray(Devices["emulator"])
        /\ "disk" \in DOMAIN Devices <=> xml.disks # <<>>
        /\ [i \in DOMAIN ShownDisks |-> DevOf(i)]
              = [i \in DOMAIN xml.disks |-> xml.disks[i].dev]

\* A storage disk, and no other, is shown with a size that its dev had since the
\* XML was read, or with zero when it was gone or libvirt failed.
SizesHeld ==
    Shown =>
        \A i \in DOMAIN xml.disks :
            LET disk == ShownDisks[i]
            IN  /\ IsMember(disk, "block_info") <=> xml.disks[i].device = "disk"
                /\ IsMember(disk, "block_info") =>
                      disk.obj["block_info"].obj["capacity"].num
                          \in {size \div 1000 : size \in sizes[xml.disks[i].dev]}

\* Every element of the metadata in the XML is found in the answer, at any depth
\* and also where elements are called "text" or "attrib" or repeat a name, with its
\* attributes and its first text, and nothing else is.  (What xml_to_json does
\* lose is a text that follows another one in the same element.)
MetadataKept ==
    Shown =>
        \A path \in Paths :
            LET place == Walk(xml.metadata, output.obj["metadata"], path)[Len(path)]
            IN  ShowsNode(place.node, place.json)
----------------------------------------------------------------------------
(***************************************************************************)
(* The inductive invariant behind the theorems of ShowDomainProofs.         *)
(***************************************************************************)
Pc == {"idle", "title", "description", "state", "xml", "disks"}

\* Every variable stays in the set of values that the data it models can have
\* (output apart: its members come one by one).
TypeOK ==
    /\ dom \in Domain
    /\ pc \in Pc
    /\ next \in Nat \ {0}
    /\ status \in {0, 200, 500}
    /\ status # 0 => pc = "idle"
    /\ retry_ \in Nat /\ changes \in Nat /\ faults \in Nat
    /\ xml.disks \in DiskLists
    /\ removed \in BOOLEAN
    /\ sizes \in [Devs -> SUBSET Nat]

\* The XML is in the output.
Listed == pc = "disks" \/ Shown

TextOf(field) == output.obj[field].obj["text"].str

\* A text that simple_domain has read is in the output; if it is none in the XML,
\* either it was none before or it has been removed.
ReadInv(field) ==
    /\ field \in DOMAIN output.obj
    /\ dom[field] = "" /\ ~removed => TextOf(field) = ""

TextsInv ==
    /\ pc # "idle" => <<dom.title, dom.description>> \in held
    /\ pc \in {"description", "state", "xml"} => ReadInv("title")
    /\ pc \in {"state", "xml"} => ReadInv("description")
    /\ Listed => {"title", "description"} \subseteq DOMAIN output.obj
    /\ Listed /\ ~removed => <<TextOf("title"), TextOf("description")>> \in held

\* The i-th disk is that of the XML, with a size of it if the loop has passed it.
DiskInv(i) ==
    LET disk == ShownDisks[i]
    IN  /\ {"attrib", "target"} \subseteq DOMAIN disk.obj
        /\ DevOf(i) = xml.disks[i].dev
        /\ Storage(i) <=> xml.disks[i].device = "disk"
        /\ IsMember(disk, "block_info") <=>
              xml.disks[i].device = "disk" /\ (i < next \/ Shown)
        /\ IsMember(disk, "block_info") =>
              disk.obj["block_info"].obj["capacity"].num
                  \in {size \div 1000 : size \in sizes[xml.disks[i].dev]}

\* The devices are those of the XML, each kind in an array.
DisksInv ==
    Listed =>
        /\ "devices" \in DOMAIN output.obj
        /\ {"graphics", "emulator"} \subseteq DOMAIN Devices
        /\ IsArray(Devices["graphics"]) /\ ~IsArray(Devices["emulator"])
        /\ "disk" \in DOMAIN Devices <=> xml.disks # <<>>
        /\ DOMAIN ShownDisks = DOMAIN xml.disks
        /\ \A i \in DOMAIN xml.disks : DiskInv(i)

\* Until the loop is done, sizes has the present ones, too.
SizesInv ==
    pc = "disks" => \A dev \in Devs : SizesNow(dom.disks)[dev] \subseteq sizes[dev]

\* Nothing that comes after the XML touches the metadata.
MetadataInv ==
    Listed =>
        /\ xml.metadata \in Metadata
        /\ "metadata" \in DOMAIN output.obj
        /\ output.obj["metadata"] = Convert(xml.metadata)

IndInv == TypeOK /\ TextsInv /\ DisksInv /\ SizesInv /\ MetadataInv
=============================================================================
