-------------------------- MODULE ShowDomainProofs --------------------------
(***************************************************************************)
(* Theorems about ShowDomain, for any texts, disks and metadata, any number *)
(* of changes and faults.                                                   *)
(***************************************************************************)
EXTENDS ShowDomain, WellFoundedInduction, FiniteSetTheorems, TLAPS

----------------------------------------------------------------------------
(***************************************************************************)
(* Lists of disks and their sizes.                                          *)
(***************************************************************************)
\* A list of disks is a sequence of them, each with a dev of its own.
LEMMA DiskListType ==
    ASSUME NEW disks \in DiskLists
    PROVE  /\ disks \in Seq(Disks)
           /\ Len(disks) \in Nat
           /\ DOMAIN disks = 1 .. Len(disks)
           /\ disks = <<>> <=> Len(disks) = 0
           /\ \A i \in DOMAIN disks :
                 disks[i] \in Disks /\ disks[i].dev \in Devs /\ disks[i].size \in Nat
<1>0. MaxDisks \in Nat
  BY ShowAssumption
<1>1. PICK n \in 0 .. MaxDisks : disks \in [1 .. n -> Disks]
  BY DEF DiskLists
<1>2. n \in Nat
  BY <1>0, <1>1
<1>3. disks \in Seq(Disks) /\ Len(disks) = n
  BY <1>1, <1>2
<1>4. \A disk \in Disks : disk.size \in Nat /\ disk.dev \in Devs
  BY ShowAssumption DEF Disk, Devs
<1> QED
  BY <1>1, <1>2, <1>3, <1>4

\* virDomainGetBlockInfo knows sizes of every dev, of a missing one zero.
LEMMA SizesType ==
    ASSUME NEW disks \in DiskLists
    PROVE  SizesNow(disks) \in [Devs -> SUBSET Nat]
<1>1. \A dev \in Devs : SizesOf(disks, dev) \subseteq Nat
  BY DiskListType DEF SizesOf
<1> QED
  BY <1>1 DEF SizesNow

\* The fields of a domain.
LEMMA DomainType ==
    ASSUME NEW d \in Domain
    PROVE  /\ d.title \in Texts /\ d.description \in Texts /\ d.disks \in DiskLists
           /\ \A text \in Texts : /\ [d EXCEPT !["title"] = text] \in Domain
                                  /\ [d EXCEPT !["description"] = text] \in Domain
           /\ \A disks \in DiskLists : [d EXCEPT !.disks = disks] \in Domain
BY DEF Domain
----------------------------------------------------------------------------
(***************************************************************************)
(* Type correctness.                                                        *)
(***************************************************************************)
\* A change of the domain keeps the types.
LEMMA ChangedType ==
    ASSUME TypeOK, NEW new \in Domain, Changed(new)
    PROVE  TypeOK'
<1>1. SizesNow(new.disks) \in [Devs -> SUBSET Nat]
  BY SizesType, DomainType
<1>2. sizes' \in [Devs -> SUBSET Nat]
  <2>1. sizes \in [Devs -> SUBSET Nat]
    BY DEF TypeOK
  <2>2. CASE pc = "idle"
    BY <2>1, <2>2 DEF Changed, historyVars
  <2>3. CASE pc # "idle"
    <3>1. \A dev \in Devs : sizes[dev] \cup SizesNow(new.disks)[dev] \in SUBSET Nat
      BY <1>1, <2>1
    <3> QED
      BY <2>3, <3>1 DEF Changed
  <2> QED
    BY <2>2, <2>3
<1>3. removed' \in BOOLEAN
  BY Zenon DEF TypeOK, Changed, historyVars
<1>4. xml' = xml /\ dom' \in Domain
  BY DEF Changed, historyVars
<1>5. UNCHANGED <<pc, next, status, retry_, faults>> /\ changes' = changes + 1
  BY DEF Changed, requestVars
<1> QED
  BY <1>2, <1>3, <1>4, <1>5 DEF TypeOK

\* Every step keeps the types.
LEMMA TypeStep == TypeOK /\ [Next]_vars => TypeOK'
<1> SUFFICES ASSUME TypeOK, [Next]_vars PROVE TypeOK'
  OBVIOUS
<1>1. CASE Arrive \/ LinkLost \/ ReadText \/ ReadState \/ ReadXmlFails \/ SkipDisk \/ Show
  <2> USE DEF TypeOK, Pc, Answer, Fault, historyVars
  <2>1. CASE Arrive
    BY <2>1 DEF Arrive
  <2>2. CASE LinkLost
    BY <2>2 DEF LinkLost
  <2>3. CASE ReadText
    <3>1. removed' \in BOOLEAN
      BY <2>3, Zenon DEF ReadText
    <3>2. faults' = faults \/ faults' = faults + 1
      BY <2>3, Zenon DEF ReadText
    <3>3. /\ UNCHANGED <<dom, next, status, retry_, changes, xml, sizes>>
          /\ pc # "idle" /\ pc' \in {"description", "state"}
      BY <2>3 DEF ReadText
    <3> QED
      BY <3>1, <3>2, <3>3
  <2>4. CASE ReadState
    BY <2>4 DEF ReadState
  <2>5. CASE ReadXmlFails \/ SkipDisk \/ Show
    BY <2>5 DEF ReadXmlFails, SkipDisk, Show
  <2> QED
    BY <1>1, <2>1, <2>2, <2>3, <2>4, <2>5
<1>2. ASSUME NEW metadata \in Metadata, ReadXml(metadata) PROVE TypeOK'
  <2>1. SizesNow(dom.disks) \in [Devs -> SUBSET Nat] /\ dom.disks \in DiskLists
    BY SizesType, DomainType DEF TypeOK
  <2> QED
    BY <1>2, <2>1 DEF TypeOK, Pc, ReadXml
<1>3. CASE BlockInfo
  <2>1. sizes' \in [Devs -> SUBSET Nat]
    BY <1>3 DEF TypeOK, BlockInfo
  <2>2. faults' \in Nat
    BY <1>3 DEF TypeOK, BlockInfo, Fault
  <2> QED
    BY <1>3, <2>1, <2>2 DEF TypeOK, BlockInfo
<1>4. CASE ChangeText \/ ChangeDisks
  <2>1. dom \in Domain
    BY DEF TypeOK
  <2> QED
    BY <1>4, <2>1, ChangedType, DomainType DEF ChangeText, ChangeDisks
<1>5. CASE UNCHANGED vars
  BY <1>5 DEF TypeOK, vars, requestVars, historyVars
<1> QED
  BY <1>1, <1>2, <1>3, <1>4, <1>5 DEF Next, Request
----------------------------------------------------------------------------
(***************************************************************************)
(* One call of xml_to_json.                                                 *)
(***************************************************************************)
\* Every set of numbers has a least one, so that what holds at 0 and is passed on
\* holds at every number.
LEMMA Least ==
    ASSUME NEW T, T \subseteq Nat, T # {}
    PROVE  \E least \in T : \A y \in T : least <= y
<1> DEFINE R == {ss \in Nat \X Nat : ss[1] < ss[2]}
<1>1. IsWellFoundedOn(R, Nat)
  BY NatLessThanWellFounded DEF OpToRel
<1>2. PICK least \in T : \A y \in T : ~(<<y, least>> \in R)
  <2> HIDE DEF R
  <2> QED
    BY <1>1, WFMin
<1>3. ASSUME NEW y \in T PROVE least <= y
  <2>1. y \in Nat /\ least \in Nat
    OBVIOUS
  <2>2. ~(<<y, least>> \in R)
    BY <1>2
  <2>3. ~(y < least)
    BY <2>1, <2>2
  <2> QED
    BY <2>1, <2>3
<1> QED
  BY <1>3

\* The passes of the loop up to the m-th.
IsLoop(node, values, data, m) ==
    /\ DOMAIN data = 0 .. m
    /\ data = [i \in 0 .. m |-> data[i]]
    /\ data[0] = Own(node)
    /\ \A i \in 1 .. m : data[i] = AddChild(data[i - 1], node.children[i].name, values[i])

\* The loop can make any number of passes.
LEMMA LoopExists ==
    ASSUME NEW node, NEW values, NEW n \in Nat
    PROVE  \E data : IsLoop(node, values, data, n)
<1> DEFINE Bad == {m \in Nat : ~\E data : IsLoop(node, values, data, m)}
<1> SUFFICES ASSUME Bad # {} PROVE FALSE
  OBVIOUS
<1>1. PICK m \in Bad : \A y \in Bad : m <= y
  BY Least
<1>2. m \in Nat /\ ~\E data : IsLoop(node, values, data, m)
  OBVIOUS
<1>3. CASE m = 0
  <2>1. IsLoop(node, values, [i \in 0 .. 0 |-> Own(node)], 0)
    BY DEF IsLoop
  <2> QED
    BY <1>2, <1>3, <2>1
<1>4. CASE m # 0
  <2>1. m - 1 \in Nat /\ ~(m <= m - 1)
    BY <1>2, <1>4
  <2>2. m - 1 \notin Bad
    BY <1>1, <2>1
  <2>3. PICK data : IsLoop(node, values, data, m - 1)
    BY <2>1, <2>2
  <2> DEFINE more == [i \in 0 .. m |-> IF i = m
                         THEN AddChild(data[m - 1], node.children[m].name, values[m])
                         ELSE data[i]]
  <2>4. DOMAIN more = 0 .. m /\ more = [i \in 0 .. m |-> more[i]]
    OBVIOUS
  <2>5. more[m] = AddChild(data[m - 1], node.children[m].name, values[m])
    BY <1>2
  <2>6. \A i \in 0 .. (m - 1) : more[i] = data[i]
    BY <1>2
  <2> HIDE DEF more
  <2>7. more[0] = Own(node)
    BY <2>1, <2>3, <2>6 DEF IsLoop
  <2>8. ASSUME NEW i \in 1 .. m
        PROVE  more[i] = AddChild(more[i - 1], node.children[i].name, values[i])
    <3>1. CASE i = m
      <4>1. more[m - 1] = data[m - 1]
        BY <2>1, <2>6
      <4> QED
        BY <2>5, <3>1, <4>1
    <3>2. CASE i # m
      <4>1. i \in 1 .. (m - 1) /\ i \in 0 .. (m - 1) /\ i - 1 \in 0 .. (m - 1)
        BY <1>2, <3>2
      <4> QED
        BY <2>3, <2>6, <4>1 DEF IsLoop
    <3> QED
      BY <3>1, <3>2
  <2>9. IsLoop(node, values, more, m)
    BY <2>4, <2>7, <2>8 DEF IsLoop
  <2> QED
    BY <1>2, <2>9
<1> QED
  BY <1>3, <1>4

\* So its recursive definition is what it says.
LEMMA LoopIs ==
    ASSUME NEW node, NEW values, Len(node.children) \in Nat
    PROVE  IsLoop(node, values, Loop(node, values), Len(node.children))
<1> DEFINE n == Len(node.children)
           Pass(data, i) == IF i = 0 THEN Own(node)
                            ELSE AddChild(data[i - 1], node.children[i].name, values[i])
<1>1. PICK data : IsLoop(node, values, data, n)
  BY LoopExists
<1>2. data = [i \in 0 .. n |-> Pass(data, i)]
  <2>1. \A i \in 0 .. n : data[i] = Pass(data, i)
    <3>1. \A i \in 0 .. n : i = 0 \/ i \in 1 .. n
      OBVIOUS
    <3>2. \A i \in 1 .. n : i # 0
      OBVIOUS
    <3> QED
      BY <1>1, <3>1, <3>2 DEF IsLoop
  <2> HIDE DEF Pass
  <2> QED
    BY <1>1, <2>1 DEF IsLoop
<1>3. Loop(node, values) = [i \in 0 .. n |-> Pass(Loop(node, values), i)]
  <2> DEFINE D == CHOOSE d : d = [i \in 0 .. n |-> Pass(d, i)]
  <2>1. D = [i \in 0 .. n |-> Pass(D, i)]
    BY <1>2, Zenon
  <2>2. Loop(node, values) = D
    BY Zenon DEF Loop
  <2> QED
    BY <2>1, <2>2
<1> DEFINE L == Loop(node, values)
<1> HIDE DEF L
<1>4. L = [i \in 0 .. n |-> Pass(L, i)]
  BY <1>3 DEF L
<1>5. DOMAIN L = 0 .. n /\ \A i \in 0 .. n : L[i] = Pass(L, i)
  <2> HIDE DEF Pass, n
  <2> QED
    BY <1>4
<1>6. L = [i \in 0 .. n |-> L[i]]
  <2> HIDE DEF Pass, n
  <2> QED
    BY <1>4, <1>5
<1>7. L[0] = Own(node)
  BY <1>5
<1>8. \A i \in 1 .. n : L[i] = AddChild(L[i - 1], node.children[i].name, values[i])
  BY <1>5
<1> QED
  BY <1>5, <1>6, <1>7, <1>8 DEF IsLoop, L

\* Counts are numbers.
LEMMA CountType ==
    ASSUME NEW node, NEW key, NEW m \in Nat
    PROVE  /\ Count(node, key, m) \in Nat
           /\ IsFiniteSet({j \in 1 .. m : node.children[j].name = key})
           /\ Cardinality({j \in 1 .. m : node.children[j].name = key}) \in Nat
<1>1. IsFiniteSet(1 .. m)
  BY FS_Interval
<1>2. IsFiniteSet({j \in 1 .. m : node.children[j].name = key})
  BY <1>1, FS_Subset
<1>3. Cardinality({j \in 1 .. m : node.children[j].name = key}) \in Nat
  BY <1>2, FS_CardinalityType
<1> QED
  BY <1>2, <1>3 DEF Count

\* Without a child of the name only the node itself counts.
LEMMA CountNone ==
    ASSUME NEW node, NEW key, NEW m \in Nat,
           \A j \in 1 .. m : node.children[j].name # key
    PROVE  Count(node, key, m) = IF key \in DOMAIN Own(node) THEN 1 ELSE 0
<1>1. {j \in 1 .. m : node.children[j].name = key} = {}
  OBVIOUS
<1>2. Cardinality({j \in 1 .. m : node.children[j].name = key}) = 0
  BY <1>1, FS_EmptySet
<1> QED
  BY <1>2 DEF Count

\* A child counts for its own name.
LEMMA CountStep ==
    ASSUME NEW node, NEW key, NEW m \in Nat \ {0}
    PROVE  Count(node, key, m) = IF node.children[m].name = key
                                 THEN Count(node, key, m - 1) + 1
                                 ELSE Count(node, key, m - 1)
<1> DEFINE S(k) == {j \in 1 .. k : node.children[j].name = key}
<1>0. m - 1 \in Nat /\ m \in Nat
  OBVIOUS
<1>1. /\ IsFiniteSet(S(m - 1)) /\ Cardinality(S(m - 1)) \in Nat
      /\ Cardinality(S(m)) \in Nat
  BY <1>0, CountType
<1>2. CASE node.children[m].name = key
  <2>1. S(m) = S(m - 1) \cup {m} /\ m \notin S(m - 1)
    BY <1>0, <1>2
  <2> HIDE DEF S
  <2>2. Cardinality(S(m)) = Cardinality(S(m - 1)) + 1
    BY <1>1, <2>1, FS_AddElement
  <2> QED
    BY <1>1, <1>2, <2>2 DEF Count, S
<1>3. CASE node.children[m].name # key
  <2>1. S(m) = S(m - 1)
    BY <1>0, <1>3
  <2> QED
    BY <1>3, <2>1 DEF Count
<1> QED
  BY <1>2, <1>3

\* The place of a child is among those of its name.
LEMMA CountBounds ==
    ASSUME NEW node, NEW key, NEW m \in Nat, NEW i \in 1 .. m, node.children[i].name = key
    PROVE  Count(node, key, i) \in 1 .. Count(node, key, m)
<1> DEFINE S(k) == {j \in 1 .. k : node.children[j].name = key}
<1>0. i \in Nat
  OBVIOUS
<1>1. /\ IsFiniteSet(S(m)) /\ Cardinality(S(m)) \in Nat
      /\ IsFiniteSet(S(i)) /\ Cardinality(S(i)) \in Nat
      /\ Count(node, key, i) \in Nat /\ Count(node, key, m) \in Nat
  BY <1>0, CountType, ZenonT(60)
<1>2. S(i) \subseteq S(m) /\ i \in S(i)
  OBVIOUS
<1>3. Cardinality(S(i)) <= Cardinality(S(m)) /\ Cardinality(S(i)) # 0
  <2> HIDE DEF S
  <2>1. Cardinality(S(i)) <= Cardinality(S(m))
    BY <1>1, <1>2, FS_Subset
  <2>2. Cardinality(S(i)) # 0
    BY <1>1, <1>2, FS_EmptySet
  <2> QED
    BY <2>1, <2>2
<1>4. Count(node, key, i) <= Count(node, key, m) /\ Count(node, key, i) >= 1
  BY <1>1, <1>3 DEF Count
<1> QED
  BY <1>1, <1>4

\* The values of a member that is an array, and of another.
LEMMA ElementsIs ==
    ASSUME NEW json
    PROVE  /\ ~IsArray(json) => Elements(json) = <<json>>
           /\ \A seq : IsArray(Arr(seq)) /\ Elements(Arr(seq)) = seq
BY DEF Elements, IsArray, Arr

\* No value of a node itself is an array, and none is without a name.
LEMMA OwnIs ==
    ASSUME NEW node, NEW key \in DOMAIN Own(node)
    PROVE  ~IsArray(Own(node)[key]) /\ key # ""
<1>1. \A x : ~IsArray(Obj(x)) /\ ~IsArray(Str(x))
  BY DEF IsArray, Obj, Str
<1> DEFINE attrib == Obj([a \in DOMAIN node.attrs |-> Str(node.attrs[a])])
           text == Str(FirstText(node))
<1>2. key \in {"attrib", "text"} /\ Own(node)[key] = IF key = "attrib" THEN attrib ELSE text
  BY DEF Own
<1>3. ~IsArray(attrib) /\ ~IsArray(text)
  BY <1>1
<1> HIDE DEF attrib, text
<1> QED
  BY <1>2, <1>3

\* All values that a node and its children have.
ValuesOf(node, values, n) ==
    {values[i] : i \in 1 .. n} \cup {Own(node)[key] : key \in DOMAIN Own(node)}

\* The invariant of the loop.
LoopInv(node, values, members, m, V) ==
    /\ IsGrouped(node, values, members, m)
    /\ \A key \in DOMAIN members : Elements(members[key]) \in Seq(V)

\* Before the first pass the members are the values of the node.
LEMMA LoopInit ==
    ASSUME NEW node, NEW values, NEW n \in Nat
    PROVE  LoopInv(node, values, Own(node), 0, ValuesOf(node, values, n))
<1>1. DOMAIN Own(node) =
         DOMAIN Own(node) \cup ({node.children[i].name : i \in 1 .. 0} \ {""})
  OBVIOUS
<1>2. ASSUME NEW key \in DOMAIN Own(node)
      PROVE  /\ Count(node, key, 0) = 1
             /\ ~IsArray(Own(node)[key])
             /\ Elements(Own(node)[key]) = <<Own(node)[key]>>
             /\ Elements(Own(node)[key]) \in Seq(ValuesOf(node, values, n))
  <2>1. Count(node, key, 0) = 1
    BY CountNone
  <2>2. ~IsArray(Own(node)[key]) /\ Elements(Own(node)[key]) = <<Own(node)[key]>>
    BY OwnIs, ElementsIs
  <2>3. Own(node)[key] \in ValuesOf(node, values, n)
    BY DEF ValuesOf
  <2> QED
    BY <2>1, <2>2, <2>3
<1>3. 1 .. 0 = {} /\ \A x : DOMAIN <<x>> = 1 .. 1 /\ <<x>>[1] = x
  OBVIOUS
<1>4. IsGrouped(node, values, Own(node), 0)
  <2>1. ASSUME NEW key \in DOMAIN Own(node)
        PROVE  /\ IsArray(Own(node)[key]) <=> Count(node, key, 0) > 1
               /\ DOMAIN Elements(Own(node)[key]) = 1 .. Count(node, key, 0)
               /\ Elements(Own(node)[key])[1] = Own(node)[key]
    <3> DEFINE own == Own(node)[key]
    <3>1. Count(node, key, 0) = 1 /\ ~IsArray(own) /\ Elements(own) = <<own>>
      BY <1>2
    <3> HIDE DEF own
    <3>2. /\ IsArray(own) <=> Count(node, key, 0) > 1
          /\ DOMAIN Elements(own) = 1 .. Count(node, key, 0)
          /\ Elements(own)[1] = own
      BY <3>1
    <3> QED
      BY <3>2 DEF own
  <2> QED
    BY <1>1, <1>3, <2>1 DEF IsGrouped
<1> QED
  BY <1>2, <1>4 DEF LoopInv

\* A pass adds the value of its child behind those of the same name.
LEMMA LoopStep ==
    ASSUME NEW node, NEW values, NEW n \in Nat, NEW m \in 1 .. n, NEW old, NEW new,
           \A i \in 1 .. n : ~IsArray(values[i]),
           LoopInv(node, values, old, m - 1, ValuesOf(node, values, n)),
           new = AddChild(old, node.children[m].name, values[m])
    PROVE  LoopInv(node, values, new, m, ValuesOf(node, values, n))
<1> DEFINE V == ValuesOf(node, values, n)
           name == node.children[m].name
<1>0. m \in Nat \ {0} /\ m \in Nat /\ m - 1 \in Nat
  OBVIOUS
<1>1. values[m] \in V /\ ~IsArray(values[m])
  BY DEF ValuesOf
<1>2. {node.children[i].name : i \in 1 .. m}
         = {node.children[i].name : i \in 1 .. (m - 1)} \cup {name}
  <2>1. 1 .. m = 1 .. (m - 1) \cup {m}
    BY <1>0
  <2> QED
    BY <2>1
<1>a. /\ name = "" => new = old
      /\ name # "" =>
            /\ DOMAIN new = DOMAIN old \cup {name}
            /\ \A key \in DOMAIN old : key # name => new[key] = old[key]
            /\ new[name] = IF name \in DOMAIN old
                           THEN Arr(Append(Elements(old[name]), values[m]))
                           ELSE values[m]
  <2>1. new = AddChild(old, name, values[m])
    OBVIOUS
  <2> HIDE DEF name
  <2> QED
    BY <2>1 DEF AddChild, Set
<1> HIDE DEF V
<1>3. IsGrouped(node, values, old, m - 1) /\ \A key \in DOMAIN old : Elements(old[key]) \in Seq(V)
  BY DEF LoopInv, V
<1>4. DOMAIN new = DOMAIN Own(node) \cup ({node.children[i].name : i \in 1 .. m} \ {""})
  <2>1. DOMAIN old =
           DOMAIN Own(node) \cup ({node.children[i].name : i \in 1 .. (m - 1)} \ {""})
    BY <1>3 DEF IsGrouped
  <2>2. CASE name = ""
    BY <1>2, <2>1, <2>2, <1>a
  <2>3. CASE name # ""
    <3>1. DOMAIN new = DOMAIN old \cup {name}
      BY <2>3, <1>a
    <3> QED
      BY <1>2, <2>1, <2>3, <3>1
  <2> QED
    BY <2>2, <2>3
<1> DEFINE Good(key) ==
        /\ IsArray(new[key]) <=> Count(node, key, m) > 1
        /\ DOMAIN Elements(new[key]) = 1 .. Count(node, key, m)
        /\ key \in DOMAIN Own(node) => Elements(new[key])[1] = Own(node)[key]
        /\ \A i \in 1 .. m : node.children[i].name = key =>
              Elements(new[key])[Count(node, key, i)] = values[i]
        /\ Elements(new[key]) \in Seq(V)
<1>5. ASSUME NEW key \in DOMAIN new, key # name \/ name = ""
      PROVE  Good(key)
  <2>1. key # name
    <3>1. CASE name = ""
      BY <1>4, <3>1, OwnIs
    <3> QED
      BY <1>5, <3>1
  <2>2. key \in DOMAIN old /\ new[key] = old[key]
    <3>1. CASE name = ""
      BY <3>1, <1>a
    <3>2. CASE name # ""
      <4>1. DOMAIN new = DOMAIN old \cup {name}
        BY <3>2, <1>a
      <4>2. key \in DOMAIN old
        BY <2>1, <4>1
      <4> QED
        BY <2>1, <3>2, <4>2, <1>a
    <3> QED
      BY <3>1, <3>2
  <2>3. Count(node, key, m) = Count(node, key, m - 1)
    BY <1>0, <2>1, CountStep
  <2>4. \A i \in 1 .. m : i = m \/ i \in 1 .. (m - 1)
    BY <1>0
  <2>5. Elements(old[key]) \in Seq(V)
    BY <1>3, <2>2
  <2>6. /\ IsArray(old[key]) <=> Count(node, key, m - 1) > 1
        /\ DOMAIN Elements(old[key]) = 1 .. Count(node, key, m - 1)
        /\ key \in DOMAIN Own(node) => Elements(old[key])[1] = Own(node)[key]
        /\ \A i \in 1 .. (m - 1) : node.children[i].name = key =>
              Elements(old[key])[Count(node, key, i)] = values[i]
    BY <1>3, <2>2 DEF IsGrouped
  <2> QED
    BY <2>1, <2>2, <2>3, <2>4, <2>5, <2>6
<1>6. ASSUME name # "", name \notin DOMAIN old
      PROVE  Good(name)
  <2>1. new[name] = values[m]
    BY <1>6, <1>a
  <2>2. name \notin DOMAIN Own(node) /\ \A i \in 1 .. (m - 1) : node.children[i].name # name
    <3>1. DOMAIN old =
             DOMAIN Own(node) \cup ({node.children[i].name : i \in 1 .. (m - 1)} \ {""})
      BY <1>3 DEF IsGrouped
    <3> QED
      BY <1>6, <3>1
  <2>3. Count(node, name, m - 1) = 0
    BY <1>0, <2>2, CountNone
  <2>4. Count(node, name, m) = 1
    BY <1>0, <2>3, CountStep
  <2>5. ~IsArray(new[name]) /\ Elements(new[name]) = <<values[m]>>
    BY <1>1, <2>1, ElementsIs
  <2>6. \A i \in 1 .. m : node.children[i].name = name => i = m
    BY <1>0, <2>2
  <2>7. Elements(new[name]) \in Seq(V)
    BY <1>1, <2>5
  <2> QED
    BY <2>2, <2>4, <2>5, <2>6, <2>7
<1>7. ASSUME name # "", name \in DOMAIN old
      PROVE  Good(name)
  <2> DEFINE s == Elements(old[name])
             c == Count(node, name, m - 1)
  <2>1. new[name] = Arr(Append(s, values[m]))
    BY <1>7, <1>a
  <2>2. IsArray(new[name]) /\ Elements(new[name]) = Append(s, values[m])
    BY <2>1, ElementsIs
  <2>3. s \in Seq(V) /\ c \in Nat
    BY <1>0, <1>3, <1>7, CountType
  <2>4. /\ DOMAIN s = 1 .. c
        /\ name \in DOMAIN Own(node) => s[1] = Own(node)[name]
        /\ \A i \in 1 .. (m - 1) : node.children[i].name = name =>
              s[Count(node, name, i)] = values[i]
    BY <1>3, <1>7 DEF IsGrouped
  <2>5. Count(node, name, m) = c + 1
    BY <1>0, CountStep
  <2>6. c >= 1
    <3>1. CASE name \in DOMAIN Own(node)
      <4>1. Cardinality({j \in 1 .. (m - 1) : node.children[j].name = name}) \in Nat
        BY <1>0, CountType
      <4> QED
        BY <3>1, <4>1 DEF Count
    <3>2. CASE name \notin DOMAIN Own(node)
      <4>1. PICK i \in 1 .. (m - 1) : node.children[i].name = name
        BY <1>3, <1>7, <3>2 DEF IsGrouped
      <4>2. Count(node, name, i) \in 1 .. c
        BY <1>0, <4>1, CountBounds
      <4> QED
        BY <2>3, <4>2
    <3> QED
      BY <3>1, <3>2
  <2>7. \A i \in 1 .. (m - 1) : node.children[i].name = name => Count(node, name, i) \in 1 .. c
    BY <1>0, CountBounds
  <2> HIDE DEF s, c
  <2>8. Len(s) = c
    BY <2>3, <2>4
  <2> DEFINE t == Append(s, values[m])
  <2>9. /\ t \in Seq(V) /\ DOMAIN t = 1 .. (c + 1) /\ t[c + 1] = values[m]
        /\ \A k \in 1 .. c : t[k] = s[k]
    BY <1>1, <2>3, <2>8
  <2> HIDE DEF t
  <2>10. \A i \in 1 .. m : i = m \/ i \in 1 .. (m - 1)
    BY <1>0
  <2>11. ASSUME NEW i \in 1 .. m, node.children[i].name = name
         PROVE  t[Count(node, name, i)] = values[i]
    <3>1. CASE i = m
      BY <2>5, <2>9, <3>1
    <3>2. CASE i \in 1 .. (m - 1)
      BY <2>4, <2>7, <2>9, <2>11, <3>2
    <3> QED
      BY <2>10, <3>1, <3>2
  <2>12. name \in DOMAIN Own(node) => t[1] = Own(node)[name]
    <3>1. 1 \in 1 .. c
      BY <2>3, <2>6
    <3> QED
      BY <2>4, <2>9, <3>1
  <2>13. Count(node, name, m) > 1
    BY <2>3, <2>5, <2>6
  <2>14. Elements(new[name]) = t
    BY <2>2 DEF t
  <2> QED
    BY <2>2, <2>5, <2>9, <2>11, <2>12, <2>13, <2>14
<1>8. \A key \in DOMAIN new : Good(key)
  <2> HIDE DEF Good
  <2> QED
    BY <1>5, <1>6, <1>7
<1>9. IsGrouped(node, values, new, m)
  BY <1>4, <1>8 DEF IsGrouped
<1> QED
  BY <1>8, <1>9 DEF LoopInv, V

\* One call of xml_to_json loses no element and invents none, for any number of children
\* and any names: a name that occurs once has its value, one that occurs several times
\* an array of all of them in their order, also if the attributes or the first text
\* come first.
THEOREM ConversionGroups ==
    ASSUME NEW node, NEW values, Len(node.children) \in Nat,
           \A i \in 1 .. Len(node.children) : ~IsArray(values[i])
    PROVE  IsGrouped(node, values, Members(node, values), Len(node.children))
<1> DEFINE n == Len(node.children)
           L == Loop(node, values)
           V == ValuesOf(node, values, n)
           Bad == {m \in 0 .. n : ~LoopInv(node, values, L[m], m, V)}
<1>1. L[0] = Own(node)
  BY LoopIs DEF IsLoop
<1>2. \A m \in 1 .. n : L[m] = AddChild(L[m - 1], node.children[m].name, values[m])
  BY LoopIs DEF IsLoop
<1> HIDE DEF L, V
<1>3. Bad = {}
  <2> SUFFICES ASSUME Bad # {} PROVE FALSE
    OBVIOUS
  <2>1. Bad \subseteq Nat
    OBVIOUS
  <2>2. PICK m \in Bad : \A y \in Bad : m <= y
    <3> HIDE DEF Bad
    <3> QED
      BY <2>1, Least
  <2>3. m \in 0 .. n /\ ~LoopInv(node, values, L[m], m, V)
    OBVIOUS
  <2>4. m # 0
    BY <1>1, <2>3, LoopInit DEF V
  <2>5. m - 1 \in 0 .. n /\ m \in 1 .. n /\ ~(m <= m - 1)
    BY <2>3, <2>4
  <2>6. LoopInv(node, values, L[m - 1], m - 1, V)
    BY <2>2, <2>5
  <2>7. L[m] = AddChild(L[m - 1], node.children[m].name, values[m])
    BY <1>2, <2>5
  <2> HIDE DEF Bad
  <2> QED
    BY <2>3, <2>5, <2>6, <2>7, LoopStep DEF V
<1>4. LoopInv(node, values, L[n], n, V)
  <2>1. n \in 0 .. n
    OBVIOUS
  <2> QED
    BY <1>3, <2>1
<1> QED
  BY <1>4 DEF LoopInv, L, Members
----------------------------------------------------------------------------
(***************************************************************************)
(* The conversion of the XML of a domain.                                   *)
(***************************************************************************)
\* The member for a title or description.
HasText(members, field, text) ==
    IF text = "" THEN field \notin DOMAIN members
    ELSE field \in DOMAIN members /\ members[field].obj["text"].str = text

\* The JSON of a disk.
ShowsDisk(json, disk) ==
    /\ ~IsArray(json)
    /\ DOMAIN json.obj = {"attrib", "target"}
    /\ json.obj["target"].obj["attrib"].obj["dev"].str = disk.dev
    /\ json.obj["attrib"].obj["device"].str = disk.device

\* The member for the disks: an array if there are several.
HasDisks(devices, disks) ==
    /\ "disk" \in DOMAIN devices <=> disks # <<>>
    /\ DOMAIN disks = {1} => ShowsDisk(devices["disk"], disks[1])
    /\ disks # <<>> /\ DOMAIN disks # {1} =>
          /\ IsArray(devices["disk"]) /\ DOMAIN devices["disk"].arr = DOMAIN disks
          /\ \A i \in DOMAIN disks : ShowsDisk(devices["disk"].arr[i], disks[i])

\* A child whose name is no other's and no value of the node gives its value.
LEMMA OnlyChild ==
    ASSUME NEW node, NEW values, NEW members, NEW n \in Nat,
           IsGrouped(node, values, members, n),
           NEW key \in DOMAIN members, NEW i \in 1 .. n, node.children[i].name = key,
           key \notin DOMAIN Own(node),
           \A j \in 1 .. n : node.children[j].name = key => j = i
    PROVE  members[key] = values[i]
<1>1. /\ IsArray(members[key]) <=> Count(node, key, n) > 1
      /\ Elements(members[key])[Count(node, key, i)] = values[i]
  BY DEF IsGrouped
<1>2. Count(node, key, n) = 1
  <2>1. {j \in 1 .. n : node.children[j].name = key} = {i}
    OBVIOUS
  <2>2. Cardinality({j \in 1 .. n : node.children[j].name = key}) = 1
    BY <2>1, FS_Singleton
  <2> QED
    BY <2>2 DEF Count
<1>3. Count(node, key, i) = 1
  <2>1. Count(node, key, i) \in 1 .. Count(node, key, n)
    BY CountBounds
  <2> QED
    BY <1>2, <2>1
<1>4. ~IsArray(members[key]) /\ Elements(members[key])[Count(node, key, i)] = values[i]
  BY <1>1, <1>2
<1>5. Elements(members[key]) = <<members[key]>>
  BY <1>4, ElementsIs
<1> QED
  BY <1>1, <1>3, <1>4, <1>5

\* A child with a name gives a member.
LEMMA ChildMember ==
    ASSUME NEW node, NEW values, NEW members, NEW n \in Nat,
           IsGrouped(node, values, members, n),
           NEW i \in 1 .. n, node.children[i].name # ""
    PROVE  node.children[i].name \in DOMAIN members
BY DEF IsGrouped

\* So does a value of the node whose name is no child's.
LEMMA OnlyOwn ==
    ASSUME NEW node, NEW values, NEW members, NEW n \in Nat,
           IsGrouped(node, values, members, n),
           NEW key \in DOMAIN Own(node),
           \A j \in 1 .. n : node.children[j].name # key
    PROVE  key \in DOMAIN members /\ members[key] = Own(node)[key]
<1>1. key \in DOMAIN members
  BY DEF IsGrouped
<1>2. Count(node, key, n) = 1
  BY CountNone
<1>3. ~IsArray(members[key]) /\ Elements(members[key])[1] = Own(node)[key]
  <2>1. /\ IsArray(members[key]) <=> Count(node, key, n) > 1
        /\ Elements(members[key])[1] = Own(node)[key]
    BY <1>1 DEF IsGrouped
  <2> QED
    BY <1>2, <2>1
<1>4. Elements(members[key]) = <<members[key]>>
  BY <1>3, ElementsIs
<1> QED
  BY <1>1, <1>3, <1>4

\* What is assumed of xml_to_json makes it, at a node all of whose children are
\* known, group the values of these.
LEMMA ConvertGroups ==
    ASSUME NEW S, \A x \in S : Convert(x) = Obj(Members(x, ChildValues(x))),
           NEW node \in S, node.children \in Seq(S)
    PROVE  /\ ~IsArray(Convert(node))
           /\ Len(node.children) \in Nat
           /\ IsGrouped(node, ChildValues(node), Convert(node).obj, Len(node.children))
           /\ \A i \in 1 .. Len(node.children) :
                 ChildValues(node)[i] = Convert(node.children[i])
<1>1. \A x : ~IsArray(Obj(x)) /\ Obj(x).obj = x
  BY DEF IsArray, Obj
<1>2. \A x \in S : ~IsArray(Convert(x)) /\ Convert(x).obj = Members(x, ChildValues(x))
  BY <1>1
<1>3. Len(node.children) \in Nat /\ DOMAIN node.children = 1 .. Len(node.children)
  OBVIOUS
<1>4. \A i \in 1 .. Len(node.children) :
         node.children[i] \in S /\ ChildValues(node)[i] = Convert(node.children[i])
  BY <1>3 DEF ChildValues
<1>5. \A i \in 1 .. Len(node.children) : ~IsArray(ChildValues(node)[i])
  BY <1>2, <1>4
<1>6. IsGrouped(node, ChildValues(node), Members(node, ChildValues(node)), Len(node.children))
  BY <1>3, <1>5, ConversionGroups
<1> QED
  BY <1>2, <1>3, <1>4, <1>6

\* At every node that a user may have put into the metadata, the members of its JSON are
\* its own values and those of its children.
LEMMA GroupsMetadata ==
    ASSUME NEW node \in Nodes
    PROVE  IsGrouped(node, ChildValues(node), Convert(node).obj, Len(node.children))
<1>1. \A x \in Nodes : Convert(x) = Obj(Members(x, ChildValues(x)))
  BY ConvertAssumption
<1>2. node.children \in Seq(Nodes)
  BY ShowAssumption
<1> QED
  BY <1>1, <1>2, ConvertGroups

\* xml_to_json does what it does at each node of a set.
Converts(S) == \A x \in S : Convert(x) = Obj(Members(x, ChildValues(x)))

\* A node without children.
LEMMA LeafConverted ==
    ASSUME NEW S, Converts(S), NEW node \in S, node.children = <<>>,
           NEW key \in DOMAIN Own(node)
    PROVE  Convert(node).obj[key] = Own(node)[key]
<1>1. node.children \in Seq(S) /\ Len(node.children) = 0
  OBVIOUS
<1>2. IsGrouped(node, ChildValues(node), Convert(node).obj, Len(node.children))
  BY <1>1, ConvertGroups DEF Converts
<1>3. IsGrouped(node, ChildValues(node), Convert(node).obj, 0)
  BY <1>1, <1>2
<1>4. \A j \in 1 .. 0 : node.children[j].name # key
  OBVIOUS
<1> QED
  BY <1>3, <1>4, OnlyOwn

\* Children that are all elements give no text.
LEMMA NoText ==
    ASSUME NEW node, \A i \in DOMAIN node.children : node.children[i].name # ""
    PROVE  FirstText(node) = ""
<1>1. {i \in DOMAIN node.children : node.children[i].name = ""} = {}
  OBVIOUS
<1> QED
  BY <1>1 DEF FirstText

\* A single text is the first.
LEMMA OneText ==
    ASSUME NEW node, NEW text, node.children = <<Text(text)>>
    PROVE  FirstText(node) = text
<1> DEFINE texts == {i \in DOMAIN node.children : node.children[i].name = ""}
<1>1. Text(text).name = "" /\ Text(text).value = text
  BY DEF Text
<1>2. DOMAIN node.children = {1} /\ node.children[1] = Text(text)
  OBVIOUS
<1>3. texts = {1}
  BY <1>1, <1>2
<1> HIDE DEF texts
<1>4. (CHOOSE i \in texts : \A j \in texts : i <= j) = 1
  BY <1>3
<1>5. FirstText(node) = node.children[1].value
  <2>1. FirstText(node) = IF texts = {} THEN ""
                          ELSE node.children[CHOOSE i \in texts : \A j \in texts : i <= j].value
    BY Zenon DEF FirstText, texts
  <2>2. texts # {}
    BY <1>3
  <2> QED
    BY <1>4, <2>1, <2>2
<1> QED
  BY <1>1, <1>2, <1>5

\* An element with nothing but a text.
LEMMA TextConverted ==
    ASSUME NEW S, Converts(S), NEW field, NEW text,
           TextNode(field, text) \in S, Text(text) \in S
    PROVE  text # "" => Convert(TextNode(field, text)).obj["text"].str = text
<1> DEFINE node == TextNode(field, text)
           child == Text(text)
<1>1. node.children = <<child>> /\ node.attrs = NoAttrs
  BY DEF TextNode, Node
<1>2. child.name = ""
  BY DEF Text
<1>3. node \in S /\ child \in S
  OBVIOUS
<1> HIDE DEF node
<1>4. FirstText(node) = text
  BY <1>1, OneText
<1> HIDE DEF child
<1>5. text # "" => "text" \in DOMAIN Own(node) /\ Own(node)["text"] = Str(text)
  BY <1>1, <1>4 DEF Own
<1>6. node.children \in Seq(S) /\ Len(node.children) = 1 /\ node.children[1].name = ""
  <2>1. <<child>> \in Seq(S) /\ Len(<<child>>) = 1 /\ <<child>>[1] = child
    BY <1>3
  <2>2. node.children = <<child>>
    BY <1>1
  <2> QED
    BY <1>2, <2>1, <2>2
<1> DEFINE members == Convert(node).obj
           values == ChildValues(node)
<1>7. IsGrouped(node, values, members, Len(node.children))
  BY <1>3, <1>6, ConvertGroups DEF Converts
<1> HIDE DEF members, values
<1>8. IsGrouped(node, values, members, 1) /\ \A j \in 1 .. 1 : node.children[j].name # "text"
  <2>1. IsGrouped(node, values, members, 1)
    BY <1>6, <1>7
  <2>2. \A j \in 1 .. 1 : j = 1
    OBVIOUS
  <2> QED
    BY <1>6, <2>1, <2>2
<1>9. "text" \in DOMAIN Own(node) => members["text"] = Own(node)["text"]
  BY <1>8, OnlyOwn
<1>10. Str(text).str = text
  BY DEF Str
<1> QED
  BY <1>5, <1>9, <1>10 DEF members, node

\* The <target> of a disk.
LEMMA TargetConverted ==
    ASSUME NEW S, Converts(S), NEW disk, Target(disk) \in S
    PROVE  Convert(Target(disk)).obj["attrib"].obj["dev"].str = disk.dev
<1> DEFINE node == Target(disk)
           attrs == [dev |-> disk.dev]
<1>0. attrs # NoAttrs /\ DOMAIN attrs = {"dev"} /\ attrs["dev"] = disk.dev
  <2>1. DOMAIN attrs = {"dev"} /\ attrs["dev"] = disk.dev
    OBVIOUS
  <2>2. DOMAIN NoAttrs = {}
    BY DEF NoAttrs
  <2> QED
    BY <2>1, <2>2
<1>1. node = Node("target", attrs, <<>>)
  BY DEF Target
<1> HIDE DEF node, attrs
<1>2. /\ node.children = <<>> /\ "attrib" \in DOMAIN Own(node)
      /\ Own(node)["attrib"] = Obj([a \in DOMAIN attrs |-> Str(attrs[a])])
  <2>1. node.children = <<>> /\ node.attrs = attrs
    BY <1>1 DEF Node
  <2> QED
    BY <1>0, <2>1 DEF Own
<1>3. Convert(node).obj["attrib"] = Own(node)["attrib"]
  BY <1>2, LeafConverted DEF node
<1>4. Obj([a \in DOMAIN attrs |-> Str(attrs[a])]).obj["dev"].str = disk.dev
  BY <1>0 DEF Obj, Str
<1> QED
  BY <1>2, <1>3, <1>4 DEF node

\* A disk.
LEMMA DiskConverted ==
    ASSUME NEW S, Converts(S), NEW disk, Target(disk) \in S, DiskNode(disk) \in S
    PROVE  ShowsDisk(Convert(DiskNode(disk)), disk)
<1> DEFINE node == DiskNode(disk)
           target == Target(disk)
           attrs == [device |-> disk.device]
<1>0. attrs # NoAttrs /\ DOMAIN attrs = {"device"} /\ attrs["device"] = disk.device
  <2>1. DOMAIN attrs = {"device"} /\ attrs["device"] = disk.device
    OBVIOUS
  <2>2. DOMAIN NoAttrs = {}
    BY DEF NoAttrs
  <2> QED
    BY <2>1, <2>2
<1>1. node = Node("disk", attrs, <<target>>)
  BY DEF DiskNode
<1>2. target.name = "target"
  BY DEF Target, Node
<1>3. node \in S /\ target \in S
  OBVIOUS
<1> HIDE DEF node, attrs, target
<1>4. /\ node.children = <<target>>
      /\ "attrib" \in DOMAIN Own(node) /\ "text" \notin DOMAIN Own(node)
      /\ DOMAIN Own(node) \subseteq {"attrib", "text"}
      /\ Own(node)["attrib"] = Obj([a \in DOMAIN attrs |-> Str(attrs[a])])
  <2>1. node.children = <<target>> /\ node.attrs = attrs
    BY <1>1 DEF Node
  <2>2. \A i \in DOMAIN node.children : node.children[i].name # ""
    <3>1. DOMAIN node.children = {1} /\ node.children[1] = target
      BY <2>1
    <3> QED
      BY <1>2, <3>1
  <2>3. FirstText(node) = ""
    BY <2>2, NoText
  <2> QED
    BY <1>0, <2>1, <2>3 DEF Own
<1>5. /\ node.children \in Seq(S) /\ Len(node.children) = 1
      /\ node.children[1].name = "target" /\ \A j \in 1 .. 1 : j = 1
      /\ node.children[1] = target
  BY <1>2, <1>3, <1>4
<1> DEFINE json == Convert(node)
           values == ChildValues(node)
<1>6. /\ IsGrouped(node, values, json.obj, Len(node.children)) /\ ~IsArray(json)
      /\ \A i \in 1 .. Len(node.children) : values[i] = Convert(node.children[i])
  BY <1>3, <1>5, ConvertGroups DEF Converts
<1> HIDE DEF json, values
<1>7. /\ IsGrouped(node, values, json.obj, 1) /\ 1 \in 1 .. 1 /\ values[1] = Convert(target)
  BY <1>5, <1>6
<1>8. json.obj["attrib"] = Own(node)["attrib"]
  <2>1. \A j \in 1 .. 1 : node.children[j].name # "attrib"
    BY <1>5
  <2> QED
    BY <1>4, <1>7, <2>1, OnlyOwn
<1>9. DOMAIN json.obj = {"attrib", "target"}
  <2>1. {node.children[i].name : i \in 1 .. 1} = {"target"}
    BY <1>5
  <2>2. DOMAIN json.obj = DOMAIN Own(node) \cup ({node.children[i].name : i \in 1 .. 1} \ {""})
    BY <1>7 DEF IsGrouped
  <2>3. DOMAIN Own(node) = {"attrib"}
    BY <1>4
  <2> QED
    BY <2>1, <2>2, <2>3
<1>10. json.obj["target"] = Convert(target)
  <2>1. "target" \in DOMAIN json.obj /\ "target" \notin DOMAIN Own(node)
    BY <1>4, <1>9
  <2>2. json.obj["target"] = values[1]
    BY <1>5, <1>7, <2>1, OnlyChild
  <2> QED
    BY <1>7, <2>2
<1>11. Convert(target).obj["attrib"].obj["dev"].str = disk.dev
  BY TargetConverted DEF target
<1>12. Obj([a \in DOMAIN attrs |-> Str(attrs[a])]).obj["device"].str = disk.device
  BY <1>0 DEF Obj, Str
<1> QED
  BY <1>4, <1>6, <1>8, <1>9, <1>10, <1>11, <1>12 DEF ShowsDisk, json, node

\* An element without attributes, all of whose children are elements.
LEMMA BareIs ==
    ASSUME NEW node, node.attrs = NoAttrs,
           \A i \in DOMAIN node.children : node.children[i].name # ""
    PROVE  DOMAIN Own(node) = {}
<1>1. FirstText(node) = ""
  BY NoText
<1> QED
  BY <1>1 DEF Own

\* The children of <devices>.
LEMMA DevicesChildren ==
    ASSUME NEW S, NEW disks \in DiskLists, {Emulator, Graphics} \subseteq S,
           \A i \in DOMAIN disks : DiskNode(disks[i]) \in S
    PROVE  LET c == DevicesNode(disks).children
           IN  /\ c \in Seq(S) /\ Len(c) = Len(disks) + 2
               /\ c[1] = Emulator
               /\ \A i \in 1 .. Len(disks) : c[i + 1] = DiskNode(disks[i])
               /\ c[Len(disks) + 2] = Graphics
<1> DEFINE k == Len(disks)
           middle == [i \in DOMAIN disks |-> DiskNode(disks[i])]
           c == <<Emulator>> \o middle \o <<Graphics>>
<1>1. k \in Nat /\ DOMAIN disks = 1 .. k
  BY DiskListType
<1>2. middle \in Seq(S) /\ Len(middle) = k /\ \A i \in 1 .. k : middle[i] = DiskNode(disks[i])
  <2>1. middle \in [1 .. k -> S] /\ \A i \in 1 .. k : middle[i] = DiskNode(disks[i])
    BY <1>1
  <2> HIDE DEF middle
  <2> QED
    BY <1>1, <2>1
<1>3. DevicesNode(disks).children = c
  BY DEF DevicesNode, Node
<1>4. <<Emulator>> \in Seq(S) /\ <<Graphics>> \in Seq(S)
  OBVIOUS
<1> DEFINE front == <<Emulator>> \o middle
<1> HIDE DEF middle, k
<1>5. /\ front \in Seq(S) /\ Len(front) = k + 1 /\ front[1] = Emulator
      /\ \A i \in 1 .. k : front[i + 1] = middle[i]
  BY <1>1, <1>2, <1>4
<1> HIDE DEF front
<1> DEFINE all == front \o <<Graphics>>
<1>6. /\ all \in Seq(S) /\ Len(all) = k + 2 /\ all[k + 2] = Graphics
      /\ \A i \in 1 .. (k + 1) : all[i] = front[i]
  BY <1>1, <1>4, <1>5
<1>7. DevicesNode(disks).children = all
  BY <1>3 DEF front
<1> HIDE DEF all
<1>8. /\ 1 \in 1 .. (k + 1) /\ \A i \in 1 .. k : i + 1 \in 1 .. (k + 1)
  BY <1>1
<1>9. all[1] = Emulator /\ \A i \in 1 .. k : all[i + 1] = DiskNode(disks[i])
  BY <1>2, <1>5, <1>6, <1>8
<1> QED
  BY <1>6, <1>7, <1>9 DEF k

\* The JSON of <devices>.
LEMMA DevicesConverted ==
    ASSUME NEW S, Converts(S), NEW disks \in DiskLists, NEW devices,
           {DevicesNode(disks), Emulator, Graphics} \subseteq S,
           \A i \in DOMAIN disks : DiskNode(disks[i]) \in S /\ Target(disks[i]) \in S,
           devices = Convert(DevicesNode(disks)).obj
    PROVE  /\ HasDisks(devices, disks)
           /\ {"emulator", "graphics"} \subseteq DOMAIN devices
           /\ ~IsArray(devices["emulator"]) /\ ~IsArray(devices["graphics"])
<1> DEFINE k == Len(disks)
           node == DevicesNode(disks)
           values == ChildValues(node)
           n == k + 2
           Name(j) == node.children[j].name
<1>1. k \in Nat /\ DOMAIN disks = 1 .. k /\ n \in Nat /\ (disks = <<>> <=> k = 0)
  BY DiskListType
<1>2. /\ node.children \in Seq(S) /\ Len(node.children) = n
      /\ node.children[1] = Emulator /\ node.children[n] = Graphics
      /\ \A i \in 1 .. k : node.children[i + 1] = DiskNode(disks[i])
  BY DevicesChildren
<1>3. Emulator.name = "emulator" /\ Graphics.name = "graphics"
  BY DEF Emulator, Graphics, TextNode, Node
<1>4. \A i \in 1 .. k : DiskNode(disks[i]).name = "disk"
  BY DEF DiskNode, Node
<1>5. DOMAIN Own(node) = {}
  <2>1. ASSUME NEW j \in 1 .. n PROVE node.children[j].name # ""
    <3>1. CASE j = 1
      BY <1>2, <1>3, <3>1
    <3>2. CASE j = n
      BY <1>2, <1>3, <3>2
    <3>3. CASE j # 1 /\ j # n
      <4>1. j - 1 \in 1 .. k /\ j = (j - 1) + 1
        BY <1>1, <3>3
      <4>2. node.children[j].name = "disk"
        BY <1>2, <1>4, <4>1
      <4> QED
        BY <4>2
    <3> QED
      BY <3>1, <3>2, <3>3
  <2>2. DOMAIN node.children = 1 .. n
    BY <1>1, <1>2
  <2>3. node.attrs = NoAttrs
    BY DEF DevicesNode, Node
  <2> HIDE DEF node
  <2> QED
    BY <2>1, <2>2, <2>3, BareIs
<1> HIDE DEF node, values
<1>6. node \in S
  BY DEF node
<1>7. /\ IsGrouped(node, values, devices, Len(node.children))
      /\ \A i \in 1 .. Len(node.children) : values[i] = Convert(node.children[i])
  BY <1>2, <1>6, ConvertGroups DEF Converts, node, values
<1>8. /\ IsGrouped(node, values, devices, n)
      /\ \A i \in 1 .. n : values[i] = Convert(node.children[i])
  BY <1>2, <1>7
<1>9. \A j \in 1 .. n : j = 1 \/ j = n \/ \E i \in 1 .. k : j = i + 1
  <2> SUFFICES ASSUME NEW j \in 1 .. n, j # 1, j # n PROVE \E i \in 1 .. k : j = i + 1
    OBVIOUS
  <2>1. j - 1 \in 1 .. k /\ j = (j - 1) + 1
    BY <1>1
  <2> QED
    BY <2>1
<1>10. \A i \in 1 .. k : i + 1 \in 1 .. n /\ i + 1 # 1 /\ i + 1 # n
  BY <1>1
<1>11. /\ Name(1) = "emulator" /\ Name(n) = "graphics" /\ 1 \in 1 .. n /\ n \in 1 .. n
       /\ \A i \in 1 .. k : Name(i + 1) = "disk"
  BY <1>1, <1>2, <1>3, <1>4
<1> HIDE DEF k, n
<1>12. DOMAIN devices = {Name(j) : j \in 1 .. n} \ {""}
  BY <1>5, <1>8 DEF IsGrouped
<1>13. ASSUME NEW j \in 1 .. n
       PROVE  /\ Name(j) = "emulator" => j = 1
              /\ Name(j) = "graphics" => j = n
              /\ Name(j) = "disk" <=> \E i \in 1 .. k : j = i + 1
  BY <1>9, <1>10, <1>11
<1>14. "emulator" \in DOMAIN devices /\ devices["emulator"] = values[1]
  <2>1. "emulator" \in DOMAIN devices
    BY <1>11, <1>12
  <2>2. \A j \in 1 .. n : node.children[j].name = "emulator" => j = 1
    BY <1>13
  <2> QED
    BY <1>1, <1>5, <1>8, <1>11, <2>1, <2>2, OnlyChild
<1>15. "graphics" \in DOMAIN devices /\ devices["graphics"] = values[n]
  <2>1. "graphics" \in DOMAIN devices
    BY <1>11, <1>12
  <2>2. \A j \in 1 .. n : node.children[j].name = "graphics" => j = n
    BY <1>13
  <2> QED
    BY <1>1, <1>5, <1>8, <1>11, <2>1, <2>2, OnlyChild
<1>16. ~IsArray(values[1]) /\ ~IsArray(values[n])
  <2>1. \A x : ~IsArray(Obj(x))
    BY DEF IsArray, Obj
  <2>2. ~IsArray(Convert(Emulator)) /\ ~IsArray(Convert(Graphics))
    BY <2>1 DEF Converts
  <2> QED
    BY <1>2, <1>8, <1>11, <2>2
<1>17. \A i \in 1 .. k : i \in DOMAIN disks /\ ShowsDisk(values[i + 1], disks[i])
  <2> SUFFICES ASSUME NEW i \in 1 .. k
               PROVE  i \in DOMAIN disks /\ ShowsDisk(values[i + 1], disks[i])
    OBVIOUS
  <2>1. i \in DOMAIN disks /\ DiskNode(disks[i]) \in S /\ Target(disks[i]) \in S
    BY <1>1
  <2>2. ShowsDisk(Convert(DiskNode(disks[i])), disks[i])
    BY <2>1, DiskConverted
  <2>3. values[i + 1] = Convert(DiskNode(disks[i]))
    BY <1>2, <1>8, <1>10
  <2> QED
    BY <2>1, <2>2, <2>3
<1>18. "disk" \in DOMAIN devices <=> disks # <<>>
  <2>1. ASSUME "disk" \in DOMAIN devices PROVE k # 0
    <3>1. PICK j \in 1 .. n : Name(j) = "disk"
      BY <1>12, <2>1
    <3>2. \E i \in 1 .. k : j = i + 1
      BY <1>13, <3>1
    <3> QED
      BY <3>2
  <2>2. ASSUME k # 0 PROVE "disk" \in DOMAIN devices
    <3>1. 1 \in 1 .. k
      BY <1>1, <2>2
    <3>2. Name(1 + 1) = "disk" /\ 1 + 1 \in 1 .. n
      BY <1>10, <1>11, <3>1
    <3> QED
      BY <1>12, <3>2
  <2> QED
    BY <1>1, <2>1, <2>2
<1>19. ASSUME DOMAIN disks = {1} PROVE ShowsDisk(devices["disk"], disks[1])
  <2>1. k = 1 /\ disks # <<>>
    <3>1. 1 .. k = {1}
      BY <1>1, <1>19
    <3>2. k = 1
      BY <1>1, <3>1
    <3> QED
      BY <1>1, <3>2
  <2>2. "disk" \in DOMAIN devices /\ 1 \in 1 .. k /\ 2 \in 1 .. n
    BY <1>1, <1>10, <1>18, <2>1
  <2>3. Name(2) = "disk" /\ \A j \in 1 .. n : Name(j) = "disk" => j = 2
    <3>1. Name(1 + 1) = "disk"
      BY <1>11, <2>2
    <3>2. \A i \in 1 .. k : i = 1
      BY <2>1
    <3>3. \A j \in 1 .. n : Name(j) = "disk" => j = 1 + 1
      BY <1>13, <3>2
    <3> QED
      BY <3>1, <3>3
  <2>4. devices["disk"] = values[2]
    BY <1>1, <1>5, <1>8, <2>2, <2>3, OnlyChild
  <2>5. ShowsDisk(values[1 + 1], disks[1])
    BY <1>17, <2>2
  <2> QED
    BY <2>4, <2>5
<1>20. \A l \in Nat : Cardinality(2 .. (l + 1)) = l
  <2> SUFFICES ASSUME NEW l \in Nat PROVE Cardinality(2 .. (l + 1)) = l
    OBVIOUS
  <2>1. 2 \in Int /\ l + 1 \in Int
    OBVIOUS
  <2>2. Cardinality(2 .. (l + 1)) = IF 2 > l + 1 THEN 0 ELSE (l + 1) - 2 + 1
    BY <2>1, FS_Interval
  <2> QED
    BY <2>2
<1>21. ASSUME NEW m \in Nat, NEW l \in Nat, l <= k, m <= n,
              \A j \in 1 .. m : (\E i \in 1 .. k : j = i + 1) <=> j \in 2 .. (l + 1),
              l + 1 <= m
       PROVE  Count(node, "disk", m) = l
  <2>1. {j \in 1 .. m : node.children[j].name = "disk"} = 2 .. (l + 1)
    <3>1. \A j \in 1 .. m : j \in 1 .. n
      BY <1>1, <1>21
    <3>2. \A j \in 1 .. m : Name(j) = "disk" <=> j \in 2 .. (l + 1)
      BY <1>13, <1>21, <3>1
    <3>3. 2 .. (l + 1) \subseteq 1 .. m
      BY <1>21
    <3> QED
      BY <3>2, <3>3
  <2>2. Cardinality({j \in 1 .. m : node.children[j].name = "disk"}) = l
    BY <1>20, <2>1
  <2>3. "disk" \notin DOMAIN Own(node)
    BY <1>5
  <2> QED
    BY <2>2, <2>3 DEF Count
<1>22. Count(node, "disk", n) = k
  <2>1. \A j \in 1 .. n : (\E i \in 1 .. k : j = i + 1) <=> j \in 2 .. (k + 1)
    <3> SUFFICES ASSUME NEW j \in 1 .. n
                 PROVE  (\E i \in 1 .. k : j = i + 1) <=> j \in 2 .. (k + 1)
      OBVIOUS
    <3>1. j \in 2 .. (k + 1) => j - 1 \in 1 .. k /\ j = (j - 1) + 1
      BY <1>1
    <3>2. (\E i \in 1 .. k : j = i + 1) => j \in 2 .. (k + 1)
      BY <1>1
    <3> QED
      BY <3>1, <3>2
  <2>2. k <= k /\ n <= n /\ k + 1 <= n
    BY <1>1 DEF n
  <2> QED
    BY <1>1, <1>21, <2>1, <2>2
<1>23. ASSUME NEW i \in 1 .. k PROVE Count(node, "disk", i + 1) = i
  <2>1. \A j \in 1 .. (i + 1) : (\E h \in 1 .. k : j = h + 1) <=> j \in 2 .. (i + 1)
    <3> SUFFICES ASSUME NEW j \in 1 .. (i + 1)
                 PROVE  (\E h \in 1 .. k : j = h + 1) <=> j \in 2 .. (i + 1)
      OBVIOUS
    <3>1. j \in 2 .. (i + 1) => j - 1 \in 1 .. k /\ j = (j - 1) + 1
      BY <1>1
    <3>2. (\E h \in 1 .. k : j = h + 1) => j \in 2 .. (i + 1)
      BY <1>1
    <3> QED
      BY <3>1, <3>2
  <2>2. i \in Nat /\ i + 1 \in Nat /\ i <= k /\ i + 1 <= n /\ i + 1 <= i + 1
    BY <1>1 DEF n
  <2> QED
    BY <1>21, <2>1, <2>2
<1>24. ASSUME disks # <<>>, DOMAIN disks # {1}
       PROVE  /\ IsArray(devices["disk"]) /\ DOMAIN devices["disk"].arr = DOMAIN disks
              /\ \A i \in DOMAIN disks : ShowsDisk(devices["disk"].arr[i], disks[i])
  <2>1. k > 1
    <3>1. k # 0 /\ k # 1
      BY <1>1, <1>24
    <3> QED
      BY <1>1, <3>1
  <2>2. "disk" \in DOMAIN devices
    BY <1>18, <1>24
  <2>3. /\ IsArray(devices["disk"]) <=> Count(node, "disk", n) > 1
        /\ DOMAIN Elements(devices["disk"]) = 1 .. Count(node, "disk", n)
        /\ \A i \in 1 .. n : Name(i) = "disk" =>
              Elements(devices["disk"])[Count(node, "disk", i)] = values[i]
    BY <1>8, <2>2 DEF IsGrouped
  <2>4. IsArray(devices["disk"]) /\ DOMAIN Elements(devices["disk"]) = 1 .. k
    BY <1>22, <2>1, <2>3
  <2>5. Elements(devices["disk"]) = devices["disk"].arr
    BY <2>4 DEF Elements
  <2>6. \A i \in 1 .. k : Elements(devices["disk"])[i] = values[i + 1]
    BY <1>10, <1>11, <1>23, <2>3
  <2> QED
    BY <1>1, <1>17, <2>4, <2>5, <2>6
<1> QED
  BY <1>14, <1>15, <1>16, <1>18, <1>19, <1>24 DEF HasDisks

\* Every node of a list has a name of its own.
DistinctNames(c) ==
    /\ \A i \in 1 .. Len(c) : c[i].name # ""
    /\ \A i, j \in 1 .. Len(c) : c[i].name = c[j].name => i = j

\* Children with names of their own each give a member, and nothing else does.
LEMMA DistinctConverted ==
    ASSUME NEW S, Converts(S), NEW node \in S, node.children \in Seq(S),
           DOMAIN Own(node) = {}, DistinctNames(node.children)
    PROVE  /\ \A i \in 1 .. Len(node.children) :
                 /\ node.children[i].name \in DOMAIN Convert(node).obj
                 /\ Convert(node).obj[node.children[i].name] = Convert(node.children[i])
           /\ \A key \in DOMAIN Convert(node).obj :
                 \E i \in 1 .. Len(node.children) : node.children[i].name = key
<1> DEFINE n == Len(node.children)
           members == Convert(node).obj
           values == ChildValues(node)
<1>1. /\ n \in Nat /\ IsGrouped(node, values, members, n)
      /\ \A i \in 1 .. n : values[i] = Convert(node.children[i])
  BY ConvertGroups DEF Converts
<1> HIDE DEF n, members, values
<1>2. ASSUME NEW i \in 1 .. n
      PROVE  /\ node.children[i].name \in DOMAIN members
             /\ members[node.children[i].name] = Convert(node.children[i])
  <2>1. node.children[i].name \in DOMAIN members
    <3>1. node.children[i].name # ""
      BY DEF n, DistinctNames
    <3> QED
      BY <1>1, <3>1, ChildMember
  <2>2. members[node.children[i].name] = values[i]
    <3> DEFINE key == node.children[i].name
    <3>1. \A j \in 1 .. n : node.children[j].name = key => j = i
      BY DEF n, DistinctNames
    <3>2. key \notin DOMAIN Own(node) /\ key \in DOMAIN members /\ node.children[i].name = key
      BY <2>1
    <3> HIDE DEF key
    <3>3. members[key] = values[i]
      <4>1. n \in Nat /\ IsGrouped(node, values, members, n)
        BY <1>1
      <4>2. key \notin DOMAIN Own(node) /\ key \in DOMAIN members
        BY <3>2
      <4>3. node.children[i].name = key
        BY <3>2
      <4> QED
        BY <3>1, <4>1, <4>2, <4>3, OnlyChild
    <3> QED
      BY <3>3 DEF key
  <2> QED
    BY <1>1, <2>1, <2>2
<1>3. \A key \in DOMAIN members : \E i \in 1 .. n : node.children[i].name = key
  <2>1. DOMAIN members =
           DOMAIN Own(node) \cup ({node.children[i].name : i \in 1 .. n} \ {""})
    BY <1>1 DEF IsGrouped
  <2> QED
    BY <2>1
<1> QED
  BY <1>2, <1>3 DEF n, members

\* The children of <domain> have names of their own: metadata, devices, and the texts
\* that are not empty.
DomainShape(c, d, metadata) ==
    /\ DistinctNames(c)
    /\ \E i \in 1 .. Len(c) : c[i] = metadata
    /\ \E i \in 1 .. Len(c) : c[i] = DevicesNode(d.disks)
    /\ \A field \in {"title", "description"} :
          IF d[field] = "" THEN \A i \in 1 .. Len(c) : c[i].name # field
          ELSE \E i \in 1 .. Len(c) : c[i] = TextNode(field, d[field])

\* Where the elements of a concatenation are.
LEMMA ConcatIs ==
    ASSUME NEW S, NEW s \in Seq(S), NEW t \in Seq(S)
    PROVE  /\ s \o t \in Seq(S) /\ Len(s) \in Nat /\ Len(t) \in Nat
           /\ Len(s \o t) = Len(s) + Len(t)
           /\ \A i \in 1 .. Len(s) : (s \o t)[i] = s[i]
           /\ \A i \in 1 .. Len(t) : (s \o t)[Len(s) + i] = t[i]
OBVIOUS

\* A list is put together from three.
Joined(c, s, t, u) == c = s \o t \o u

\* Where its elements are.
Placed3(S, c, s, t, u) ==
    /\ Len(s) \in Nat /\ Len(t) \in Nat
    /\ c \in Seq(S) /\ Len(c) = Len(s) + Len(t) + Len(u)
    /\ \A i \in 1 .. Len(s) : c[i] = s[i]
    /\ \A i \in 1 .. Len(t) : c[Len(s) + i] = t[i]
    /\ \A i \in 1 .. Len(u) : c[Len(s) + Len(t) + i] = u[i]

LEMMA Concat3 ==
    ASSUME NEW S, NEW s \in Seq(S), NEW t \in Seq(S), NEW u \in Seq(S), NEW c, Joined(c, s, t, u)
    PROVE  Placed3(S, c, s, t, u)
<1> USE DEF Joined
<1> DEFINE st == s \o t
<1>1. /\ st \in Seq(S) /\ Len(s) \in Nat /\ Len(t) \in Nat
      /\ Len(st) = Len(s) + Len(t)
      /\ \A i \in 1 .. Len(s) : st[i] = s[i]
      /\ \A i \in 1 .. Len(t) : st[Len(s) + i] = t[i]
  BY ConcatIs
<1> HIDE DEF st
<1>2. st \in Seq(S)
  BY <1>1
<1>3. c = st \o u
  BY DEF st
<1>4. /\ c \in Seq(S) /\ Len(st) \in Nat /\ Len(u) \in Nat
      /\ Len(c) = Len(st) + Len(u)
      /\ \A i \in 1 .. Len(st) : c[i] = st[i]
      /\ \A i \in 1 .. Len(u) : c[Len(st) + i] = u[i]
  BY <1>2, <1>3, ConcatIs
<1> HIDE DEF Joined
<1>5. /\ c \in Seq(S) /\ Len(c) = Len(s) + Len(t) + Len(u)
      /\ \A i \in 1 .. Len(s) : c[i] = s[i]
  BY <1>1, <1>4
<1>6. \A i \in 1 .. Len(t) : c[Len(s) + i] = t[i]
  <2> SUFFICES ASSUME NEW i \in 1 .. Len(t) PROVE c[Len(s) + i] = t[i]
    OBVIOUS
  <2>1. Len(s) + i \in 1 .. Len(st)
    BY <1>1
  <2> QED
    BY <1>1, <1>4, <2>1
<1>7. \A i \in 1 .. Len(u) : c[Len(s) + Len(t) + i] = u[i]
  BY <1>1, <1>4
<1> QED
  BY <1>1, <1>5, <1>6, <1>7 DEF Placed3

\* The children of <domain>.
LEMMA DomainChildren ==
    ASSUME NEW d, NEW metadata \in Metadata, NEW S,
           {metadata, DevicesNode(d.disks), TextNode("title", d.title),
            TextNode("description", d.description)} \subseteq S
    PROVE  \E c \in Seq(S) :
              DomainNode(d, metadata).children = c /\ DomainShape(c, d, metadata)
<1> DEFINE T == TextNode("title", d.title)
           D == TextNode("description", d.description)
           V == DevicesNode(d.disks)
           a == d.title = ""
           b == d.description = ""
           A == IF a THEN <<>> ELSE <<T>>
           B == IF b THEN <<>> ELSE <<D>>
           end == <<metadata, V>>
           c == A \o B \o end
           p == Len(A)
           q == Len(B)
<1>1. DomainNode(d, metadata).children = c
  BY DEF DomainNode, Node, IfText
<1>2. /\ T.name = "title" /\ D.name = "description" /\ V.name = "devices"
      /\ metadata.name = "metadata"
  BY DEF DevicesNode, Node, TextNode, Metadata
<1>3. T \in S /\ D \in S /\ V \in S /\ metadata \in S /\ a \in BOOLEAN /\ b \in BOOLEAN
  OBVIOUS
<1> HIDE DEF T, D, V, a, b
<1>4. /\ A \in Seq(S) /\ (a => p = 0) /\ (~a => p = 1 /\ A[1] = T)
      /\ B \in Seq(S) /\ (b => q = 0) /\ (~b => q = 1 /\ B[1] = D)
  BY <1>3
<1>5. end \in Seq(S) /\ Len(end) = 2 /\ end[1] = metadata /\ end[2] = V
  BY <1>3
<1>6. Joined(c, A, B, end) /\ A \in Seq(S) /\ B \in Seq(S) /\ end \in Seq(S)
  BY <1>4, <1>5 DEF Joined
<1> HIDE DEF A, B, end, c
<1>7. /\ c \in Seq(S) /\ Len(c) = p + q + Len(end)
      /\ \A i \in 1 .. p : c[i] = A[i]
      /\ \A i \in 1 .. q : c[p + i] = B[i]
      /\ \A i \in 1 .. Len(end) : c[p + q + i] = end[i]
  <2>1. Placed3(S, c, A, B, end)
    BY <1>6, Concat3
  <2> QED
    BY <2>1 DEF Placed3
<1> HIDE DEF p, q
<1>8. /\ p \in {0, 1} /\ q \in {0, 1} /\ (a => p = 0) /\ (b => q = 0)
      /\ (~a => p = 1) /\ (~b => q = 1)
      /\ Len(c) = p + q + 2
      /\ p = 1 => c[1] = T
      /\ q = 1 => c[p + 1] = D
      /\ c[p + q + 1] = metadata /\ c[p + q + 2] = V
  <2>1. /\ p \in {0, 1} /\ q \in {0, 1} /\ (a => p = 0) /\ (b => q = 0)
        /\ (~a => p = 1) /\ (~b => q = 1)
    BY <1>4
  <2>2. Len(c) = p + q + 2
    BY <1>5, <1>7
  <2>3. p = 1 => c[1] = T
    <3>1. p = 1 => A[1] = T /\ 1 \in 1 .. p
      BY <1>4
    <3> QED
      BY <1>7, <3>1
  <2>4. q = 1 => c[p + 1] = D
    <3>1. q = 1 => B[1] = D /\ 1 \in 1 .. q
      BY <1>4
    <3> QED
      BY <1>7, <3>1
  <2>5. c[p + q + 1] = metadata /\ c[p + q + 2] = V
    <3>1. 1 \in 1 .. Len(end) /\ 2 \in 1 .. Len(end)
      BY <1>5
    <3> QED
      BY <1>5, <1>7, <3>1
  <2> QED
    BY <2>1, <2>2, <2>3, <2>4, <2>5, ZenonT(60)
<1>9. \E i \in 1 .. Len(c) : c[i] = metadata
  BY <1>8
<1>10. \E i \in 1 .. Len(c) : c[i] = V
  BY <1>8
<1>11. ASSUME NEW i \in 1 .. Len(c)
      PROVE  \/ p = 1 /\ i = 1
             \/ q = 1 /\ i = p + 1
             \/ i = p + q + 1
             \/ i = p + q + 2
  BY <1>8
<1>12. ASSUME NEW i \in 1 .. Len(c)
       PROVE  /\ c[i].name \in {"title", "description", "metadata", "devices"}
              /\ c[i].name = "title" <=> p = 1 /\ i = 1
              /\ c[i].name = "description" <=> q = 1 /\ i = p + 1
              /\ c[i].name = "metadata" <=> i = p + q + 1
              /\ c[i].name = "devices" <=> i = p + q + 2
  <2>1. CASE p = 1 /\ i = 1
    BY <1>2, <1>8, <2>1
  <2>2. CASE q = 1 /\ i = p + 1
    BY <1>2, <1>8, <2>2
  <2>3. CASE i = p + q + 1
    BY <1>2, <1>8, <2>3
  <2>4. CASE i = p + q + 2
    BY <1>2, <1>8, <2>4
  <2> QED
    BY <1>11, <2>1, <2>2, <2>3, <2>4
<1>13. \A i \in 1 .. Len(c) : c[i].name # ""
  <2> SUFFICES ASSUME NEW i \in 1 .. Len(c) PROVE c[i].name # ""
    OBVIOUS
  <2>1. c[i].name \in {"title", "description", "metadata", "devices"}
    BY <1>12
  <2> QED
    BY <2>1
<1>14. \A i, j \in 1 .. Len(c) : c[i].name = c[j].name => i = j
  <2> SUFFICES ASSUME NEW i \in 1 .. Len(c), NEW j \in 1 .. Len(c), c[i].name = c[j].name
               PROVE  i = j
    OBVIOUS
  <2>1. c[i].name \in {"title", "description", "metadata", "devices"}
    BY <1>12
  <2>2. CASE c[i].name = "title"
    BY <1>12, <2>2
  <2>3. CASE c[i].name = "description"
    BY <1>12, <2>3
  <2>4. CASE c[i].name = "metadata"
    BY <1>12, <2>4
  <2>5. CASE c[i].name = "devices"
    BY <1>12, <2>5
  <2> QED
    BY <2>1, <2>2, <2>3, <2>4, <2>5
<1>15. ASSUME ~a PROVE \E i \in 1 .. Len(c) : c[i] = T
  <2>1. 1 \in 1 .. Len(c) /\ c[1] = T
    BY <1>8, <1>15
  <2> QED
    BY <2>1
<1>16. ASSUME ~b PROVE \E i \in 1 .. Len(c) : c[i] = D
  <2>1. p + 1 \in 1 .. Len(c) /\ c[p + 1] = D
    BY <1>8, <1>16
  <2> QED
    BY <2>1
<1>17. /\ a => \A i \in 1 .. Len(c) : c[i].name # "title"
       /\ b => \A i \in 1 .. Len(c) : c[i].name # "description"
  <2>1. (a => p # 1) /\ (b => q # 1)
    BY <1>8
  <2> QED
    BY <1>12, <2>1
<1>18. \A field \in {"title", "description"} :
          IF d[field] = "" THEN \A i \in 1 .. Len(c) : c[i].name # field
          ELSE \E i \in 1 .. Len(c) : c[i] = TextNode(field, d[field])
  <2> SUFFICES ASSUME NEW field \in {"title", "description"}
               PROVE  IF d[field] = "" THEN \A i \in 1 .. Len(c) : c[i].name # field
                      ELSE \E i \in 1 .. Len(c) : c[i] = TextNode(field, d[field])
    OBVIOUS
  <2>1. CASE field = "title"
    BY <1>15, <1>17, <2>1 DEF a, T
  <2>2. CASE field = "description"
    BY <1>16, <1>17, <2>2 DEF b, D
  <2> QED
    BY <2>1, <2>2
<1>19. DomainShape(c, d, metadata)
  BY <1>9, <1>10, <1>13, <1>14, <1>18 DEF DomainShape, DistinctNames, V
<1> QED
  BY <1>1, <1>7, <1>19

\* The conversion of a domain's XML.
LEMMA ConvertIs ==
    ASSUME NEW d \in Domain, NEW metadata \in Metadata,
           NEW members, members = Convert(DomainNode(d, metadata)).obj
    PROVE  /\ HasText(members, "title", d.title)
           /\ HasText(members, "description", d.description)
           /\ "metadata" \in DOMAIN members /\ members["metadata"] = Convert(metadata)
           /\ "devices" \in DOMAIN members
           /\ HasDisks(members["devices"].obj, d.disks)
           /\ {"emulator", "graphics"} \subseteq DOMAIN members["devices"].obj
           /\ ~IsArray(members["devices"].obj["emulator"])
           /\ ~IsArray(members["devices"].obj["graphics"])
<1> DEFINE S == Nodes \cup NodesOf(d, metadata)
           node == DomainNode(d, metadata)
           devices == DevicesNode(d.disks)
<1>1. Converts(S)
  BY ConvertAssumption DEF Converts
<1>2. /\ metadata \in S /\ metadata.name = "metadata" /\ node \in S /\ devices \in S
      /\ Emulator \in S /\ Graphics \in S
      /\ \A field \in {"title", "description"} :
            TextNode(field, d[field]) \in S /\ Text(d[field]) \in S
      /\ \A i \in DOMAIN d.disks : DiskNode(d.disks[i]) \in S /\ Target(d.disks[i]) \in S
  BY DEF Metadata, NodesOf
<1>3. d.disks \in DiskLists
  BY DomainType
<1>4. node.attrs = NoAttrs
  BY DEF DomainNode, Node
<1>5. devices.name = "devices"
  BY DEF DevicesNode, Node
<1> HIDE DEF S, node, devices
<1>6. PICK c \in Seq(S) : node.children = c /\ DomainShape(c, d, metadata)
  <2>1. {metadata, devices, TextNode("title", d.title),
         TextNode("description", d.description)} \subseteq S
    BY <1>2
  <2> QED
    BY <1>2, <2>1, DomainChildren DEF node, devices
<1>7. /\ \A i \in 1 .. Len(c) :
            c[i].name \in DOMAIN members /\ members[c[i].name] = Convert(c[i])
      /\ \A key \in DOMAIN members : \E i \in 1 .. Len(c) : c[i].name = key
  <2>1. DistinctNames(node.children)
    BY <1>6 DEF DomainShape
  <2>2. DOMAIN Own(node) = {}
    <3>1. \A i \in DOMAIN node.children : node.children[i].name # ""
      <4>1. DOMAIN node.children = 1 .. Len(node.children)
        BY <1>6
      <4> QED
        BY <2>1, <4>1 DEF DistinctNames
    <3> QED
      BY <1>4, <3>1, BareIs
  <2>3. node.children \in Seq(S) /\ members = Convert(node).obj
    BY <1>6 DEF node
  <2>4. /\ \A i \in 1 .. Len(node.children) :
              /\ node.children[i].name \in DOMAIN Convert(node).obj
              /\ Convert(node).obj[node.children[i].name] = Convert(node.children[i])
        /\ \A key \in DOMAIN Convert(node).obj :
              \E i \in 1 .. Len(node.children) : node.children[i].name = key
    BY <1>1, <1>2, <2>1, <2>3, <2>2, DistinctConverted
  <2> QED
    BY <1>6, <2>3, <2>4
<1>8. "metadata" \in DOMAIN members /\ members["metadata"] = Convert(metadata)
  <2>1. PICK i \in 1 .. Len(c) : c[i] = metadata
    BY <1>6 DEF DomainShape
  <2> QED
    BY <1>2, <1>7, <2>1
<1>9. "devices" \in DOMAIN members /\ members["devices"] = Convert(devices)
  <2>1. PICK i \in 1 .. Len(c) : c[i] = devices
    BY <1>6 DEF DomainShape, devices
  <2> QED
    BY <1>5, <1>7, <2>1
<1>10. ASSUME NEW field \in {"title", "description"}, NEW text, text = d[field]
       PROVE  HasText(members, field, text)
  <2> DEFINE leaf == TextNode(field, text)
  <2>1. leaf.name = field
    BY DEF TextNode, Node
  <2>2. CASE text = ""
    <3>1. \A i \in 1 .. Len(c) : c[i].name # field
      BY <1>6, <1>10, <2>2 DEF DomainShape
    <3>2. field \notin DOMAIN members
      BY <1>7, <3>1
    <3> QED
      BY <2>2, <3>2 DEF HasText
  <2>3. CASE text # ""
    <3>1. PICK i \in 1 .. Len(c) : c[i] = leaf
      BY <1>6, <1>10, <2>3 DEF DomainShape
    <3>2. leaf \in S /\ Text(text) \in S
      BY <1>2, <1>10
    <3>3. Convert(leaf).obj["text"].str = text
      BY <1>1, <2>3, <3>2, TextConverted
    <3> HIDE DEF leaf
    <3>4. field \in DOMAIN members /\ members[field] = Convert(leaf)
      BY <1>7, <2>1, <3>1
    <3> QED
      BY <2>3, <3>3, <3>4 DEF HasText
  <2> QED
    BY <2>2, <2>3
<1>11. HasText(members, "title", d.title) /\ HasText(members, "description", d.description)
  BY <1>10
<1>12. /\ HasDisks(members["devices"].obj, d.disks)
       /\ {"emulator", "graphics"} \subseteq DOMAIN members["devices"].obj
       /\ ~IsArray(members["devices"].obj["emulator"])
       /\ ~IsArray(members["devices"].obj["graphics"])
  <2> DEFINE json == members["devices"].obj
  <2>1. json = Convert(DevicesNode(d.disks)).obj
    BY <1>9 DEF devices
  <2>2. {DevicesNode(d.disks), Emulator, Graphics} \subseteq S
    BY <1>2 DEF devices
  <2> HIDE DEF json
  <2>3. /\ HasDisks(json, d.disks)
        /\ {"emulator", "graphics"} \subseteq DOMAIN json
        /\ ~IsArray(json["emulator"]) /\ ~IsArray(json["graphics"])
    BY <1>1, <1>2, <1>3, <2>1, <2>2, DevicesConverted
  <2> QED
    BY <2>3 DEF json
<1> QED
  BY <1>8, <1>9, <1>11, <1>12
----------------------------------------------------------------------------
(***************************************************************************)
(* JSON objects.                                                            *)
(***************************************************************************)
\* What the merge finds of a key: the document's, else what was there before.
LEMMA MergeIs ==
    ASSUME NEW members, NEW document
    PROVE  /\ DOMAIN Merge(members, document) = DOMAIN members \cup DOMAIN document
           /\ \A k \in DOMAIN document : Merge(members, document)[k] = document[k]
           /\ \A k \in DOMAIN members \ DOMAIN document :
                 Merge(members, document)[k] = members[k]
BY DEF Merge

\* The devices of the document after Arrays: an array for each kind, and in that of
\* the disks one element per disk, also if the XML has only one.
LEMMA ArraysIs ==
    ASSUME NEW devices, NEW disks \in DiskLists, HasDisks(devices, disks),
           {"emulator", "graphics"} \subseteq DOMAIN devices,
           ~IsArray(devices["emulator"]), ~IsArray(devices["graphics"])
    PROVE  /\ DOMAIN Arrays(devices) = DOMAIN devices
           /\ IsArray(Arrays(devices)["graphics"]) /\ ~IsArray(Arrays(devices)["emulator"])
           /\ "disk" \in DOMAIN devices <=> disks # <<>>
           /\ disks # <<>> =>
                 /\ DOMAIN Arrays(devices)["disk"].arr = DOMAIN disks
                 /\ \A i \in DOMAIN disks :
                       ShowsDisk(Arrays(devices)["disk"].arr[i], disks[i])
<1>1. DOMAIN Arrays(devices) = DOMAIN devices
  BY DEF Arrays
<1>2. Arrays(devices)["graphics"] = Arr(<<devices["graphics"]>>)
  BY DEF Arrays, ArrayKeys
<1>3. Arrays(devices)["emulator"] = devices["emulator"]
  BY DEF Arrays, ArrayKeys
<1>4. \A seq : IsArray(Arr(seq)) /\ Arr(seq).arr = seq
  BY DEF IsArray, Arr
<1>5. "disk" \in DOMAIN devices <=> disks # <<>>
  BY DEF HasDisks
<1>6. ASSUME disks # <<>>
      PROVE  /\ DOMAIN Arrays(devices)["disk"].arr = DOMAIN disks
             /\ \A i \in DOMAIN disks :
                   ShowsDisk(Arrays(devices)["disk"].arr[i], disks[i])
  <2>1. CASE DOMAIN disks = {1}
    <3>1. ShowsDisk(devices["disk"], disks[1])
      BY <2>1 DEF HasDisks
    <3>2. Arrays(devices)["disk"] = Arr(<<devices["disk"]>>)
      BY <1>5, <1>6, <3>1 DEF Arrays, ArrayKeys, ShowsDisk
    <3>3. Arrays(devices)["disk"].arr = <<devices["disk"]>>
      BY <1>4, <3>2
    <3> QED
      BY <2>1, <3>1, <3>3
  <2>2. CASE DOMAIN disks # {1}
    <3>1. /\ IsArray(devices["disk"]) /\ DOMAIN devices["disk"].arr = DOMAIN disks
          /\ \A i \in DOMAIN disks : ShowsDisk(devices["disk"].arr[i], disks[i])
      BY <1>6, <2>2 DEF HasDisks
    <3>2. Arrays(devices)["disk"] = devices["disk"]
      BY <1>5, <1>6, <3>1 DEF Arrays
    <3> QED
      BY <3>1, <3>2
  <2> QED
    BY <2>1, <2>2
<1> QED
  BY <1>1, <1>2, <1>3, <1>4, <1>5, <1>6
----------------------------------------------------------------------------
(***************************************************************************)
(* Steps, as far as the invariants look at them.                            *)
(***************************************************************************)
\* Before the XML is read, and after a failure, no devices are listed.
LEMMA NotListed ==
    ASSUME TypeOK, Arrive \/ LinkLost \/ ReadText \/ ReadState \/ ReadXmlFails
    PROVE  ~Listed' /\ pc' # "disks"
<1> USE DEF TypeOK, Listed, Shown, Answer
<1>1. CASE Arrive
  BY <1>1 DEF Arrive
<1>2. CASE LinkLost
  BY <1>2 DEF LinkLost
<1>3. CASE ReadText
  <2>1. pc # "idle" /\ pc' \in {"description", "state"} /\ status' = status
    BY <1>3 DEF ReadText
  <2> QED
    BY <2>1
<1>4. CASE ReadState
  BY <1>4 DEF ReadState
<1>5. CASE ReadXmlFails
  BY <1>5 DEF ReadXmlFails
<1> QED
  BY <1>1, <1>2, <1>3, <1>4, <1>5

\* A change by others leaves the request alone, adds to held and sizes, and notes
\* the removal of a text.
LEMMA ChangeIs ==
    ASSUME TypeOK, ChangeText \/ ChangeDisks
    PROVE  /\ UNCHANGED <<pc, output, next, status, xml>>
           /\ dom' \in Domain
           /\ held \subseteq held'
           /\ \A dev \in Devs : sizes[dev] \subseteq sizes'[dev]
           /\ pc # "idle" =>
                 /\ <<dom'.title, dom'.description>> \in held'
                 /\ \A dev \in Devs : SizesNow(dom'.disks)[dev] \subseteq sizes'[dev]
                 /\ dom.title # "" /\ dom'.title = "" => removed'
                 /\ dom.description # "" /\ dom'.description = "" => removed'
           /\ removed => removed'
<1>0. dom \in Domain /\ sizes \in [Devs -> SUBSET Nat] /\ removed \in BOOLEAN
  BY DEF TypeOK
<1>1. PICK new \in Domain : Changed(new)
  BY <1>0, DomainType DEF ChangeText, ChangeDisks
<1>2. UNCHANGED <<pc, output, next, status, xml>> /\ dom' = new
  BY <1>1 DEF Changed, requestVars, historyVars
<1>3. CASE pc = "idle"
  BY <1>1, <1>2, <1>3 DEF Changed, historyVars
<1>4. CASE pc # "idle"
  <2>1. held' = held \cup {<<new.title, new.description>>}
    BY <1>1, <1>4 DEF Changed
  <2>2. removed' = (removed \/ \E field \in {"title", "description"} :
                                  dom[field] # "" /\ new[field] = "")
    BY <1>1, <1>4, Zenon DEF Changed
  <2>3. sizes' = [dev \in Devs |-> sizes[dev] \cup SizesNow(new.disks)[dev]]
    BY <1>1, <1>4 DEF Changed
  <2>4. /\ removed => removed'
        /\ dom["title"] # "" /\ new["title"] = "" => removed'
        /\ dom["description"] # "" /\ new["description"] = "" => removed'
    BY <2>2, Zenon
  <2> QED
    BY <1>2, <2>1, <2>3, <2>4
<1> QED
  BY <1>3, <1>4

\* The document that the XML gives.
LEMMA ReadXmlIs ==
    ASSUME TypeOK, NEW metadata \in Metadata, ReadXml(metadata)
    PROVE  \E members :
              /\ HasText(members, "title", dom.title)
              /\ HasText(members, "description", dom.description)
              /\ "metadata" \in DOMAIN members /\ members["metadata"] = Convert(metadata)
              /\ "devices" \in DOMAIN output'.obj
              /\ HasDisks(members["devices"].obj, dom.disks)
              /\ {"emulator", "graphics"} \subseteq DOMAIN members["devices"].obj
              /\ ~IsArray(members["devices"].obj["emulator"])
              /\ ~IsArray(members["devices"].obj["graphics"])
              /\ Devices' = Arrays(members["devices"].obj)
              /\ \A k \in DOMAIN members : k # "devices" =>
                    k \in DOMAIN output'.obj /\ output'.obj[k] = members[k]
              /\ \A k \in DOMAIN output.obj \ DOMAIN members :
                    k \in DOMAIN output'.obj /\ output'.obj[k] = output.obj[k]
<1> DEFINE members == Convert(DomainNode(dom, metadata)).obj
           merged == Merge(output.obj, members)
<1> WITNESS members
<1>1. dom \in Domain
  BY DEF TypeOK
<1> HIDE DEF members
<1>2. /\ HasText(members, "title", dom.title)
      /\ HasText(members, "description", dom.description)
      /\ "metadata" \in DOMAIN members /\ members["metadata"] = Convert(metadata)
      /\ "devices" \in DOMAIN members
      /\ HasDisks(members["devices"].obj, dom.disks)
      /\ {"emulator", "graphics"} \subseteq DOMAIN members["devices"].obj
      /\ ~IsArray(members["devices"].obj["emulator"])
      /\ ~IsArray(members["devices"].obj["graphics"])
  BY <1>1, ConvertIs DEF members
<1>3. output' = Obj(Set(merged, "devices", Obj(Arrays(merged["devices"].obj))))
  BY DEF ReadXml, members
<1>4. \A m : Obj(m).obj = m
  BY DEF Obj
<1>5. /\ DOMAIN merged = DOMAIN output.obj \cup DOMAIN members
      /\ \A k \in DOMAIN members : merged[k] = members[k]
      /\ \A k \in DOMAIN output.obj \ DOMAIN members : merged[k] = output.obj[k]
  BY MergeIs
<1> HIDE DEF merged
<1>6. output'.obj = Set(merged, "devices", Obj(Arrays(merged["devices"].obj)))
  BY <1>3, <1>4
<1>7. /\ DOMAIN output'.obj = DOMAIN merged \cup {"devices"}
      /\ output'.obj["devices"] = Obj(Arrays(merged["devices"].obj))
      /\ \A k \in DOMAIN merged : k # "devices" => output'.obj[k] = merged[k]
  BY <1>6 DEF Set
<1>8. Devices' = Arrays(members["devices"].obj)
  BY <1>2, <1>4, <1>5, <1>7 DEF Devices
<1> QED
  BY <1>2, <1>5, <1>7, <1>8

\* The disks that the XML gives.
LEMMA ReadXmlDisks ==
    ASSUME TypeOK, NEW metadata \in Metadata, ReadXml(metadata)
    PROVE  /\ "devices" \in DOMAIN output'.obj
           /\ {"graphics", "emulator"} \subseteq DOMAIN Devices'
           /\ IsArray(Devices["graphics"])' /\ ~IsArray(Devices["emulator"])'
           /\ ("disk" \in DOMAIN Devices)' <=> dom.disks # <<>>
           /\ DOMAIN ShownDisks' = DOMAIN dom.disks
           /\ \A i \in DOMAIN dom.disks : ShowsDisk(ShownDisks'[i], dom.disks[i])
<1>1. PICK members :
         /\ "devices" \in DOMAIN output'.obj
         /\ HasDisks(members["devices"].obj, dom.disks)
         /\ {"emulator", "graphics"} \subseteq DOMAIN members["devices"].obj
         /\ ~IsArray(members["devices"].obj["emulator"])
         /\ ~IsArray(members["devices"].obj["graphics"])
         /\ Devices' = Arrays(members["devices"].obj)
  BY ReadXmlIs, Zenon
<1>2. dom.disks \in DiskLists
  BY DomainType DEF TypeOK
<1> DEFINE devices == members["devices"].obj
<1>3. /\ DOMAIN Arrays(devices) = DOMAIN devices
      /\ IsArray(Arrays(devices)["graphics"]) /\ ~IsArray(Arrays(devices)["emulator"])
      /\ "disk" \in DOMAIN devices <=> dom.disks # <<>>
      /\ dom.disks # <<>> =>
            /\ DOMAIN Arrays(devices)["disk"].arr = DOMAIN dom.disks
            /\ \A i \in DOMAIN dom.disks :
                  ShowsDisk(Arrays(devices)["disk"].arr[i], dom.disks[i])
  BY <1>1, <1>2, ArraysIs
<1>4. Devices' = Arrays(devices)
  BY <1>1
<1> HIDE DEF devices
<1>5. /\ {"graphics", "emulator"} \subseteq DOMAIN Devices'
      /\ IsArray(Devices["graphics"])' /\ ~IsArray(Devices["emulator"])'
      /\ ("disk" \in DOMAIN Devices)' <=> dom.disks # <<>>
  BY <1>1, <1>3, <1>4 DEF devices, IsArray
<1>6. CASE dom.disks = <<>>
  <2>1. ShownDisks' = <<>>
    BY <1>5, <1>6 DEF ShownDisks
  <2> QED
    BY <1>1, <1>5, <1>6, <2>1
<1>7. CASE dom.disks # <<>>
  <2>1. ShownDisks' = Arrays(devices)["disk"].arr
    BY <1>3, <1>4, <1>5, <1>7 DEF ShownDisks
  <2> QED
    BY <1>1, <1>3, <1>5, <1>7, <2>1
<1> QED
  BY <1>6, <1>7

\* The loop puts block_info into one disk and leaves the rest of the output alone.
LEMMA BlockInfoIs ==
    ASSUME DisksInv, pc = "disks", next \in DOMAIN ShownDisks,
           NEW size, output' = WithBlockInfo(next, size)
    PROVE  /\ DOMAIN output'.obj = DOMAIN output.obj
           /\ \A k \in DOMAIN output.obj : k # "devices" => output'.obj[k] = output.obj[k]
           /\ DOMAIN Devices' = DOMAIN Devices
           /\ \A k \in DOMAIN Devices : k # "disk" => Devices'[k] = Devices[k]
           /\ DOMAIN ShownDisks' = DOMAIN ShownDisks
           /\ ShownDisks'[next].obj = Set(ShownDisks[next].obj, "block_info",
                                          Obj([capacity |-> Num(size \div 1000)]))
           /\ \A i \in DOMAIN ShownDisks : i # next => ShownDisks'[i] = ShownDisks[i]
<1> DEFINE disk == Obj(Set(ShownDisks[next].obj, "block_info",
                           Obj([capacity |-> Num(size \div 1000)])))
           disks == Arr([ShownDisks EXCEPT ![next] = disk])
           devices == Obj(Set(Devices, "disk", disks))
<1>0. \A m : Obj(m).obj = m /\ Arr(m).arr = m
  BY DEF Obj, Arr
<1>1. output' = Obj(Set(output.obj, "devices", devices))
  BY DEF WithBlockInfo
<1>2. "devices" \in DOMAIN output.obj
  BY DEF DisksInv, Listed
<1>3. "disk" \in DOMAIN Devices
  BY DEF ShownDisks
<1> HIDE DEF devices
<1>4. output'.obj = Set(output.obj, "devices", devices)
  BY <1>0, <1>1
<1>5. /\ DOMAIN output'.obj = DOMAIN output.obj
      /\ output'.obj["devices"] = devices
      /\ \A k \in DOMAIN output.obj : k # "devices" => output'.obj[k] = output.obj[k]
  BY <1>2, <1>4 DEF Set
<1> HIDE DEF disks
<1>6. Devices' = Set(Devices, "disk", disks)
  BY <1>0, <1>5 DEF Devices, devices
<1>7. /\ DOMAIN Devices' = DOMAIN Devices
      /\ Devices'["disk"] = disks
      /\ \A k \in DOMAIN Devices : k # "disk" => Devices'[k] = Devices[k]
  BY <1>3, <1>6 DEF Set
<1> HIDE DEF disk
<1>8. ShownDisks' = [ShownDisks EXCEPT ![next] = disk]
  BY <1>0, <1>3, <1>7 DEF ShownDisks, disks
<1>9. disk.obj = Set(ShownDisks[next].obj, "block_info",
                     Obj([capacity |-> Num(size \div 1000)]))
  BY <1>0 DEF disk
<1> QED
  BY <1>5, <1>7, <1>8, <1>9
----------------------------------------------------------------------------
(***************************************************************************)
(* Title and description.                                                   *)
(***************************************************************************)
\* A step of the request or of others keeps TextsInv.
LEMMA TextsStep == TypeOK /\ TextsInv /\ DisksInv /\ [Next]_vars => TextsInv'
<1> SUFFICES ASSUME TypeOK, TextsInv, DisksInv, [Next]_vars PROVE TextsInv'
  OBVIOUS
<1>1. CASE Arrive
  <2>1. ~Listed'
    BY <1>1, NotListed
  <2> QED
    BY <1>1, <2>1 DEF Arrive, TextsInv
<1>2. CASE LinkLost
  <2>1. ~Listed'
    BY <1>2, NotListed
  <2>2. pc # "idle" /\ pc' \in {"title", "idle"} /\ UNCHANGED <<dom, held>>
    BY <1>2 DEF LinkLost, Answer, historyVars
  <2> QED
    BY <2>1, <2>2 DEF TextsInv
<1>3. CASE ReadText
  <2>1. ~Listed'
    BY <1>3, NotListed
  <2>2. /\ pc \in {"title", "description"} /\ UNCHANGED <<dom, held>>
        /\ pc' = IF pc = "title" THEN "description" ELSE "state"
    BY <1>3 DEF ReadText
  <2>3. PICK text : /\ output' = Obj(Set(output.obj, pc, TextJson(text)))
                    /\ removed' \/ (text = dom[pc] /\ removed' = removed)
    BY <1>3, Zenon DEF ReadText
  <2>4. output'.obj = Set(output.obj, pc, TextJson(text))
    BY <2>3 DEF Obj
  <2>5. TextJson(text).obj["text"].str = text
    BY DEF TextJson, Obj, Str
  <2>6. /\ DOMAIN output'.obj = DOMAIN output.obj \cup {pc}
        /\ output'.obj[pc].obj["text"].str = text
        /\ \A k \in DOMAIN output.obj : k # pc => output'.obj[k] = output.obj[k]
    BY <2>4, <2>5 DEF Set
  <2>7. removed' \/ (text = dom[pc] /\ ~removed)
    BY <2>3, Zenon
  <2>8. CASE pc = "title"
    BY <2>1, <2>2, <2>6, <2>7, <2>8 DEF TextsInv, ReadInv, TextOf
  <2>9. CASE pc = "description"
    BY <2>1, <2>2, <2>6, <2>7, <2>9 DEF TextsInv, ReadInv, TextOf
  <2> QED
    BY <2>2, <2>8, <2>9
<1>4. CASE ReadState
  <2>1. ~Listed'
    BY <1>4, NotListed
  <2>2. /\ pc = "state" /\ pc' \in {"xml", "idle"}
        /\ UNCHANGED <<dom, held, removed, output>>
    BY <1>4 DEF ReadState, Answer, historyVars
  <2> QED
    BY <2>1, <2>2 DEF TextsInv, ReadInv, TextOf
<1>5. CASE ReadXmlFails
  <2>1. ~Listed'
    BY <1>5, NotListed
  <2> QED
    BY <1>5, <2>1 DEF TextsInv, ReadXmlFails, Answer
<1>6. ASSUME NEW metadata \in Metadata, ReadXml(metadata) PROVE TextsInv'
  <2>1. PICK members :
           /\ HasText(members, "title", dom.title)
           /\ HasText(members, "description", dom.description)
           /\ \A k \in DOMAIN members : k # "devices" =>
                 k \in DOMAIN output'.obj /\ output'.obj[k] = members[k]
           /\ \A k \in DOMAIN output.obj \ DOMAIN members :
                 k \in DOMAIN output'.obj /\ output'.obj[k] = output.obj[k]
    BY <1>6, ReadXmlIs, Zenon
  <2>2. pc = "xml" /\ pc' = "disks" /\ UNCHANGED <<dom, held, removed>>
    BY <1>6 DEF ReadXml
  <2>3. ReadInv("title") /\ ReadInv("description") /\ <<dom.title, dom.description>> \in held
    BY <2>2 DEF TextsInv
  <2>4. "title" \in DOMAIN output'.obj /\ (~removed => TextOf("title")' = dom.title)
    BY <2>1, <2>3 DEF HasText, ReadInv, TextOf
  <2>5. /\ "description" \in DOMAIN output'.obj
        /\ ~removed => TextOf("description")' = dom.description
    BY <2>1, <2>3 DEF HasText, ReadInv, TextOf
  <2> QED
    BY <2>2, <2>3, <2>4, <2>5 DEF TextsInv
<1>7. CASE BlockInfo
  <2>1. /\ pc = "disks" /\ next \in DOMAIN ShownDisks
        /\ UNCHANGED <<dom, pc, status, held, removed>>
    BY <1>7 DEF BlockInfo
  <2>2. PICK size : output' = WithBlockInfo(next, size)
    BY <1>7 DEF BlockInfo
  <2>3. /\ DOMAIN output'.obj = DOMAIN output.obj
        /\ \A k \in DOMAIN output.obj : k # "devices" => output'.obj[k] = output.obj[k]
    <3>1. DOMAIN output'.obj = DOMAIN output.obj
      BY <2>1, <2>2, BlockInfoIs, ZenonT(60)
    <3>2. \A k \in DOMAIN output.obj : k # "devices" => output'.obj[k] = output.obj[k]
      BY <2>1, <2>2, BlockInfoIs, ZenonT(60)
    <3> QED
      BY <3>1, <3>2
  <2> QED
    BY <2>1, <2>3 DEF TextsInv, TextOf, Listed, Shown
<1>8. CASE SkipDisk
  BY <1>8 DEF SkipDisk, TextsInv, TextOf, Listed, Shown, historyVars
<1>9. CASE Show
  BY <1>9 DEF Show, Answer, TextsInv, TextOf, Listed, Shown, historyVars
<1>10. CASE ChangeText \/ ChangeDisks
  <2>1. /\ UNCHANGED <<pc, output, status>>
        /\ held \subseteq held'
        /\ pc # "idle" =>
              /\ <<dom'.title, dom'.description>> \in held'
              /\ dom.title # "" /\ dom'.title = "" => removed'
              /\ dom.description # "" /\ dom'.description = "" => removed'
        /\ removed => removed'
    BY <1>10, ChangeIs
  <2>2. pc # "idle" /\ ReadInv("title") => ReadInv("title")'
    BY <2>1 DEF ReadInv, TextOf
  <2>3. pc # "idle" /\ ReadInv("description") => ReadInv("description")'
    BY <2>1 DEF ReadInv, TextOf
  <2> QED
    BY <2>1, <2>2, <2>3 DEF TextsInv, TextOf, Listed, Shown
<1>11. CASE UNCHANGED vars
  BY <1>11, ZenonT(60) DEF TextsInv, ReadInv, TextOf, Listed, Shown, vars, requestVars, historyVars
<1> QED
  BY <1>1, <1>2, <1>3, <1>4, <1>5, <1>6, <1>7, <1>8, <1>9, <1>10, <1>11 DEF Next, Request
----------------------------------------------------------------------------
(***************************************************************************)
(* The sizes since the XML was read.                                        *)
(***************************************************************************)
\* While the loop runs, sizes only grows.
LEMMA SizesGrow ==
    ASSUME TypeOK, BlockInfo \/ SkipDisk \/ Show
    PROVE  \A dev \in Devs : sizes[dev] \subseteq sizes'[dev]
<1> SUFFICES ASSUME NEW dev \in Devs PROVE sizes[dev] \subseteq sizes'[dev]
  OBVIOUS
<1>1. sizes \in [Devs -> SUBSET Nat]
  BY DEF TypeOK
<1>2. CASE BlockInfo
  <2>1. \/ sizes' = sizes
        \/ sizes' = [sizes EXCEPT ![DevOf(next)] = @ \cup {0}]
    BY <1>2 DEF BlockInfo
  <2> QED
    BY <1>1, <2>1
<1>3. CASE SkipDisk \/ Show
  BY <1>3 DEF SkipDisk, Show, historyVars
<1> QED
  BY <1>2, <1>3

\* Every step keeps SizesInv.
LEMMA SizesStep == TypeOK /\ SizesInv /\ [Next]_vars => SizesInv'
<1> SUFFICES ASSUME TypeOK, SizesInv, [Next]_vars PROVE SizesInv'
  OBVIOUS
<1>1. CASE Arrive \/ LinkLost \/ ReadText \/ ReadState \/ ReadXmlFails
  BY <1>1, NotListed DEF SizesInv
<1>2. CASE \E metadata \in Metadata : ReadXml(metadata)
  BY <1>2 DEF ReadXml, SizesInv
<1>3. CASE BlockInfo \/ SkipDisk
  <2>1. pc = "disks" /\ dom' = dom
    BY <1>3 DEF BlockInfo, SkipDisk
  <2> QED
    BY <1>3, <2>1, SizesGrow DEF SizesInv
<1>4. CASE Show
  BY <1>4 DEF Show, Answer, SizesInv
<1>5. CASE ChangeText \/ ChangeDisks
  <2>1. pc' = pc
    BY <1>5, ChangeIs
  <2>2. pc # "idle" => \A dev \in Devs : SizesNow(dom'.disks)[dev] \subseteq sizes'[dev]
    BY <1>5, ChangeIs
  <2> QED
    BY <2>1, <2>2 DEF SizesInv
<1>6. CASE UNCHANGED vars
  BY <1>6 DEF SizesInv, vars, requestVars, historyVars
<1> QED
  BY <1>1, <1>2, <1>3, <1>4, <1>5, <1>6 DEF Next, Request
----------------------------------------------------------------------------
(***************************************************************************)
(* The disks and their sizes.                                               *)
(***************************************************************************)
\* A disk keeps its invariant while it is not touched and sizes only grows.
LEMMA DiskKept ==
    ASSUME NEW i, DiskInv(i), ShownDisks'[i] = ShownDisks[i], xml' = xml,
           sizes[xml.disks[i].dev] \subseteq sizes'[xml.disks[i].dev],
           xml.disks[i].device = "disk" => ((i < next \/ Shown) <=> (i < next \/ Shown)')
    PROVE  DiskInv(i)'
<1>1. /\ DevOf(i)' = DevOf(i)
      /\ Storage(i)' <=> Storage(i)
      /\ IsMember(ShownDisks[i], "block_info")' <=> IsMember(ShownDisks[i], "block_info")
  BY DEF DevOf, Storage, IsMember
<1>2. (/\ {"attrib", "target"} \subseteq DOMAIN ShownDisks[i].obj
       /\ DevOf(i) = xml.disks[i].dev
       /\ Storage(i) <=> xml.disks[i].device = "disk")'
  BY <1>1 DEF DiskInv
<1>3. (IsMember(ShownDisks[i], "block_info") <=>
          xml.disks[i].device = "disk" /\ (i < next \/ Shown))'
  BY <1>1 DEF DiskInv
<1>4. (IsMember(ShownDisks[i], "block_info") =>
          ShownDisks[i].obj["block_info"].obj["capacity"].num
              \in {size \div 1000 : size \in sizes[xml.disks[i].dev]})'
  <2>1. IsMember(ShownDisks[i], "block_info") =>
          ShownDisks[i].obj["block_info"].obj["capacity"].num
              \in {size \div 1000 : size \in sizes[xml.disks[i].dev]}
    BY Zenon DEF DiskInv
  <2>2. {size \div 1000 : size \in sizes[xml.disks[i].dev]}
          \subseteq {size \div 1000 : size \in sizes'[xml.disks[i].dev]}
    OBVIOUS
  <2> QED
    BY <1>1, <2>1, <2>2, Zenon
<1> QED
  BY <1>2, <1>3, <1>4 DEF DiskInv

\* So do all disks while the output does not change.
LEMMA DisksKept ==
    ASSUME TypeOK, DisksInv, Listed, UNCHANGED <<output, xml>>,
           \A dev \in Devs : sizes[dev] \subseteq sizes'[dev],
           \A i \in DOMAIN xml.disks : xml.disks[i].device = "disk" =>
              ((i < next \/ Shown) <=> (i < next \/ Shown)')
    PROVE  DisksInv'
<1>1. Devices' = Devices /\ ShownDisks' = ShownDisks
  BY DEF Devices, ShownDisks
<1>2. ASSUME NEW i \in DOMAIN xml.disks PROVE DiskInv(i)'
  <2>1. xml.disks[i].dev \in Devs
    BY DiskListType DEF TypeOK
  <2>2. DiskInv(i)
    BY DEF DisksInv
  <2> QED
    BY <1>1, <2>1, <2>2, DiskKept
<1> QED
  BY <1>1, <1>2 DEF DisksInv

\* The disk that the loop looks at gets its block_info.
LEMMA DiskSized ==
    ASSUME TypeOK, DisksInv, SizesInv, BlockInfo
    PROVE  DisksInv'
<1>1. /\ pc = "disks" /\ next \in DOMAIN ShownDisks /\ Storage(next)
      /\ next' = next + 1 /\ UNCHANGED <<dom, pc, status, xml>>
  BY DEF BlockInfo
<1>2. ~Shown /\ ~Shown' /\ Listed
  BY <1>1 DEF TypeOK, Listed, Shown
<1>3. DOMAIN ShownDisks = DOMAIN xml.disks /\ xml.disks \in DiskLists
  BY <1>2 DEF DisksInv, TypeOK
<1>4. DOMAIN xml.disks \subseteq Nat
  BY <1>3, DiskListType
<1>5. DiskInv(next)
  BY <1>1, <1>2, <1>3 DEF DisksInv
<1>6. xml.disks[next].dev \in Devs /\ DevOf(next) = xml.disks[next].dev
  BY <1>1, <1>3, <1>5, DiskListType DEF DiskInv
<1>7. PICK size : /\ output' = WithBlockInfo(next, size)
                  /\ size \in sizes'[xml.disks[next].dev]
  <2>1. CASE \E size \in SizesNow(dom.disks)[DevOf(next)] :
                output' = WithBlockInfo(next, size) /\ sizes' = sizes
    BY <1>1, <1>6, <2>1 DEF SizesInv
  <2>2. CASE /\ output' = WithBlockInfo(next, 0)
             /\ sizes' = [sizes EXCEPT ![DevOf(next)] = @ \cup {0}]
    <3>1. sizes \in [Devs -> SUBSET Nat]
      BY DEF TypeOK
    <3>2. 0 \in sizes'[xml.disks[next].dev]
      BY <1>6, <2>2, <3>1
    <3> QED
      BY <2>2, <3>2
  <2> QED
    BY <2>1, <2>2 DEF BlockInfo
<1>8. "devices" \in DOMAIN output'.obj
  <2>1. DOMAIN output'.obj = DOMAIN output.obj
    BY <1>1, <1>7, BlockInfoIs, ZenonT(60)
  <2> QED
    BY <1>2, <2>1 DEF DisksInv
<1>9. /\ {"graphics", "emulator"} \subseteq DOMAIN Devices'
      /\ Devices'["graphics"] = Devices["graphics"]
      /\ Devices'["emulator"] = Devices["emulator"]
      /\ "disk" \in DOMAIN Devices' <=> xml'.disks # <<>>
  <2>1. DOMAIN Devices' = DOMAIN Devices
    BY <1>1, <1>7, BlockInfoIs, ZenonT(60)
  <2>2. \A k \in DOMAIN Devices : k # "disk" => Devices'[k] = Devices[k]
    BY <1>1, <1>7, BlockInfoIs, ZenonT(60)
  <2> QED
    BY <1>1, <1>2, <2>1, <2>2 DEF DisksInv
<1>10. DOMAIN ShownDisks' = DOMAIN ShownDisks
  BY <1>1, <1>7, BlockInfoIs, ZenonT(60)
<1>11. \A i \in DOMAIN ShownDisks : i # next => ShownDisks'[i] = ShownDisks[i]
  BY <1>1, <1>7, BlockInfoIs, ZenonT(60)
<1>12. ASSUME NEW n, n = next PROVE DiskInv(n)'
  <2> DEFINE info == Obj([capacity |-> Num(size \div 1000)])
  <2>1. ShownDisks'[n].obj = Set(ShownDisks[n].obj, "block_info", info)
    BY <1>1, <1>7, <1>12, BlockInfoIs
  <2>2. info.obj["capacity"].num = size \div 1000
    BY DEF Obj, Num
  <2> HIDE DEF info
  <2>3. /\ DOMAIN ShownDisks'[n].obj = DOMAIN ShownDisks[n].obj \cup {"block_info"}
        /\ ShownDisks'[n].obj["block_info"] = info
        /\ \A k \in DOMAIN ShownDisks[n].obj :
              k # "block_info" => ShownDisks'[n].obj[k] = ShownDisks[n].obj[k]
    BY <2>1 DEF Set
  <2>4. n < next'
    BY <1>1, <1>12 DEF TypeOK
  <2>5. DiskInv(n) /\ xml.disks[n].device = "disk" /\ xml' = xml
    BY <1>1, <1>5, <1>12 DEF DiskInv
  <2>6. /\ {"attrib", "target"} \subseteq DOMAIN ShownDisks'[n].obj
        /\ "block_info" \in DOMAIN ShownDisks'[n].obj
        /\ ShownDisks'[n].obj["attrib"] = ShownDisks[n].obj["attrib"]
        /\ ShownDisks'[n].obj["target"] = ShownDisks[n].obj["target"]
    BY <2>3, <2>5 DEF DiskInv
  <2>7. (/\ {"attrib", "target"} \subseteq DOMAIN ShownDisks[n].obj
         /\ DevOf(n) = xml.disks[n].dev
         /\ Storage(n) <=> xml.disks[n].device = "disk")'
    BY <2>5, <2>6 DEF DiskInv, DevOf, Storage
  <2>8. (ShownDisks[n].obj["block_info"].obj["capacity"].num
            \in {s \div 1000 : s \in sizes[xml.disks[n].dev]})'
    BY <1>7, <1>12, <2>2, <2>3, <2>5
  <2>9. IsMember(ShownDisks[n], "block_info")'
    BY <2>6 DEF IsMember
  <2> QED
    BY <2>4, <2>5, <2>7, <2>8, <2>9 DEF DiskInv
<1>13. ASSUME NEW i \in DOMAIN xml.disks, i # next PROVE DiskInv(i)'
  <2>1. ShownDisks'[i] = ShownDisks[i]
    BY <1>3, <1>11, <1>13
  <2>2. xml.disks[i].dev \in Devs /\ DiskInv(i)
    BY <1>2, <1>3, DiskListType DEF DisksInv
  <2>3. sizes[xml.disks[i].dev] \subseteq sizes'[xml.disks[i].dev]
    BY <2>2, SizesGrow
  <2>4. i < next <=> i < next'
    BY <1>1, <1>4, <1>13 DEF TypeOK
  <2> QED
    BY <1>1, <1>2, <2>1, <2>2, <2>3, <2>4, DiskKept
<1>14. IsArray(Devices["graphics"])' /\ ~IsArray(Devices["emulator"])'
  BY <1>2, <1>9 DEF DisksInv, IsArray
<1>15. \A i \in DOMAIN xml'.disks : DiskInv(i)'
  BY <1>1, <1>12, <1>13
<1> QED
  BY <1>1, <1>3, <1>8, <1>9, <1>10, <1>14, <1>15 DEF DisksInv

\* The XML gives the disks of the domain, none of them with a size.
LEMMA DisksRead ==
    ASSUME TypeOK, NEW metadata \in Metadata, ReadXml(metadata)
    PROVE  DisksInv'
<1>1. pc = "xml" /\ next' = 1 /\ status' = status /\ xml'.disks = dom.disks
  BY DEF ReadXml
<1>2. ~Shown' /\ dom.disks \in DiskLists
  BY <1>1, DomainType DEF TypeOK, Shown
<1>3. /\ "devices" \in DOMAIN output'.obj
      /\ {"graphics", "emulator"} \subseteq DOMAIN Devices'
      /\ IsArray(Devices["graphics"])' /\ ~IsArray(Devices["emulator"])'
      /\ ("disk" \in DOMAIN Devices)' <=> dom.disks # <<>>
      /\ DOMAIN ShownDisks' = DOMAIN dom.disks
      /\ \A i \in DOMAIN dom.disks : ShowsDisk(ShownDisks'[i], dom.disks[i])
  BY ReadXmlDisks
<1>4. ASSUME NEW i \in DOMAIN dom.disks PROVE DiskInv(i)'
  <2>1. ~(i < 1)
    BY <1>2, DiskListType
  <2>2. ShowsDisk(ShownDisks'[i], dom.disks[i])
    BY <1>3
  <2>3. ~IsMember(ShownDisks[i], "block_info")'
    BY <2>2 DEF ShowsDisk, IsMember
  <2>4. (/\ {"attrib", "target"} \subseteq DOMAIN ShownDisks[i].obj
         /\ DevOf(i) = xml.disks[i].dev
         /\ Storage(i) <=> xml.disks[i].device = "disk")'
    BY <1>1, <2>2 DEF ShowsDisk, DevOf, Storage
  <2> QED
    BY <1>1, <1>2, <2>1, <2>3, <2>4 DEF DiskInv
<1>5. \A i \in DOMAIN xml'.disks : DiskInv(i)'
  BY <1>1, <1>4
<1> QED
  BY <1>1, <1>3, <1>5 DEF DisksInv

\* Every step keeps DisksInv.
LEMMA DisksStep == TypeOK /\ DisksInv /\ SizesInv /\ [Next]_vars => DisksInv'
<1> SUFFICES ASSUME TypeOK, DisksInv, SizesInv, [Next]_vars PROVE DisksInv'
  OBVIOUS
<1>1. CASE Arrive \/ LinkLost \/ ReadText \/ ReadState \/ ReadXmlFails
  BY <1>1, NotListed DEF DisksInv
<1>2. CASE \E metadata \in Metadata : ReadXml(metadata)
  BY <1>2, DisksRead
<1>3. CASE BlockInfo
  BY <1>3, DiskSized
<1>4. CASE SkipDisk
  <2>1. /\ pc = "disks" /\ next \in DOMAIN ShownDisks /\ ~Storage(next)
        /\ next' = next + 1 /\ UNCHANGED <<output, status, xml>>
    BY <1>4 DEF SkipDisk, historyVars
  <2>2. Listed /\ ~Shown /\ ~Shown'
    BY <2>1 DEF TypeOK, Listed, Shown
  <2>3. DOMAIN ShownDisks = DOMAIN xml.disks /\ DOMAIN xml.disks \subseteq Nat
    BY <2>2, DiskListType DEF DisksInv, TypeOK
  <2>4. xml.disks[next].device # "disk"
    BY <2>1, <2>2, <2>3 DEF DisksInv, DiskInv
  <2>5. ASSUME NEW i \in DOMAIN xml.disks, xml.disks[i].device = "disk"
        PROVE  i < next <=> i < next'
    <3>1. i # next /\ i \in Nat
      BY <2>3, <2>4, <2>5
    <3> QED
      BY <2>1, <3>1 DEF TypeOK
  <2>6. \A dev \in Devs : sizes[dev] \subseteq sizes'[dev]
    BY <1>4, SizesGrow
  <2> QED
    BY <2>1, <2>2, <2>5, <2>6, DisksKept
<1>5. CASE Show
  <2>1. /\ pc = "disks" /\ next \notin DOMAIN ShownDisks /\ status' = 200
        /\ next' = next /\ UNCHANGED <<output, xml>>
    BY <1>5 DEF Show, Answer, historyVars
  <2>2. Listed /\ Shown'
    BY <2>1 DEF Listed, Shown
  <2>3. DOMAIN ShownDisks = DOMAIN xml.disks /\ xml.disks \in DiskLists
    BY <2>2 DEF DisksInv, TypeOK
  <2>4. \A i \in DOMAIN xml.disks : i < next
    <3>1. Len(xml.disks) \in Nat /\ DOMAIN xml.disks = 1 .. Len(xml.disks)
      BY <2>3, DiskListType
    <3>2. next \in Nat \ {0} /\ next \notin 1 .. Len(xml.disks)
      BY <2>1, <2>3, <3>1 DEF TypeOK
    <3> QED
      BY <3>1, <3>2
  <2>5. \A dev \in Devs : sizes[dev] \subseteq sizes'[dev]
    BY <1>5, SizesGrow
  <2> QED
    BY <2>1, <2>2, <2>4, <2>5, DisksKept
<1>6. CASE ChangeText \/ ChangeDisks
  <2>1. UNCHANGED <<pc, output, next, status, xml>>
    BY <1>6, ChangeIs
  <2>2. \A dev \in Devs : sizes[dev] \subseteq sizes'[dev]
    BY <1>6, ChangeIs
  <2>3. Listed' = Listed /\ Shown' = Shown
    BY <2>1 DEF Listed, Shown
  <2>4. CASE Listed
    BY <2>1, <2>2, <2>3, <2>4, DisksKept
  <2>5. CASE ~Listed
    BY <2>3, <2>5 DEF DisksInv
  <2> QED
    BY <2>4, <2>5
<1>7. CASE UNCHANGED vars
  <2>1. UNCHANGED <<pc, output, next, status, xml, sizes>>
    BY <1>7 DEF vars, requestVars, historyVars
  <2>2. Listed' = Listed /\ Shown' = Shown
    BY <2>1 DEF Listed, Shown
  <2>3. CASE Listed
    BY <2>1, <2>2, <2>3, DisksKept
  <2>4. CASE ~Listed
    BY <2>2, <2>4 DEF DisksInv
  <2> QED
    BY <2>3, <2>4
<1> QED
  BY <1>1, <1>2, <1>3, <1>4, <1>5, <1>6, <1>7 DEF Next, Request
----------------------------------------------------------------------------
(***************************************************************************)
(* The metadata.                                                            *)
(***************************************************************************)
\* The metadata of the XML stays in the output.
LEMMA MetadataStep == TypeOK /\ DisksInv /\ MetadataInv /\ [Next]_vars => MetadataInv'
<1> SUFFICES ASSUME TypeOK, DisksInv, MetadataInv, [Next]_vars PROVE MetadataInv'
  OBVIOUS
<1>1. CASE Arrive \/ LinkLost \/ ReadText \/ ReadState \/ ReadXmlFails
  BY <1>1, NotListed DEF MetadataInv
<1>2. ASSUME NEW metadata \in Metadata, ReadXml(metadata) PROVE MetadataInv'
  <2>1. PICK members :
           /\ "metadata" \in DOMAIN members /\ members["metadata"] = Convert(metadata)
           /\ \A k \in DOMAIN members : k # "devices" =>
                 k \in DOMAIN output'.obj /\ output'.obj[k] = members[k]
    BY <1>2, ReadXmlIs, Zenon
  <2>2. xml'.metadata = metadata
    BY <1>2 DEF ReadXml
  <2> QED
    BY <2>1, <2>2 DEF MetadataInv
<1>3. CASE BlockInfo
  <2>1. pc = "disks" /\ next \in DOMAIN ShownDisks /\ xml' = xml
    BY <1>3 DEF BlockInfo
  <2>2. PICK size : output' = WithBlockInfo(next, size)
    BY <1>3 DEF BlockInfo
  <2>3. DOMAIN output'.obj = DOMAIN output.obj
    BY <2>1, <2>2, BlockInfoIs, ZenonT(60)
  <2>4. \A k \in DOMAIN output.obj : k # "devices" => output'.obj[k] = output.obj[k]
    BY <2>1, <2>2, BlockInfoIs, ZenonT(60)
  <2> QED
    BY <2>1, <2>3, <2>4 DEF MetadataInv, Listed
<1>4. CASE SkipDisk \/ Show
  BY <1>4 DEF SkipDisk, Show, historyVars, MetadataInv, Listed
<1>5. CASE ChangeText \/ ChangeDisks
  <2>1. UNCHANGED <<pc, output, status, xml>>
    BY <1>5, ChangeIs
  <2> QED
    BY <2>1 DEF MetadataInv, Listed, Shown
<1>6. CASE UNCHANGED vars
  BY <1>6 DEF MetadataInv, Listed, Shown, vars, requestVars, historyVars
<1> QED
  BY <1>1, <1>2, <1>3, <1>4, <1>5, <1>6 DEF Next, Request
----------------------------------------------------------------------------
(***************************************************************************)
(* Walks through the metadata.                                              *)
(***************************************************************************)
\* The places on the first m steps of a path.
IsWalk(start, path, at, m) ==
    /\ DOMAIN at = 0 .. m
    /\ at = [i \in 0 .. m |-> at[i]]
    /\ at[0] = start
    /\ \A i \in 1 .. m : at[i] = Descend(at[i - 1], path[i])

\* A path can be followed for any number of steps.
LEMMA WalkExists ==
    ASSUME NEW start, NEW path, NEW n \in Nat
    PROVE  \E at : IsWalk(start, path, at, n)
<1> DEFINE Bad == {m \in Nat : ~\E at : IsWalk(start, path, at, m)}
<1> SUFFICES ASSUME Bad # {} PROVE FALSE
  OBVIOUS
<1>1. PICK m \in Bad : \A y \in Bad : m <= y
  BY Least
<1>2. m \in Nat /\ ~\E at : IsWalk(start, path, at, m)
  OBVIOUS
<1>3. CASE m = 0
  <2>1. IsWalk(start, path, [i \in 0 .. 0 |-> start], 0)
    BY DEF IsWalk
  <2> QED
    BY <1>2, <1>3, <2>1
<1>4. CASE m # 0
  <2>1. m - 1 \in Nat /\ ~(m <= m - 1)
    BY <1>2, <1>4
  <2>2. m - 1 \notin Bad
    BY <1>1, <2>1
  <2>3. PICK at : IsWalk(start, path, at, m - 1)
    BY <2>1, <2>2
  <2> DEFINE more == [i \in 0 .. m |-> IF i = m THEN Descend(at[m - 1], path[m]) ELSE at[i]]
  <2>4. DOMAIN more = 0 .. m /\ more = [i \in 0 .. m |-> more[i]]
    OBVIOUS
  <2>5. more[m] = Descend(at[m - 1], path[m])
    BY <1>2
  <2>6. \A i \in 0 .. (m - 1) : more[i] = at[i]
    BY <1>2
  <2> HIDE DEF more
  <2>7. more[0] = start
    BY <2>1, <2>3, <2>6 DEF IsWalk
  <2>8. ASSUME NEW i \in 1 .. m PROVE more[i] = Descend(more[i - 1], path[i])
    <3>1. CASE i = m
      <4>1. more[m - 1] = at[m - 1]
        BY <2>1, <2>6
      <4> QED
        BY <2>5, <3>1, <4>1
    <3>2. CASE i # m
      <4>1. i \in 1 .. (m - 1) /\ i \in 0 .. (m - 1) /\ i - 1 \in 0 .. (m - 1)
        BY <1>2, <3>2
      <4> QED
        BY <2>3, <2>6, <4>1 DEF IsWalk
    <3> QED
      BY <3>1, <3>2
  <2>9. IsWalk(start, path, more, m)
    BY <2>4, <2>7, <2>8 DEF IsWalk
  <2> QED
    BY <1>2, <2>9
<1> QED
  BY <1>3, <1>4

\* So the recursive definition of a walk is what it says.
LEMMA WalkIs ==
    ASSUME NEW root, NEW json, NEW path, Len(path) \in Nat
    PROVE  IsWalk([node |-> root, json |-> json], path, Walk(root, json, path), Len(path))
<1> DEFINE n == Len(path)
           start == [node |-> root, json |-> json]
           Pass(at, i) == IF i = 0 THEN start ELSE Descend(at[i - 1], path[i])
<1>1. PICK at : IsWalk(start, path, at, n)
  BY WalkExists
<1>2. at = [i \in 0 .. n |-> Pass(at, i)]
  <2>1. \A i \in 0 .. n : at[i] = Pass(at, i)
    <3>1. \A i \in 0 .. n : i = 0 \/ i \in 1 .. n
      OBVIOUS
    <3>2. \A i \in 1 .. n : i # 0
      OBVIOUS
    <3> HIDE DEF start
    <3> QED
      BY <1>1, <3>1, <3>2 DEF IsWalk
  <2> HIDE DEF Pass
  <2> QED
    BY <1>1, <2>1 DEF IsWalk
<1>3. Walk(root, json, path) = [i \in 0 .. n |-> Pass(Walk(root, json, path), i)]
  <2> DEFINE D == CHOOSE d : d = [i \in 0 .. n |-> Pass(d, i)]
  <2>1. D = [i \in 0 .. n |-> Pass(D, i)]
    BY <1>2, Zenon
  <2>2. Walk(root, json, path) = D
    BY Zenon DEF Walk
  <2> QED
    BY <2>1, <2>2
<1> DEFINE W == Walk(root, json, path)
<1> HIDE DEF W, start
<1>4. W = [i \in 0 .. n |-> Pass(W, i)]
  BY <1>3 DEF W
<1>5. DOMAIN W = 0 .. n /\ \A i \in 0 .. n : W[i] = Pass(W, i)
  <2> HIDE DEF Pass, n
  <2> QED
    BY <1>4
<1>6. W = [i \in 0 .. n |-> W[i]]
  <2> HIDE DEF Pass, n
  <2> QED
    BY <1>4, <1>5
<1>7. W[0] = start
  BY <1>5
<1>8. \A i \in 1 .. n : W[i] = Descend(W[i - 1], path[i])
  BY <1>5
<1> QED
  BY <1>5, <1>6, <1>7, <1>8 DEF IsWalk, W, start

\* A place of the metadata with what xml_to_json makes of its node.
Placed(place) == place.node \in Nodes /\ place.json = Convert(place.node)

\* The way to a child leads to what xml_to_json makes of the child.
LEMMA DescendPlaced ==
    ASSUME NEW place, Placed(place), NEW k
    PROVE  Placed(Descend(place, k))
<1> DEFINE node == place.node
           n == Len(node.children)
           child == node.children[k]
           values == ChildValues(node)
           members == place.json.obj
<1>1. CASE ~(k \in DOMAIN node.children /\ child.name # "")
  <2>1. Descend(place, k) = place
    BY <1>1, Zenon DEF Descend
  <2> QED
    BY <2>1
<1>2. CASE k \in DOMAIN node.children /\ child.name # ""
  <2>1. node \in Nodes /\ node.children \in Seq(Nodes)
    BY ShowAssumption DEF Placed
  <2>2. n \in Nat /\ k \in 1 .. n /\ child \in Nodes
    <3>1. n \in Nat /\ DOMAIN node.children = 1 .. n
      BY <2>1
    <3>2. \A i \in 1 .. n : node.children[i] \in Nodes
      BY <2>1
    <3> QED
      BY <1>2, <3>1, <3>2
  <2>3. IsGrouped(node, values, members, n)
    BY <2>1, GroupsMetadata DEF Placed
  <2>4. values[k] = Convert(child)
    BY <1>2 DEF ChildValues
  <2>5. child.name \in DOMAIN members
    <3> HIDE DEF members, values, n, node
    <3> QED
      BY <1>2, <2>2, <2>3, ChildMember
  <2> DEFINE there == Elements(members[child.name])[Count(node, child.name, k)]
  <2>6. there = values[k]
    <3> HIDE DEF members, values, n, node
    <3> QED
      BY <2>2, <2>3, <2>5 DEF IsGrouped
  <2>7. Descend(place, k) = [node |-> child, json |-> there]
    BY <1>2, Zenon DEF Descend
  <2> HIDE DEF there, child
  <2> QED
    BY <2>2, <2>4, <2>6, <2>7 DEF Placed
<1> QED
  BY <1>1, <1>2

\* So does a path.
LEMMA WalkPlaced ==
    ASSUME NEW root \in Nodes, NEW path \in Seq(Nat)
    PROVE  Placed(Walk(root, Convert(root), path)[Len(path)])
<1> DEFINE W == Walk(root, Convert(root), path)
           start == [node |-> root, json |-> Convert(root)]
           n == Len(path)
           Bad == {i \in 0 .. n : ~Placed(W[i])}
<1>1. n \in Nat /\ n \in 0 .. n
  OBVIOUS
<1>2. IsWalk(start, path, W, n)
  BY <1>1, WalkIs
<1>3. Placed(start)
  BY DEF Placed
<1> HIDE DEF W, start, n
<1> SUFFICES ASSUME Bad # {} PROVE FALSE
  BY <1>1 DEF W, n
<1>4. PICK i \in Bad : \A y \in Bad : i <= y
  <2>1. Bad \subseteq Nat
    BY <1>1
  <2> QED
    BY <2>1, Least
<1>5. i # 0
  BY <1>2, <1>3, <1>4 DEF IsWalk
<1>6. i \in 1 .. n /\ i - 1 \in 0 .. n /\ ~(i <= i - 1)
  BY <1>1, <1>4, <1>5
<1>7. Placed(W[i - 1])
  BY <1>4, <1>6
<1>8. W[i] = Descend(W[i - 1], path[i])
  BY <1>2, <1>6 DEF IsWalk
<1> QED
  BY <1>4, <1>7, <1>8, DescendPlaced

\* What xml_to_json makes of a node shows it.
LEMMA NodeShown ==
    ASSUME NEW node \in Nodes
    PROVE  ShowsNode(node, Convert(node))
<1> DEFINE n == Len(node.children)
           members == Convert(node).obj
           attrib == Obj([a \in DOMAIN node.attrs |-> Str(node.attrs[a])])
           text == Str(FirstText(node))
<1>1. IsGrouped(node, ChildValues(node), members, n)
  BY GroupsMetadata
<1>2. /\ node.attrs # NoAttrs => "attrib" \in DOMAIN Own(node) /\ Own(node)["attrib"] = attrib
      /\ FirstText(node) # "" => "text" \in DOMAIN Own(node) /\ Own(node)["text"] = text
  BY DEF Own
<1>3. text.str = FirstText(node) /\ \A a \in DOMAIN node.attrs : attrib.obj[a].str = node.attrs[a]
  BY DEF Str, Obj
<1> HIDE DEF n, members, attrib, text
<1>4. /\ DOMAIN members = DOMAIN Own(node) \cup ({node.children[i].name : i \in 1 .. n} \ {""})
      /\ \A key \in DOMAIN members : DOMAIN Elements(members[key]) = 1 .. Count(node, key, n)
  BY <1>1 DEF IsGrouped
<1>5. \A key \in DOMAIN Own(node) : Elements(members[key])[1] = Own(node)[key]
  BY <1>1 DEF IsGrouped
<1>6. node.attrs # NoAttrs =>
         \A a \in DOMAIN node.attrs : Elements(members["attrib"])[1].obj[a].str = node.attrs[a]
  BY <1>2, <1>3, <1>5
<1>7. FirstText(node) # "" => Elements(members["text"])[1].str = FirstText(node)
  BY <1>2, <1>3, <1>5
<1> QED
  BY <1>4, <1>6, <1>7 DEF ShowsNode, n, members
----------------------------------------------------------------------------
(***************************************************************************)
(* The theorems.                                                            *)
(***************************************************************************)
\* At the beginning nothing is shown.
LEMMA InitInv == Init => IndInv
<1> SUFFICES ASSUME Init PROVE IndInv
  OBVIOUS
<1>1. <<>> \in DiskLists
  <2>1. <<>> \in [1 .. 0 -> Disks]
    OBVIOUS
  <2>2. MaxDisks \in Nat
    BY ShowAssumption
  <2> QED
    BY <2>1, <2>2 DEF DiskLists, DistinctDevs
<1>2. /\ dom \in Domain /\ pc = "idle" /\ next = 1 /\ status = 0 /\ retry_ = 0
      /\ changes = 0 /\ faults = 0 /\ removed = FALSE
  BY Zenon DEF Init
<1>3. xml.disks = <<>> /\ sizes = [dev \in Devs |-> {}]
  <2> DEFINE metadata == Node("metadata", NoAttrs, <<>>)
  <2>1. xml = [disks |-> <<>>, metadata |-> metadata] /\ sizes = [dev \in Devs |-> {}]
    BY Zenon DEF Init
  <2> HIDE DEF metadata
  <2> QED
    BY <2>1
<1>4. TypeOK
  <2>1. sizes \in [Devs -> SUBSET Nat]
    BY <1>3
  <2>2. removed \in BOOLEAN
    BY <1>2
  <2> QED
    BY <1>1, <1>2, <1>3, <2>1, <2>2 DEF TypeOK, Pc
<1>5. ~Listed
  BY <1>2 DEF Listed, Shown
<1> QED
  BY <1>2, <1>4, <1>5 DEF IndInv, TextsInv, DisksInv, SizesInv, MetadataInv

\* The invariant is inductive.
LEMMA InvStep == IndInv /\ [Next]_vars => IndInv'
BY TypeStep, TextsStep, DisksStep, SizesStep, MetadataStep DEF IndInv

\* Whatever others do between the calls, the request keeps IndInv.
THEOREM Invariant == Spec => []IndInv
BY InitInv, InvStep, PTL DEF Spec

\* The title and description of an answer were the domain's together at some time
\* during the request, although three calls of libvirt read them.
THEOREM ShowsOneSnapshot == Spec => []OneSnapshot
<1>1. IndInv => OneSnapshot
  BY DEF IndInv, TextsInv, OneSnapshot, Listed, TextOf
<1> QED
  BY <1>1, Invariant, PTL

\* The answer lists the devices of the XML, each kind of ARRAY_KEYS as an array.
THEOREM ListsTheDevices == Spec => []DevicesListed
<1>1. ASSUME IndInv, Shown PROVE [i \in DOMAIN ShownDisks |-> DevOf(i)]
                                   = [i \in DOMAIN xml.disks |-> xml.disks[i].dev]
  <2>1. /\ DOMAIN ShownDisks = DOMAIN xml.disks
        /\ \A i \in DOMAIN xml.disks : DevOf(i) = xml.disks[i].dev
    BY <1>1 DEF IndInv, DisksInv, DiskInv, Listed
  <2> QED
    BY <2>1
<1>2. IndInv => DevicesListed
  BY <1>1 DEF IndInv, DisksInv, DevicesListed, Listed
<1> QED
  BY <1>2, Invariant, PTL

\* A storage disk, and no other, is shown with a size that its dev had since the
\* XML was read.
THEOREM ShowsHeldSizes == Spec => []SizesHeld
<1>1. IndInv => SizesHeld
  <2> SUFFICES ASSUME IndInv, Shown, NEW i \in DOMAIN xml.disks
               PROVE  LET disk == ShownDisks[i]
                      IN  /\ IsMember(disk, "block_info") <=> xml.disks[i].device = "disk"
                          /\ IsMember(disk, "block_info") =>
                                disk.obj["block_info"].obj["capacity"].num
                                    \in {size \div 1000 : size \in sizes[xml.disks[i].dev]}
    BY DEF SizesHeld
  <2>1. DiskInv(i)
    BY DEF IndInv, DisksInv, Listed
  <2> QED
    BY <2>1 DEF DiskInv
<1> QED
  BY <1>1, Invariant, PTL

\* Every element of the metadata, at any depth, for any number of children and any
\* names, is found in the answer, with its attributes and its first text.
THEOREM KeepsMetadata == Spec => []MetadataKept
<1>1. ASSUME IndInv, Shown, NEW path \in Paths
      PROVE  LET place == Walk(xml.metadata, output.obj["metadata"], path)[Len(path)]
             IN  ShowsNode(place.node, place.json)
  <2>1. xml.metadata \in Nodes /\ output.obj["metadata"] = Convert(xml.metadata)
    BY <1>1 DEF IndInv, MetadataInv, Listed, Metadata
  <2>2. path \in Seq(Nat)
    BY ShowAssumption
  <2> DEFINE place == Walk(xml.metadata, output.obj["metadata"], path)[Len(path)]
  <2>3. Placed(place)
    BY <2>1, <2>2, WalkPlaced
  <2> HIDE DEF place
  <2>4. ShowsNode(place.node, place.json)
    BY <2>3, NodeShown DEF Placed
  <2> QED
    BY <2>4 DEF place
<1>2. IndInv => MetadataKept
  BY <1>1 DEF MetadataKept
<1> QED
  BY <1>2, Invariant, PTL
=============================================================================
