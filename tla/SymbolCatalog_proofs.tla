------------------------ MODULE SymbolCatalog_proofs ------------------------
(***************************************************************************)
(* The catalog stays a bijection and never renumbers a label, for every    *)
(* set of labels and every hash, colliding ones included.                  *)
(***************************************************************************)
EXTENDS SymbolCatalog, SequenceTheorems, TLAPS

\* The types of the catalog, which Consistent relies on.
CatalogType(c) ==
  /\ c = [ slots_by_label |-> c.slots_by_label,
           slots_by_id    |-> c.slots_by_id,
           labels_by_slot |-> c.labels_by_slot,
           ids_by_slot    |-> c.ids_by_slot ]
  /\ c.labels_by_slot \in Seq(Labels)
  /\ c.ids_by_slot \in Seq(Nat)

Sound(c) == CatalogType(c) /\ Consistent(c)

\* A new catalog is sound.
LEMMA EmptySound == Sound(Empty)
BY DEF Sound, CatalogType, Consistent, Slots, Empty

\* An accepted new label has a fresh id, so both maps grow by one pair.
LEMMA InternedSound ==
  ASSUME NEW c, Sound(c), NEW label \in Labels, NEW id \in Nat
  PROVE  /\ Sound(Interned(c, label, id))
         /\ \A l \in DOMAIN c.slots_by_label :
              /\ l \in DOMAIN Interned(c, label, id).slots_by_label
              /\ Interned(c, label, id).slots_by_label[l] = c.slots_by_label[l]
         /\ InternResult(c, label, id) = "ok" => Knows(Interned(c, label, id), label)
<1>1. CASE Knows(c, label) \/ InternResult(c, label, id) # "ok"
  BY <1>1 DEF Interned, Sound, Consistent, InternResult, Knows
<1>2. CASE ~Knows(c, label) /\ InternResult(c, label, id) = "ok"
  <2> DEFINE n == Len(c.labels_by_slot)
             d == [ slots_by_label |-> Extend(c.slots_by_label, label, n + 1),
                    slots_by_id    |-> Extend(c.slots_by_id, id, n + 1),
                    labels_by_slot |-> Append(c.labels_by_slot, label),
                    ids_by_slot    |-> Append(c.ids_by_slot, id) ]
  <2>1. Interned(c, label, id) = d
    BY <1>2 DEF Interned
  <2>2. /\ label \notin DOMAIN c.slots_by_label
        /\ id \notin DOMAIN c.slots_by_id
        /\ id = LabelHash[label]
    BY <1>2 DEF InternResult, Knows
  <2>3. /\ n \in Nat /\ Len(c.ids_by_slot) = n
        /\ c.labels_by_slot \in Seq(Labels) /\ c.ids_by_slot \in Seq(Nat)
        /\ DOMAIN c.slots_by_label = { c.labels_by_slot[s] : s \in 1..n }
        /\ DOMAIN c.slots_by_id = { c.ids_by_slot[s] : s \in 1..n }
        /\ \A s \in 1..n : /\ c.slots_by_label[c.labels_by_slot[s]] = s
                           /\ c.slots_by_id[c.ids_by_slot[s]] = s
                           /\ c.ids_by_slot[s] = LabelHash[c.labels_by_slot[s]]
    BY DEF Sound, CatalogType, Consistent, Slots
  <2>4. /\ d.labels_by_slot \in Seq(Labels) /\ Len(d.labels_by_slot) = n + 1
        /\ d.ids_by_slot \in Seq(Nat) /\ Len(d.ids_by_slot) = n + 1
        /\ \A s \in 1..n : /\ d.labels_by_slot[s] = c.labels_by_slot[s]
                           /\ d.ids_by_slot[s] = c.ids_by_slot[s]
        /\ d.labels_by_slot[n + 1] = label
        /\ d.ids_by_slot[n + 1] = id
    BY <2>3
  <2>5. /\ DOMAIN d.slots_by_label = DOMAIN c.slots_by_label \cup {label}
        /\ DOMAIN d.slots_by_id = DOMAIN c.slots_by_id \cup {id}
        /\ d.slots_by_label[label] = n + 1
        /\ d.slots_by_id[id] = n + 1
        /\ \A l \in DOMAIN c.slots_by_label : d.slots_by_label[l] = c.slots_by_label[l]
        /\ \A i \in DOMAIN c.slots_by_id : d.slots_by_id[i] = c.slots_by_id[i]
    BY <2>2 DEF Extend
  <2>6. CatalogType(d)
    BY <2>4 DEF CatalogType
  <2> HIDE DEF d, n
  <2>7. Slots(d) = 1..n \cup {n + 1}
    BY <2>3, <2>4 DEF Slots
  <2>8. DOMAIN d.slots_by_label = { d.labels_by_slot[s] : s \in Slots(d) }
    <3>1. \A s \in 1..n : d.labels_by_slot[s] = c.labels_by_slot[s]
      BY <2>4
    <3>2. \A x : x \in { d.labels_by_slot[s] : s \in Slots(d) } <=>
                 \/ x \in { c.labels_by_slot[s] : s \in 1..n }
                 \/ x = d.labels_by_slot[n + 1]
      BY <3>1, <2>7, Zenon
    <3> QED BY <3>2, <2>3, <2>4, <2>5
  <2>9. DOMAIN d.slots_by_id = { d.ids_by_slot[s] : s \in Slots(d) }
    <3>1. \A s \in 1..n : d.ids_by_slot[s] = c.ids_by_slot[s]
      BY <2>4
    <3>2. \A x : x \in { d.ids_by_slot[s] : s \in Slots(d) } <=>
                 \/ x \in { c.ids_by_slot[s] : s \in 1..n }
                 \/ x = d.ids_by_slot[n + 1]
      BY <3>1, <2>7, Zenon
    <3> QED BY <3>2, <2>3, <2>4, <2>5
  <2>10. ASSUME NEW s \in Slots(d)
         PROVE  /\ d.slots_by_label[d.labels_by_slot[s]] = s
                /\ d.slots_by_id[d.ids_by_slot[s]] = s
                /\ d.ids_by_slot[s] = LabelHash[d.labels_by_slot[s]]
    <3>1. CASE s = n + 1
      BY <3>1, <2>2, <2>4, <2>5
    <3>2. CASE s \in 1..n
      <4>1. c.labels_by_slot[s] \in DOMAIN c.slots_by_label
        BY <3>2, <2>3, Zenon
      <4>2. c.ids_by_slot[s] \in DOMAIN c.slots_by_id
        BY <3>2, <2>3, Zenon
      <4>3. /\ c.slots_by_label[c.labels_by_slot[s]] = s
            /\ c.slots_by_id[c.ids_by_slot[s]] = s
            /\ c.ids_by_slot[s] = LabelHash[c.labels_by_slot[s]]
        BY <3>2, <2>3, Zenon
      <4>4. /\ d.labels_by_slot[s] = c.labels_by_slot[s]
            /\ d.ids_by_slot[s] = c.ids_by_slot[s]
        BY <3>2, <2>4, Zenon
      <4>5. /\ d.slots_by_label[c.labels_by_slot[s]] = c.slots_by_label[c.labels_by_slot[s]]
            /\ d.slots_by_id[c.ids_by_slot[s]] = c.slots_by_id[c.ids_by_slot[s]]
        BY <4>1, <4>2, <2>5, Zenon
      <4> QED BY <4>3, <4>4, <4>5, Zenon
    <3> QED BY <3>1, <3>2, <2>7
  <2>11. Sound(d)
    BY <2>4, <2>6, <2>8, <2>9, <2>10 DEF Sound, Consistent
  <2> QED BY <2>1, <2>5, <2>11 DEF Knows
<1> QED BY <1>1, <1>2

\* The maps and vectors of the catalog describe one bijection, always
\* (catalog.rs:62-98).
THEOREM Consistency == CatalogSpec => []CatalogConsistent
<1> DEFINE IInv == Sound(catalog)
<1>1. CatalogInit => IInv
  BY EmptySound DEF CatalogInit
<1>2. IInv /\ [CatalogNext]_interning => IInv'
  <2> SUFFICES ASSUME IInv, [CatalogNext]_interning PROVE IInv'
    OBVIOUS
  <2>1. ASSUME NEW label \in Labels, NEW id \in Ids, Intern(label, id) PROVE IInv'
    <3>1. id \in Nat
      BY LabelHashAssumption DEF Ids
    <3>2. catalog' = Interned(catalog, label, id)
      BY <2>1 DEF Intern
    <3> QED BY <3>1, <3>2, InternedSound
  <2>2. CASE UNCHANGED interning
    BY <2>2 DEF interning
  <2> QED BY <2>1, <2>2 DEF CatalogNext
<1>3. IInv => CatalogConsistent
  BY DEF Sound, CatalogConsistent
<1> HIDE DEF IInv
<1> QED BY <1>1, <1>2, <1>3, PTL DEF CatalogSpec

\* A label keeps the slot it was first given, whatever is interned later
\* (catalog.rs:63-73, 92-96).
THEOREM Stability == CatalogSpec => SlotsAreStable
<1> DEFINE IInv == Sound(catalog)
           Keeps == \A label \in DOMAIN catalog.slots_by_label :
                      /\ label \in DOMAIN catalog'.slots_by_label
                      /\ catalog'.slots_by_label[label] = catalog.slots_by_label[label]
<1>1. CatalogInit => IInv
  BY EmptySound DEF CatalogInit
<1>2. IInv /\ [CatalogNext]_interning => IInv' /\ [Keeps]_interning
  <2> SUFFICES ASSUME IInv, [CatalogNext]_interning PROVE IInv' /\ [Keeps]_interning
    OBVIOUS
  <2>1. ASSUME NEW label \in Labels, NEW id \in Ids, Intern(label, id) PROVE IInv' /\ Keeps
    <3>1. id \in Nat
      BY LabelHashAssumption DEF Ids
    <3>2. catalog' = Interned(catalog, label, id)
      BY <2>1 DEF Intern
    <3> QED BY <3>1, <3>2, InternedSound
  <2>2. CASE UNCHANGED interning
    BY <2>2 DEF interning
  <2> QED BY <2>1, <2>2 DEF CatalogNext
<1> HIDE DEF IInv
<1> QED BY <1>1, <1>2, PTL DEF CatalogSpec, SlotsAreStable
=============================================================================
