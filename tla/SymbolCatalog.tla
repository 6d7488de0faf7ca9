---------------------------- MODULE SymbolCatalog ----------------------------
(***************************************************************************)
(* Interning of symbol labels into dense replay-local slots                *)
(* (crates/asof-causality/src/catalog.rs).                                 *)
(*                                                                         *)
(* The catalog keeps two maps and two vectors that must stay mutual        *)
(* inverses.  Replay interns (label, SymbolId::from_label(label)), but the *)
(* Event struct is public, so any pair can be presented to `intern'.       *)
(* Slots are numbered from 1 here and from 0 in the code.                  *)
(***************************************************************************)
EXTENDS Naturals, Sequences

CONSTANTS
  Labels,     \* symbol labels
  LabelHash   \* SymbolId::from_label, a function on Labels

ASSUME LabelHashAssumption == LabelHash \in [Labels -> Nat]

Ids == { LabelHash[l] : l \in Labels }

VARIABLES
  catalog,    \* the SymbolCatalog
  answer      \* what the last call of intern returned

interning == <<catalog, answer>>

Empty ==
  [ slots_by_label |-> <<>>,
    slots_by_id    |-> <<>>,
    labels_by_slot |-> <<>>,
    ids_by_slot    |-> <<>> ]

Knows(c, label) == label \in DOMAIN c.slots_by_label

\* Seeded error: an id that is already taken does not stop a new label.
InternResultIgnoringCollisions(c, label, id) ==
  IF Knows(c, label)
  THEN IF c.ids_by_slot[c.slots_by_label[label]] # id
       THEN "SymbolIdentityMismatch" ELSE "ok"
  ELSE IF LabelHash[label] # id THEN "SymbolIdentityMismatch" ELSE "ok"

(***************************************************************************)
(* The three answers of intern, in the order the code tries them.          *)
(***************************************************************************)
InternResult(c, label, id) ==
  IF Knows(c, label)
  THEN IF c.ids_by_slot[c.slots_by_label[label]] # id
       THEN "SymbolIdentityMismatch" ELSE "ok"
  ELSE IF id \in DOMAIN c.slots_by_id THEN "SymbolIdCollision"
  ELSE IF LabelHash[label] # id THEN "SymbolIdentityMismatch" ELSE "ok"

(***************************************************************************)
(* The catalog after intern: only an accepted new label changes it.        *)
(***************************************************************************)
Extend(map, key, value) ==
  [k \in DOMAIN map \cup {key} |-> IF k = key THEN value ELSE map[k]]

\* Seeded error: interning a known label again numbers it anew.
InternedAgain(c, label, id) ==
  IF InternResult(c, label, id) # "ok" THEN c
  ELSE LET slot == Len(c.labels_by_slot) + 1 IN
       [ slots_by_label |-> Extend(c.slots_by_label, label, slot),
         slots_by_id    |-> Extend(c.slots_by_id, id, slot),
         labels_by_slot |-> Append(c.labels_by_slot, label),
         ids_by_slot    |-> Append(c.ids_by_slot, id) ]

Interned(c, label, id) ==
  IF Knows(c, label) \/ InternResult(c, label, id) # "ok" THEN c
  ELSE LET slot == Len(c.labels_by_slot) + 1 IN
       [ slots_by_label |-> Extend(c.slots_by_label, label, slot),
         slots_by_id    |-> Extend(c.slots_by_id, id, slot),
         labels_by_slot |-> Append(c.labels_by_slot, label),
         ids_by_slot    |-> Append(c.ids_by_slot, id) ]

CatalogInit ==
  /\ catalog = Empty
  /\ answer = "none"

Intern(label, id) ==
  /\ answer' = InternResult(catalog, label, id)
  /\ catalog' = Interned(catalog, label, id)

CatalogNext == \E label \in Labels, id \in Ids : Intern(label, id)

CatalogSpec == CatalogInit /\ [][CatalogNext]_interning

-----------------------------------------------------------------------------
(***************************************************************************)
(* The two maps and the two vectors describe one bijection between slots,  *)
(* labels and ids, slots are dense, and no slot carries a forged id, even  *)
(* when hashes collide or a caller presents a foreign id                   *)
(* (catalog.rs:62-98).                                                     *)
(***************************************************************************)
Slots(c) == 1..Len(c.labels_by_slot)

Consistent(c) ==
  /\ Len(c.ids_by_slot) = Len(c.labels_by_slot)
  /\ DOMAIN c.slots_by_label = { c.labels_by_slot[s] : s \in Slots(c) }
  /\ DOMAIN c.slots_by_id = { c.ids_by_slot[s] : s \in Slots(c) }
  /\ \A s \in Slots(c) : /\ c.slots_by_label[c.labels_by_slot[s]] = s
                         /\ c.slots_by_id[c.ids_by_slot[s]] = s
                         /\ c.ids_by_slot[s] = LabelHash[c.labels_by_slot[s]]

CatalogConsistent == Consistent(catalog)

(***************************************************************************)
(* A slot handed out once keeps its label: state is indexed by slot while  *)
(* later labels are still being interned (catalog.rs:63-73, 92-96).        *)
(***************************************************************************)
SlotsAreStable ==
  [][\A label \in DOMAIN catalog.slots_by_label :
       /\ label \in DOMAIN catalog'.slots_by_label
       /\ catalog'.slots_by_label[label] = catalog.slots_by_label[label]]_interning
=============================================================================
