------------------------- MODULE KeywordTablesProofs ------------------------
(***************************************************************************)
(* Theorems about KeywordTables, for every set of names, every number of   *)
(* addresses and every pattern of failures and fresh starts.               *)
(***************************************************************************)
EXTENDS KeywordTables, TLAPS

---------------------------------------------------------------------------
(* The inductive invariant.                                                *)

Atom == [text : AnyName, at : Address]

TableOf(names) ==
  [place : {"heap", "arena"}, bindings : SUBSET [key : Address, value : names, place : {"heap", "arena"}]]

TablesTypeOK ==
  /\ internal \in BOOLEAN /\ initializing \in BOOLEAN /\ interrupted \in BOOLEAN
  /\ memory \in [Address -> {"free", "heap", "arena"}]
  /\ atoms \subseteq Atom
  /\ ownAtoms \in [OwnName -> Address \cup {NULL}]
  /\ keywordTable \in TableOf(Keyword) \cup {NoTable}
  /\ typeTable \in TableOf(TypeName) \cup {NoTable}
  /\ stage \in {"idle", "table", "intern", "bind", "types", "internType", "bindType", "read", "readType"}
  /\ rest \subseteq OwnName
  /\ schema \in [name : AnyName, type : AnyName]
  /\ found = NULL \/ found \in [by : {"read", "readType"}, name : AnyName, as : OwnName \cup {NULL}]

\* Tables and bindings lie where an allocation could have put them.
TablesKept ==
  \A t \in {keywordTable, typeTable} \ {NoTable} :
    /\ Kept(t.place)
    /\ \A b \in t.bindings : Kept(b.place) /\ [text |-> b.value, at |-> b.key] \in atoms

AtomsKept == \A a \in atoms : Kept(memory[a.at])

AtomsUnique == \A a, b \in atoms : a.text = b.text \/ a.at = b.at => a = b

OwnAtomsKnown == \A n \in OwnName : ownAtoms[n] # NULL => [text |-> n, at |-> ownAtoms[n]] \in atoms

NothingWithoutTable == keywordTable = NoTable => typeTable = NoTable /\ atoms = {}

\* A name has its atom, and the table knows it.
IsBound(table, name) == \E b \in table.bindings : b.key = ownAtoms[name] /\ b.value = name

KeywordsBound == \A n \in Keyword : IsBound(keywordTable, n)

\* How much of the tables is there at each stage of a compilation.
StageOK ==
  /\ stage = "table" => keywordTable = NoTable
  /\ stage \notin {"idle", "table"} => keywordTable # NoTable
  /\ stage = "intern" => \A n \in Keyword \ rest : ownAtoms[n] # NULL
  /\ stage = "bind" => /\ \A n \in Keyword : ownAtoms[n] # NULL
                       /\ \A n \in Keyword \ rest : IsBound(keywordTable, n)
  /\ stage \in {"intern", "bind"} => rest \subseteq Keyword
  /\ stage \in {"types", "internType", "bindType"} => rest \subseteq TypeName /\ KeywordsBound
  /\ stage = "types" => rest = TypeName
  /\ stage \in {"internType", "bindType"} =>
       typeTable # NoTable /\ \A n \in TypeName \ rest : IsBound(typeTable, n)

\* Tables no failure left half built are complete between two compilations.
TablesComplete ==
  /\ stage \in {"idle", "table", "read", "readType"} /\ keywordTable # NoTable /\ ~interrupted =>
       KeywordsBound /\ typeTable # NoTable /\ \A n \in TypeName : IsBound(typeTable, n)

TablesInv ==
  /\ TablesTypeOK
  /\ TablesKept
  /\ AtomsKept
  /\ AtomsUnique
  /\ OwnAtomsKnown
  /\ NothingWithoutTable
  /\ StageOK
  /\ TablesComplete
  /\ KeywordsKnown

---------------------------------------------------------------------------
(* Allocations.                                                            *)

(* An allocation takes no memory back.                                     *)
LEMMA AllocateKeeps ==
  ASSUME TablesTypeOK, Allocate
  PROVE  /\ internal' \in BOOLEAN /\ initializing' \in BOOLEAN
         /\ Place \in {"heap", "arena"}
         /\ Place = "arena" => internal'
         /\ \A place : Kept(place) => Kept(place)'
  BY DEF TablesTypeOK, Allocate, Place, Kept

(* Making an atom keeps those there are, each the only one of its string   *)
(* and its address, and gives the atom of the string.                      *)
LEMMA InternStep ==
  ASSUME TablesTypeOK, AtomsKept, AtomsUnique,
         NEW name \in AnyName, NEW at \in Address, Intern(name, at)
  PROVE  /\ internal' \in BOOLEAN /\ initializing' \in BOOLEAN
         /\ memory' \in [Address -> {"free", "heap", "arena"}]
         /\ atoms' \subseteq Atom /\ atoms \subseteq atoms'
         /\ [text |-> name, at |-> at] \in atoms'
         /\ AtomsKept' /\ AtomsUnique'
         /\ \A place : Kept(place) => Kept(place)'
  <1>1. CASE \E a \in AtomsOf(name) : at = a.at /\ UNCHANGED <<process, atoms>>
    <2>1. PICK a \in atoms : a.text = name /\ at = a.at
      BY <1>1 DEF AtomsOf
    <2>2. a = [text |-> name, at |-> at]
      BY <2>1 DEF TablesTypeOK, Atom
    <2>3. UNCHANGED <<internal, initializing, memory, atoms>>
      BY <1>1 DEF process
    <2> QED
      BY <2>1, <2>2, <2>3 DEF TablesTypeOK, AtomsKept, AtomsUnique, Kept
  <1>2. CASE /\ AtomsOf(name) = {} /\ memory[at] = "free" /\ Allocate
             /\ memory' = [memory EXCEPT ![at] = Place]
             /\ atoms' = atoms \cup {[text |-> name, at |-> at]}
    <2>1. /\ internal' \in BOOLEAN /\ initializing' \in BOOLEAN
          /\ Place \in {"heap", "arena"} /\ (Place = "arena" => internal')
          /\ \A place : Kept(place) => Kept(place)'
      BY <1>2, AllocateKeeps
    <2> DEFINE new == [text |-> name, at |-> at]
    <2>2. new \in Atom
      BY DEF Atom
    <2>3. \A a \in atoms : a.text # name /\ a.at # at /\ a.at \in Address
      BY <1>2 DEF AtomsOf, AtomsKept, Kept, TablesTypeOK, Atom
    <2>4. AtomsKept'
      <3> SUFFICES ASSUME NEW a \in atoms' PROVE Kept(memory[a.at])'
        BY DEF AtomsKept
      <3>1. CASE a = new
        <4>1. memory'[a.at] = Place
          BY <1>2, <3>1 DEF TablesTypeOK
        <4>2. Place \in {"heap", "arena"} /\ (Place = "arena" => internal')
          BY <2>1
        <4> QED
          BY <4>1, <4>2 DEF Kept
      <3>2. CASE a \in atoms
        <4>1. memory'[a.at] = memory[a.at] /\ Kept(memory[a.at])
          BY <1>2, <2>3, <3>2 DEF TablesTypeOK, AtomsKept
        <4> QED
          BY <1>2, <4>1 DEF Kept, Allocate, Place
      <3> QED
        BY <1>2, <3>1, <3>2
    <2>5. AtomsUnique'
      BY <1>2, <2>3 DEF AtomsUnique
    <2> QED
      BY <1>2, <2>1, <2>2, <2>4, <2>5 DEF TablesTypeOK
  <1> QED
    BY <1>1, <1>2 DEF Intern

(* A failure loses nothing but the completeness of the tables.             *)
LEMMA RaiseStep ==
  ASSUME TablesInv, Raise
  PROVE  TablesInv'
  <1> USE DEF TablesInv
  <1>1. UNCHANGED <<internal, memory, atoms, ownAtoms, keywordTable, typeTable, rest, schema, found>>
    BY DEF Raise, tables
  <1>2. stage' = "idle" /\ initializing' \in BOOLEAN /\ interrupted' \in BOOLEAN
        /\ (interrupted => interrupted')
    BY DEF Raise, TablesTypeOK, IsBuilding
  <1>3. TablesTypeOK'
    BY <1>1, <1>2 DEF TablesTypeOK, TableOf
  <1>4. TablesKept' /\ AtomsKept' /\ AtomsUnique' /\ OwnAtomsKnown' /\ NothingWithoutTable'
    BY <1>1 DEF TablesKept, AtomsKept, AtomsUnique, OwnAtomsKnown, NothingWithoutTable, Kept
  <1>5. StageOK'
    BY <1>2 DEF StageOK
  <1>6. TablesComplete'
    <2>1. ~interrupted' => stage \in {"idle", "table", "read", "readType"} /\ ~interrupted
      BY DEF Raise, IsBuilding, TablesTypeOK
    <2> QED
      BY <1>1, <2>1 DEF TablesComplete, KeywordsBound, IsBound
  <1>7. KeywordsKnown'
    BY <1>1, <1>2 DEF KeywordsKnown
  <1> QED
    BY <1>3, <1>4, <1>5, <1>6, <1>7

(* Tables that stay as they are stay sound while atoms are added.          *)
LEMMA TablesStay ==
  ASSUME TablesKept, UNCHANGED <<keywordTable, typeTable>>,
         atoms \subseteq atoms', \A place : Kept(place) => Kept(place)'
  PROVE  TablesKept'
  <1> SUFFICES ASSUME NEW t \in {keywordTable', typeTable'} \ {NoTable}
               PROVE  /\ Kept(t.place)'
                      /\ \A b \in t.bindings : Kept(b.place)' /\ [text |-> b.value, at |-> b.key] \in atoms'
    BY DEF TablesKept, NoTable
  <1>1. t \in {keywordTable, typeTable} \ {NoTable}
    OBVIOUS
  <1> QED
    BY <1>1 DEF TablesKept

(* Adding a binding of a name's own atom.                                  *)
LEMMA PutStep ==
  ASSUME NEW names, names \subseteq OwnName, NEW table \in TableOf(names),
         NEW name \in names, ownAtoms[name] \in Address, Place \in {"heap", "arena"}
  PROVE  LET new == Put(table, ownAtoms[name], name) IN
         /\ new \in TableOf(names)
         /\ new.place = table.place
         /\ \A b \in new.bindings : b \in table.bindings \/ b = [key |-> ownAtoms[name], value |-> name, place |-> Place]
         /\ [key |-> ownAtoms[name], value |-> name, place |-> Place] \in new.bindings
         /\ \A b \in table.bindings : b.key # ownAtoms[name] => b \in new.bindings
  BY DEF Put, TableOf

---------------------------------------------------------------------------
(* Looking names up.                                                       *)

(* A table whose keys are the atoms of the names they stand for gives back *)
(* a name whose atom is asked for, if it is bound, and nothing otherwise.  *)
LEMMA GotIs ==
  ASSUME NEW table, NEW name, NEW at, NEW known,
         \A a, b \in known : a.text = b.text \/ a.at = b.at => a = b,
         [text |-> name, at |-> at] \in known,
         \A b \in table.bindings : [text |-> b.value, at |-> b.key] \in known
  PROVE  /\ (\E b \in table.bindings : b.value = name) => Got(table, at) = name
         /\ (\A b \in table.bindings : b.value # name) => Got(table, at) = NULL
  <1> DEFINE bound == {b \in table.bindings : b.key = at}
  <1>1. \A b \in bound : b.value = name
    OBVIOUS
  <1>2. \A b \in table.bindings : b.value = name => b \in bound
    OBVIOUS
  <1>3. bound # {} => (CHOOSE b \in bound : TRUE) \in bound
    OBVIOUS
  <1> QED
    BY <1>1, <1>2, <1>3 DEF Got

---------------------------------------------------------------------------
(* Each step keeps the invariant.                                          *)

(* A compilation begins with the tables, or goes without them.             *)
LEMMA CompileStep ==
  ASSUME TablesInv, Compile
  PROVE  TablesInv'
  <1>1. UNCHANGED <<internal, initializing, memory, atoms, ownAtoms, keywordTable, typeTable, rest, interrupted>>
    BY DEF Compile, process, tables
  <1>2. /\ stage = "idle" /\ stage' \in {"table", "read"} /\ found' = NULL
        /\ stage' = "table" <=> keywordTable = NoTable
        /\ schema' \in [name : AnyName, type : AnyName]
    BY DEF Compile
  <1>3. TablesTypeOK'
    BY <1>1, <1>2 DEF TablesInv, TablesTypeOK, TableOf
  <1>4. TablesKept' /\ AtomsKept' /\ AtomsUnique' /\ OwnAtomsKnown' /\ NothingWithoutTable'
    BY <1>1 DEF TablesInv, TablesKept, AtomsKept, AtomsUnique, OwnAtomsKnown, NothingWithoutTable, Kept
  <1>5. StageOK'
    BY <1>1, <1>2 DEF StageOK
  <1>6. TablesComplete'
    BY <1>1, <1>2 DEF TablesInv, TablesComplete, KeywordsBound, IsBound
  <1>7. KeywordsKnown'
    BY <1>2 DEF KeywordsKnown
  <1> QED
    BY <1>3, <1>4, <1>5, <1>6, <1>7 DEF TablesInv

(* The table of keywords is made, or there is no memory for it.            *)
LEMMA MakeTableStep ==
  ASSUME TablesInv, MakeTable
  PROVE  TablesInv'
  <1>1. CASE stage = "table" /\ Raise
    BY <1>1, RaiseStep
  <1>2. CASE stage = "table" /\ ~Raise
    <2>1. /\ stage = "table" /\ Allocate /\ keywordTable' = NewTable /\ stage' = "intern" /\ rest' = Keyword
          /\ UNCHANGED <<memory, atoms, ownAtoms, typeTable, schema, found, interrupted>>
      BY <1>2 DEF MakeTable
    <2>2. keywordTable = NoTable /\ typeTable = NoTable /\ atoms = {}
      BY <2>1 DEF TablesInv, StageOK, NothingWithoutTable
    <2>3. /\ internal' \in BOOLEAN /\ initializing' \in BOOLEAN
          /\ Place \in {"heap", "arena"} /\ (Place = "arena" => internal')
          /\ \A place : Kept(place) => Kept(place)'
      BY <2>1, AllocateKeeps DEF TablesInv
    <2>4. NewTable \in TableOf(Keyword) /\ NewTable # NoTable /\ NewTable.place = Place /\ NewTable.bindings = {}
      BY <2>3 DEF NewTable, NoTable, TableOf
    <2>5. TablesTypeOK'
      BY <2>1, <2>3, <2>4 DEF TablesInv, TablesTypeOK, OwnName, TableOf
    <2>6. TablesKept'
      <3>1. Kept(keywordTable.place)'
        BY <2>1, <2>3, <2>4 DEF Kept
      <3> QED
        BY <3>1, <2>1, <2>2, <2>4 DEF TablesKept
    <2>7. AtomsKept' /\ AtomsUnique' /\ OwnAtomsKnown' /\ NothingWithoutTable'
      BY <2>1, <2>2, <2>4 DEF TablesInv, AtomsKept, AtomsUnique, OwnAtomsKnown, NothingWithoutTable
    <2>8. StageOK' /\ TablesComplete'
      BY <2>1, <2>4 DEF StageOK, TablesComplete
    <2>9. KeywordsKnown'
      BY <2>1 DEF TablesInv, KeywordsKnown
    <2> QED
      BY <2>5, <2>6, <2>7, <2>8, <2>9 DEF TablesInv
  <1> QED
    BY <1>1, <1>2 DEF MakeTable

(* A keyword becomes an atom, in the place of an old one or a new one.     *)
LEMMA InternKeywordStep ==
  ASSUME TablesInv, InternKeyword
  PROVE  TablesInv'
  <1>1. CASE Raise
    BY <1>1, RaiseStep
  <1>2. CASE ~Raise
    <2>1. PICK name \in rest :
            /\ \E at \in Address :
                 /\ Intern(name, at)
                 /\ ownAtoms' = [ownAtoms EXCEPT ![name] = at]
            /\ Onward(name, "bind", Keyword)
            /\ UNCHANGED <<keywordTable, typeTable, schema, found, interrupted>>
      BY <1>2 DEF InternKeyword
    <2>2. PICK at \in Address : Intern(name, at) /\ ownAtoms' = [ownAtoms EXCEPT ![name] = at]
      BY <2>1
    <2>3. stage = "intern" /\ keywordTable # NoTable /\ name \in Keyword /\ rest \subseteq Keyword
      BY <2>1 DEF InternKeyword, TablesInv, StageOK
    <2>4. name \in AnyName /\ name \in OwnName
      BY <2>3 DEF AnyName, OwnName
    <2>5. /\ internal' \in BOOLEAN /\ initializing' \in BOOLEAN
          /\ memory' \in [Address -> {"free", "heap", "arena"}]
          /\ atoms' \subseteq Atom /\ atoms \subseteq atoms'
          /\ [text |-> name, at |-> at] \in atoms'
          /\ AtomsKept' /\ AtomsUnique'
          /\ \A place : Kept(place) => Kept(place)'
      BY <2>2, <2>4, InternStep DEF TablesInv
    <2>6. /\ ownAtoms \in [OwnName -> Address \cup {NULL}]
          /\ ownAtoms' \in [OwnName -> Address \cup {NULL}] /\ ownAtoms'[name] = at /\ at # NULL
          /\ \A n \in OwnName \ {name} : ownAtoms'[n] = ownAtoms[n]
      BY <2>2, <2>4, NullAssumption DEF TablesInv, TablesTypeOK
    <2>7. \/ stage' = "intern" /\ rest' = rest \ {name}
          \/ stage' = "bind" /\ rest = {name} /\ rest' = Keyword
      BY <2>1, <2>3 DEF Onward
    <2>8. TablesTypeOK'
      BY <2>1, <2>3, <2>5, <2>6, <2>7 DEF TablesInv, TablesTypeOK, OwnName, TableOf
    <2>9. TablesKept'
      BY <2>1, <2>5, TablesStay DEF TablesInv
    <2>10. OwnAtomsKnown'
      BY <2>4, <2>5, <2>6 DEF TablesInv, OwnAtomsKnown
    <2>11. NothingWithoutTable'
      BY <2>1, <2>3 DEF NothingWithoutTable
    <2>12. StageOK'
      <3>1. \A n \in Keyword \ rest : ownAtoms[n] # NULL
        BY <2>3 DEF TablesInv, StageOK
      <3>2. \A n \in (Keyword \ rest) \cup {name} : ownAtoms'[n] # NULL
        BY <3>1, <2>3, <2>6 DEF OwnName
      <3> QED
        BY <3>2, <2>1, <2>3, <2>7 DEF StageOK
    <2>13. TablesComplete'
      BY <2>7 DEF TablesComplete
    <2>14. KeywordsKnown'
      BY <2>1 DEF TablesInv, KeywordsKnown
    <2> QED
      BY <2>5, <2>8, <2>9, <2>10, <2>11, <2>12, <2>13, <2>14 DEF TablesInv
  <1> QED
    BY <1>1, <1>2

(* Two names with atoms of their own have different ones.                  *)
LEMMA OwnAtomsDiffer ==
  ASSUME OwnAtomsKnown, NEW m \in OwnName, NEW n \in OwnName, m # n, ownAtoms[m] # NULL, AtomsUnique
  PROVE  ownAtoms[n] # ownAtoms[m]
  BY DEF OwnAtomsKnown, AtomsUnique

(* A keyword is bound in its table.                                        *)
LEMMA BindKeywordStep ==
  ASSUME TablesInv, BindKeyword
  PROVE  TablesInv'
  <1>1. CASE Raise
    BY <1>1, RaiseStep
  <1>2. CASE ~Raise
    <2>1. PICK name \in rest :
            /\ Allocate
            /\ keywordTable' = Put(keywordTable, ownAtoms[name], name)
            /\ Onward(name, "types", TypeName)
            /\ UNCHANGED <<memory, atoms, ownAtoms, typeTable, schema, found, interrupted>>
      BY <1>2 DEF BindKeyword
    <2>2. /\ stage = "bind" /\ keywordTable # NoTable /\ rest \subseteq Keyword /\ name \in Keyword
          /\ \A n \in Keyword : ownAtoms[n] # NULL
          /\ \A n \in Keyword \ rest : IsBound(keywordTable, n)
      BY <2>1 DEF BindKeyword, TablesInv, StageOK
    <2>3. /\ internal' \in BOOLEAN /\ initializing' \in BOOLEAN
          /\ Place \in {"heap", "arena"} /\ (Place = "arena" => internal')
          /\ \A place : Kept(place) => Kept(place)'
      BY <2>1, AllocateKeeps DEF TablesInv
    <2>4. ownAtoms[name] \in Address /\ keywordTable \in TableOf(Keyword) /\ Keyword \subseteq OwnName
      BY <2>2 DEF TablesInv, TablesTypeOK, OwnName
    <2> DEFINE new == [key |-> ownAtoms[name], value |-> name, place |-> Place]
    <2>5. /\ keywordTable' \in TableOf(Keyword) /\ keywordTable'.place = keywordTable.place
          /\ \A b \in keywordTable'.bindings : b \in keywordTable.bindings \/ b = new
          /\ new \in keywordTable'.bindings
          /\ \A b \in keywordTable.bindings : b.key # ownAtoms[name] => b \in keywordTable'.bindings
      BY <2>1, <2>2, <2>3, <2>4, PutStep
    <2>6. keywordTable' # NoTable
      BY <2>5 DEF TableOf, NoTable
    <2>7. \/ stage' = "bind" /\ rest' = rest \ {name}
          \/ stage' = "types" /\ rest = {name} /\ rest' = TypeName
      BY <2>1, <2>2 DEF Onward
    <2>8. TablesTypeOK'
      BY <2>1, <2>2, <2>3, <2>5, <2>7 DEF TablesInv, TablesTypeOK, OwnName, TableOf
    <2>9. TablesKept'
      <3>1. /\ Kept(keywordTable.place)
            /\ \A b \in keywordTable.bindings : Kept(b.place) /\ [text |-> b.value, at |-> b.key] \in atoms
        BY <2>2 DEF TablesInv, TablesKept
      <3>2. [text |-> name, at |-> ownAtoms[name]] \in atoms
        BY <2>2, <2>4 DEF TablesInv, OwnAtomsKnown
      <3>3. Kept(keywordTable.place)'
        BY <3>1, <2>3, <2>5 DEF Kept
      <3>4. \A b \in keywordTable'.bindings : Kept(b.place)' /\ [text |-> b.value, at |-> b.key] \in atoms'
        <4>1. \A b : b = new => Kept(b.place)' /\ [text |-> b.value, at |-> b.key] \in atoms'
          BY <3>2, <2>1, <2>3 DEF Kept
        <4> QED
          BY <3>1, <4>1, <2>1, <2>3, <2>5
      <3>5. typeTable # NoTable => /\ Kept(typeTable.place)'
                                   /\ \A b \in typeTable.bindings : Kept(b.place)' /\ [text |-> b.value, at |-> b.key] \in atoms'
        BY <2>1, <2>3 DEF TablesInv, TablesKept
      <3> QED
        BY <3>3, <3>4, <3>5, <2>1 DEF TablesKept, NoTable
    <2>10. AtomsKept' /\ AtomsUnique' /\ OwnAtomsKnown' /\ NothingWithoutTable'
      BY <2>1, <2>3, <2>6 DEF TablesInv, AtomsKept, AtomsUnique, OwnAtomsKnown, NothingWithoutTable
    <2>11. \A n \in (Keyword \ rest) \cup {name} : IsBound(keywordTable, n)'
      <3> SUFFICES ASSUME NEW n \in (Keyword \ rest) \cup {name} PROVE IsBound(keywordTable, n)'
        OBVIOUS
      <3>1. CASE n = name
        BY <3>1, <2>1, <2>5 DEF IsBound
      <3>2. CASE n # name
        <4>1. PICK b \in keywordTable.bindings : b.key = ownAtoms[n] /\ b.value = n
          BY <3>2, <2>2 DEF IsBound
        <4>2. ownAtoms[n] # ownAtoms[name]
          BY <3>2, <2>2, <2>4, OwnAtomsDiffer DEF TablesInv
        <4> QED
          BY <4>1, <4>2, <2>1, <2>5 DEF IsBound
      <3> QED
        BY <3>1, <3>2
    <2>12. StageOK'
      BY <2>1, <2>2, <2>6, <2>7, <2>11 DEF StageOK, KeywordsBound
    <2>13. TablesComplete'
      BY <2>7 DEF TablesComplete
    <2>14. KeywordsKnown'
      BY <2>1 DEF TablesInv, KeywordsKnown
    <2> QED
      BY <2>8, <2>9, <2>10, <2>12, <2>13, <2>14 DEF TablesInv
  <1> QED
    BY <1>1, <1>2

(* The table of types is made behind that of keywords.                     *)
LEMMA MakeTypesStep ==
  ASSUME TablesInv, MakeTypes
  PROVE  TablesInv'
  <1>1. CASE Raise
    BY <1>1, RaiseStep
  <1>2. CASE ~Raise
    <2>1. /\ stage = "types" /\ Allocate /\ typeTable' = NewTable /\ stage' = "internType"
          /\ UNCHANGED <<memory, atoms, ownAtoms, keywordTable, rest, schema, found, interrupted>>
      BY <1>2 DEF MakeTypes
    <2>2. keywordTable # NoTable /\ rest = TypeName /\ KeywordsBound
      BY <2>1 DEF TablesInv, StageOK
    <2>3. /\ internal' \in BOOLEAN /\ initializing' \in BOOLEAN
          /\ Place \in {"heap", "arena"} /\ (Place = "arena" => internal')
          /\ \A place : Kept(place) => Kept(place)'
      BY <2>1, AllocateKeeps DEF TablesInv
    <2>4. NewTable \in TableOf(TypeName) /\ NewTable # NoTable /\ NewTable.place = Place /\ NewTable.bindings = {}
      BY <2>3 DEF NewTable, NoTable, TableOf
    <2>5. TablesTypeOK'
      BY <2>1, <2>3, <2>4 DEF TablesInv, TablesTypeOK, TableOf
    <2>6. TablesKept'
      <3>1. Kept(typeTable.place)'
        BY <2>1, <2>3, <2>4 DEF Kept
      <3>2. /\ Kept(keywordTable.place)'
            /\ \A b \in keywordTable.bindings : Kept(b.place)' /\ [text |-> b.value, at |-> b.key] \in atoms'
        BY <2>1, <2>2, <2>3 DEF TablesInv, TablesKept
      <3> QED
        BY <3>1, <3>2, <2>1, <2>4 DEF TablesKept
    <2>7. AtomsKept' /\ AtomsUnique' /\ OwnAtomsKnown' /\ NothingWithoutTable'
      BY <2>1, <2>2, <2>3 DEF TablesInv, AtomsKept, AtomsUnique, OwnAtomsKnown, NothingWithoutTable
    <2>8. StageOK' /\ TablesComplete'
      BY <2>1, <2>2, <2>4 DEF StageOK, TablesComplete, KeywordsBound, IsBound
    <2>9. KeywordsKnown'
      BY <2>1 DEF TablesInv, KeywordsKnown
    <2> QED
      BY <2>5, <2>6, <2>7, <2>8, <2>9 DEF TablesInv
  <1> QED
    BY <1>1, <1>2

(* The name of a type becomes an atom.                                     *)
LEMMA InternTypeStep ==
  ASSUME TablesInv, InternType
  PROVE  TablesInv'
  <1>1. CASE Raise
    BY <1>1, RaiseStep
  <1>2. CASE ~Raise
    <2>1. PICK name \in rest :
            /\ \E at \in Address :
                 /\ Intern(name, at)
                 /\ ownAtoms' = [ownAtoms EXCEPT ![name] = at]
            /\ stage' = "bindType"
            /\ UNCHANGED <<keywordTable, typeTable, rest, schema, found, interrupted>>
      BY <1>2 DEF InternType
    <2>2. PICK at \in Address : Intern(name, at) /\ ownAtoms' = [ownAtoms EXCEPT ![name] = at]
      BY <2>1
    <2>3. /\ stage = "internType" /\ keywordTable # NoTable /\ name \in TypeName /\ rest \subseteq TypeName
          /\ KeywordsBound /\ typeTable # NoTable /\ \A n \in TypeName \ rest : IsBound(typeTable, n)
      BY <2>1 DEF InternType, TablesInv, StageOK
    <2>4. name \in AnyName /\ name \in OwnName
      BY <2>3 DEF AnyName, OwnName
    <2>5. /\ internal' \in BOOLEAN /\ initializing' \in BOOLEAN
          /\ memory' \in [Address -> {"free", "heap", "arena"}]
          /\ atoms' \subseteq Atom /\ atoms \subseteq atoms'
          /\ [text |-> name, at |-> at] \in atoms'
          /\ AtomsKept' /\ AtomsUnique'
          /\ \A place : Kept(place) => Kept(place)'
      BY <2>2, <2>4, InternStep DEF TablesInv
    <2>6. /\ ownAtoms' \in [OwnName -> Address \cup {NULL}] /\ ownAtoms'[name] = at
          /\ \A n \in OwnName \ {name} : ownAtoms'[n] = ownAtoms[n]
      BY <2>2, <2>4 DEF TablesInv, TablesTypeOK
    <2>7. TablesTypeOK'
      BY <2>1, <2>5, <2>6 DEF TablesInv, TablesTypeOK, TableOf
    <2>8. TablesKept'
      BY <2>1, <2>5, TablesStay DEF TablesInv
    <2>9. OwnAtomsKnown'
      BY <2>4, <2>5, <2>6 DEF TablesInv, OwnAtomsKnown
    <2>10. NothingWithoutTable'
      BY <2>1, <2>3 DEF NothingWithoutTable
    <2>11. StageOK'
      <3>1. name \notin Keyword /\ name \notin TypeName \ rest /\ Keyword \cup TypeName = OwnName
        BY <2>3, NamesAssumption DEF OwnName
      <3>2. KeywordsBound'
        BY <3>1, <2>1, <2>3, <2>6 DEF KeywordsBound, IsBound
      <3>3. \A n \in TypeName \ rest : IsBound(typeTable, n)'
        BY <3>1, <2>1, <2>3, <2>6 DEF IsBound
      <3> QED
        BY <3>2, <3>3, <2>1, <2>3 DEF StageOK
    <2>12. TablesComplete'
      BY <2>1 DEF TablesComplete
    <2>13. KeywordsKnown'
      BY <2>1 DEF TablesInv, KeywordsKnown
    <2> QED
      BY <2>5, <2>7, <2>8, <2>9, <2>10, <2>11, <2>12, <2>13 DEF TablesInv
  <1> QED
    BY <1>1, <1>2

(* The name of a type is bound in its table.                               *)
LEMMA BindTypeStep ==
  ASSUME TablesInv, BindType
  PROVE  TablesInv'
  <1>1. CASE Raise
    BY <1>1, RaiseStep
  <1>2. CASE ~Raise
    <2>1. PICK name \in rest :
            /\ ownAtoms[name] # NULL
            /\ Allocate
            /\ typeTable' = Put(typeTable, ownAtoms[name], name)
            /\ rest' = rest \ {name}
            /\ stage' = IF rest = {name} THEN "read" ELSE "internType"
            /\ UNCHANGED <<memory, atoms, ownAtoms, keywordTable, schema, found, interrupted>>
      BY <1>2 DEF BindType
    <2>2. /\ stage = "bindType" /\ keywordTable # NoTable /\ typeTable # NoTable
          /\ rest \subseteq TypeName /\ name \in TypeName /\ KeywordsBound
          /\ \A n \in TypeName \ rest : IsBound(typeTable, n)
      BY <2>1 DEF BindType, TablesInv, StageOK
    <2>3. /\ internal' \in BOOLEAN /\ initializing' \in BOOLEAN
          /\ Place \in {"heap", "arena"} /\ (Place = "arena" => internal')
          /\ \A place : Kept(place) => Kept(place)'
      BY <2>1, AllocateKeeps DEF TablesInv
    <2>4. ownAtoms[name] \in Address /\ typeTable \in TableOf(TypeName) /\ TypeName \subseteq OwnName
      BY <2>1, <2>2 DEF TablesInv, TablesTypeOK, OwnName
    <2> DEFINE new == [key |-> ownAtoms[name], value |-> name, place |-> Place]
    <2>5. /\ typeTable' \in TableOf(TypeName) /\ typeTable'.place = typeTable.place
          /\ \A b \in typeTable'.bindings : b \in typeTable.bindings \/ b = new
          /\ new \in typeTable'.bindings
          /\ \A b \in typeTable.bindings : b.key # ownAtoms[name] => b \in typeTable'.bindings
      BY <2>1, <2>2, <2>3, <2>4, PutStep
    <2>6. typeTable' # NoTable
      BY <2>5 DEF TableOf, NoTable
    <2>7. /\ stage' \in {"internType", "read"} /\ rest' = rest \ {name}
          /\ stage' = "read" => rest = {name}
      BY <2>1
    <2>8. TablesTypeOK'
      BY <2>1, <2>3, <2>5, <2>7 DEF TablesInv, TablesTypeOK
    <2>9. TablesKept'
      <3>1. /\ Kept(typeTable.place)
            /\ \A b \in typeTable.bindings : Kept(b.place) /\ [text |-> b.value, at |-> b.key] \in atoms
        BY <2>2 DEF TablesInv, TablesKept
      <3>2. [text |-> name, at |-> ownAtoms[name]] \in atoms
        BY <2>1, <2>2, <2>4 DEF TablesInv, OwnAtomsKnown
      <3>3. Kept(typeTable.place)'
        BY <3>1, <2>3, <2>5 DEF Kept
      <3>4. \A b \in typeTable'.bindings : Kept(b.place)' /\ [text |-> b.value, at |-> b.key] \in atoms'
        <4>1. \A b : b = new => Kept(b.place)' /\ [text |-> b.value, at |-> b.key] \in atoms'
          BY <3>2, <2>1, <2>3 DEF Kept
        <4> QED
          BY <3>1, <4>1, <2>1, <2>3, <2>5
      <3>5. /\ Kept(keywordTable.place)'
            /\ \A b \in keywordTable.bindings : Kept(b.place)' /\ [text |-> b.value, at |-> b.key] \in atoms'
        BY <2>1, <2>2, <2>3 DEF TablesInv, TablesKept
      <3> QED
        BY <3>3, <3>4, <3>5, <2>1 DEF TablesKept
    <2>10. AtomsKept' /\ AtomsUnique' /\ OwnAtomsKnown' /\ NothingWithoutTable'
      BY <2>1, <2>2, <2>3 DEF TablesInv, AtomsKept, AtomsUnique, OwnAtomsKnown, NothingWithoutTable
    <2>11. \A n \in (TypeName \ rest) \cup {name} : IsBound(typeTable, n)'
      <3> SUFFICES ASSUME NEW n \in (TypeName \ rest) \cup {name} PROVE IsBound(typeTable, n)'
        OBVIOUS
      <3>1. CASE n = name
        BY <3>1, <2>1, <2>5 DEF IsBound
      <3>2. CASE n # name
        <4>1. PICK b \in typeTable.bindings : b.key = ownAtoms[n] /\ b.value = n
          BY <3>2, <2>2 DEF IsBound
        <4>2. ownAtoms[n] # ownAtoms[name]
          BY <3>2, <2>1, <2>2, <2>4, OwnAtomsDiffer DEF TablesInv
        <4> QED
          BY <4>1, <4>2, <2>1, <2>5 DEF IsBound
      <3> QED
        BY <3>1, <3>2
    <2>12. KeywordsBound'
      BY <2>1, <2>2 DEF KeywordsBound, IsBound
    <2>13. StageOK' /\ TablesComplete'
      <3>1. \A n \in TypeName \ rest' : IsBound(typeTable, n)'
        BY <2>7, <2>11
      <3>2. stage' = "read" => \A n \in TypeName : IsBound(typeTable, n)'
        BY <3>1, <2>7
      <3> QED
        BY <3>1, <3>2, <2>1, <2>2, <2>6, <2>7, <2>12 DEF StageOK, TablesComplete
    <2>14. KeywordsKnown'
      BY <2>1 DEF TablesInv, KeywordsKnown
    <2> QED
      BY <2>8, <2>9, <2>10, <2>13, <2>14 DEF TablesInv
  <1> QED
    BY <1>1, <1>2

(* Looking a name up adds at most its atom.                                *)
LEMMA LookUpStep ==
  ASSUME TablesInv, NEW name \in AnyName, NEW table, NEW next \in {"readType", "idle"},
         stage \in {"read", "readType"}, LookUp(name, table, next), ~Raise
  PROVE  /\ TablesTypeOK' /\ KeywordsKnown' => TablesInv'
         /\ UNCHANGED <<ownAtoms, keywordTable, typeTable, rest, schema, interrupted>>
         /\ internal' \in BOOLEAN /\ initializing' \in BOOLEAN
         /\ memory' \in [Address -> {"free", "heap", "arena"}]
         /\ atoms' \subseteq Atom
         /\ stage' = next
         /\ AtomsUnique' /\ TablesKept'
         /\ \E at \in Address :
              /\ [text |-> name, at |-> at] \in atoms'
              /\ found' = [by |-> stage, name |-> name, as |-> Got(table, at)]
  <1>1. PICK at \in Address : Intern(name, at) /\ found' = [by |-> stage, name |-> name, as |-> Got(table, at)]
    BY DEF LookUp
  <1>2. stage' = next /\ UNCHANGED <<ownAtoms, keywordTable, typeTable, rest, schema, interrupted>>
    BY DEF LookUp
  <1>3. /\ internal' \in BOOLEAN /\ initializing' \in BOOLEAN
        /\ memory' \in [Address -> {"free", "heap", "arena"}]
        /\ atoms' \subseteq Atom /\ atoms \subseteq atoms'
        /\ [text |-> name, at |-> at] \in atoms'
        /\ AtomsKept' /\ AtomsUnique'
        /\ \A place : Kept(place) => Kept(place)'
    BY <1>1, InternStep DEF TablesInv
  <1>4. keywordTable # NoTable
    BY DEF TablesInv, StageOK
  <1>5. TablesKept'
    BY <1>2, <1>3, TablesStay DEF TablesInv
  <1>6. OwnAtomsKnown' /\ NothingWithoutTable'
    BY <1>2, <1>3, <1>4 DEF TablesInv, OwnAtomsKnown, NothingWithoutTable
  <1>7. StageOK' /\ TablesComplete'
    BY <1>2, <1>4 DEF TablesInv, StageOK, TablesComplete, KeywordsBound, IsBound
  <1> QED
    BY <1>1, <1>2, <1>3, <1>5, <1>6, <1>7 DEF TablesInv

(* A name of the schema is read with the tables there are.                 *)
LEMMA ReadStep ==
  ASSUME TablesInv, Read
  PROVE  TablesInv'
  <1>1. CASE Raise
    BY <1>1, RaiseStep
  <1>2. CASE ~Raise
    <2> DEFINE name == schema.name
    <2>1. name \in AnyName /\ stage = "read" /\ LookUp(name, keywordTable, "readType")
      BY DEF Read, TablesInv, TablesTypeOK
    <2>2. keywordTable # NoTable /\ keywordTable \in TableOf(Keyword)
      BY <2>1 DEF TablesInv, StageOK, TablesTypeOK
    <2>3. /\ TablesTypeOK' /\ KeywordsKnown' => TablesInv'
          /\ UNCHANGED <<ownAtoms, keywordTable, typeTable, rest, schema, interrupted>>
          /\ internal' \in BOOLEAN /\ initializing' \in BOOLEAN
          /\ memory' \in [Address -> {"free", "heap", "arena"}]
          /\ atoms' \subseteq Atom
          /\ stage' = "readType"
          /\ AtomsUnique' /\ TablesKept'
      BY <1>2, <2>1, LookUpStep
    <2>4. PICK at \in Address :
            /\ [text |-> name, at |-> at] \in atoms'
            /\ found' = [by |-> "read", name |-> name, as |-> Got(keywordTable, at)]
      BY <1>2, <2>1, LookUpStep
    <2>5. \A b \in keywordTable.bindings : [text |-> b.value, at |-> b.key] \in atoms'
      BY <2>2, <2>3 DEF TablesKept
    <2>6. /\ (\E b \in keywordTable.bindings : b.value = name) => Got(keywordTable, at) = name
          /\ (\A b \in keywordTable.bindings : b.value # name) => Got(keywordTable, at) = NULL
      BY <2>3, <2>4, <2>5, GotIs DEF AtomsUnique
    <2>7. \A b \in keywordTable.bindings : b.value \in Keyword
      BY <2>2 DEF TableOf
    <2>8. Got(keywordTable, at) \in OwnName \cup {NULL}
      BY <2>6, <2>7 DEF OwnName
    <2>9. TablesTypeOK'
      BY <2>1, <2>3, <2>4, <2>8 DEF TablesInv, TablesTypeOK, TableOf
    <2>10. KeywordsKnown'
      <3>1. ~interrupted /\ name \in Keyword => \E b \in keywordTable.bindings : b.value = name
        BY <2>1, <2>2 DEF TablesInv, TablesComplete, KeywordsBound, IsBound
      <3> QED
        BY <3>1, <2>3, <2>4, <2>6, <2>7 DEF KeywordsKnown
    <2> QED
      BY <2>3, <2>9, <2>10
  <1> QED
    BY <1>1, <1>2

(* A type of the schema is read with the table there is.                   *)
LEMMA ReadTypeStep ==
  ASSUME TablesInv, ReadType
  PROVE  TablesInv'
  <1>1. CASE Raise
    BY <1>1, RaiseStep
  <1>2. CASE ~Raise
    <2> DEFINE name == schema.type
    <2>1. name \in AnyName /\ stage = "readType" /\ typeTable # NoTable /\ LookUp(name, typeTable, "idle")
      BY DEF ReadType, TablesInv, TablesTypeOK
    <2>2. keywordTable # NoTable /\ typeTable \in TableOf(TypeName)
      BY <2>1 DEF TablesInv, StageOK, TablesTypeOK
    <2>3. /\ TablesTypeOK' /\ KeywordsKnown' => TablesInv'
          /\ UNCHANGED <<ownAtoms, keywordTable, typeTable, rest, schema, interrupted>>
          /\ internal' \in BOOLEAN /\ initializing' \in BOOLEAN
          /\ memory' \in [Address -> {"free", "heap", "arena"}]
          /\ atoms' \subseteq Atom
          /\ stage' = "idle"
          /\ AtomsUnique' /\ TablesKept'
      BY <1>2, <2>1, LookUpStep
    <2>4. PICK at \in Address :
            /\ [text |-> name, at |-> at] \in atoms'
            /\ found' = [by |-> "readType", name |-> name, as |-> Got(typeTable, at)]
      BY <1>2, <2>1, LookUpStep
    <2>5. \A b \in typeTable.bindings : [text |-> b.value, at |-> b.key] \in atoms'
      BY <2>1, <2>3 DEF TablesKept
    <2>6. /\ (\E b \in typeTable.bindings : b.value = name) => Got(typeTable, at) = name
          /\ (\A b \in typeTable.bindings : b.value # name) => Got(typeTable, at) = NULL
      BY <2>3, <2>4, <2>5, GotIs DEF AtomsUnique
    <2>7. \A b \in typeTable.bindings : b.value \in TypeName
      BY <2>2 DEF TableOf
    <2>8. Got(typeTable, at) \in OwnName \cup {NULL}
      BY <2>6, <2>7 DEF OwnName
    <2>9. TablesTypeOK'
      BY <2>1, <2>3, <2>4, <2>8 DEF TablesInv, TablesTypeOK, TableOf
    <2>10. KeywordsKnown'
      <3>1. ~interrupted /\ name \in TypeName => \E b \in typeTable.bindings : b.value = name
        BY <2>1, <2>2 DEF TablesInv, TablesComplete, IsBound
      <3> QED
        BY <3>1, <2>3, <2>4, <2>6, <2>7 DEF KeywordsKnown
    <2> QED
      BY <2>3, <2>9, <2>10
  <1> QED
    BY <1>1, <1>2

(* There is no table of types to read from.                                *)
LEMMA NoTypesStep ==
  ASSUME TablesInv, NoTypes
  PROVE  TablesInv'
  <1>1. /\ stage = "readType" /\ typeTable = NoTable /\ stage' = "idle"
        /\ found' = [by |-> "readType", name |-> schema.type, as |-> NULL]
        /\ UNCHANGED <<internal, initializing, memory, atoms, ownAtoms, keywordTable, typeTable, rest, schema, interrupted>>
    BY DEF NoTypes, process, tables
  <1>2. keywordTable # NoTable /\ interrupted /\ schema.type \in AnyName
    BY <1>1 DEF TablesInv, StageOK, TablesComplete, TablesTypeOK
  <1>3. TablesTypeOK'
    BY <1>1, <1>2 DEF TablesInv, TablesTypeOK, TableOf
  <1>4. TablesKept' /\ AtomsKept' /\ AtomsUnique' /\ OwnAtomsKnown' /\ NothingWithoutTable'
    BY <1>1 DEF TablesInv, TablesKept, AtomsKept, AtomsUnique, OwnAtomsKnown, NothingWithoutTable, Kept
  <1>5. StageOK' /\ TablesComplete'
    BY <1>1, <1>2 DEF StageOK, TablesComplete
  <1>6. KeywordsKnown'
    BY <1>1, <1>2 DEF KeywordsKnown
  <1> QED
    BY <1>3, <1>4, <1>5, <1>6 DEF TablesInv

(* The internal arena goes, with the tables and atoms in it.               *)
LEMMA FreeAllStep ==
  ASSUME TablesInv, FreeAll
  PROVE  TablesInv'
  <1>1. /\ stage = "idle" /\ internal' = FALSE /\ found' = NULL /\ interrupted' = FALSE
        /\ memory' = [a \in Address |-> IF memory[a] = "arena" THEN "free" ELSE memory[a]]
        /\ UNCHANGED <<initializing, stage, rest, schema>>
    BY DEF FreeAll
  <1>2. /\ keywordTable' = NoTable /\ typeTable' = NoTable /\ atoms' = {}
        /\ ownAtoms' \in [OwnName -> Address \cup {NULL}]
        /\ \A n \in OwnName : ownAtoms'[n] = NULL
    BY DEF FreeAll, Cleared, tables, TablesInv, NothingWithoutTable, OwnAtomsKnown, TablesTypeOK
  <1>3. TablesTypeOK'
    BY <1>1, <1>2 DEF TablesInv, TablesTypeOK, TableOf
  <1>4. TablesKept' /\ AtomsKept' /\ AtomsUnique' /\ OwnAtomsKnown' /\ NothingWithoutTable'
    BY <1>2 DEF TablesKept, AtomsKept, AtomsUnique, OwnAtomsKnown, NothingWithoutTable
  <1>5. StageOK' /\ TablesComplete' /\ KeywordsKnown'
    BY <1>1, <1>2 DEF StageOK, TablesComplete, KeywordsKnown
  <1> QED
    BY <1>3, <1>4, <1>5 DEF TablesInv

---------------------------------------------------------------------------
(* The theorems.                                                           *)

(* The invariant holds from the start of the process to its end.           *)
THEOREM TablesSound == TablesSpec => []TablesInv
  <1>1. TablesInit => TablesInv
    BY NullAssumption
    DEF TablesInit, TablesInv, TablesTypeOK, TablesKept, AtomsKept, AtomsUnique, OwnAtomsKnown,
        NothingWithoutTable, StageOK, TablesComplete, KeywordsKnown, AnyName, OwnName
  <1>2. TablesInv /\ [TablesNext]_tablesVars => TablesInv'
    <2> SUFFICES ASSUME TablesInv, [TablesNext]_tablesVars PROVE TablesInv'
      OBVIOUS
    <2>1. CASE UNCHANGED tablesVars
      BY <2>1
      DEF tablesVars, process, tables, TablesInv, TablesTypeOK, TablesKept, AtomsKept, AtomsUnique, OwnAtomsKnown,
          NothingWithoutTable, StageOK, TablesComplete, KeywordsKnown, KeywordsBound, IsBound, Kept, TableOf
    <2>2. CASE TablesNext
      BY <2>2, CompileStep, MakeTableStep, InternKeywordStep, BindKeywordStep, MakeTypesStep, InternTypeStep,
         BindTypeStep, ReadStep, ReadTypeStep, NoTypesStep, FreeAllStep
      DEF TablesNext
    <2> QED
      BY <2>1, <2>2
  <1> QED
    BY <1>1, <1>2, PTL DEF TablesSpec

(* Whatever the process reaches from its statics lies in memory it still   *)
(* has, equal names are one atom, and nothing is forgotten.                *)
THEOREM TablesStayAlive == TablesSpec => []TablesAlive
  <1>1. TablesInv => TablesAlive
    <2> SUFFICES ASSUME TablesInv PROVE TablesAlive
      OBVIOUS
    <2>1. \A a \in atoms : a.at \in Address /\ Kept(memory[a.at])
      BY DEF TablesInv, TablesTypeOK, Atom, AtomsKept
    <2> QED
      BY <2>1 DEF TablesInv, TablesAlive, AtomsUnique, OwnAtomsKnown, TablesKept, NothingWithoutTable
  <1> QED
    BY <1>1, TablesSound, PTL

(* A schema's keywords and types are recognised, unless a failure left the *)
(* tables half built.                                                      *)
THEOREM KeywordsAreKnown == TablesSpec => []KeywordsKnown
  <1>1. TablesInv => KeywordsKnown
    BY DEF TablesInv
  <1> QED
    BY <1>1, TablesSound, PTL
=============================================================================
