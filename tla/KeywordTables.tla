---------------------------- MODULE KeywordTables ---------------------------
(***************************************************************************)
(* What the library keeps for the whole process beside the shape tree: the *)
(* internal arena (src/src/comm/utils/mem.c), the atoms in it (atom.c),    *)
(* which stand for equal strings by one address, and the tables that map   *)
(* the addresses of keywords and type names to what schema.c knows of them *)
(* (table.c).  The first schema compiled builds the tables, any allocation *)
(* may raise, and jsonv_free_all takes everything back for a new start.    *)
(*                                                                         *)
(* Only the addresses of atoms are compared, so only atoms have them here; *)
(* of a table and its bindings it matters which memory they lie in.  What  *)
(* a bucket of a hash table holds is told apart by full comparison, so a   *)
(* table is a set.  The order in which the names of an array are taken is  *)
(* left open.                                                              *)
(***************************************************************************)
CONSTANTS
  Keyword,     \* the keywords, and
  TypeName,    \* the names of types: kw_strings and type_mappings
  OtherName,   \* further names schemas use
  Address,     \* where atoms can lie
  NULL

ASSUME NamesAssumption ==
  /\ Keyword # {} /\ TypeName # {}
  /\ Keyword \cap TypeName = {} /\ (Keyword \cup TypeName) \cap OtherName = {}

ASSUME NullAssumption == NULL \notin Keyword \cup TypeName \cup Address

VARIABLES
  internal,       \* there is a jsonv_internal_arena
  initializing,   \* initializing_arena
  memory,         \* what an address belongs to
  atoms,          \* the atoms in the buckets
  ownAtoms,       \* kw_atoms and type_atoms
  keywordTable,
  typeTable,
  stage,          \* where the compilation under way is, and
  rest,           \* the names still to be done there
  schema,         \* the keyword and the type of the schema compiled
  found,          \* what the last name looked up is known as
  interrupted     \* a raise has left the tables half built; not in the code

process    == <<internal, initializing, memory>>
tables     == <<atoms, ownAtoms, keywordTable, typeTable>>
tablesVars == <<process, tables, stage, rest, schema, found, interrupted>>

OwnName == Keyword \cup TypeName
AnyName == OwnName \cup OtherName

---------------------------------------------------------------------------
(* Memory.                                                                 *)

\* get_internal_arena creates the arena unless it once failed to.
Place == IF internal \/ ~initializing THEN "arena" ELSE "heap"

Allocate == internal' = (Place = "arena") /\ UNCHANGED initializing

IsBuilding == stage \in {"intern", "bind", "types", "internType", "bindType"}

(* No memory: the compilation is left where it is.                         *)
Raise ==
  /\ stage' = "idle"
  /\ initializing' = ~internal
  /\ interrupted' = (interrupted \/ IsBuilding)
  /\ UNCHANGED <<internal, memory, tables, rest, schema, found>>

NoTable  == [place |-> "none", bindings |-> {}]   \* a null pointer
NewTable == [place |-> Place, bindings |-> {}]

AtomsOf(name) == {a \in atoms : a.text = name}

Intern_Always(name, at) ==
  /\ memory[at] = "free"
  /\ Allocate
  /\ memory' = [memory EXCEPT ![at] = Place]
  /\ atoms' = atoms \cup {[text |-> name, at |-> at]}

(* atom_new: the atom there is, or a new one at an address that was free.  *)
Intern(name, at) ==
  \/ /\ \E a \in AtomsOf(name) : at = a.at
     /\ UNCHANGED <<process, atoms>>
  \/ /\ AtomsOf(name) = {}
     /\ memory[at] = "free"
     /\ Allocate
     /\ memory' = [memory EXCEPT ![at] = Place]
     /\ atoms' = atoms \cup {[text |-> name, at |-> at]}

\* table_put and table_get compare addresses.
Put(table, key, value) ==
  [table EXCEPT !.bindings = {b \in @ : b.key # key} \cup {[key |-> key, value |-> value, place |-> Place]}]

Got(table, key) ==
  LET bound == {b \in table.bindings : b.key = key}
  IN  IF bound = {} THEN NULL ELSE (CHOOSE b \in bound : TRUE).value

---------------------------------------------------------------------------
(* Compiling a schema: init_keyword_table, then the names in the schema.   *)

Compile ==
  /\ stage = "idle"
  /\ stage' = IF keywordTable = NoTable THEN "table" ELSE "read"
  /\ schema' \in [name : AnyName, type : AnyName]
  /\ found' = NULL
  /\ UNCHANGED <<process, tables, rest, interrupted>>

MakeTable ==
  /\ stage = "table"
  /\ \/ Raise
     \/ /\ Allocate
        /\ keywordTable' = NewTable
        /\ stage' = "intern"
        /\ rest' = Keyword
        /\ UNCHANGED <<memory, atoms, ownAtoms, typeTable, schema, found, interrupted>>

\* On with the next name, or to the next stage with its names.
Onward(name, next, names) ==
  \/ rest # {name} /\ rest' = rest \ {name} /\ UNCHANGED stage
  \/ rest = {name} /\ rest' = names /\ stage' = next

InternKeyword ==
  /\ stage = "intern"
  /\ \E name \in rest :
       \/ AtomsOf(name) = {} /\ Raise
       \/ /\ \E at \in Address :
               /\ Intern(name, at)
               /\ ownAtoms' = [ownAtoms EXCEPT ![name] = at]
          /\ Onward(name, "bind", Keyword)
          /\ UNCHANGED <<keywordTable, typeTable, schema, found, interrupted>>

(* Each name is bound once in a new table, so a binding is always made.    *)
BindKeyword ==
  /\ stage = "bind"
  /\ \/ Raise
     \/ \E name \in rest :
          /\ Allocate
          /\ keywordTable' = Put(keywordTable, ownAtoms[name], name)
          /\ Onward(name, "types", TypeName)
          /\ UNCHANGED <<memory, atoms, ownAtoms, typeTable, schema, found, interrupted>>

MakeTypes ==
  /\ stage = "types"
  /\ \/ Raise
     \/ /\ Allocate
        /\ typeTable' = NewTable
        /\ stage' = "internType"
        /\ UNCHANGED <<memory, atoms, ownAtoms, keywordTable, rest, schema, found, interrupted>>

InternType ==
  /\ stage = "internType"
  /\ \E name \in rest :
       \/ AtomsOf(name) = {} /\ Raise
       \/ /\ \E at \in Address :
               /\ Intern(name, at)
               /\ ownAtoms' = [ownAtoms EXCEPT ![name] = at]
          /\ stage' = "bindType"
          /\ UNCHANGED <<keywordTable, typeTable, rest, schema, found, interrupted>>

\* The type bound is the one whose atom was just made.
BindType ==
  /\ stage = "bindType"
  /\ \/ Raise
     \/ \E name \in rest :
          /\ ownAtoms[name] # NULL
          /\ Allocate
          /\ typeTable' = Put(typeTable, ownAtoms[name], name)
          /\ rest' = rest \ {name}
          /\ stage' = IF rest = {name} THEN "read" ELSE "internType"
          /\ UNCHANGED <<memory, atoms, ownAtoms, keywordTable, schema, found, interrupted>>

(* A name of the schema becomes an atom, and the table is asked for it.    *)
LookUp(name, table, next) ==
  \/ AtomsOf(name) = {} /\ Raise
  \/ /\ \E at \in Address :
          /\ Intern(name, at)
          /\ found' = [by |-> stage, name |-> name, as |-> Got(table, at)]
     /\ stage' = next
     /\ UNCHANGED <<ownAtoms, keywordTable, typeTable, rest, schema, interrupted>>

Read == stage = "read" /\ LookUp(schema.name, keywordTable, "readType")

ReadType == stage = "readType" /\ typeTable # NoTable /\ LookUp(schema.type, typeTable, "idle")

(* Without a table of types none is looked up.                             *)
NoTypes ==
  /\ stage = "readType"
  /\ typeTable = NoTable
  /\ found' = [by |-> stage, name |-> schema.type, as |-> NULL]
  /\ stage' = "idle"
  /\ UNCHANGED <<process, tables, rest, schema, interrupted>>

---------------------------------------------------------------------------
(* Taking everything back.                                                 *)

Cleared_AtomsKept ==
  \/ keywordTable = NoTable /\ UNCHANGED tables
  \/ /\ keywordTable # NoTable
     /\ keywordTable' = NoTable /\ typeTable' = NoTable
     /\ ownAtoms' = [n \in OwnName |-> NULL]
     /\ UNCHANGED atoms

(* jsonv_schema_clear_static_tables, which does nothing without a table.   *)
Cleared ==
  \/ keywordTable = NoTable /\ UNCHANGED tables
  \/ /\ keywordTable # NoTable
     /\ keywordTable' = NoTable /\ typeTable' = NoTable
     /\ ownAtoms' = [n \in OwnName |-> NULL]
     /\ atoms' = {}

(* jsonv_free_all, between compilations.  What was taken from the heap is  *)
(* never given back.                                                       *)
FreeAll ==
  /\ stage = "idle"
  /\ Cleared
  /\ internal' = FALSE
  /\ memory' = [a \in Address |-> IF memory[a] = "arena" THEN "free" ELSE memory[a]]
  /\ found' = NULL
  /\ interrupted' = FALSE
  /\ UNCHANGED <<initializing, stage, rest, schema>>

TablesInit ==
  /\ internal = FALSE /\ initializing = FALSE
  /\ memory = [a \in Address |-> "free"]
  /\ atoms = {}
  /\ ownAtoms = [n \in OwnName |-> NULL]
  /\ keywordTable = NoTable /\ typeTable = NoTable
  /\ stage = "idle"
  /\ rest = {}
  /\ schema \in [name : AnyName, type : AnyName]
  /\ found = NULL
  /\ interrupted = FALSE

TablesNext ==
  \/ Compile
  \/ MakeTable
  \/ InternKeyword
  \/ BindKeyword
  \/ MakeTypes
  \/ InternType
  \/ BindType
  \/ Read
  \/ ReadType
  \/ NoTypes
  \/ FreeAll

TablesSpec == TablesInit /\ [][TablesNext]_tablesVars

---------------------------------------------------------------------------
(* Properties.                                                             *)

\* The memory something was made in is still there.
Kept(place) == place = "heap" \/ (place = "arena" /\ internal)

(* Everything reached from the process's variables lies in memory that was *)
(* not taken back, an atom is the only one of its string and of its        *)
(* address, the tables' keys are the atoms of the names they stand for,    *)
(* and without a table there are no atoms left: the early return of        *)
(* jsonv_schema_clear_static_tables forgets nothing.                       *)
TablesAlive ==
  /\ \A a \in atoms : a.at \in Address /\ Kept(memory[a.at])
  /\ \A a, b \in atoms : a.text = b.text \/ a.at = b.at => a = b
  /\ \A n \in OwnName : ownAtoms[n] # NULL => [text |-> n, at |-> ownAtoms[n]] \in atoms
  /\ \A t \in {keywordTable, typeTable} \ {NoTable} :
       /\ Kept(t.place)
       /\ \A b \in t.bindings : Kept(b.place) /\ [text |-> b.value, at |-> b.key] \in atoms
  /\ keywordTable = NoTable => typeTable = NoTable /\ atoms = {}

(* A schema's keywords and types are known as what they are, and no other  *)
(* name is known as one, however often everything was freed in between;    *)
(* only tables a failure left half built may lack some.                    *)
KeywordsKnown ==
  found # NULL =>
    LET names == IF found.by = "read" THEN Keyword ELSE TypeName IN
      \/ found.as = IF found.name \in names THEN found.name ELSE NULL
      \/ found.as = NULL /\ interrupted
=============================================================================
