----------------------------- MODULE ShapeTree ------------------------------
(***************************************************************************)
(* The shape tree all threads share, src/src/shape/shape.c, and the        *)
(* objects built on it, src/src/shape/obj.c.                               *)
(*                                                                         *)
(* A shape is the list of an object's keys, as a path from the root; adding *)
(* a key follows or makes a transition, under one mutex.  Reading a shape  *)
(* takes no lock.  Shapes are numbered in the order they are made, and 0   *)
(* is the null pointer.  A shape does not hold its key but a pointer to    *)
(* it, into memory of the caller: `content` says what is written there.    *)
(* Each thread works on one object, whose arrays are its own.              *)
(***************************************************************************)
EXTENDS Cells, FiniteSetsExt

CONSTANTS
  Thread,
  Name,           \* the names of properties
  Value,
  NULL,
  KeyCells        \* how many keys the arena of each thread has room for

ASSUME KeyCellsAssumption == KeyCells \in [Thread -> Nat]
ASSUME NullAssumption ==
  NULL \notin Name /\ NULL \notin Value /\ NULL \notin Thread

\* The memory a thread's arena keeps its keys in.
Cell == UNION {{t} \X (1 .. KeyCells[t]) : t \in Thread}

\* What an object is, and what it may hold.
Object == [shape : Nat, slots : Seq(Value \cup {Undefined})]

ASSUME NullPointerAssumption ==
  /\ NULL \notin Cell
  /\ NULL \notin Object
  /\ NULL \notin [Name -> Value \cup {Undefined, NULL}]

VARIABLES
  shapes,    \* the shapes of the global shape arena, in order of creation
  root,      \* the root shape, 0 before shape_root
  mutex,     \* the thread inside shape_mutex, NULL, or Lost
  content,   \* the name written in a cell
  used,      \* how many cells each arena has handed out since its last reset
  obj,       \* each thread's object, or NULL
  call,      \* each thread's call
  status     \* how the process ended, or "running"

shapeVars == <<shapes, root, mutex, content, used, obj, call, status>>

\* The mutex is locked and the code that would unlock it was jumped out of.
Lost == "lost"

IdleCall == [step |-> "idle", key |-> NULL, value |-> NULL, shape |-> 0]

Running == status = "running"
At(t, step) == Running /\ call[t].step = step

Goto(t, step) == call' = [call EXCEPT ![t].step = step]
Return(t)     == call' = [call EXCEPT ![t] = IdleCall]
Crash(how)    == status' = how /\ UNCHANGED <<shapes, root, mutex, content, used, obj, call>>

---------------------------------------------------------------------------
(* Reading the tree.                                                       *)

(* shape_lookup_slot: from shape s towards the root, -1 when no key on the *)
(* way reads n in `names`.  A parent is always made before its child.      *)
SlotsIn(tree, names, n) ==
  LET slot[i \in 0 .. Len(tree)] ==
        IF i = 0 \/ tree[i].key = NULL THEN -1
        ELSE IF names[tree[i].key] = n THEN tree[i].slot
        ELSE slot[tree[i].parent]
  IN  slot

LookupSlot(names, s, n) == SlotsIn(shapes, names, n)[s]

SlotOf(s, n) == LookupSlot(content, s, n)

(* shape_get_key_at: the key that was given the slot, for each shape; NULL *)
(* stands for the "?" of a slot a shape does not have.                     *)
KeysIn(tree, slot) ==
  LET key[i \in 0 .. Len(tree)] ==
        IF i = 0 THEN NULL
        ELSE IF tree[i].slot = slot THEN tree[i].key
        ELSE key[tree[i].parent]
  IN  key

KeyAt(s, slot) == KeysIn(shapes, slot)[s]

(* find_transition_no_lock: the newest transition for n, 0 when none.      *)
Follow(s, n) ==
  LET ts      == shapes[s].transitions
      matches == {i \in 1 .. Len(ts) : content[ts[i].key] = n}
  IN  IF matches = {} THEN 0 ELSE ts[Min(matches)].next

(* obj_get.                                                                *)
Get(o, n) ==
  IF SlotOf(o.shape, n) = -1 THEN NULL ELSE o.slots[SlotOf(o.shape, n) + 1]

---------------------------------------------------------------------------
(* obj_new, with shape_root.                                               *)

NewObject(t) ==
  /\ At(t, "idle")
  /\ obj[t] = NULL
  /\ Goto(t, "lockRoot")
  /\ UNCHANGED <<shapes, root, mutex, content, used, obj, status>>

Lock(t, from, to) ==
  /\ At(t, from)
  /\ mutex = NULL
  /\ mutex' = t
  /\ Goto(t, to)
  /\ UNCHANGED <<shapes, root, content, used, obj, status>>

RootShape == [parent |-> 0, key |-> NULL, slot |-> -1, count |-> 0, transitions |-> <<>>]

(* Making the shape arena or allocating from it can raise, and then the    *)
(* mutex is never unlocked.                                                *)
RaiseInLock(t) ==
  /\ mutex' = Lost
  /\ Return(t)
  /\ UNCHANGED <<shapes, root, content, used, obj, status>>

RootSection(t) ==
  /\ At(t, "inRoot")
  /\ \/ /\ \/ root # 0 /\ UNCHANGED <<shapes, root>>
           \/ /\ root = 0
              /\ shapes' = Append(shapes, RootShape)
              /\ root' = Len(shapes')
           \/ root = 0 /\ UNCHANGED <<shapes, root>>
        /\ mutex' = NULL
        /\ Goto(t, "gotRoot")
        /\ UNCHANGED <<content, used, obj, status>>
     \/ root = 0 /\ RaiseInLock(t)

(* `return root` reads the variable again, outside the lock.               *)
ReadRoot(t) ==
  /\ At(t, "gotRoot")
  /\ obj' = [obj EXCEPT ![t] = [shape |-> root, slots |-> <<>>]]
  /\ Return(t)
  /\ UNCHANGED <<shapes, root, mutex, content, used, status>>

---------------------------------------------------------------------------
(* obj_set, with shape_transition_add.                                     *)

(* The key is copied into the thread's arena and looked for; a property    *)
(* the object has is overwritten.                                          *)
SetProperty(t, n, v) ==
  /\ At(t, "idle")
  /\ obj[t] # NULL
  /\ used[t] < KeyCells[t]
  /\ used' = [used EXCEPT ![t] = @ + 1]
  /\ LET key   == <<t, used[t] + 1>>
         names == [content EXCEPT ![key] = n]
         slot  == LookupSlot(names, obj[t].shape, n) IN
       /\ content' = names
       /\ \/ /\ slot = -1
             /\ call' = [call EXCEPT ![t] =
                           [step |-> "lockSet", key |-> key, value |-> v, shape |-> 0]]
             /\ UNCHANGED obj
          \/ /\ slot # -1
             /\ obj' = [obj EXCEPT ![t].slots[slot + 1] = v]
             /\ UNCHANGED call
  /\ UNCHANGED <<shapes, root, mutex, status>>

ChildOf(s, key) ==
  [parent |-> s, key |-> key, slot |-> shapes[s].count, count |-> shapes[s].count + 1,
   transitions |-> <<>>]

Linked(tree, s, key, child) ==
  [tree EXCEPT ![s].transitions = <<[key |-> key, next |-> child]>> \o @]

Added(t, shape) ==
  /\ mutex' = NULL
  /\ call' = [call EXCEPT ![t].step = "gotShape", ![t].shape = shape]
  /\ UNCHANGED <<root, content, used, obj, status>>

NotAdded_Locked(t) ==
  /\ Return(t)
  /\ UNCHANGED <<shapes, root, mutex, content, used, obj, status>>

(* No memory for the child: the property is silently not set.              *)
NotAdded(t) ==
  /\ mutex' = NULL
  /\ Return(t)
  /\ UNCHANGED <<shapes, root, content, used, obj, status>>

(* The child and its transition, or the child alone when there is no       *)
(* memory for the transition.                                              *)
MakeChild(t, s, key) ==
  LET child == Len(shapes) + 1
      tree  == Append(shapes, ChildOf(s, key)) IN
    /\ shapes' \in {tree, Linked(tree, s, key, child)}
    /\ Added(t, child)

TransitionAdd_Blind(t) ==
  /\ At(t, "inSet")
  /\ LET s == obj[t].shape IN
       \/ s = 0 /\ Crash("nullRead")
       \/ s # 0 /\ (MakeChild(t, s, call[t].key) \/ NotAdded(t) \/ RaiseInLock(t))

TransitionAdd(t) ==
  /\ At(t, "inSet")
  /\ LET s   == obj[t].shape
         key == call[t].key IN
       \/ s = 0 /\ Crash("nullRead")
       \/ /\ s # 0 /\ Follow(s, content[key]) # 0
          /\ Added(t, Follow(s, content[key]))
          /\ UNCHANGED shapes
       \/ /\ s # 0 /\ Follow(s, content[key]) = 0
          /\ MakeChild(t, s, key) \/ NotAdded(t) \/ RaiseInLock(t)

(* The object takes its new shape before it has the slot for it.  When the *)
(* arena refuses more slots the value is written past those there are;     *)
(* when it raises, the conversion that builds the object gives it up.      *)
SetSlot(t) ==
  /\ At(t, "gotShape")
  /\ LET o      == obj[t]
         needed == shapes[call[t].shape].count
         slots  == WithRoom(o.slots, needed) IN
       \/ /\ obj' = [obj EXCEPT ![t] = [shape |-> call[t].shape,
                                        slots |-> [slots EXCEPT ![needed] = call[t].value]]]
          /\ Return(t)
          /\ UNCHANGED <<shapes, root, mutex, content, used, status>>
       \/ Len(o.slots) < needed /\ Crash("writePastSlots")
       \/ /\ Len(o.slots) < needed
          /\ obj' = [obj EXCEPT ![t] = NULL]
          /\ Return(t)
          /\ UNCHANGED <<shapes, root, mutex, content, used, status>>

---------------------------------------------------------------------------
(* The end of objects, of the tree, and of an arena.                       *)

DropObject(t) ==
  /\ At(t, "idle")
  /\ obj' = [obj EXCEPT ![t] = NULL]
  /\ UNCHANGED <<shapes, root, mutex, content, used, call, status>>

(* jsonv_shape_clear_global_arena, called when no object is left.          *)
ClearShapes ==
  /\ Running
  /\ mutex = NULL
  /\ \A t \in Thread : obj[t] = NULL /\ call[t].step = "idle"
  /\ shapes' = <<>>
  /\ root' = 0
  /\ UNCHANGED <<mutex, content, used, obj, call, status>>

(* jsonv_ctx_reset of a context on the thread's arena: its objects are     *)
(* gone, and the memory of its keys will be written again.                 *)
ResetArena(t) ==
  /\ At(t, "idle")
  /\ obj' = [obj EXCEPT ![t] = NULL]
  /\ used' = [used EXCEPT ![t] = 0]
  /\ UNCHANGED <<shapes, root, mutex, content, call, status>>

---------------------------------------------------------------------------
ShapeInit ==
  /\ shapes = <<>>
  /\ root = 0
  /\ mutex = NULL
  /\ content = [c \in Cell |-> NULL]
  /\ used = [t \in Thread |-> 0]
  /\ obj = [t \in Thread |-> NULL]
  /\ call = [t \in Thread |-> IdleCall]
  /\ status = "running"

\* A thread inside a call takes its next step.
Step(t) ==
  \/ Lock(t, "lockRoot", "inRoot")
  \/ RootSection(t)
  \/ ReadRoot(t)
  \/ Lock(t, "lockSet", "inSet")
  \/ TransitionAdd(t)
  \/ SetSlot(t)

ShapeNext ==
  \/ \E t \in Thread :
       \/ NewObject(t)
       \/ \E n \in Name, v \in Value : SetProperty(t, n, v)
       \/ Step(t)
       \/ DropObject(t)
  \/ ClearShapes

(* The shapes as long as every key outlives the tree: keys that are string *)
(* literals, or in arenas that are never reset.  A thread inside a call is *)
(* scheduled; one that waits for the mutex may wait forever, since POSIX   *)
(* promises no order among the waiting.                                    *)
ShapeSpec ==
  /\ ShapeInit /\ [][ShapeNext]_shapeVars
  /\ \A t \in Thread : WF_shapeVars(Step(t))

\* The same with arenas that are reset.
ResetSpec == ShapeInit /\ [][ShapeNext \/ \E t \in Thread : ResetArena(t)]_shapeVars

---------------------------------------------------------------------------
(* Properties.                                                             *)

ShapeId == 0 .. Len(shapes)

(* Two threads that add the same key to the same shape end up on the same  *)
(* shape: a shape never has two transitions for one name.  The slots along *)
(* a path are 0, 1, 2, ... and its names are distinct, so the slot of a    *)
(* property never moves while its object grows; and jsonv_obj_key_at has   *)
(* for each slot a key that leads back to it.                              *)
TreeWellFormed ==
  \A s \in 1 .. Len(shapes) :
    LET ts == shapes[s].transitions
        p  == shapes[s].parent
    IN
      /\ \A i, j \in 1 .. Len(ts) : content[ts[i].key] = content[ts[j].key] => i = j
      /\ p < s
      /\ shapes[s].slot = shapes[s].count - 1
      /\ p # 0 => /\ shapes[s].count = shapes[p].count + 1
                  /\ SlotOf(p, content[shapes[s].key]) = -1
      /\ \A i \in 1 .. Len(ts) : shapes[ts[i].next].parent = s
      /\ \A k \in 0 .. shapes[s].count - 1 : KeyAt(s, k) \in Cell /\ SlotOf(s, content[KeyAt(s, k)]) = k

Maps == INSTANCE ObjectMaps
          WITH maps <- [t \in Thread |-> IF obj[t] = NULL THEN NULL
                                         ELSE [n \in Name |-> Get(obj[t], n)]]

(* Sharing one tree, the objects behave as maps of their own: a property   *)
(* reads back as it was set, and no thread sees another's.                 *)
RefinesMaps == Maps!MapsSpec

(* A thread that gets the mutex lets go of it and finishes its call,       *)
(* unless an allocation raises while it holds it or the process crashes.   *)
CallsFinish ==
  \A t \in Thread :
    mutex = t ~> (mutex # t /\ call[t].step = "idle") \/ mutex = Lost \/ ~Running

---------------------------------------------------------------------------
(* What a test says and the code does not do.                              *)

Contents(t) == [n \in Name |-> Get(obj[t], n)]

(* shape.test.c:380 no object inherits keys from another: while a thread   *)
(* makes no step of its own, its object reads as it did.                   *)
NoLeak ==
  [][\A t \in Thread :
       obj[t] # NULL /\ obj'[t] = obj[t] /\ call'[t] = call[t] /\ used'[t] = used[t]
         => Contents(t)' = Contents(t)]_shapeVars
=============================================================================
