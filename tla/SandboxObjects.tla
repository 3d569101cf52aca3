----------------------------- MODULE SandboxObjects -----------------------------
(***************************************************************************)
(* The objects of a sandbox: the table whose slots hold the counted        *)
(* reference that keeps an object, the hash chains that find it by name,   *)
(* the objects that wait for garbage collection, the deletion of an object,*)
(* of a tree of owned ones and of a module, and the pointers between them. *)
(*                                                                         *)
(* Every operation holds m_sandbox_mutex, or is called between frames: it  *)
(* is one step.  An object is the memory it lives in.  Names are numbers,  *)
(* 0 the null name.  What an object points to, without counting, is its    *)
(* m_owner and its m_pointer; counted references are held by users.        *)
(***************************************************************************)
EXTENDS Integers, SequencesExt

CONSTANTS
  Object,
  Module,         \* those that are modules
  Null,
  InitialSize,    \* slots of the table at first
  NumBucket,      \* gvc_max_object_hash
  MaxName,        \* bound: names
  MaxHeld         \* bound: references users hold

ASSUME ObjectsAssumption ==
  /\ Module \subseteq Object /\ Null \notin Object
  /\ InitialSize \in Nat /\ NumBucket \in Nat \ {0}
  /\ MaxName \in Nat \ {0} /\ MaxHeld \in Nat

VARIABLES
  live,                        \* objects that exist
  m_obj_table, free_index_array,
  m_object_hash_table,         \* the chain of each bucket
  m_name, m_runtime_index, m_is_deleted, m_owner, m_pointer,
  held,                        \* how many references users hold
  m_objects_wait_for_delete,
  not_cleared                  \* modules that were unloaded, and the first object of each

tableVars == <<m_obj_table, free_index_array, m_runtime_index>>
hashVars == <<m_object_hash_table, m_name>>
pointerVars == <<m_owner, m_pointer>>
deleteVars == <<m_is_deleted, m_objects_wait_for_delete, not_cleared>>
vars == <<live, tableVars, hashVars, pointerVars, held, deleteVars>>

Pointer == Object \cup {Null}

TypeOK ==
  /\ live \subseteq Object
  /\ m_obj_table \in Seq(Pointer) /\ free_index_array \in Seq(1..Len(m_obj_table))
  /\ m_object_hash_table \in [0..(NumBucket - 1) -> Seq(live)]
  /\ m_name \in [Object -> 0..MaxName]
  /\ m_runtime_index \in [Object -> Nat]
  /\ m_is_deleted \in [Object -> BOOLEAN]
  /\ m_owner \in [Object -> Pointer] /\ m_pointer \in [Object -> Pointer]
  /\ held \in [Object -> 0..MaxHeld]
  /\ m_objects_wait_for_delete \subseteq live
  /\ not_cleared \subseteq Object

Nowhere == [o \in Object |-> Null]

Init ==
  /\ live = {}
  /\ m_obj_table = [i \in 1..InitialSize |-> Null]
  /\ free_index_array = [i \in 1..InitialSize |-> InitialSize - i + 1]
  /\ m_object_hash_table = [b \in 0..(NumBucket - 1) |-> <<>>]
  /\ m_name = [o \in Object |-> 0]
  /\ m_runtime_index = [o \in Object |-> 0]
  /\ m_is_deleted = [o \in Object |-> FALSE]
  /\ m_owner = Nowhere /\ m_pointer = Nowhere
  /\ held = [o \in Object |-> 0]
  /\ m_objects_wait_for_delete = {}
  /\ not_cleared = {}

-------------------------------------------------------------------------------
(* What the code asks of its objects. *)

InTable == Range(m_obj_table) \ {Null}
Alive == {o \in InTable : ~m_is_deleted[o]}     \* those of gv_object_iterator_safe

hash(n) == n % NumBucket
Named == {o \in Alive : m_name[o] # 0}     \* those a walk of the hash table finds

get_ref(o) ==
  held[o] + (IF o \in InTable THEN 1 ELSE 0) + (IF o \in m_objects_wait_for_delete THEN 1 ELSE 0)

\* The owners of o, up to the first that is not in keep: the smallest set that the walk
\* from o along the owners does not leave.
OwnersIn(o, keep) ==
  LET Stays(s) == \A p \in s \cup {o} : m_owner[p] \in keep => m_owner[p] \in s
  IN  {p \in keep : \A s \in SUBSET keep : Stays(s) => p \in s}

query_objects_owned_by(top) == {o \in Named : top \in OwnersIn(o, Object)}

query_module_object(m) == {o \in Named : m \in OwnersIn(o, Alive)}

-------------------------------------------------------------------------------
(* Creating, naming, holding and pointing. *)

\* The slot the pool gives, after it has grown when it is full.
allocate(o) ==
  LET full == free_index_array = <<>>
      i == IF full THEN Len(m_obj_table) + 1 ELSE Last(free_index_array)
  IN  /\ m_obj_table' = IF full THEN Append(m_obj_table, o) ELSE [m_obj_table EXCEPT ![i] = o]
      /\ free_index_array' = IF full THEN <<>> ELSE Front(free_index_array)
      /\ m_runtime_index' = [m_runtime_index EXCEPT ![o] = i]

\* A chain without the objects of s: kept[i] is what is left of its first i objects.
ChainWithout(chain, s) ==
  LET kept[i \in 0..Len(chain)] ==
        IF i = 0 THEN <<>>
        ELSE IF chain[i] \in s THEN kept[i - 1] ELSE Append(kept[i - 1], chain[i])
  IN  kept[Len(chain)]

\* The chains without the objects of s.
Unlinked(s) ==
  [b \in 0..(NumBucket - 1) |-> ChainWithout(m_object_hash_table[b], s)]

\* add_object_to_hash, to the given chains.
add_object_to_hash(o, n, chains) ==
  /\ m_object_hash_table' =
       IF n = 0 THEN chains ELSE [chains EXCEPT ![hash(n)] = <<o>> \o @]
  /\ m_name' = [m_name EXCEPT ![o] = n]

\* Abstraction: the memory of an object something still points to is not reused.
Unreferenced(o) == \A p \in live : o \notin {m_owner[p], m_pointer[p]}

\* The name may be another's: add_object_to_hash only warns of it.
create_object(o, n, owner) ==
  /\ o \notin live /\ Unreferenced(o)
  /\ owner \in Alive \cup {Null} /\ (o \in Module => owner = Null)
  /\ live' = live \cup {o}
  /\ allocate(o)
  /\ add_object_to_hash(o, n, m_object_hash_table)
  /\ m_owner' = [m_owner EXCEPT ![o] = owner]
  /\ not_cleared' = not_cleared \ {o}
  /\ UNCHANGED <<m_pointer, held, m_is_deleted, m_objects_wait_for_delete>>

\* Mutant: the object stays in the chain of its old name.
rename_object_linked(o, n) ==
  /\ o \in Alive /\ n # m_name[o]
  /\ add_object_to_hash(o, n, m_object_hash_table)
  /\ UNCHANGED <<live, tableVars, pointerVars, held, deleteVars>>

rename_object(o, n) ==
  /\ o \in Alive /\ n # m_name[o]
  /\ add_object_to_hash(o, n, Unlinked({o}))
  /\ UNCHANGED <<live, tableVars, pointerVars, held, deleteVars>>

set_pointer(o, p) ==
  /\ o \in Alive /\ p \in Alive \ {o}
  /\ m_pointer' = [m_pointer EXCEPT ![o] = p]
  /\ UNCHANGED <<live, tableVars, hashVars, m_owner, held, deleteVars>>

SumOfHeld == FoldFunction(+, 0, held)

\* A user has the object, and counts a reference to it.
inc_ref(o) ==
  /\ o \in Alive \/ held[o] > 0
  /\ SumOfHeld < MaxHeld
  /\ held' = [held EXCEPT ![o] = @ + 1]
  /\ UNCHANGED <<live, tableVars, hashVars, pointerVars, deleteVars>>

\* The memory of the objects in gone, with the fields as the next object finds them.
Destroyed(gone, owners, pointers, deleted) ==
  /\ live' = live \ gone
  /\ m_owner' = [o \in Object |-> IF o \in gone THEN Null ELSE owners[o]]
  /\ m_pointer' = [o \in Object |-> IF o \in gone THEN Null ELSE pointers[o]]
  /\ m_is_deleted' = [o \in Object |-> o \notin gone /\ deleted[o]]
  /\ m_name' = [o \in Object |-> IF o \in gone THEN 0 ELSE m_name[o]]
  /\ m_runtime_index' = [o \in Object |-> IF o \in gone THEN 0 ELSE m_runtime_index[o]]

\* When one reference is left, and the owner is no module, the object is marked deleted.
dec_ref(o) ==
  /\ held[o] > 0
  /\ held' = [held EXCEPT ![o] = @ - 1]
  /\ Destroyed({p \in {o} : get_ref(p) = 1}, m_owner, m_pointer,
       [m_is_deleted EXCEPT ![o] = @ \/ (get_ref(o) = 2 /\ m_owner[o] \notin Module)])
  /\ UNCHANGED <<m_obj_table, free_index_array, m_object_hash_table, m_objects_wait_for_delete,
                 not_cleared>>

-------------------------------------------------------------------------------
(* Deleting. *)

\* What the pointers of the objects that are visited become when s is cleared.
Cleared(pointers, s) ==
  [o \in Object |-> IF o \in Alive /\ pointers[o] \in s THEN Null ELSE pointers[o]]

\* Mutant: a slot is given back twice.
FreeSlotsTwice(d) == [i \in 1..Len(d) |-> m_runtime_index[d[1]]]

FreeSlots(d) == [i \in 1..Len(d) |-> m_runtime_index[d[i]]]

\* delete_object of each object of the sequence d.  A forced one does not wait for the
\* garbage collection: it is destroyed with its last reference.
Delete(d, force, owners, pointers) ==
  LET s == Range(d)
  IN  /\ m_object_hash_table' = Unlinked(s)
      /\ m_objects_wait_for_delete' = m_objects_wait_for_delete \cup (IF force THEN {} ELSE s)
      /\ free_index_array' = free_index_array \o FreeSlots(d)
      /\ m_obj_table' = [i \in 1..Len(m_obj_table) |->
                           IF m_obj_table[i] \in s THEN Null ELSE m_obj_table[i]]
      /\ Destroyed(IF force THEN {o \in s : held[o] = 0} ELSE {},
                   [o \in Object |-> IF o \in s THEN Null ELSE owners[o]], pointers,
                   [o \in Object |-> o \in s \/ m_is_deleted[o]])
      /\ UNCHANGED held

\* Callers that delete one object know that nothing points to it.
delete_object(o, force) ==
  /\ o \in InTable
  /\ Unreferenced(o)
  /\ Delete(<<o>>, force, m_owner, m_pointer)
  /\ UNCHANGED not_cleared

\* A set of objects in the order of their slots.
SlotOrder(s) ==
  CHOOSE d \in SetToSeqs(s) :
    \A i, j \in DOMAIN d : i < j => m_runtime_index[d[i]] < m_runtime_index[d[j]]

\* Mutant: the references to the owned objects are not cleared.
delete_object_tree_top(top) ==
  /\ top \in Alive
  /\ LET d == Append(SlotOrder(query_objects_owned_by(top)), top)
     IN  Delete(d, FALSE, Cleared(m_owner, {top}), Cleared(m_pointer, {top}))
  /\ UNCHANGED not_cleared

\* Objects with the null name are in no chain: they stay, without an owner.
delete_object_tree(top) ==
  /\ top \in Alive
  /\ LET d == Append(SlotOrder(query_objects_owned_by(top)), top)
     IN  Delete(d, FALSE, Cleared(m_owner, Range(d)), Cleared(m_pointer, Range(d)))
  /\ UNCHANGED not_cleared

\* The objects are sorted by location: one the module owns itself is the first.  The
\* references to that one are not cleared, nor those to the module.
unload_module(m) ==
  /\ m \in Alive \cap Module /\ m_name[m] # 0    \* found by its name
  /\ LET s == query_module_object(m)
     IN  \/ /\ s = {}
            /\ Delete(<<m>>, TRUE, m_owner, m_pointer)
            /\ not_cleared' = not_cleared \cup {m}
         \/ \E first \in {o \in s : m_owner[o] = m} :
              LET rest == s \ {first}
              IN  /\ Delete(<<first>> \o SlotOrder(rest) \o <<m>>, TRUE,
                            Cleared(m_owner, rest), Cleared(m_pointer, rest))
                  /\ not_cleared' = not_cleared \cup {m, first}

\* Mutant: references of users do not count.
collect_garbage_held ==
  /\ m_objects_wait_for_delete # {}
  /\ m_objects_wait_for_delete' = {}
  /\ Destroyed(m_objects_wait_for_delete, m_owner, m_pointer, m_is_deleted)
  /\ UNCHANGED <<m_obj_table, free_index_array, m_object_hash_table, held, not_cleared>>

collect_garbage ==
  LET gone == {o \in m_objects_wait_for_delete : get_ref(o) = 1}
  IN  /\ gone # {}
      /\ m_objects_wait_for_delete' = m_objects_wait_for_delete \ gone
      /\ Destroyed(gone, m_owner, m_pointer, m_is_deleted)
      /\ UNCHANGED <<m_obj_table, free_index_array, m_object_hash_table, held, not_cleared>>

-------------------------------------------------------------------------------
Next ==
  \/ \E o \in Object :
       \/ \E n \in 0..MaxName :
            rename_object(o, n) \/ \E p \in Pointer : create_object(o, n, p)
       \/ \E p \in Object : set_pointer(o, p)
       \/ inc_ref(o) \/ dec_ref(o)
       \/ \E force \in BOOLEAN : delete_object(o, force)
       \/ delete_object_tree(o)
       \/ unload_module(o)
  \/ collect_garbage

Spec == Init /\ [][Next]_vars

-------------------------------------------------------------------------------
(* Properties. *)

\* The table, the free list and the indices agree: an object is in one slot, the slot
\* it thinks, and a slot without one is free exactly once, so no two objects ever get
\* the same one, whatever was deleted, forced or not, in whatever order.
TableExact ==
  /\ \A o \in InTable : m_obj_table[m_runtime_index[o]] = o
  /\ \A i, j \in 1..Len(m_obj_table) : m_obj_table[i] = m_obj_table[j] =>
       i = j \/ m_obj_table[i] = Null
  /\ Range(free_index_array) = {i \in 1..Len(m_obj_table) : m_obj_table[i] = Null}
  /\ IsInjective(free_index_array)

\* An object of the table with a name is in the chain of that name, once, and the
\* chains have no other object: remove_object_from_hash asserts that it finds it.
HashExact ==
  \A b \in DOMAIN m_object_hash_table :
    /\ Range(m_object_hash_table[b]) =
         {o \in InTable : m_name[o] # 0 /\ hash(m_name[o]) = b}
    /\ IsInjective(m_object_hash_table[b])

\* An object exists as long as the table, the garbage collection or a user refers to
\* it, and no longer.
LiveIsReferenced == live = {o \in Object : get_ref(o) > 0}

\* No object that is not marked deleted points to one that was deleted, except to an
\* unloaded module and its first object.  Marked ones are skipped, and do.
PointersLive ==
  \A o \in Alive : {m_owner[o], m_pointer[o]} \subseteq InTable \cup not_cleared \cup {Null}

\* Unloading a module clears every reference to the set of its objects.
SetIsCleared == \A o \in Alive : m_pointer[o] \in InTable \cup Module \cup {Null}
===============================================================================
