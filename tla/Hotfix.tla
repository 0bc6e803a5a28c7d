------------------------------- MODULE Hotfix -------------------------------
(***************************************************************************)
(* Hot reload (hotfix.lua, internal/module_update.lua,                      *)
(* internal/functions_replace.lua): the new version of a module is compared *)
(* with the loaded one, table by table and function by function, and then   *)
(* every reference to an old function that can be reached is replaced.      *)
(*                                                                          *)
(* A value is a record of its type and a number: two tables or functions    *)
(* with different numbers are two objects.  An upvalue is a cell, which     *)
(* closures of one scope share.  A thread stands for a coroutine with what  *)
(* its stack holds, or for a userdata: the search does not enter it.        *)
(* tostring() and == may take two tables for one another, by __tostring and *)
(* __eq.  Both recursions keep what they must still visit in todo.  The     *)
(* pairs are visited in any order, as pairs() does; for the search, where   *)
(* each object is done once and by itself, any one will do.                 *)
(***************************************************************************)
EXTENDS Naturals, FiniteSets, FiniteSetsExt, Functions, TLC

CONSTANT Worlds   \* heaps, each with a new version of the module in it

Nil       == [t |-> "nil", v |-> 0]
False     == [t |-> "boolean", v |-> 0]
Table(n)  == [t |-> "table", v |-> n]
Func(n)   == [t |-> "function", v |-> n]
Number(n) == [t |-> "number", v |-> n]
Name(n)   == [t |-> "string", v |-> n]
Thread(n) == [t |-> "thread", v |-> n]

IsObject(x) == x.t \in {"table", "function"}

\* where every search for references begins, and where modules are kept
Registry == Table(1)
Loaded   == Table(2)
Global   == Table(3)
Module   == Name(0)

VARIABLES
  stage,            \* "idle", "update", "replace" or "done"
  world,            \* the heap before: entries and cells, and what stays as it is:
                    \* meta, ups, protected, held (by threads), text (tostring),
                    \* equal (pairs by __eq) and new, the new version
  entries,          \* per table, its keys and values
  cells,            \* per upvalue, its value
  todo,             \* pairs to compare, then objects to search
  update_sig,       \* the pairs that were compared
  update_func_map,  \* old functions and their successors
  replace_obj       \* the objects that were searched

vars == <<stage, world, entries, cells, todo, update_sig, update_func_map, replace_obj>>

Idle == [entries |-> <<>>, cells |-> <<>>, meta |-> <<>>, ups |-> <<>>, protected |-> {},
         held |-> <<>>, text |-> <<>>, equal |-> {}, new |-> Nil]

Init ==
  /\ stage = "idle" /\ world = Idle /\ entries = <<>> /\ cells = <<>>
  /\ todo = {} /\ update_sig = {} /\ update_func_map = <<>> /\ replace_obj = {}

TypeOK ==
  /\ stage \in {"idle", "update", "replace", "done"}
  /\ DOMAIN entries = DOMAIN world.entries /\ DOMAIN cells = DOMAIN world.cells
  /\ \A f \in DOMAIN update_func_map : {f.t, update_func_map[f].t} = {"function"}
  /\ stage = "update" => \A p \in todo : p[1].t = p[2].t /\ IsObject(p[1])

-----------------------------------------------------------------------------
(* What is called.                                                          *)

Get(t, k) == IF k \in DOMAIN entries[t] THEN entries[t][k] ELSE Nil

\* update_load_module.  A module that is not a table or a function, or becomes
\* one, is replaced.
Load(w) ==
  LET old == w.entries[Loaded][Module]
  IN /\ stage' = "update" /\ world' = w /\ cells' = w.cells
     /\ IF w.new.t = old.t /\ IsObject(old)
        THEN todo' = {<<w.new, old>>} /\ entries' = w.entries
        ELSE todo' = {} /\ entries' = [w.entries EXCEPT ![Loaded][Module] = w.new]
     /\ UNCHANGED <<update_sig, update_func_map, replace_obj>>

\* The signature of a pair is made of texts, tostring() of either.
Signature(p) == <<world.text[p[1]], world.text[p[2]]>>

check_update(p, compared) ==
  \/ p[1] = p[2] \/ p \in world.equal
  \/ \E q \in compared : Signature(q) = Signature(p)

\* protected and what seems to have been compared are passed over
ToCompare(pairs, compared) ==
  {p \in pairs : IsObject(p[1]) /\ p[2] \notin world.protected /\ ~check_update(p, compared)}

Visit(n, o, found) ==
  /\ stage = "update" /\ <<n, o>> \in todo
  /\ update_sig' = update_sig \cup {<<n, o>>}
  /\ todo' = ToCompare(todo \cup found, update_sig')
  /\ UNCHANGED <<stage, world, replace_obj>>

\* A field whose type has changed is set to the global "value", which is nil.
FieldsKept(n, o) == {k \in DOMAIN entries[o] : Get(n, k).t \in {"nil", entries[o][k].t}}

update_table(n, o) ==
  /\ n.t = "table"
  /\ LET same == {k \in DOMAIN entries[n] : Get(o, k).t = entries[n][k].t}
         meta == <<world.meta[n], world.meta[o]>>
     IN Visit(n, o, {<<entries[n][k], entries[o][k]>> : k \in same}
                      \cup {m \in {meta} : meta[1].t = meta[2].t})
  /\ entries' = [entries EXCEPT ![o] = Restrict(@, FieldsKept(n, o))]
  /\ UNCHANGED <<cells, update_func_map>>

\* What a new function's upvalues get from those of the same name: a number or
\* the like, or what is of another type now; neither nil nor false.
Taken(old, new) == old \notin {Nil, False} /\ (old.t # new.t \/ ~IsObject(old))

update_function(n, o) ==
  /\ n.t = "function"
  /\ update_func_map' = (o :> n) @@ update_func_map
  /\ LET common == DOMAIN world.ups[n] \cap DOMAIN world.ups[o]
         Old(u) == cells[world.ups[o][u]]
         New(u) == cells[world.ups[n][u]]
         taken  == {u \in common : Taken(Old(u), New(u))}
     IN /\ cells' = [c \in DOMAIN cells |->
                       IF \E u \in taken : world.ups[n][u] = c
                         THEN Old(CHOOSE u \in taken : world.ups[n][u] = c) ELSE cells[c]]
        /\ Visit(n, o, {<<New(u), Old(u)>> : u \in {x \in common \ taken : IsObject(Old(x))}})
  /\ UNCHANGED entries

\* update_all does nothing when no function has a successor.
EndUpdate ==
  /\ stage = "update" /\ todo = {}
  /\ IF update_func_map = <<>>
     THEN stage' = "done" /\ UNCHANGED todo
     ELSE stage' = "replace" /\ todo' = {world.new, Global, Registry}
  /\ UNCHANGED <<world, entries, cells, update_sig, update_func_map, replace_obj>>

Successor(x) == IF x \in DOMAIN update_func_map THEN update_func_map[x] ELSE x

\* replace_functions: what has a successor, or is protected, is searched no further.
Search(x, found) ==
  /\ stage = "replace" /\ x \in todo
  /\ replace_obj' = replace_obj \cup {x}
  /\ todo' = (todo \cup {y \in found : IsObject(y) /\ y \notin DOMAIN update_func_map \cup world.protected})
               \ replace_obj'
  /\ UNCHANGED <<stage, world, update_sig, update_func_map>>

NewKey_Old(k) == k

NewKey(k) == Successor(k)

replace_functions_in_table(x) ==
  /\ x.t = "table" /\ Search(x, {world.meta[x]} \cup DOMAIN entries[x] \cup Range(entries[x]))
  /\ entries' = [entries EXCEPT ![x] =
       [k \in {NewKey(j) : j \in DOMAIN @} |->
          Successor(@[CHOOSE j \in DOMAIN @ : NewKey(j) = k])]]
  /\ UNCHANGED cells

Upvalues(x) == Range(world.ups[x])

replace_functions_in_update_values(x) ==
  /\ x.t = "function" /\ Search(x, {cells[c] : c \in Upvalues(x)})
  /\ cells' = [c \in DOMAIN cells |-> IF c \in Upvalues(x) THEN Successor(cells[c]) ELSE cells[c]]
  /\ UNCHANGED entries

EndReplace ==
  /\ stage = "replace" /\ todo = {} /\ stage' = "done"
  /\ UNCHANGED <<world, entries, cells, todo, update_sig, update_func_map, replace_obj>>

Return ==
  /\ stage = "done"
  /\ stage' = "idle" /\ world' = Idle /\ entries' = <<>> /\ cells' = <<>>
  /\ todo' = {} /\ update_sig' = {} /\ update_func_map' = <<>> /\ replace_obj' = {}

Next ==
  \/ stage = "idle" /\ \E w \in Worlds : Load(w)
  \/ stage = "update" /\ \E p \in todo : update_table(p[1], p[2]) \/ update_function(p[1], p[2])
  \/ EndUpdate
  \/ /\ stage = "replace" /\ todo # {}
     /\ LET x == CHOOSE y \in todo : TRUE
        IN replace_functions_in_table(x) \/ replace_functions_in_update_values(x)
  \/ EndReplace
  \/ Return

-----------------------------------------------------------------------------
(* Properties, of the heap when hotfix_module returns.                      *)

Refs(x) ==
  CASE x.t = "table" -> {world.meta[x]} \cup DOMAIN entries[x] \cup Range(entries[x])
    [] x.t = "function" -> {cells[c] : c \in Upvalues(x)}
    [] x.t = "thread" -> world.held[x]
    [] OTHER -> {}

\* what can be reached by a path on which the objects in ends come last
Reached(ends) ==
  LET Objects    == DOMAIN entries \cup DOMAIN world.ups \cup DOMAIN world.held
      Further(r) == r \cup UNION {Refs(x) : x \in r \ ends}
  IN FoldSet(LAMBDA step, r : Further(r), {Global, Registry, world.new}, Objects)

\* No function that has a successor can be reached any more, from the program
\* or from the new version, as a value, a key or an upvalue, but by way of what is
\* protected, of a coroutine or of a userdata: replace_functions returns for those
\* (functions_replace.lua:66-74).
NoOldFunction ==
  stage = "done" =>
    Reached(world.protected \cup DOMAIN world.held) \cap DOMAIN update_func_map = {}

\* Nor by way of a coroutine, which does not hold: what a coroutine has on its
\* stack goes on with the old functions.
NoOldFunctionHeld ==
  stage = "done" => Reached(world.protected) \cap DOMAIN update_func_map = {}

\* Whatever function of the module has a namesake in the new version of its table
\* is replaced by it, if it is not protected, and nothing passes for another object.
Replaces(p) ==
  \A k \in DOMAIN world.entries[p[1]] \cap DOMAIN world.entries[p[2]] :
    LET new == world.entries[p[1]][k]
        old == world.entries[p[2]][k]
    IN CASE new = old \/ new.t # old.t \/ old \in world.protected -> TRUE
         [] new # old /\ new.t = "function" -> old \in DOMAIN update_func_map
         [] new # old /\ new.t = "table" -> <<new, old>> \in update_sig
         [] OTHER -> TRUE

AllReplaced == stage = "done" => \A p \in {q \in update_sig : q[1].t = "table"} : Replaces(p)

NamesakesReplaced ==
  world.equal = {} /\ (\A x, y \in DOMAIN world.text : x # y => world.text[x] # world.text[y])
    => AllReplaced

\* A protected object is not changed, and a protected function not replaced.
ProtectedKept ==
  /\ \A x \in world.protected \cap DOMAIN entries : entries[x] = world.entries[x]
  /\ DOMAIN update_func_map \cap world.protected = {}

\* A function goes on with the numbers, strings and true values that its
\* predecessor had in its upvalues.
UpvaluesKept ==
  stage = "done" =>
    \A f \in DOMAIN update_func_map :
      LET g == update_func_map[f]
      IN \A u \in DOMAIN world.ups[f] \cap DOMAIN world.ups[g] :
           LET old == world.cells[world.ups[f][u]]
           IN ~IsObject(old) /\ old \notin {Nil, False} => cells[world.ups[g][u]] = old

\* The data of the module is not what is reloaded: a field that the new version
\* does not have, or has with the same type, keeps its value.
DataKept ==
  stage = "done" =>
    \A p \in {q \in update_sig : q[1].t = "table"} :
      \A k \in DOMAIN world.entries[p[2]] :
        LET old == world.entries[p[2]][k]
            new == IF k \in DOMAIN world.entries[p[1]] THEN world.entries[p[1]][k] ELSE Nil
        IN new.t \in {"nil", old.t} /\ ~IsObject(old) => Get(p[2], Successor(k)) = old
=============================================================================
