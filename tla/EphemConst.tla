----------------------------- MODULE EphemConst -----------------------------
(***************************************************************************)
(* Ephemeral random constants (kernel/ephem.c): values that trees point at.*)
(* A constant on the active list counts the tree nodes that point at it    *)
(* and goes back to the free list, once per generation, at zero.           *)
(*                                                                         *)
(* The constants are a value e with                                        *)
(*   active    the records on the active list                              *)
(*   refcount  of every record                                             *)
(*   named     the active records whose f field has been assigned          *)
(***************************************************************************)
EXTENDS Integers, FiniteSets

CONSTANT Erc   \* bound: the records of all blocks

NoErcs == [active |-> {}, refcount |-> [c \in Erc |-> 0], named |-> {}]

\* new_ephemeral_const, for each constant of S.
NewErcs(e, S) ==
  [active |-> e.active \cup S,
   refcount |-> [c \in Erc |-> IF c \in S THEN 0 ELSE e.refcount[c]],
   named |-> e.named \cup S]

\* reference_ephem_constants over individuals or copies, given as a function;
\* a tree counts a constant once here.
Users(inds, c) == Cardinality({k \in DOMAIN inds : c \in inds[k].erc})

ReferenceErcs(e, inds, n) ==
  [e EXCEPT !.refcount = [c \in Erc |-> @[c] + n * Users(inds, c)]]

\* Mutant: a constant with a single user is freed.
EphemConstGcSingle(e) ==
  [e EXCEPT !.active = {c \in @ : e.refcount[c] > 1}]

\* ephem_const_gc
EphemConstGc(e) ==
  LET kept == {c \in e.active : e.refcount[c] # 0}
  IN [e EXCEPT !.active = kept, !.named = @ \cap kept]

\* Mutants: reading a tree counts its constants again; the block that was
\* read is not hooked into the active list.
ReadErcsRecounted(e, inTrees) ==
  [e EXCEPT !.named = inTrees,
            !.refcount = [c \in Erc |-> IF c \in inTrees THEN @[c] + 1 ELSE @[c]]]
ReadErcsOffList(e, inTrees) == [e EXCEPT !.named = inTrees, !.active = {}]

\* read_ephem_list after write_ephem_list: the active list and its counts
\* come back, in records whose f field nothing has assigned.  Reading a tree
\* (get_function_by_name) then assigns f of the constants of that tree.
ReadErcs(e, inTrees) == [e EXCEPT !.named = inTrees]

=============================================================================
