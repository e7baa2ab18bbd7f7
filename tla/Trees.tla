------------------------------- MODULE Trees -------------------------------
(***************************************************************************)
(* Trees of the lil-gp kernel (kernel/tree.c): arrays of lnodes in prefix  *)
(* order.  An lnode is                                                     *)
(*   a function;                                                           *)
(*   the constant of an ERC terminal, right behind that terminal;          *)
(*   a skip node, in front of every child of a function of type FUNC_EXPR, *)
(*   which holds how many lnodes the child takes.                          *)
(* Every node has a type; a function says which types its children have.   *)
(* Constants are not told apart here: see SameArray.                       *)
(***************************************************************************)
EXTENDS Integers, Sequences, FiniteSets, FiniteSetsExt, Functions

CONSTANTS
  Function,  \* the names of all functions and terminals
  Info,      \* name -> [ret : type, args : types of the children,
             \*          expr : FUNC_EXPR?, erc : TERM_ERC?]
  Code(_, _) \* what a function makes of the values of its children

Types == {Info[f].ret : f \in Function}

ASSUME TreesAssumption ==
  \A f \in Function :
    /\ Info[f].args \in Seq(Types)
    /\ Info[f].erc => Info[f].args = <<>>

Node(f) == <<"f", f>>
Skip(n) == <<"s", n>>
ErcValue == <<"d", "value">>

Fn(l) == Info[l[2]]
IsFunction(l) == l[1] = "f"
Arity(l) == Len(Fn(l).args)

\* What the recursions of tree.c find in the subtree at position p: the
\* position behind it and what each of them counts on the way.  Children stand
\* behind their parent, so the entries are found from the last to the first.
\* (Positions of constants and skip nodes have no entry of use.)
Measure(t) ==
  LET from[p \in 1 .. Len(t) + 1] ==  \* entries for p and what is behind it
        IF p = Len(t) + 1 THEN <<>>
        ELSE LET behind == from[p + 1]
                 f == IF IsFunction(t[p]) THEN Fn(t[p])
                      ELSE [args |-> <<>>, erc |-> FALSE, expr |-> FALSE]
                 n == Len(f.args)
                 skip == IF f.expr THEN 1 ELSE 0
                 kid[i \in 1 .. n] ==
                   behind[(IF i = 1 THEN 1 ELSE kid[i - 1].end - p) + skip]
             IN <<IF n = 0
                  THEN [end |-> p + 1 + (IF f.erc THEN 1 ELSE 0),
                        nodes |-> 1, internal |-> 0, depth |-> 0]
                  ELSE [end |-> kid[n].end,
                        nodes |-> 1 + SumFunction([i \in 1 .. n |-> kid[i].nodes]),
                        internal |-> 1 + SumFunction([i \in 1 .. n |-> kid[i].internal]),
                        depth |-> 1 + Max({kid[i].depth : i \in 1 .. n})]>>
                \o behind
  IN from[1]

\* The reference definition: t, and nothing but t, is a tree of type ty.
\* end[p] is the position behind the tree at p, 0 if there is none.
IsTree(t, ty) ==
  LET end[p \in 0 .. Len(t) + 2] ==
        IF p \notin DOMAIN t \/ ~IsFunction(t[p]) THEN 0
        ELSE LET f == Fn(t[p])
                 behind[i \in 0 .. Len(f.args)] ==
                   IF i > 0
                   THEN LET at == behind[i - 1]
                            first == at + (IF f.expr THEN 1 ELSE 0)
                            next == end[first]
                        IN IF \/ at = 0 \/ next = 0 \/ Fn(t[first]).ret # f.args[i]
                              \/ f.expr /\ t[at] # Skip(next - first)
                           THEN 0 ELSE next
                   ELSE IF ~f.erc THEN p + 1
                   ELSE IF p < Len(t) /\ t[p + 1] = ErcValue THEN p + 2 ELSE 0
             IN behind[Len(f.args)]
  IN t # <<>> /\ end[1] = Len(t) + 1 /\ Fn(t[1]).ret = ty

\* tree_nodes, tree_depth
TreeNodes(t) == Measure(t)[1].nodes
TreeDepth(t) == Measure(t)[1].depth

\* Where the subtrees begin: any of them, those that get_subtree_internal
\* counts and those that get_subtree_external counts.
Subtrees(t) == {p \in DOMAIN t : IsFunction(t[p])}
InternalSubtrees(t) == {p \in Subtrees(t) : Arity(t[p]) > 0}
ExternalSubtrees(t) == {p \in Subtrees(t) : Arity(t[p]) = 0}

\* tree_depth_to_subtree: how many nodes the subtree at s is inside of.
DepthToSubtree(t, s) ==
  LET m == Measure(t)
  IN Cardinality({p \in Subtrees(t) : p < s /\ s < m[p].end})

\* Mutant: the skip node of the parent is copied.
ReplaceManyOldSkips(t, s, with) ==
  LET m == Measure(t)
      copy[p \in Subtrees(t)] ==
        IF p = s THEN with
        ELSE LET f == Fn(t[p])
                 n == Len(f.args)
                 skip == IF f.expr THEN 1 ELSE 0
                 at[i \in 1 .. n + 1] ==
                   IF i = 1 THEN p + 1 ELSE m[at[i - 1] + skip].end
                 kids[i \in 0 .. n] ==
                   IF i = 0 THEN <<t[p]>> \o (IF f.erc THEN <<t[p + 1]>> ELSE <<>>)
                   ELSE kids[i - 1] \o (IF f.expr THEN <<t[at[i]]>> ELSE <<>>)
                                    \o copy[at[i] + skip]
             IN kids[n]
  IN copy[1]

\* copy_tree_replace_many with one pair: t with the subtree at s replaced.
\* Skip nodes are computed anew, since what they skip may have changed.
CopyTreeReplace(t, s, with) ==
  LET m == Measure(t)
      copy[p \in Subtrees(t)] ==
        IF p = s THEN with
        ELSE LET f == Fn(t[p])
                 n == Len(f.args)
                 skip == IF f.expr THEN 1 ELSE 0
                 at[i \in 1 .. n + 1] ==
                   IF i = 1 THEN p + 1 ELSE m[at[i - 1] + skip].end
                 kids[i \in 0 .. n] ==
                   IF i = 0 THEN <<t[p]>> \o (IF f.erc THEN <<t[p + 1]>> ELSE <<>>)
                   ELSE LET kid == copy[at[i] + skip]
                        IN kids[i - 1] \o (IF f.expr THEN <<Skip(Len(kid))>> ELSE <<>>)
                                       \o kid
             IN kids[n]
  IN copy[1]

\* The subtree at s, as an array of its own.
SubtreeAt(t, s) == SubSeq(t, s, Measure(t)[s].end - 1)

\* memcmp of two arrays that were generated separately: the constants behind
\* ERC terminals are pointers to records of their own and never the same.
SameArray(t, u) == t = u /\ ErcValue \notin Range(t)

\* A skip value fills half of its lnode.  The other half is zero unless a
\* generator rolled back over the place, and then equal arrays compare unequal.
SurelySameArray(t, u) == SameArray(t, u) /\ \A p \in DOMAIN t : IsFunction(t[p])

-----------------------------------------------------------------------------
(* Evaluation, without the evaluation tokens of ADFs. *)

\* evaluate_tree: the children of a function of type FUNC_EXPR are found with
\* the skip nodes, those of others by evaluating what is in front of them.
EvaluateTree(t) ==
  LET eval[p \in Subtrees(t)] ==
        LET f == Fn(t[p])
            n == Len(f.args)
            kid[i \in 1 .. n] ==
              LET at == IF i = 1 THEN p + 1 ELSE kid[i - 1].end
              IN IF f.expr
                 THEN [value |-> eval[at + 1].value, end |-> at + t[at][2] + 1]
                 ELSE eval[at]
        IN [value |-> Code(t[p][2], [i \in 1 .. n |-> kid[i].value]),
            end |-> IF n > 0 THEN kid[n].end ELSE p + 1 + (IF f.erc THEN 1 ELSE 0)]
  IN eval[1].value

\* The reference definition: what the tree that t is an array of stands for.
Meaning(t) ==
  LET m == Measure(t)
      of[p \in Subtrees(t)] ==
        LET f == Fn(t[p])
            skip == IF f.expr THEN 1 ELSE 0
            kid[i \in DOMAIN f.args] ==
              skip + IF i = 1 THEN p + 1 ELSE m[kid[i - 1]].end
        IN Code(t[p][2], [i \in DOMAIN f.args |-> of[kid[i]]])
  IN of[1]

-----------------------------------------------------------------------------
(* Random generation.  A type without functions cannot have a full tree of *)
(* depth 1 or more, and what needs such a child is given up for another    *)
(* function, with the generation space rolled back.                        *)

FunctionsOf(set, ty) == {f \in set : Info[f].ret = ty /\ Info[f].args # <<>>}
TerminalsOf(set, ty) == {f \in set : Info[f].ret = ty /\ Info[f].args = <<>>}

TerminalTrees(set, ty) ==
  {<<Node(f)>> \o (IF Info[f].erc THEN <<ErcValue>> ELSE <<>>) :
     f \in TerminalsOf(set, ty)}

\* The trees with f at the root and the i-th child from kids[i].
TreesWith(f, kids) ==
  LET made[i \in 0 .. Len(kids)] ==
        IF i = 0 THEN {<<Node(f)>>}
        ELSE {t \o (IF Info[f].expr THEN <<Skip(Len(k))>> ELSE <<>>) \o k :
                t \in made[i - 1], k \in kids[i]}
  IN made[Len(kids)]

\* generate_random_full_tree: what it may make; if nothing, it returns 1.
FullTrees(set, depth, ty) ==
  LET full[d \in 0 .. depth] ==
        [r \in Types |->
           IF d = 0 THEN TerminalTrees(set, r)
           ELSE UNION {TreesWith(f, [i \in DOMAIN Info[f].args |->
                                       full[d - 1][Info[f].args[i]]]) :
                         f \in FunctionsOf(set, r)}]
  IN full[depth][ty]

\* generate_random_grow_tree: a terminal may be taken at any depth.
GrowTrees(set, depth, ty) ==
  LET grow[d \in 0 .. depth] ==
        [r \in Types |->
           TerminalTrees(set, r) \cup
           IF d = 0 THEN {}
           ELSE UNION {TreesWith(f, [i \in DOMAIN Info[f].args |->
                                       grow[d - 1][Info[f].args[i]]]) :
                         f \in FunctionsOf(set, r)}]
  IN grow[depth][ty]

\* half_and_half tosses a coin between the two.
GeneratedTrees(set, method, depth, ty) ==
  (IF method = "grow" THEN {} ELSE FullTrees(set, depth, ty)) \cup
  (IF method = "full" THEN {} ELSE GrowTrees(set, depth, ty))

\* The caller does not look at what the generators return and would follow a
\* null function in the empty space.  Grown trees of a type with a terminal,
\* and full ones of a type that has one of that depth, cannot fail.
NeverFails(set, method, depth, ty) ==
  /\ method # "grow" => FullTrees(set, depth, ty) # {}
  /\ method # "full" => \A f \in set : TerminalsOf(set, Info[f].ret) # {}
=============================================================================
