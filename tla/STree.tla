------------------------------- MODULE STree -------------------------------
(***************************************************************************)
(* homework1/test_alpha/main.c: a binary search tree that balances itself  *)
(* with hints, approximate heights that may be out of date.                *)
(*                                                                         *)
(* A node is named by its value.  One step is one turn of the search loop, *)
(* the change of the pointers in an insertion or a removal, or one call of *)
(* the recursive st_update.  st_rotate_left lifts the LEFT child.          *)
(***************************************************************************)
EXTENDS Integers, FiniteSets

CONSTANTS Keys, NULL

ASSUME STreeAssumption == Keys \subseteq Int /\ IsFiniteSet(Keys) /\ NULL \notin Keys

VARIABLES
    root, left, right, parent, hint,
    allocated,   \* the nodes that were allocated and not freed
    pc, op, a,   \* the step of the present operation, its name and argument
    n, p,        \* locals: the node it looks at, and the one before
    result       \* whether the last search found its value

vars == <<root, left, right, parent, hint, allocated, pc, op, a, n, p, result>>
tree == <<root, left, right, parent, hint>>

Ops == {"insert", "find", "remove"}
Pointers == Keys \cup {NULL}

\* treeint_init
Init ==
    /\ root = NULL
    /\ left = [k \in Keys |-> NULL]
    /\ right = [k \in Keys |-> NULL]
    /\ parent = [k \in Keys |-> NULL]
    /\ hint = [k \in Keys |-> 0]
    /\ allocated = {}
    /\ pc = "idle" /\ op = "find" /\ a \in Keys
    /\ n = NULL /\ p = NULL
    /\ result = FALSE

\* Mutant of Put: nothing is changed.
PutNot(f, k, v) == f

\* f with f[k] changed to v, if k is a node.
Put(f, k, v) == IF k = NULL THEN f ELSE [f EXCEPT ![k] = v]

\* left and right after the child m of k has been replaced by x.
LeftWith(f, k, m, x) == IF k # NULL /\ left[k] = m THEN [f EXCEPT ![k] = x] ELSE f
RightWith(f, k, m, x) == IF k # NULL /\ left[k] # m THEN [f EXCEPT ![k] = x] ELSE f

\* Mutant of RootWith: the root pointer is not changed.
RootWithKeep(k, x) == root

\* The root pointer after k has been replaced by x.
RootWith(k, x) == IF k = root THEN x ELSE root

-----------------------------------------------------------------------------
(* Rotation and update *)

\* The left child l of k takes its place.
st_rotate_left(k) ==
    LET l == left[k] IN
    /\ left' = LeftWith([left EXCEPT ![k] = right[l]], parent[k], k, l)
    /\ right' = RightWith([right EXCEPT ![l] = k], parent[k], k, l)
    /\ parent' = Put([parent EXCEPT ![l] = parent[k], ![k] = l], right[l], k)

\* The right child r of k takes its place.
st_rotate_right(k) ==
    LET r == right[k] IN
    /\ left' = LeftWith([left EXCEPT ![r] = k], parent[k], k, r)
    /\ right' = RightWith([right EXCEPT ![k] = left[r]], parent[k], k, r)
    /\ parent' = Put([parent EXCEPT ![r] = parent[k], ![k] = r], left[r], k)

Rank(k) == IF k = NULL THEN 0 ELSE hint[k] + 1
st_balance(k) == Rank(left[k]) - Rank(right[k])
Larger(x, y) == IF x > y THEN x ELSE y

\* A node that leans to one side by its children's hints is rotated.
Rotate ==
    \/ /\ st_balance(n) < -1
       /\ root' = RootWith(n, right[n])
       /\ st_rotate_right(n)
    \/ /\ st_balance(n) > 1
       /\ root' = RootWith(n, left[n])
       /\ st_rotate_left(n)
    \/ /\ st_balance(n) \in -1 .. 1
       /\ UNCHANGED <<root, left, right, parent>>

\* Mutant of Above: it is k itself.
AboveSame(k) == k

Above(k) == parent[k]

\* st_update goes on with the former parent of n if the hint of n changed or
\* is zero.
Update ==
    /\ pc = "update" /\ n # NULL
    /\ Rotate
    /\ hint' = [hint EXCEPT ![n] = Larger(Rank(left'[n]), Rank(right'[n]))]
    /\ n' = IF hint'[n] = 0 \/ hint'[n] # hint[n] THEN Above(n) ELSE NULL
    /\ UNCHANGED <<allocated, pc, op, a, p, result>>

UpdateEnd ==
    /\ pc = "update" /\ n = NULL
    /\ pc' = IF op = "remove" THEN "free" ELSE "idle"
    /\ UNCHANGED <<tree, allocated, op, a, n, p, result>>

-----------------------------------------------------------------------------
(* Insertion and removal *)

\* Mutant of GoesLeft: the sides are swapped.
GoesRight(x, y) == x > y

\* x is inserted to the left of y.
GoesLeft(x, y) == x < y

\* The new node a becomes the root, or a child of p, where the search ended.
Insert ==
    /\ pc = "search" /\ n = NULL /\ op = "insert"
    /\ result' = FALSE
    /\ allocated' = allocated \cup {a}
    /\ IF root = NULL
         THEN /\ root' = a /\ pc' = "idle"
              /\ UNCHANGED <<left, right, parent, n>>
         ELSE /\ IF GoesLeft(a, p)
                   THEN left' = [left EXCEPT ![p] = a] /\ UNCHANGED right
                   ELSE right' = [right EXCEPT ![p] = a] /\ UNCHANGED left
              /\ parent' = [parent EXCEPT ![a] = p]
              /\ n' = a /\ pc' = "update"
              /\ UNCHANGED root
    /\ UNCHANGED <<hint, op, a, p>>

\* The nodes on the way from k along f, which is left or right, f-most last.
Path(f, k) ==
    LET walk[i \in 0 .. Cardinality(Keys)] ==
            IF i = 0 \/ walk[i - 1] = NULL THEN k
            ELSE IF f[walk[i - 1]] = NULL THEN walk[i - 1] ELSE f[walk[i - 1]]
    IN  walk
st_first(k) == Path(left, k)[Cardinality(Keys)]
st_last(k) == Path(right, k)[Cardinality(Keys)]

\* r, the first node in the right subtree of k, takes the place of k, and the
\* right subtree of r the place of r.
st_replace_right(k, r) ==
    LET rp == parent[r]
        deep == left[rp] = r
        up == IF deep THEN [left EXCEPT ![rp] = right[r]] ELSE left
        upParent == [IF deep THEN Put(parent, right[r], rp) ELSE parent
                        EXCEPT ![rp] = IF @ = k THEN r ELSE @]
        down == IF right[k] # r THEN [right EXCEPT ![r] = right[k]] ELSE right
        downParent == IF right[k] # r THEN [upParent EXCEPT ![right[k]] = r] ELSE upParent
    IN  /\ left' = LeftWith([up EXCEPT ![r] = left[k]], parent[k], k, r)
        /\ right' = RightWith(down, parent[k], k, r)
        /\ parent' = Put([downParent EXCEPT ![r] = parent[k]], left[k], r)

\* l, the last node in the left subtree of k, takes the place of k, and the
\* left subtree of l the place of l.
st_replace_left(k, l) ==
    LET lp == parent[l]
        deep == right[lp] = l
        up == IF deep THEN [right EXCEPT ![lp] = left[l]] ELSE right
        upParent == [IF deep THEN Put(parent, left[l], lp) ELSE parent
                        EXCEPT ![lp] = IF @ = k THEN l ELSE @]
        down == IF left[k] # l THEN [left EXCEPT ![l] = left[k]] ELSE left
        downParent == IF left[k] # l THEN [upParent EXCEPT ![left[k]] = l] ELSE upParent
    IN  /\ left' = LeftWith(down, parent[k], k, l)
        /\ right' = RightWith([up EXCEPT ![l] = right[k]], parent[k], k, l)
        /\ parent' = Put([downParent EXCEPT ![l] = parent[k]], right[k], l)

\* st_remove takes the node n out of the tree and says where to update.
Remove ==
    /\ pc = "search" /\ n = a /\ op = "remove"
    /\ result' = TRUE
    /\ \/ LET least == st_first(right[n]) IN
          /\ right[n] # NULL
          /\ root' = RootWith(n, least)
          /\ st_replace_right(n, least)
          /\ n' = right'[least]
       \/ LET most == st_last(left[n]) IN
          /\ right[n] = NULL /\ left[n] # NULL
          /\ root' = RootWith(n, most)
          /\ st_replace_left(n, most)
          /\ n' = left'[most]
       \/ /\ right[n] = NULL /\ left[n] = NULL
          /\ root' = RootWith(n, NULL)
          /\ left' = LeftWith(left, parent[n], n, NULL)
          /\ right' = RightWith(right, parent[n], n, NULL)
          /\ n' = parent[n]
          /\ UNCHANGED parent
    /\ pc' = "update"
    /\ UNCHANGED <<hint, allocated, op, a, p>>

\* treeint_remove frees the node.  What it contained does not matter: a new
\* node is cleared.
Free ==
    /\ pc = "free"
    /\ allocated' = allocated \ {a}
    /\ left' = [left EXCEPT ![a] = NULL]
    /\ right' = [right EXCEPT ![a] = NULL]
    /\ parent' = [parent EXCEPT ![a] = NULL]
    /\ hint' = [hint EXCEPT ![a] = 0]
    /\ pc' = "idle"
    /\ UNCHANGED <<root, op, a, n, p, result>>

-----------------------------------------------------------------------------
(* The operations *)

Call ==
    /\ pc = "idle"
    /\ op' \in Ops /\ a' \in Keys
    /\ pc' = "search" /\ n' = root /\ p' = NULL
    /\ UNCHANGED <<tree, allocated, result>>

\* One turn of the search loop.
Search ==
    /\ pc = "search" /\ n \notin {NULL, a}
    /\ p' = n
    /\ n' = IF a < n THEN left[n] ELSE right[n]
    /\ UNCHANGED <<tree, allocated, pc, op, a, result>>

\* The search ends without a change.
Found ==
    /\ pc = "search" /\ n = a /\ op # "remove"
    /\ result' = TRUE
    /\ pc' = "idle"
    /\ UNCHANGED <<tree, allocated, op, a, n, p>>

NotFound ==
    /\ pc = "search" /\ n = NULL /\ op # "insert"
    /\ result' = FALSE
    /\ pc' = "idle"
    /\ UNCHANGED <<tree, allocated, op, a, n, p>>

\* The nodes from k downwards.
Under(k) ==
    LET down[i \in 0 .. Cardinality(Keys)] ==
            IF i = 0 THEN {k} \ {NULL}
            ELSE LET d == down[i - 1]
                 IN  (d \cup {left[m] : m \in d} \cup {right[m] : m \in d}) \ {NULL}
    IN  down[Cardinality(Keys)]

\* treeint_destroy
Destroy ==
    LET freed == Under(root)
        Cleared(f, v) == [k \in Keys |-> IF k \in freed THEN v ELSE f[k]]
    IN  /\ pc = "idle"
        /\ allocated' = allocated \ freed
        /\ root' = NULL
        /\ left' = Cleared(left, NULL) /\ right' = Cleared(right, NULL)
        /\ parent' = Cleared(parent, NULL) /\ hint' = Cleared(hint, 0)
        /\ pc' = "destroyed"
        /\ UNCHANGED <<op, a, n, p, result>>

Ended == pc = "destroyed" /\ UNCHANGED vars

Step == Search \/ Found \/ NotFound \/ Insert \/ Remove \/ Update \/ UpdateEnd \/ Free

Next == Call \/ Step \/ Destroy \/ Ended

\* The program makes calls as it likes, and finishes each of them.
Spec == Init /\ [][Next]_vars /\ WF_vars(Step)

-----------------------------------------------------------------------------
(* Properties *)

\* The nodes of the tree: those allocated, without one that is being removed.
Members ==
    IF op = "remove" /\ pc \in {"update", "free"} THEN allocated \ {a} ELSE allocated

\* The parent pointers, along which st_update climbs, agree with the child
\* pointers after every rotation and replacement, at the root too, and no node
\* of the tree points to a node that is not in it.
ParentsAgree ==
    /\ root # NULL => parent[root] = NULL
    /\ \A k \in Members : \A c \in {left[k], right[k]} \ {NULL} :
          c \in Members /\ parent[c] = k

\* Whatever the hints say, rotations and replacements keep the search order,
\* and lose no node: the tree has all that are allocated, and none that were
\* removed.
SearchTree ==
    /\ Under(root) = Members
    /\ \A k \in Members :
          /\ \A m \in Under(left[k]) : m < k
          /\ \A m \in Under(right[k]) : m > k

\* Searching the tree answers like a set, and updates do not change the set.
Abstract == INSTANCE OrderedSet WITH
    set <- Under(root),
    call <- IF pc = "search" THEN <<op, a>> ELSE <<"none">>
ImplementsSet == Abstract!SetSpec

\* Every operation comes to its end, however far st_update climbs.
Returns == []<>(pc \in {"idle", "destroyed"})

\* The comment at the beginning of the file calls the tree self-balancing, with
\* hints that approximate the longest chain under a node: then a tree of five
\* nodes would not be a list.
Chain == \A k \in allocated : left[k] = NULL \/ right[k] = NULL
NotAList == pc = "idle" /\ Cardinality(allocated) >= 5 => ~Chain
=============================================================================
