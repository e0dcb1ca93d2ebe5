----------------------------- MODULE STreeProofs -----------------------------
(***************************************************************************)
(* Theorems about the tree of homework1/test_alpha/main.c, for any finite  *)
(* set of integers as its values and any hints.                            *)
(***************************************************************************)
EXTENDS STree, FiniteSetTheorems, WellFoundedInduction, TLAPS

-----------------------------------------------------------------------------
(* Trees.  l and r are the child pointers, u the parent pointers, top is the *)
(* root and M the set of the nodes; sub[k] is the set of the nodes of the    *)
(* subtree of k, and R an order of the values: the nodes in the subtree of   *)
(* l[k] come before k.  A mirrored tree is a tree for the reverse order.     *)

Strict(R) ==
    /\ \A x \in Keys : <<x, x>> \notin R
    /\ \A x, y, z \in Keys : <<x, y>> \in R /\ <<y, z>> \in R => <<x, z>> \in R

Typed(l, r, u, top, M, sub) ==
    /\ M \subseteq Keys
    /\ top \in M \cup {NULL}
    /\ l \in [Keys -> Pointers]
    /\ r \in [Keys -> Pointers]
    /\ u \in [Keys -> Pointers]
    /\ sub \in [Pointers -> SUBSET M]
    /\ sub[NULL] = {}
    /\ sub[top] = M
    /\ top # NULL => u[top] = NULL

\* The parent of a child is the node it is the child of.
Agree(f, u, M) ==
    \A k \in M : /\ f[k] \in M \cup {NULL}
                 /\ f[k] # NULL => u[f[k]] = k

\* A subtree is its node between the two subtrees of it.
Split(l, r, M, sub, R) ==
    \A k \in M : /\ sub[k] = sub[l[k]] \cup {k} \cup sub[r[k]]
                 /\ \A m \in sub[l[k]] : <<m, k>> \in R
                 /\ \A m \in sub[r[k]] : <<k, m>> \in R

\* From a node of a subtree, its parent is one step nearer to the top of it.
Climb(l, r, u, M, sub) ==
    \A k \in M : \A m \in sub[k] :
        /\ sub[m] \subseteq sub[k]
        /\ m # k => u[m] \in sub[k] /\ m \in {l[u[m]], r[u[m]]}

Tree(l, r, u, top, M, sub, R) ==
    /\ Typed(l, r, u, top, M, sub)
    /\ Agree(l, u, M)
    /\ Agree(r, u, M)
    /\ Split(l, r, M, sub, R)
    /\ Climb(l, r, u, M, sub)

LEMMA NullIsNoKey == NULL \notin Keys
  BY STreeAssumption

LEMMA TreeFacts ==
    ASSUME NEW l, NEW r, NEW u, NEW top, NEW M, NEW sub, NEW R,
           Tree(l, r, u, top, M, sub, R), Strict(R), NEW k \in M
    PROVE  /\ k \in Keys /\ k # NULL
           /\ k \in sub[k] /\ sub[k] \subseteq M
           /\ k \notin sub[l[k]] /\ k \notin sub[r[k]]
           /\ sub[l[k]] \subseteq sub[k] /\ sub[r[k]] \subseteq sub[k]
           /\ \A m \in sub[l[k]] : m \notin sub[r[k]]
<1>1. k \in Keys /\ k # NULL /\ M \subseteq Keys
  BY NullIsNoKey DEF Tree, Typed
<1>2. sub[k] = sub[l[k]] \cup {k} \cup sub[r[k]]
  BY DEF Tree, Split
<1>3. k \in Pointers /\ sub[k] \subseteq M
  BY <1>1 DEF Tree, Typed, Pointers
<1>4. \A m \in sub[l[k]] : m \in Keys /\ <<m, k>> \in R
  BY <1>1, <1>2, <1>3 DEF Tree, Split
<1>5. \A m \in sub[r[k]] : m \in Keys /\ <<k, m>> \in R
  BY <1>1, <1>2, <1>3 DEF Tree, Split
<1>6. \A m \in sub[l[k]] : m \notin sub[r[k]]
  BY <1>1, <1>4, <1>5 DEF Strict
<1> QED
  BY <1>1, <1>2, <1>3, <1>4, <1>5, <1>6 DEF Strict

\* A child and its subtree.
LEMMA ChildFacts ==
    ASSUME NEW l, NEW r, NEW u, NEW top, NEW M, NEW sub, NEW R,
           Tree(l, r, u, top, M, sub, R), Strict(R), NEW k \in M,
           NEW c \in {l[k], r[k]}, c # NULL
    PROVE  /\ c \in M /\ u[c] = k /\ c \in sub[k] /\ c # k
           /\ k \notin sub[c] /\ sub[c] \subseteq sub[k]
           /\ l[k] # r[k]
<1>1. c \in M /\ u[c] = k
  BY DEF Tree, Agree
<1>2. c \in sub[c]
  BY <1>1, TreeFacts
<1>3. sub[c] \subseteq sub[k] /\ k \notin sub[c] /\ k \in sub[k]
  BY TreeFacts
<1>4. l[k] # r[k]
  BY <1>2, TreeFacts
<1> QED
  BY <1>1, <1>2, <1>3, <1>4

\* Two nodes are not under each other.
LEMMA SubtreesNest ==
    ASSUME NEW l, NEW r, NEW u, NEW top, NEW M, NEW sub, NEW R,
           Tree(l, r, u, top, M, sub, R), Strict(R), NEW k \in M,
           NEW m \in sub[k], k \in sub[m]
    PROVE  m = k
<1>1. SUFFICES ASSUME m # k PROVE FALSE
  OBVIOUS
<1>2. m \in M
  BY TreeFacts
<1>3. sub[k] \subseteq sub[m] /\ m \in sub[m]
  BY <1>2, TreeFacts DEF Tree, Climb
<1>4. sub[m] = sub[l[m]] \cup {m} \cup sub[r[m]] /\ m \notin sub[l[m]] /\ m \notin sub[r[m]]
  BY <1>2, TreeFacts DEF Tree, Split
<1>5. PICK c \in {l[m], r[m]} : k \in sub[c]
  BY <1>1, <1>4
<1>6. c # NULL
  BY <1>5 DEF Tree, Typed
<1>7. c \in M
  BY <1>2, <1>6, ChildFacts
<1>8. sub[k] \subseteq sub[c]
  BY <1>5, <1>7 DEF Tree, Climb
<1> QED
  BY <1>4, <1>8

\* The parent of a node that is not the top.
LEMMA ParentFacts ==
    ASSUME NEW l, NEW r, NEW u, NEW top, NEW M, NEW sub, NEW R,
           Tree(l, r, u, top, M, sub, R), Strict(R), NEW k \in M
    PROVE  /\ k = top <=> u[k] = NULL
           /\ k # top => /\ u[k] \in M /\ u[k] # k
                         /\ k \in {l[u[k]], r[u[k]]}
                         /\ k \in sub[u[k]] /\ u[k] \notin sub[k]
<1>1. k # NULL
  BY TreeFacts
<1>2. k = top => u[k] = NULL
  BY <1>1 DEF Tree, Typed
<1>3. CASE k # top
  <2>1. sub[top] = M /\ top \in M
    BY DEF Tree, Typed
  <2>2. u[k] \in M /\ k \in {l[u[k]], r[u[k]]}
    BY <1>3, <2>1 DEF Tree, Climb
  <2>3. k \in sub[u[k]] /\ u[k] # k /\ u[k] \notin sub[k]
    BY <1>1, <2>2, ChildFacts
  <2>4. u[k] # NULL
    BY <2>2, TreeFacts
  <2> QED
    BY <1>3, <2>2, <2>3, <2>4
<1> QED
  BY <1>2, <1>3

\* A node has one parent, and is on one side of it.
LEMMA OnlyParent ==
    ASSUME NEW l, NEW r, NEW u, NEW top, NEW M, NEW sub, NEW R,
           Tree(l, r, u, top, M, sub, R), Strict(R), NEW k \in M, NEW j \in M
    PROVE  /\ l[j] = k => u[k] = j /\ r[j] # k /\ k # top
           /\ r[j] = k => u[k] = j /\ l[j] # k /\ k # top
<1>1. k # NULL /\ j # NULL
  BY TreeFacts
<1>2. ASSUME k \in {l[j], r[j]} PROVE u[k] = j /\ l[j] # r[j]
  BY <1>1, <1>2, ChildFacts
<1>3. u[k] = j => k # top
  BY <1>1, ParentFacts
<1> QED
  BY <1>2, <1>3

\* The mirror image.
LEMMA MirrorTree ==
    ASSUME NEW l, NEW r, NEW u, NEW top, NEW M, NEW sub, NEW R, NEW Q,
           \A x, y \in Keys : <<x, y>> \in R <=> <<y, x>> \in Q,
           Tree(l, r, u, top, M, sub, R)
    PROVE  Tree(r, l, u, top, M, sub, Q)
<1>1. Typed(r, l, u, top, M, sub) /\ Agree(l, u, M) /\ Agree(r, u, M)
  BY DEF Tree, Typed
<1>2. \A k \in M : k \in Keys /\ sub[k] \subseteq Keys
  BY DEF Tree, Typed, Pointers
<1>3. Split(r, l, M, sub, Q)
  <2>1. SUFFICES ASSUME NEW k \in M
                 PROVE  /\ sub[k] = sub[r[k]] \cup {k} \cup sub[l[k]]
                        /\ \A m \in sub[r[k]] : <<m, k>> \in Q
                        /\ \A m \in sub[l[k]] : <<k, m>> \in Q
    BY DEF Split
  <2>2. /\ sub[k] = sub[l[k]] \cup {k} \cup sub[r[k]]
        /\ \A m \in sub[l[k]] : <<m, k>> \in R
        /\ \A m \in sub[r[k]] : <<k, m>> \in R
    BY DEF Tree, Split
  <2>3. sub[l[k]] \subseteq Keys /\ sub[r[k]] \subseteq Keys
    BY <1>2, <2>2
  <2> QED
    BY <1>2, <2>2, <2>3
<1>4. Climb(r, l, u, M, sub)
  BY DEF Tree, Climb
<1> QED
  BY <1>1, <1>3, <1>4 DEF Tree

-----------------------------------------------------------------------------
(* Rotation *)

\* The child c of k, which is on the side of r, takes the place of k.
Rotated(l, r, u, M, k, c, l2, r2, u2) ==
    \A j \in M :
        /\ l2[j] = IF j = c THEN k ELSE IF l[j] = k THEN c ELSE l[j]
        /\ r2[j] = IF j = k THEN l[c] ELSE IF r[j] = k THEN c ELSE r[j]
        /\ u2[j] = IF j = k THEN c ELSE IF j = c THEN u[k]
                   ELSE IF j = l[c] THEN k ELSE u[j]

RotatedSub(l, sub, k, c) ==
    [sub EXCEPT ![k] = sub[l[k]] \cup {k} \cup sub[l[c]], ![c] = sub[k]]

LEMMA RotateTree ==
    ASSUME NEW l, NEW r, NEW u, NEW top, NEW M, NEW sub, NEW R,
           Tree(l, r, u, top, M, sub, R), Strict(R),
           NEW k \in M, NEW c, c = r[k], c # NULL,
           NEW l2 \in [Keys -> Pointers], NEW r2 \in [Keys -> Pointers],
           NEW u2 \in [Keys -> Pointers],
           Rotated(l, r, u, M, k, c, l2, r2, u2),
           NEW top2, top2 = IF k = top THEN c ELSE top
    PROVE  Tree(l2, r2, u2, top2, M, RotatedSub(l, sub, k, c), R)
<1> DEFINE sub2 == RotatedSub(l, sub, k, c)
<1>1. /\ M \subseteq Keys /\ M \subseteq Pointers /\ NULL \in Pointers /\ NULL \notin M
      /\ sub \in [Pointers -> SUBSET M] /\ sub[NULL] = {} /\ sub[top] = M
      /\ top \in M \cup {NULL}
  BY NullIsNoKey DEF Tree, Typed, Pointers
<1>2. c \in M /\ u[c] = k /\ c \in sub[k] /\ c # k /\ k \notin sub[c] /\ l[k] # c
  BY ChildFacts
<1>3. /\ \A j \in M : l[j] \in M \cup {NULL} /\ r[j] \in M \cup {NULL}
      /\ \A j \in M : (l[j] # NULL => u[l[j]] = j) /\ (r[j] # NULL => u[r[j]] = j)
  BY DEF Tree, Agree
<1>4. /\ \A j \in M : sub[j] = sub[l[j]] \cup {j} \cup sub[r[j]]
      /\ \A j \in M : \A m \in sub[l[j]] : <<m, j>> \in R
      /\ \A j \in M : \A m \in sub[r[j]] : <<j, m>> \in R
  BY DEF Tree, Split
<1>5. \A j \in M : \A m \in sub[j] :
          sub[m] \subseteq sub[j] /\ (m # j => u[m] \in sub[j] /\ m \in {l[u[m]], r[u[m]]})
  BY DEF Tree, Climb
<1>6. \A j \in M : /\ j \in sub[j] /\ sub[j] \subseteq M
                   /\ j \notin sub[l[j]] /\ j \notin sub[r[j]]
                   /\ \A m \in sub[l[j]] : m \notin sub[r[j]]
  BY TreeFacts
<1>7. \A j \in M : /\ j = top <=> u[j] = NULL
                   /\ j # top => /\ u[j] \in M /\ u[j] # j
                                 /\ j \in {l[u[j]], r[u[j]]}
                                 /\ j \in sub[u[j]] /\ u[j] \notin sub[j]
  BY ParentFacts
<1>8. \A j, m \in M : m \in sub[j] /\ j \in sub[m] => m = j
  BY SubtreesNest
<1>9. /\ sub2[k] = sub[l[k]] \cup {k} \cup sub[l[c]]
      /\ sub2[c] = sub[k]
      /\ \A j \in Pointers : j # k /\ j # c => sub2[j] = sub[j]
      /\ sub2 \in [Pointers -> SUBSET M]
  <2>1. sub[l[k]] \subseteq M /\ sub[l[c]] \subseteq M /\ sub[k] \subseteq M
    BY <1>1, <1>2, <1>3
  <2> QED
    BY <1>1, <1>2, <2>1 DEF RotatedSub
<1> HIDE DEF sub2
<1>10. sub[c] = sub[l[c]] \cup {c} \cup sub[r[c]] /\ sub[k] = sub[l[k]] \cup {k} \cup sub[c]
  BY <1>2, <1>4
<1>11. u[k] # c
  BY <1>1, <1>2, <1>7
<1>12. \A j \in M : /\ l2[j] = IF j = c THEN k ELSE IF l[j] = k THEN c ELSE l[j]
                    /\ r2[j] = IF j = k THEN l[c] ELSE IF r[j] = k THEN c ELSE r[j]
                    /\ u2[j] = IF j = k THEN c ELSE IF j = c THEN u[k]
                               ELSE IF j = l[c] THEN k ELSE u[j]
  BY DEF Rotated
<1>13. Typed(l2, r2, u2, top2, M, sub2)
  <2>1. top2 \in M \cup {NULL} /\ sub2[NULL] = {}
    BY <1>1, <1>2, <1>9
  <2>2. sub2[top2] = M
    <3>1. CASE k = top
      BY <1>1, <1>9, <3>1
    <3>2. CASE k # top
      <4>1. c # top
        BY <1>1, <1>2, <1>7
      <4> QED
        BY <1>1, <1>9, <3>2, <4>1
    <3> QED
      BY <3>1, <3>2
  <2>3. top2 # NULL => u2[top2] = NULL
    <3>1. CASE k = top
      BY <1>2, <1>7, <1>12, <3>1
    <3>2. CASE k # top /\ top # NULL
      <4>1. c # top /\ l[c] # top
        BY <1>1, <1>2, <1>3, <1>7
      <4> QED
        BY <1>1, <1>7, <1>12, <3>2, <4>1
    <3> QED
      BY <3>1, <3>2
  <2> QED
    BY <1>1, <1>9, <2>1, <2>2, <2>3 DEF Typed
<1>14. l[c] # c /\ l[c] # k /\ l[k] # k
  BY <1>1, <1>2, <1>3, <1>6, <1>7, <1>11
<1>15. Agree(l2, u2, M)
  <2>1. SUFFICES ASSUME NEW j \in M
                 PROVE  l2[j] \in M \cup {NULL} /\ (l2[j] # NULL => u2[l2[j]] = j)
    BY DEF Agree
  <2>2. CASE j = c
    BY <1>12, <2>2
  <2>3. CASE j # c /\ l[j] = k
    <3>1. u[k] = j /\ l2[j] = c
      BY <1>1, <1>3, <1>12, <2>3
    <3> QED
      BY <1>2, <1>12, <3>1
  <2>4. CASE j # c /\ l[j] # k
    <3>1. l2[j] = l[j]
      BY <1>12, <2>4
    <3>2. l[j] # c
      BY <1>1, <1>2, <1>3
    <3>3. l[j] # NULL => l[j] # l[c]
      BY <1>2, <1>3, <2>4
    <3> QED
      BY <1>3, <1>12, <2>4, <3>1, <3>2, <3>3
  <2> QED
    BY <2>2, <2>3, <2>4
<1>16. Agree(r2, u2, M)
  <2>1. SUFFICES ASSUME NEW j \in M
                 PROVE  r2[j] \in M \cup {NULL} /\ (r2[j] # NULL => u2[r2[j]] = j)
    BY DEF Agree
  <2>2. CASE j = k
    BY <1>2, <1>3, <1>12, <1>14, <2>2
  <2>3. CASE j # k /\ r[j] = k
    <3>1. u[k] = j /\ r2[j] = c
      BY <1>1, <1>3, <1>12, <2>3
    <3> QED
      BY <1>2, <1>12, <3>1
  <2>4. CASE j # k /\ r[j] # k
    <3>1. r2[j] = r[j]
      BY <1>12, <2>4
    <3>2. r[j] # NULL => r[j] # c
      BY <1>2, <1>3, <2>4
    <3>3. r[j] # NULL => r[j] # l[c]
      <4>1. SUFFICES ASSUME r[j] # NULL, r[j] = l[c] PROVE FALSE
        OBVIOUS
      <4>2. j = c
        BY <1>2, <1>3, <4>1
      <4> QED
        BY <1>1, <1>2, <1>3, <1>6, <4>1, <4>2
    <3> QED
      BY <1>3, <1>12, <2>4, <3>1, <3>2, <3>3
  <2> QED
    BY <2>2, <2>3, <2>4
<1>17. ASSUME NEW j \in M, j # c, j # k
       PROVE  sub2[l2[j]] = sub[l[j]] /\ sub2[r2[j]] = sub[r[j]]
  <2>1. l[j] # c /\ r[j] # c
    BY <1>1, <1>2, <1>3, <1>17
  <2>2. sub2[c] = sub[k]
    BY <1>9
  <2>3. l[j] # k => sub2[l2[j]] = sub[l[j]]
    <3>1. l[j] \in Pointers
      BY <1>1, <1>3
    <3> QED
      BY <1>9, <1>12, <1>17, <2>1, <3>1
  <2>4. r[j] # k => sub2[r2[j]] = sub[r[j]]
    <3>1. r[j] \in Pointers
      BY <1>1, <1>3
    <3> QED
      BY <1>9, <1>12, <1>17, <2>1, <3>1
  <2> QED
    BY <1>12, <1>17, <2>2, <2>3, <2>4
<1>18. sub2[l2[k]] = sub[l[k]] /\ sub2[r2[k]] = sub[l[c]]
  <2>1. l[k] \in Pointers /\ l[c] \in Pointers
    BY <1>1, <1>2, <1>3
  <2> QED
    BY <1>2, <1>9, <1>12, <1>14, <2>1
<1>19. sub2[l2[c]] = sub2[k] /\ sub2[r2[c]] = sub[r[c]]
  <2>1. r[c] \in Pointers /\ r[c] # k /\ r[c] # c
    BY <1>1, <1>2, <1>3, <1>6, <1>11
  <2> QED
    BY <1>2, <1>9, <1>12, <2>1
<1>20. Split(l2, r2, M, sub2, R)
  <2>1. SUFFICES ASSUME NEW j \in M
                 PROVE  /\ sub2[j] = sub2[l2[j]] \cup {j} \cup sub2[r2[j]]
                        /\ \A m \in sub2[l2[j]] : <<m, j>> \in R
                        /\ \A m \in sub2[r2[j]] : <<j, m>> \in R
    BY DEF Split
  <2>2. CASE j # c /\ j # k
    <3>1. sub2[j] = sub[j]
      BY <1>1, <1>9, <2>2
    <3> QED
      BY <1>4, <1>17, <2>2, <3>1
  <2>3. CASE j = k
    <3>1. sub[l[c]] \subseteq sub[c]
      BY <1>10
    <3> QED
      BY <1>4, <1>9, <1>18, <2>3, <3>1
  <2>4. CASE j = c
    <3>1. sub2[j] = sub2[l2[j]] \cup {j} \cup sub2[r2[j]]
      BY <1>9, <1>10, <1>19, <2>4
    <3>2. ASSUME NEW m \in sub2[k] PROVE <<m, c>> \in R
      <4>1. <<k, c>> \in R
        BY <1>2, <1>4, <1>6
      <4>2. m \in Keys /\ k \in Keys /\ c \in Keys
        BY <1>1, <1>2, <1>9, <3>2
      <4>3. CASE m \in sub[l[k]]
        BY <1>4, <4>1, <4>2, <4>3 DEF Strict
      <4>4. CASE m = k
        BY <4>1, <4>4
      <4>5. CASE m \in sub[l[c]]
        BY <1>2, <1>4, <4>5
      <4> QED
        BY <1>9, <3>2, <4>3, <4>4, <4>5
    <3> QED
      BY <1>2, <1>4, <1>19, <2>4, <3>1, <3>2
  <2> QED
    BY <2>2, <2>3, <2>4
<1>21. ASSUME NEW m \in M PROVE sub2[m] \subseteq sub[m] \/ m = c
  BY <1>1, <1>9, <1>10, <1>21
<1>22. ASSUME NEW m \in M, m # top2 PROVE m \in {l2[u2[m]], r2[u2[m]]}
  <2>1. CASE m = k
    BY <1>2, <1>12, <2>1
  <2>2. CASE m = c
    <3>1. k # top
      BY <1>22, <2>2
    <3>2. u2[m] = u[k] /\ u[k] \in M /\ k \in {l[u[k]], r[u[k]]} /\ u[k] # c /\ u[k] # k
      BY <1>2, <1>7, <1>11, <1>12, <2>2, <3>1
    <3> QED
      BY <1>12, <2>2, <3>2
  <2>3. CASE m = l[c] /\ m # k /\ m # c
    BY <1>2, <1>12, <2>3
  <2>4. CASE m # k /\ m # c /\ m # l[c]
    <3>1. m # top
      BY <1>1, <1>2, <1>7, <1>22, <2>4
    <3>2. u2[m] = u[m] /\ u[m] \in M /\ m \in {l[u[m]], r[u[m]]}
      BY <1>7, <1>12, <2>4, <3>1
    <3>3. l[u[m]] = m => l2[u[m]] = m
      BY <1>12, <2>4, <3>2
    <3>4. r[u[m]] = m => u[m] # k /\ r2[u[m]] = m
      BY <1>12, <2>4, <3>2
    <3> QED
      BY <3>2, <3>3, <3>4
  <2> QED
    BY <2>1, <2>2, <2>3, <2>4
<1>23. ASSUME NEW j \in M, NEW m \in sub2[j]
       PROVE  sub2[m] \subseteq sub2[j] /\ (m # j => u2[m] \in sub2[j])
  <2>1. m \in M
    BY <1>1, <1>9, <1>23
  <2>2. CASE j # c /\ j # k
    <3>1. sub2[j] = sub[j] /\ m \in sub[j]
      BY <1>1, <1>9, <1>23, <2>2
    <3>2. CASE m = c
      <4>1. k \in sub[j]
        BY <1>2, <1>5, <2>2, <3>1, <3>2
      <4>2. sub[k] \subseteq sub[j] /\ u[k] \in sub[j]
        BY <1>5, <2>2, <4>1
      <4> QED
        BY <1>2, <1>9, <1>12, <3>1, <3>2, <4>2
    <3>3. CASE m = k
      <4>1. sub2[k] \subseteq sub[k] /\ sub[k] \subseteq sub[j]
        BY <1>5, <1>9, <1>10, <3>1, <3>3
      <4> QED
        BY <1>2, <1>12, <3>1, <3>3, <4>1
    <3>4. CASE m # c /\ m # k
      <4>1. sub2[m] = sub[m] /\ sub[m] \subseteq sub[j]
        BY <1>1, <1>5, <1>9, <2>1, <3>1, <3>4
      <4>2. m # j => u[m] \in sub[j]
        BY <1>5, <3>1
      <4>3. m = l[c] /\ m # j => k \in sub[j]
        <5>1. SUFFICES ASSUME m = l[c], m # j PROVE k \in sub[j]
          OBVIOUS
        <5>2. u[m] = c
          BY <1>1, <1>2, <1>3, <2>1, <5>1
        <5>3. c \in sub[j]
          BY <4>2, <5>1, <5>2
        <5> QED
          BY <1>2, <1>5, <2>2, <5>3
      <4> QED
        BY <1>12, <2>1, <3>1, <3>4, <4>1, <4>2, <4>3
    <3> QED
      BY <3>2, <3>3, <3>4
  <2>3. CASE j = c
    <3>1. sub2[j] = sub[k] /\ m \in sub[k]
      BY <1>9, <1>23, <2>3
    <3>2. sub2[m] \subseteq sub[k]
      BY <1>2, <1>5, <1>9, <1>21, <2>1, <3>1
    <3>3. m # c => u2[m] \in sub[k]
      BY <1>2, <1>5, <1>6, <1>12, <2>1, <3>1
    <3> QED
      BY <2>3, <3>1, <3>2, <3>3
  <2>4. CASE j = k
    <3>1. sub2[j] = sub[l[k]] \cup {k} \cup sub[l[c]]
      BY <1>9, <2>4
    <3>2. c \notin sub[l[k]] /\ c \notin sub[l[c]] /\ k \notin sub[l[c]] /\ k \notin sub[l[k]]
      BY <1>2, <1>6, <1>10
    <3>3. ASSUME m \in sub[l[k]], m # k
          PROVE  sub[m] \subseteq sub[l[k]] /\ u2[m] \in sub[l[k]] \cup {k}
      <4>1. l[k] \in M
        BY <1>1, <1>3, <3>3
      <4>2. sub[m] \subseteq sub[l[k]] /\ (m # l[k] => u[m] \in sub[l[k]])
        BY <1>5, <3>3, <4>1
      <4>3. m # c /\ m # l[c]
        <5>1. l[c] # NULL => l[c] \in sub[c]
          BY <1>1, <1>2, <1>3, <1>6, <1>10
        <5> QED
          BY <1>1, <1>6, <2>1, <3>2, <3>3, <5>1
      <4>4. u2[m] = u[m]
        BY <1>12, <2>1, <3>3, <4>3
      <4>5. m = l[k] => u[m] = k
        BY <1>1, <1>3, <2>1
      <4> QED
        BY <4>2, <4>4, <4>5
    <3>4. ASSUME m \in sub[l[c]], m # k
          PROVE  sub[m] \subseteq sub[l[c]] /\ u2[m] \in sub[l[c]] \cup {k}
      <4>1. l[c] \in M
        BY <1>1, <1>2, <1>3, <3>4
      <4>2. sub[m] \subseteq sub[l[c]] /\ (m # l[c] => u[m] \in sub[l[c]])
        BY <1>5, <3>4, <4>1
      <4> QED
        BY <1>12, <2>1, <3>2, <3>4, <4>2
    <3>5. m # c
      BY <1>2, <1>23, <2>4, <3>1, <3>2
    <3>6. m # k => sub2[m] = sub[m]
      BY <1>1, <1>9, <2>1, <3>5
    <3> QED
      BY <1>23, <2>4, <3>1, <3>3, <3>4, <3>6
  <2> QED
    BY <2>2, <2>3, <2>4
<1>24. Climb(l2, r2, u2, M, sub2)
  <2>1. SUFFICES ASSUME NEW j \in M, NEW m \in sub2[j]
                 PROVE  /\ sub2[m] \subseteq sub2[j]
                        /\ m # j => u2[m] \in sub2[j] /\ m \in {l2[u2[m]], r2[u2[m]]}
    BY DEF Climb
  <2>2. m \in M
    BY <1>1, <1>9, <2>1
  <2>3. m = top2 => u2[m] = NULL
    BY <1>1, <1>13, <2>2 DEF Typed
  <2>4. u2[m] \in sub2[j] => u2[m] # NULL
    BY <1>1, <1>9
  <2> QED
    BY <1>22, <1>23, <2>2, <2>3, <2>4
<1> QED
  BY <1>13, <1>15, <1>16, <1>20, <1>24 DEF Tree, sub2

-----------------------------------------------------------------------------
(* Removal.  A node with one child at most is unlinked: its child takes its  *)
(* place.  Then another node can be renamed to it.                           *)

Unlinked(l, r, u, M, k, l2, r2, u2) ==
    \A j \in M \ {k} :
        /\ l2[j] = IF l[j] = k THEN r[k] ELSE l[j]
        /\ r2[j] = IF r[j] = k THEN r[k] ELSE r[j]
        /\ u2[j] = IF j = r[k] THEN u[k] ELSE u[j]

UnlinkedSub(sub, k) == [j \in Pointers |-> sub[j] \ {k}]

LEMMA UnlinkTree ==
    ASSUME NEW l, NEW r, NEW u, NEW top, NEW M, NEW sub, NEW R,
           Tree(l, r, u, top, M, sub, R), Strict(R),
           NEW k \in M, l[k] = NULL,
           NEW l2 \in [Keys -> Pointers], NEW r2 \in [Keys -> Pointers],
           NEW u2 \in [Keys -> Pointers],
           Unlinked(l, r, u, M, k, l2, r2, u2),
           NEW top2, top2 = IF k = top THEN r[k] ELSE top
    PROVE  Tree(l2, r2, u2, top2, M \ {k}, UnlinkedSub(sub, k), R)
<1> DEFINE sub2 == UnlinkedSub(sub, k)
           M2 == M \ {k}
<1>1. /\ M \subseteq Keys /\ M \subseteq Pointers /\ NULL \in Pointers /\ NULL \notin M
      /\ sub \in [Pointers -> SUBSET M] /\ sub[NULL] = {} /\ sub[top] = M
      /\ top \in M \cup {NULL}
  BY NullIsNoKey DEF Tree, Typed, Pointers
<1>2. /\ \A j \in M : l[j] \in M \cup {NULL} /\ r[j] \in M \cup {NULL}
      /\ \A j \in M : (l[j] # NULL => u[l[j]] = j) /\ (r[j] # NULL => u[r[j]] = j)
  BY DEF Tree, Agree
<1>3. /\ \A j \in M : sub[j] = sub[l[j]] \cup {j} \cup sub[r[j]]
      /\ \A j \in M : \A m \in sub[l[j]] : <<m, j>> \in R
      /\ \A j \in M : \A m \in sub[r[j]] : <<j, m>> \in R
  BY DEF Tree, Split
<1>4. \A j \in M : \A m \in sub[j] :
          sub[m] \subseteq sub[j] /\ (m # j => u[m] \in sub[j] /\ m \in {l[u[m]], r[u[m]]})
  BY DEF Tree, Climb
<1>5. \A j \in M : /\ j \in sub[j] /\ sub[j] \subseteq M
                   /\ j \notin sub[l[j]] /\ j \notin sub[r[j]]
                   /\ \A m \in sub[l[j]] : m \notin sub[r[j]]
  BY TreeFacts
<1>6. \A j \in M : /\ j = top <=> u[j] = NULL
                   /\ j # top => /\ u[j] \in M /\ u[j] # j
                                 /\ j \in {l[u[j]], r[u[j]]}
                                 /\ j \in sub[u[j]] /\ u[j] \notin sub[j]
  BY ParentFacts
<1>7. \A j \in Pointers : sub2[j] = sub[j] \ {k}
  BY DEF UnlinkedSub
<1>8. sub2 \in [Pointers -> SUBSET M2]
  BY <1>1 DEF UnlinkedSub
<1>9. \A j \in M2 : /\ l2[j] = IF l[j] = k THEN r[k] ELSE l[j]
                    /\ r2[j] = IF r[j] = k THEN r[k] ELSE r[j]
                    /\ u2[j] = IF j = r[k] THEN u[k] ELSE u[j]
  BY DEF Unlinked
<1> HIDE DEF sub2
<1>10. sub[k] = {k} \cup sub[r[k]] /\ k \notin sub[r[k]] /\ r[k] # k
  BY <1>1, <1>2, <1>3, <1>5
<1>11. r[k] \in M2 \cup {NULL} /\ (r[k] # NULL => u[r[k]] = k)
  BY <1>2, <1>10
<1>12. u[k] # k
  BY <1>1, <1>6
<1>13. Typed(l2, r2, u2, top2, M2, sub2)
  <2>1. top2 \in M2 \cup {NULL} /\ sub2[NULL] = {}
    BY <1>1, <1>7, <1>11
  <2>2. sub2[top2] = M2
    <3>1. CASE k = top
      <4>1. sub2[r[k]] = sub[r[k]] \ {k}
        BY <1>1, <1>7, <1>11
      <4> QED
        BY <1>1, <1>10, <3>1, <4>1
    <3>2. CASE k # top
      BY <1>1, <1>7, <3>2
    <3> QED
      BY <3>1, <3>2
  <2>3. top2 # NULL => u2[top2] = NULL
    <3>1. CASE k = top
      BY <1>6, <1>9, <1>11, <3>1
    <3>2. CASE k # top /\ top # NULL
      <4>1. r[k] # top
        BY <1>1, <1>2, <1>6
      <4> QED
        BY <1>1, <1>6, <1>9, <3>2, <4>1
    <3> QED
      BY <3>1, <3>2
  <2> QED
    BY <1>1, <1>8, <2>1, <2>2, <2>3 DEF Typed
<1>14. ASSUME NEW j \in M2
       PROVE  /\ l[j] = k => j = u[k] /\ u[k] # NULL
              /\ r[j] = k => j = u[k] /\ u[k] # NULL
              /\ l[j] # NULL => l[j] # r[k]
              /\ r[j] # NULL => r[j] # r[k]
  BY <1>1, <1>2
<1>15. Agree(l2, u2, M2)
  <2>1. SUFFICES ASSUME NEW j \in M2
                 PROVE  l2[j] \in M2 \cup {NULL} /\ (l2[j] # NULL => u2[l2[j]] = j)
    BY DEF Agree
  <2>2. CASE l[j] = k
    BY <1>9, <1>11, <1>14, <2>2
  <2>3. CASE l[j] # k
    <3>1. l2[j] = l[j] /\ l[j] \in M2 \cup {NULL}
      BY <1>2, <1>9, <2>3
    <3> QED
      BY <1>2, <1>9, <1>14, <3>1
  <2> QED
    BY <2>2, <2>3
<1>16. Agree(r2, u2, M2)
  <2>1. SUFFICES ASSUME NEW j \in M2
                 PROVE  r2[j] \in M2 \cup {NULL} /\ (r2[j] # NULL => u2[r2[j]] = j)
    BY DEF Agree
  <2>2. CASE r[j] = k
    BY <1>9, <1>11, <1>14, <2>2
  <2>3. CASE r[j] # k
    <3>1. r2[j] = r[j] /\ r[j] \in M2 \cup {NULL}
      BY <1>2, <1>9, <2>3
    <3> QED
      BY <1>2, <1>9, <1>14, <3>1
  <2> QED
    BY <2>2, <2>3
<1>17. sub2[r[k]] = sub[k] \ {k}
  BY <1>1, <1>7, <1>10, <1>11
<1>18. ASSUME NEW j \in M2
       PROVE  sub2[l2[j]] = sub[l[j]] \ {k} /\ sub2[r2[j]] = sub[r[j]] \ {k}
  <2>1. l[j] \in Pointers /\ r[j] \in Pointers
    BY <1>1, <1>2
  <2>2. sub2[l2[j]] = sub[l[j]] \ {k}
    BY <1>7, <1>9, <1>17, <2>1
  <2>3. sub2[r2[j]] = sub[r[j]] \ {k}
    BY <1>7, <1>9, <1>17, <2>1
  <2> QED
    BY <2>2, <2>3
<1>19. Split(l2, r2, M2, sub2, R)
  <2>1. SUFFICES ASSUME NEW j \in M2
                 PROVE  /\ sub2[j] = sub2[l2[j]] \cup {j} \cup sub2[r2[j]]
                        /\ \A m \in sub2[l2[j]] : <<m, j>> \in R
                        /\ \A m \in sub2[r2[j]] : <<j, m>> \in R
    BY DEF Split
  <2>2. sub2[j] = sub[j] \ {k}
    BY <1>1, <1>7
  <2> QED
    BY <1>3, <1>18, <2>2
<1>20. Climb(l2, r2, u2, M2, sub2)
  <2>1. SUFFICES ASSUME NEW j \in M2, NEW m \in sub2[j]
                 PROVE  /\ sub2[m] \subseteq sub2[j]
                        /\ m # j => u2[m] \in sub2[j] /\ m \in {l2[u2[m]], r2[u2[m]]}
    BY DEF Climb
  <2>2. sub2[j] = sub[j] \ {k} /\ m \in sub[j] /\ m \in M2
    BY <1>1, <1>5, <1>7, <2>1
  <2>3. sub2[m] \subseteq sub2[j]
    BY <1>1, <1>4, <1>7, <2>2
  <2>4. m # j => u[m] \in sub[j] /\ m \in {l[u[m]], r[u[m]]}
    BY <1>4, <2>2
  <2>5. CASE m # j /\ m = r[k]
    <3>1. u[m] = k /\ k \in sub[j] /\ k # j
      BY <1>1, <1>11, <2>1, <2>2, <2>4, <2>5
    <3>2. u[k] \in sub[j] /\ u[k] \in M2 /\ k \in {l[u[k]], r[u[k]]}
      BY <1>4, <1>5, <1>12, <3>1
    <3> QED
      BY <1>9, <2>2, <2>3, <2>5, <3>2
  <2>6. CASE m # j /\ m # r[k]
    <3>1. u[m] # k
      BY <1>1, <2>2, <2>4, <2>6
    <3>2. u2[m] = u[m] /\ u[m] \in M2
      BY <1>5, <1>9, <2>2, <2>4, <2>6, <3>1
    <3> QED
      BY <1>9, <2>2, <2>3, <2>4, <2>6, <3>1, <3>2
  <2> QED
    BY <2>3, <2>5, <2>6
<1> QED
  BY <1>13, <1>15, <1>16, <1>19, <1>20 DEF Tree, sub2, M2

\* x takes the place of k.
Renamed(l, r, u, M, k, x, l2, r2, u2) ==
    /\ l2[x] = l[k] /\ r2[x] = r[k] /\ u2[x] = u[k]
    /\ \A j \in M \ {k} :
        /\ l2[j] = IF l[j] = k THEN x ELSE l[j]
        /\ r2[j] = IF r[j] = k THEN x ELSE r[j]
        /\ u2[j] = IF u[j] = k THEN x ELSE u[j]

Swapped(S, k, x) == IF k \in S THEN (S \ {k}) \cup {x} ELSE S

RenamedSub(sub, k, x) == [j \in Pointers |-> Swapped(IF j = x THEN sub[k] ELSE sub[j], k, x)]

LEMMA RenameTree ==
    ASSUME NEW l, NEW r, NEW u, NEW top, NEW M, NEW sub, NEW R,
           Tree(l, r, u, top, M, sub, R), Strict(R),
           NEW k \in M, NEW x \in Keys, x \notin M,
           \A m \in sub[l[k]] : <<m, x>> \in R,
           \A m \in sub[r[k]] : <<x, m>> \in R,
           \A j \in M : (k \in sub[l[j]] => <<x, j>> \in R) /\ (k \in sub[r[j]] => <<j, x>> \in R),
           NEW l2 \in [Keys -> Pointers], NEW r2 \in [Keys -> Pointers],
           NEW u2 \in [Keys -> Pointers],
           Renamed(l, r, u, M, k, x, l2, r2, u2),
           NEW top2, top2 = IF k = top THEN x ELSE top,
           NEW M2, M2 = (M \ {k}) \cup {x}
    PROVE  Tree(l2, r2, u2, top2, M2, RenamedSub(sub, k, x), R)
<1> DEFINE sub2 == RenamedSub(sub, k, x)
<1>1. /\ M \subseteq Keys /\ M \subseteq Pointers /\ NULL \in Pointers /\ NULL \notin M
      /\ sub \in [Pointers -> SUBSET M] /\ sub[NULL] = {} /\ sub[top] = M
      /\ top \in M \cup {NULL} /\ x # NULL /\ x \in Pointers
  BY NullIsNoKey DEF Tree, Typed, Pointers
<1>2. /\ \A j \in M : l[j] \in M \cup {NULL} /\ r[j] \in M \cup {NULL}
      /\ \A j \in M : (l[j] # NULL => u[l[j]] = j) /\ (r[j] # NULL => u[r[j]] = j)
  BY DEF Tree, Agree
<1>3. /\ \A j \in M : sub[j] = sub[l[j]] \cup {j} \cup sub[r[j]]
      /\ \A j \in M : \A m \in sub[l[j]] : <<m, j>> \in R
      /\ \A j \in M : \A m \in sub[r[j]] : <<j, m>> \in R
  BY DEF Tree, Split
<1>4. \A j \in M : \A m \in sub[j] :
          sub[m] \subseteq sub[j] /\ (m # j => u[m] \in sub[j] /\ m \in {l[u[m]], r[u[m]]})
  BY DEF Tree, Climb
<1>5. \A j \in M : /\ j \in sub[j] /\ sub[j] \subseteq M
                   /\ j \notin sub[l[j]] /\ j \notin sub[r[j]]
  BY TreeFacts
<1>6. \A j \in M : /\ j = top <=> u[j] = NULL
                   /\ j # top => /\ u[j] \in M /\ u[j] # j
                                 /\ j \in {l[u[j]], r[u[j]]}
  BY ParentFacts
<1>7. /\ sub2[x] = (sub[k] \ {k}) \cup {x}
      /\ \A j \in Pointers \ {x} : sub2[j] = Swapped(sub[j], k, x)
      /\ sub2 \in [Pointers -> SUBSET M2]
  <2>1. \A j \in Pointers : sub2[j] = Swapped(IF j = x THEN sub[k] ELSE sub[j], k, x)
    BY DEF RenamedSub
  <2>2. \A S \in SUBSET M : Swapped(S, k, x) \in SUBSET M2
    BY DEF Swapped
  <2>3. \A j \in Pointers : (IF j = x THEN sub[k] ELSE sub[j]) \in SUBSET M
    BY <1>1
  <2>4. sub2 \in [Pointers -> SUBSET M2]
    BY <2>2, <2>3 DEF RenamedSub
  <2>5. sub2[x] = (sub[k] \ {k}) \cup {x}
    BY <1>1, <1>5, <2>1 DEF Swapped
  <2> QED
    BY <2>1, <2>4, <2>5
<1>8. /\ l2[x] = l[k] /\ r2[x] = r[k] /\ u2[x] = u[k]
      /\ \A j \in M \ {k} : /\ l2[j] = IF l[j] = k THEN x ELSE l[j]
                            /\ r2[j] = IF r[j] = k THEN x ELSE r[j]
                            /\ u2[j] = IF u[j] = k THEN x ELSE u[j]
  BY DEF Renamed
<1> HIDE DEF sub2
<1>9. u[k] # k /\ l[k] # k /\ r[k] # k
  BY <1>1, <1>2, <1>6
<1>10. Typed(l2, r2, u2, top2, M2, sub2)
  <2>1. top2 \in M2 \cup {NULL} /\ sub2[NULL] = {}
    BY <1>1, <1>7 DEF Swapped
  <2>2. sub2[top2] = M2
    BY <1>1, <1>7 DEF Swapped
  <2>3. top2 # NULL => u2[top2] = NULL
    BY <1>1, <1>6, <1>8
  <2> QED
    BY <1>1, <1>7, <2>1, <2>2, <2>3 DEF Typed
<1>11. Agree(l2, u2, M2)
  <2>1. SUFFICES ASSUME NEW j \in M2
                 PROVE  l2[j] \in M2 \cup {NULL} /\ (l2[j] # NULL => u2[l2[j]] = j)
    BY DEF Agree
  <2>2. CASE j = x
    <3>1. l2[j] = l[k] /\ l[k] \in (M \ {k}) \cup {NULL}
      BY <1>2, <1>8, <1>9, <2>2
    <3> QED
      BY <1>2, <1>8, <2>2, <3>1
  <2>3. CASE j # x /\ l[j] = k
    BY <1>1, <1>2, <1>8, <2>3
  <2>4. CASE j # x /\ l[j] # k
    <3>1. l2[j] = l[j] /\ l[j] \in (M \ {k}) \cup {NULL}
      BY <1>2, <1>8, <2>4
    <3> QED
      BY <1>2, <1>8, <2>4, <3>1
  <2> QED
    BY <2>2, <2>3, <2>4
<1>12. Agree(r2, u2, M2)
  <2>1. SUFFICES ASSUME NEW j \in M2
                 PROVE  r2[j] \in M2 \cup {NULL} /\ (r2[j] # NULL => u2[r2[j]] = j)
    BY DEF Agree
  <2>2. CASE j = x
    <3>1. r2[j] = r[k] /\ r[k] \in (M \ {k}) \cup {NULL}
      BY <1>2, <1>8, <1>9, <2>2
    <3> QED
      BY <1>2, <1>8, <2>2, <3>1
  <2>3. CASE j # x /\ r[j] = k
    BY <1>1, <1>2, <1>8, <2>3
  <2>4. CASE j # x /\ r[j] # k
    <3>1. r2[j] = r[j] /\ r[j] \in (M \ {k}) \cup {NULL}
      BY <1>2, <1>8, <2>4
    <3> QED
      BY <1>2, <1>8, <2>4, <3>1
  <2> QED
    BY <2>2, <2>3, <2>4
<1>13. ASSUME NEW j \in M \ {k}
       PROVE  /\ sub2[l2[j]] = Swapped(sub[l[j]], k, x)
              /\ sub2[r2[j]] = Swapped(sub[r[j]], k, x)
  <2>1. l[j] \in Pointers \ {x} /\ r[j] \in Pointers \ {x}
    BY <1>1, <1>2
  <2>2. sub2[x] = Swapped(sub[k], k, x)
    BY <1>5, <1>7 DEF Swapped
  <2> QED
    BY <1>7, <1>8, <2>1, <2>2
<1>14. sub2[l2[x]] = sub[l[k]] /\ sub2[r2[x]] = sub[r[k]]
  <2>1. l[k] \in Pointers \ {x} /\ r[k] \in Pointers \ {x}
    BY <1>1, <1>2
  <2> QED
    BY <1>5, <1>7, <1>8, <2>1 DEF Swapped
<1>15. Split(l2, r2, M2, sub2, R)
  <2>1. SUFFICES ASSUME NEW j \in M2
                 PROVE  /\ sub2[j] = sub2[l2[j]] \cup {j} \cup sub2[r2[j]]
                        /\ \A m \in sub2[l2[j]] : <<m, j>> \in R
                        /\ \A m \in sub2[r2[j]] : <<j, m>> \in R
    BY DEF Split
  <2>2. CASE j = x
    <3>1. sub2[x] = sub[l[k]] \cup {x} \cup sub[r[k]]
      BY <1>3, <1>5, <1>7
    <3> QED
      BY <1>14, <2>2, <3>1
  <2>3. CASE j # x
    <3>1. j \in M \ {k} /\ j \in Pointers \ {x}
      BY <1>1, <2>3
    <3>2. sub2[j] = Swapped(sub[j], k, x)
      BY <1>7, <3>1
    <3>3. sub[j] = sub[l[j]] \cup {j} \cup sub[r[j]]
      BY <1>3, <3>1
    <3>4. sub2[j] = sub2[l2[j]] \cup {j} \cup sub2[r2[j]]
      BY <1>13, <3>1, <3>2, <3>3 DEF Swapped
    <3>5. ASSUME NEW m \in sub2[l2[j]] PROVE <<m, j>> \in R
      <4>1. m \in sub[l[j]] \/ (k \in sub[l[j]] /\ m = x)
        <5>1. m \in Swapped(sub[l[j]], k, x)
          BY <1>13, <3>1, <3>5
        <5> QED
          BY <5>1 DEF Swapped
      <4>2. k \in sub[l[j]] => <<x, j>> \in R
        BY <3>1
      <4> QED
        BY <1>3, <3>1, <4>1, <4>2
    <3>6. ASSUME NEW m \in sub2[r2[j]] PROVE <<j, m>> \in R
      <4>1. m \in sub[r[j]] \/ (k \in sub[r[j]] /\ m = x)
        <5>1. m \in Swapped(sub[r[j]], k, x)
          BY <1>13, <3>1, <3>6
        <5> QED
          BY <5>1 DEF Swapped
      <4>2. k \in sub[r[j]] => <<j, x>> \in R
        BY <3>1
      <4> QED
        BY <1>3, <3>1, <4>1, <4>2
    <3> QED
      BY <3>4, <3>5, <3>6
  <2> QED
    BY <2>2, <2>3
<1>16. \A m \in M \ {k} : sub2[m] = Swapped(sub[m], k, x)
  BY <1>1, <1>7
<1>17. \A S, T \in SUBSET M : S \subseteq T => Swapped(S, k, x) \subseteq Swapped(T, k, x)
  BY DEF Swapped
<1>18. sub2[x] = Swapped(sub[k], k, x)
  BY <1>5, <1>7 DEF Swapped
<1>19. Climb(l2, r2, u2, M2, sub2)
  <2>1. SUFFICES ASSUME NEW j \in M2, NEW m \in sub2[j]
                 PROVE  /\ sub2[m] \subseteq sub2[j]
                        /\ m # j => u2[m] \in sub2[j] /\ m \in {l2[u2[m]], r2[u2[m]]}
    BY DEF Climb
  <2>2. PICK i \in M : i = IF j = x THEN k ELSE j
    OBVIOUS
  <2>3. sub2[j] = Swapped(sub[i], k, x)
    BY <1>16, <1>18, <2>2
  <2>4. PICK o \in sub[i] : o = IF m = x THEN k ELSE m
    <3>1. sub[i] \subseteq M
      BY <1>5
    <3> QED
      BY <2>1, <2>3, <3>1 DEF Swapped
  <2>5. o \in M /\ m # k /\ sub[i] \subseteq M /\ sub[o] \subseteq M
    BY <1>5, <2>1, <2>3, <2>4 DEF Swapped
  <2>6. sub2[m] = Swapped(sub[o], k, x)
    BY <1>16, <1>18, <2>4, <2>5
  <2>7. sub2[m] \subseteq sub2[j]
    BY <1>4, <1>17, <2>3, <2>4, <2>5, <2>6
  <2>8. ASSUME m # j PROVE u2[m] \in sub2[j] /\ m \in {l2[u2[m]], r2[u2[m]]}
    <3>1. o # i
      BY <2>2, <2>4, <2>5, <2>8
    <3>2. u[o] \in sub[i] /\ o \in {l[u[o]], r[u[o]]} /\ u[o] \in M
      BY <1>4, <2>4, <2>5, <3>1
    <3>3. u2[m] = IF u[o] = k THEN x ELSE u[o]
      BY <1>8, <1>9, <2>4, <2>5
    <3>4. u2[m] \in sub2[j]
      BY <2>3, <2>5, <3>2, <3>3 DEF Swapped
    <3>5. CASE u[o] = k
      <4>1. o # k /\ m = o
        BY <1>9, <2>4, <3>5
      <4> QED
        BY <1>8, <3>2, <3>3, <3>4, <3>5, <4>1
    <3>6. CASE u[o] # k
      <4>1. u2[m] = u[o] /\ u[o] \in M \ {k}
        BY <3>2, <3>3, <3>6
      <4>2. /\ l2[u[o]] = IF l[u[o]] = k THEN x ELSE l[u[o]]
            /\ r2[u[o]] = IF r[u[o]] = k THEN x ELSE r[u[o]]
        BY <1>8, <4>1
      <4>3. (o = k /\ m = x) \/ (o # k /\ m = o)
        BY <2>4, <2>5
      <4> QED
        BY <3>2, <3>4, <4>1, <4>2, <4>3
    <3> QED
      BY <3>5, <3>6
  <2> QED
    BY <2>7, <2>8
<1> QED
  BY <1>10, <1>11, <1>12, <1>15, <1>19 DEF Tree, sub2

-----------------------------------------------------------------------------
(* Insertion, and nodes that are not in the tree *)

AttachedSub(sub, q, x) ==
    [j \in Pointers |-> IF j = x THEN {x}
                        ELSE IF q \in sub[j] THEN sub[j] \cup {x} ELSE sub[j]]

\* x becomes the child of q on the side of l.
LEMMA AttachTree ==
    ASSUME NEW l, NEW r, NEW u, NEW top, NEW M, NEW sub, NEW R,
           Tree(l, r, u, top, M, sub, R), Strict(R),
           NEW q \in M, l[q] = NULL, NEW x \in Keys, x \notin M,
           l[x] = NULL, r[x] = NULL, <<x, q>> \in R,
           \A j \in M : (q \in sub[l[j]] => <<x, j>> \in R) /\ (q \in sub[r[j]] => <<j, x>> \in R),
           NEW l2, l2 = [l EXCEPT ![q] = x], NEW u2, u2 = [u EXCEPT ![x] = q],
           NEW M2, M2 = M \cup {x}
    PROVE  Tree(l2, r, u2, top, M2, AttachedSub(sub, q, x), R)
<1> DEFINE sub2 == AttachedSub(sub, q, x)
<1>1. /\ M \subseteq Keys /\ M \subseteq Pointers /\ NULL \in Pointers /\ NULL \notin M
      /\ sub \in [Pointers -> SUBSET M] /\ sub[NULL] = {} /\ sub[top] = M
      /\ top \in M \cup {NULL} /\ x # NULL /\ x \in Pointers /\ q # x /\ q \in Keys
      /\ l \in [Keys -> Pointers] /\ r \in [Keys -> Pointers] /\ u \in [Keys -> Pointers]
  BY NullIsNoKey DEF Tree, Typed, Pointers
<1>2. /\ \A j \in M : l[j] \in M \cup {NULL} /\ r[j] \in M \cup {NULL}
      /\ \A j \in M : (l[j] # NULL => u[l[j]] = j) /\ (r[j] # NULL => u[r[j]] = j)
  BY DEF Tree, Agree
<1>3. /\ \A j \in M : sub[j] = sub[l[j]] \cup {j} \cup sub[r[j]]
      /\ \A j \in M : \A m \in sub[l[j]] : <<m, j>> \in R
      /\ \A j \in M : \A m \in sub[r[j]] : <<j, m>> \in R
  BY DEF Tree, Split
<1>4. \A j \in M : \A m \in sub[j] :
          sub[m] \subseteq sub[j] /\ (m # j => u[m] \in sub[j] /\ m \in {l[u[m]], r[u[m]]})
  BY DEF Tree, Climb
<1>5. \A j \in M : /\ j \in sub[j] /\ sub[j] \subseteq M
                   /\ j \notin sub[l[j]] /\ j \notin sub[r[j]]
  BY TreeFacts
<1>6. \A j \in M : j = top <=> u[j] = NULL
  BY ParentFacts
<1>7. /\ sub2[x] = {x}
      /\ \A j \in Pointers \ {x} : sub2[j] = IF q \in sub[j] THEN sub[j] \cup {x} ELSE sub[j]
      /\ sub2 \in [Pointers -> SUBSET M2]
  BY <1>1 DEF AttachedSub
<1>8. /\ l2[q] = x /\ l2 \in [Keys -> Pointers]
      /\ \A j \in Keys \ {q} : l2[j] = l[j]
      /\ u2[x] = q /\ u2 \in [Keys -> Pointers]
      /\ \A j \in Keys \ {x} : u2[j] = u[j]
  BY <1>1 DEF Pointers
<1> HIDE DEF sub2
<1>9. Typed(l2, r, u2, top, M2, sub2)
  <2>1. q \in sub[top] /\ top # NULL
    BY <1>1
  <2>2. top \in M /\ top \in Keys /\ top # x
    BY <1>1, <2>1
  <2>3. sub2[top] = M2 /\ sub2[NULL] = {}
    BY <1>1, <1>7, <2>1, <2>2
  <2>4. u2[top] = NULL
    BY <1>6, <1>8, <2>2
  <2> QED
    BY <1>1, <1>7, <1>8, <2>2, <2>3, <2>4 DEF Typed
<1>10. Agree(l2, u2, M2)
  BY <1>1, <1>2, <1>8 DEF Agree
<1>11. Agree(r, u2, M2)
  BY <1>1, <1>2, <1>8 DEF Agree
<1>12. ASSUME NEW j \in M, j # q
       PROVE  /\ sub2[l2[j]] = IF q \in sub[l[j]] THEN sub[l[j]] \cup {x} ELSE sub[l[j]]
              /\ sub2[r[j]] = IF q \in sub[r[j]] THEN sub[r[j]] \cup {x} ELSE sub[r[j]]
  <2>1. l[j] \in Pointers \ {x} /\ r[j] \in Pointers \ {x} /\ l2[j] = l[j]
    BY <1>1, <1>2, <1>8, <1>12
  <2> QED
    BY <1>7, <2>1
<1>13. Split(l2, r, M2, sub2, R)
  <2>1. SUFFICES ASSUME NEW j \in M2
                 PROVE  /\ sub2[j] = sub2[l2[j]] \cup {j} \cup sub2[r[j]]
                        /\ \A m \in sub2[l2[j]] : <<m, j>> \in R
                        /\ \A m \in sub2[r[j]] : <<j, m>> \in R
    BY DEF Split
  <2>2. CASE j = x
    <3>1. sub2[NULL] = {} /\ l2[x] = NULL /\ r[x] = NULL
      BY <1>1, <1>7, <1>8
    <3> QED
      BY <1>7, <2>2, <3>1
  <2>3. CASE j = q
    <3>1. sub2[l2[q]] = {x}
      BY <1>7, <1>8
    <3>2. sub2[r[q]] = sub[r[q]]
      BY <1>1, <1>2, <1>5, <1>7
    <3>3. sub2[q] = sub[q] \cup {x} /\ sub[q] = {q} \cup sub[r[q]]
      BY <1>1, <1>3, <1>5, <1>7
    <3> QED
      BY <1>3, <2>3, <3>1, <3>2, <3>3
  <2>4. CASE j # x /\ j # q
    <3>1. j \in M /\ j \in Pointers \ {x}
      BY <1>1, <2>4
    <3>2. sub2[j] = IF q \in sub[j] THEN sub[j] \cup {x} ELSE sub[j]
      BY <1>7, <3>1
    <3>3. /\ sub2[l2[j]] = IF q \in sub[l[j]] THEN sub[l[j]] \cup {x} ELSE sub[l[j]]
          /\ sub2[r[j]] = IF q \in sub[r[j]] THEN sub[r[j]] \cup {x} ELSE sub[r[j]]
      BY <1>12, <2>4, <3>1
    <3>4. /\ sub[j] = sub[l[j]] \cup {j} \cup sub[r[j]]
          /\ \A m \in sub[l[j]] : <<m, j>> \in R
          /\ \A m \in sub[r[j]] : <<j, m>> \in R
      BY <1>3, <3>1
    <3>5. sub2[j] = sub2[l2[j]] \cup {j} \cup sub2[r[j]]
      BY <2>4, <3>2, <3>3, <3>4
    <3>6. (q \in sub[l[j]] => <<x, j>> \in R) /\ (q \in sub[r[j]] => <<j, x>> \in R)
      BY <3>1
    <3> QED
      BY <3>3, <3>4, <3>5, <3>6
  <2> QED
    BY <2>2, <2>3, <2>4
<1>14. Climb(l2, r, u2, M2, sub2)
  <2>1. SUFFICES ASSUME NEW j \in M2, NEW m \in sub2[j]
                 PROVE  /\ sub2[m] \subseteq sub2[j]
                        /\ m # j => u2[m] \in sub2[j] /\ m \in {l2[u2[m]], r[u2[m]]}
    BY DEF Climb
  <2>2. CASE j = x
    BY <1>7, <2>1, <2>2
  <2>3. CASE j # x
    <3>1. j \in M /\ sub2[j] = (IF q \in sub[j] THEN sub[j] \cup {x} ELSE sub[j])
      BY <1>1, <1>7, <2>3
    <3>2. CASE m = x
      <4>1. q \in sub[j]
        BY <1>1, <1>5, <2>1, <3>1, <3>2
      <4> QED
        BY <1>7, <1>8, <3>1, <3>2, <4>1
    <3>3. CASE m # x
      <4>1. m \in sub[j] /\ m \in M /\ m \in Pointers \ {x}
        BY <1>1, <1>5, <2>1, <3>1, <3>3
      <4>2. sub2[m] = IF q \in sub[m] THEN sub[m] \cup {x} ELSE sub[m]
        BY <1>7, <4>1
      <4>3. /\ sub[m] \subseteq sub[j]
            /\ m # j => u[m] \in sub[j] /\ m \in {l[u[m]], r[u[m]]}
        BY <1>4, <3>1, <4>1
      <4>4. u2[m] = u[m]
        BY <1>1, <1>8, <3>3, <4>1
      <4>5. u[m] \in sub[j] => u[m] \in M
        BY <1>5, <3>1
      <4>6. u[m] \in M /\ m = l[u[m]] => l2[u[m]] = m
        BY <1>1, <1>8, <4>1
      <4> QED
        BY <3>1, <4>2, <4>3, <4>4, <4>5, <4>6
    <3> QED
      BY <3>2, <3>3
  <2> QED
    BY <2>2, <2>3
<1> QED
  BY <1>9, <1>10, <1>11, <1>13, <1>14 DEF Tree, sub2

\* What the pointers of other nodes are does not matter.
LEMMA SameTree ==
    ASSUME NEW l, NEW r, NEW u, NEW top, NEW M, NEW sub, NEW R,
           Tree(l, r, u, top, M, sub, R),
           NEW l2 \in [Keys -> Pointers], NEW r2 \in [Keys -> Pointers],
           NEW u2 \in [Keys -> Pointers],
           \A j \in M : l2[j] = l[j] /\ r2[j] = r[j] /\ u2[j] = u[j]
    PROVE  Tree(l2, r2, u2, top, M, sub, R)
<1>1. M \subseteq Keys /\ top \in M \cup {NULL} /\ sub \in [Pointers -> SUBSET M]
  BY DEF Tree, Typed
<1>2. Typed(l2, r2, u2, top, M, sub)
  BY <1>1 DEF Tree, Typed
<1>3. Agree(l2, u2, M) /\ Agree(r2, u2, M)
  BY <1>1 DEF Tree, Agree
<1>4. Split(l2, r2, M, sub, R)
  BY DEF Tree, Split
<1>5. Climb(l2, r2, u2, M, sub)
  <2>1. SUFFICES ASSUME NEW j \in M, NEW m \in sub[j]
                 PROVE  /\ sub[m] \subseteq sub[j]
                        /\ m # j => u2[m] \in sub[j] /\ m \in {l2[u2[m]], r2[u2[m]]}
    BY DEF Climb
  <2>2. j \in Pointers
    BY <1>1 DEF Pointers
  <2>3. sub[j] \subseteq M /\ m \in M
    BY <1>1, <2>2
  <2>4. /\ sub[m] \subseteq sub[j]
        /\ m # j => u[m] \in sub[j] /\ m \in {l[u[m]], r[u[m]]}
    BY DEF Tree, Climb
  <2> QED
    BY <2>3, <2>4
<1> QED
  BY <1>2, <1>3, <1>4, <1>5 DEF Tree

\* A tree of one node.
LEMMA SingleTree ==
    ASSUME NEW l \in [Keys -> Pointers], NEW r \in [Keys -> Pointers],
           NEW u \in [Keys -> Pointers], NEW x \in Keys,
           l[x] = NULL, r[x] = NULL, u[x] = NULL, NEW R
    PROVE  Tree(l, r, u, x, {x}, [j \in Pointers |-> {x} \cap {j}], R)
  BY NullIsNoKey DEF Tree, Typed, Agree, Split, Climb, Pointers

LEMMA EmptyTree ==
    ASSUME NEW l \in [Keys -> Pointers], NEW r \in [Keys -> Pointers],
           NEW u \in [Keys -> Pointers], NEW R
    PROVE  Tree(l, r, u, NULL, {}, [j \in Pointers |-> {}], R)
  BY DEF Tree, Typed, Agree, Split, Climb, Pointers

-----------------------------------------------------------------------------
(* Induction *)

\* A set of numbers has a least one.
LEMMA LeastExists ==
    ASSUME NEW S, S \subseteq Nat, S # {}
    PROVE  \E x \in S : \A y \in S : x <= y
<1> DEFINE R == OpToRel(<, Nat)
<1>1. IsWellFoundedOn(R, Nat)
  BY NatLessThanWellFounded
<1> HIDE DEF R
<1>2. PICK x \in S : \A y \in S : ~ (<<y, x>> \in R)
  BY <1>1, WFMin
<1>3. \A y \in S : y < x => <<y, x>> \in R
  BY DEF R, OpToRel
<1>4. \A y \in S : ~(y < x)
  BY <1>2, <1>3
<1> QED
  BY <1>4

LEMMA UpTo ==
    ASSUME NEW N \in Nat, NEW P \in SUBSET (0 .. N), 0 \in P,
           \A i \in P : i + 1 <= N => i + 1 \in P
    PROVE  P = 0 .. N
<1>1. SUFFICES ASSUME (0 .. N) \ P # {} PROVE FALSE
  OBVIOUS
<1>2. PICK i \in (0 .. N) \ P : \A j \in (0 .. N) \ P : i <= j
  <2>1. (0 .. N) \ P \subseteq Nat
    OBVIOUS
  <2> QED
    BY <1>1, <2>1, LeastExists
<1>3. i # 0 /\ i - 1 \in 0 .. N /\ ~(i <= i - 1)
  BY <1>2
<1>4. i - 1 \in P
  BY <1>2, <1>3
<1>5. (i - 1) + 1 = i
  BY <1>2
<1>6. i \in P
  BY <1>2, <1>4, <1>5
<1> QED
  BY <1>2, <1>6

\* N steps of a function.
Steps(N, S, x, step, w) ==
    /\ w \in [0 .. N -> S]
    /\ w[0] = x
    /\ \A i \in 1 .. N : w[i] = step[w[i - 1]]

LEMMA StepsExist ==
    ASSUME NEW N \in Nat, NEW S, NEW x \in S, NEW step \in [S -> S]
    PROVE  \E w : Steps(N, S, x, step, w)
<1> DEFINE P == {c \in 0 .. N : \E w \in [0 .. c -> S] :
                    w[0] = x /\ \A i \in 1 .. c : w[i] = step[w[i - 1]]}
<1>1. 0 \in P
  <2> DEFINE w == [i \in 0 .. 0 |-> x]
  <2>1. w \in [0 .. 0 -> S] /\ w[0] = x /\ \A i \in 1 .. 0 : w[i] = step[w[i - 1]]
    OBVIOUS
  <2>2. 0 \in 0 .. N
    OBVIOUS
  <2> HIDE DEF w
  <2> QED
    BY <2>1, <2>2
<1>2. ASSUME NEW c \in P, c + 1 <= N PROVE c + 1 \in P
  <2>1. PICK w \in [0 .. c -> S] : w[0] = x /\ \A i \in 1 .. c : w[i] = step[w[i - 1]]
    OBVIOUS
  <2> DEFINE w2 == [i \in 0 .. c + 1 |-> IF i = c + 1 THEN step[w[c]] ELSE w[i]]
  <2>2. c \in 0 .. c /\ w[c] \in S /\ c \in Nat
    BY <2>1
  <2>3. w2 \in [0 .. c + 1 -> S]
    BY <2>1, <2>2
  <2>4. w2[0] = x
    BY <2>1, <2>2
  <2>5. ASSUME NEW i \in 1 .. c + 1 PROVE w2[i] = step[w2[i - 1]]
    <3>1. CASE i = c + 1
      <4>1. w2[i - 1] = w[c] /\ w2[i] = step[w[c]]
        BY <2>2, <3>1
      <4> QED
        BY <4>1
    <3>2. CASE i # c + 1
      <4>1. i \in 1 .. c /\ w2[i] = w[i] /\ w2[i - 1] = w[i - 1]
        BY <2>2, <3>2
      <4> QED
        BY <2>1, <4>1
    <3> QED
      BY <3>1, <3>2
  <2>6. c + 1 \in 0 .. N
    BY <1>2, <2>2
  <2> HIDE DEF w2
  <2> QED
    BY <2>3, <2>4, <2>5, <2>6
<1>3. P = 0 .. N
  <2>1. P \in SUBSET (0 .. N)
    OBVIOUS
  <2> HIDE DEF P
  <2> QED
    BY <1>1, <1>2, <2>1, UpTo
<1>4. N \in P
  BY <1>3
<1> QED
  BY <1>4 DEF Steps

-----------------------------------------------------------------------------
(* The first node of a subtree *)

LEMMA SmallerSet ==
    ASSUME NEW T, IsFiniteSet(T), NEW S \in SUBSET T, NEW x \in T, x \notin S
    PROVE  /\ Cardinality(S) \in Nat /\ Cardinality(T) \in Nat
           /\ Cardinality(S) + 1 <= Cardinality(T)
<1>1. S \in SUBSET (T \ {x})
  OBVIOUS
<1>2. IsFiniteSet(T \ {x}) /\ Cardinality(T \ {x}) = Cardinality(T) - 1
  BY FS_RemoveElement
<1>3. Cardinality(S) <= Cardinality(T \ {x}) /\ IsFiniteSet(S)
  BY <1>1, <1>2, FS_Subset
<1>4. Cardinality(S) \in Nat /\ Cardinality(T) \in Nat
  BY <1>3, FS_CardinalityType
<1> QED
  BY <1>2, <1>3, <1>4

PathFrom(f, k, w) ==
    w = [i \in 0 .. Cardinality(Keys) |->
            IF i = 0 \/ w[i - 1] = NULL THEN k
            ELSE IF f[w[i - 1]] = NULL THEN w[i - 1] ELSE f[w[i - 1]]]

LEMMA PathIsChosen ==
    ASSUME NEW f, NEW k PROVE Path(f, k) = CHOOSE w : PathFrom(f, k, w)
  BY DEF Path, PathFrom

LEMMA KeysFinite ==
    /\ IsFiniteSet(Keys) /\ Cardinality(Keys) \in Nat
    /\ \A S \in SUBSET Keys : /\ IsFiniteSet(S) /\ Cardinality(S) \in Nat
                              /\ Cardinality(S) <= Cardinality(Keys)
<1>1. IsFiniteSet(Keys)
  BY STreeAssumption
<1>2. ASSUME NEW S \in SUBSET Keys
      PROVE  IsFiniteSet(S) /\ Cardinality(S) \in Nat /\ Cardinality(S) <= Cardinality(Keys)
  BY <1>1, FS_Subset, FS_CardinalityType
<1> QED
  BY <1>1, <1>2, FS_CardinalityType

LEMMA PathExists ==
    ASSUME NEW l, NEW r, NEW u, NEW top, NEW M, NEW sub, NEW R,
           Tree(l, r, u, top, M, sub, R), NEW x \in M
    PROVE  PathFrom(l, x, Path(l, x))
<1> DEFINE N == Cardinality(Keys)
           step == [y \in M |-> IF l[y] = NULL THEN y ELSE l[y]]
<1>1. N \in Nat
  BY KeysFinite
<1>2. NULL \notin M
  BY NullIsNoKey DEF Tree, Typed
<1>3. step \in [M -> M]
  BY DEF Tree, Agree
<1> HIDE DEF N
<1>4. PICK w : Steps(N, M, x, step, w)
  <2> HIDE DEF step
  <2> QED
    BY <1>1, <1>3, StepsExist
<1>5. w \in [0 .. N -> M] /\ w[0] = x /\ \A i \in 1 .. N : w[i] = step[w[i - 1]]
  BY <1>4 DEF Steps
<1> DEFINE v == [i \in 0 .. N |->
                    IF i = 0 \/ w[i - 1] = NULL THEN x
                    ELSE IF l[w[i - 1]] = NULL THEN w[i - 1] ELSE l[w[i - 1]]]
<1>6. ASSUME NEW i \in 0 .. N PROVE w[i] = v[i]
  <2>1. CASE i = 0
    BY <1>5, <2>1
  <2>2. CASE i # 0
    <3>1. i \in 1 .. N /\ i - 1 \in 0 .. N
      BY <1>1, <2>2
    <3>2. w[i] = step[w[i - 1]] /\ w[i - 1] \in M
      BY <1>5, <3>1
    <3>3. w[i] = IF l[w[i - 1]] = NULL THEN w[i - 1] ELSE l[w[i - 1]]
      BY <3>2
    <3> QED
      BY <1>2, <2>2, <3>2, <3>3
  <2> QED
    BY <2>1, <2>2
<1>7. w = v
  BY <1>5, <1>6
<1>8. PathFrom(l, x, w)
  BY <1>7 DEF PathFrom, N
<1> QED
  BY <1>8, PathIsChosen

\* Going on to the side of l from x ends at the first node of its subtree.
LEMMA FirstNode ==
    ASSUME NEW l, NEW r, NEW u, NEW top, NEW M, NEW sub, NEW R,
           Tree(l, r, u, top, M, sub, R), Strict(R), NEW x \in M,
           NEW f, f = Path(l, x)[Cardinality(Keys)]
    PROVE  /\ f \in sub[x] /\ l[f] = NULL
           /\ \A m \in sub[x] : m # f => <<f, m>> \in R
<1> DEFINE N == Cardinality(Keys)
           w == Path(l, x)
           Near(i) == /\ w[i] \in sub[x]
                      /\ \A m \in sub[x] \ sub[w[i]] : \A y \in sub[w[i]] : <<y, m>> \in R
                      /\ l[w[i]] = NULL \/ Cardinality(sub[w[i]]) + i <= N
           P == {i \in 0 .. N : Near(i)}
<1>1. N \in Nat /\ M \subseteq Keys /\ NULL \notin M
  BY KeysFinite, NullIsNoKey DEF Tree, Typed
<1>2. /\ w[0] = x
      /\ \A i \in 0 .. N : i # 0 =>
            w[i] = IF w[i - 1] = NULL THEN x
                   ELSE IF l[w[i - 1]] = NULL THEN w[i - 1] ELSE l[w[i - 1]]
  <2>1. w = [i \in 0 .. N |->
                IF i = 0 \/ w[i - 1] = NULL THEN x
                ELSE IF l[w[i - 1]] = NULL THEN w[i - 1] ELSE l[w[i - 1]]]
    BY PathExists DEF PathFrom
  <2> HIDE DEF w, N
  <2>2. 0 \in 0 .. N
    BY <1>1
  <2>3. \A i \in 0 .. N :
            w[i] = IF i = 0 \/ w[i - 1] = NULL THEN x
                   ELSE IF l[w[i - 1]] = NULL THEN w[i - 1] ELSE l[w[i - 1]]
    BY <2>1
  <2> QED
    BY <2>2, <2>3
<1>3. \A j \in M : /\ j \in sub[j] /\ sub[j] \subseteq M
                   /\ j \notin sub[l[j]] /\ j \notin sub[r[j]]
                   /\ sub[l[j]] \subseteq sub[j]
                   /\ sub[j] = sub[l[j]] \cup {j} \cup sub[r[j]]
  BY TreeFacts DEF Tree, Split
<1>4. \A j \in M : (\A m \in sub[l[j]] : <<m, j>> \in R) /\ (\A m \in sub[r[j]] : <<j, m>> \in R)
  BY DEF Tree, Split
<1>5. \A j \in M : IsFiniteSet(sub[j]) /\ Cardinality(sub[j]) \in Nat /\ Cardinality(sub[j]) <= N
  BY <1>1, <1>3, KeysFinite
<1> HIDE DEF w, N
<1>6. 0 \in P
  <2>1. Near(0)
    BY <1>2, <1>3, <1>5
  <2> QED
    BY <1>1, <2>1
<1>7. ASSUME NEW i \in P, i + 1 <= N PROVE i + 1 \in P
  <2> DEFINE y == w[i]
  <2>1. /\ i + 1 \in 0 .. N /\ (i + 1) - 1 = i /\ i + 1 # 0 /\ i \in Nat
        /\ Near(i)
    BY <1>1, <1>7
  <2>2. y \in M /\ y # NULL
    BY <1>1, <1>3, <2>1
  <2>3. w[i + 1] = IF l[y] = NULL THEN y ELSE l[y]
    BY <1>2, <2>1, <2>2
  <2>4. CASE l[y] = NULL
    BY <2>1, <2>3, <2>4
  <2>5. CASE l[y] # NULL
    <3>1. w[i + 1] = l[y] /\ l[y] \in M
      BY <2>2, <2>3, <2>5 DEF Tree, Agree
    <3>2. l[y] \in sub[x]
      <4>1. l[y] \in sub[y] /\ sub[y] \subseteq sub[x]
        BY <1>3, <2>1, <2>2, <3>1 DEF Tree, Climb
      <4> QED
        BY <4>1
    <3>3. ASSUME NEW m \in sub[x] \ sub[l[y]], NEW z \in sub[l[y]] PROVE <<z, m>> \in R
      <4>1. z \in sub[y]
        BY <1>3, <2>2
      <4>2. CASE m \notin sub[y]
        BY <2>1, <3>3, <4>1, <4>2
      <4>3. CASE m = y
        BY <1>4, <2>2, <4>3
      <4>4. CASE m \in sub[r[y]]
        <5>1. <<z, y>> \in R /\ <<y, m>> \in R
          BY <1>4, <2>2, <4>4
        <5>2. z \in Keys /\ y \in Keys /\ m \in Keys
          BY <1>1, <1>3, <2>2, <4>1
        <5> QED
          BY <5>1, <5>2 DEF Strict
      <4> QED
        BY <1>3, <2>2, <3>3, <4>2, <4>3, <4>4
    <3>4. Cardinality(sub[l[y]]) + 1 <= Cardinality(sub[y])
      BY <1>3, <1>5, <2>2, SmallerSet
    <3>5. Cardinality(sub[l[y]]) + (i + 1) <= N
      BY <1>1, <1>5, <2>1, <2>2, <2>5, <3>1, <3>4
    <3> QED
      BY <2>1, <3>1, <3>2, <3>3, <3>5
  <2> QED
    BY <2>4, <2>5
<1>8. N \in P
  <2>1. P \in SUBSET (0 .. N)
    OBVIOUS
  <2> HIDE DEF P
  <2>2. P = 0 .. N
    BY <1>1, <1>6, <1>7, <2>1, UpTo
  <2> QED
    BY <1>1, <2>2
<1>9. f = w[N] /\ Near(N)
  BY <1>8 DEF w, N
<1>10. f \in M
  BY <1>3, <1>9
<1>11. l[f] = NULL
  <2>1. SUFFICES ASSUME l[f] # NULL PROVE FALSE
    OBVIOUS
  <2>2. Cardinality(sub[f]) <= 0
    BY <1>1, <1>5, <1>9, <1>10, <2>1
  <2>3. f \in sub[f] /\ IsFiniteSet(sub[f]) /\ {} \in SUBSET sub[f] /\ f \notin {}
    BY <1>3, <1>5, <1>10
  <2>4. Cardinality({}) + 1 <= Cardinality(sub[f]) /\ Cardinality({}) \in Nat
    BY <2>3, SmallerSet
  <2> QED
    BY <1>5, <1>10, <2>2, <2>4
<1>12. ASSUME NEW m \in sub[x], m # f PROVE <<f, m>> \in R
  <2>1. CASE m \in sub[f]
    <3>1. sub[NULL] = {}
      BY DEF Tree, Typed
    <3>2. m \in sub[r[f]]
      BY <1>3, <1>10, <1>11, <1>12, <2>1, <3>1
    <3> QED
      BY <1>4, <1>10, <3>2
  <2>2. CASE m \notin sub[f]
    BY <1>3, <1>9, <1>10, <1>12, <2>2
  <2> QED
    BY <2>1, <2>2
<1> QED
  BY <1>9, <1>11, <1>12

-----------------------------------------------------------------------------
(* The nodes from a node downwards *)

Below(D) == (D \cup {left[m] : m \in D} \cup {right[m] : m \in D}) \ {NULL}

UnderFrom(k, w) ==
    w = [i \in 0 .. Cardinality(Keys) |-> IF i = 0 THEN {k} \ {NULL} ELSE Below(w[i - 1])]

LEMMA UnderIsChosen ==
    ASSUME NEW k
    PROVE  Under(k) = (CHOOSE w : UnderFrom(k, w))[Cardinality(Keys)]
  BY DEF Under, UnderFrom, Below

UnderWalk(M, k, w) ==
    /\ w \in [0 .. Cardinality(Keys) -> SUBSET M]
    /\ w[0] = {k} \ {NULL}
    /\ \A i \in 1 .. Cardinality(Keys) : w[i] = Below(w[i - 1])
    /\ Under(k) = w[Cardinality(Keys)]

LEMMA UnderSteps ==
    ASSUME NEW top, NEW M, NEW sub, NEW R,
           Tree(left, right, parent, top, M, sub, R), NEW k \in M \cup {NULL}
    PROVE  \E w : UnderWalk(M, k, w)
<1> DEFINE N == Cardinality(Keys)
           step == [D \in SUBSET M |-> Below(D)]
           from == {k} \ {NULL}
<1>1. N \in Nat
  BY KeysFinite
<1>2. \A m \in M : left[m] \in M \cup {NULL} /\ right[m] \in M \cup {NULL}
  BY DEF Tree, Agree
<1>3. step \in [SUBSET M -> SUBSET M]
  BY <1>2 DEF Below
<1>4. from \in SUBSET M
  OBVIOUS
<1> HIDE DEF N, from
<1>5. \E w : Steps(N, SUBSET M, from, step, w)
  <2> HIDE DEF step
  <2> QED
    BY <1>1, <1>3, <1>4, StepsExist
<1>6. PICK w \in [0 .. N -> SUBSET M] :
          w[0] = from /\ \A i \in 1 .. N : w[i] = Below(w[i - 1])
  <2>1. PICK w \in [0 .. N -> SUBSET M] :
            w[0] = from /\ \A i \in 1 .. N : w[i] = step[w[i - 1]]
    BY <1>5 DEF Steps
  <2>2. ASSUME NEW i \in 1 .. N PROVE w[i] = Below(w[i - 1])
    <3>1. i - 1 \in 0 .. N
      BY <1>1
    <3>2. w[i - 1] \in SUBSET M
      BY <3>1
    <3>3. step[w[i - 1]] = Below(w[i - 1])
      BY <3>2
    <3> QED
      BY <2>1, <3>3
  <2> QED
    BY <2>1, <2>2
<1> HIDE DEF step
<1>7. ASSUME NEW v, UnderFrom(k, v)
      PROVE  /\ v \in [0 .. N -> SUBSET M]
             /\ v[0] = from /\ \A i \in 1 .. N : v[i] = Below(v[i - 1])
  <2>1. v = [i \in 0 .. N |-> IF i = 0 THEN from ELSE Below(v[i - 1])]
    BY <1>7 DEF UnderFrom, N, from
  <2>2. \A i \in 0 .. N : v[i] = IF i = 0 THEN from ELSE Below(v[i - 1])
    BY <2>1
  <2>3. 0 \in 0 .. N /\ \A i \in 1 .. N : i \in 0 .. N /\ i # 0
    BY <1>1
  <2>4. v[0] = from /\ \A i \in 1 .. N : v[i] = Below(v[i - 1])
    BY <2>2, <2>3
  <2> DEFINE P == {i \in 0 .. N : v[i] = w[i]}
  <2>5. 0 \in P
    BY <1>6, <2>3, <2>4
  <2>6. ASSUME NEW i \in P, i + 1 <= N PROVE i + 1 \in P
    <3>1. i + 1 \in 1 .. N /\ (i + 1) - 1 = i /\ i + 1 \in 0 .. N /\ v[i] = w[i]
      BY <1>1, <2>6
    <3>2. v[i + 1] = Below(v[i]) /\ w[i + 1] = Below(w[i])
      BY <1>6, <2>4, <3>1
    <3> QED
      BY <3>1, <3>2
  <2>7. P = 0 .. N
    <3>1. P \in SUBSET (0 .. N)
      OBVIOUS
    <3> HIDE DEF P
    <3> QED
      BY <1>1, <2>5, <2>6, <3>1, UpTo
  <2>8. \A i \in 0 .. N : v[i] \in SUBSET M
    BY <1>6, <2>7
  <2> QED
    BY <2>1, <2>4, <2>8
<1>8. UnderFrom(k, w)
  <2> DEFINE v == [i \in 0 .. N |-> IF i = 0 THEN from ELSE Below(w[i - 1])]
  <2>1. ASSUME NEW i \in 0 .. N PROVE w[i] = v[i]
    <3>1. i # 0 => i \in 1 .. N
      BY <1>1
    <3> QED
      BY <1>6, <3>1
  <2>2. w = v
    BY <1>6, <2>1
  <2> QED
    BY <2>2 DEF UnderFrom, N, from
<1> DEFINE c == CHOOSE v : UnderFrom(k, v)
<1>9. UnderFrom(k, c) /\ Under(k) = c[N]
  BY <1>8, UnderIsChosen DEF N
<1> HIDE DEF c
<1>10. /\ c \in [0 .. N -> SUBSET M]
       /\ c[0] = from /\ \A i \in 1 .. N : c[i] = Below(c[i - 1])
  BY <1>7, <1>9
<1>11. UnderWalk(M, k, c)
  BY <1>9, <1>10 DEF UnderWalk, N, from
<1> QED
  BY <1>11

\* Under(k) is the set of the nodes of the subtree of k.
LEMMA UnderIsSub ==
    ASSUME NEW top, NEW M, NEW sub, NEW R,
           Tree(left, right, parent, top, M, sub, R), Strict(R), NEW k \in M \cup {NULL}
    PROVE  Under(k) = sub[k]
<1> DEFINE N == Cardinality(Keys)
<1>1. /\ N \in Nat /\ M \subseteq Keys /\ NULL \notin M /\ sub[NULL] = {}
  BY KeysFinite, NullIsNoKey DEF Tree, Typed
<1>2. PICK w : UnderWalk(M, k, w)
  BY UnderSteps
<1>3. /\ w \in [0 .. N -> SUBSET M]
      /\ w[0] = {k} \ {NULL}
      /\ \A i \in 1 .. N : w[i] = Below(w[i - 1])
      /\ Under(k) = w[N]
  BY <1>2 DEF UnderWalk
<1> HIDE DEF N
<1>4. /\ \A j \in M : /\ j \in sub[j] /\ sub[j] \subseteq M
                      /\ sub[left[j]] \subseteq sub[j] /\ sub[right[j]] \subseteq sub[j]
                      /\ left[j] \in M \cup {NULL} /\ right[j] \in M \cup {NULL}
  BY TreeFacts DEF Tree, Agree
<1>5. \A j \in M : \A m \in sub[j] :
          sub[m] \subseteq sub[j] /\ (m # j => parent[m] \in sub[j]
                                               /\ m \in {left[parent[m]], right[parent[m]]})
  BY DEF Tree, Climb
<1>6. \A i \in 0 .. N : i + 1 <= N => w[i + 1] = Below(w[i])
  <2>1. SUFFICES ASSUME NEW i \in 0 .. N, i + 1 <= N PROVE w[i + 1] = Below(w[i])
    OBVIOUS
  <2>2. i + 1 \in 1 .. N /\ (i + 1) - 1 = i
    BY <1>1, <2>1
  <2> QED
    BY <1>3, <2>2
<1>7. Under(k) \subseteq sub[k]
  <2> DEFINE P == {i \in 0 .. N : w[i] \subseteq sub[k]}
  <2>1. 0 \in P
    BY <1>1, <1>3, <1>4
  <2>2. ASSUME NEW i \in P, i + 1 <= N PROVE i + 1 \in P
    <3>1. w[i + 1] = Below(w[i]) /\ w[i] \subseteq sub[k] /\ i + 1 \in 0 .. N
      BY <1>1, <1>6, <2>2
    <3>2. ASSUME NEW m \in w[i], NEW o \in {left[m], right[m]}, o # NULL PROVE o \in sub[k]
      <4>1. k \in M /\ m \in sub[k] /\ m \in M
        BY <1>1, <1>4, <3>1, <3>2
      <4>2. o \in M /\ o \in sub[o] /\ sub[o] \subseteq sub[m]
        BY <1>4, <3>2, <4>1
      <4> QED
        BY <1>5, <4>1, <4>2
    <3>3. Below(w[i]) \subseteq sub[k]
      BY <3>1, <3>2 DEF Below
    <3> QED
      BY <3>1, <3>3
  <2>3. P = 0 .. N
    <3>1. P \in SUBSET (0 .. N)
      OBVIOUS
    <3> HIDE DEF P
    <3> QED
      BY <1>1, <2>1, <2>2, <3>1, UpTo
  <2>4. N \in P
    BY <1>1, <2>3
  <2> QED
    BY <1>3, <2>4
<1>8. CASE k = NULL
  BY <1>1, <1>7, <1>8
<1>9. CASE k # NULL
  <2>1. k \in M
    BY <1>9
  <2>2. \A j \in M : IsFiniteSet(sub[j]) /\ Cardinality(sub[j]) \in Nat /\ Cardinality(sub[j]) <= N
    BY <1>1, <1>4, KeysFinite DEF N
  <2> DEFINE P == {i \in 0 .. N :
                      /\ k \in w[i]
                      /\ \A m \in sub[k] :
                            Cardinality(sub[k]) <= Cardinality(sub[m]) + i => m \in w[i]}
  <2>3. 0 \in P
    <3>1. k \in w[0] /\ 0 \in 0 .. N
      BY <1>1, <1>3, <2>1
    <3>2. ASSUME NEW m \in sub[k], Cardinality(sub[k]) <= Cardinality(sub[m]) + 0, m # k
          PROVE  FALSE
      <4>1. m \in M /\ sub[m] \in SUBSET sub[k] /\ k \in sub[k]
        BY <1>4, <1>5, <2>1
      <4>2. k \notin sub[m]
        BY <2>1, <3>2, SubtreesNest
      <4>3. Cardinality(sub[m]) + 1 <= Cardinality(sub[k])
        BY <2>1, <2>2, <4>1, <4>2, SmallerSet
      <4> QED
        BY <2>1, <2>2, <3>2, <4>1, <4>3
    <3> QED
      BY <3>1, <3>2
  <2>4. ASSUME NEW i \in P, i + 1 <= N PROVE i + 1 \in P
    <3>1. w[i + 1] = Below(w[i]) /\ i + 1 \in 0 .. N /\ i \in Nat
      BY <1>1, <1>6, <2>4
    <3>2. k \in w[i + 1]
      BY <1>1, <2>1, <2>4, <3>1 DEF Below
    <3>3. ASSUME NEW m \in sub[k], Cardinality(sub[k]) <= Cardinality(sub[m]) + (i + 1)
          PROVE  m \in w[i + 1]
      <4>1. CASE m = k
        BY <3>2, <4>1
      <4>2. CASE m # k
        <5> DEFINE o == parent[m]
        <5>1. o \in sub[k] /\ m \in {left[o], right[o]} /\ m \in M /\ o \in M
          BY <1>4, <1>5, <2>1, <4>2
        <5>2. sub[m] \in SUBSET sub[o] /\ o \notin sub[m] /\ o \in sub[o]
          <6>1. m # NULL
            BY <1>1, <5>1
          <6> QED
            BY <1>4, <5>1, <6>1, ChildFacts
        <5>3. Cardinality(sub[m]) + 1 <= Cardinality(sub[o])
          BY <2>2, <5>1, <5>2, SmallerSet
        <5>4. Cardinality(sub[k]) <= Cardinality(sub[o]) + i
          BY <2>1, <2>2, <3>1, <3>3, <5>1, <5>3
        <5>5. o \in w[i]
          BY <2>4, <5>1, <5>4
        <5> QED
          BY <1>1, <3>1, <5>1, <5>5 DEF Below
      <4> QED
        BY <4>1, <4>2
    <3> QED
      BY <3>1, <3>2, <3>3
  <2>5. P = 0 .. N
    <3>1. P \in SUBSET (0 .. N)
      OBVIOUS
    <3> HIDE DEF P
    <3> QED
      BY <1>1, <2>3, <2>4, <3>1, UpTo
  <2>6. N \in P
    BY <1>1, <2>5
  <2>7. ASSUME NEW m \in sub[k] PROVE m \in w[N]
    <3>1. m \in M
      BY <1>4, <2>1
    <3>2. Cardinality(sub[k]) <= Cardinality(sub[m]) + N
      BY <1>1, <2>1, <2>2, <3>1
    <3> QED
      BY <2>6, <3>2
  <2> QED
    BY <1>3, <1>7, <2>7
<1> QED
  BY <1>8, <1>9

-----------------------------------------------------------------------------
(* Removal of a node with two children: the first node f of the subtree of   *)
(* r[k] is unlinked, and k is renamed to f.                                  *)

Replaced(l, r, u, M, k, f, l2, r2, u2) ==
    \A j \in M \ {k} :
        /\ l2[j] = IF j = f THEN l[k] ELSE IF l[j] = k THEN f
                   ELSE IF l[j] = f THEN r[f] ELSE l[j]
        /\ r2[j] = IF j = f THEN (IF r[k] = f THEN r[f] ELSE r[k])
                   ELSE IF r[j] = k THEN f ELSE r[j]
        /\ u2[j] = IF j = f THEN u[k] ELSE IF u[j] = k THEN f
                   ELSE IF j = r[f] /\ u[f] # k THEN u[f] ELSE u[j]

FirstOf(l, r, u, top, M, sub, R, k, f) ==
    /\ f \in M /\ f # k /\ f # top /\ r[f] # k /\ l[k] # f /\ f \in sub[k]
    /\ <<k, f>> \in R
    /\ r[k] # NULL /\ r[k] \in M
    /\ u[f] \in M /\ u[f] \notin sub[f] /\ u[u[f]] # f
    /\ r[f] # u[f]
    /\ \A j \in M : r[j] = f => j = k
    /\ u[f] # k => l[u[f]] = f
    /\ u[f] = k => r[k] = f

LEMMA FirstFacts ==
    ASSUME NEW l, NEW r, NEW u, NEW top, NEW M, NEW sub, NEW R,
           Tree(l, r, u, top, M, sub, R), Strict(R),
           NEW k \in M, NEW f \in sub[r[k]],
           \A m \in sub[r[k]] : m # f => <<f, m>> \in R
    PROVE  FirstOf(l, r, u, top, M, sub, R, k, f)
<1>1. r[k] # NULL /\ NULL \notin M
  BY NullIsNoKey DEF Tree, Typed
<1>2. r[k] \in M
  BY <1>1 DEF Tree, Agree
<1>3. /\ f \in M /\ f \in sub[k] /\ k \notin sub[r[k]] /\ f # k
      /\ f \in sub[f] /\ f \notin sub[l[k]]
  BY <1>2, TreeFacts
<1>4. <<k, f>> \in R
  BY DEF Tree, Split
<1>5. l[k] # f
  BY <1>1, <1>3
<1>6. f # top
  <2>1. f = top => sub[f] = M
    BY DEF Tree, Typed
  <2> QED
    BY <1>3, <2>1, SubtreesNest
<1>7. /\ u[f] \in M /\ u[f] # f /\ f \in {l[u[f]], r[u[f]]}
      /\ f \in sub[u[f]] /\ u[f] \notin sub[f]
  BY <1>3, <1>6, ParentFacts
<1>8. sub[f] \subseteq sub[r[k]]
  BY <1>2 DEF Tree, Climb
<1>9. r[f] \in sub[f] \/ r[f] = NULL
  BY <1>3, ChildFacts
<1>10. r[f] # k /\ r[f] # u[f]
  BY <1>1, <1>3, <1>7, <1>8, <1>9
<1>11. u[u[f]] # f
  <2>1. SUFFICES ASSUME u[u[f]] = f PROVE FALSE
    OBVIOUS
  <2>2. u[u[f]] # NULL
    BY <1>1, <1>3, <2>1
  <2>3. u[f] \in sub[u[u[f]]]
    BY <1>7, <2>2, ParentFacts
  <2> QED
    BY <1>7, <2>1, <2>3
<1>12. ASSUME NEW j \in M, r[j] = f, j # k PROVE FALSE
  <2>1. u[f] = j
    BY <1>1, <1>3, <1>12 DEF Tree, Agree
  <2>2. f # r[k]
    BY <1>1, <1>2, <1>12, <2>1 DEF Tree, Agree
  <2>3. j \in sub[r[k]]
    BY <1>2, <2>1, <2>2 DEF Tree, Climb
  <2>4. j # f
    BY <1>7, <2>1
  <2>5. <<f, j>> \in R
    BY <2>3, <2>4
  <2>6. <<j, f>> \in R
    BY <1>3, <1>12 DEF Tree, Split
  <2>7. j \in Keys /\ f \in Keys
    BY <1>3, TreeFacts
  <2> QED
    BY <2>5, <2>6, <2>7 DEF Strict
<1>13. u[f] # k => l[u[f]] = f
  BY <1>7, <1>12
<1>14. u[f] = k => r[k] = f
  BY <1>5, <1>7
<1> QED
  BY <1>1, <1>2, <1>3, <1>4, <1>5, <1>6, <1>7, <1>10, <1>11, <1>12, <1>13, <1>14 DEF FirstOf

LEMMA ReplaceTree ==
    ASSUME NEW l, NEW r, NEW u, NEW top, NEW M, NEW sub, NEW R,
           Tree(l, r, u, top, M, sub, R), Strict(R),
           NEW k \in M, NEW f \in sub[r[k]], l[f] = NULL,
           \A m \in sub[r[k]] : m # f => <<f, m>> \in R,
           NEW l2 \in [Keys -> Pointers], NEW r2 \in [Keys -> Pointers],
           NEW u2 \in [Keys -> Pointers],
           Replaced(l, r, u, M, k, f, l2, r2, u2),
           NEW top2, top2 = IF k = top THEN f ELSE top
    PROVE  \E s2 : Tree(l2, r2, u2, top2, M \ {k}, s2, R)
<1> DEFINE l1 == [j \in Keys |-> IF l[j] = f THEN r[f] ELSE l[j]]
           r1 == [j \in Keys |-> IF r[j] = f THEN r[f] ELSE r[j]]
           u1 == [j \in Keys |-> IF j = r[f] THEN u[f] ELSE u[j]]
           M1 == M \ {f}
           s1 == UnlinkedSub(sub, f)
<1>1. /\ f \in M /\ f # k /\ f # top /\ r[f] # k /\ l[k] # f /\ f \in sub[k]
      /\ <<k, f>> \in R
      /\ r[k] # NULL /\ r[k] \in M
      /\ u[f] \in M /\ u[f] \notin sub[f] /\ u[u[f]] # f
      /\ r[f] # u[f]
      /\ \A j \in M : r[j] = f => j = k
      /\ u[f] # k => l[u[f]] = f
      /\ u[f] = k => r[k] = f
  BY FirstFacts DEF FirstOf
<1>2. /\ M \subseteq Keys /\ M \subseteq Pointers /\ NULL \in Pointers /\ NULL \notin M
      /\ sub \in [Pointers -> SUBSET M] /\ sub[NULL] = {} /\ sub[top] = M
      /\ l \in [Keys -> Pointers] /\ r \in [Keys -> Pointers] /\ u \in [Keys -> Pointers]
  BY NullIsNoKey DEF Tree, Typed, Pointers
<1>3. /\ \A j \in M : l[j] \in M \cup {NULL} /\ r[j] \in M \cup {NULL}
      /\ \A j \in M : (l[j] # NULL => u[l[j]] = j) /\ (r[j] # NULL => u[r[j]] = j)
  BY DEF Tree, Agree
<1>4. /\ l1 \in [Keys -> Pointers] /\ r1 \in [Keys -> Pointers] /\ u1 \in [Keys -> Pointers]
  BY <1>1, <1>2
<1>5. \A j \in M : /\ l1[j] = IF l[j] = f THEN r[f] ELSE l[j]
                   /\ r1[j] = IF r[j] = f THEN r[f] ELSE r[j]
                   /\ u1[j] = IF j = r[f] THEN u[f] ELSE u[j]
  BY <1>2
<1> HIDE DEF l1, r1, u1
<1>6. Tree(l1, r1, u1, top, M1, s1, R)
  <2>1. Unlinked(l, r, u, M, f, l1, r1, u1)
    BY <1>5 DEF Unlinked
  <2> QED
    BY <1>1, <1>4, <2>1, UnlinkTree
<1>7. \A j \in Pointers : s1[j] = sub[j] \ {f}
  BY DEF UnlinkedSub
<1> HIDE DEF s1
<1>8. k \in M1 /\ f \in Keys /\ f \notin M1 /\ M \ {k} = (M1 \ {k}) \cup {f}
  BY <1>1, <1>2
<1>9. ASSUME NEW j \in M1
      PROVE  s1[l1[j]] \subseteq sub[l[j]] /\ s1[r1[j]] \subseteq sub[r[j]]
  <2>1. l[j] \in Pointers /\ r[j] \in Pointers /\ r[f] \in Pointers
    BY <1>1, <1>2, <1>3
  <2>2. sub[r[f]] \subseteq sub[f]
    BY <1>1, TreeFacts
  <2> QED
    BY <1>5, <1>7, <2>1, <2>2
<1>10. \A m \in s1[l1[k]] : <<m, f>> \in R
  <2>1. SUFFICES ASSUME NEW m \in s1[l1[k]] PROVE <<m, f>> \in R
    OBVIOUS
  <2>2. m \in sub[l[k]] /\ <<m, k>> \in R
    BY <1>8, <1>9, <2>1 DEF Tree, Split
  <2>3. m \in Keys /\ k \in Keys
    BY <1>2, <2>2, TreeFacts
  <2> QED
    BY <1>1, <1>8, <2>2, <2>3 DEF Strict
<1>11. \A m \in s1[r1[k]] : <<f, m>> \in R
  <2>1. SUFFICES ASSUME NEW m \in s1[r1[k]] PROVE <<f, m>> \in R
    OBVIOUS
  <2>2. m \in sub[r[k]]
    BY <1>8, <1>9, <2>1
  <2>3. m # f
    <3>1. r1[k] \in Pointers
      BY <1>2, <1>4, <1>8
    <3> QED
      BY <1>7, <2>1, <3>1
  <2> QED
    BY <2>2, <2>3
<1>12. ASSUME NEW j \in M1
       PROVE  /\ k \in s1[l1[j]] => <<f, j>> \in R
              /\ k \in s1[r1[j]] => <<j, f>> \in R
  <2>1. j \in M
    OBVIOUS
  <2>2. ASSUME NEW c \in {l[j], r[j]}, k \in sub[c] PROVE f \in sub[c]
    <3>1. c \in M
      BY <1>2, <1>3, <2>2
    <3>2. sub[k] \subseteq sub[c]
      BY <2>2, <3>1 DEF Tree, Climb
    <3> QED
      BY <1>1, <3>2
  <2>3. k \in s1[l1[j]] => f \in sub[l[j]]
    BY <1>9, <2>2
  <2>4. k \in s1[r1[j]] => f \in sub[r[j]]
    BY <1>9, <2>2
  <2> QED
    BY <2>1, <2>3, <2>4 DEF Tree, Split
<1>13. Renamed(l1, r1, u1, M1, k, f, l2, r2, u2)
  <2>1. \A j \in M \ {k} :
        /\ l2[j] = IF j = f THEN l[k] ELSE IF l[j] = k THEN f
                   ELSE IF l[j] = f THEN r[f] ELSE l[j]
        /\ r2[j] = IF j = f THEN (IF r[k] = f THEN r[f] ELSE r[k])
                   ELSE IF r[j] = k THEN f ELSE r[j]
        /\ u2[j] = IF j = f THEN u[k] ELSE IF u[j] = k THEN f
                   ELSE IF j = r[f] /\ u[f] # k THEN u[f] ELSE u[j]
    BY DEF Replaced
  <2>2. l2[f] = l1[k] /\ r2[f] = r1[k] /\ u2[f] = u1[k]
    BY <1>1, <1>5, <2>1
  <2>3. ASSUME NEW j \in M1 \ {k}
        PROVE  /\ l2[j] = IF l1[j] = k THEN f ELSE l1[j]
               /\ r2[j] = IF r1[j] = k THEN f ELSE r1[j]
               /\ u2[j] = IF u1[j] = k THEN f ELSE u1[j]
    <3>1. j \in M /\ j # k /\ j # f
      OBVIOUS
    <3>2. l2[j] = IF l1[j] = k THEN f ELSE l1[j]
      BY <1>1, <1>5, <2>1, <3>1
    <3>3. r2[j] = IF r1[j] = k THEN f ELSE r1[j]
      BY <1>1, <1>5, <2>1, <3>1
    <3>4. j = r[f] => u[j] = f
      BY <1>1, <1>2, <1>3, <3>1
    <3>5. u2[j] = IF u1[j] = k THEN f ELSE u1[j]
      BY <1>1, <1>5, <2>1, <3>1, <3>4
    <3> QED
      BY <3>2, <3>3, <3>5
  <2> QED
    BY <2>2, <2>3 DEF Renamed
<1>14. Tree(l2, r2, u2, top2, M \ {k}, RenamedSub(s1, k, f), R)
  <2>1. \A j \in M1 : (k \in s1[l1[j]] => <<f, j>> \in R) /\ (k \in s1[r1[j]] => <<j, f>> \in R)
    BY <1>12
  <2> DEFINE M2 == (M1 \ {k}) \cup {f}
  <2>2. M2 = (M1 \ {k}) \cup {f} /\ M2 = M \ {k}
    BY <1>8
  <2> HIDE DEF M1, M2
  <2>3. k \in M1 /\ f \in Keys /\ f \notin M1
    BY <1>8
  <2>4. Tree(l2, r2, u2, top2, M2, RenamedSub(s1, k, f), R)
    BY <1>6, <1>10, <1>11, <1>13, <2>1, <2>2, <2>3, RenameTree
  <2> QED
    BY <2>2, <2>4
<1> QED
  BY <1>14

-----------------------------------------------------------------------------
(* The inductive invariant *)

Lt == {e \in Keys \X Keys : e[1] < e[2]}
Gt == {e \in Keys \X Keys : e[1] > e[2]}

STreeTypeOK ==
    /\ root \in Pointers
    /\ left \in [Keys -> Pointers]
    /\ right \in [Keys -> Pointers]
    /\ parent \in [Keys -> Pointers]
    /\ hint \in [Keys -> Nat]
    /\ allocated \in SUBSET Keys
    /\ pc \in {"idle", "search", "update", "free", "destroyed"}
    /\ op \in Ops
    /\ a \in Keys
    /\ n \in Pointers
    /\ p \in Pointers
    /\ result \in BOOLEAN

\* A node that is not allocated is cleared when it is allocated.
Blank == \A k \in Keys \ allocated : left[k] = NULL /\ right[k] = NULL /\ parent[k] = NULL

\* The pointers make the nodes of the tree one search tree, and sub says which
\* nodes are in which subtree.
TreeOf(sub) == Tree(left, right, parent, root, Members, sub, Lt)

\* A search has come down to n from p on the side where a is, if it is in the
\* tree at all: a is between the nodes of the subtree of p and those outside.
OnTheWay(sub) ==
    /\ p = NULL => n = root
    /\ p # NULL =>
          /\ p \in Members /\ p # a
          /\ n = IF a < p THEN left[p] ELSE right[p]
          /\ \A j \in Members : (p \in sub[left[j]] => a < j) /\ (p \in sub[right[j]] => a > j)
    /\ a \in Members => a \in sub[n]

\* The node a step looks at is one of the tree.
Places ==
    /\ pc \in {"search", "update"} => n \in Members \cup {NULL}
    /\ pc = "free" => op = "remove"

STreeInv ==
    /\ STreeTypeOK
    /\ Blank
    /\ Places
    /\ \E sub : TreeOf(sub) /\ (pc = "search" => OnTheWay(sub))

LEMMA Orders ==
    /\ Strict(Lt) /\ Strict(Gt)
    /\ \A x, y \in Keys : /\ <<x, y>> \in Lt <=> x < y
                          /\ <<x, y>> \in Gt <=> x > y
                          /\ <<x, y>> \in Lt <=> <<y, x>> \in Gt
                          /\ <<x, y>> \in Gt <=> <<y, x>> \in Lt
                          /\ x < y \/ x = y \/ x > y
                          /\ ~(x < y /\ x > y) /\ ~(x < x) /\ ~(x > x)
<1>1. Keys \subseteq Int
  BY STreeAssumption
<1> QED
  BY <1>1 DEF Lt, Gt, Strict

\* What LeftWith and RightWith change, if the parent pointer of m is right.
LEMMA WithFacts ==
    ASSUME NEW top, NEW M, NEW sub, NEW R,
           Tree(left, right, parent, top, M, sub, R), Strict(R),
           NEW m \in M, NEW x \in Pointers, NEW f \in [Keys -> Pointers]
    PROVE  /\ LeftWith(f, parent[m], m, x) \in [Keys -> Pointers]
           /\ RightWith(f, parent[m], m, x) \in [Keys -> Pointers]
           /\ \A j \in Keys :
                 /\ LeftWith(f, parent[m], m, x)[j] = IF j \in M /\ left[j] = m THEN x ELSE f[j]
                 /\ RightWith(f, parent[m], m, x)[j] = IF j \in M /\ right[j] = m THEN x ELSE f[j]
<1>1. \A j \in M : /\ left[j] = m => parent[m] = j /\ right[j] # m
                   /\ right[j] = m => parent[m] = j /\ left[j] # m
  BY OnlyParent
<1>2. NULL \notin Keys /\ M \subseteq Keys
  BY NullIsNoKey DEF Tree, Typed
<1>3. CASE parent[m] = NULL
  BY <1>1, <1>2, <1>3 DEF LeftWith, RightWith
<1>4. CASE parent[m] # NULL
  <2> DEFINE q == parent[m]
  <2>1. q \in M /\ m \in {left[q], right[q]} /\ q \in Keys
    BY <1>2, <1>4, ParentFacts
  <2> HIDE DEF q
  <2>2. LeftWith(f, q, m, x) = IF left[q] = m THEN [f EXCEPT ![q] = x] ELSE f
    BY <1>2, <2>1 DEF LeftWith
  <2>3. RightWith(f, q, m, x) = IF right[q] = m THEN [f EXCEPT ![q] = x] ELSE f
    BY <1>1, <1>2, <2>1 DEF RightWith
  <2>4. \A j \in M : (left[j] = m => j = q) /\ (right[j] = m => j = q)
    BY <1>1 DEF q
  <2>5. /\ LeftWith(f, q, m, x) \in [Keys -> Pointers]
        /\ RightWith(f, q, m, x) \in [Keys -> Pointers]
    BY <2>2, <2>3
  <2>6. ASSUME NEW j \in Keys
        PROVE  /\ LeftWith(f, q, m, x)[j] = IF j \in M /\ left[j] = m THEN x ELSE f[j]
               /\ RightWith(f, q, m, x)[j] = IF j \in M /\ right[j] = m THEN x ELSE f[j]
    BY <2>1, <2>2, <2>3, <2>4
  <2> QED
    BY <2>5, <2>6 DEF q
<1> QED
  BY <1>3, <1>4

-----------------------------------------------------------------------------
(* Rotation *)

\* The pointers of the nodes that are not in M stay as they are.
Elsewhere(M) == \A j \in Keys \ M : /\ left'[j] = left[j]
                                    /\ right'[j] = right[j]
                                    /\ parent'[j] = parent[j]

PointersOK(l, r, u) ==
    /\ l \in [Keys -> Pointers]
    /\ r \in [Keys -> Pointers]
    /\ u \in [Keys -> Pointers]

LEMMA RotateRight ==
    ASSUME NEW top, NEW M, NEW sub,
           Tree(left, right, parent, top, M, sub, Lt),
           NEW k \in M, right[k] # NULL, st_rotate_right(k),
           NEW top2, top2 = IF k = top THEN right[k] ELSE top
    PROVE  /\ PointersOK(left', right', parent') /\ Elsewhere(M)
           /\ \E s2 : Tree(left', right', parent', top2, M, s2, Lt)
<1> DEFINE c == right[k]
<1>1. PointersOK(left, right, parent) /\ M \subseteq Keys /\ NULL \in Pointers
  BY DEF Tree, Typed, PointersOK, Pointers
<1>2. /\ c \in M /\ parent[c] = k /\ c # k /\ k \notin sub[c] /\ c \in sub[c]
      /\ c # NULL /\ k \in Keys /\ c \in Keys
  BY <1>1, Orders, ChildFacts, TreeFacts
<1>3. left[c] \in M \cup {NULL} /\ left[c] \in Pointers /\ parent[k] \in Pointers /\ k \in Pointers
  BY <1>1, <1>2 DEF Tree, Agree, PointersOK, Pointers
<1>4. left[c] # k /\ right[c] # k
  <2>1. k # NULL
    BY Orders, TreeFacts
  <2> QED
    BY <1>2, <2>1, Orders, ChildFacts, TreeFacts
<1> HIDE DEF c
<1> DEFINE f == [left EXCEPT ![c] = k]
           g == [right EXCEPT ![k] = left[c]]
           h == [parent EXCEPT ![c] = parent[k], ![k] = c]
<1>5. /\ left' = LeftWith(f, parent[k], k, c)
      /\ right' = RightWith(g, parent[k], k, c)
      /\ parent' = Put(h, left[c], k)
  BY DEF st_rotate_right, c
<1>6. PointersOK(f, g, h)
  BY <1>1, <1>2, <1>3 DEF PointersOK, Pointers
<1>7. \A j \in Keys : /\ f[j] = IF j = c THEN k ELSE left[j]
                      /\ g[j] = IF j = k THEN left[c] ELSE right[j]
                      /\ h[j] = IF j = k THEN c ELSE IF j = c THEN parent[k] ELSE parent[j]
  BY <1>1, <1>2 DEF PointersOK
<1> HIDE DEF f, g, h
<1>8. c \in Pointers
  BY <1>2 DEF Pointers
<1>9. /\ PointersOK(left', right', parent')
      /\ \A j \in Keys :
            /\ left'[j] = IF j \in M /\ left[j] = k THEN c ELSE f[j]
            /\ right'[j] = IF j \in M /\ right[j] = k THEN c ELSE g[j]
            /\ parent'[j] = IF j = left[c] THEN k ELSE h[j]
  <2>1. f \in [Keys -> Pointers] /\ g \in [Keys -> Pointers] /\ h \in [Keys -> Pointers]
    BY <1>6 DEF PointersOK
  <2>2. /\ left' \in [Keys -> Pointers]
        /\ \A j \in Keys : left'[j] = IF j \in M /\ left[j] = k THEN c ELSE f[j]
    <3>1. /\ LeftWith(f, parent[k], k, c) \in [Keys -> Pointers]
          /\ \A j \in Keys :
                LeftWith(f, parent[k], k, c)[j] = IF j \in M /\ left[j] = k THEN c ELSE f[j]
      BY <1>8, <2>1, Orders, WithFacts
    <3> QED
      BY <1>5, <3>1
  <2>3. /\ right' \in [Keys -> Pointers]
        /\ \A j \in Keys : right'[j] = IF j \in M /\ right[j] = k THEN c ELSE g[j]
    <3>1. /\ RightWith(g, parent[k], k, c) \in [Keys -> Pointers]
          /\ \A j \in Keys :
                RightWith(g, parent[k], k, c)[j] = IF j \in M /\ right[j] = k THEN c ELSE g[j]
      BY <1>8, <2>1, Orders, WithFacts
    <3> QED
      BY <1>5, <3>1
  <2>4. /\ parent' \in [Keys -> Pointers]
        /\ \A j \in Keys : parent'[j] = IF j = left[c] THEN k ELSE h[j]
    <3> DEFINE b == left[c]
    <3>1. b \in Pointers /\ k \in Pointers /\ parent' = Put(h, b, k)
      BY <1>3, <1>5
    <3> HIDE DEF b
    <3>2. /\ Put(h, b, k) \in [Keys -> Pointers]
          /\ \A j \in Keys : Put(h, b, k)[j] = IF j = b THEN k ELSE h[j]
      BY <2>1, <3>1, NullIsNoKey DEF Put, Pointers
    <3> QED
      BY <3>1, <3>2 DEF b
  <2> QED
    BY <2>2, <2>3, <2>4 DEF PointersOK
<1>10. ASSUME NEW j \in M PROVE right[j] = k => j # k
  BY <1>2 DEF c
<1>11. left[c] # k /\ left[c] # c
  <2>1. left[c] = c => parent[c] = c
    BY <1>2, Orders, OnlyParent
  <2> QED
    BY <1>2, <1>4, <2>1
<1>12. Rotated(left, right, parent, M, k, c, left', right', parent')
  <2>1. SUFFICES ASSUME NEW j \in M
                 PROVE  /\ left'[j] = IF j = c THEN k ELSE IF left[j] = k THEN c ELSE left[j]
                        /\ right'[j] = IF j = k THEN left[c] ELSE IF right[j] = k THEN c ELSE right[j]
                        /\ parent'[j] = IF j = k THEN c ELSE IF j = c THEN parent[k]
                                        ELSE IF j = left[c] THEN k ELSE parent[j]
    BY DEF Rotated
  <2>2. j \in Keys
    BY <1>1
  <2> QED
    BY <1>4, <1>7, <1>9, <1>10, <1>11, <2>2
<1>13. Elsewhere(M)
  <2>1. SUFFICES ASSUME NEW j \in Keys \ M
                 PROVE  left'[j] = left[j] /\ right'[j] = right[j] /\ parent'[j] = parent[j]
    BY DEF Elsewhere
  <2>2. j # left[c] /\ j # k /\ j # c
    BY <1>2, <1>3, <2>1, NullIsNoKey
  <2> QED
    BY <1>7, <1>9, <2>2
<1>14. Tree(left', right', parent', top2, M, RotatedSub(left, sub, k, c), Lt)
  BY <1>2, <1>9, <1>12, Orders, RotateTree DEF c, PointersOK
<1> QED
  BY <1>9, <1>13, <1>14

LEMMA RotateLeft ==
    ASSUME NEW top, NEW M, NEW sub,
           Tree(left, right, parent, top, M, sub, Lt),
           NEW k \in M, left[k] # NULL, st_rotate_left(k),
           NEW top2, top2 = IF k = top THEN left[k] ELSE top
    PROVE  /\ PointersOK(left', right', parent') /\ Elsewhere(M)
           /\ \E s2 : Tree(left', right', parent', top2, M, s2, Lt)
<1> DEFINE c == left[k]
<1>1. PointersOK(left, right, parent) /\ M \subseteq Keys /\ NULL \in Pointers
  BY DEF Tree, Typed, PointersOK, Pointers
<1>2. /\ c \in M /\ parent[c] = k /\ c # k /\ k \notin sub[c] /\ c \in sub[c]
      /\ c # NULL /\ k \in Keys /\ c \in Keys
  BY <1>1, Orders, ChildFacts, TreeFacts
<1>3. right[c] \in M \cup {NULL} /\ right[c] \in Pointers /\ parent[k] \in Pointers /\ k \in Pointers
  BY <1>1, <1>2 DEF Tree, Agree, PointersOK, Pointers
<1>4. left[c] # k /\ right[c] # k
  <2>1. k # NULL
    BY Orders, TreeFacts
  <2> QED
    BY <1>2, <2>1, Orders, ChildFacts, TreeFacts
<1> HIDE DEF c
<1> DEFINE f == [left EXCEPT ![k] = right[c]]
           g == [right EXCEPT ![c] = k]
           h == [parent EXCEPT ![c] = parent[k], ![k] = c]
<1>5. /\ left' = LeftWith(f, parent[k], k, c)
      /\ right' = RightWith(g, parent[k], k, c)
      /\ parent' = Put(h, right[c], k)
  BY DEF st_rotate_left, c
<1>6. PointersOK(f, g, h)
  BY <1>1, <1>2, <1>3 DEF PointersOK, Pointers
<1>7. \A j \in Keys : /\ f[j] = IF j = k THEN right[c] ELSE left[j]
                      /\ g[j] = IF j = c THEN k ELSE right[j]
                      /\ h[j] = IF j = k THEN c ELSE IF j = c THEN parent[k] ELSE parent[j]
  BY <1>1, <1>2 DEF PointersOK
<1> HIDE DEF f, g, h
<1>8. c \in Pointers
  BY <1>2 DEF Pointers
<1>9. /\ PointersOK(left', right', parent')
      /\ \A j \in Keys :
            /\ left'[j] = IF j \in M /\ left[j] = k THEN c ELSE f[j]
            /\ right'[j] = IF j \in M /\ right[j] = k THEN c ELSE g[j]
            /\ parent'[j] = IF j = right[c] THEN k ELSE h[j]
  <2>1. f \in [Keys -> Pointers] /\ g \in [Keys -> Pointers] /\ h \in [Keys -> Pointers]
    BY <1>6 DEF PointersOK
  <2>2. /\ left' \in [Keys -> Pointers]
        /\ \A j \in Keys : left'[j] = IF j \in M /\ left[j] = k THEN c ELSE f[j]
    <3>1. /\ LeftWith(f, parent[k], k, c) \in [Keys -> Pointers]
          /\ \A j \in Keys :
                LeftWith(f, parent[k], k, c)[j] = IF j \in M /\ left[j] = k THEN c ELSE f[j]
      BY <1>8, <2>1, Orders, WithFacts
    <3> QED
      BY <1>5, <3>1
  <2>3. /\ right' \in [Keys -> Pointers]
        /\ \A j \in Keys : right'[j] = IF j \in M /\ right[j] = k THEN c ELSE g[j]
    <3>1. /\ RightWith(g, parent[k], k, c) \in [Keys -> Pointers]
          /\ \A j \in Keys :
                RightWith(g, parent[k], k, c)[j] = IF j \in M /\ right[j] = k THEN c ELSE g[j]
      BY <1>8, <2>1, Orders, WithFacts
    <3> QED
      BY <1>5, <3>1
  <2>4. /\ parent' \in [Keys -> Pointers]
        /\ \A j \in Keys : parent'[j] = IF j = right[c] THEN k ELSE h[j]
    <3> DEFINE b == right[c]
    <3>1. b \in Pointers /\ k \in Pointers /\ parent' = Put(h, b, k)
      BY <1>3, <1>5
    <3> HIDE DEF b
    <3>2. /\ Put(h, b, k) \in [Keys -> Pointers]
          /\ \A j \in Keys : Put(h, b, k)[j] = IF j = b THEN k ELSE h[j]
      BY <2>1, <3>1, NullIsNoKey DEF Put, Pointers
    <3> QED
      BY <3>1, <3>2 DEF b
  <2> QED
    BY <2>2, <2>3, <2>4 DEF PointersOK
<1>10. ASSUME NEW j \in M PROVE left[j] = k => j # k
  BY <1>2 DEF c
<1>11. right[c] # k /\ right[c] # c
  <2>1. right[c] = c => parent[c] = c
    BY <1>2, Orders, OnlyParent
  <2> QED
    BY <1>2, <1>4, <2>1
<1>12. Rotated(right, left, parent, M, k, c, right', left', parent')
  <2>1. SUFFICES ASSUME NEW j \in M
                 PROVE  /\ right'[j] = IF j = c THEN k ELSE IF right[j] = k THEN c ELSE right[j]
                        /\ left'[j] = IF j = k THEN right[c] ELSE IF left[j] = k THEN c ELSE left[j]
                        /\ parent'[j] = IF j = k THEN c ELSE IF j = c THEN parent[k]
                                        ELSE IF j = right[c] THEN k ELSE parent[j]
    BY DEF Rotated
  <2>2. j \in Keys
    BY <1>1
  <2> QED
    BY <1>4, <1>7, <1>9, <1>10, <1>11, <2>2
<1>13. Elsewhere(M)
  <2>1. SUFFICES ASSUME NEW j \in Keys \ M
                 PROVE  left'[j] = left[j] /\ right'[j] = right[j] /\ parent'[j] = parent[j]
    BY DEF Elsewhere
  <2>2. j # right[c] /\ j # k /\ j # c
    BY <1>2, <1>3, <2>1, NullIsNoKey
  <2> QED
    BY <1>7, <1>9, <2>2
<1>14. Tree(right, left, parent, top, M, sub, Gt)
  BY Orders, MirrorTree
<1>15. Tree(right', left', parent', top2, M, RotatedSub(right, sub, k, c), Gt)
  BY <1>2, <1>9, <1>12, <1>14, Orders, RotateTree DEF c, PointersOK
<1>16. Tree(left', right', parent', top2, M, RotatedSub(right, sub, k, c), Lt)
  BY <1>15, Orders, MirrorTree
<1> QED
  BY <1>9, <1>13, <1>16

-----------------------------------------------------------------------------
(* Removal *)
LEMMA ReplaceRight ==
    ASSUME NEW top, NEW M, NEW sub,
           Tree(left, right, parent, top, M, sub, Lt),
           NEW k \in M, NEW f \in sub[right[k]], left[f] = NULL,
           \A m \in sub[right[k]] : m # f => <<f, m>> \in Lt,
           st_replace_right(k, f),
           NEW top2, top2 = IF k = top THEN f ELSE top
    PROVE  /\ PointersOK(left', right', parent') /\ Elsewhere(M)
           /\ \E s2 : Tree(left', right', parent', top2, M \ {k}, s2, Lt)
<1>1. PointersOK(left, right, parent) /\ M \subseteq Keys /\ NULL \in Pointers /\ NULL \notin M
  BY NullIsNoKey DEF Tree, Typed, PointersOK, Pointers
<1>2. Tree(left, right, parent, top, M, sub, Lt) /\ Strict(Lt)
  BY Orders, MirrorTree
<1> DEFINE q == parent[f]
           o == right[f]
<1>3. /\ f \in M /\ f # k /\ f # top /\ o # k /\ left[k] # f /\ f \in sub[k]
      /\ right[k] # NULL /\ right[k] \in M
      /\ q \in M /\ q \notin sub[f] /\ parent[q] # f
      /\ o # q
      /\ \A j \in M : right[j] = f => j = k
      /\ q # k => left[q] = f
      /\ q = k => right[k] = f
  <2>1. FirstOf(left, right, parent, top, M, sub, Lt, k, f)
    BY <1>2, FirstFacts
  <2> QED
    BY <2>1 DEF FirstOf
<1>4. /\ \A j \in M : left[j] \in M \cup {NULL} /\ right[j] \in M \cup {NULL}
      /\ \A j \in M : (left[j] # NULL => parent[left[j]] = j)
                      /\ (right[j] # NULL => parent[right[j]] = j)
  BY DEF Tree, Agree
<1>5. /\ k \in Keys /\ f \in Keys /\ q \in Keys /\ f \in Pointers /\ k # NULL /\ q \in Pointers
      /\ left[k] \in Pointers /\ right[k] \in Pointers /\ o \in Pointers
      /\ parent[k] \in Pointers /\ right[k] \in Keys
  BY <1>1, <1>3, <1>4 DEF PointersOK, Pointers
<1>6. left[q] = f <=> q # k
  BY <1>3
<1> HIDE DEF q, o
<1> DEFINE deep == left[q] = f
           up == IF deep THEN [left EXCEPT ![q] = o] ELSE left
           un == IF deep THEN Put(parent, o, q) ELSE parent
           upParent == [un EXCEPT ![q] = IF @ = k THEN f ELSE @]
           down == IF right[k] # f THEN [right EXCEPT ![f] = right[k]] ELSE right
           downParent == IF right[k] # f THEN [upParent EXCEPT ![right[k]] = f] ELSE upParent
           upk == [up EXCEPT ![f] = left[k]]
           downp == [downParent EXCEPT ![f] = parent[k]]
<1>7. /\ left' = LeftWith(upk, parent[k], k, f)
      /\ right' = RightWith(down, parent[k], k, f)
      /\ parent' = Put(downp, left[k], f)
  BY DEF st_replace_right, q, o
<1>8. /\ upk \in [Keys -> Pointers]
      /\ \A j \in Keys : upk[j] = IF j = f THEN left[k] ELSE IF left[q] = f /\ j = q THEN o
                                  ELSE left[j]
  BY <1>1, <1>5 DEF PointersOK
<1>9. /\ down \in [Keys -> Pointers]
      /\ \A j \in Keys : down[j] = IF right[k] # f /\ j = f THEN right[k] ELSE right[j]
  BY <1>1, <1>5 DEF PointersOK
<1>10. /\ un \in [Keys -> Pointers]
       /\ \A j \in Keys : un[j] = IF left[q] = f /\ j = o THEN q ELSE parent[j]
  BY <1>1, <1>5, NullIsNoKey DEF PointersOK, Put
<1> HIDE DEF un
<1>11. /\ upParent \in [Keys -> Pointers]
       /\ \A j \in Keys : upParent[j] = IF j = q /\ un[j] = k THEN f ELSE un[j]
  BY <1>5, <1>10
<1> HIDE DEF upParent
<1>12. /\ downp \in [Keys -> Pointers]
       /\ \A j \in Keys : downp[j] = IF j = f THEN parent[k]
                                     ELSE IF right[k] # f /\ j = right[k] THEN f
                                     ELSE upParent[j]
  BY <1>1, <1>5, <1>11 DEF PointersOK
<1> HIDE DEF upk, down, downp
<1>13. /\ left' \in [Keys -> Pointers]
       /\ \A j \in Keys : left'[j] = IF j \in M /\ left[j] = k THEN f ELSE upk[j]
  <2>1. upk \in [Keys -> Pointers] /\ f \in Pointers
    BY <1>5, <1>8
  <2>2. /\ LeftWith(upk, parent[k], k, f) \in [Keys -> Pointers]
        /\ \A j \in Keys :
              LeftWith(upk, parent[k], k, f)[j] = IF j \in M /\ left[j] = k THEN f ELSE upk[j]
    BY <2>1, Orders, WithFacts
  <2> QED
    BY <1>7, <2>2
<1>14. /\ right' \in [Keys -> Pointers]
       /\ \A j \in Keys : right'[j] = IF j \in M /\ right[j] = k THEN f ELSE down[j]
  <2>1. down \in [Keys -> Pointers] /\ f \in Pointers
    BY <1>5, <1>9
  <2>2. /\ RightWith(down, parent[k], k, f) \in [Keys -> Pointers]
        /\ \A j \in Keys :
              RightWith(down, parent[k], k, f)[j] = IF j \in M /\ right[j] = k THEN f ELSE down[j]
    BY <2>1, Orders, WithFacts
  <2> QED
    BY <1>7, <2>2
<1>15. /\ parent' \in [Keys -> Pointers]
       /\ \A j \in Keys : parent'[j] = IF j = left[k] THEN f ELSE downp[j]
  BY <1>5, <1>7, <1>12, NullIsNoKey DEF Put
<1>16. Replaced(left, right, parent, M, k, f, left', right', parent')
  <2>1. SUFFICES ASSUME NEW j \in M \ {k}
                 PROVE  /\ left'[j] = IF j = f THEN left[k] ELSE IF left[j] = k THEN f
                                      ELSE IF left[j] = f THEN o ELSE left[j]
                        /\ right'[j] = IF j = f THEN (IF right[k] = f THEN o ELSE right[k])
                                       ELSE IF right[j] = k THEN f ELSE right[j]
                        /\ parent'[j] = IF j = f THEN parent[k] ELSE IF parent[j] = k THEN f
                                        ELSE IF j = o /\ q # k THEN q ELSE parent[j]
    BY DEF Replaced, o, q
  <2>2. j \in Keys /\ j \in M
    BY <1>1
  <2>3. left[j] = f => j = q
    BY <1>1, <1>3, <1>4, <2>2 DEF q
  <2>4. left'[j] = IF j = f THEN left[k] ELSE IF left[j] = k THEN f
                   ELSE IF left[j] = f THEN o ELSE left[j]
    BY <1>5, <1>8, <1>13, <2>2, <2>3
  <2>5. right'[j] = IF j = f THEN (IF right[k] = f THEN o ELSE right[k])
                    ELSE IF right[j] = k THEN f ELSE right[j]
    BY <1>3, <1>9, <1>14, <2>2 DEF o
  <2>6. parent'[j] = IF j = f THEN parent[k] ELSE IF parent[j] = k THEN f
                     ELSE IF j = o /\ q # k THEN q ELSE parent[j]
    <3>1. CASE j = f
      BY <1>3, <1>12, <1>15, <2>2, <3>1
    <3>2. CASE j # f /\ parent[j] = k
      <4>1. j = left[k] \/ j = right[k]
        <5>1. j # top
          BY <1>5, <2>2, <3>2, Orders, ParentFacts
        <5> QED
          BY <2>2, <3>2, <5>1, Orders, ParentFacts
      <4> QED
        BY <1>12, <1>15, <2>2, <3>2, <4>1
    <3>3. CASE j # f /\ parent[j] # k
      <4>1. j # left[k] /\ j # right[k]
        BY <1>1, <1>4, <2>2, <3>3
      <4>2. parent'[j] = upParent[j]
        BY <1>12, <1>15, <2>2, <3>3, <4>1
      <4>3. j = q => un[j] = parent[j]
        BY <1>3, <1>10, <2>2
      <4>4. upParent[j] = un[j]
        BY <1>11, <2>2, <3>3, <4>3
      <4> QED
        BY <1>6, <1>10, <2>2, <3>3, <4>2, <4>4
    <3> QED
      BY <3>1, <3>2, <3>3
  <2> QED
    BY <2>4, <2>5, <2>6
<1>17. Elsewhere(M)
  <2>1. SUFFICES ASSUME NEW j \in Keys \ M
                 PROVE  left'[j] = left[j] /\ right'[j] = right[j] /\ parent'[j] = parent[j]
    BY DEF Elsewhere
  <2>2. j # left[k] /\ j # right[k] /\ j # f /\ j # q /\ j # o
    BY <1>1, <1>3, <1>4, <2>1, NullIsNoKey DEF o
  <2>3. left'[j] = left[j] /\ right'[j] = right[j]
    BY <1>8, <1>9, <1>13, <1>14, <2>1, <2>2
  <2>4. parent'[j] = parent[j]
    BY <1>10, <1>11, <1>12, <1>15, <2>1, <2>2
  <2> QED
    BY <2>3, <2>4
<1>18. \E s2 : Tree(left', right', parent', top2, M \ {k}, s2, Lt)
  BY <1>2, <1>13, <1>14, <1>15, <1>16, ReplaceTree
<1>19. \E s2 : Tree(left', right', parent', top2, M \ {k}, s2, Lt)
  BY <1>18, Orders, MirrorTree
<1> QED
  BY <1>13, <1>14, <1>15, <1>17, <1>19 DEF PointersOK

LEMMA ReplaceLeft ==
    ASSUME NEW top, NEW M, NEW sub,
           Tree(left, right, parent, top, M, sub, Lt),
           NEW k \in M, NEW f \in sub[left[k]], right[f] = NULL,
           \A m \in sub[left[k]] : m # f => <<f, m>> \in Gt,
           st_replace_left(k, f),
           NEW top2, top2 = IF k = top THEN f ELSE top
    PROVE  /\ PointersOK(left', right', parent') /\ Elsewhere(M)
           /\ \E s2 : Tree(left', right', parent', top2, M \ {k}, s2, Lt)
<1>1. PointersOK(left, right, parent) /\ M \subseteq Keys /\ NULL \in Pointers /\ NULL \notin M
  BY NullIsNoKey DEF Tree, Typed, PointersOK, Pointers
<1>2. Tree(right, left, parent, top, M, sub, Gt) /\ Strict(Gt)
  BY Orders, MirrorTree
<1> DEFINE q == parent[f]
           o == left[f]
<1>3. /\ f \in M /\ f # k /\ f # top /\ o # k /\ right[k] # f /\ f \in sub[k]
      /\ left[k] # NULL /\ left[k] \in M
      /\ q \in M /\ q \notin sub[f] /\ parent[q] # f
      /\ o # q
      /\ \A j \in M : left[j] = f => j = k
      /\ q # k => right[q] = f
      /\ q = k => left[k] = f
  <2>1. FirstOf(right, left, parent, top, M, sub, Gt, k, f)
    BY <1>2, FirstFacts
  <2> QED
    BY <2>1 DEF FirstOf
<1>4. /\ \A j \in M : left[j] \in M \cup {NULL} /\ right[j] \in M \cup {NULL}
      /\ \A j \in M : (left[j] # NULL => parent[left[j]] = j)
                      /\ (right[j] # NULL => parent[right[j]] = j)
  BY DEF Tree, Agree
<1>5. /\ k \in Keys /\ f \in Keys /\ q \in Keys /\ f \in Pointers /\ k # NULL /\ q \in Pointers
      /\ left[k] \in Pointers /\ right[k] \in Pointers /\ o \in Pointers
      /\ parent[k] \in Pointers /\ left[k] \in Keys
  BY <1>1, <1>3, <1>4 DEF PointersOK, Pointers
<1>6. right[q] = f <=> q # k
  BY <1>3
<1> HIDE DEF q, o
<1> DEFINE deep == right[q] = f
           up == IF deep THEN [right EXCEPT ![q] = o] ELSE right
           un == IF deep THEN Put(parent, o, q) ELSE parent
           upParent == [un EXCEPT ![q] = IF @ = k THEN f ELSE @]
           down == IF left[k] # f THEN [left EXCEPT ![f] = left[k]] ELSE left
           downParent == IF left[k] # f THEN [upParent EXCEPT ![left[k]] = f] ELSE upParent
           upk == [up EXCEPT ![f] = right[k]]
           downp == [downParent EXCEPT ![f] = parent[k]]
<1>7. /\ right' = RightWith(upk, parent[k], k, f)
      /\ left' = LeftWith(down, parent[k], k, f)
      /\ parent' = Put(downp, right[k], f)
  BY DEF st_replace_left, q, o
<1>8. /\ upk \in [Keys -> Pointers]
      /\ \A j \in Keys : upk[j] = IF j = f THEN right[k] ELSE IF right[q] = f /\ j = q THEN o
                                  ELSE right[j]
  BY <1>1, <1>5 DEF PointersOK
<1>9. /\ down \in [Keys -> Pointers]
      /\ \A j \in Keys : down[j] = IF left[k] # f /\ j = f THEN left[k] ELSE left[j]
  BY <1>1, <1>5 DEF PointersOK
<1>10. /\ un \in [Keys -> Pointers]
       /\ \A j \in Keys : un[j] = IF right[q] = f /\ j = o THEN q ELSE parent[j]
  BY <1>1, <1>5, NullIsNoKey DEF PointersOK, Put
<1> HIDE DEF un
<1>11. /\ upParent \in [Keys -> Pointers]
       /\ \A j \in Keys : upParent[j] = IF j = q /\ un[j] = k THEN f ELSE un[j]
  BY <1>5, <1>10
<1> HIDE DEF upParent
<1>12. /\ downp \in [Keys -> Pointers]
       /\ \A j \in Keys : downp[j] = IF j = f THEN parent[k]
                                     ELSE IF left[k] # f /\ j = left[k] THEN f
                                     ELSE upParent[j]
  BY <1>1, <1>5, <1>11 DEF PointersOK
<1> HIDE DEF upk, down, downp
<1>13. /\ right' \in [Keys -> Pointers]
       /\ \A j \in Keys : right'[j] = IF j \in M /\ right[j] = k THEN f ELSE upk[j]
  <2>1. upk \in [Keys -> Pointers] /\ f \in Pointers
    BY <1>5, <1>8
  <2>2. /\ RightWith(upk, parent[k], k, f) \in [Keys -> Pointers]
        /\ \A j \in Keys :
              RightWith(upk, parent[k], k, f)[j] = IF j \in M /\ right[j] = k THEN f ELSE upk[j]
    BY <2>1, Orders, WithFacts
  <2> QED
    BY <1>7, <2>2
<1>14. /\ left' \in [Keys -> Pointers]
       /\ \A j \in Keys : left'[j] = IF j \in M /\ left[j] = k THEN f ELSE down[j]
  <2>1. down \in [Keys -> Pointers] /\ f \in Pointers
    BY <1>5, <1>9
  <2>2. /\ LeftWith(down, parent[k], k, f) \in [Keys -> Pointers]
        /\ \A j \in Keys :
              LeftWith(down, parent[k], k, f)[j] = IF j \in M /\ left[j] = k THEN f ELSE down[j]
    BY <2>1, Orders, WithFacts
  <2> QED
    BY <1>7, <2>2
<1>15. /\ parent' \in [Keys -> Pointers]
       /\ \A j \in Keys : parent'[j] = IF j = right[k] THEN f ELSE downp[j]
  BY <1>5, <1>7, <1>12, NullIsNoKey DEF Put
<1>16. Replaced(right, left, parent, M, k, f, right', left', parent')
  <2>1. SUFFICES ASSUME NEW j \in M \ {k}
                 PROVE  /\ right'[j] = IF j = f THEN right[k] ELSE IF right[j] = k THEN f
                                      ELSE IF right[j] = f THEN o ELSE right[j]
                        /\ left'[j] = IF j = f THEN (IF left[k] = f THEN o ELSE left[k])
                                       ELSE IF left[j] = k THEN f ELSE left[j]
                        /\ parent'[j] = IF j = f THEN parent[k] ELSE IF parent[j] = k THEN f
                                        ELSE IF j = o /\ q # k THEN q ELSE parent[j]
    BY DEF Replaced, o, q
  <2>2. j \in Keys /\ j \in M
    BY <1>1
  <2>3. right[j] = f => j = q
    BY <1>1, <1>3, <1>4, <2>2 DEF q
  <2>4. right'[j] = IF j = f THEN right[k] ELSE IF right[j] = k THEN f
                   ELSE IF right[j] = f THEN o ELSE right[j]
    BY <1>5, <1>8, <1>13, <2>2, <2>3
  <2>5. left'[j] = IF j = f THEN (IF left[k] = f THEN o ELSE left[k])
                    ELSE IF left[j] = k THEN f ELSE left[j]
    BY <1>3, <1>9, <1>14, <2>2 DEF o
  <2>6. parent'[j] = IF j = f THEN parent[k] ELSE IF parent[j] = k THEN f
                     ELSE IF j = o /\ q # k THEN q ELSE parent[j]
    <3>1. CASE j = f
      BY <1>3, <1>12, <1>15, <2>2, <3>1
    <3>2. CASE j # f /\ parent[j] = k
      <4>1. j = left[k] \/ j = right[k]
        <5>1. j # top
          BY <1>5, <2>2, <3>2, Orders, ParentFacts
        <5> QED
          BY <2>2, <3>2, <5>1, Orders, ParentFacts
      <4> QED
        BY <1>12, <1>15, <2>2, <3>2, <4>1
    <3>3. CASE j # f /\ parent[j] # k
      <4>1. j # left[k] /\ j # right[k]
        BY <1>1, <1>4, <2>2, <3>3
      <4>2. parent'[j] = upParent[j]
        BY <1>12, <1>15, <2>2, <3>3, <4>1
      <4>3. j = q => un[j] = parent[j]
        BY <1>3, <1>10, <2>2
      <4>4. upParent[j] = un[j]
        BY <1>11, <2>2, <3>3, <4>3
      <4> QED
        BY <1>6, <1>10, <2>2, <3>3, <4>2, <4>4
    <3> QED
      BY <3>1, <3>2, <3>3
  <2> QED
    BY <2>4, <2>5, <2>6
<1>17. Elsewhere(M)
  <2>1. SUFFICES ASSUME NEW j \in Keys \ M
                 PROVE  left'[j] = left[j] /\ right'[j] = right[j] /\ parent'[j] = parent[j]
    BY DEF Elsewhere
  <2>2. j # left[k] /\ j # right[k] /\ j # f /\ j # q /\ j # o
    BY <1>1, <1>3, <1>4, <2>1, NullIsNoKey DEF o
  <2>3. right'[j] = right[j] /\ left'[j] = left[j]
    BY <1>8, <1>9, <1>13, <1>14, <2>1, <2>2
  <2>4. parent'[j] = parent[j]
    BY <1>10, <1>11, <1>12, <1>15, <2>1, <2>2
  <2> QED
    BY <2>3, <2>4
<1>18. \E s2 : Tree(right', left', parent', top2, M \ {k}, s2, Gt)
  BY <1>2, <1>13, <1>14, <1>15, <1>16, ReplaceTree
<1>19. \E s2 : Tree(left', right', parent', top2, M \ {k}, s2, Lt)
  BY <1>18, Orders, MirrorTree
<1> QED
  BY <1>13, <1>14, <1>15, <1>17, <1>19 DEF PointersOK

\* A node without children is taken out of the tree.
LEMMA RemoveLeaf ==
    ASSUME NEW top, NEW M, NEW sub,
           Tree(left, right, parent, top, M, sub, Lt),
           NEW k \in M, left[k] = NULL, right[k] = NULL,
           left' = LeftWith(left, parent[k], k, NULL),
           right' = RightWith(right, parent[k], k, NULL),
           parent' = parent,
           NEW top2, top2 = IF k = top THEN NULL ELSE top
    PROVE  /\ PointersOK(left', right', parent') /\ Elsewhere(M)
           /\ \E s2 : Tree(left', right', parent', top2, M \ {k}, s2, Lt)
<1>1. PointersOK(left, right, parent) /\ M \subseteq Keys /\ NULL \in Pointers /\ NULL \notin M
  BY NullIsNoKey DEF Tree, Typed, PointersOK, Pointers
<1>2. /\ left' \in [Keys -> Pointers]
      /\ \A j \in Keys : left'[j] = IF j \in M /\ left[j] = k THEN NULL ELSE left[j]
  BY <1>1, Orders, WithFacts DEF PointersOK
<1>3. /\ right' \in [Keys -> Pointers]
      /\ \A j \in Keys : right'[j] = IF j \in M /\ right[j] = k THEN NULL ELSE right[j]
  BY <1>1, Orders, WithFacts DEF PointersOK
<1>4. Unlinked(left, right, parent, M, k, left', right', parent')
  BY <1>1, <1>2, <1>3 DEF Unlinked
<1>5. Elsewhere(M)
  BY <1>2, <1>3 DEF Elsewhere
<1>6. PointersOK(left', right', parent')
  BY <1>1, <1>2, <1>3 DEF PointersOK
<1>7. Tree(left', right', parent', top2, M \ {k}, UnlinkedSub(sub, k), Lt)
  <2>1. top2 = IF k = top THEN right[k] ELSE top
    OBVIOUS
  <2> QED
    BY <1>4, <1>6, <2>1, Orders, UnlinkTree DEF PointersOK
<1> QED
  BY <1>5, <1>6, <1>7

-----------------------------------------------------------------------------
(* The steps *)

LEMMA InitInv == Init => STreeInv
<1> SUFFICES ASSUME Init PROVE STreeInv
  OBVIOUS
<1>1. STreeTypeOK
  BY DEF Init, STreeTypeOK, Ops, Pointers
<1>2. Blank /\ Places
  BY DEF Init, Blank, Places
<1>3. Members = {}
  BY DEF Init, Members
<1>4. Tree(left, right, parent, root, Members, [j \in Pointers |-> {}], Lt)
  BY <1>1, <1>3, EmptyTree DEF Init, STreeTypeOK
<1> QED
  BY <1>1, <1>2, <1>4 DEF STreeInv, TreeOf, Init

LEMMA CallInv == STreeInv /\ Call => STreeInv'
<1> SUFFICES ASSUME STreeInv, Call PROVE STreeInv'
  OBVIOUS
<1>1. STreeTypeOK' /\ Blank'
  BY DEF STreeInv, Call, tree, STreeTypeOK, Blank, Pointers
<1>2. Members' = allocated /\ Members = allocated
  BY DEF STreeInv, Call, Members
<1>3. PICK sub : TreeOf(sub)
  BY DEF STreeInv
<1>4. Tree(left', right', parent', root', Members', sub, Lt)
  BY <1>2, <1>3 DEF Call, tree, TreeOf
<1>5. n' \in Members' \cup {NULL} /\ sub[n'] = Members'
  BY <1>4 DEF Tree, Typed, Call, tree
<1>6. OnTheWay(sub)'
  BY <1>5 DEF OnTheWay, Call, tree
<1>7. Places'
  BY <1>5 DEF Places, Call
<1> QED
  BY <1>1, <1>4, <1>6, <1>7 DEF STreeInv, TreeOf

\* Steps that end a search leave the tree as it is.
LEMMA EndInv ==
    ASSUME STreeInv, UNCHANGED <<tree, allocated, op, a, n, p>>, result' \in BOOLEAN,
           \/ pc = "search" /\ pc' = "idle"
           \/ pc = "update" /\ pc' = IF op = "remove" THEN "free" ELSE "idle"
    PROVE  STreeInv'
<1>1. STreeTypeOK' /\ Blank'
  BY DEF STreeInv, tree, STreeTypeOK, Blank
<1>2. Members' = Members
  BY DEF STreeInv, Members
<1>3. PICK sub : TreeOf(sub)
  BY DEF STreeInv
<1>4. Tree(left', right', parent', root', Members', sub, Lt)
  BY <1>2, <1>3 DEF tree, TreeOf
<1>5. Places' /\ pc' # "search"
  BY DEF Places, STreeInv
<1> QED
  BY <1>1, <1>4, <1>5 DEF STreeInv, TreeOf

LEMMA SearchInv == STreeInv /\ Search => STreeInv'
<1> SUFFICES ASSUME STreeInv, Search PROVE STreeInv'
  OBVIOUS
<1>1. PICK sub : TreeOf(sub) /\ OnTheWay(sub)
  BY DEF STreeInv, Search
<1>2. Tree(left, right, parent, root, Members, sub, Lt)
  BY <1>1 DEF TreeOf
<1>3. /\ n \in Members /\ n # a /\ n # NULL /\ pc' = "search"
      /\ Members' = Members /\ Members = allocated /\ Members \subseteq Keys
      /\ a \in Keys /\ n \in Keys
  BY DEF STreeInv, Search, Places, Members, STreeTypeOK
<1>4. UNCHANGED <<root, left, right, parent, hint, allocated, pc, op, a, result>>
  BY DEF Search, tree
<1>5. p' = n /\ n' = IF a < n THEN left[n] ELSE right[n]
  BY DEF Search
<1>6. left[n] \in Members \cup {NULL} /\ right[n] \in Members \cup {NULL}
  BY <1>2, <1>3 DEF Tree, Agree
<1>7. STreeTypeOK' /\ Blank'
  BY <1>3, <1>4, <1>5, <1>6 DEF STreeInv, STreeTypeOK, Blank, Pointers
<1>8. Places'
  BY <1>3, <1>5, <1>6 DEF Places
<1>9. ASSUME NEW j \in Members
      PROVE  /\ n \in sub[left[j]] => a < j
             /\ n \in sub[right[j]] => a > j
  <2>1. /\ left[j] \in Members \cup {NULL} /\ (left[j] # NULL => parent[left[j]] = j)
        /\ right[j] \in Members \cup {NULL} /\ (right[j] # NULL => parent[right[j]] = j)
        /\ j # NULL /\ j \in Keys
    BY <1>2, <1>3, NullIsNoKey DEF Tree, Agree
  <2>2. sub[NULL] = {}
    BY <1>2 DEF Tree, Typed
  <2>3. \A c \in Members : n \in sub[c] /\ n # c => parent[n] \in sub[c]
    BY <1>2 DEF Tree, Climb
  <2>4. CASE p = NULL
    <3>1. n = root /\ parent[n] = NULL
      BY <1>1, <1>2, <1>3, <2>4 DEF OnTheWay, Tree, Typed
    <3>2. \A c \in Members : NULL \notin sub[c]
      BY <1>2, <1>3, NullIsNoKey, Orders, TreeFacts
    <3> QED
      BY <2>1, <2>2, <2>3, <3>1, <3>2
  <2>5. CASE p # NULL
    <3>1. /\ p \in Members /\ p # a /\ p \in Keys
          /\ n = IF a < p THEN left[p] ELSE right[p]
          /\ (p \in sub[left[j]] => a < j) /\ (p \in sub[right[j]] => a > j)
      BY <1>1, <1>3, <2>5 DEF OnTheWay
    <3>2. parent[n] = p
      BY <1>2, <1>3, <3>1 DEF Tree, Agree
    <3>3. left[j] = n => j = p /\ a < j
      <4>1. left[j] = n => j = p /\ right[p] # n
        BY <1>2, <1>3, <2>1, <3>2, Orders, OnlyParent
      <4> QED
        BY <3>1, <4>1
    <3>4. right[j] = n => j = p /\ a > j
      <4>1. right[j] = n => j = p /\ left[p] # n
        BY <1>2, <1>3, <2>1, <3>2, Orders, OnlyParent
      <4> QED
        BY <1>3, <3>1, <4>1, Orders
    <3> QED
      BY <2>1, <2>2, <2>3, <3>1, <3>2, <3>3, <3>4
  <2> QED
    BY <2>4, <2>5
<1>10. ASSUME a \in Members PROVE a \in sub[n']
  <2>1. a \in sub[n]
    BY <1>1, <1>10 DEF OnTheWay
  <2>2. /\ sub[n] = sub[left[n]] \cup {n} \cup sub[right[n]]
        /\ \A m \in sub[left[n]] : <<m, n>> \in Lt
        /\ \A m \in sub[right[n]] : <<n, m>> \in Lt
    BY <1>2, <1>3 DEF Tree, Split
  <2> QED
    BY <1>3, <1>5, <2>1, <2>2, Orders
<1>11. OnTheWay(sub)'
  BY <1>3, <1>4, <1>5, <1>9, <1>10 DEF OnTheWay
<1>12. Tree(left', right', parent', root', Members', sub, Lt)
  BY <1>2, <1>3, <1>4
<1> QED
  BY <1>7, <1>8, <1>11, <1>12 DEF STreeInv, TreeOf

LEMMA InsertInv == STreeInv /\ Insert => STreeInv'
<1> SUFFICES ASSUME STreeInv, Insert PROVE STreeInv'
  OBVIOUS
<1>1. PICK sub : TreeOf(sub) /\ OnTheWay(sub)
  BY DEF STreeInv, Insert
<1>2. Tree(left, right, parent, root, Members, sub, Lt)
  BY <1>1 DEF TreeOf
<1>3. /\ n = NULL /\ op = "insert" /\ Members = allocated /\ Members \subseteq Keys
      /\ a \in Keys /\ a # NULL /\ NULL \notin Members
      /\ left \in [Keys -> Pointers] /\ right \in [Keys -> Pointers]
      /\ parent \in [Keys -> Pointers] /\ a \in Pointers
  BY NullIsNoKey DEF STreeInv, Insert, STreeTypeOK, Members, Pointers
<1>4. /\ allocated' = allocated \cup {a}
      /\ result' = FALSE
      /\ UNCHANGED <<hint, op, a, p>>
  BY DEF Insert
<1>5. sub[NULL] = {} /\ sub[root] = Members
  BY <1>2 DEF Tree, Typed
<1>6. a \notin Members
  BY <1>1, <1>3, <1>5 DEF OnTheWay
<1>7. left[a] = NULL /\ right[a] = NULL /\ parent[a] = NULL
  BY <1>3, <1>6 DEF STreeInv, Blank
<1>8. CASE root = NULL
  <2>1. /\ root' = a /\ pc' = "idle" /\ UNCHANGED <<left, right, parent, n>>
    BY <1>8 DEF Insert
  <2>2. STreeTypeOK' /\ Blank'
    BY <1>3, <1>4, <2>1 DEF STreeInv, STreeTypeOK, Blank
  <2>3. Members' = {a}
    BY <1>3, <1>4, <1>5, <1>8, <2>1 DEF Members
  <2>4. Tree(left, right, parent, a, {a}, [j \in Pointers |-> {a} \cap {j}], Lt)
    BY <1>3, <1>7, SingleTree
  <2>5. Tree(left', right', parent', root', Members', [j \in Pointers |-> {a} \cap {j}], Lt)
    BY <2>1, <2>3, <2>4
  <2>6. Places'
    BY <2>1 DEF Places
  <2> QED
    BY <2>1, <2>2, <2>5, <2>6 DEF STreeInv, TreeOf
<1>9. CASE root # NULL
  <2>1. /\ pc' = "update" /\ n' = a /\ root' = root
        /\ parent' = [parent EXCEPT ![a] = p]
        /\ IF a < p THEN left' = [left EXCEPT ![p] = a] /\ right' = right
                    ELSE right' = [right EXCEPT ![p] = a] /\ left' = left
    BY <1>9 DEF Insert, GoesLeft
  <2>2. /\ p \in Members /\ p # a /\ p \in Keys /\ p # NULL /\ p \in Pointers
        /\ NULL = IF a < p THEN left[p] ELSE right[p]
        /\ \A j \in Members : (p \in sub[left[j]] => a < j) /\ (p \in sub[right[j]] => a > j)
    BY <1>1, <1>3, <1>9 DEF OnTheWay, Pointers
  <2>3. STreeTypeOK'
    BY <1>3, <1>4, <2>1, <2>2 DEF STreeInv, STreeTypeOK
  <2>4. Blank'
    BY <1>3, <1>4, <2>1, <2>2 DEF STreeInv, Blank
  <2>5. Members' = Members \cup {a}
    BY <1>3, <1>4, <2>1 DEF Members
  <2>6. Places'
    BY <2>1, <2>5 DEF Places
  <2>7. \E s2 : Tree(left', right', parent', root', Members \cup {a}, s2, Lt)
    <3>1. CASE a < p
      <4>1. left[p] = NULL /\ <<a, p>> \in Lt
        BY <1>3, <2>2, <3>1, Orders
      <4>2. \A j \in Members : (p \in sub[left[j]] => <<a, j>> \in Lt)
                               /\ (p \in sub[right[j]] => <<j, a>> \in Lt)
        BY <1>3, <2>2, Orders
      <4>3. /\ left' = [left EXCEPT ![p] = a] /\ right' = right /\ root' = root
            /\ parent' = [parent EXCEPT ![a] = p]
        BY <2>1, <3>1
      <4>4. Tree(left', right, parent', root, Members \cup {a}, AttachedSub(sub, p, a), Lt)
        BY <1>2, <1>3, <1>6, <1>7, <2>2, <4>1, <4>2, <4>3, Orders, AttachTree
      <4> QED
        BY <4>3, <4>4
    <3>2. CASE ~(a < p)
      <4>1. right[p] = NULL /\ <<a, p>> \in Gt
        BY <1>3, <2>2, <3>2, Orders
      <4>2. \A j \in Members : (p \in sub[right[j]] => <<a, j>> \in Gt)
                               /\ (p \in sub[left[j]] => <<j, a>> \in Gt)
        BY <1>3, <2>2, Orders
      <4>3. /\ right' = [right EXCEPT ![p] = a] /\ left' = left /\ root' = root
            /\ parent' = [parent EXCEPT ![a] = p]
        BY <2>1, <3>2
      <4>4. Tree(right, left, parent, root, Members, sub, Gt)
        BY <1>2, Orders, MirrorTree
      <4>5. Tree(right', left, parent', root, Members \cup {a}, AttachedSub(sub, p, a), Gt)
        BY <1>3, <1>6, <1>7, <2>2, <4>1, <4>2, <4>3, <4>4, Orders, AttachTree
      <4>6. Tree(left, right', parent', root, Members \cup {a}, AttachedSub(sub, p, a), Lt)
        BY <4>5, Orders, MirrorTree
      <4> QED
        BY <4>3, <4>6
    <3> QED
      BY <3>1, <3>2
  <2> QED
    BY <2>1, <2>3, <2>4, <2>5, <2>6, <2>7 DEF STreeInv, TreeOf
<1> QED
  BY <1>8, <1>9

LEMMA RemoveInv == STreeInv /\ Remove => STreeInv'
<1> SUFFICES ASSUME STreeInv, Remove PROVE STreeInv'
  OBVIOUS
<1>1. PICK sub : TreeOf(sub) /\ OnTheWay(sub)
  BY DEF STreeInv, Remove
<1>2. Tree(left, right, parent, root, Members, sub, Lt)
  BY <1>1 DEF TreeOf
<1>3. /\ n = a /\ op = "remove" /\ Members = allocated /\ Members \subseteq Keys
      /\ a \in Keys /\ n \in Members /\ n # NULL /\ NULL \notin Members
  BY NullIsNoKey DEF STreeInv, Remove, STreeTypeOK, Members, Places
<1>4. /\ pc' = "update" /\ result' = TRUE
      /\ UNCHANGED <<hint, allocated, op, a, p>>
  BY DEF Remove
<1>5. Members' = Members \ {n}
  BY <1>3, <1>4 DEF Members
<1>6. SUFFICES /\ PointersOK(left', right', parent') /\ Elsewhere(Members)
               /\ \E s2 : Tree(left', right', parent', root', Members \ {n}, s2, Lt)
               /\ n' \in (Members \ {n}) \cup {NULL}
  <2>1. PICK s2 : Tree(left', right', parent', root', Members \ {n}, s2, Lt)
    BY <1>6
  <2>2. root' \in Pointers /\ n' \in Pointers
    BY <1>3, <1>6, <2>1 DEF Tree, Typed, Pointers
  <2>3. STreeTypeOK'
    BY <1>4, <1>6, <2>2 DEF STreeInv, STreeTypeOK, PointersOK
  <2>4. Blank'
    BY <1>3, <1>4, <1>6 DEF STreeInv, Blank, Elsewhere
  <2>5. Places'
    BY <1>4, <1>5, <1>6 DEF Places
  <2> QED
    BY <1>4, <1>5, <2>1, <2>3, <2>4, <2>5 DEF STreeInv, TreeOf
<1>7. CASE /\ right[n] # NULL
           /\ root' = RootWith(n, st_first(right[n]))
           /\ st_replace_right(n, st_first(right[n]))
           /\ n' = right'[st_first(right[n])]
  <2> DEFINE f == st_first(right[n])
  <2>1. right[n] \in Members
    BY <1>2, <1>3, <1>7 DEF Tree, Agree
  <2>2. f = Path(left, right[n])[Cardinality(Keys)]
    BY DEF st_first
  <2> HIDE DEF f
  <2>3. /\ f \in sub[right[n]] /\ left[f] = NULL
        /\ \A m \in sub[right[n]] : m # f => <<f, m>> \in Lt
    BY <1>2, <2>1, <2>2, Orders, FirstNode
  <2>4. root' = (IF n = root THEN f ELSE root) /\ st_replace_right(n, f) /\ n' = right'[f]
    BY <1>7 DEF RootWith, f
  <2>5. /\ PointersOK(left', right', parent') /\ Elsewhere(Members)
        /\ \E s2 : Tree(left', right', parent', root', Members \ {n}, s2, Lt)
    <3>1. n \in Members /\ st_replace_right(n, f) /\ root' = IF n = root THEN f ELSE root
      BY <1>3, <2>4
    <3> QED
      BY <1>2, <2>3, <3>1, ReplaceRight
  <2>6. f \in Members \ {n}
    <3>1. FirstOf(left, right, parent, root, Members, sub, Lt, n, f)
      BY <1>2, <1>3, <2>3, Orders, FirstFacts
    <3> QED
      BY <3>1 DEF FirstOf
  <2>7. right'[f] \in (Members \ {n}) \cup {NULL}
    BY <2>5, <2>6 DEF Tree, Agree
  <2> QED
    BY <2>4, <2>5, <2>7
<1>8. CASE /\ right[n] = NULL /\ left[n] # NULL
           /\ root' = RootWith(n, st_last(left[n]))
           /\ st_replace_left(n, st_last(left[n]))
           /\ n' = left'[st_last(left[n])]
  <2> DEFINE f == st_last(left[n])
  <2>1. left[n] \in Members
    BY <1>2, <1>3, <1>8 DEF Tree, Agree
  <2>2. f = Path(right, left[n])[Cardinality(Keys)]
    BY DEF st_last
  <2> HIDE DEF f
  <2>3. Tree(right, left, parent, root, Members, sub, Gt)
    BY <1>2, Orders, MirrorTree
  <2>4. /\ f \in sub[left[n]] /\ right[f] = NULL
        /\ \A m \in sub[left[n]] : m # f => <<f, m>> \in Gt
    BY <2>1, <2>2, <2>3, Orders, FirstNode
  <2>5. root' = (IF n = root THEN f ELSE root) /\ st_replace_left(n, f) /\ n' = left'[f]
    BY <1>8 DEF RootWith, f
  <2>6. /\ PointersOK(left', right', parent') /\ Elsewhere(Members)
        /\ \E s2 : Tree(left', right', parent', root', Members \ {n}, s2, Lt)
    <3>1. n \in Members /\ st_replace_left(n, f) /\ root' = IF n = root THEN f ELSE root
      BY <1>3, <2>5
    <3> QED
      BY <1>2, <2>4, <3>1, ReplaceLeft
  <2>7. f \in Members \ {n}
    <3>1. FirstOf(right, left, parent, root, Members, sub, Gt, n, f)
      BY <1>3, <2>3, <2>4, Orders, FirstFacts
    <3> QED
      BY <3>1 DEF FirstOf
  <2>8. left'[f] \in (Members \ {n}) \cup {NULL}
    BY <2>6, <2>7 DEF Tree, Agree
  <2> QED
    BY <2>5, <2>6, <2>8
<1>9. CASE /\ right[n] = NULL /\ left[n] = NULL
           /\ root' = RootWith(n, NULL)
           /\ left' = LeftWith(left, parent[n], n, NULL)
           /\ right' = RightWith(right, parent[n], n, NULL)
           /\ n' = parent[n]
           /\ UNCHANGED parent
  <2>1. root' = IF n = root THEN NULL ELSE root
    BY <1>9 DEF RootWith
  <2>2. /\ PointersOK(left', right', parent') /\ Elsewhere(Members)
        /\ \E s2 : Tree(left', right', parent', root', Members \ {n}, s2, Lt)
    BY <1>2, <1>3, <1>9, <2>1, RemoveLeaf
  <2>3. parent[n] \in (Members \ {n}) \cup {NULL}
    BY <1>2, <1>3, Orders, ParentFacts
  <2> QED
    BY <1>9, <2>2, <2>3
<1> QED
  BY <1>7, <1>8, <1>9 DEF Remove

LEMMA UpdateInv == STreeInv /\ Update => STreeInv'
<1> SUFFICES ASSUME STreeInv, Update PROVE STreeInv'
  OBVIOUS
<1>1. PICK sub : TreeOf(sub)
  BY DEF STreeInv
<1>2. Tree(left, right, parent, root, Members, sub, Lt)
  BY <1>1 DEF TreeOf
<1>3. /\ pc = "update" /\ n \in Members /\ n # NULL /\ Members \subseteq Keys
      /\ Members \subseteq allocated /\ NULL \notin Members
      /\ PointersOK(left, right, parent) /\ hint \in [Keys -> Nat] /\ n \in Keys
  BY NullIsNoKey DEF STreeInv, Update, STreeTypeOK, Members, Places, PointersOK
<1>4. UNCHANGED <<allocated, pc, op, a, p, result>> /\ Members' = Members
  BY DEF Update, Members
<1>5. \A k \in Pointers : Rank(k) \in Nat
  BY <1>3, NullIsNoKey DEF Rank, Pointers
<1>6. left[n] \in Pointers /\ right[n] \in Pointers
  BY <1>3 DEF PointersOK
<1>7. /\ PointersOK(left', right', parent') /\ Elsewhere(Members)
      /\ \E s2 : Tree(left', right', parent', root', Members, s2, Lt)
  <2>1. CASE st_balance(n) < -1 /\ root' = RootWith(n, right[n]) /\ st_rotate_right(n)
    <3>1. right[n] # NULL
      BY <1>5, <1>6, <2>1 DEF st_balance, Rank
    <3>2. root' = IF n = root THEN right[n] ELSE root
      BY <2>1 DEF RootWith
    <3> QED
      BY <1>2, <1>3, <2>1, <3>1, <3>2, RotateRight
  <2>2. CASE st_balance(n) > 1 /\ root' = RootWith(n, left[n]) /\ st_rotate_left(n)
    <3>1. left[n] # NULL
      BY <1>5, <1>6, <2>2 DEF st_balance, Rank
    <3>2. root' = IF n = root THEN left[n] ELSE root
      BY <2>2 DEF RootWith
    <3> QED
      BY <1>2, <1>3, <2>2, <3>1, <3>2, RotateLeft
  <2>3. CASE UNCHANGED <<root, left, right, parent>>
    BY <1>2, <1>3, <2>3 DEF Elsewhere, PointersOK
  <2> QED
    BY <2>1, <2>2, <2>3 DEF Update, Rotate
<1>8. PICK s2 : Tree(left', right', parent', root', Members, s2, Lt)
  BY <1>7
<1>9. hint' \in [Keys -> Nat]
  <2>1. left'[n] \in Pointers /\ right'[n] \in Pointers
    BY <1>3, <1>7 DEF PointersOK
  <2>2. Larger(Rank(left'[n]), Rank(right'[n])) \in Nat
    BY <1>5, <2>1 DEF Larger
  <2>3. hint' = [hint EXCEPT ![n] = Larger(Rank(left'[n]), Rank(right'[n]))]
    BY DEF Update
  <2> QED
    BY <1>3, <2>2, <2>3
<1>10. n' \in Members \cup {NULL}
  <2>1. parent[n] \in Members \cup {NULL}
    BY <1>2, <1>3, Orders, ParentFacts
  <2>2. n' \in {Above(n), NULL}
    BY DEF Update
  <2> QED
    BY <2>1, <2>2 DEF Above
<1>11. root' \in Pointers /\ n' \in Pointers
  BY <1>3, <1>8, <1>10 DEF Tree, Typed, Pointers
<1>12. STreeTypeOK'
  BY <1>4, <1>7, <1>9, <1>11 DEF STreeInv, STreeTypeOK, PointersOK
<1>13. Blank'
  BY <1>3, <1>4, <1>7 DEF STreeInv, Blank, Elsewhere
<1>14. Places' /\ pc' # "search"
  BY <1>3, <1>4, <1>10 DEF Places
<1> QED
  BY <1>4, <1>8, <1>12, <1>13, <1>14 DEF STreeInv, TreeOf

LEMMA FreeInv == STreeInv /\ Free => STreeInv'
<1> SUFFICES ASSUME STreeInv, Free PROVE STreeInv'
  OBVIOUS
<1>1. PICK sub : TreeOf(sub)
  BY DEF STreeInv
<1>2. Tree(left, right, parent, root, Members, sub, Lt)
  BY <1>1 DEF TreeOf
<1>3. Members = allocated \ {a} /\ Members' = Members /\ a \in Keys
  BY DEF STreeInv, Free, Places, Members, STreeTypeOK
<1>4. STreeTypeOK'
  BY DEF STreeInv, Free, STreeTypeOK, Pointers
<1>5. Blank'
  BY DEF STreeInv, Free, STreeTypeOK, Blank
<1>6. Places' /\ pc' = "idle"
  BY DEF Places, Free
<1>7. Tree(left', right', parent', root, Members, sub, Lt)
  <2>1. \A j \in Members : left'[j] = left[j] /\ right'[j] = right[j] /\ parent'[j] = parent[j]
    BY <1>3 DEF STreeInv, STreeTypeOK, Free
  <2> QED
    BY <1>2, <1>4, <2>1, SameTree DEF STreeTypeOK
<1>8. Tree(left', right', parent', root', Members', sub, Lt)
  BY <1>3, <1>7 DEF Free
<1> QED
  BY <1>4, <1>5, <1>6, <1>8 DEF STreeInv, TreeOf

LEMMA UnderIsMembers ==
    ASSUME STreeInv PROVE Under(root) = Members
<1>1. PICK sub : Tree(left, right, parent, root, Members, sub, Lt)
  BY DEF STreeInv, TreeOf
<1>2. root \in Members \cup {NULL} /\ sub[root] = Members
  BY <1>1 DEF Tree, Typed
<1>3. Under(root) = sub[root]
  BY <1>1, <1>2, Orders, UnderIsSub
<1> QED
  BY <1>2, <1>3

LEMMA DestroyInv == STreeInv /\ Destroy => STreeInv'
<1> SUFFICES ASSUME STreeInv, Destroy PROVE STreeInv'
  OBVIOUS
<1>1. Under(root) = allocated
  BY UnderIsMembers DEF Destroy, Members
<1>2. /\ allocated' = {} /\ root' = NULL /\ pc' = "destroyed"
      /\ left' = [k \in Keys |-> IF k \in allocated THEN NULL ELSE left[k]]
      /\ right' = [k \in Keys |-> IF k \in allocated THEN NULL ELSE right[k]]
      /\ parent' = [k \in Keys |-> IF k \in allocated THEN NULL ELSE parent[k]]
      /\ hint' = [k \in Keys |-> IF k \in allocated THEN 0 ELSE hint[k]]
      /\ UNCHANGED <<op, a, n, p, result>>
  BY <1>1 DEF Destroy
<1>3. STreeTypeOK'
  BY <1>2 DEF STreeInv, STreeTypeOK, Pointers
<1>4. Blank'
  BY <1>2 DEF STreeInv, Blank
<1>5. Places'
  BY <1>2 DEF Places
<1>6. Members' = {}
  BY <1>2 DEF Members
<1>7. Tree(left', right', parent', root', Members', [j \in Pointers |-> {}], Lt)
  BY <1>2, <1>3, <1>6, EmptyTree DEF STreeTypeOK
<1> QED
  BY <1>2, <1>3, <1>4, <1>5, <1>7 DEF STreeInv, TreeOf

LEMMA NextInv == STreeInv /\ [Next]_vars => STreeInv'
<1> SUFFICES ASSUME STreeInv, [Next]_vars PROVE STreeInv'
  OBVIOUS
<1>1. CASE UNCHANGED vars
  <2>1. STreeTypeOK' /\ Blank'
    BY <1>1 DEF STreeInv, STreeTypeOK, Blank, vars
  <2>2. Members' = Members
    BY <1>1 DEF Members, vars
  <2>3. Places'
    BY <1>1, <2>2 DEF STreeInv, Places, vars
  <2>4. ASSUME NEW sub, TreeOf(sub), pc = "search" => OnTheWay(sub)
        PROVE  TreeOf(sub)' /\ (pc = "search" => OnTheWay(sub))'
    BY <1>1, <2>2, <2>4 DEF TreeOf, OnTheWay, vars
  <2> QED
    BY <2>1, <2>3, <2>4 DEF STreeInv
<1>2. CASE Found \/ NotFound \/ UpdateEnd
  <2>1. UNCHANGED <<tree, allocated, op, a, n, p>>
    BY <1>2 DEF Found, NotFound, UpdateEnd
  <2>2. result' \in BOOLEAN
    BY <1>2 DEF Found, NotFound, UpdateEnd, STreeInv, STreeTypeOK
  <2>3. \/ pc = "search" /\ pc' = "idle"
        \/ pc = "update" /\ pc' = IF op = "remove" THEN "free" ELSE "idle"
    BY <1>2 DEF Found, NotFound, UpdateEnd
  <2> QED
    BY <2>1, <2>2, <2>3, EndInv
<1> QED
  BY <1>1, <1>2, CallInv, SearchInv, InsertInv, RemoveInv, UpdateInv, FreeInv, DestroyInv
     DEF Next, Step, Ended

-----------------------------------------------------------------------------
(* The properties *)

\* The inductive invariant of the tree holds always: its pointers are those of
\* one search tree of the nodes it has, whatever its hints are (main.c, line 23
\* to 380).
THEOREM STreeInvariant == Spec => []STreeInv
<1> QED
  BY InitInv, NextInv, PTL DEF Spec

\* The parent pointers agree with the child pointers after every rotation and
\* replacement (st_rotate_left, st_rotate_right, st_replace_left,
\* st_replace_right and st_remove of main.c).
THEOREM ParentsAgreeAlways == Spec => []ParentsAgree
<1>1. STreeInv => ParentsAgree
  <2>1. SUFFICES ASSUME STreeInv PROVE ParentsAgree
    OBVIOUS
  <2>2. PICK sub : Tree(left, right, parent, root, Members, sub, Lt)
    BY <2>1 DEF STreeInv, TreeOf
  <2> QED
    BY <2>2 DEF ParentsAgree, Tree, Typed, Agree
<1> QED
  BY <1>1, STreeInvariant, PTL

\* Rotations and replacements keep the search order and lose no node
\* (treeint_insert, treeint_remove and st_update of main.c).
THEOREM SearchTreeAlways == Spec => []SearchTree
<1>1. STreeInv => SearchTree
  <2>1. SUFFICES ASSUME STreeInv PROVE SearchTree
    OBVIOUS
  <2>2. PICK sub : Tree(left, right, parent, root, Members, sub, Lt)
    BY <2>1 DEF STreeInv, TreeOf
  <2>3. SUFFICES ASSUME NEW k \in Members
                 PROVE  /\ \A m \in Under(left[k]) : m < k
                        /\ \A m \in Under(right[k]) : m > k
    BY <2>1, UnderIsMembers DEF SearchTree
  <2>4. left[k] \in Members \cup {NULL} /\ right[k] \in Members \cup {NULL}
    BY <2>2 DEF Tree, Agree
  <2>5. Under(left[k]) = sub[left[k]] /\ Under(right[k]) = sub[right[k]]
    BY <2>2, <2>4, Orders, UnderIsSub
  <2>6. /\ \A m \in sub[left[k]] : <<m, k>> \in Lt
        /\ \A m \in sub[right[k]] : <<k, m>> \in Lt
    BY <2>2 DEF Tree, Split
  <2>7. k \in Keys /\ sub[left[k]] \subseteq Keys /\ sub[right[k]] \subseteq Keys
    BY <2>2, <2>4 DEF Tree, Typed, Pointers
  <2>8. \A m \in Under(left[k]) : m < k
    <3>1. SUFFICES ASSUME NEW m \in Under(left[k]) PROVE m < k
      OBVIOUS
    <3>2. m \in Keys /\ <<m, k>> \in Lt
      BY <2>5, <2>6, <2>7, <3>1
    <3> QED
      BY <2>7, <3>2, Orders
  <2>9. \A m \in Under(right[k]) : m > k
    <3>1. SUFFICES ASSUME NEW m \in Under(right[k]) PROVE m > k
      OBVIOUS
    <3>2. m \in Keys /\ <<k, m>> \in Lt
      BY <2>5, <2>6, <2>7, <3>1
    <3>3. k < m
      BY <2>7, <3>2, Orders
    <3> QED
      BY <2>7, <3>2, <3>3, STreeAssumption
  <2> QED
    BY <2>8, <2>9
<1> QED
  BY <1>1, STreeInvariant, PTL

LEMMA UnderIsMembersNext == STreeInv' => Under(root)' = Members'
<1>1. STreeInv => Under(root) = Members
  BY UnderIsMembers
<1>2. STreeInv' => (Under(root) = Members)'
  BY <1>1, PTL
<1> QED
  BY <1>2

Calling == IF pc = "search" THEN <<op, a>> ELSE <<"none">>

\* A search that ends has seen whether a is in the tree.
LEMMA SearchAnswers ==
    ASSUME STreeInv, pc = "search"
    PROVE  /\ Members = allocated /\ a \in Keys /\ op \in Ops
           /\ n = a => a \in Members
           /\ n = NULL => a \notin Members
<1>1. PICK sub : TreeOf(sub) /\ OnTheWay(sub)
  BY DEF STreeInv
<1>2. sub[NULL] = {}
  BY <1>1 DEF TreeOf, Tree, Typed
<1>3. a \in Keys /\ a # NULL /\ op \in Ops /\ Members = allocated /\ n \in Members \cup {NULL}
  BY NullIsNoKey DEF STreeInv, STreeTypeOK, Members, Places
<1> QED
  BY <1>1, <1>2, <1>3 DEF OnTheWay

LEMMA RefCall ==
    ASSUME UNCHANGED <<Under(root), result>>, pc = "idle", pc' = "search",
           op' \in Ops, a' \in Keys
    PROVE  Abstract!SetNext
<1>1. Calling = <<"none">> /\ Calling' = <<op', a'>>
  BY DEF Calling
<1>2. Abstract!Call
  BY <1>1 DEF Abstract!Call, Abstract!NoCall, Abstract!Ops, Ops, Calling
<1> QED
  BY <1>2 DEF Abstract!SetNext

LEMMA RefAnswer ==
    ASSUME pc = "search", pc' # "search", op \in Ops,
           result' \in BOOLEAN, result' <=> a \in Under(root),
           op = "insert" => Under(root)' = Under(root) \cup {a},
           op = "find" => Under(root)' = Under(root),
           op = "remove" => Under(root)' = Under(root) \ {a}
    PROVE  Abstract!SetNext
<1>1. Calling = <<op, a>> /\ Calling' = <<"none">> /\ Calling # <<"none">>
  BY DEF Calling
<1>2. Calling[1] = op /\ Calling[2] = a
  BY <1>1
<1>3. result' = (a \in Under(root))
  OBVIOUS
<1>4. Abstract!Answer
  BY <1>1, <1>2, <1>3 DEF Abstract!Answer, Abstract!NoCall, Calling, Ops
<1> QED
  BY <1>4 DEF Abstract!SetNext

LEMMA RefStutter ==
    ASSUME UNCHANGED <<Under(root), result>>,
           \/ UNCHANGED <<pc, op, a>>
           \/ pc # "search" /\ pc' # "search"
    PROVE  UNCHANGED Abstract!setVars
<1>1. Calling' = Calling
  BY DEF Calling
<1> QED
  BY <1>1 DEF Abstract!setVars, Calling

LEMMA NextRefines ==
    STreeInv /\ STreeInv' /\ [Next]_vars => [Abstract!SetNext]_(Abstract!setVars)
<1> SUFFICES ASSUME STreeInv, STreeInv', [Next]_vars
             PROVE  Abstract!SetNext \/ UNCHANGED Abstract!setVars
  OBVIOUS
<1>1. Under(root) = Members /\ Under(root)' = Members'
  BY UnderIsMembers, UnderIsMembersNext
<1>2. CASE UNCHANGED vars
  <2>1. Members' = Members
    BY <1>2 DEF Members, vars
  <2> QED
    BY <1>1, <1>2, <2>1, RefStutter DEF vars
<1>3. CASE Call
  <2>1. Members' = Members
    BY <1>3 DEF Call, Members
  <2> QED
    BY <1>1, <1>3, <2>1, RefCall DEF Call
<1>4. CASE Search
  <2>1. Members' = Members
    BY <1>4 DEF Search, Members
  <2> QED
    BY <1>1, <1>4, <2>1, RefStutter DEF Search
<1>5. CASE Found \/ NotFound \/ Insert \/ Remove
  <2>1. /\ pc = "search" /\ pc' # "search"
        /\ UNCHANGED <<op, a>>
    BY <1>5 DEF Found, NotFound, Insert, Remove
  <2>2. /\ Members = allocated /\ a \in Keys /\ op \in Ops
        /\ n = a => a \in Members
        /\ n = NULL => a \notin Members
    BY <2>1, SearchAnswers
  <2>3. CASE Found
    <3>1. Members' = Members
      BY <2>3 DEF Found, Members
    <3> QED
      BY <1>1, <2>1, <2>2, <2>3, <3>1, RefAnswer DEF Found
  <2>4. CASE NotFound
    <3>1. Members' = Members
      BY <2>4 DEF NotFound, Members
    <3>2. n = NULL /\ op # "insert" /\ result' = FALSE
      BY <2>4 DEF NotFound
    <3>3. a \notin Under(root) /\ Under(root)' = Under(root)
      BY <1>1, <2>2, <3>1, <3>2
    <3>4. Under(root)' = Under(root) \ {a}
      BY <3>3
    <3>5. result' \in BOOLEAN /\ (result' <=> a \in Under(root))
      BY <3>2, <3>3
    <3> QED
      BY <2>1, <2>2, <3>2, <3>3, <3>4, <3>5, RefAnswer
  <2>5. CASE Insert
    <3>1. Members' = Members \cup {a} /\ op = "insert" /\ n = NULL /\ result' = FALSE
      BY <2>2, <2>5 DEF Insert, Members
    <3>2. result' \in BOOLEAN /\ (result' <=> a \in Under(root))
      BY <1>1, <2>2, <3>1
    <3>3. Under(root)' = Under(root) \cup {a}
      BY <1>1, <3>1
    <3> QED
      BY <2>1, <2>2, <3>1, <3>2, <3>3, RefAnswer
  <2>6. CASE Remove
    <3>1. Members' = Members \ {a} /\ op = "remove" /\ n = a /\ result' = TRUE
      BY <2>2, <2>6 DEF Remove, Members
    <3> QED
      BY <1>1, <2>1, <2>2, <3>1, RefAnswer
  <2> QED
    BY <1>5, <2>3, <2>4, <2>5, <2>6
<1>6. CASE Update \/ UpdateEnd \/ Free
  <2>1. /\ pc # "search" /\ pc' # "search" /\ result' = result
    BY <1>6 DEF Update, UpdateEnd, Free
  <2>2. Members' = Members
    BY <1>6 DEF Update, UpdateEnd, Free, Members, STreeInv, Places
  <2> QED
    BY <1>1, <2>1, <2>2, RefStutter
<1>7. CASE Destroy
  <2>1. /\ pc # "search" /\ pc' # "search" /\ result' = result
    BY <1>7 DEF Destroy
  <2>2. Members' = {}
    <3>1. Members = allocated
      BY <1>7 DEF Destroy, Members
    <3> QED
      BY <1>1, <1>7, <3>1 DEF Destroy, Members
  <2>3. Calling = <<"none">> /\ Calling' = <<"none">>
    BY <2>1 DEF Calling
  <2>4. Abstract!Clear
    BY <1>1, <2>1, <2>2, <2>3 DEF Abstract!Clear, Abstract!NoCall, Calling
  <2> QED
    BY <2>4 DEF Abstract!SetNext
<1> QED
  BY <1>2, <1>3, <1>4, <1>5, <1>6, <1>7 DEF Next, Step, Ended

\* Insertions, searches and removals answer like those of a set, and change it
\* at one step; updates and rotations do not change it (treeint_insert,
\* treeint_find, treeint_remove and treeint_destroy of main.c).
THEOREM SetSafetyAlways == Spec => Abstract!SetSafety
<1>1. Init => Abstract!SetInit
  <2>1. SUFFICES ASSUME Init PROVE Abstract!SetInit
    OBVIOUS
  <2>2. Under(root) = {}
    BY <2>1, InitInv, UnderIsMembers DEF Init, Members
  <2>3. Calling = <<"none">>
    BY <2>1 DEF Init, Calling
  <2> QED
    BY <2>1, <2>2, <2>3 DEF Init, Abstract!SetInit, Abstract!NoCall, Calling
<1>2. STreeInv /\ STreeInv' /\ [Next]_vars => [Abstract!SetNext]_(Abstract!setVars)
  BY NextRefines
<1> QED
  BY <1>1, <1>2, STreeInvariant, PTL DEF Spec, Abstract!SetSafety
=============================================================================
