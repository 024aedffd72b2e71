------------------------------ MODULE SearchTree ------------------------------
(* class TreeNode (src/common/database.cpp): the 2-3 tree that finds a block   *)
(* by an address of it, as operators on a heap                                 *)
(*     d = [root, node, block, free]                                           *)
(* node maps each TreeNode to its m_parent, m_child and m_set, block maps each *)
(* AssignableSet, named by its first address, which never changes, to what it  *)
(* holds.  m_set[i] is set[i + 1] and m_child[i] is child[i + 1]: NULL is      *)
(* written Null.  An object that is deleted leaves the domain of its map, so   *)
(* that a use of it is an error of the run and not a value.                    *)
EXTENDS Integers, FiniteSets, Sequences

Null == -1

NodeOf(parent, child, set) == [parent |-> parent, child |-> child, set |-> set]

SetsOf(x)  == {x.set[i] : i \in 1..2} \ {Null}
KidsOf(x)  == {x.child[i] : i \in 1..3} \ {Null}
Fresh(d)   == CHOOSE n \in 0 .. Cardinality(DOMAIN d.node) : n \notin DOMAIN d.node

Without(f, S) == [x \in DOMAIN f \ S |-> f[x]]

(* What setChild does to the nodes that it moves under n.                      *)
Adopt(d, n, kids) ==
    [d EXCEPT !.node = [m \in DOMAIN d.node |->
        IF m \in kids THEN [d.node[m] EXCEPT !.parent = n] ELSE d.node[m]]]

(* ~TreeNode deletes what the node still points to: the callers clear that.    *)
RECURSIVE Below(_, _)
Below(d, n) == {n} \cup UNION {Below(d, c) : c \in KidsOf(d.node[n])}
Discard(d, n) ==
    [d EXCEPT !.node  = Without(@, Below(d, n)),
              !.block = Without(@, UNION {SetsOf(d.node[m]) : m \in Below(d, n)})]

----------------------------------------------------------------------------
(* <<node, slot>> of the block that holds address a; slot 0 where it would be. *)
Holds(d, s, a) == s # Null /\ s <= a /\ a <= d.block[s].last

RECURSIVE Locate(_, _, _)
Locate(d, n, a) ==
    LET x    == d.node[n]
        slot == {i \in 1..2 : Holds(d, x.set[i], a)}
        side == IF a < x.set[1] THEN 1
                ELSE IF x.set[2] = Null \/ a > d.block[x.set[2]].last THEN 3 ELSE 2
    IN  IF slot # {} THEN <<n, CHOOSE i \in slot : \A j \in slot : i <= j>>
        ELSE IF KidsOf(x) = {} THEN <<n, 0>>
        ELSE Locate(d, x.child[side], a)

Search(d, a) ==
    LET at == Locate(d, d.root, a) IN IF at[2] = 0 THEN Null ELSE d.node[at[1]].set[at[2]]

----------------------------------------------------------------------------
(* TreeNode::add of block s and of the subtree item on its right.  A node that *)
(* holds two blocks is split, and the middle one goes up with the new sibling; *)
(* m_root follows its new parent (splitAndInsert).                             *)
HalvesUnordered(x, s, item) ==     \* A slip: the first comparison is left out.
    IF s > x.set[2]
    THEN [up |-> x.set[2], ls |-> x.set[1], lk |-> <<x.child[1], Null, x.child[2]>>,
          rs |-> s, rk |-> <<x.child[3], Null, item>>]
    ELSE [up |-> s, ls |-> x.set[1], lk |-> <<x.child[1], Null, x.child[2]>>,
          rs |-> x.set[2], rk |-> <<item, Null, x.child[3]>>]

Halves(x, s, item) ==
    CASE s < x.set[1] ->
            [up |-> x.set[1], ls |-> s, lk |-> <<x.child[1], Null, item>>,
             rs |-> x.set[2], rk |-> <<x.child[2], Null, x.child[3]>>]
      [] s > x.set[2] ->
            [up |-> x.set[2], ls |-> x.set[1], lk |-> <<x.child[1], Null, x.child[2]>>,
             rs |-> s, rk |-> <<x.child[3], Null, item>>]
      [] OTHER ->
            [up |-> s, ls |-> x.set[1], lk |-> <<x.child[1], Null, x.child[2]>>,
             rs |-> x.set[2], rk |-> <<item, Null, x.child[3]>>]

(* A slip: splitAndInsert does not follow m_root->m_parent.                    *)
GrowKeepingRoot(d, n, up, sib) ==
    LET top == Fresh(d)
    IN  Adopt([d EXCEPT !.node = [m \in DOMAIN d.node \cup {top} |->
                  IF m = top THEN NodeOf(Null, <<n, Null, sib>>, <<up, Null>>) ELSE d.node[m]]],
              top, {n, sib})

(* The root was split: a new root holds the middle block.                      *)
Grow(d, n, up, sib) ==
    LET top == Fresh(d)
    IN  Adopt([d EXCEPT !.root = top, !.node = [m \in DOMAIN d.node \cup {top} |->
                  IF m = top THEN NodeOf(Null, <<n, Null, sib>>, <<up, Null>>) ELSE d.node[m]]],
              top, {n, sib})

RECURSIVE AddTo(_, _, _, _)
AddTo(d, n, s, item) ==
    LET x     == d.node[n]
        h     == Halves(x, s, item)
        sib   == Fresh(d)
        new   == IF s < x.set[1]
                 THEN NodeOf(x.parent, <<x.child[1], item, x.child[3]>>, <<s, x.set[1]>>)
                 ELSE NodeOf(x.parent, <<x.child[1], x.child[3], item>>, <<x.set[1], s>>)
        split == [d EXCEPT !.node = [m \in DOMAIN d.node \cup {sib} |->
                     CASE m = sib -> NodeOf(Null, h.rk, <<h.rs, Null>>)
                       [] m = n   -> NodeOf(x.parent, h.lk, <<h.ls, Null>>)
                       [] OTHER   -> d.node[m]]]
        cut   == Adopt(Adopt(split, sib, {h.rk[1], h.rk[3]}), n, {item} \cap {h.lk[3]})
    IN  IF x.set[2] = Null THEN Adopt([d EXCEPT !.node[n] = new], n, {item})
        ELSE IF x.parent # Null THEN AddTo(cut, x.parent, h.up, sib)
        ELSE Grow(cut, n, h.up, sib)

----------------------------------------------------------------------------
(* A node n that lost its only block has at most child[1] left.  It is at      *)
(* child[at] of its parent p.                                                  *)
ChildIndex(d, n) ==
    CHOOSE i \in 1..3 : d.node[d.node[n].parent].child[i] = n
Wide(d, p) == d.node[p].child[2] # Null

(* Where the sibling and the parent's block between them are.                  *)
LeftOf(d, p, at)  == IF Wide(d, p) THEN [sib |-> at - 1, key |-> at - 1] ELSE [sib |-> 1, key |-> 1]
RightOf(d, p, at) == IF Wide(d, p) THEN [sib |-> at + 1, key |-> at] ELSE [sib |-> 3, key |-> 1]

CanBorrow(d, p, sib) == d.node[d.node[p].child[sib]].set[2] # Null

(* redistribute_left, redistribute_right: a block of the sibling goes up, and  *)
(* the parent's comes down.                                                    *)
BorrowLeft(d, n, p, w) ==
    LET sib == d.node[p].child[w.sib]
        y   == d.node[sib]
    IN  Adopt([d EXCEPT
            !.node[n].set[1]     = d.node[p].set[w.key],
            !.node[p].set[w.key] = y.set[2],
            !.node[n].child      = <<y.child[3], @[2], @[1]>>,
            !.node[sib]          = NodeOf(p, <<y.child[1], Null, y.child[2]>>, <<y.set[1], Null>>)],
            n, {y.child[3]})

BorrowRight(d, n, p, w) ==
    LET sib == d.node[p].child[w.sib]
        y   == d.node[sib]
    IN  Adopt([d EXCEPT
            !.node[n].set[1]     = d.node[p].set[w.key],
            !.node[p].set[w.key] = y.set[1],
            !.node[n].child[3]   = y.child[1],
            !.node[sib]          = NodeOf(p, <<y.child[2], Null, y.child[3]>>, <<y.set[2], Null>>)],
            n, {y.child[1]})

(* redistribute_up, in a parent of two blocks and three children: one of the   *)
(* blocks comes down and the middle child is deleted.                          *)
FoldUp(d, p, at) ==
    LET x   == d.node[p]
        kid == [i \in 1..3 |-> d.node[x.child[i]]]
        r   == CASE at = 1 -> [into |-> 1, set |-> <<x.set[1], kid[2].set[1]>>, left |-> x.set[2],
                               new |-> <<kid[1].child[1], kid[2].child[1], kid[2].child[3]>>]
                 [] at = 2 -> [into |-> 1, set |-> <<kid[1].set[1], x.set[1]>>, left |-> x.set[2],
                               new |-> <<kid[1].child[1], kid[1].child[3], kid[2].child[1]>>]
                 [] at = 3 -> [into |-> 3, set |-> <<kid[2].set[1], x.set[2]>>, left |-> x.set[1],
                               new |-> <<kid[2].child[1], kid[2].child[3], kid[3].child[1]>>]
        into == x.child[r.into]
        gone == x.child[2]
    IN  Discard(Adopt([d EXCEPT
            !.node[into] = NodeOf(p, r.new, r.set),
            !.node[p]    = NodeOf(@.parent, <<@.child[1], Null, @.child[3]>>, <<r.left, Null>>),
            !.node[gone] = NodeOf(p, <<Null, Null, Null>>, <<Null, Null>>)],
            into, {r.new[i] : i \in 1..3}), gone)

(* merge: the parent's only block comes down beside the sibling's, the right   *)
(* child is deleted and the parent itself is now short of a block; a root that *)
(* is gives way to its child.                                                  *)
MergeWith(d, p, at) ==
    LET x    == d.node[p]
        kid  == [i \in {1, 3} |-> d.node[x.child[i]]]
        into == x.child[1]
        new  == IF at = 1 THEN <<kid[1].child[1], kid[3].child[1], kid[3].child[3]>>
                ELSE <<kid[1].child[1], kid[1].child[3], kid[3].child[1]>>
        set  == IF at = 1 THEN <<x.set[1], kid[3].set[1]>> ELSE <<kid[1].set[1], x.set[1]>>
        gone == x.child[3]
    IN  Discard(Adopt([d EXCEPT
            !.node[into] = NodeOf(p, new, set),
            !.node[p]    = NodeOf(@.parent, <<into, Null, Null>>, <<Null, Null>>),
            !.node[gone] = NodeOf(p, <<Null, Null, Null>>, <<Null, Null>>)],
            into, {new[i] : i \in 1..3}), gone)

(* The old root lets go of its child before it is deleted.                     *)
Shorten(d, p, child) ==
    Discard([d EXCEPT !.root = child, !.node[child].parent = Null, !.node[p].child[1] = Null], p)

(* redistribute: the first of the four that is possible, and after a merge the *)
(* parent in its turn.                                                         *)
RECURSIVE Refill(_, _)
Refill(d, n) ==
    LET p  == d.node[n].parent
        at == ChildIndex(d, n)
        l  == LeftOf(d, p, at)
        r  == RightOf(d, p, at)
        m  == MergeWith(d, p, at)
    IN  IF at > 1 /\ CanBorrow(d, p, l.sib) THEN BorrowLeft(d, n, p, l)
        ELSE IF at < 3 /\ CanBorrow(d, p, r.sib) THEN BorrowRight(d, n, p, r)
        ELSE IF d.node[p].set[2] # Null THEN FoldUp(d, p, at)
        ELSE IF m.node[p].parent # Null THEN Refill(m, p)
        ELSE Shorten(m, p, m.node[p].child[1])

(* TreeNode::del: a block of an inner node changes places with the block after *)
(* it, which is in a leaf; the set itself is deleted last.                     *)
RECURSIVE DelAt(_, _, _)
DelAt(d, n, i) ==
    LET x    == d.node[n]
        s    == x.set[i]
        succ == Locate(d, n, d.block[s].last + 1)[1]
    IN  IF KidsOf(x) # {}
        THEN DelAt([d EXCEPT !.node[n].set[i] = d.node[succ].set[1], !.node[succ].set[1] = s], succ, 1)
        ELSE LET out == IF x.set[2] # Null
                        THEN [d EXCEPT !.node[n].set = <<x.set[3 - i], Null>>]
                        ELSE Refill([d EXCEPT !.node[n].set[1] = Null], n)
             IN  [out EXCEPT !.block = Without(@, {s})]
=============================================================================
