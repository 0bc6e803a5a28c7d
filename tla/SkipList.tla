------------------------------ MODULE SkipList ------------------------------
(***************************************************************************)
(* The skip list of timer nodes of zkiplist.cc, as the timer uses it.       *)
(* forward[n][i] is node n's level[i].forward; the header is node 0, and 0  *)
(* as a forward pointer is NULL.  A node's array is allocated for one       *)
(* random level (timer.cc:155) and zsl_insert draws another, so it may      *)
(* write past the array: within the block that malloc gave, which holds     *)
(* Block pointers at least, that changes nothing; fault tells that it wrote *)
(* past the block, after which anything may happen.                         *)
(***************************************************************************)
EXTENDS Integers, Sequences

CONSTANTS MaxLevel,    \* ZSKIPLIST_MAXLEVEL, 32 in the code
          Block        \* 3 with the malloc of glibc and pointers of 8 bytes

Levels == 0 .. MaxLevel - 1

ListInit(Nodes) ==
  [level   |-> 1,
   length  |-> 0,
   fault   |-> FALSE,
   forward |-> [n \in Nodes \cup {0} |-> [i \in Levels |-> 0]]]

\* the last node of level i, from x on, whose score is below that of node
RECURSIVE Walk(_, _, _, _, _)
Walk(z, x, i, node, key) ==
  LET y == z.forward[x][i] IN
  IF y # 0 /\ key[y] < key[node] THEN Walk(z, y, i, node, key) ELSE x

\* zsl_insert's update[i]: each level starts where the one above it stopped
RECURSIVE Before(_, _, _, _)
Before(z, i, node, key) ==
  Walk(z, IF i >= z.level - 1 THEN 0 ELSE Before(z, i + 1, node, key), i, node, key)

\* zsl_insert, of a node with an array of allocated levels, with the level it draws;
\* levels new to the list start at the header
ListInsert(z, node, allocated, level, key) ==
  LET update == [i \in Levels |-> IF i < z.level THEN Before(z, i, node, key) ELSE 0]
      linked(n, i) == CASE i >= level -> z.forward[n][i]
                        [] i < level /\ n = node -> z.forward[update[i]][i]
                        [] i < level /\ n = update[i] -> node
                        [] OTHER -> z.forward[n][i]
  IN [z EXCEPT !.level = IF level > @ THEN level ELSE @,
               !.length = @ + 1,
               !.fault = level > allocated /\ level > Block,
               !.forward = [n \in DOMAIN @ |-> [i \in Levels |-> linked(n, i)]]]

ListMin(z) == z.forward[0][0]

\* zsl_delete_head; the list loses the levels it leaves empty
ListDeleteHead(z) ==
  LET x == ListMin(z)
      header == [i \in Levels |-> IF i < z.level /\ z.forward[0][i] = x
                                    THEN z.forward[x][i] ELSE z.forward[0][i]]
  IN [z EXCEPT !.forward[0] = header,
               !.level = CHOOSE k \in 1 .. z.level :
                           /\ k = 1 \/ header[k - 1] # 0
                           /\ \A j \in k .. z.level - 1 : header[j] = 0,
               !.length = @ - 1]

\* zsl_delete_node: the node and its levels are freed
ListFree(z, n) == [z EXCEPT !.forward[n] = [i \in Levels |-> 0]]

\* the nodes of level i in their order
RECURSIVE From(_, _, _)
From(z, x, i) ==
  IF z.forward[x][i] = 0 THEN <<>>
  ELSE <<z.forward[x][i]>> \o From(z, z.forward[x][i], i)

ListMembers(z) == LET s == From(z, 0, 0) IN {s[i] : i \in DOMAIN s}

\* every level in the order of the scores and part of the level below it,
\* with nothing above the list's level
ListShape(z, key) ==
  /\ z.length = Len(From(z, 0, 0))
  /\ \A i \in Levels : i >= z.level => z.forward[0][i] = 0
  /\ \A i \in 0 .. z.level - 1 :
       LET s == From(z, 0, i) IN
       /\ \A j \in 1 .. Len(s) - 1 : key[s[j]] <= key[s[j + 1]]
       /\ i > 0 => s = SelectSeq(From(z, 0, i - 1),
                                 LAMBDA n : \E j \in DOMAIN s : s[j] = n)

=============================================================================
